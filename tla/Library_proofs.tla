--------------------------- MODULE Library_proofs ---------------------------
(***************************************************************************)
(* Proofs about modules Uid, ByteOrder, Db and Library, for bitmaps of any *)
(* width, bytes of any base and tables of any UUIDs.                       *)
(*                                                                         *)
(* Identifiers: util_get_uid sees the bitmap only, so uniqueness among the *)
(* callers needs that every identifier they hold has its bit set.  Words:  *)
(* the sum of the n lowest bytes that put_unaligned writes is the value    *)
(* modulo Power[n].  Appearances: the values of the table rise, and every  *)
(* category but the "Undefined" ones is followed by the next, so that the  *)
(* last generic row passed is the category's own or an "Undefined" one.    *)
(***************************************************************************)
EXTENDS Library, SequenceTheorems, WellFoundedInduction, TLAPS

UidInv == UidTypeOK /\ BitmapExact

-----------------------------------------------------------------------------
(***************************************************************************)
(* ffsll(~bitmap) finds the lowest clear bit: the CHOOSE of Lowest is well *)
(* defined.                                                                *)
(***************************************************************************)
LEMMA LowestClear ==
  ASSUME Clear # {}
  PROVE  Lowest \in Clear /\ \A other \in Clear : Lowest <= other
<1>1. Clear \subseteq Nat
  BY WidthAssumption DEF Clear, Bit
<1>2. PICK bit \in Clear : \A other \in Clear : ~ (<<other, bit>> \in OpToRel(<, Nat))
  BY <1>1, NatLessThanWellFounded, WFMin
<1>3. \A other \in Clear : bit <= other
  <2> TAKE other \in Clear
  <2>1. other \in Nat /\ bit \in Nat
    BY <1>1
  <2>2. ~ (other < bit)
    BY <1>2, <2>1 DEF OpToRel
  <2> QED
    BY <2>1, <2>2
<1> QED
  BY <1>3 DEF Lowest

LEMMA FirstClearFacts ==
  ASSUME bitmap \subseteq Bit
  PROVE  /\ FirstClear \in 0 .. Width
         /\ FirstClear = 0 => Bit \subseteq bitmap
         /\ FirstClear # 0 =>
              /\ FirstClear - 1 \in Bit \ bitmap
              /\ \A bit \in Bit : bit + 1 < FirstClear => bit \in bitmap
<1>1. CASE Clear = {}
  <2>1. FirstClear = 0
    BY <1>1 DEF FirstClear
  <2> QED
    BY <1>1, <2>1, WidthAssumption DEF Clear
<1>2. CASE Clear # {}
  <2>1. Lowest \in Clear /\ \A other \in Clear : Lowest <= other
    BY <1>2, LowestClear
  <2>2. FirstClear = Lowest + 1
    BY <1>2 DEF FirstClear
  <2>3. Lowest \in Bit \ bitmap /\ \A bit \in Bit : bit < Lowest => bit \in bitmap
    BY <2>1, WidthAssumption DEF Clear, Bit
  <2>4. FirstClear \in 1 .. Width /\ FirstClear - 1 = Lowest
    BY <2>2, <2>3, WidthAssumption DEF Bit
  <2>5. \A bit \in Bit : bit + 1 < FirstClear => bit \in bitmap
    BY <2>2, <2>3, WidthAssumption DEF Bit
  <2> QED
    BY <2>3, <2>4, <2>5
<1> QED
  BY <1>1, <1>2

-----------------------------------------------------------------------------
(***************************************************************************)
(* What one call of util_get_uid returns, given that the bitmap is exact.  *)
(***************************************************************************)
LEMMA GetUidReturns ==
  ASSUME UidInv, NEW max \in Id, GetUid(max)
  PROVE  /\ id' \in 0 .. Width
         /\ id' = 0 => \A uid \in 1 .. max : uid \in held \/ uid > Width
         /\ id' # 0 => id' \in (1 .. max) \ held /\ id' - 1 \in Bit
<1> USE WidthAssumption
<1>1. \A uid \in 1 .. Width : uid \in held <=> (uid - 1) \in bitmap
  <2> TAKE uid \in 1 .. Width
  <2>1. bitmap = {taken - 1 : taken \in held} /\ held \subseteq 1 .. Width
    BY DEF UidInv, BitmapExact
  <2>2. \A taken \in held : taken - 1 = uid - 1 => taken = uid
    BY <2>1
  <2> QED
    BY <2>1, <2>2
<1>2. /\ FirstClear \in 0 .. Width
      /\ FirstClear = 0 => Bit \subseteq bitmap
      /\ FirstClear # 0 =>
           /\ FirstClear - 1 \in Bit \ bitmap
           /\ \A bit \in Bit : bit + 1 < FirstClear => bit \in bitmap
  BY FirstClearFacts DEF UidInv, UidTypeOK
<1>3. id' = IF FirstClear > max THEN 0 ELSE FirstClear
  BY DEF GetUid
<1>4. max \in Nat
  BY DEF Id
<1>5. CASE id' = 0
  <2> SUFFICES ASSUME NEW uid \in 1 .. max, uid <= Width
               PROVE  uid \in held
    BY <1>4, <1>5
  <2>1. uid \in 1 .. Width /\ uid - 1 \in Bit
    BY <1>4 DEF Bit
  <2>2. uid - 1 \in bitmap
    BY <1>2, <1>3, <1>4, <1>5, <2>1 DEF Bit
  <2> QED
    BY <1>1, <2>1, <2>2
<1>6. CASE id' # 0
  <2>1. id' = FirstClear /\ FirstClear \in 1 .. Width /\ FirstClear \in 1 .. max
    BY <1>2, <1>3, <1>4, <1>6
  <2>2. FirstClear - 1 \notin bitmap /\ FirstClear - 1 \in Bit
    BY <1>2, <2>1
  <2>3. FirstClear \notin held
    BY <1>1, <2>1, <2>2
  <2> QED
    BY <2>1, <2>2, <2>3
<1> QED
  BY <1>5, <1>6

-----------------------------------------------------------------------------
(***************************************************************************)
(* The bitmap holds exactly the identifiers that callers hold.             *)
(***************************************************************************)
LEMMA UidInvInit == UidInit => UidInv
BY WidthAssumption DEF UidInit, UidInv, UidTypeOK, BitmapExact, Id, Bit

LEMMA GetUidKeeps ==
  ASSUME UidInv, NEW max \in Id, GetUid(max)
  PROVE  UidInv'
<1> USE WidthAssumption
<1>1. id' \in 0 .. Width /\ (id' # 0 => id' - 1 \in Bit)
  BY GetUidReturns
<1>2. CASE id' = 0
  <2>1. bitmap' = bitmap /\ held' = held
    BY <1>2 DEF GetUid
  <2> QED
    BY <1>2, <2>1 DEF UidInv, UidTypeOK, BitmapExact, Id
<1>3. CASE id' # 0
  <2>1. bitmap' = bitmap \cup {id' - 1} /\ held' = held \cup {id'}
    BY <1>3 DEF GetUid
  <2>2. held' \subseteq 1 .. Width
    BY <1>1, <1>3, <2>1 DEF UidInv, BitmapExact
  <2>3. bitmap' = {uid - 1 : uid \in held'}
    BY <2>1 DEF UidInv, BitmapExact
  <2>4. UidTypeOK'
    BY <1>1, <1>3, <2>1 DEF UidInv, UidTypeOK, Id
  <2> QED
    BY <2>2, <2>3, <2>4 DEF UidInv, BitmapExact
<1> QED
  BY <1>2, <1>3

LEMMA ClearUidKeeps ==
  ASSUME UidInv, NEW uid \in Id, ClearUid(uid)
  PROVE  UidInv'
<1> USE WidthAssumption
<1>1. held \subseteq 1 .. Width /\ bitmap = {taken - 1 : taken \in held}
  BY DEF UidInv, BitmapExact
<1>2. held' = held \ {uid} /\ id' = id
  BY DEF ClearUid
<1>3. UidTypeOK'
  BY <1>2 DEF ClearUid, UidInv, UidTypeOK
<1>4. CASE uid = 0 \/ uid > Width
  <2>1. uid \notin held
    BY <1>1, <1>4 DEF Id
  <2>2. held' = held /\ bitmap' = bitmap
    BY <1>2, <1>4, <2>1 DEF ClearUid
  <2>3. BitmapExact'
    BY <1>1, <2>2 DEF BitmapExact
  <2> QED
    BY <1>3, <2>3 DEF UidInv
<1>5. CASE ~ (uid = 0 \/ uid > Width)
  <2>1. bitmap' = bitmap \ {uid - 1}
    BY <1>5 DEF ClearUid
  <2>2. ASSUME NEW taken \in held, taken - 1 = uid - 1
        PROVE  taken = uid
    <3>1. taken \in Int /\ uid \in Int
      BY <1>1 DEF Id
    <3> QED
      BY <2>2, <3>1
  <2>3. bitmap' = {taken - 1 : taken \in held'}
    BY <1>1, <1>2, <2>1, <2>2
  <2> QED
    BY <1>1, <1>2, <1>3, <2>3 DEF UidInv, BitmapExact
<1> QED
  BY <1>4, <1>5

LEMMA UidInvStep == UidInv /\ [UidNext]_uidVars => UidInv'
<1> SUFFICES ASSUME UidInv, [UidNext]_uidVars
             PROVE  UidInv'
  OBVIOUS
<1>1. CASE UidNext
  BY <1>1, GetUidKeeps, ClearUidKeeps DEF UidNext
<1>2. CASE UNCHANGED uidVars
  BY <1>2 DEF uidVars, UidInv, UidTypeOK, BitmapExact
<1> QED
  BY <1>1, <1>2

LEMMA UidInvAlways == UidSpec => []UidInv
BY UidInvInit, UidInvStep, PTL DEF UidSpec

\* The bitmap the callers keep and the identifiers they hold never drift apart,
\* whatever is cleared: util_clear_uid ignores 0 and what is out of the bitmap.
THEOREM BitmapIsExact == UidSpec => []BitmapExact
BY UidInvAlways, PTL DEF UidInv

\* util_get_uid never returns an identifier somebody holds, stays within the
\* limit, and fails only when all identifiers within it are held.
THEOREM UidsAreUnique == UidSpec => UidsUnique
<1>1. UidInv => [\A max \in Id : GetUid(max) =>
                 IF id' = 0 THEN \A uid \in 1 .. max : uid \in held \/ uid > Width
                            ELSE id' \in (1 .. max) \ held]_uidVars
  BY GetUidReturns
<1> QED
  BY <1>1, UidInvAlways, PTL DEF UidsUnique

-----------------------------------------------------------------------------
(***************************************************************************)
(* Induction up to "top", over a set: were some number up to it not in the *)
(* set, its predecessor would be a smaller one.                            *)
(***************************************************************************)
LEMMA UpTo ==
  ASSUME NEW top \in Nat, NEW S,
         0 \in S, \A n \in 1 .. top : n - 1 \in S => n \in S
  PROVE  \A n \in 0 .. top : n \in S
<1> DEFINE Bad == (0 .. top) \ S
<1>1. SUFFICES ASSUME Bad # {}
               PROVE  FALSE
  OBVIOUS
<1>2. PICK n \in Bad : \A other \in Bad : ~ (<<other, n>> \in OpToRel(<, Nat))
  <2>1. Bad \subseteq Nat
    OBVIOUS
  <2> HIDE DEF Bad
  <2> QED
    BY <1>1, <2>1, NatLessThanWellFounded, WFMin
<1>3. n \in 1 .. top /\ n \notin S
  OBVIOUS
<1>4. n - 1 \in Nat /\ n - 1 < n /\ n - 1 \in 0 .. top
  BY <1>3
<1>5. n - 1 \notin Bad
  <2>1. n \in Nat /\ <<n - 1, n>> \in OpToRel(<, Nat)
    BY <1>3, <1>4 DEF OpToRel
  <2> HIDE DEF Bad
  <2> QED
    BY <1>2, <2>1
<1> QED
  BY <1>3, <1>4, <1>5

(***************************************************************************)
(* A function defined by recursion on 0 .. top exists: the one of top - 1  *)
(* is extended.                                                            *)
(***************************************************************************)
Recursion(f, first, step, top) ==
  /\ f \in [0 .. top -> Int]
  /\ f = [n \in 0 .. top |-> IF n = 0 THEN first ELSE step[<<f[n - 1], n>>]]

LEMMA RecursionExtends ==
  ASSUME NEW first \in Int, NEW step \in [Int \X Nat -> Int], NEW top \in Nat,
         NEW f, Recursion(f, first, step, top)
  PROVE  \E g : Recursion(g, first, step, top + 1)
<1> DEFINE g == [n \in 0 .. (top + 1) |-> IF n = top + 1 THEN step[<<f[top], n>>] ELSE f[n]]
<1>1. f \in [0 .. top -> Int]
  BY DEF Recursion
<1>2. \A n \in 0 .. top : f[n] = IF n = 0 THEN first ELSE step[<<f[n - 1], n>>]
  BY DEF Recursion
<1>3. step[<<f[top], top + 1>>] \in Int
  BY <1>1
<1>4. g \in [0 .. (top + 1) -> Int]
  BY <1>1, <1>3
<1>5. ASSUME NEW n \in 0 .. (top + 1)
      PROVE  g[n] = IF n = 0 THEN first ELSE step[<<g[n - 1], n>>]
  <2>1. CASE n = top + 1
    <3>1. n - 1 = top /\ g[top] = f[top] /\ n # 0
      BY <2>1
    <3> QED
      BY <2>1, <3>1
  <2>2. CASE n \in 1 .. top
    <3>1. g[n] = f[n] /\ g[n - 1] = f[n - 1] /\ n # 0 /\ n \in 0 .. top
      BY <2>2
    <3> HIDE DEF g
    <3> QED
      BY <1>2, <3>1
  <2>3. CASE n = 0
    <3>1. g[n] = f[n] /\ n \in 0 .. top
      BY <2>3
    <3> HIDE DEF g
    <3> QED
      BY <1>2, <2>3, <3>1
  <2> QED
    BY <2>1, <2>2, <2>3
<1>6. g = [n \in 0 .. (top + 1) |-> IF n = 0 THEN first ELSE step[<<g[n - 1], n>>]]
  BY <1>5
<1> QED
  BY <1>4, <1>6 DEF Recursion

LEMMA RecursionExists ==
  ASSUME NEW first \in Int, NEW step \in [Int \X Nat -> Int], NEW top \in Nat
  PROVE  \E f : Recursion(f, first, step, top)
<1> DEFINE S == {n \in Nat : \E f : Recursion(f, first, step, n)}
<1>1. 0 \in S
  <2> DEFINE f == [m \in 0 .. 0 |-> first]
  <2>1. f \in [0 .. 0 -> Int]
    OBVIOUS
  <2>2. f = [m \in 0 .. 0 |-> IF m = 0 THEN first ELSE step[<<f[m - 1], m>>]]
    OBVIOUS
  <2> QED
    BY <2>1, <2>2 DEF Recursion
<1>2. ASSUME NEW n \in 1 .. top, n - 1 \in S
      PROVE  n \in S
  <2>1. n - 1 \in Nat /\ (n - 1) + 1 = n /\ n \in Nat
    OBVIOUS
  <2>2. PICK f : Recursion(f, first, step, n - 1)
    BY <1>2
  <2>3. \E g : Recursion(g, first, step, (n - 1) + 1)
    BY <2>1, <2>2, RecursionExtends
  <2> QED
    BY <2>1, <2>3
<1> HIDE DEF S
<1>3. \A n \in 0 .. top : n \in S
  BY <1>1, <1>2, UpTo
<1> QED
  BY <1>3 DEF S

-----------------------------------------------------------------------------
(***************************************************************************)
(* Power is what its recursive definition says.                            *)
(***************************************************************************)
LEMMA PowerEquation ==
  Power = [n \in 0 .. 8 |-> IF n = 0 THEN 1 ELSE Base * Power[n - 1]]
<1> DEFINE step == [p \in Int \X Nat |-> Base * p[1]]
           Eq(f) == f = [n \in 0 .. 8 |-> IF n = 0 THEN 1 ELSE Base * f[n - 1]]
<1>1. step \in [Int \X Nat -> Int]
  BY BaseAssumption
<1>2. PICK f : Recursion(f, 1, step, 8)
  BY <1>1, RecursionExists
<1>3. f \in [0 .. 8 -> Int]
  BY <1>2 DEF Recursion
<1>4. \A n \in 0 .. 8 : n # 0 => step[<<f[n - 1], n>>] = Base * f[n - 1]
  BY <1>3
<1>5. f = [n \in 0 .. 8 |-> IF n = 0 THEN 1 ELSE step[<<f[n - 1], n>>]]
  BY <1>2 DEF Recursion
<1>6. Eq(f)
  BY <1>4, <1>5
<1>7. Power = CHOOSE g : Eq(g)
  BY DEF Power
<1>8. Eq(Power)
  <2> HIDE DEF Eq
  <2> QED
    BY <1>6, <1>7
<1> QED
  BY <1>8

LEMMA PowerStep ==
  /\ Power[0] = 1
  /\ \A n \in 1 .. 8 : Power[n] = Base * Power[n - 1]
BY PowerEquation

LEMMA PowerPositive == \A n \in 0 .. 8 : Power[n] \in Nat /\ Power[n] > 0
<1> DEFINE S == {n \in 0 .. 8 : Power[n] \in Nat /\ Power[n] > 0}
<1>1. 0 \in S
  BY PowerStep
<1>2. ASSUME NEW n \in 1 .. 8, n - 1 \in S
      PROVE  n \in S
  <2> DEFINE p == Power[n - 1]
  <2>1. p \in Nat /\ p > 0 /\ Base \in Nat /\ Base > 0
    BY <1>2, BaseAssumption
  <2>2. Power[n] = Base * p
    BY PowerStep
  <2> HIDE DEF p
  <2>3. Base * p \in Nat /\ Base * p > 0
    BY <2>1
  <2> QED
    BY <2>2, <2>3
<1> HIDE DEF S
<1>3. \A n \in 0 .. 8 : n \in S
  BY <1>1, <1>2, UpTo
<1> QED
  BY <1>3 DEF S

-----------------------------------------------------------------------------
(***************************************************************************)
(* Division with remainder.                                                *)
(***************************************************************************)
LEMMA Remainder ==
  ASSUME NEW a \in Nat, NEW b \in Nat, b > 0
  PROVE  /\ a = (b * (a \div b)) + (a % b)
         /\ a % b \in 0 .. (b - 1)
         /\ a \div b \in Nat
OBVIOUS

LEMMA RemainderIs ==
  ASSUME NEW a \in Nat, NEW b \in Nat, b > 0,
         NEW q \in Int, NEW r \in 0 .. (b - 1), a = (b * q) + r
  PROVE  a % b = r /\ a \div b = q
OBVIOUS

LEMMA Remainders ==
  ASSUME NEW value \in Nat, NEW p \in Nat, p > 0, NEW b \in Nat, b > 0
  PROVE  value % (b * p) = (value % p) + (((value \div p) % b) * p)
<1> DEFINE q == value \div p
           r == value % p
           d == q % b
           e == q \div b
<1>1. value = (p * q) + r /\ r \in 0 .. (p - 1) /\ q \in Nat
  BY Remainder
<1>2. q = (b * e) + d /\ d \in 0 .. (b - 1) /\ e \in Nat
  BY <1>1, Remainder
<1> HIDE DEF q, r, d, e
<1>3. value = ((b * p) * e) + (r + (d * p))
  BY <1>1, <1>2
<1>4. (d * p) + p <= b * p
  BY <1>2
<1>5. r + (d * p) \in 0 .. ((b * p) - 1)
  BY <1>1, <1>2, <1>4
<1>6. b * p \in Nat /\ b * p > 0
  OBVIOUS
<1>7. value % (b * p) = r + (d * p)
  <2>1. ASSUME NEW m \in Nat, m > 0, NEW low \in 0 .. (m - 1), value = (m * e) + low
        PROVE  value % m = low
    BY <1>2, <2>1, RemainderIs
  <2> QED
    BY <1>3, <1>5, <1>6, <2>1
<1> QED
  BY <1>7 DEF q, r, d
-----------------------------------------------------------------------------
(***************************************************************************)
(* Words: what get_unaligned makes of the bytes put_unaligned has written. *)
(***************************************************************************)
LEMMA DigitIsByte ==
  ASSUME NEW value \in Nat, NEW place \in 0 .. 8
  PROVE  Digit(value, place) \in Byte
<1>1. Power[place] \in Nat /\ Power[place] > 0 /\ Base \in Nat /\ Base > 0
  BY PowerPositive, BaseAssumption
<1> DEFINE p == Power[place]
<1> HIDE DEF p
<1>2. (value \div p) % Base \in 0 .. (Base - 1)
  BY <1>1 DEF p
<1> QED
  BY <1>2 DEF Digit, Byte, p

\* The bytes of a word in memory are the digits of the value.
Holds(memory, ptr, size, order, value) ==
  \A place \in 0 .. (size - 1) :
     memory[ptr + Offset(size, order, place)] = Digit(value, place)

LEMMA GetWordValue ==
  ASSUME NEW memory, NEW ptr \in Nat, NEW size \in Size, NEW order \in Order,
         NEW value \in Nat, Holds(memory, ptr, size, order, value)
  PROVE  GetWord(memory, ptr, size, order) = value % Power[size]
<1> DEFINE byte(place) == memory[ptr + Offset(size, order, place)]
           step == [p \in Int \X Nat |-> p[1] + (IF p[2] \in 1 .. size
                                                 THEN byte(p[2] - 1) * Power[p[2] - 1] ELSE 0)]
           Eq(f) == f = [n \in 0 .. size |-> IF n = 0 THEN 0
                                             ELSE f[n - 1] + (byte(n - 1) * Power[n - 1])]
           sum == CHOOSE f : Eq(f)
<1>1. size \in 2 .. 8
  BY DEF Size
<1>2. \A place \in 0 .. (size - 1) :
         /\ byte(place) = Digit(value, place)
         /\ byte(place) \in Int /\ Power[place] \in Int
         /\ byte(place) * Power[place] \in Int
  <2> TAKE place \in 0 .. (size - 1)
  <2>1. place \in 0 .. 8
    BY <1>1
  <2>2. byte(place) = Digit(value, place)
    BY DEF Holds
  <2> HIDE DEF byte
  <2>3. Digit(value, place) \in Byte
    BY <2>1, DigitIsByte
  <2>4. byte(place) \in Int
    BY <2>2, <2>3, BaseAssumption DEF Byte
  <2>5. Power[place] \in Int
    BY <2>1, PowerPositive
  <2> QED
    BY <2>2, <2>4, <2>5
<1> HIDE DEF byte
<1>3. step \in [Int \X Nat -> Int]
  <2>1. ASSUME NEW p \in Int \X Nat
        PROVE  p[1] + (IF p[2] \in 1 .. size THEN byte(p[2] - 1) * Power[p[2] - 1] ELSE 0) \in Int
    <3>1. CASE p[2] \in 1 .. size
      <4>1. p[2] - 1 \in 0 .. (size - 1)
        BY <1>1, <3>1
      <4>2. byte(p[2] - 1) * Power[p[2] - 1] \in Int
        BY <1>2, <4>1
      <4> QED
        BY <3>1, <4>2
    <3> QED
      BY <3>1
  <2> QED
    BY <2>1
<1>4. PICK f : Recursion(f, 0, step, size)
  <2>1. size \in Nat
    BY <1>1
  <2> HIDE DEF step
  <2> QED
    BY <1>3, <2>1, RecursionExists
<1>5. f \in [0 .. size -> Int]
  BY <1>4 DEF Recursion
<1>6. \A n \in 0 .. size : n # 0 => step[<<f[n - 1], n>>] = f[n - 1] + (byte(n - 1) * Power[n - 1])
  <2> TAKE n \in 0 .. size
  <2> HAVE n # 0
  <2>1. n \in 1 .. size /\ n \in Nat /\ f[n - 1] \in Int
    BY <1>1, <1>5
  <2> QED
    BY <2>1
<1>7. f = [n \in 0 .. size |-> IF n = 0 THEN 0 ELSE step[<<f[n - 1], n>>]]
  BY <1>4 DEF Recursion
<1> HIDE DEF step
<1>8. Eq(f)
  BY <1>6, <1>7
<1>9. Eq(sum)
  <2> HIDE DEF Eq
  <2> QED
    BY <1>8
<1>10. GetWord(memory, ptr, size, order) = sum[size]
  BY DEF GetWord, byte
<1>11. sum[0] = 0
  <2>1. 0 \in 0 .. size
    BY <1>1
  <2> HIDE DEF sum
  <2> QED
    BY <1>9, <2>1
<1>12. \A n \in 1 .. size : sum[n] = sum[n - 1] + (byte(n - 1) * Power[n - 1])
  <2> TAKE n \in 1 .. size
  <2>1. n \in 0 .. size /\ n # 0
    BY <1>1
  <2> HIDE DEF sum
  <2> QED
    BY <1>9, <2>1
<1> HIDE DEF sum
<1> DEFINE S == {n \in 0 .. size : sum[n] = value % Power[n]}
<1>13. 0 \in S
  <2>1. value % 1 = 0
    OBVIOUS
  <2> QED
    BY <1>1, <1>11, <2>1, PowerStep
<1>14. ASSUME NEW n \in 1 .. size, n - 1 \in S
       PROVE  n \in S
  <2>1. n \in 1 .. 8 /\ n - 1 \in 0 .. 8 /\ n - 1 \in 0 .. (size - 1)
    BY <1>1
  <2>2. sum[n - 1] = value % Power[n - 1]
    BY <1>14
  <2>3. byte(n - 1) = (value \div Power[n - 1]) % Base
    BY <1>2, <2>1 DEF Digit
  <2>4. value % (Base * Power[n - 1])
          = (value % Power[n - 1]) + (((value \div Power[n - 1]) % Base) * Power[n - 1])
    <3> DEFINE p == Power[n - 1]
    <3>1. p \in Nat /\ p > 0 /\ Base \in Nat /\ Base > 0
      BY <2>1, PowerPositive, BaseAssumption
    <3> HIDE DEF p
    <3>2. value % (Base * p) = (value % p) + (((value \div p) % Base) * p)
      BY <3>1, Remainders
    <3> QED
      BY <3>2 DEF p
  <2>5. sum[n] = value % Power[n]
    BY <1>12, <2>1, <2>2, <2>3, <2>4, PowerStep
  <2> QED
    BY <2>5
<1> HIDE DEF S
<1>15. \A n \in 0 .. size : n \in S
  BY <1>1, <1>13, <1>14, UpTo
<1>16. size \in S
  BY <1>1, <1>15
<1> QED
  BY <1>10, <1>16 DEF S

\* What put_unaligned does to a memory from 0 to "high".
Written(after, before, high, ptr, size, order, value) ==
  /\ after \in [0 .. high -> Byte]
  /\ Holds(after, ptr, size, order, value)
  /\ \A at \in 0 .. high : at \notin ptr .. (ptr + size - 1) => after[at] = before[at]

LEMMA PutWordWrites ==
  ASSUME NEW high \in Nat, NEW memory \in [0 .. high -> Byte],
         NEW ptr \in Nat, NEW size \in Size, NEW order \in Order, NEW value \in Nat,
         ptr + size <= high + 1
  PROVE  Written(PutWord(memory, ptr, size, order, value), memory, high,
                 ptr, size, order, value)
<1> DEFINE after == PutWord(memory, ptr, size, order, value)
<1>1. size \in 2 .. 8
  BY DEF Size
<1>2. after = [at \in 0 .. high |->
                 IF at \in ptr .. (ptr + size - 1)
                 THEN Digit(value, Offset(size, order, at - ptr)) ELSE memory[at]]
  BY DEF PutWord
<1>3. \A k \in 0 .. (size - 1) :
         /\ Offset(size, order, k) \in 0 .. (size - 1)
         /\ Offset(size, order, Offset(size, order, k)) = k
  BY <1>1 DEF Offset
<1> HIDE DEF after
<1>4. ASSUME NEW at \in 0 .. high, at \in ptr .. (ptr + size - 1)
      PROVE  Digit(value, Offset(size, order, at - ptr)) \in Byte
  <2>1. at - ptr \in 0 .. (size - 1)
    BY <1>1, <1>4
  <2>2. Offset(size, order, at - ptr) \in 0 .. (size - 1)
    BY <1>3, <2>1
  <2>3. Offset(size, order, at - ptr) \in 0 .. 8
    BY <1>1, <2>2
  <2> QED
    BY <2>3, DigitIsByte
<1>5. after \in [0 .. high -> Byte]
  BY <1>2, <1>4
<1>6. ASSUME NEW place \in 0 .. (size - 1)
      PROVE  after[ptr + Offset(size, order, place)] = Digit(value, place)
  <2> DEFINE k == Offset(size, order, place)
  <2>1. k \in 0 .. (size - 1) /\ Offset(size, order, k) = place
    BY <1>3
  <2> HIDE DEF k
  <2>2. /\ ptr + k \in 0 .. high
        /\ ptr + k \in ptr .. (ptr + size - 1)
        /\ (ptr + k) - ptr = k
    BY <1>1, <2>1
  <2>3. after[ptr + k] = Digit(value, Offset(size, order, (ptr + k) - ptr))
    BY <1>2, <2>2
  <2> QED
    BY <2>1, <2>2, <2>3 DEF k
<1>7. \A at \in 0 .. high : at \notin ptr .. (ptr + size - 1) => after[at] = memory[at]
  BY <1>2
<1> QED
  BY <1>5, <1>6, <1>7 DEF after, Holds, Written

\* A word put anywhere in a memory is got from there, cut to its bytes, in
\* either order, and the rest of the memory is as before: put_unaligned and
\* get_unaligned after cpu_to_* and before *_to_cpu (utility.c:28-73).
THEOREM WordsComeBack ==
  ASSUME NEW high \in Nat, NEW memory \in [0 .. high -> Byte],
         NEW ptr \in Nat, NEW size \in Size, NEW order \in Order, NEW value \in Nat,
         ptr + size <= high + 1,
         NEW after, after = PutWord(memory, ptr, size, order, value)
  PROVE  /\ GetWord(after, ptr, size, order) = value % Power[size]
         /\ after \in [0 .. high -> Byte]
         /\ \A at \in 0 .. high : at \notin ptr .. (ptr + size - 1) => after[at] = memory[at]
<1>1. Written(after, memory, high, ptr, size, order, value)
  BY PutWordWrites
<1>2. GetWord(after, ptr, size, order) = value % Power[size]
  BY <1>1, GetWordValue DEF Written
<1> QED
  BY <1>1, <1>2 DEF Written

\* Of a value of 24 bits: the high byte, and the word of the others.
LEMMA HighByte ==
  ASSUME NEW value \in 0 .. (Power[3] - 1)
  PROVE  (value % Power[2]) + (Digit(value, 2) * Power[2]) = value
<1> DEFINE p == Power[2]
<1>1. p \in Nat /\ p > 0 /\ Base \in Nat /\ Base > 0
  BY PowerPositive, BaseAssumption
<1>2. Power[3] = Base * p /\ Power[3] \in Nat /\ Power[3] > 0
  BY PowerStep, PowerPositive
<1>3. Digit(value, 2) = (value \div p) % Base
  BY DEF Digit
<1> HIDE DEF p
<1>4. value \in Nat
  BY <1>2
<1>5. value % (Base * p) = (value % p) + (((value \div p) % Base) * p)
  BY <1>1, <1>4, Remainders
<1>6. value % Power[3] = value
  BY <1>2, <1>4
<1> QED
  BY <1>2, <1>3, <1>5, <1>6 DEF p

\* What put_le16 .. put_be64 write, and get_le16 .. get_be64 read back.
LEMMA PutThenGet ==
  ASSUME NEW size \in Size, NEW order \in Order, NEW old \in Byte,
         NEW value \in 0 .. (Power[size] - 1),
         NEW before, before = [at \in 0 .. 9 |-> old],
         NEW after, after = Put(before, 1, size, order, value)
  PROVE  /\ after \in [0 .. 9 -> Byte]
         /\ \A at \in 0 .. 9 : at \notin 1 .. size => after[at] = before[at]
         /\ Get(after, 1, size, order) =
              IF order = "be" /\ size = 3
              THEN (value % Power[2]) + (old * Power[2]) ELSE value
<1>1. size \in 2 .. 8 /\ Power[size] \in Nat /\ value \in Nat
  BY PowerPositive DEF Size
<1>2. before \in [0 .. 9 -> Byte] /\ 0 \in Nat /\ 9 \in Nat
  OBVIOUS
<1>3. Digit(value, 2) \in Byte
  BY <1>1, DigitIsByte
<1>4. Power[2] \in Nat /\ Byte \subseteq Int
  BY PowerPositive, BaseAssumption DEF Byte
<1>5. 2 \in Size /\ "le" \in Order /\ "be" \in Order
  BY DEF Size, Order
<1> DEFINE fits(ptr) == ptr \in Nat /\ ptr + 2 <= 9 + 1
<1>6. fits(1) /\ fits(2)
  OBVIOUS
<1>7. CASE size # 3
  <2>1. after = PutWord(before, 1, size, order, value)
    BY <1>7 DEF Put
  <2>2. 0 <= 1 /\ 1 + size <= 9 + 1
    BY <1>1
  <2>3. Written(after, before, 9, 1, size, order, value)
    BY <1>1, <1>2, <2>1, <2>2, PutWordWrites
  <2>4. GetWord(after, 1, size, order) = value % Power[size]
    BY <1>1, <2>3, GetWordValue DEF Written
  <2>5. value % Power[size] = value
    BY <1>1
  <2>6. Get(after, 1, size, order) = value
    BY <1>7, <2>4, <2>5 DEF Get
  <2>7. 1 + size - 1 = size
    BY <1>1
  <2> QED
    BY <1>7, <2>3, <2>6, <2>7 DEF Written
<1>8. CASE size = 3 /\ order = "le"
  <2> DEFINE word == PutWord(before, 1, 2, "le", value)
  <2>1. Written(word, before, 9, 1, 2, "le", value)
    BY <1>1, <1>2, <1>5, <1>6, PutWordWrites
  <2>2. /\ word \in [0 .. 9 -> Byte]
        /\ Holds(word, 1, 2, "le", value)
        /\ \A at \in 0 .. 9 : at \notin 1 .. 2 => word[at] = before[at]
    <3> HIDE DEF word
    <3> QED
      BY <2>1 DEF Written
  <2>3. after = [word EXCEPT ![3] = Digit(value, 2)]
    BY <1>8 DEF Put
  <2> HIDE DEF word
  <2>4. after \in [0 .. 9 -> Byte] /\ after[3] = Digit(value, 2)
    BY <1>3, <2>2, <2>3
  <2>5. \A at \in 0 .. 9 : at \notin 1 .. 3 => after[at] = before[at]
    BY <2>2, <2>3
  <2>6. Holds(after, 1, 2, "le", value)
    BY <2>2, <2>3 DEF Holds, Offset
  <2>7. GetWord(after, 1, 2, "le") = value % Power[2]
    BY <1>1, <1>5, <2>6, GetWordValue
  <2>8. Get(after, 1, 3, "le") = (Digit(value, 2) * Power[2]) + (value % Power[2])
    BY <2>4, <2>7 DEF Get
  <2>9. (value % Power[2]) + (Digit(value, 2) * Power[2]) = value
    BY <1>8, HighByte
  <2>10. Get(after, 1, 3, "le") = value
    <3> DEFINE high == Digit(value, 2) * Power[2]
               low == value % Power[2]
    <3> HIDE DEF high, low
    <3>1. Power[2] \in Nat /\ Power[2] > 0
      BY PowerPositive
    <3>2. high \in Int
      <4> DEFINE digit == Digit(value, 2)
                 p == Power[2]
      <4>1. digit \in Int /\ p \in Int
        <5>1. Digit(value, 2) \in Int
          BY <1>3, <1>4
        <5>2. Power[2] \in Int
          BY <3>1
        <5> QED
          BY <5>1, <5>2
      <4> HIDE DEF digit, p
      <4>2. digit * p \in Int
        BY <4>1
      <4> QED
        BY <4>2 DEF high, digit, p
    <3>3. low \in Int
      BY <1>1, <3>1 DEF low
    <3>4. Get(after, 1, 3, "le") = high + low /\ low + high = value
      BY <2>8, <2>9 DEF high, low
    <3> QED
      BY <3>2, <3>3, <3>4
  <2> QED
    BY <1>8, <2>4, <2>5, <2>10
<1>9. CASE size = 3 /\ order = "be"
  <2> DEFINE high == [before EXCEPT ![3] = Digit(value, 2)]
  <2>1. /\ high \in [0 .. 9 -> Byte] /\ high[1] = old
        /\ \A at \in 0 .. 9 : at \notin 1 .. 3 => high[at] = before[at]
    BY <1>2, <1>3
  <2>2. after = PutWord(high, 2, 2, "be", value)
    BY <1>9 DEF Put
  <2> HIDE DEF high
  <2>3. Written(after, high, 9, 2, 2, "be", value)
    <3>1. \A ptr \in Nat : ptr + 2 <= 9 + 1 =>
            Written(PutWord(high, ptr, 2, "be", value), high, 9, ptr, 2, "be", value)
      BY <1>1, <1>2, <1>5, <2>1, PutWordWrites
    <3> QED
      BY <1>6, <2>2, <3>1
  <2>4. /\ after \in [0 .. 9 -> Byte]
        /\ Holds(after, 2, 2, "be", value)
        /\ \A at \in 0 .. 9 : at \notin 2 .. 3 => after[at] = high[at]
    BY <2>3 DEF Written
  <2>5. GetWord(after, 2, 2, "be") = value % Power[2]
    BY <1>1, <1>5, <2>4, GetWordValue
  <2>6. after[1] = old
    BY <2>1, <2>4
  <2>7. Get(after, 1, 3, "be") = (old * Power[2]) + (value % Power[2])
    BY <2>5, <2>6 DEF Get
  <2>8. Get(after, 1, 3, "be") = (value % Power[2]) + (old * Power[2])
    <3> DEFINE kept == old * Power[2]
               low == value % Power[2]
    <3>1. old \in Int /\ Power[2] \in Nat /\ Power[2] > 0
      BY <1>4, PowerPositive
    <3>2. kept \in Int
      BY <3>1
    <3>3. low \in Int
      BY <1>1, <3>1
    <3>4. Get(after, 1, 3, "be") = kept + low
      BY <2>7
    <3> HIDE DEF kept, low
    <3>5. Get(after, 1, 3, "be") = low + kept
      BY <3>2, <3>3, <3>4
    <3> QED
      BY <3>5 DEF kept, low
  <2>9. \A at \in 0 .. 9 : at \notin 1 .. 3 => after[at] = before[at]
    BY <2>1, <2>4
  <2> QED
    BY <1>9, <2>4, <2>8, <2>9
<1> QED
  BY <1>7, <1>8, <1>9 DEF Order

-----------------------------------------------------------------------------
(***************************************************************************)
(* Names of UUIDs.                                                         *)
(***************************************************************************)
LEMMA WordsOfUuids == Max16 \in Nat /\ Max16 > 0 /\ Max32 \in Nat /\ Max32 > 0 /\ 0 \in Byte
<1>1. Max16 \in Nat /\ Max16 > 0
  BY PowerPositive DEF Max16
<1>2. Max32 \in Nat /\ Max32 > 0
  BY PowerPositive DEF Max32
<1>3. 0 \in Byte
  BY BaseAssumption DEF Byte
<1> QED
  BY <1>1, <1>2, <1>3

LEMMA ShortNames ==
  ASSUME NEW value \in Nat
  PROVE  /\ uuid2str16(value) \in Name /\ uuid2str32(value) \in Name
         /\ value < Max16 => uuid2str32(value) = uuid2str16(value)
<1>1. \A uuid : uuid2str16(uuid) \in Name
  BY DEF uuid2str16, Name
<1>2. uuid2str32(value) \in Name
  BY <1>1 DEF uuid2str32, Name
<1>3. ASSUME value < Max16
      PROVE  value \div Max16 = 0 /\ value % Max16 = value
  <2> DEFINE max == Max16
  <2>1. max \in Nat /\ max > 0 /\ value < max
    BY <1>3, WordsOfUuids
  <2> HIDE DEF max
  <2>2. value \div max = 0 /\ value % max = value
    BY <2>1
  <2> QED
    BY <2>2 DEF max
<1> QED
  BY <1>1, <1>2, <1>3 DEF uuid2str32

LEMMA NumberNames ==
  ASSUME NEW value \in 0 .. (Max32 - 1)
  PROVE  /\ NumberName(value) = uuid2str32(value)
         /\ value < Max16 => NumberName(value) = uuid2str16(value)
<1>1. value \in Nat /\ value % Max32 = value
  <2> DEFINE max == Max32
  <2>1. max \in Nat /\ value \in 0 .. (max - 1)
    BY WordsOfUuids
  <2> HIDE DEF max
  <2>2. value \in Nat /\ value % max = value
    BY <2>1
  <2> QED
    BY <2>2 DEF max
<1>2. NumberName(value) = IF value >= Max16 THEN uuid2str32(value) ELSE uuid2str16(value)
  BY <1>1 DEF NumberName
<1>3. value >= Max16 \/ value < Max16
  BY <1>1, WordsOfUuids
<1>4. value < Max16 => ~ (value >= Max16)
  BY <1>1, WordsOfUuids
<1> QED
  BY <1>1, <1>2, <1>3, <1>4, ShortNames

\* uuid2str128 looks up the UUID that the 16 bytes are of.
LEMMA LongNames ==
  ASSUME NEW value \in 0 .. (Max32 - 1), NEW tail \in [0 .. 11 -> Byte],
         NEW bytes, bytes = PutWord([at \in 0 .. 15 |-> IF at < 12 THEN tail[at] ELSE 0],
                                    12, 4, "le", value)
  PROVE  uuid2str128(bytes) = UuidName(value, tail)
<1> DEFINE before == [at \in 0 .. 15 |-> IF at < 12 THEN tail[at] ELSE 0]
<1>1. before \in [0 .. 15 -> Byte] /\ \A at \in 0 .. 11 : before[at] = tail[at]
  BY WordsOfUuids
<1>2. bytes = PutWord(before, 12, 4, "le", value)
  OBVIOUS
<1>3. value \in Nat /\ value % Power[4] = value
  <2> DEFINE max == Power[4]
  <2>1. max \in Nat /\ value \in 0 .. (max - 1)
    BY WordsOfUuids DEF Max32
  <2> HIDE DEF max
  <2>2. value \in Nat /\ value % max = value
    BY <2>1
  <2> QED
    BY <2>2 DEF max
<1>4. 4 \in Size /\ "le" \in Order
  BY DEF Size, Order
<1>5. 12 \in Nat /\ 15 \in Nat /\ 12 + 4 <= 15 + 1
  OBVIOUS
<1> HIDE DEF before
<1>6. Written(bytes, before, 15, 12, 4, "le", value)
  BY <1>1, <1>2, <1>3, <1>4, <1>5, PutWordWrites
<1>7. GetWord(bytes, 12, 4, "le") = value
  BY <1>3, <1>4, <1>5, <1>6, GetWordValue DEF Written
<1>8. \A at \in 0 .. 11 : bytes[at] = tail[at]
  BY <1>1, <1>6 DEF Written
<1>9. [at \in 0 .. 11 |-> bytes[at]] = tail
  BY <1>8
<1>10. Get(bytes, 12, 4, "le") = value
  BY <1>7 DEF Get
<1> QED
  BY <1>9, <1>10 DEF uuid2str128, detect_vendor

-----------------------------------------------------------------------------
(***************************************************************************)
(* The shape of __s_c_appearance_table: values rise from row to row, and   *)
(* the rows of multiples of 64 are the generic ones, of the categories in  *)
(* "kinds".                                                                *)
(***************************************************************************)
TableRow == [value : Nat, is_generic : BOOLEAN]

Shaped(rows, from, limit, kinds) ==
  /\ rows \in Seq(TableRow)
  /\ \A i \in 1 .. Len(rows) :
       /\ from <= rows[i].value /\ rows[i].value < limit
       /\ rows[i].is_generic => \E kind \in kinds : rows[i].value = 64 * kind
       /\ ~ rows[i].is_generic => rows[i].value % 64 # 0
  /\ \A i, j \in 1 .. Len(rows) : i < j => rows[i].value < rows[j].value
  /\ \A kind \in kinds : \E i \in 1 .. Len(rows) :
       rows[i].is_generic /\ rows[i].value = 64 * kind

LEMMA ShapesJoin ==
  ASSUME NEW s, NEW t, NEW from \in Nat, NEW limit \in Nat, NEW start \in Nat, NEW end \in Nat,
         NEW some \in SUBSET Nat, NEW others \in SUBSET Nat,
         Shaped(s, from, limit, some), Shaped(t, start, end, others),
         from <= start, limit <= start, limit <= end
  PROVE  Shaped(s \o t, from, end, some \cup others)
<1> DEFINE n == Len(s)
           m == Len(t)
           r == s \o t
<1>1. s \in Seq(TableRow) /\ t \in Seq(TableRow)
  BY DEF Shaped
<1>2. n \in Nat /\ m \in Nat
  BY <1>1
<1>3. /\ r \in Seq(TableRow) /\ Len(r) = n + m
      /\ \A i \in 1 .. (n + m) : r[i] = IF i <= n THEN s[i] ELSE t[i - n]
  BY <1>1, ConcatProperties
<1> HIDE DEF r, n, m
<1>4. /\ \A i \in 1 .. n : i \in 1 .. (n + m) /\ r[i] = s[i]
      /\ \A i \in 1 .. m : i + n \in 1 .. (n + m) /\ r[i + n] = t[i]
      /\ \A i \in 1 .. (n + m) : \/ i \in 1 .. n /\ r[i] = s[i]
                                 \/ i - n \in 1 .. m /\ i > n /\ r[i] = t[i - n]
  BY <1>2, <1>3
<1>5. /\ \A i \in 1 .. n : s[i].value \in Nat /\ from <= s[i].value /\ s[i].value < limit
      /\ \A i \in 1 .. m : t[i].value \in Nat /\ start <= t[i].value /\ t[i].value < end
  <2>1. ASSUME NEW i \in 1 .. n
        PROVE  s[i].value \in Nat /\ from <= s[i].value /\ s[i].value < limit
    <3>1. s[i] \in TableRow
      BY <1>1, ElementOfSeq DEF n
    <3> QED
      BY <3>1 DEF Shaped, TableRow, n
  <2>2. ASSUME NEW i \in 1 .. m
        PROVE  t[i].value \in Nat /\ start <= t[i].value /\ t[i].value < end
    <3>1. t[i] \in TableRow
      BY <1>1, ElementOfSeq DEF m
    <3> QED
      BY <3>1 DEF Shaped, TableRow, m
  <2> QED
    BY <2>1, <2>2
<1>6. ASSUME NEW i \in 1 .. (n + m)
      PROVE  /\ from <= r[i].value /\ r[i].value < end
             /\ r[i].is_generic => \E kind \in some \cup others : r[i].value = 64 * kind
             /\ ~ r[i].is_generic => r[i].value % 64 # 0
  <2>1. CASE i \in 1 .. n /\ r[i] = s[i]
    <3>1. from <= s[i].value /\ s[i].value < end
      BY <1>5, <2>1
    <3>2. /\ s[i].is_generic => \E kind \in some : s[i].value = 64 * kind
          /\ ~ s[i].is_generic => s[i].value % 64 # 0
      BY <2>1 DEF Shaped, n
    <3> QED
      BY <2>1, <3>1, <3>2
  <2>2. CASE i - n \in 1 .. m /\ i > n /\ r[i] = t[i - n]
    <3>1. from <= t[i - n].value /\ t[i - n].value < end
      BY <1>5, <2>2
    <3>2. /\ t[i - n].is_generic => \E kind \in others : t[i - n].value = 64 * kind
          /\ ~ t[i - n].is_generic => t[i - n].value % 64 # 0
      BY <2>2 DEF Shaped, m
    <3> QED
      BY <2>2, <3>1, <3>2
  <2> QED
    BY <1>4, <2>1, <2>2
<1>7. ASSUME NEW i \in 1 .. (n + m), NEW j \in 1 .. (n + m), i < j
      PROVE  r[i].value < r[j].value
  <2>1. CASE i \in 1 .. n /\ r[i] = s[i] /\ j \in 1 .. n /\ r[j] = s[j]
    BY <1>7, <2>1 DEF Shaped, n
  <2>2. CASE i \in 1 .. n /\ r[i] = s[i] /\ j - n \in 1 .. m /\ r[j] = t[j - n]
    BY <1>5, <2>2
  <2>3. CASE i - n \in 1 .. m /\ i > n /\ r[i] = t[i - n] /\ j - n \in 1 .. m /\ r[j] = t[j - n]
    <3>1. i - n < j - n
      BY <1>2, <1>7
    <3> QED
      BY <2>3, <3>1 DEF Shaped, m
  <2> QED
    BY <1>2, <1>4, <1>7, <2>1, <2>2, <2>3
<1>8. ASSUME NEW kind \in some \cup others
      PROVE  \E i \in 1 .. (n + m) : r[i].is_generic /\ r[i].value = 64 * kind
  <2>1. CASE kind \in some
    <3>1. PICK i \in 1 .. n : s[i].is_generic /\ s[i].value = 64 * kind
      BY <2>1 DEF Shaped, n
    <3> QED
      BY <1>4, <3>1
  <2>2. CASE kind \in others
    <3>1. PICK i \in 1 .. m : t[i].is_generic /\ t[i].value = 64 * kind
      BY <2>2 DEF Shaped, m
    <3>2. i + n \in 1 .. (n + m) /\ r[i + n] = t[i]
      BY <1>4
    <3> QED
      BY <3>1, <3>2
  <2> QED
    BY <2>1, <2>2
<1>9. Shaped(r, from, end, some \cup others)
  BY <1>3, <1>6, <1>7, <1>8 DEF Shaped
<1> QED
  BY <1>9 DEF r

LEMMA IsSeqOfRows ==
  ASSUME NEW n \in Nat, NEW rows \in [1 .. n -> TableRow]
  PROVE  rows \in Seq(TableRow) /\ Len(rows) = n
OBVIOUS

LEMMA CategoriesShaped ==
  ASSUME NEW first \in Nat, NEW last \in Nat, first <= last
  PROVE  Shaped(Categories(first, last), 64 * first, (64 * last) + 1, first .. last)
<1> DEFINE n == last - first + 1
           rows == [i \in 1 .. n |-> Generic((first + i - 1) * 64)]
<1>1. n \in Nat /\ rows = Categories(first, last)
  BY DEF Categories
<1>2. \A i \in 1 .. n : /\ rows[i].value = 64 * (first + i - 1) /\ rows[i].is_generic
                        /\ first + i - 1 \in first .. last /\ rows[i] \in TableRow
  BY <1>1 DEF Generic, TableRow
<1>3. rows \in [1 .. n -> TableRow]
  BY <1>2
<1>4. rows \in Seq(TableRow) /\ Len(rows) = n
  <2> HIDE DEF n, rows
  <2> QED
    BY <1>1, <1>3, IsSeqOfRows
<1> HIDE DEF n
<1>5. ASSUME NEW kind \in first .. last
      PROVE  \E i \in 1 .. n : rows[i].is_generic /\ rows[i].value = 64 * kind
  <2> DEFINE i == kind - first + 1
  <2>1. i \in 1 .. n /\ first + i - 1 = kind
    BY DEF n
  <2> HIDE DEF i, rows
  <2>2. rows[i].is_generic /\ rows[i].value = 64 * kind
    BY <1>2, <2>1
  <2> QED
    BY <2>1, <2>2
<1> HIDE DEF rows
<1>6. \A i \in 1 .. n :
         /\ 64 * first <= rows[i].value /\ rows[i].value < (64 * last) + 1
         /\ \E kind \in first .. last : rows[i].value = 64 * kind
  <2> TAKE i \in 1 .. n
  <2> DEFINE kind == first + i - 1
  <2>1. kind \in first .. last /\ rows[i].value = 64 * kind
    BY <1>2
  <2> HIDE DEF kind
  <2> QED
    BY <2>1
<1>7. \A i, j \in 1 .. n : i < j => rows[i].value < rows[j].value
  BY <1>1, <1>2
<1>8. Shaped(rows, 64 * first, (64 * last) + 1, first .. last)
  BY <1>2, <1>4, <1>5, <1>6, <1>7 DEF Shaped
<1> QED
  BY <1>1, <1>8

LEMMA DevicesShaped ==
  ASSUME NEW first \in Nat, NEW last \in Nat, first <= last,
         first % 64 # 0, (first % 64) + (last - first) < 64
  PROVE  Shaped(Devices(first, last), first, last + 1, {})
<1> DEFINE n == last - first + 1
           rows == [i \in 1 .. n |-> Exact(first + i - 1)]
<1>1. n \in Nat /\ rows = Devices(first, last)
  BY DEF Devices
<1>2. \A i \in 1 .. n : /\ rows[i].value = first + i - 1 /\ ~ rows[i].is_generic
                        /\ rows[i] \in TableRow
  BY <1>1 DEF Exact, TableRow
<1>3. rows \in [1 .. n -> TableRow]
  BY <1>2
<1>4. rows \in Seq(TableRow) /\ Len(rows) = n
  <2> HIDE DEF n, rows
  <2> QED
    BY <1>1, <1>3, IsSeqOfRows
<1> HIDE DEF rows
<1>5. \A i \in 1 .. n : /\ first <= rows[i].value /\ rows[i].value < last + 1
                        /\ rows[i].value % 64 # 0
  <2> TAKE i \in 1 .. n
  <2> DEFINE value == first + i - 1
  <2>1. rows[i].value = value
    BY <1>2
  <2>2. first <= value /\ value < last + 1 /\ value % 64 # 0
    OBVIOUS
  <2> QED
    BY <2>1, <2>2
<1>6. \A i, j \in 1 .. n : i < j => rows[i].value < rows[j].value
  BY <1>1, <1>2
<1> HIDE DEF n
<1>7. Shaped(rows, first, last + 1, {})
  BY <1>2, <1>4, <1>5, <1>6 DEF Shaped
<1> QED
  BY <1>1, <1>7

\* The rows of some more categories, or devices, fit at the end of a table.
Table(rows, limit, kinds) ==
  limit \in Nat /\ kinds \in SUBSET Nat /\ Shaped(rows, 0, limit, kinds)

CategoriesFit(limit, kinds, first, last, end, all) ==
  /\ first \in Nat /\ last \in Nat /\ first <= last /\ limit <= 64 * first
  /\ end = (64 * last) + 1 /\ all = kinds \cup (first .. last)

DevicesFit(limit, first, last, end) ==
  /\ first \in Nat /\ last \in Nat /\ first <= last /\ limit <= first /\ end = last + 1
  /\ first % 64 # 0 /\ (first % 64) + (last - first) < 64

LEMMA AddCategories ==
  ASSUME NEW rows, NEW limit, NEW kinds, Table(rows, limit, kinds),
         NEW first, NEW last, NEW end, NEW all,
         CategoriesFit(limit, kinds, first, last, end, all)
  PROVE  Table(rows \o Categories(first, last), end, all)
<1>1. /\ first \in Nat /\ last \in Nat /\ first <= last /\ limit <= 64 * first
      /\ end = (64 * last) + 1 /\ all = kinds \cup (first .. last)
      /\ limit \in Nat /\ kinds \in SUBSET Nat /\ Shaped(rows, 0, limit, kinds)
  BY DEF CategoriesFit, Table
<1>2. Shaped(Categories(first, last), 64 * first, end, first .. last)
  BY <1>1, CategoriesShaped
<1>3. /\ 0 \in Nat /\ 64 * first \in Nat /\ end \in Nat /\ 0 <= 64 * first /\ limit <= end
      /\ first .. last \in SUBSET Nat /\ all \in SUBSET Nat
  BY <1>1
<1>4. Shaped(rows \o Categories(first, last), 0, end, all)
  BY <1>1, <1>2, <1>3, ShapesJoin
<1> QED
  BY <1>3, <1>4 DEF Table

LEMMA AddDevices ==
  ASSUME NEW rows, NEW limit, NEW kinds, Table(rows, limit, kinds),
         NEW first, NEW last, NEW end, DevicesFit(limit, first, last, end)
  PROVE  Table(rows \o Devices(first, last), end, kinds)
<1>1. /\ first \in Nat /\ last \in Nat /\ first <= last /\ limit <= first /\ end = last + 1
      /\ first % 64 # 0 /\ (first % 64) + (last - first) < 64
      /\ limit \in Nat /\ kinds \in SUBSET Nat /\ Shaped(rows, 0, limit, kinds)
  BY DEF DevicesFit, Table
<1>2. Shaped(Devices(first, last), first, end, {})
  BY <1>1, DevicesShaped
<1>3. 0 \in Nat /\ end \in Nat /\ 0 <= first /\ limit <= end /\ {} \in SUBSET Nat
  BY <1>1
<1>4. Shaped(rows \o Devices(first, last), 0, end, kinds \cup {})
  BY <1>1, <1>2, <1>3, ShapesJoin
<1>5. kinds \cup {} = kinds
  OBVIOUS
<1> QED
  BY <1>1, <1>3, <1>4, <1>5 DEF Table

Kinds == (0 .. 19) \cup (49 .. 51) \cup (81 .. 82)

LEMMA TableShaped == Table(AppearanceTable, 5249, Kinds)
<1> DEFINE t1 == Categories(0, 3)
           t2 == t1 \o Devices(193, 193)
           t3 == t2 \o Categories(4, 12)
           t4 == t3 \o Devices(769, 769)
           t5 == t4 \o Categories(13, 13)
           t6 == t5 \o Devices(833, 833)
           t7 == t6 \o Categories(14, 14)
           t8 == t7 \o Devices(897, 898)
           t9 == t8 \o Categories(15, 15)
           t10 == t9 \o Devices(961, 968)
           t11 == t10 \o Categories(16, 17)
           t12 == t11 \o Devices(1089, 1091)
           t13 == t12 \o Categories(18, 18)
           t14 == t13 \o Devices(1153, 1157)
           t15 == t14 \o Categories(19, 19)
           t16 == t15 \o Categories(49, 49)
           t17 == t16 \o Devices(3137, 3138)
           t18 == t17 \o Categories(50, 51)
           t19 == t18 \o Categories(81, 81)
           t20 == t19 \o Devices(5185, 5188)
           t21 == t20 \o Categories(82, 82)
<1>1. AppearanceTable = t21
  BY DEF AppearanceTable
<1> HIDE DEF t1, t2, t3, t4, t5, t6, t7, t8, t9, t10, t11,
            t12, t13, t14, t15, t16, t17, t18, t19, t20, t21
<1>2. /\ DevicesFit(193, 193, 193, 194)
      /\ DevicesFit(769, 769, 769, 770)
      /\ DevicesFit(833, 833, 833, 834)
      /\ DevicesFit(897, 897, 898, 899)
      /\ DevicesFit(961, 961, 968, 969)
      /\ DevicesFit(1089, 1089, 1091, 1092)
      /\ DevicesFit(1153, 1153, 1157, 1158)
      /\ DevicesFit(3137, 3137, 3138, 3139)
      /\ DevicesFit(5185, 5185, 5188, 5189)
  BY DEF DevicesFit
<1>3. /\ CategoriesFit(194, 0 .. 3, 4, 12, 769, 0 .. 12)
      /\ CategoriesFit(770, 0 .. 12, 13, 13, 833, 0 .. 13)
      /\ CategoriesFit(834, 0 .. 13, 14, 14, 897, 0 .. 14)
      /\ CategoriesFit(899, 0 .. 14, 15, 15, 961, 0 .. 15)
      /\ CategoriesFit(969, 0 .. 15, 16, 17, 1089, 0 .. 17)
      /\ CategoriesFit(1092, 0 .. 17, 18, 18, 1153, 0 .. 18)
      /\ CategoriesFit(1158, 0 .. 18, 19, 19, 1217, 0 .. 19)
      /\ CategoriesFit(1217, 0 .. 19, 49, 49, 3137, (0 .. 19) \cup (49 .. 49))
      /\ CategoriesFit(3139, (0 .. 19) \cup (49 .. 49), 50, 51, 3265, (0 .. 19) \cup (49 .. 51))
      /\ CategoriesFit(3265, (0 .. 19) \cup (49 .. 51), 81, 81, 5185, (0 .. 19) \cup (49 .. 51) \cup (81 .. 81))
      /\ CategoriesFit(5189, (0 .. 19) \cup (49 .. 51) \cup (81 .. 81), 82, 82, 5249, (0 .. 19) \cup (49 .. 51) \cup (81 .. 82))
  BY DEF CategoriesFit
<1>4. Table(t1, 193, 0 .. 3)
  <2>1. Shaped(Categories(0, 3), 64 * 0, (64 * 3) + 1, 0 .. 3)
    <3>1. 0 \in Nat /\ 3 \in Nat /\ 0 <= 3
      OBVIOUS
    <3>2. ASSUME NEW first \in Nat, NEW last \in Nat, first <= last
          PROVE  Shaped(Categories(first, last), 64 * first, (64 * last) + 1, first .. last)
      BY <3>2, CategoriesShaped
    <3> QED
      BY <3>1, <3>2
  <2>2. 64 * 0 = 0 /\ (64 * 3) + 1 = 193 /\ 193 \in Nat /\ 0 .. 3 \in SUBSET Nat
    OBVIOUS
  <2> QED
    BY <2>1, <2>2 DEF t1, Table
<1>5. Table(t2, 194, 0 .. 3)
  BY <1>4, <1>2, AddDevices DEF t2
<1>6. Table(t3, 769, 0 .. 12)
  BY <1>5, <1>3, AddCategories DEF t3
<1>7. Table(t4, 770, 0 .. 12)
  BY <1>6, <1>2, AddDevices DEF t4
<1>8. Table(t5, 833, 0 .. 13)
  BY <1>7, <1>3, AddCategories DEF t5
<1>9. Table(t6, 834, 0 .. 13)
  BY <1>8, <1>2, AddDevices DEF t6
<1>10. Table(t7, 897, 0 .. 14)
  BY <1>9, <1>3, AddCategories DEF t7
<1>11. Table(t8, 899, 0 .. 14)
  BY <1>10, <1>2, AddDevices DEF t8
<1>12. Table(t9, 961, 0 .. 15)
  BY <1>11, <1>3, AddCategories DEF t9
<1>13. Table(t10, 969, 0 .. 15)
  BY <1>12, <1>2, AddDevices DEF t10
<1>14. Table(t11, 1089, 0 .. 17)
  BY <1>13, <1>3, AddCategories DEF t11
<1>15. Table(t12, 1092, 0 .. 17)
  BY <1>14, <1>2, AddDevices DEF t12
<1>16. Table(t13, 1153, 0 .. 18)
  BY <1>15, <1>3, AddCategories DEF t13
<1>17. Table(t14, 1158, 0 .. 18)
  BY <1>16, <1>2, AddDevices DEF t14
<1>18. Table(t15, 1217, 0 .. 19)
  BY <1>17, <1>3, AddCategories DEF t15
<1>19. Table(t16, 3137, (0 .. 19) \cup (49 .. 49))
  BY <1>18, <1>3, AddCategories DEF t16
<1>20. Table(t17, 3139, (0 .. 19) \cup (49 .. 49))
  BY <1>19, <1>2, AddDevices DEF t17
<1>21. Table(t18, 3265, (0 .. 19) \cup (49 .. 51))
  BY <1>20, <1>3, AddCategories DEF t18
<1>22. Table(t19, 5185, (0 .. 19) \cup (49 .. 51) \cup (81 .. 81))
  BY <1>21, <1>3, AddCategories DEF t19
<1>23. Table(t20, 5189, (0 .. 19) \cup (49 .. 51) \cup (81 .. 81))
  BY <1>22, <1>2, AddDevices DEF t20
<1>24. Table(t21, 5249, (0 .. 19) \cup (49 .. 51) \cup (81 .. 82))
  BY <1>23, <1>3, AddCategories DEF t21
<1> QED
  BY <1>1, <1>24 DEF Kinds

-----------------------------------------------------------------------------
(***************************************************************************)
(* detect_device walks that table.                                         *)
(***************************************************************************)
LEMMA LastExists ==
  ASSUME NEW n \in Nat, NEW rows \in SUBSET (1 .. n), rows # {}
  PROVE  \E i \in rows : \A j \in rows : j <= i
<1> DEFINE mirror == {n - i : i \in rows}
<1>1. mirror \subseteq Nat /\ mirror # {}
  <2>1. \A i \in rows : i \in 1 .. n
    OBVIOUS
  <2>2. \A i \in rows : n - i \in Nat
    BY <2>1
  <2> QED
    BY <2>2
<1> HIDE DEF mirror
<1>2. PICK low \in mirror : \A other \in mirror : ~ (<<other, low>> \in OpToRel(<, Nat))
  BY <1>1, NatLessThanWellFounded, WFMin
<1>3. PICK i \in rows : low = n - i
  BY DEF mirror
<1>4. ASSUME NEW j \in rows
      PROVE  j <= i
  <2>1. n - j \in mirror /\ n - j \in Nat /\ low \in Nat
    BY <1>1 DEF mirror
  <2>2. ~ (n - j < low)
    BY <1>2, <2>1 DEF OpToRel
  <2> QED
    BY <1>3, <2>1, <2>2
<1> QED
  BY <1>4

LEMMA DeviceNamed ==
  ASSUME NEW appearance \in Nat,
         NEW values, values = {AppearanceTable[i].value : i \in DOMAIN AppearanceTable},
         NEW category, category = appearance - (appearance % 64),
         NEW row, row = detect_device(appearance)
  PROVE  IF appearance \in values THEN row = appearance
         ELSE IF category \in values \ Undefined THEN row = category
         ELSE row \in Undefined
<1> DEFINE n == Len(AppearanceTable)
           all == DOMAIN AppearanceTable
           value(i) == AppearanceTable[i].value
           generic(i) == AppearanceTable[i].is_generic
           Stops == {i \in all : \/ generic(i) /\ appearance < value(i)
                                 \/ value(i) = appearance}
           Walked == {i \in all : \A stop \in Stops : i <= stop}
           Last(rows) == CHOOSE i \in rows : \A j \in rows : j <= i
           Found == {i \in Walked : value(i) = appearance}
           Types == {i \in Walked : generic(i) /\ value(i) <= appearance}
<1>1. /\ AppearanceTable \in Seq(TableRow) /\ n \in Nat /\ all = 1 .. n
      /\ Shaped(AppearanceTable, 0, 5249, Kinds)
  <2>1. Shaped(AppearanceTable, 0, 5249, Kinds)
    BY TableShaped DEF Table
  <2>2. AppearanceTable \in Seq(TableRow)
    BY <2>1 DEF Shaped
  <2>3. n \in Nat /\ all = 1 .. n
    BY <2>2, LenProperties
  <2> QED
    BY <2>1, <2>2, <2>3
<1>2. row = value(Last(IF Found # {} THEN Found ELSE Types))
  BY DEF detect_device
<1>3. \A i \in 1 .. n : value(i) \in Nat /\ generic(i) \in BOOLEAN
  <2> TAKE i \in 1 .. n
  <2>1. AppearanceTable[i] \in TableRow
    BY <1>1, ElementOfSeq
  <2> QED
    BY <2>1 DEF TableRow
<1>4. \A i \in 1 .. n : /\ generic(i) => \E kind \in Kinds : value(i) = 64 * kind
                        /\ ~ generic(i) => value(i) % 64 # 0
  BY <1>1 DEF Shaped
<1>5. \A i, j \in 1 .. n : i < j => value(i) < value(j)
  BY <1>1 DEF Shaped
<1>6. \A kind \in Kinds : \E i \in 1 .. n : generic(i) /\ value(i) = 64 * kind
  BY <1>1 DEF Shaped
<1>7. values = {value(i) : i \in 1 .. n}
  BY <1>1
<1> HIDE DEF n, all, value, generic
\* Rows are as their values are.
<1>8. \A i, j \in 1 .. n : (value(i) < value(j) => i < j) /\ (value(i) = value(j) => i = j)
  <2> TAKE i, j \in 1 .. n
  <2>1. i < j \/ i = j \/ j < i
    BY <1>1
  <2>2. value(i) \in Nat /\ value(j) \in Nat /\ (i < j => value(i) < value(j))
        /\ (j < i => value(j) < value(i))
    BY <1>3, <1>5
  <2> QED
    BY <2>1, <2>2
<1>9. \A i \in 1 .. n : value(i) <= appearance /\ (generic(i) \/ value(i) = appearance)
                          => i \in Walked
  <2> TAKE i \in 1 .. n
  <2> HAVE value(i) <= appearance /\ (generic(i) \/ value(i) = appearance)
  <2>1. ASSUME NEW stop \in Stops
        PROVE  i <= stop
    <3>1. stop \in 1 .. n /\ value(stop) \in Nat /\ value(i) \in Nat
          /\ (value(stop) > appearance \/ value(stop) = appearance)
      BY <1>1, <1>3
    <3>2. value(i) < value(stop) \/ value(i) = value(stop)
      BY <3>1
    <3>3. i < stop \/ i = stop
      BY <1>8, <3>1, <3>2
    <3> QED
      BY <1>1, <3>1, <3>3
  <2> QED
    BY <1>1, <2>1
<1>10. CASE appearance \in values
  <2>1. PICK i \in 1 .. n : value(i) = appearance
    BY <1>7, <1>10
  <2>2. i \in Found /\ \A j \in Found : j = i
    BY <1>1, <1>3, <1>8, <1>9, <2>1
  <2> HIDE DEF Found
  <2>3. Last(Found) = i
    <3>1. \E k \in Found : \A j \in Found : j <= k
      BY <2>1, <2>2
    <3> QED
      BY <2>2, <3>1
  <2> HIDE DEF Last
  <2> QED
    BY <1>2, <1>10, <2>1, <2>2, <2>3
<1>11. CASE appearance \notin values
  <2>1. Found = {}
    <3>1. \A i \in 1 .. n : value(i) # appearance
      BY <1>7, <1>11
    <3>2. Walked \subseteq 1 .. n
      BY <1>1
    <3> HIDE DEF Walked
    <3> QED
      BY <3>1, <3>2
  <2>2. Types \in SUBSET (1 .. n)
    BY <1>1
  <2>3. \A i \in 1 .. n : generic(i) /\ value(i) <= appearance => i \in Types
    BY <1>9
  <2>4. \A i \in Types : generic(i) /\ value(i) <= appearance
    OBVIOUS
  <2> HIDE DEF Found, Types, Walked, Stops
  <2>5. Types # {}
    <3>1. 0 \in Kinds
      BY DEF Kinds
    <3>2. PICK i \in 1 .. n : generic(i) /\ value(i) = 64 * 0
      BY <1>6, <3>1
    <3>3. value(i) <= appearance
      BY <3>2
    <3> QED
      BY <2>3, <3>2, <3>3
  <2> DEFINE last == Last(Types)
  <2>6. last \in Types /\ \A j \in Types : j <= last
    <3>1. \E i \in Types : \A j \in Types : j <= i
      <4>1. n \in Nat
        BY <1>1
      <4> HIDE DEF Last
      <4> QED
        BY <2>2, <2>5, <4>1, LastExists
    <3> QED
      BY <3>1
  <2>7. row = value(last)
    BY <1>2, <2>1
  <2> HIDE DEF Last, last
  <2>8. last \in 1 .. n /\ generic(last) /\ value(last) <= appearance /\ value(last) \in Nat
    BY <1>3, <2>2, <2>4, <2>6
  <2>9. PICK kind \in Kinds : value(last) = 64 * kind
    BY <1>4, <2>8
  <2>10. kind \in Nat
    BY DEF Kinds
  <2>11. category = 64 * (appearance \div 64) /\ appearance \div 64 \in Nat
         /\ category <= appearance /\ appearance < category + 64
    OBVIOUS
  \* The rows of later categories are of appearances above.
  <2>12. ASSUME NEW other \in Kinds, 64 * other <= appearance
         PROVE  other <= kind
    <3>1. PICK i \in 1 .. n : generic(i) /\ value(i) = 64 * other
      BY <1>6
    <3>2. i \in Types
      BY <2>3, <2>12, <3>1
    <3>3. i <= last
      BY <2>6, <3>2
    <3>4. i < last \/ i = last
      BY <2>8, <3>3
    <3>5. value(i) < value(last) \/ value(i) = value(last)
      BY <1>5, <2>8, <3>4
    <3>6. other \in Nat
      BY DEF Kinds
    <3> QED
      BY <2>9, <2>10, <3>1, <3>5, <3>6
  <2>13. CASE category \in values \ Undefined
    <3>1. PICK i \in 1 .. n : value(i) = category
      BY <1>7, <2>13
    <3>2. generic(i)
      <4>1. category % 64 = 0
        BY <2>11
      <4> QED
        BY <1>4, <3>1, <4>1
    <3>3. PICK other \in Kinds : value(i) = 64 * other
      BY <1>4, <3>2
    <3>4. other \in Nat /\ 64 * other <= appearance
      BY <2>11, <3>1, <3>3 DEF Kinds
    <3>5. other <= kind
      BY <2>12, <3>4
    <3>6. category = value(last)
      BY <2>8, <2>9, <2>10, <2>11, <3>1, <3>3, <3>4, <3>5
    <3> QED
      BY <1>11, <2>7, <2>13, <3>6
  <2>14. CASE category \notin values \ Undefined
    <3>1. kind \in {19, 51, 82} \/ kind + 1 \in Kinds
      BY DEF Kinds
    <3>2. CASE kind \in {19, 51, 82}
      <4>1. value(last) \in {1216, 3264, 5248}
        BY <2>9, <3>2
      <4> QED
        BY <1>11, <2>7, <2>14, <4>1 DEF Undefined
    <3>3. CASE kind + 1 \in Kinds
      <4>1. ~ (64 * (kind + 1) <= appearance)
        BY <2>10, <2>12, <3>3
      <4>2. category = value(last)
        BY <2>8, <2>9, <2>10, <2>11, <4>1
      <4>3. category \in values
        BY <1>7, <2>8, <4>2
      <4>4. row \in Undefined
        BY <2>7, <2>14, <4>2, <4>3
      <4> QED
        BY <1>11, <2>14, <4>4
    <3> QED
      BY <3>1, <3>2, <3>3
  <2> QED
    BY <2>13, <2>14
<1> QED
  BY <1>10, <1>11

-----------------------------------------------------------------------------
(***************************************************************************)
(* The theorems: a call is one of those the library is called with, and    *)
(* the lemmas above say what it returns.                                   *)
(***************************************************************************)
CallTypeOK == call \in Conversions \cup Uuids \cup Devs \cup {None}

LEMMA CallTypeAlways == Spec => []CallTypeOK
<1>1. Init => CallTypeOK
  BY DEF Init, CallTypeOK
<1>2. CallTypeOK /\ [Next]_vars => CallTypeOK'
  <2> SUFFICES ASSUME CallTypeOK, [Next]_vars
               PROVE  CallTypeOK'
    OBVIOUS
  <2>1. CASE call' = call
    BY <2>1 DEF CallTypeOK
  <2>2. ASSUME NEW c \in Conversions \cup Uuids \cup Devs, Call(c)
        PROVE  CallTypeOK'
    BY <2>2 DEF Call, CallTypeOK
  <2>3. CASE Return
    BY <2>3 DEF Return, CallTypeOK
  <2> QED
    BY <2>1, <2>2, <2>3 DEF Next, vars
<1> QED
  BY <1>1, <1>2, PTL DEF Spec

\* What is put into memory is what is got from it, in both orders and all
\* sizes, and no other byte is written; of put_be24, which loses the high byte
\* (utility.c:169), the theorem says it of the two low bytes only.
THEOREM WordsRoundTrip == Spec => []RoundTrip
<1>1. CallTypeOK => RoundTrip
  <2> SUFFICES ASSUME CallTypeOK, call.fn = "put"
               PROVE  RoundTrip
    BY DEF RoundTrip
  <2>1. call \in Conversions
    BY DEF CallTypeOK, Uuids, Devs, None
  <2>2. PICK size \in Size : call \in [fn : {"put"}, order : Order, size : {size},
                                       before : Byte, value : 0 .. (Power[size] - 1)]
    BY <2>1 DEF Conversions
  <2>3. /\ call.size \in Size /\ call.order \in Order /\ call.before \in Byte
        /\ call.value \in 0 .. (Power[call.size] - 1)
    BY <2>2
  <2>4. /\ PutCall.after \in [0 .. 9 -> Byte]
        /\ \A at \in 0 .. 9 : at \notin 1 .. call.size => PutCall.after[at] = PutCall.before[at]
        /\ PutCall.got = IF call.order = "be" /\ call.size = 3
                         THEN (call.value % Max16) + (call.before * Max16) ELSE call.value
    BY <2>3, PutThenGet DEF PutCall, Max16
  <2>5. PutCall.got % Max16 = call.value % Max16
    <3>1. Max16 \in Nat /\ Max16 > 0
      BY WordsOfUuids
    <3>2. call.value \in Nat /\ call.before \in Nat
      BY <2>3, PowerPositive DEF Byte, Size
    <3>3. CASE call.order = "be" /\ call.size = 3
      <4> DEFINE low == call.value % Max16
                 old == call.before
                 unit == Max16
      <4>1. low \in 0 .. (unit - 1) /\ unit \in Nat /\ unit > 0 /\ old \in Nat
        BY <3>1, <3>2, Remainder
      <4>2. PutCall.got = low + (old * unit)
        BY <2>4, <3>3
      <4> HIDE DEF low, old, unit
      <4>3. low + (old * unit) \in Nat /\ low + (old * unit) = (unit * old) + low
        BY <4>1
      <4>4. (low + (old * unit)) % unit = low
        BY <4>1, <4>3, RemainderIs
      <4> QED
        BY <4>2, <4>4 DEF low, unit
    <3>4. CASE ~(call.order = "be" /\ call.size = 3)
      BY <2>4, <3>4
    <3> QED
      BY <3>3, <3>4
  <2>6. call.order = "le" \/ call.size # 3 => PutCall.got = call.value
    BY <2>4
  <2> QED
    BY <2>4, <2>5, <2>6 DEF RoundTrip
<1> QED
  BY <1>1, CallTypeAlways, PTL

\* The bytes and the text of a UUID have the same name, which is never NULL,
\* and a UUID of the Bluetooth base has the name of its short forms.
THEOREM NamesOfUuidsAgree == Spec => []NamesAgree
<1>1. CallTypeOK => NamesAgree
  <2> SUFFICES ASSUME CallTypeOK, call.fn = "uuid"
               PROVE  NamesAgree
    BY DEF NamesAgree
  <2>1. call \in Uuids
    BY DEF CallTypeOK, Conversions, Devs, None
  <2> DEFINE value == call.value
             tail == call.tail
             bytes == PutWord([at \in 0 .. 15 |-> IF at < 12 THEN tail[at] ELSE 0],
                              12, 4, "le", value)
             name == uuid2str128(bytes)
             number == detect_vendor([form |-> "number", value |-> value])
  <2>2. value \in 0 .. (Max32 - 1) /\ tail \in [0 .. 11 -> Byte]
    <3>1. call.value \in 0 .. (Max32 - 1) /\ call.tail \in UuidTail
      BY <2>1 DEF Uuids
    <3> QED
      BY <3>1, ArgumentAssumption
  <2>3. number = NumberName(value)
    BY DEF detect_vendor
  <2> HIDE DEF value, tail
  <2>4. name = UuidName(value, tail)
    BY <2>2, LongNames
  <2>5. value \in Nat
    BY <2>2, WordsOfUuids
  <2>6. /\ uuid2str32(value) \in Name
        /\ NumberName(value) = uuid2str32(value)
        /\ value < Max16 => NumberName(value) = uuid2str16(value)
    BY <2>2, <2>5, ShortNames, NumberNames
  <2> HIDE DEF name, number
  <2>7. value # NULL /\ \A other \in Name : other # NULL
    BY <2>5, NullAssumption
  <2>8. UuidName(value, tail) \in Name
    <3>1. CASE <<value, tail>> \in Uuid128
      <4> DEFINE uuid == <<value, tail>>
      <4>1. uuid \in Uuid128 /\ uuid[1] = value /\ uuid[2] = tail
        BY <3>1
      <4>2. <<"uuid128", uuid[1], uuid[2]>> \in Name
        BY <4>1 DEF Name
      <4>3. UuidName(value, tail) = <<"uuid128", value, tail>>
        BY <3>1 DEF UuidName
      <4> QED
        BY <4>1, <4>2, <4>3
    <3>2. CASE <<value, tail>> \notin Uuid128
      BY <2>6, <2>7, <3>2 DEF UuidName, Name
    <3> QED
      BY <3>1, <3>2
  <2>9. /\ name # NULL
        /\ <<value, tail>> \in Uuid128 => name = <<"uuid128", value, tail>>
        /\ tail = BaseTail /\ <<value, BaseTail>> \notin Uuid128 =>
             name = number /\ name = uuid2str32(value)
        /\ value < Max16 => number = uuid2str16(value)
    <3>1. name # NULL
      BY <2>4, <2>7, <2>8
    <3>2. <<value, tail>> \in Uuid128 => name = <<"uuid128", value, tail>>
      BY <2>4 DEF UuidName
    <3>3. tail = BaseTail /\ <<value, BaseTail>> \notin Uuid128 => name = uuid2str32(value)
      BY <2>4, <2>7 DEF UuidName
    <3> QED
      BY <2>3, <2>6, <3>1, <3>2, <3>3
  <2> QED
    BY <2>9 DEF NamesAgree, name, number, value, tail
<1> QED
  BY <1>1, CallTypeAlways, PTL

\* detect_device names an appearance by its own row, by the row of its
\* category or as "Undefined", whatever number it is asked for.
THEOREM DevicesByCategory == Spec => []DeviceByCategory
<1>1. CallTypeOK => DeviceByCategory
  <2> SUFFICES ASSUME CallTypeOK, call.fn = "device"
               PROVE  DeviceByCategory
    BY DEF DeviceByCategory
  <2>1. call \in Devs
    BY DEF CallTypeOK, Conversions, Uuids, None
  <2>2. call.appearance \in Nat
    <3>1. call.appearance \in Appearance
      BY <2>1 DEF Devs
    <3> QED
      BY <3>1, ArgumentAssumption
  <2> DEFINE values == {AppearanceTable[i].value : i \in DOMAIN AppearanceTable}
             category == call.appearance - (call.appearance % 64)
             row == detect_device(call.appearance)
  <2>3. IF call.appearance \in values THEN row = call.appearance
        ELSE IF category \in values \ Undefined THEN row = category
        ELSE row \in Undefined
    <3> DEFINE asked == call.appearance
    <3>1. asked \in Nat
      BY <2>2
    <3> HIDE DEF asked
    <3>2. \A all, of, named :
             /\ all = {AppearanceTable[i].value : i \in DOMAIN AppearanceTable}
             /\ of = asked - (asked % 64)
             /\ named = detect_device(asked)
             => IF asked \in all THEN named = asked
                ELSE IF of \in all \ Undefined THEN named = of
                ELSE named \in Undefined
      BY <3>1, DeviceNamed
    <3> QED
      BY <3>2 DEF asked
  <2> QED
    BY <2>3 DEF DeviceByCategory
<1> QED
  BY <1>1, CallTypeAlways, PTL

\* What the library is called with does not touch the identifiers, so the
\* library's own specification implements that of the bitmap.
THEOREM LibraryKeepsUids == Spec => UidSpec /\ []BitmapExact /\ UidsUnique
<1>1. Init => UidInit
  BY DEF Init
<1>2. [Next]_vars => [UidNext]_uidVars
  BY DEF Next, vars, Call, Return, uidVars
<1> QED
  BY <1>1, <1>2, BitmapIsExact, UidsAreUnique, PTL DEF Spec, UidSpec
=============================================================================
