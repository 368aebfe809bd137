-------------------------------- MODULE Uid --------------------------------
(***************************************************************************)
(* The identifiers of src/src/common/utility.c: util_get_uid hands out the *)
(* lowest free bit of a bitmap its callers keep, util_clear_uid takes an   *)
(* identifier back.                                                        *)
(*                                                                         *)
(* A definition marked "mutant" is the one after it with a bug put in; the *)
(* specification does not use it.                                          *)
(***************************************************************************)
EXTENDS Integers

CONSTANTS
  Width,  \* bits of the bitmap: 64
  MaxId   \* the largest uint8_t: 255

ASSUME WidthAssumption == Width \in Nat /\ MaxId \in Nat /\ Width <= MaxId

Bit == 0 .. (Width - 1)
Id == 0 .. MaxId

VARIABLES
  bitmap,  \* the bits that are set
  held,    \* history: identifiers handed out and not cleared since
  id       \* the last result of util_get_uid

uidVars == <<bitmap, held, id>>

UidInit == bitmap = {} /\ held = {} /\ id = 0

\* ffsll(~bitmap): one more than the lowest clear bit, 0 when there is none.
Clear == Bit \ bitmap
Lowest == CHOOSE bit \in Clear : \A other \in Clear : bit <= other
FirstClear == IF Clear = {} THEN 0 ELSE Lowest + 1

GetUidUnmarked(max) ==                                                     \* mutant
  /\ id' = IF FirstClear > max THEN 0 ELSE FirstClear
  /\ bitmap' = IF id' = 0 THEN bitmap ELSE bitmap \cup ({id'} \cap Bit)
  /\ held' = held \cup ({id'} \ {0})

GetUid(max) ==
  /\ id' = IF FirstClear > max THEN 0 ELSE FirstClear
  /\ bitmap' = IF id' = 0 THEN bitmap ELSE bitmap \cup {id' - 1}
  /\ held' = held \cup ({id'} \ {0})

\* util_clear_uid, of any identifier: 0 and those above Width are ignored.
ClearUid(uid) ==
  /\ bitmap' = IF uid = 0 \/ uid > Width THEN bitmap ELSE bitmap \ {uid - 1}
  /\ held' = held \ {uid}
  /\ UNCHANGED id

UidNext == \E number \in Id : GetUid(number) \/ ClearUid(number)

UidSpec == UidInit /\ [][UidNext]_uidVars

-----------------------------------------------------------------------------
(***************************************************************************)
(* An identifier is unique until it is cleared, whatever callers clear and *)
(* whichever limits they ask for, up to the last bit of the bitmap and     *)
(* with limits beyond it; and 0, which means failure, is returned only     *)
(* when all identifiers up to the limit are taken (utility.c:334-341).     *)
(***************************************************************************)
UidsUnique ==
  [][\A max \in Id : GetUid(max) =>
       IF id' = 0 THEN \A uid \in 1 .. max : uid \in held \/ uid > Width
                  ELSE id' \in (1 .. max) \ held]_uidVars

\* The bitmap says exactly who is held.
BitmapExact == bitmap = {uid - 1 : uid \in held} /\ held \subseteq 1 .. Width

UidTypeOK == bitmap \subseteq Bit /\ held \subseteq Id /\ id \in Id
=============================================================================
