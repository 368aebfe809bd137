----------------------------- MODULE ByteOrder -----------------------------
(***************************************************************************)
(* put_le16 .. put_be64 and get_le16 .. get_be64 of                        *)
(* src/src/common/utility.c, on a memory of bytes, in a base of its own in *)
(* place of 256.  A function is named by its order and its bytes.          *)
(*                                                                         *)
(* A definition marked "mutant" is the one after it with a bug put in; the *)
(* specification does not use it.                                          *)
(***************************************************************************)
EXTENDS Integers

CONSTANT Base  \* values of a byte: 256

ASSUME BaseAssumption == Base \in Nat \ {0}

Byte == 0 .. (Base - 1)
Order == {"le", "be"}
Size == {2, 3, 4, 8}

Power[n \in 0 .. 8] == IF n = 0 THEN 1 ELSE Base * Power[n - 1]

\* The byte of the value at this place, lowest first.
Digit(value, place) == (value \div Power[place]) % Base

\* The place of the byte at an offset, and the offset of the byte of a place.
Offset(size, order, k) == IF order = "le" THEN k ELSE size - 1 - k

\* get_unaligned, put_unaligned of a word of "size" bytes, at "ptr".
PutWord(memory, ptr, size, order, value) ==
  [at \in DOMAIN memory |->
     IF at \in ptr .. (ptr + size - 1) THEN Digit(value, Offset(size, order, at - ptr))
                                       ELSE memory[at]]

GetWord(memory, ptr, size, order) ==
  LET sum[n \in 0 .. size] ==  \* of the n lowest bytes
        IF n = 0 THEN 0
        ELSE sum[n - 1] + (memory[ptr + Offset(size, order, n - 1)] * Power[n - 1])
  IN sum[size]

\* 24 bits are a byte and a word.  put_be24 puts its byte where the word goes.
PutSwapped(memory, ptr, size, order, value) ==                             \* mutant
  IF size # 3 THEN PutWord(memory, ptr, size, order, value)
  ELSE IF order = "le"
  THEN PutWord([memory EXCEPT ![ptr] = Digit(value, 2)], ptr + 1, 2, "le", value)
  ELSE PutWord([memory EXCEPT ![ptr + 2] = Digit(value, 2)], ptr + 1, 2, "be", value)

Put(memory, ptr, size, order, value) ==
  IF size # 3 THEN PutWord(memory, ptr, size, order, value)
  ELSE IF order = "le"
  THEN [PutWord(memory, ptr, 2, "le", value) EXCEPT ![ptr + 2] = Digit(value, 2)]
  ELSE PutWord([memory EXCEPT ![ptr + 2] = Digit(value, 2)], ptr + 1, 2, "be", value)

Get(memory, ptr, size, order) ==
  IF size # 3 THEN GetWord(memory, ptr, size, order)
  ELSE IF order = "le"
  THEN memory[ptr + 2] * Power[2] + GetWord(memory, ptr, 2, "le")
  ELSE memory[ptr] * Power[2] + GetWord(memory, ptr + 1, 2, "be")
=============================================================================
