----------------------------- MODULE MCLibrary -----------------------------
(* An instance of module Library for TLC: bytes of one bit. *)
EXTENDS Library

OtherTail == [at \in 0 .. 11 |-> at % 2]
MCUuidTail == {BaseTail, OtherTail}
MCUuid16 == {1, 3}
MCUuid128 == {<<3, OtherTail>>, <<2, BaseTail>>}
MCAppearance == (0 .. 1300) \cup (3100 .. 3300) \cup (5100 .. 5300) \cup {65535}
=============================================================================
