------------------------------ MODULE Library ------------------------------
(***************************************************************************)
(* The functions of src/src/common/utility.c and src/src/common/db.c that  *)
(* keep nothing, called with any argument, next to the identifiers of      *)
(* module Uid.  What they return does not depend on the bitmap, so one     *)
(* state of it is enough to call them in.                                  *)
(***************************************************************************)
EXTENDS Uid, Db

CONSTANTS
  Appearance,  \* the appearances asked for
  UuidTail     \* tails of the UUIDs asked for

ASSUME ArgumentAssumption ==
  Appearance \subseteq Nat /\ UuidTail \subseteq [0 .. 11 -> Byte]

VARIABLE call  \* the call in progress: the function with its arguments

vars == <<uidVars, call>>

\* Values of "size" bytes, put into a memory whose bytes are all "before".
Conversions ==
  UNION {[fn : {"put"}, order : Order, size : {size}, before : Byte,
          value : 0 .. (Power[size] - 1)] : size \in Size}
Uuids == [fn : {"uuid"}, value : 0 .. (Max32 - 1), tail : UuidTail]
Devs == [fn : {"device"}, appearance : Appearance]
None == [fn |-> "none"]

Init == UidInit /\ call = None

Call(c) == call = None /\ bitmap = {} /\ call' = c /\ UNCHANGED uidVars
Return == call # None /\ call' = None /\ UNCHANGED uidVars

Next ==
  \/ call = None /\ UidNext /\ UNCHANGED call
  \/ \E c \in Conversions \cup Uuids \cup Devs : Call(c)
  \/ Return

Spec == Init /\ [][Next]_vars

-----------------------------------------------------------------------------
PutCall ==
  LET before == [at \in 0 .. 9 |-> call.before]
      after == Put(before, 1, call.size, call.order, call.value)
  IN [before |-> before, after |-> after, got |-> Get(after, 1, call.size, call.order)]

(***************************************************************************)
(* What is put is what is got, in both orders and all sizes, and no other  *)
(* byte is written (utility.c:94-195).  Of 24 bits in the "be" order only  *)
(* the low two bytes are promised: the code loses the third (line 169).    *)
(***************************************************************************)
RoundTrip ==
  call.fn = "put" =>
    /\ PutCall.after \in [0 .. 9 -> Byte]
    /\ \A at \in 0 .. 9 : at \notin 1 .. call.size => PutCall.after[at] = PutCall.before[at]
    /\ PutCall.got % Max16 = call.value % Max16
    /\ call.order = "le" \/ call.size # 3 => PutCall.got = call.value

(***************************************************************************)
(* A UUID has one name, whichever way it is written: in bytes and in text  *)
(* always the same one and never NULL (which src/test/db02.c:47 counts as  *)
(* an error), and, for the UUIDs of the Bluetooth base that the long table *)
(* does not list, the one of the short forms (db.c:985-1064).              *)
(***************************************************************************)
NamesAgree ==
  call.fn = "uuid" =>
    LET bytes == PutWord([at \in 0 .. 15 |-> IF at < 12 THEN call.tail[at] ELSE 0],
                         12, 4, "le", call.value)
        name == uuid2str128(bytes)
        number == detect_vendor([form |-> "number", value |-> call.value])
    IN /\ name # NULL
       /\ <<call.value, call.tail>> \in Uuid128 => name = <<"uuid128", call.value, call.tail>>
       /\ call.tail = BaseTail /\ <<call.value, BaseTail>> \notin Uuid128 =>
            name = number /\ name = uuid2str32(call.value)
       /\ call.value < Max16 => number = uuid2str16(call.value)

(***************************************************************************)
(* detect_device names an appearance by its own row, else by the row of    *)
(* its category, else as "Undefined": never by another category, although  *)
(* the walk takes the last generic row it has passed (db.c:1066-1152).     *)
(***************************************************************************)
DeviceByCategory ==
  call.fn = "device" =>
    LET values == {AppearanceTable[i].value : i \in DOMAIN AppearanceTable}
        category == call.appearance - (call.appearance % 64)
        row == detect_device(call.appearance)
    IN IF call.appearance \in values THEN row = call.appearance
       ELSE IF category \in values \ Undefined THEN row = category
       ELSE row \in Undefined
=============================================================================
