----------------------------- MODULE MCIBeacon -----------------------------
(* An instance of module IBeacon for TLC: UUIDs of two bytes of two digits. *)
EXTENDS IBeacon

MCLimit == [mode |-> 1, hci |-> 2, major |-> 2, minor |-> 2]
MCLength == [name |-> 2, password |-> 3, serial |-> 1]
MCDefault == [mode |-> 0, hci |-> 0, major |-> 0, minor |-> 0, advertize |-> 1,
              tx_power |-> -1, name |-> 1, password |-> 3, serial |-> 1]
MCNumber == {-1, 2, 5}
MCRandom == {[j \in 0 .. 1 |-> 3]}
=============================================================================
