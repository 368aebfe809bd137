------------------------------- MODULE OneShot -------------------------------
(***************************************************************************)
(* What include/beaconizer/timer.h offers: timers that ring once each time *)
(* they are armed, one at a time, and not after they were disarmed or      *)
(* destroyed.                                                              *)
(***************************************************************************)
CONSTANTS Id, NULL

VARIABLES
  armed,   \* timers that will ring
  ringing  \* the timer whose callback is running, or NULL

vars == <<armed, ringing>>

Init == armed = {} /\ ringing = NULL

\* create_timer, modify_timer with an interval.
Arm(id) == armed' = armed \cup {id} /\ UNCHANGED ringing

\* destroy_timer, modify_timer with interval 0; the end of the loop disarms all.
Disarm(ids) == armed' = armed \ ids /\ UNCHANGED ringing

Ring(id) ==
  /\ id \in armed /\ ringing = NULL
  /\ armed' = armed \ {id}
  /\ ringing' = id

Silence == ringing' = NULL /\ UNCHANGED armed

Next ==
  \/ \E id \in Id : Arm(id) \/ Ring(id)
  \/ \E ids \in SUBSET Id : Disarm(ids)
  \/ Silence

Spec == Init /\ [][Next]_vars
=============================================================================
