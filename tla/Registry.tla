------------------------------ MODULE Registry ------------------------------
(***************************************************************************)
(* What include/beaconizer/loop.h offers to the rest of the library: a     *)
(* registry of watched descriptors, with a mask each, whose callbacks run  *)
(* one at a time.  A callback is started for a descriptor that is          *)
(* registered at that moment; once the loop has been told to stop, the     *)
(* rest of a batch may still be served, and the registry closes.           *)
(***************************************************************************)
CONSTANTS Fd, Mask, NULL

VARIABLES
  watched,   \* descriptor |-> mask it is watched with, or NULL
  serving,   \* the descriptor whose callback is running, or NULL
  stopped    \* the loop has been told to stop

vars == <<watched, serving, stopped>>

Init ==
  /\ watched = [fd \in Fd |-> NULL]
  /\ serving = NULL
  /\ stopped = FALSE

Register(fd, mask) ==
  /\ watched[fd] = NULL
  /\ watched' = [watched EXCEPT ![fd] = mask]
  /\ UNCHANGED <<serving, stopped>>

Update(fd, mask) ==
  /\ watched[fd] # NULL
  /\ watched' = [watched EXCEPT ![fd] = mask]
  /\ UNCHANGED <<serving, stopped>>

Unregister(fd) ==
  /\ watched[fd] # NULL
  /\ watched' = [watched EXCEPT ![fd] = NULL]
  /\ UNCHANGED <<serving, stopped>>

Serve(fd) ==
  /\ serving = NULL
  /\ watched[fd] # NULL \/ stopped
  /\ serving' = fd
  /\ UNCHANGED <<watched, stopped>>

Served ==
  /\ serving # NULL
  /\ serving' = NULL
  /\ UNCHANGED <<watched, stopped>>

Stop ==
  /\ stopped' = TRUE
  /\ UNCHANGED <<watched, serving>>

Close ==
  /\ stopped' = TRUE
  /\ watched' = [fd \in Fd |-> NULL]
  /\ UNCHANGED serving

Next ==
  \/ \E fd \in Fd, mask \in Mask : Register(fd, mask) \/ Update(fd, mask)
  \/ \E fd \in Fd : Unregister(fd) \/ Serve(fd)
  \/ Served \/ Stop \/ Close

Spec == Init /\ [][Next]_vars
=============================================================================
