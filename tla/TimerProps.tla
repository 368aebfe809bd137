----------------------------- MODULE TimerProps -----------------------------
(***************************************************************************)
(* What src/src/common/timer.c promises, as properties of module Timer.    *)
(***************************************************************************)
EXTENDS Timer

TypeOK ==
  /\ now \in 0 .. MaxNow
  /\ timer \in [Fd -> Timerfd \cup {NULL}]
  /\ ids \subseteq Fd /\ batch \subseteq Fd /\ dropped \subseteq Fd
  /\ stopped \in BOOLEAN /\ inside \in BOOLEAN
  /\ called \in Fd \cup {NULL}
  /\ lost \subseteq Fd /\ holed \in BOOLEAN
  /\ fault \in {"none", "dispatch", "table"}
  /\ arms \in 0 .. MaxArms
  /\ failed \in BOOLEAN /\ unmodified \in BOOLEAN

Armed(fd) == fd \in Opened /\ (timer[fd].value # NULL \/ timer[fd].unread)

\* No expiration is lost between the timerfd and the one-shot registration: as
\* long as a timer will expire, or has expired unread, the loop will hear of it
\* or has its event in the batch, however re-arming, expiry and dispatch
\* interleave, unless a loop_modify_sd failed.
NoExpiryLost ==
  ~unmodified =>
    \A fd \in Watched : Armed(fd) => timer[fd].enabled \/ fd \in batch \ dropped

\* The program has the id of every open timerfd, whatever failed, and the table
\* holds every registered timer until a removal damages it.  Until a create_timer
\* fails and returns an id, every open timerfd is registered, an id stands for an
\* open timer as long as the loop has not quit, and the end of the loop leaves no
\* timer behind.
TimersAccounted ==
  /\ Opened \subseteq ids
  /\ ~holed => lost = {}
  /\ ~failed =>
       /\ Opened = Watched
       /\ ~stopped => ids = Opened
       /\ stopped => Opened = {}

\* The timers as the program sees them: a callback runs at most once for each
\* arming, although the event that brings it may have been fetched for an
\* earlier one, and never for a timer disarmed or destroyed since; destroyed means
\* that destroy_timer found it.
Alarm == INSTANCE OneShot WITH
  Id <- Fd, armed <- {fd \in Fd : Armed(fd)}, ringing <- called

RingsOncePerArming == Alarm!Spec

\* An armed timer rings, or is disarmed or destroyed, once loop_run runs.
ArmedRings ==
  \A fd \in Fd :
    inside /\ fd \in Watched /\ Armed(fd) ~> ~Armed(fd) \/ stopped \/ unmodified \/ ~Running

-----------------------------------------------------------------------------
(***************************************************************************)
(* What a comment says and the code does not do.                           *)
(***************************************************************************)
\* "Time interval" (timer.h): a timer rings when the interval given to
\* create_timer or modify_timer has elapsed, not before.
IntervalElapses ==
  [][\A fd \in Fd : Dispatch(fd) /\ called' = fd => now >= timer[fd].due]_vars
=============================================================================
