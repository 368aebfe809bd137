-------------------------------- MODULE Timer --------------------------------
(***************************************************************************)
(* The timers of src/src/common/timer.c: timerfds that the event loop      *)
(* watches with EPOLLIN and EPOLLONESHOT, so that a timer is silent after  *)
(* an event until modify_timer arms it again.                              *)
(*                                                                         *)
(* A timer is known by its descriptor.  Of the loop this module keeps the  *)
(* one-shot registrations, the batch and the timers that its table has     *)
(* lost (module Loop has the rest); of the kernel, the timerfd: when it    *)
(* expires and whether an expiration is still to be read.  The program     *)
(* creates, re-arms and destroys timers outside loop_run or in their       *)
(* callbacks.  The program's destructors only release its data.  No step   *)
(* follows a fault.                                                        *)
(*                                                                         *)
(* A definition marked "mutant" is the one after it with a bug put in; the *)
(* specification does not use it.                                          *)
(***************************************************************************)
EXTENDS Naturals

CONSTANTS
  Fd,        \* descriptors
  Interval,  \* time intervals the program asks for
  MaxNow,    \* bound: the clock stops here
  MaxArms,   \* bound: calls of create_timer and modify_timer
  NULL       \* no value: a timerfd that is not armed, no timer

ASSUME IntervalAssumption == Interval \subseteq 0 .. MaxNow
ASSUME BoundsAssumption == MaxNow \in Nat /\ MaxArms \in Nat
ASSUME NullAssumption == NULL \notin Fd /\ NULL \notin Nat

Timerfd == [
  value : Nat \cup {NULL},  \* it_value: when it expires, NULL when disarmed
  unread : BOOLEAN,         \* it has expired and was not read since
  watched : BOOLEAN,        \* it is registered with epoll
  enabled : BOOLEAN,        \* and has reported no event since it was armed
  due : Nat]                \* history: when the interval asked for is over

ASSUME NullTimerAssumption == NULL \notin Timerfd

VARIABLES
  now,        \* CLOCK_MONOTONIC
  timer,      \* descriptor |-> open timerfd, or NULL
  ids,        \* timer ids the program got and has not destroyed
  batch,      \* events of the current batch still to be dispatched
  dropped,    \* timers destroyed while their event is in the batch
  stopped,    \* the loop has been told to quit
  inside,     \* loop_run is running
  called,     \* the timer whose callback is running, or NULL
  lost,       \* timers registered with epoll that the loop's table has lost
  fault,      \* the first undefined behaviour
  arms,       \* calls of create_timer and modify_timer so far
  failed,     \* history: create_timer failed and returned an id
  unmodified, \* history: a loop_modify_sd failed
  holed       \* history: a slot of the table other than the last was removed

loop == <<batch, dropped, stopped, inside>>
damage == <<lost, holed>>
history == <<failed, unmodified>>
vars == <<now, timer, ids, loop, called, damage, fault, arms, history>>

-----------------------------------------------------------------------------
Running == fault = "none"
Opened == {fd \in Fd : timer[fd] # NULL}
Watched == {fd \in Opened : timer[fd].watched}
Listed == Watched \ lost
Ready == {fd \in Watched : timer[fd].enabled /\ timer[fd].unread}

(***************************************************************************)
(* loop_remove_sd moves the slots after the one it removes but for the     *)
(* last, which is cut off: a removal may lose one timer of those that stay *)
(* listed, or an entry of another user of the loop, and leaves an entry it *)
(* has freed, or an entry twice, among the slots in use.                   *)
(***************************************************************************)
Shifted(listed) ==
  /\ holed' = TRUE
  /\ lost' \in {lost} \cup {lost \cup {fd} : fd \in listed}

\* The program may call the functions of timer.h and loop.h.
UserCode == Running /\ (~inside \/ called # NULL)

Arming == arms < MaxArms /\ arms' = arms + 1

\* timeout_set gives the interval to timerfd_settime as an absolute time (the
\* value of CLOCK_MONOTONIC as flags is TFD_TIMER_ABSTIME); 0 disarms.
TimeoutSetRemaining(fd, interval) ==                                       \* mutant
  [timer[fd] EXCEPT
     !.value = IF interval = 0 THEN NULL ELSE interval - now,
     !.unread = FALSE, !.due = now + interval]

TimeoutSet(fd, interval) ==
  [timer[fd] EXCEPT
     !.value = IF interval = 0 THEN NULL ELSE interval,
     !.unread = FALSE, !.due = now + interval]

Init ==
  /\ now \in 0 .. MaxNow
  /\ timer = [fd \in Fd |-> NULL] /\ ids = {}
  /\ batch = {} /\ dropped = {} /\ stopped = FALSE /\ inside = FALSE
  /\ called = NULL /\ fault = "none" /\ arms = 0
  /\ failed = FALSE /\ unmodified = FALSE
  /\ lost = {} /\ holed = FALSE

(***************************************************************************)
(* create_timer.  When epoll_ctl refuses the descriptor, loop_add_sd       *)
(* returns a positive errno, which is taken for a success; when            *)
(* timerfd_create fails, a positive errno is returned as the id.  A        *)
(* negative result of loop_add_sd, or of timerfd_settime, leaves nothing   *)
(* behind.                                                                 *)
(***************************************************************************)
Created(interval, watched) == [
  value |-> IF interval = 0 THEN NULL ELSE interval, unread |-> FALSE,
  watched |-> watched, enabled |-> watched, due |-> now + interval]

CreateTimer(fd, interval) ==
  /\ UserCode /\ Arming
  /\ timer[fd] = NULL
  /\ \/ ~stopped /\ timer' = [timer EXCEPT ![fd] = Created(interval, TRUE)] /\ UNCHANGED failed
     \/ timer' = [timer EXCEPT ![fd] = Created(interval, FALSE)] /\ failed' = TRUE
  /\ ids' = ids \cup {fd}
  /\ UNCHANGED <<now, loop, called, damage, fault, unmodified>>

CreateTimerFails(errno) ==
  /\ UserCode
  /\ ids' = ids \cup {errno}
  /\ failed' = TRUE
  /\ UNCHANGED <<now, timer, loop, called, damage, fault, arms, unmodified>>

(***************************************************************************)
(* modify_timer: set the timerfd, then enable the registration again.      *)
(* Without an interval only the second is done.  Nothing changes when the  *)
(* first fails; the second may fail when the first is done, and does for a *)
(* timer that the table has lost.                                          *)
(***************************************************************************)
Rearmed(fd, set, enabled) ==
  timer' = [timer EXCEPT ![fd] = [set EXCEPT !.enabled = enabled]]

ModifyTimerUnwatched(id, interval) ==                                      \* mutant
  /\ UserCode /\ Arming /\ id \in ids \cap Opened /\ interval \in Interval
  /\ timer' = [timer EXCEPT ![id] = TimeoutSet(id, interval)]
  /\ UNCHANGED <<now, ids, loop, called, damage, fault, history>>

ModifyTimer(id, interval) ==
  /\ UserCode /\ Arming /\ id \in ids \cap Opened
  /\ LET set == IF interval = NULL THEN timer[id] ELSE TimeoutSet(id, interval)
     IN \/ /\ id \in Listed
           /\ Rearmed(id, set, TRUE)
           /\ UNCHANGED unmodified
        \/ /\ Rearmed(id, set, timer[id].enabled)
           /\ unmodified' = TRUE
  /\ UNCHANGED <<now, ids, loop, called, damage, fault, failed>>

ClosedNot(fds) ==                                                          \* mutant
  /\ timer' = [fd \in Fd |->
       IF fd \in fds \cap Listed THEN [timer[fd] EXCEPT !.watched = FALSE] ELSE timer[fd]]
  /\ dropped' = dropped \cup (fds \cap Listed \cap batch)

\* The loop calls timer_destructor, which closes the timerfd.
Closed(fds) ==
  /\ timer' = [fd \in Fd |-> IF fd \in fds \cap Listed THEN NULL ELSE timer[fd]]
  /\ dropped' = dropped \cup (fds \cap Listed \cap batch)

DestroyTimer(id) ==
  /\ UserCode /\ id \in ids \cap Listed
  /\ Closed({id})
  /\ Shifted(Listed \ {id}) \/ UNCHANGED damage
  /\ ids' = ids \ {id}
  /\ UNCHANGED <<now, batch, stopped, inside, called, fault, arms, history>>

\* A timer that the loop does not know, or has lost, is not found: it stays open
\* and armed, and the program, which is told so, keeps the id.
DestroyTimerFails(id) ==
  /\ UserCode /\ id \in ids \ Listed
  /\ UNCHANGED vars

\* Another user of the loop removes its own descriptor.
OthersRemove ==
  /\ Running /\ ~stopped
  /\ Shifted(Listed)
  /\ UNCHANGED <<now, timer, ids, loop, called, fault, arms, history>>

\* The next search of the damaged table may read the freed entry.
TableFaults ==
  /\ Running /\ holed
  /\ fault' = "table"
  /\ UNCHANGED <<now, timer, ids, loop, called, damage, arms, history>>

\* loop_quit, called by the program, a callback or a signal handler.  Over a
\* damaged table the clean-up reads a freed entry for certain: TableFaults.
LoopQuit ==
  /\ Running /\ ~holed
  /\ stopped' = TRUE
  /\ Closed(Fd)
  /\ UNCHANGED <<now, ids, batch, inside, called, damage, fault, arms, history>>

-----------------------------------------------------------------------------
RunLoop ==
  /\ Running /\ ~inside
  /\ inside' = TRUE
  /\ UNCHANGED <<now, timer, ids, batch, dropped, stopped, called, damage, fault, arms, history>>

Idle == Running /\ inside /\ called = NULL

\* epoll_wait reports at most as many events as the table has slots in use, which
\* is all of them unless the table has lost some; an event disables the
\* registration it is reported for.
Wait ==
  /\ Idle /\ ~stopped /\ batch = {}
  /\ Ready # {}
  /\ batch' \in IF holed THEN (SUBSET Ready) \ {{}} ELSE {Ready}
  /\ timer' = [fd \in Fd |->
       IF fd \in batch' THEN [timer[fd] EXCEPT !.enabled = FALSE] ELSE timer[fd]]
  /\ dropped' = {}
  /\ UNCHANGED <<now, ids, stopped, inside, called, damage, fault, arms, history>>

WaitFails ==
  /\ Idle /\ ~stopped /\ batch = {}
  /\ UNCHANGED vars

DispatchUnread(fd) ==                                                      \* mutant
  /\ Idle /\ fd \in batch \ dropped
  /\ batch' = batch \ {fd}
  /\ timer' = [timer EXCEPT ![fd].unread = FALSE]
  /\ called' = fd
  /\ UNCHANGED <<now, ids, dropped, stopped, inside, damage, fault, arms, history>>

\* timer_callback: the callback is called if there is an expiration to read.
Dispatch(fd) ==
  /\ Idle /\ fd \in batch \ dropped
  /\ batch' = batch \ {fd}
  /\ timer' = [timer EXCEPT ![fd].unread = FALSE]
  /\ called' = IF timer[fd].unread THEN fd ELSE NULL
  /\ UNCHANGED <<now, ids, dropped, stopped, inside, damage, fault, arms, history>>

\* loop_run reads the freed entry of a destroyed timer (see module Loop).
DispatchDropped(fd) ==
  /\ Idle /\ fd \in batch \cap dropped
  /\ fault' = "dispatch"
  /\ UNCHANGED <<now, timer, ids, loop, called, damage, arms, history>>

CallbackReturns ==
  /\ Running /\ called # NULL
  /\ called' = NULL
  /\ UNCHANGED <<now, timer, ids, loop, damage, fault, arms, history>>

ExitLoop ==
  /\ Idle /\ stopped /\ batch = {}
  /\ inside' = FALSE
  /\ UNCHANGED <<now, timer, ids, batch, dropped, stopped, called, damage, fault, arms, history>>

-----------------------------------------------------------------------------
\* The kernel: time passes, timers expire.
Tick ==
  /\ Running /\ now < MaxNow
  /\ now' = now + 1
  /\ UNCHANGED <<timer, ids, loop, called, damage, fault, arms, history>>

Expire(fd) ==
  /\ Running /\ fd \in Opened
  /\ timer[fd].value # NULL /\ timer[fd].value <= now
  /\ timer' = [timer EXCEPT ![fd].value = NULL, ![fd].unread = TRUE]
  /\ UNCHANGED <<now, ids, loop, called, damage, fault, arms, history>>

\* After a fault nothing is specified: the model stands still.
Halted == ~Running /\ UNCHANGED vars

Program ==
  \/ \E fd \in Fd, interval \in Interval : CreateTimer(fd, interval)
  \/ \E fd \in Fd : CreateTimerFails(fd) \/ DestroyTimer(fd) \/ DestroyTimerFails(fd)
  \/ \E fd \in Fd, interval \in Interval \cup {NULL} : ModifyTimer(fd, interval)
  \/ LoopQuit \/ RunLoop \/ OthersRemove \/ TableFaults

LoopRun ==
  \/ Wait \/ ExitLoop \/ CallbackReturns
  \/ \E fd \in Fd : Dispatch(fd) \/ DispatchDropped(fd)

Kernel == Tick \/ \E fd \in Fd : Expire(fd)

Next == Program \/ LoopRun \/ WaitFails \/ Kernel \/ Halted

Spec == Init /\ [][Next]_vars

\* Time passes, expired timers are noticed, loop_run goes on, callbacks return.
FairSpec ==
  /\ Spec
  /\ WF_vars(Tick) /\ \A fd \in Fd : WF_vars(Expire(fd))
  /\ WF_vars(LoopRun)
=============================================================================
