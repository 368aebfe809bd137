----------------------------- MODULE Timer_proofs -----------------------------
(***************************************************************************)
(* Proofs about the timers: the inductive invariant of module Timer, the   *)
(* properties that follow from it, and that Timer implements OneShot.      *)
(***************************************************************************)
EXTENDS TimerProps, TLAPS

\* A timerfd is not both armed and unread: it disarms itself when it expires,
\* and arming it again makes the kernel forget the expiration.
ExpiresOnce ==
  \A fd \in Opened : timer[fd].unread => timer[fd].value = NULL

\* An event of the batch that is not dropped is of a timer the loop watches.
BatchWatched == batch \ dropped \subseteq Watched

\* What keeps an expiration from being lost: a timer that will expire can be
\* reported, whatever is in the batch, because what arms it enables it; only
\* the event in the batch, which disabled it, stands for an expiration that is
\* there already.
ArmedEnabled ==
  ~unmodified => \A fd \in Watched :
    /\ timer[fd].value # NULL => timer[fd].enabled
    /\ timer[fd].unread => timer[fd].enabled \/ fd \in batch \ dropped

\* The timers that will ring: what armed stands for in OneShot.
Alarms == {fd \in Fd : Armed(fd)}

IInv == TypeOK /\ ExpiresOnce /\ BatchWatched /\ ArmedEnabled

-----------------------------------------------------------------------------
(***************************************************************************)
(* The operators of the module.                                            *)
(***************************************************************************)

\* An open timer is a timerfd.
LEMMA OpenedLemma ==
  ASSUME TypeOK, NEW fd \in Fd
  PROVE  /\ fd \in Opened => timer[fd] \in Timerfd
         /\ fd \notin Opened => timer[fd] = NULL
  BY DEF TypeOK, Opened

\* Setting a timer gives a timerfd with the registration it had, which has not
\* expired.
LEMMA TimeoutSetLemma ==
  ASSUME TypeOK, NEW fd \in Opened, NEW interval \in Interval
  PROVE  /\ TimeoutSet(fd, interval) \in Timerfd
         /\ TimeoutSet(fd, interval).unread = FALSE
         /\ TimeoutSet(fd, interval).value = (IF interval = 0 THEN NULL ELSE interval)
         /\ TimeoutSet(fd, interval).watched = timer[fd].watched
         /\ TimeoutSet(fd, interval).enabled = timer[fd].enabled
  <1>1. fd \in Fd /\ timer[fd] \in Timerfd
    BY OpenedLemma DEF Opened
  <1>2. interval \in Nat /\ now \in Nat /\ now + interval \in Nat
    BY IntervalAssumption, BoundsAssumption DEF TypeOK
  <1> QED
    BY <1>1, <1>2 DEF TimeoutSet, Timerfd

\* A new timer is armed unless its interval is 0, and enabled if the loop took it.
LEMMA CreatedLemma ==
  ASSUME TypeOK, NEW interval \in Interval, NEW watched \in BOOLEAN
  PROVE  /\ Created(interval, watched) \in Timerfd
         /\ Created(interval, watched).unread = FALSE
         /\ Created(interval, watched).value = (IF interval = 0 THEN NULL ELSE interval)
         /\ Created(interval, watched).watched = watched
         /\ Created(interval, watched).enabled = watched
  <1>1. interval \in Nat /\ now \in Nat /\ now + interval \in Nat
    BY IntervalAssumption, BoundsAssumption DEF TypeOK
  <1> QED
    BY <1>1 DEF Created, Timerfd

\* Closing leaves every other timer as it was.
LEMMA ClosedLemma ==
  ASSUME TypeOK, NEW fds \in SUBSET Fd, Closed(fds)
  PROVE  /\ timer' \in [Fd -> Timerfd \cup {NULL}] /\ dropped' \subseteq Fd
         /\ Opened' = Opened \ (fds \cap Listed)
         /\ Watched' = Watched \ (fds \cap Listed)
         /\ \A fd \in Opened' : timer'[fd] = timer[fd]
         /\ dropped' = dropped \cup (fds \cap Listed \cap batch)
         /\ Alarms' = Alarms \ (fds \cap Listed)
  <1>1. \A fd \in Fd : timer'[fd] = IF fd \in fds \cap Listed THEN NULL ELSE timer[fd]
    BY DEF Closed
  <1>2. timer' \in [Fd -> Timerfd \cup {NULL}]
    BY DEF Closed, TypeOK
  <1>3. Opened' = Opened \ (fds \cap Listed)
    BY <1>1 DEF Opened
  <1>4. \A fd \in Opened' : timer'[fd] = timer[fd]
    BY <1>1, <1>3 DEF Opened
  <1>5. Watched' = Watched \ (fds \cap Listed)
    BY <1>1, <1>3, <1>4 DEF Watched, Opened
  <1>6. dropped' = dropped \cup (fds \cap Listed \cap batch)
    BY DEF Closed
  <1>7. dropped' \subseteq Fd
    BY <1>6 DEF TypeOK, Listed, Watched, Opened
  <1>8. Alarms' = Alarms \ (fds \cap Listed)
    BY <1>3, <1>4 DEF Alarms, Armed, Opened
  <1> QED
    BY <1>2, <1>3, <1>4, <1>5, <1>6, <1>7, <1>8

\* A removal damages the table, and loses no timer that is not registered.
LEMMA ShiftedLemma ==
  ASSUME TypeOK, NEW listed \in SUBSET Listed, Shifted(listed)
  PROVE  holed' = TRUE /\ lost' \subseteq Fd
  BY DEF Shifted, TypeOK, Listed, Watched, Opened

\* Replacing one timer leaves every other as it was.
LEMMA ReplaceLemma ==
  ASSUME TypeOK, NEW fd \in Fd, NEW t \in Timerfd, timer' = [timer EXCEPT ![fd] = t]
  PROVE  /\ timer' \in [Fd -> Timerfd \cup {NULL}]
         /\ timer'[fd] = t
         /\ \A other \in Fd \ {fd} : timer'[other] = timer[other]
         /\ Opened' = Opened \cup {fd}
         /\ Watched' = IF t.watched THEN Watched \cup {fd} ELSE Watched \ {fd}
         /\ Alarms' = IF t.value # NULL \/ t.unread THEN Alarms \cup {fd} ELSE Alarms \ {fd}
  <1>1. timer'[fd] = t /\ \A other \in Fd \ {fd} : timer'[other] = timer[other]
    BY DEF TypeOK
  <1>2. timer' \in [Fd -> Timerfd \cup {NULL}]
    BY DEF TypeOK
  <1>3. Opened' = Opened \cup {fd}
    BY <1>1, NullTimerAssumption DEF Opened
  <1>4. Watched' = IF t.watched THEN Watched \cup {fd} ELSE Watched \ {fd}
    BY <1>1, <1>3 DEF Watched
  <1>5. Alarms' = IF t.value # NULL \/ t.unread THEN Alarms \cup {fd} ELSE Alarms \ {fd}
    BY <1>1, <1>3 DEF Alarms, Armed, Opened
  <1> QED
    BY <1>1, <1>2, <1>3, <1>4, <1>5

-----------------------------------------------------------------------------
(***************************************************************************)
(* The invariant is inductive.                                             *)
(***************************************************************************)
LEMMA IInvInit == Init => IInv
  <1> SUFFICES ASSUME Init
               PROVE  IInv
    OBVIOUS
  <1>1. TypeOK
    <2>1. arms \in 0 .. MaxArms
      BY BoundsAssumption DEF Init
    <2> QED
      BY <2>1 DEF Init, TypeOK
  <1>2. Opened = {} /\ Watched = {}
    BY DEF Init, Opened, Watched
  <1> QED
    BY <1>1, <1>2 DEF Init, IInv, ExpiresOnce, BatchWatched, ArmedEnabled

\* create_timer puts a timer where there was none, and so none in the batch.
LEMMA CreateTimerStep ==
  ASSUME IInv, NEW fd \in Fd, NEW interval \in Interval, CreateTimer(fd, interval)
  PROVE  IInv' /\ Alarms' = IF interval = 0 THEN Alarms ELSE Alarms \cup {fd}
  <1> USE DEF IInv, loop, history, damage
  <1>1. PICK watched \in BOOLEAN : timer' = [timer EXCEPT ![fd] = Created(interval, watched)]
    BY DEF CreateTimer
  <1> DEFINE t == Created(interval, watched)
  <1>2. /\ t \in Timerfd /\ t.unread = FALSE
        /\ t.value = (IF interval = 0 THEN NULL ELSE interval)
        /\ t.watched = watched /\ t.enabled = watched
    BY CreatedLemma
  <1> HIDE DEF t
  <1>3. timer' = [timer EXCEPT ![fd] = t]
    BY <1>1 DEF t
  <1>4. /\ timer' \in [Fd -> Timerfd \cup {NULL}]
        /\ timer'[fd] = t
        /\ \A other \in Fd \ {fd} : timer'[other] = timer[other]
        /\ Opened' = Opened \cup {fd}
        /\ Watched' = IF t.watched THEN Watched \cup {fd} ELSE Watched \ {fd}
        /\ Alarms' = IF t.value # NULL \/ t.unread THEN Alarms \cup {fd} ELSE Alarms \ {fd}
    BY <1>2, <1>3, ReplaceLemma
  <1>5. timer[fd] = NULL /\ fd \notin Opened /\ fd \notin Watched
    BY DEF CreateTimer, Opened, Watched
  <1>6. /\ UNCHANGED <<now, batch, dropped, stopped, inside, called, lost, holed, fault,
                       unmodified>>
        /\ ids' = ids \cup {fd} /\ failed' \in BOOLEAN
    BY DEF CreateTimer, TypeOK
  <1>7. TypeOK'
    <2>1. arms' \in 0 .. MaxArms
      BY BoundsAssumption DEF CreateTimer, Arming, TypeOK
    <2> QED
      BY <1>4, <1>6, <2>1 DEF TypeOK
  <1>8. ExpiresOnce'
    BY <1>2, <1>4 DEF ExpiresOnce, Opened
  <1>9. BatchWatched'
    BY <1>4, <1>5, <1>6 DEF BatchWatched
  <1>10. ArmedEnabled'
    BY <1>2, <1>4, <1>6 DEF ArmedEnabled, Watched, Opened
  <1>11. Alarms' = IF interval = 0 THEN Alarms ELSE Alarms \cup {fd}
    <2>1. fd \notin Alarms /\ interval # NULL
      BY <1>5, IntervalAssumption, BoundsAssumption, NullAssumption DEF Alarms, Armed
    <2> QED
      BY <1>2, <1>4, <2>1
  <1> QED
    BY <1>7, <1>8, <1>9, <1>10, <1>11

\* modify_timer enables what it arms, unless loop_modify_sd fails.
LEMMA ModifyTimerStep ==
  ASSUME IInv, NEW id \in Fd, NEW interval \in Interval \cup {NULL}, ModifyTimer(id, interval)
  PROVE  /\ IInv' /\ Opened' = Opened /\ Watched' = Watched
         /\ Alarms' = IF interval = NULL THEN Alarms
                      ELSE IF interval = 0 THEN Alarms \ {id} ELSE Alarms \cup {id}
  <1> USE DEF IInv, loop, damage
  <1> DEFINE set == IF interval = NULL THEN timer[id] ELSE TimeoutSet(id, interval)
  <1>1. id \in Opened /\ timer[id] \in Timerfd
    BY OpenedLemma DEF ModifyTimer
  <1>2. /\ set \in Timerfd /\ set.watched = timer[id].watched
        /\ set.unread => set.value = NULL
        /\ set.unread => timer[id].unread
        /\ set.enabled = timer[id].enabled
        /\ set.value # NULL \/ set.unread <=>
             IF interval = NULL THEN id \in Alarms ELSE interval # 0
    <2>1. CASE interval = NULL
      BY <1>1, <2>1 DEF ExpiresOnce, Alarms, Armed, Opened
    <2>2. CASE interval # NULL
      <3>1. /\ set = TimeoutSet(id, interval) /\ set \in Timerfd
            /\ set.unread = FALSE /\ set.watched = timer[id].watched
            /\ set.enabled = timer[id].enabled
        BY <1>1, <2>2, TimeoutSetLemma
      <3>2. set.value = IF interval = 0 THEN NULL ELSE interval
        BY <1>1, <2>2, TimeoutSetLemma
      <3> HIDE DEF set
      <3> QED
        BY <2>2, <3>1, <3>2
    <2> QED
      BY <2>1, <2>2
  <1>3. \E enabled \in BOOLEAN :
          /\ Rearmed(id, set, enabled)
          /\ \/ id \in Watched /\ enabled /\ UNCHANGED unmodified
             \/ unmodified' = TRUE
    <2>1. timer[id].enabled \in BOOLEAN
      BY <1>1 DEF Timerfd
    <2> QED
      BY <2>1 DEF ModifyTimer, Listed
  <1> HIDE DEF set
  <1>4. PICK enabled \in BOOLEAN :
          /\ Rearmed(id, set, enabled)
          /\ \/ id \in Watched /\ enabled /\ UNCHANGED unmodified
             \/ unmodified' = TRUE
    BY <1>3
  <1> DEFINE t == [set EXCEPT !.enabled = enabled]
  <1>5. /\ t \in Timerfd /\ t.watched = timer[id].watched /\ t.enabled = enabled
        /\ t.unread = set.unread /\ t.value = set.value
    BY <1>2 DEF Timerfd
  <1>6. timer' = [timer EXCEPT ![id] = t]
    BY <1>4 DEF Rearmed
  <1> HIDE DEF t
  <1>7. /\ timer' \in [Fd -> Timerfd \cup {NULL}]
        /\ timer'[id] = t
        /\ \A other \in Fd \ {id} : timer'[other] = timer[other]
        /\ Opened' = Opened \cup {id}
        /\ Watched' = IF t.watched THEN Watched \cup {id} ELSE Watched \ {id}
        /\ Alarms' = IF t.value # NULL \/ t.unread THEN Alarms \cup {id} ELSE Alarms \ {id}
    BY <1>5, <1>6, ReplaceLemma
  <1>8. Opened' = Opened /\ Watched' = Watched
    BY <1>1, <1>5, <1>7 DEF Watched
  <1>9. /\ UNCHANGED <<now, ids, batch, dropped, stopped, inside, called, lost, holed, fault,
                       failed>>
        /\ arms' \in 0 .. MaxArms
    BY BoundsAssumption DEF ModifyTimer, Arming, TypeOK
  <1>10. unmodified' \in BOOLEAN
    BY <1>4 DEF TypeOK
  <1>11. TypeOK'
    BY <1>7, <1>9, <1>10 DEF TypeOK
  <1>12. ExpiresOnce'
    BY <1>2, <1>5, <1>7, <1>8 DEF ExpiresOnce, Opened
  <1>13. BatchWatched'
    BY <1>8, <1>9 DEF BatchWatched
  <1>14. ArmedEnabled'
    BY <1>4, <1>5, <1>7, <1>8, <1>9 DEF ArmedEnabled, Watched, Opened
  <1>15. Alarms' = IF interval = NULL THEN Alarms
                   ELSE IF interval = 0 THEN Alarms \ {id} ELSE Alarms \cup {id}
    BY <1>2, <1>5, <1>7
  <1> QED
    BY <1>8, <1>11, <1>12, <1>13, <1>14, <1>15

\* destroy_timer and loop_quit drop the events of the timers they close.
LEMMA CloseStep ==
  ASSUME IInv,
         NEW fds \in SUBSET Fd, Closed(fds), ids' \subseteq Fd, stopped' \in BOOLEAN,
         lost' \subseteq Fd, holed' \in BOOLEAN,
         UNCHANGED <<now, batch, inside, called, fault, arms, history>>
  PROVE  IInv'
  <1> USE DEF IInv, history
  <1>1. /\ timer' \in [Fd -> Timerfd \cup {NULL}] /\ dropped' \subseteq Fd
        /\ Opened' = Opened \ (fds \cap Listed)
        /\ Watched' = Watched \ (fds \cap Listed)
        /\ \A fd \in Opened' : timer'[fd] = timer[fd]
        /\ dropped' = dropped \cup (fds \cap Listed \cap batch)
    BY ClosedLemma
  <1>2. TypeOK'
    BY <1>1 DEF TypeOK
  <1>3. ExpiresOnce'
    BY <1>1 DEF ExpiresOnce
  <1>4. BatchWatched'
    BY <1>1 DEF BatchWatched
  <1>5. \A fd \in Watched' : fd \in Watched /\ timer'[fd] = timer[fd]
                             /\ (fd \in batch \ dropped => fd \in batch' \ dropped')
    BY <1>1 DEF Watched
  <1>6. ArmedEnabled'
    BY <1>5 DEF ArmedEnabled
  <1> QED
    BY <1>2, <1>3, <1>4, <1>6

\* epoll_wait disables what it reports, and reports nothing that is armed: a
\* timer that has expired is not.
LEMMA WaitStep ==
  ASSUME IInv, Wait
  PROVE  IInv' /\ Opened' = Opened /\ Watched' = Watched /\ Alarms' = Alarms
  <1> USE DEF IInv, history, damage
  <1>1. /\ batch = {} /\ batch' \subseteq Ready /\ dropped' = {}
        /\ UNCHANGED <<now, ids, stopped, inside, called, lost, holed, fault, arms, failed,
                       unmodified>>
    BY DEF Wait
  <1>2. Ready \subseteq Watched /\ Watched \subseteq Opened /\ Opened \subseteq Fd
    BY DEF Ready, Watched, Opened
  <1>3. \A fd \in Fd : timer'[fd] =
          IF fd \in batch' THEN [timer[fd] EXCEPT !.enabled = FALSE] ELSE timer[fd]
    BY DEF Wait
  <1>4. ASSUME NEW fd \in Opened
        PROVE  /\ timer'[fd] \in Timerfd
               /\ timer'[fd].value = timer[fd].value /\ timer'[fd].unread = timer[fd].unread
               /\ timer'[fd].watched = timer[fd].watched
               /\ fd \notin batch' => timer'[fd].enabled = timer[fd].enabled
    <2>1. timer[fd] \in Timerfd
      BY <1>2, OpenedLemma
    <2> QED
      BY <1>1, <1>2, <1>3, <2>1 DEF Timerfd
  <1>5. Opened' = Opened
    BY <1>1, <1>2, <1>3, <1>4, NullTimerAssumption DEF Opened
  <1>6. Watched' = Watched
    BY <1>4, <1>5 DEF Watched
  <1>7. timer' \in [Fd -> Timerfd \cup {NULL}]
    <2>1. \A fd \in Fd : timer'[fd] \in Timerfd \cup {NULL}
      BY <1>1, <1>2, <1>3, <1>4 DEF Opened
    <2>2. timer' = [fd \in Fd |-> timer'[fd]]
      BY DEF Wait
    <2> QED
      BY <2>1, <2>2
  <1>8. TypeOK'
    BY <1>1, <1>2, <1>7 DEF TypeOK
  <1>9. ExpiresOnce'
    BY <1>4, <1>5 DEF ExpiresOnce
  <1>10. BatchWatched'
    BY <1>1, <1>2, <1>6 DEF BatchWatched
  <1>11. ArmedEnabled'
    <2>1. ASSUME ~unmodified, NEW fd \in Watched
          PROVE  /\ timer'[fd].value # NULL => timer'[fd].enabled
                 /\ timer'[fd].unread => timer'[fd].enabled \/ fd \in batch' \ dropped'
      <3>1. fd \in Opened /\ (timer[fd].unread => timer[fd].enabled)
        BY <1>1, <1>2, <2>1 DEF ArmedEnabled
      <3>2. CASE fd \in batch'
        <4>1. timer[fd].unread
          BY <1>1, <3>2 DEF Ready
        <4>2. timer[fd].value = NULL
          BY <3>1, <4>1 DEF ExpiresOnce
        <4> QED
          BY <1>1, <1>4, <3>1, <3>2, <4>2
      <3>3. CASE fd \notin batch'
        BY <1>4, <2>1, <3>1, <3>3 DEF ArmedEnabled
      <3> QED
        BY <3>2, <3>3
    <2> QED
      BY <1>1, <1>6, <2>1 DEF ArmedEnabled
  <1>12. Alarms' = Alarms
    BY <1>4, <1>5 DEF Alarms, Armed
  <1> QED
    BY <1>5, <1>6, <1>8, <1>9, <1>10, <1>11, <1>12

\* timer_callback reads the expiration there may be; a timer armed again since
\* epoll_wait is enabled and needs no event of the batch.
LEMMA DispatchStep ==
  ASSUME IInv, NEW fd \in Fd, Dispatch(fd)
  PROVE  /\ IInv' /\ Opened' = Opened /\ Watched' = Watched
         /\ timer[fd].unread => fd \in Alarms
         /\ Alarms' = IF timer[fd].unread THEN Alarms \ {fd} ELSE Alarms
  <1> USE DEF IInv, history, damage
  <1>1. /\ fd \in batch \ dropped /\ batch' = batch \ {fd}
        /\ timer' = [timer EXCEPT ![fd].unread = FALSE]
        /\ UNCHANGED <<now, ids, dropped, stopped, inside, lost, holed, fault, arms, failed,
                       unmodified>>
        /\ called' \in {fd, NULL}
    BY DEF Dispatch
  <1>2. fd \in Watched /\ fd \in Opened /\ timer[fd] \in Timerfd
    BY <1>1, OpenedLemma DEF BatchWatched, Watched
  <1> DEFINE t == [timer[fd] EXCEPT !.unread = FALSE]
  <1>3. /\ t \in Timerfd /\ t.unread = FALSE /\ t.value = timer[fd].value
        /\ t.watched = timer[fd].watched /\ t.enabled = timer[fd].enabled
    BY <1>2 DEF Timerfd
  <1>4. timer' = [timer EXCEPT ![fd] = t]
    BY <1>1
  <1> HIDE DEF t
  <1>5. /\ timer' \in [Fd -> Timerfd \cup {NULL}]
        /\ timer'[fd] = t
        /\ \A other \in Fd \ {fd} : timer'[other] = timer[other]
        /\ Opened' = Opened \cup {fd}
        /\ Watched' = IF t.watched THEN Watched \cup {fd} ELSE Watched \ {fd}
        /\ Alarms' = IF t.value # NULL \/ t.unread THEN Alarms \cup {fd} ELSE Alarms \ {fd}
    BY <1>3, <1>4, ReplaceLemma
  <1>6. Opened' = Opened /\ Watched' = Watched
    BY <1>2, <1>3, <1>5 DEF Watched
  <1>7. TypeOK'
    BY <1>1, <1>5 DEF TypeOK
  <1>8. ExpiresOnce'
    BY <1>3, <1>5, <1>6 DEF ExpiresOnce, Opened
  <1>9. BatchWatched'
    BY <1>1, <1>6 DEF BatchWatched
  <1>10. ArmedEnabled'
    BY <1>1, <1>3, <1>5, <1>6 DEF ArmedEnabled, Watched, Opened
  <1>11. fd \in Alarms <=> timer[fd].value # NULL \/ timer[fd].unread
    BY <1>2 DEF Alarms, Armed, Opened
  <1>12. Alarms' = IF timer[fd].unread THEN Alarms \ {fd} ELSE Alarms
    BY <1>2, <1>3, <1>5, <1>11 DEF ExpiresOnce
  <1> QED
    BY <1>6, <1>7, <1>8, <1>9, <1>10, <1>11, <1>12

\* A timer that expires is enabled, as it was armed, and so can be reported.
LEMMA ExpireStep ==
  ASSUME IInv, NEW fd \in Fd, Expire(fd)
  PROVE  IInv' /\ Opened' = Opened /\ Watched' = Watched /\ Alarms' = Alarms
  <1> USE DEF IInv, loop, history, damage
  <1>1. /\ timer[fd].value # NULL
        /\ UNCHANGED <<now, ids, batch, dropped, stopped, inside, called, lost, holed, fault,
                       arms, failed, unmodified>>
    BY DEF Expire
  <1>2. fd \in Opened /\ timer[fd] \in Timerfd
    BY OpenedLemma DEF Expire
  <1> DEFINE t == [timer[fd] EXCEPT !.value = NULL, !.unread = TRUE]
  <1>3. /\ t \in Timerfd /\ t.value = NULL
        /\ t.unread = TRUE /\ t.watched = timer[fd].watched /\ t.enabled = timer[fd].enabled
    BY <1>2 DEF Timerfd
  <1>4. timer' = [timer EXCEPT ![fd] = t]
    BY DEF Expire
  <1> HIDE DEF t
  <1>5. /\ timer' \in [Fd -> Timerfd \cup {NULL}]
        /\ timer'[fd] = t
        /\ \A other \in Fd \ {fd} : timer'[other] = timer[other]
        /\ Opened' = Opened \cup {fd}
        /\ Watched' = IF t.watched THEN Watched \cup {fd} ELSE Watched \ {fd}
        /\ Alarms' = IF t.value # NULL \/ t.unread THEN Alarms \cup {fd} ELSE Alarms \ {fd}
    BY <1>3, <1>4, ReplaceLemma
  <1>6. Opened' = Opened /\ Watched' = Watched
    BY <1>2, <1>3, <1>5 DEF Watched
  <1>7. TypeOK'
    BY <1>1, <1>5 DEF TypeOK
  <1>8. ExpiresOnce'
    BY <1>3, <1>5, <1>6 DEF ExpiresOnce, Opened
  <1>9. BatchWatched'
    BY <1>1, <1>6 DEF BatchWatched
  <1>10. ArmedEnabled'
    BY <1>1, <1>3, <1>5, <1>6 DEF ArmedEnabled, Watched, Opened
  <1>11. fd \in Alarms
    BY <1>1, <1>2 DEF Alarms, Armed, Opened
  <1> QED
    BY <1>3, <1>5, <1>6, <1>7, <1>8, <1>9, <1>10, <1>11

\* The other steps touch neither the timers, nor the ids, nor the batch.
Others ==
  \/ RunLoop \/ ExitLoop \/ WaitFails \/ Tick \/ CallbackReturns \/ Halted
  \/ OthersRemove \/ TableFaults \/ UNCHANGED vars
  \/ \E fd \in Fd : CreateTimerFails(fd) \/ DestroyTimerFails(fd) \/ DispatchDropped(fd)

LEMMA OthersLemma ==
  ASSUME TypeOK, Others
  PROVE  UNCHANGED <<timer, batch, dropped, stopped, arms, unmodified>> /\ TypeOK'
  <1> USE DEF vars, loop, history, damage
  <1>1. UNCHANGED <<timer, batch, dropped, stopped, arms, unmodified>>
    BY DEF Others, RunLoop, ExitLoop, WaitFails, Tick, CallbackReturns, Halted,
           CreateTimerFails, DispatchDropped, DestroyTimerFails, OthersRemove, TableFaults
  <1>2. now' \in 0 .. MaxNow
    <2>1. CASE Tick
      BY <2>1, BoundsAssumption DEF Tick, TypeOK
    <2>2. CASE ~Tick
      <3>1. UNCHANGED now
        BY <2>2 DEF Others, RunLoop, ExitLoop, WaitFails, CallbackReturns, Halted,
                    CreateTimerFails, DispatchDropped, DestroyTimerFails, OthersRemove,
                    TableFaults
      <3> QED
        BY <3>1 DEF TypeOK
    <2> QED
      BY <2>1, <2>2
  <1>3. ids' \subseteq Fd /\ called' \in Fd \cup {NULL}
    BY DEF TypeOK, Others, RunLoop, ExitLoop, WaitFails, Tick, CallbackReturns, Halted,
           CreateTimerFails, DispatchDropped, DestroyTimerFails, OthersRemove, TableFaults
  <1>4. inside' \in BOOLEAN /\ failed' \in BOOLEAN
    BY DEF TypeOK, Others, RunLoop, ExitLoop, WaitFails, Tick, CallbackReturns, Halted,
           CreateTimerFails, DispatchDropped, DestroyTimerFails, OthersRemove, TableFaults
  <1>5. fault' \in {"none", "dispatch", "table"}
    BY DEF TypeOK, Others, RunLoop, ExitLoop, WaitFails, Tick, CallbackReturns, Halted,
           CreateTimerFails, DispatchDropped, DestroyTimerFails, OthersRemove, TableFaults
  <1>6. lost' \subseteq Fd /\ holed' \in BOOLEAN
    <2>1. CASE OthersRemove
      BY <2>1, ShiftedLemma DEF OthersRemove
    <2>2. CASE ~OthersRemove
      <3>1. UNCHANGED <<lost, holed>>
        BY <2>2 DEF Others, RunLoop, ExitLoop, WaitFails, Tick, CallbackReturns, Halted,
                    CreateTimerFails, DispatchDropped, DestroyTimerFails, TableFaults
      <3> QED
        BY <3>1 DEF TypeOK
    <2> QED
      BY <2>1, <2>2
  <1> QED
    BY <1>1, <1>2, <1>3, <1>4, <1>5, <1>6 DEF TypeOK

LEMMA StepCases ==
  ASSUME [Next]_vars
  PROVE  \/ \E fd \in Fd, interval \in Interval : CreateTimer(fd, interval)
         \/ \E fd \in Fd : DestroyTimer(fd) \/ Dispatch(fd) \/ Expire(fd)
         \/ \E fd \in Fd, interval \in Interval \cup {NULL} : ModifyTimer(fd, interval)
         \/ LoopQuit \/ Wait \/ Others
  BY DEF Next, Program, LoopRun, Kernel, Others

LEMMA IInvStep == IInv /\ [Next]_vars => IInv'
  <1> SUFFICES ASSUME IInv, [Next]_vars
               PROVE  IInv'
    OBVIOUS
  <1>1. ASSUME NEW fd \in Fd, DestroyTimer(fd)
        PROVE  IInv'
    <2>1. Closed({fd}) /\ ids' \subseteq Fd /\ stopped' \in BOOLEAN
      BY <1>1 DEF DestroyTimer, IInv, TypeOK
    <2>2. lost' \subseteq Fd /\ holed' \in BOOLEAN
      <3>1. CASE Shifted(Listed \ {fd})
        BY <3>1, ShiftedLemma DEF IInv
      <3>2. CASE UNCHANGED damage
        BY <3>2 DEF damage, IInv, TypeOK
      <3> QED
        BY <1>1, <3>1, <3>2 DEF DestroyTimer
    <2> QED
      BY <1>1, <2>1, <2>2, CloseStep DEF DestroyTimer
  <1>2. CASE LoopQuit
    <2>1. /\ Closed(Fd) /\ ids' \subseteq Fd /\ stopped' \in BOOLEAN
          /\ lost' \subseteq Fd /\ holed' \in BOOLEAN
      BY <1>2 DEF LoopQuit, damage, IInv, TypeOK
    <2> QED
      BY <1>2, <2>1, CloseStep DEF LoopQuit
  <1>3. CASE Others
    <2>1. TypeOK' /\ UNCHANGED <<timer, batch, dropped, unmodified>>
      BY <1>3, OthersLemma DEF IInv
    <2> QED
      BY <2>1 DEF IInv, ExpiresOnce, BatchWatched, ArmedEnabled, Watched, Opened
  <1> QED
    BY <1>1, <1>2, <1>3, StepCases,
       CreateTimerStep, ModifyTimerStep, WaitStep, DispatchStep, ExpireStep

LEMMA Invariance == Spec => []IInv
  BY IInvInit, IInvStep, PTL DEF Spec

\* The state of the timers is well-formed in every execution of the program.
THEOREM TypeCorrect == Spec => []TypeOK
  <1>1. IInv => TypeOK
    BY DEF IInv
  <1> QED
    BY <1>1, Invariance, PTL

\* No expiration is lost, however timer_callback, modify_timer, destroy_timer and
\* the expirations of the timerfds interleave: as long as a timer will expire, or
\* has expired unread, the loop will hear of it or has its event in the batch,
\* unless a loop_modify_sd failed.
THEOREM NoExpirationIsLost == Spec => []NoExpiryLost
  <1>1. IInv => NoExpiryLost
    BY DEF IInv, ArmedEnabled, NoExpiryLost, Armed
  <1> QED
    BY <1>1, Invariance, PTL

-----------------------------------------------------------------------------
(***************************************************************************)
(* Timers and ids.                                                         *)
(***************************************************************************)
\* The two halves of TimersAccounted: what holds whatever failed, and the rest.
Known == Opened \subseteq ids /\ (~holed => lost = {})
Exact == Opened = Watched /\ (~stopped => ids = Opened) /\ (stopped => Opened = {})

LEMMA AccountedStep == IInv /\ TimersAccounted /\ [Next]_vars => TimersAccounted'
  <1> SUFFICES ASSUME IInv, TimersAccounted, [Next]_vars
               PROVE  Known' /\ (~failed' => Exact')
    BY DEF TimersAccounted, Known, Exact
  <1> USE DEF loop, history, damage
  <1>0. TypeOK
    BY DEF IInv
  <1>1. ~failed' => ~failed
    BY StepCases DEF CreateTimer, DestroyTimer, Dispatch, Expire, ModifyTimer, LoopQuit, Wait,
       Others, RunLoop, ExitLoop, WaitFails, Tick, CallbackReturns, Halted, CreateTimerFails,
       DispatchDropped, DestroyTimerFails, OthersRemove, TableFaults, vars
  <1>2. Known /\ (~failed' => Exact)
    BY <1>1 DEF TimersAccounted, Known, Exact
  <1>3. ASSUME NEW fd \in Fd, NEW interval \in Interval, CreateTimer(fd, interval)
        PROVE  Known' /\ (~failed' => Exact')
    <2>1. PICK watched \in BOOLEAN :
            /\ timer' = [timer EXCEPT ![fd] = Created(interval, watched)]
            /\ ~failed' => watched /\ ~stopped
      BY <1>3 DEF CreateTimer
    <2>2. Created(interval, watched) \in Timerfd /\ Created(interval, watched).watched = watched
      BY <1>0, CreatedLemma
    <2>3. Opened' = Opened \cup {fd} /\ (watched => Watched' = Watched \cup {fd})
      BY <1>0, <2>1, <2>2, ReplaceLemma
    <2>4. ids' = ids \cup {fd} /\ UNCHANGED <<stopped, lost, holed>>
      BY <1>3 DEF CreateTimer
    <2> QED
      BY <1>2, <2>1, <2>3, <2>4 DEF Known, Exact
  <1>4. ASSUME NEW fd \in Fd, DestroyTimer(fd)
        PROVE  Known' /\ (~failed' => Exact')
    <2>1. Opened' = Opened \ ({fd} \cap Listed) /\ Watched' = Watched \ ({fd} \cap Listed)
      BY <1>0, <1>4, ClosedLemma DEF DestroyTimer
    <2>2. fd \in Listed /\ ids' = ids \ {fd} /\ UNCHANGED stopped
      BY <1>4 DEF DestroyTimer
    <2>3. ~holed' => lost' = {}
      BY <1>2, <1>4 DEF DestroyTimer, Shifted, Known
    <2> QED
      BY <1>2, <2>1, <2>2, <2>3 DEF Known, Exact
  <1>5. CASE LoopQuit
    <2>1. Opened' = Opened \ (Fd \cap Listed) /\ Watched' = Watched \ (Fd \cap Listed)
      BY <1>0, <1>5, ClosedLemma DEF LoopQuit
    <2>2. Listed = Watched /\ Opened \subseteq Fd
      BY <1>2, <1>5 DEF LoopQuit, Listed, Known, Opened, Watched
    <2> QED
      BY <1>2, <1>5, <2>1, <2>2 DEF LoopQuit, Known, Exact
  <1>6. ASSUME UNCHANGED <<ids, stopped>>, Opened' = Opened, Watched' = Watched,
               ~holed' => lost' = {}
        PROVE  Known' /\ (~failed' => Exact')
    BY <1>2, <1>6 DEF Known, Exact
  <1>7. ASSUME NEW id \in Fd, NEW interval \in Interval \cup {NULL}, ModifyTimer(id, interval)
        PROVE  Known' /\ (~failed' => Exact')
    <2>1. ~holed' => lost' = {}
      BY <1>2, <1>7 DEF ModifyTimer, Known
    <2> QED
      BY <1>6, <1>7, <2>1, ModifyTimerStep DEF ModifyTimer
  <1>8. CASE Wait
    <2>1. ~holed' => lost' = {}
      BY <1>2, <1>8 DEF Wait, Known
    <2> QED
      BY <1>6, <1>8, <2>1, WaitStep DEF Wait
  <1>9. ASSUME NEW fd \in Fd, Dispatch(fd) \/ Expire(fd)
        PROVE  Known' /\ (~failed' => Exact')
    <2>1. ~holed' => lost' = {}
      BY <1>2, <1>9 DEF Dispatch, Expire, Known
    <2> QED
      BY <1>6, <1>9, <2>1, DispatchStep, ExpireStep DEF Dispatch, Expire
  <1>10. CASE Others
    <2>1. UNCHANGED <<timer, stopped>>
      BY <1>0, <1>10, OthersLemma
    <2>2. ids \subseteq ids' /\ (~failed' => UNCHANGED ids)
      BY <1>10 DEF CreateTimerFails, Others, RunLoop, ExitLoop, WaitFails, Tick, CallbackReturns,
                   Halted, DispatchDropped, DestroyTimerFails, OthersRemove, TableFaults, vars
    <2>3. ~holed' => lost' = {}
      BY <1>2, <1>10
         DEF CreateTimerFails, Others, RunLoop, ExitLoop, WaitFails, Tick, CallbackReturns,
             Halted, DispatchDropped, DestroyTimerFails, OthersRemove, TableFaults, vars,
             Shifted, Known
    <2> QED
      BY <1>2, <2>1, <2>2, <2>3 DEF Opened, Watched, Known, Exact
  <1> QED
    BY <1>3, <1>4, <1>5, <1>7, <1>8, <1>9, <1>10, StepCases

\* The program has the id of every open timerfd, also when create_timer failed
\* or destroy_timer did not find the timer in a damaged table; a table that no
\* removal has damaged holds every registered timer.  Unless a create_timer failed
\* and returned an id, every open timer is registered, every id stands for an open
\* timer until loop_quit, and a quit leaves none open.
THEOREM EveryTimerIsAccounted == Spec => []TimersAccounted
  <1>1. Init => TimersAccounted
    BY DEF Init, TimersAccounted, Opened, Watched
  <1> QED
    BY <1>1, Invariance, AccountedStep, PTL DEF Spec

-----------------------------------------------------------------------------
(***************************************************************************)
(* Timer implements OneShot.                                               *)
(***************************************************************************)
LEMMA AlarmInit == Init => Alarm!Init
  BY DEF Init, Alarm!Init, Armed, Opened

\* Every step arms timers, disarms timers, starts or ends a callback, or leaves
\* both the armed timers and the callback alone.
LEMMA AlarmStep == IInv /\ [Next]_vars => [Alarm!Next]_(Alarm!vars)
  <1> SUFFICES ASSUME IInv, [Next]_vars
               PROVE  [Alarm!Next]_(Alarm!vars)
    OBVIOUS
  <1> USE DEF IInv, loop, history, damage
  <1>1. ASSUME UNCHANGED <<Alarms, called>>
        PROVE  [Alarm!Next]_(Alarm!vars)
    BY <1>1 DEF Alarm!vars, Alarms
  <1>2. ASSUME NEW fd \in Fd, Alarms' = Alarms \cup {fd}, UNCHANGED called
        PROVE  [Alarm!Next]_(Alarm!vars)
    BY <1>2 DEF Alarm!Next, Alarm!Arm, Alarms
  <1>3. ASSUME NEW fds \in SUBSET Fd, Alarms' = Alarms \ fds, UNCHANGED called
        PROVE  [Alarm!Next]_(Alarm!vars)
    BY <1>3 DEF Alarm!Next, Alarm!Disarm, Alarms
  <1>4. ASSUME NEW fd \in Fd, NEW interval \in Interval, CreateTimer(fd, interval)
        PROVE  [Alarm!Next]_(Alarm!vars)
    <2>1. UNCHANGED called
      BY <1>4 DEF CreateTimer
    <2> QED
      BY <1>1, <1>2, <1>4, <2>1, CreateTimerStep
  <1>5. ASSUME NEW id \in Fd, NEW interval \in Interval \cup {NULL}, ModifyTimer(id, interval)
        PROVE  [Alarm!Next]_(Alarm!vars)
    <2>1. UNCHANGED called
      BY <1>5 DEF ModifyTimer
    <2>2. \/ Alarms' = Alarms \/ Alarms' = Alarms \ {id} \/ Alarms' = Alarms \cup {id}
      BY <1>5, ModifyTimerStep
    <2> QED
      BY <1>1, <1>2, <1>3, <2>1, <2>2
  <1>6. ASSUME NEW fd \in Fd, DestroyTimer(fd)
        PROVE  [Alarm!Next]_(Alarm!vars)
    <2>1. Closed({fd}) /\ UNCHANGED called
      BY <1>6 DEF DestroyTimer
    <2>2. Alarms' = Alarms \ ({fd} \cap Listed) /\ {fd} \cap Listed \in SUBSET Fd
      BY <2>1, ClosedLemma
    <2> QED
      BY <1>3, <2>1, <2>2
  <1>7. CASE LoopQuit
    <2>1. Closed(Fd) /\ UNCHANGED called
      BY <1>7 DEF LoopQuit
    <2> QED
      BY <1>3, <2>1, ClosedLemma
  <1>8. CASE Wait
    BY <1>1, <1>8, WaitStep DEF Wait
  <1>9. ASSUME NEW fd \in Fd, Dispatch(fd)
        PROVE  [Alarm!Next]_(Alarm!vars)
    <2>1. called = NULL /\ called' = IF timer[fd].unread THEN fd ELSE NULL
      BY <1>9 DEF Dispatch, Idle
    <2>2. CASE timer[fd].unread
      <3>1. fd \in Alarms /\ Alarms' = Alarms \ {fd}
        BY <1>9, <2>2, DispatchStep
      <3> QED
        BY <2>1, <2>2, <3>1 DEF Alarm!Next, Alarm!Ring, Alarms
    <2>3. CASE ~timer[fd].unread
      BY <1>1, <1>9, <2>1, <2>3, DispatchStep
    <2> QED
      BY <2>2, <2>3
  <1>10. ASSUME NEW fd \in Fd, Expire(fd)
         PROVE  [Alarm!Next]_(Alarm!vars)
    BY <1>1, <1>10, ExpireStep DEF Expire
  <1>11. CASE Others
    <2>1. Alarms' = Alarms
      BY <1>11, OthersLemma DEF Alarms, Armed, Opened
    <2>2. called' = called \/ called' = NULL
      BY <1>11 DEF Others, RunLoop, ExitLoop, WaitFails, Tick, CallbackReturns, Halted,
                   CreateTimerFails, DispatchDropped, DestroyTimerFails, OthersRemove,
                   TableFaults, vars
    <2> QED
      BY <1>1, <2>1, <2>2 DEF Alarm!Next, Alarm!Silence, Alarms
  <1> QED
    BY <1>4, <1>5, <1>6, <1>7, <1>8, <1>9, <1>10, <1>11, StepCases

\* Module Timer implements OneShot: a callback runs at most once for each arming,
\* although the event that brings it may have been fetched for an earlier one,
\* one callback at a time, and never for a timer disarmed or destroyed since.
THEOREM ImplementsOneShot == Spec => RingsOncePerArming
  <1>1. Init => Alarm!Init
    BY AlarmInit
  <1>2. IInv /\ [Next]_vars => [Alarm!Next]_(Alarm!vars)
    BY AlarmStep
  <1> QED
    BY <1>1, <1>2, Invariance, PTL DEF Spec, RingsOncePerArming, Alarm!Spec
=============================================================================
