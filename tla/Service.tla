------------------------------- MODULE Service -------------------------------
(***************************************************************************)
(* The watchdog and the signal loop in one process: what a daemon built on *)
(* the library does, from loop_init and loop_run_with_signal to the quit   *)
(* that its signal function, a callback, a destructor or a signal handler  *)
(* calls.  The modules share descriptor numbers and the clean-up.          *)
(***************************************************************************)
EXTENDS Watchdog, SignalLoop

vars == <<process, watchdogVars, signalVars>>

Init == ProcessInit /\ WatchdogVarsInit /\ SignalVarsInit

\* loop_cleanup: the next entry leaves the table, its destructor runs.
CleanupEntry ==
  /\ CallAt("cleanup") /\ Remaining # {} /\ table[NextSlot] \in Fd
  /\ LET fd == table[NextSlot]
     IN /\ Forgotten({fd}) /\ fds' = Closed(fds, {fd})
        /\ table' = FreedIn([table EXCEPT ![NextSlot] = NONE], fd)
        /\ ids' = IF fds[fd] \in Timers THEN ids \ {fd} ELSE ids
        /\ ChannelForgotten({fd})
        /\ IF fds[fd] = "program" THEN Push("user") ELSE UNCHANGED calls
  /\ UNCHANGED <<loop, holed, fault, mishap, notify, watchdog, sent, handler, pending>>

RemoveWatchdog(id) ==
  /\ WatchdogRemove(id) /\ ChannelForgotten(Gone(id))
  /\ UNCHANGED <<handler, pending>>

Program ==
  \/ /\ \/ OpenProgram \/ UserReturns
        \/ \E fd \in Fd : CloseProgram(fd) \/ AddProgram(fd) \/ RemoveProgram(fd)
     /\ UNCHANGED <<watchdogVars, signalVars>>
  \/ (LoopInit \/ WatchdogAdd \/ Quit \/ ExitLoop) /\ UNCHANGED signalVars
  \/ \E id \in Fd : RemoveWatchdog(id)
  \/ (SetupFails \/ LoopRunWithSignal) /\ UNCHANGED watchdogVars

\* epoll_wait reports all that is ready: the signalfd, with a signal pending,
\* and any of the timers and of the program's descriptors.
LoopRun ==
  \/ /\ \E others \in SUBSET {fd \in watched : fds[fd] \in {"program", "watchdog", "timer"}} :
          Wait(SignalReady \cup others)
     /\ UNCHANGED <<watchdogVars, signalVars>>
  \/ \E fd \in Fd :
       \/ /\ DispatchDropped(fd) \/ DispatchProgram(fd)
          /\ UNCHANGED <<watchdogVars, signalVars>>
       \/ WatchdogFires(fd) /\ UNCHANGED signalVars
       \/ (SignalEvent(fd) \/ SignalIgnored(fd)) /\ UNCHANGED watchdogVars
  \/ /\ SignalRead \/ SignalFunction \/ SignalReadFails \/ SignalDataGone \/ LoopRunReturns
     /\ UNCHANGED watchdogVars

Cleanup ==
  \/ CleanupEntry
  \/ (CleanupDead \/ TearDown) /\ UNCHANGED <<watchdogVars, signalVars>>
  \/ WatchdogExit /\ UNCHANGED signalVars

Halted == ~Running /\ UNCHANGED vars

Next == Program \/ LoopRun \/ Cleanup \/ (Raise /\ UNCHANGED watchdogVars) \/ Halted

Spec == Init /\ [][Next]_vars

(***************************************************************************)
(* loop_run is straight-line code of the one thread, and the callbacks and *)
(* destructors it calls return in the end, at every depth of the stack.    *)
(***************************************************************************)
FairSpec ==
  /\ Spec
  /\ WF_vars(LoopRun)
  /\ \A depth \in 1 .. MaxCalls :
       SF_vars(Len(calls) = depth /\ UserReturns /\ UNCHANGED <<watchdogVars, signalVars>>)
=============================================================================
