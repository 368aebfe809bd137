------------------------------ MODULE Watchdog ------------------------------
(***************************************************************************)
(* The systemd watchdog of src/src/common/watchdog.c: the socket to the    *)
(* service manager and the watchdog timers, of which the library keeps one *)
(* and the program may add its own.  loop_init calls watchdog_init,        *)
(* loop_quit calls watchdog_notify, loop_cleanup ends with watchdog_exit.  *)
(*                                                                         *)
(* A definition marked "mutant" is the one after it with a bug put in; the *)
(* specification does not use it.                                          *)
(***************************************************************************)
EXTENDS Process

CONSTANT Errno  \* the values timerfd_create leaves in errno

ASSUME ErrnoAssumption == Errno \subseteq Fd \ {0}

VARIABLES
  notify,    \* __s_notify_fd
  watchdog,  \* __s_watchdog
  ids,       \* ids of the watchdogs the program has added and thinks it has
  sent       \* messages given to the service manager

watchdogVars == <<notify, watchdog, ids, sent>>

WatchdogVarsInit ==
  notify = NONE /\ watchdog = NONE /\ ids = {} /\ sent = {}

-----------------------------------------------------------------------------
(***************************************************************************)
(* watchdog_add, with these open files: the files it leaves, the id it     *)
(* returns, and the result.  create_timer returns an errno, any small      *)
(* positive number, when timerfd_create fails, and the descriptor of a     *)
(* timer that is not registered when epoll_ctl refuses it (see module      *)
(* Timer); watchdog_add takes both for an id, and returns 0 for the        *)
(* negative results.                                                       *)
(***************************************************************************)
AddedUnchecked(files, kind) ==                                             \* mutant
  [fds : {files}, id : {-5}, result : {"refused"}]
  \cup [fds : {files}, id : Errno, result : {"unnoticed"}]
  \cup IF Room(files)
       THEN [fds : {Opens(files, kind)}, id : {Lowest(files)},
             result : {"unnoticed"} \cup (IF Initialised(files) THEN {"registered"} ELSE {})]
       ELSE {}

Added(files, kind) ==
  [fds : {files}, id : {0}, result : {"refused"}]
  \cup [fds : {files}, id : Errno, result : {"unnoticed"}]
  \cup IF Room(files)
       THEN [fds : {Opens(files, kind)}, id : {Lowest(files)},
             result : {"unnoticed"} \cup (IF Initialised(files) THEN {"registered"} ELSE {})]
       ELSE {}

Adds(added) ==
  /\ fds' = added.fds
  /\ IF added.result = "registered" THEN Add(added.id) ELSE UNCHANGED <<watched, table>>
  /\ IF added.result = "unnoticed" THEN Happens("timer") ELSE UNCHANGED mishap

(***************************************************************************)
(* loop_init, once epoll is open: watchdog_init.  It does nothing without  *)
(* a usable NOTIFY_SOCKET, gives up when the socket cannot be opened or    *)
(* connected, and adds the watchdog if WATCHDOG_USEC is set.  Bound: one   *)
(* loop per process.                                                       *)
(***************************************************************************)
LoopInitWatchdogFirst ==                                                   \* mutant
  /\ UserCode /\ calls = <<>> /\ ~Initialised(fds) /\ Room(fds) /\ ~terminate
  /\ LET socket == Opens(fds, "socket")
     IN /\ Room(socket)
        /\ fds' = Opens(socket, "epoll") /\ notify' = Lowest(fds)
  /\ UNCHANGED <<entries, watchdog, loop, calls, fault, ids, sent, mishap>>

LoopInit ==
  /\ UserCode /\ calls = <<>> /\ ~Initialised(fds) /\ Room(fds) /\ ~terminate
  /\ LET opened == Opens(fds, "epoll")
         socket == Opens(opened, "socket")
     IN \/ /\ fds' = opened /\ notify' \in {notify, NONE}
           /\ UNCHANGED <<watched, table, watchdog, mishap>>
        \/ /\ Room(opened)
           /\ notify' = Lowest(opened)
           /\ \/ fds' = socket /\ UNCHANGED <<watched, table, watchdog, mishap>>
              \/ \E added \in Added(socket, "watchdog") : Adds(added) /\ watchdog' = added.id
  /\ UNCHANGED <<loop, dropped, holed, calls, fault, ids, sent>>

\* watchdog_add, watchdog_update (which adds as well) called by the program.
WatchdogAdd ==
  /\ UserCode /\ Cardinality(ids) < MaxOwn
  /\ \E added \in Added(fds, "timer") : Adds(added) /\ ids' = ids \cup ({added.id} \ {0})
  /\ UNCHANGED <<loop, dropped, holed, calls, fault, notify, watchdog, sent>>

\* watchdog_remove, of whatever is listed under this id.
WatchdogRemove(id) ==
  /\ UserCode /\ id \in ids
  /\ Remove(id) /\ fds' = Closed(fds, Gone(id))
  /\ ids' = ids \ {id}
  /\ IF id \in Gone(id) /\ fds[id] = "program" THEN Push("user") ELSE UNCHANGED calls
  /\ UNCHANGED <<loop, notify, watchdog, sent, mishap>>

\* watchdog_callback destroys the timer, and does nothing else; the program
\* learns of it from its destructor, which only releases its data, the library
\* does not.  A timer lost to the table is not found; it rings no more.
WatchdogFires(fd) ==
  /\ Idle /\ fd \in batch \ dropped /\ fds[fd] \in Timers
  /\ batch' = batch \ {fd}
  /\ Remove(fd)
  /\ fds' = [Closed(fds, Gone(fd)) EXCEPT ![fd] = IF @ = "free" THEN @ ELSE "spent"]
  /\ ids' = ids \ Gone(fd)
  /\ UNCHANGED <<terminate, inside, calls, notify, watchdog, sent, mishap>>

\* watchdog_notify
Notify(message) == sent' = IF notify < 1 THEN sent ELSE sent \cup {message}

-----------------------------------------------------------------------------
\* loop_cleanup, called by the program, or by a signal handler at any moment,
\* through loop_quit, which announces the end, or loop_exit_success and
\* loop_exit_failure.  The bound leaves room for a destructor on top.
StartCleanup ==
  /\ Running /\ Len(calls) + 1 < MaxCalls
  /\ terminate' = TRUE
  /\ Push("cleanup")
  /\ UNCHANGED <<fds, entries, inside, batch, fault, mishap, notify, watchdog, ids>>

Quit == Notify("STOPPING=1") /\ StartCleanup
ExitLoop == StartCleanup /\ UNCHANGED sent

\* watchdog_exit: close the socket, then remove the watchdog, whatever its
\* identifier stands for by now.
Exit(stage) ==
  LET closed == IF notify > 0 THEN [fds EXCEPT ![notify] = "free"] ELSE fds
  IN /\ CallAt(stage) /\ Pop
     /\ notify' = IF notify > 0 THEN NONE ELSE notify
     /\ IF watchdog < 1 THEN fds' = closed /\ UNCHANGED <<entries, fault>>
        ELSE Remove(watchdog) /\ fds' = Closed(closed, Gone(watchdog))
     /\ UNCHANGED <<loop, watchdog, ids, sent, mishap>>

WatchdogExitFirst == Exit("cleanup")                                           \* mutant

WatchdogExit == Exit("torn")
=============================================================================
