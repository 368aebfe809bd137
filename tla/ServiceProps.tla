---------------------------- MODULE ServiceProps ----------------------------
(***************************************************************************)
(* Properties of module Service.                                           *)
(***************************************************************************)
EXTENDS Service

(***************************************************************************)
(* Type correctness of the variables of the three modules.                 *)
(***************************************************************************)
TypeOK ==
  /\ fds \in [Fd -> Kind] /\ watched \subseteq Fd /\ table \in Seq(Fd \cup {NONE, DEAD})
  /\ terminate \in BOOLEAN /\ inside \in BOOLEAN /\ holed \in BOOLEAN
  /\ batch \subseteq Fd /\ dropped \subseteq Fd
  /\ calls \in Seq(Call) /\ Len(calls) <= MaxCalls
  /\ fault \in {"none", "search", "cleanup", "dispatch", "data"}
  /\ notify \in Fd \cup {NONE} /\ watchdog \in Fd \cup {NONE} /\ ids \subseteq Fd \ {0}
  /\ sent \subseteq {"STOPPING=1"} /\ mishap \in Mishap
  /\ sd \in Fd \cup {NONE} /\ {armed, handler, pending} \subseteq BOOLEAN
  /\ data \in {"none", "held", "released", "twice"}

(***************************************************************************)
(* The library takes 0 and -1 for "no descriptor" (watchdog.c:127, 161,    *)
(* 180), although 0 is a descriptor when standard input is closed.  It     *)
(* gets away with it: epoll is opened first and takes 0.  So every open    *)
(* notification socket can be used and closed, and every watchdog timer    *)
(* is the one that __s_watchdog names.                                     *)
(***************************************************************************)
SentinelsUnused ==
  /\ Of(fds, "socket") \subseteq {notify} \ {0}
  /\ notify # NONE => fds[notify] = "socket"
  /\ ~holed /\ mishap # "timer" => Of(fds, "watchdog") \subseteq {watchdog} \ {0}

(***************************************************************************)
(* After loop_cleanup and loop_run have returned, in whatever order        *)
(* callbacks, destructors and signal handlers have called them, the        *)
(* library holds no descriptor open: the timers, the signalfd, the socket  *)
(* and epoll are closed.  Except for what the table has lost, for timers   *)
(* whose registration failed unnoticed, and for the signalfd that          *)
(* loop_run_with_signal leaks.                                             *)
(***************************************************************************)
Over == calls = <<>> /\ ~inside /\ Running /\ ~Initialised(fds)
NothingLeftOpen ==
  Over => /\ Of(fds, "epoll") \cup Of(fds, "socket") = {}
          /\ Of(fds, "watchdog") \cup Of(fds, "timer") # {} => holed \/ mishap = "timer"
          /\ Of(fds, "signalfd") # {} => holed \/ mishap = "signal"

(***************************************************************************)
(* The data of loop_run_with_signal is freed once, although it has three   *)
(* owners in turn: signal_read when its read fails, the clean-up that the  *)
(* signal function itself may start, and loop_run_with_signal (signal.c:45,*)
(* 76, 108, 114), and it is not used afterwards.  With one exception: a    *)
(* clean-up that a signal handler has started while signal_read was about  *)
(* to read or to call the function has taken the data away, which is then  *)
(* freed again (io.c:133) or used (signal.c:47).  When loop_run_with_signal*)
(* has returned the data is gone, unless the channel was never listed or   *)
(* lost.                                                                   *)
(***************************************************************************)
Overtaken ==
  /\ calls # <<>> /\ Innermost \in {"read", "deliver"}
  /\ terminate /\ sd = NONE /\ data = "released"
SignalDataFreedOnce ==
  /\ data # "twice"
  /\ fault = "data" => Overtaken
  /\ ~inside /\ Running /\ data = "held" => holed \/ mishap = "signal"

(***************************************************************************)
(* The identifier __s_watchdog outlives its timer, and its number may be   *)
(* given to a descriptor of the program.  watchdog_exit removes whatever   *)
(* has this number (watchdog.c:185), yet only ever closes the socket and   *)
(* takes nothing from the loop: loop_cleanup has emptied the table before  *)
(* (loop.c:312-326).                                                       *)
(***************************************************************************)
ExitRemovesNothing ==
  [][Len(calls') < Len(calls) /\ Innermost \in {"cleanup", "torn"} =>
       /\ UNCHANGED <<watched, table, fault>>
       /\ \A fd \in Fd : fds'[fd] # fds[fd] => fds[fd] = "socket"]_vars

(***************************************************************************)
(* A signal that is pending while the loop runs with a working channel is  *)
(* handed to the signal function, unless the loop is told to quit: events  *)
(* of others, their callbacks and damage to the table do not starve it.    *)
(***************************************************************************)
Heard == ~pending \/ ~armed \/ ~handler \/ terminate \/ ~Running
SignalHeard == inside ~> Heard

(***************************************************************************)
(* What the watchdog is for, and what watchdog.c:39 says of its callback   *)
(* ("Callback for socket descriptor timeout"): when the timer of the       *)
(* library rings, the keep-alive of watchdog_stop is sent.                 *)
(***************************************************************************)
KeepAliveSent ==
  [][\A fd \in Fd : WatchdogFires(fd) /\ fds[fd] = "watchdog" => "WATCHDOG=1" \in sent']_vars
=============================================================================
