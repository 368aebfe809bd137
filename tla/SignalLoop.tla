----------------------------- MODULE SignalLoop -----------------------------
(***************************************************************************)
(* src/src/common/signal.c: loop_run_with_signal blocks a few signals,     *)
(* reads them through an I/O channel on a signalfd and runs the loop.  Of  *)
(* the channel (module Io has the rest) this module keeps its descriptor,  *)
(* its read handler and the data of that handler, whose destroy function   *)
(* is free.                                                                *)
(*                                                                         *)
(* A definition marked "mutant" is the one after it with a bug put in; the *)
(* specification does not use it.                                          *)
(***************************************************************************)
EXTENDS Process

VARIABLES
  sd,       \* descriptor of the channel, NONE when it has none
  armed,    \* its mask asks for reads
  handler,  \* its read handler is installed
  data,     \* signal_data_t: "none", "held", "released", or released "twice"
  pending   \* a signal is pending, blocked for the signalfd to report

signalVars == <<sd, armed, handler, data, pending>>

SignalVarsInit ==
  /\ sd = NONE /\ armed = FALSE /\ handler = FALSE /\ data = "none"
  /\ pending = FALSE

SignalReady == IF pending /\ armed THEN {sd} \cap watched ELSE {}

-----------------------------------------------------------------------------
\* free(data), which may only be called once.
Freed == data' = IF data = "held" THEN "released" ELSE "twice"

\* "gone" are unregistered: io_destroy_callback on the channel, if it is among
\* them, calls the destroy function of its handler and closes its descriptor.
ChannelForgotten(gone) ==
  IF sd \in gone
  THEN /\ IF handler THEN Freed ELSE UNCHANGED data
       /\ sd' = NONE /\ armed' = FALSE
  ELSE UNCHANGED <<sd, armed, data>>

-----------------------------------------------------------------------------
(***************************************************************************)
(* loop_run_with_signal up to loop_run.  Without a signalfd, or when       *)
(* io_new returns NULL, it frees the data and returns; the signals stay    *)
(* blocked and the signalfd of the second case stays open.  io_new also    *)
(* returns a channel whose descriptor epoll_ctl refused (see module Io),   *)
(* and nobody asks whether io_set_read_handler could set the mask.  Bound: *)
(* one call per process.                                                   *)
(***************************************************************************)
SetupFails ==
  /\ UserCode /\ calls = <<>> /\ data = "none"
  /\ data' = "released"
  /\ \/ UNCHANGED <<fds, mishap>>
     \/ Room(fds) /\ fds' = Opens(fds, "signalfd") /\ Happens("signal")
  /\ UNCHANGED <<entries, loop, calls, fault, sd, armed, handler, pending>>

LoopRunWithSignal ==
  /\ UserCode /\ calls = <<>> /\ Room(fds) /\ data = "none"
  /\ data' = "held" /\ handler' = TRUE
  /\ sd' = Lowest(fds) /\ fds' = Opens(fds, "signalfd")
  /\ \/ Happens("signal") /\ armed' = FALSE /\ UNCHANGED <<watched, table>>
     \/ /\ Initialised(fds) /\ Add(sd')
        /\ \/ armed' = TRUE /\ UNCHANGED mishap
           \/ armed' = FALSE /\ Happens("signal")
  /\ fault' = IF SearchFaults(sd') THEN "search" ELSE fault
  /\ inside' = TRUE
  /\ UNCHANGED <<terminate, batch, dropped, holed, calls, pending>>

(***************************************************************************)
(* io_process_event calls signal_read, which reads and then calls the      *)
(* function of the program; a signal handler of the program may interrupt  *)
(* it before either with a clean-up.                                       *)
(***************************************************************************)
SignalEvent(fd) ==
  /\ Idle /\ fd \in batch \ dropped /\ fds[fd] = "signalfd"
  /\ batch' = batch \ {fd}
  /\ handler /\ Push("read")
  /\ UNCHANGED <<fds, entries, terminate, inside, fault, mishap, signalVars>>

Reads ==
  /\ CallAt("read") /\ sd # NONE /\ pending
  /\ Becomes("deliver")
  /\ UNCHANGED <<fds, entries, loop, fault, mishap, sd, armed, handler, data>>

SignalReadPeeks == Reads /\ UNCHANGED pending                              \* mutant

SignalRead == Reads /\ pending' = FALSE

\* The function of the program runs; it may quit the loop, which frees the data
\* it was found in.
SignalFunction ==
  /\ CallAt("deliver") /\ data = "held"
  /\ Becomes("user")
  /\ UNCHANGED <<fds, entries, loop, fault, mishap, signalVars>>

\* When the read fails, 0 is returned and the channel drops its handler; if the
\* mask cannot be changed, reads are reported for ever and nobody reads.
SignalReadFails ==
  /\ CallAt("read") /\ Pop
  /\ data = "held" /\ Freed /\ handler' = FALSE
  /\ fault' = IF SearchFaults(sd) THEN "search" ELSE fault
  /\ IF sd \in Listed
     THEN \/ armed' = FALSE /\ UNCHANGED mishap
          \/ Happens("signal") /\ UNCHANGED armed
     ELSE UNCHANGED <<armed, mishap>>
  /\ UNCHANGED <<fds, entries, loop, sd, pending>>

\* A clean-up that interrupted has freed the data and closed the descriptor:
\* the read fails and the data is freed again, or the function is called
\* through data that is gone.
SignalDataGone ==
  /\ CallAt("read") \/ CallAt("deliver")
  /\ data # "held" /\ fault' = "data"
  /\ UNCHANGED <<fds, entries, loop, calls, mishap, signalVars>>

SignalIgnored(fd) ==
  /\ Idle /\ fd \in batch \ dropped /\ fds[fd] = "signalfd"
  /\ batch' = batch \ {fd}
  /\ ~handler
  /\ UNCHANGED <<fds, entries, terminate, inside, calls, fault, mishap, signalVars>>

(***************************************************************************)
(* loop_run returns, io_destroy takes the channel down if the loop has not *)
(* done so.  A channel that is not listed is not found: its data and its   *)
(* descriptor are lost.  The free that follows is given a variable that is *)
(* always NULL.                                                            *)
(***************************************************************************)
Return(freed) ==
  /\ Idle /\ terminate /\ batch = {}
  /\ inside' = FALSE
  /\ Remove(sd) /\ fds' = Closed(fds, Gone(sd))
  /\ IF freed \/ (handler /\ Gone(sd) # {}) THEN Freed ELSE UNCHANGED data
  /\ sd' = NONE /\ armed' = FALSE /\ handler' = FALSE
  /\ UNCHANGED <<terminate, batch, calls, mishap, pending>>

LoopRunReturnsFreeing == Return(TRUE)                                      \* mutant

LoopRunReturns == Return(FALSE)

\* The kernel: a signal is raised, which signal.c:66 has blocked.  One raised
\* before loop_run is as if raised when it starts, one after it is not read.
Raise ==
  /\ Running /\ inside
  /\ pending' = TRUE
  /\ UNCHANGED <<process, sd, armed, handler, data>>
=============================================================================
