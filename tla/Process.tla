------------------------------- MODULE Process -------------------------------
(***************************************************************************)
(* A process that runs the event loop, as the watchdog and the signal loop *)
(* see it: its descriptor table, in which the kernel always hands out the  *)
(* lowest free number, so that numbers are reused as soon as they can be;  *)
(* the descriptors epoll knows and the loop's table of them; and the calls *)
(* that have not returned.  Modules Watchdog and SignalLoop extend this    *)
(* one, module Service them.  The addresses of the entries, the growth of  *)
(* the table and its pool are in module Loop.                              *)
(***************************************************************************)
EXTENDS Integers, Sequences, FiniteSets

CONSTANTS
  MaxFd,     \* bound: descriptor numbers
  MaxTop,    \* bound: slots in use
  MaxOwn,    \* bound: the program's own descriptors, and watchdogs it has added
  MaxCalls   \* bound: calls that have not returned

ASSUME BoundsAssumption == MaxFd \in Nat /\ MaxTop \in Nat /\ MaxOwn \in Nat /\ MaxCalls \in Nat

Fd == 0 .. MaxFd
NONE == -1  \* no descriptor; a NULL slot of the table
DEAD == -2  \* a slot whose entry has been freed

\* "watchdog" is the library's timer, "timer" one the program has added,
\* "spent" either of them after its only event.
Kind == {"free", "program", "epoll", "socket", "watchdog", "timer", "spent", "signalfd"}

\* A call that has not returned: a callback or destructor of the program,
\* loop_cleanup, before and after it has torn the table down, or signal_read,
\* before and after it has read.
Call == {"user", "cleanup", "torn", "read", "deliver"}
Mishap == {"none", "timer", "signal"}

VARIABLES
  fds,        \* descriptor |-> what it is
  watched,    \* descriptors registered with epoll
  table,      \* __s_data.storage: the descriptors of the entries, NONE or DEAD
  terminate,  \* loop termination flag
  inside,     \* loop_run is running
  batch,      \* descriptors of the events still to be dispatched
  dropped,    \* descriptors unregistered while their event is in the batch
  calls,      \* the calls that have not returned, innermost last
  fault,      \* the first undefined behaviour
  holed,      \* history: a slot other than the last has been removed
  mishap      \* history: a "timer" or a "signal" channel has failed unnoticed

loop == <<terminate, inside, batch>>
entries == <<watched, table, dropped, holed>>
process == <<fds, entries, loop, calls, fault, mishap>>

-----------------------------------------------------------------------------
Running == fault = "none"

\* Bound: one failure that goes unnoticed.
Happens(what) == mishap = "none" /\ mishap' = what

Innermost == calls[Len(calls)]
Push(call) == Len(calls) < MaxCalls /\ calls' = Append(calls, call)
Becomes(stage) == calls' = [calls EXCEPT ![Len(calls)] = stage]
Pop == calls' = SubSeq(calls, 1, Len(calls) - 1)

\* The program's own code is running and may call the library.
UserCode ==
  Running /\ IF calls = <<>> THEN ~inside ELSE Innermost = "user"
CallAt(stage) == Running /\ calls # <<>> /\ Innermost = stage
Idle == Running /\ inside /\ calls = <<>>

Of(files, kind) == {fd \in Fd : files[fd] = kind}
Room(files) == Of(files, "free") # {}
Lowest(files) ==
  CHOOSE fd \in Of(files, "free") : \A other \in Of(files, "free") : fd <= other
Opens(files, kind) == [files EXCEPT ![Lowest(files)] = kind]
Initialised(files) == Of(files, "epoll") # {}

\* The destructors of the library close the descriptors they belong to.
Timers == {"watchdog", "timer", "spent"}
ClosedTimers(files, gone) ==                                               \* mutant
  [fd \in Fd |-> IF fd \in gone /\ files[fd] \in Timers THEN "free" ELSE files[fd]]

Closed(files, gone) ==
  [fd \in Fd |-> IF fd \in gone /\ files[fd] \in Timers \cup {"signalfd"}
                 THEN "free" ELSE files[fd]]

-----------------------------------------------------------------------------
\* loop_add_sd, when epoll takes the descriptor.
Add(fd) ==
  /\ Len(table) < MaxTop /\ table' = Append(table, fd)
  /\ watched' = watched \cup {fd}

(***************************************************************************)
(* loop_remove_sd.  The search reads the slots up to the one it looks for. *)
(* The shift stops one slot early: of a slot other than the last, the one  *)
(* before the last stays where it is, and the last entry is lost to the    *)
(* table, though not to epoll.                                             *)
(***************************************************************************)
Listed == {table[i] : i \in DOMAIN table} \cap Fd
SlotOf(fd) == CHOOSE i \in DOMAIN table :
                table[i] = fd /\ \A j \in 1 .. (i - 1) : table[j] # fd
SearchFaults(fd) ==
  /\ fd \in Fd
  /\ \E i \in DOMAIN table : table[i] \notin Fd /\ \A j \in 1 .. (i - 1) : table[j] # fd

FreedIn(slots, fd) == [i \in DOMAIN slots |-> IF slots[i] = fd THEN DEAD ELSE slots[i]]

Shifted(fd) ==
  FreedIn([i \in 1 .. (Len(table) - 1) |->
             IF i >= SlotOf(fd) /\ i + 2 <= Len(table) THEN table[i + 1] ELSE table[i]], fd)

\* What loop_remove_sd(fd) takes out of the table, and its effect.
Gone(fd) == IF SearchFaults(fd) THEN {} ELSE {fd} \cap Listed

Forgotten(gone) ==
  /\ watched' = watched \ gone
  /\ dropped' = dropped \cup (gone \cap batch)

Remove(fd) ==
  /\ Forgotten(Gone(fd))
  /\ table' = IF Gone(fd) = {} THEN table ELSE Shifted(fd)
  /\ holed' = (holed \/ (Gone(fd) # {} /\ SlotOf(fd) # Len(table)))
  /\ fault' = IF SearchFaults(fd) THEN "search" ELSE fault

\* Standard input may be closed when the program starts.
ProcessInit ==
  /\ fds \in {[fd \in Fd |-> IF fd = 0 THEN stdin ELSE "free"] : stdin \in {"program", "free"}}
  /\ watched = {} /\ table = <<>> /\ terminate = FALSE /\ inside = FALSE
  /\ batch = {} /\ dropped = {} /\ calls = <<>>
  /\ fault = "none" /\ holed = FALSE /\ mishap = "none"

-----------------------------------------------------------------------------
\* The program's own descriptors.
OpenProgram ==
  /\ UserCode /\ Room(fds) /\ Cardinality(Of(fds, "program")) < MaxOwn
  /\ fds' = Opens(fds, "program")
  /\ UNCHANGED <<entries, loop, calls, fault, mishap>>

CloseProgram(fd) ==
  /\ UserCode /\ fds[fd] = "program" /\ fd \notin watched
  /\ fds' = [fds EXCEPT ![fd] = "free"]
  /\ UNCHANGED <<entries, loop, calls, fault, mishap>>

\* loop_add_sd, loop_remove_sd; the second runs the program's destructor.
AddProgram(fd) ==
  /\ UserCode /\ fds[fd] = "program" /\ fd \notin watched /\ Initialised(fds)
  /\ Add(fd)
  /\ UNCHANGED <<fds, loop, dropped, holed, calls, fault, mishap>>

RemoveProgram(fd) ==
  /\ UserCode /\ fds[fd] = "program" /\ fd \in watched
  /\ Remove(fd)
  /\ IF Gone(fd) = {} THEN UNCHANGED calls ELSE Push("user")
  /\ UNCHANGED <<fds, loop, mishap>>

UserReturns ==
  /\ Running /\ calls # <<>> /\ Innermost = "user"
  /\ Pop
  /\ UNCHANGED <<fds, entries, loop, fault, mishap>>

-----------------------------------------------------------------------------
\* loop_run: the events of a batch.  "ready" are descriptors epoll has to report.
Wait(ready) ==
  /\ Idle /\ ~terminate /\ batch = {}
  /\ ready # {} /\ batch' = ready
  /\ dropped' = {}
  /\ UNCHANGED <<fds, watched, table, holed, terminate, inside, calls, fault, mishap>>

\* The entry of a descriptor unregistered since is freed memory (module Loop).
DispatchDropped(fd) ==
  /\ Idle /\ fd \in batch \cap dropped
  /\ fault' = "dispatch"
  /\ UNCHANGED <<fds, entries, loop, calls, mishap>>

DispatchProgram(fd) ==
  /\ Idle /\ fd \in batch \ dropped /\ fds[fd] = "program"
  /\ batch' = batch \ {fd}
  /\ Push("user")
  /\ UNCHANGED <<fds, entries, terminate, inside, fault, mishap>>

(***************************************************************************)
(* loop_cleanup takes the entries out slot by slot, skipping NULL slots. A *)
(* slot whose entry has been freed is undefined behaviour.  Then the table *)
(* goes and epoll is closed, with all its registrations.                   *)
(***************************************************************************)
Remaining == {i \in DOMAIN table : table[i] # NONE}
NextSlot == CHOOSE i \in Remaining : \A j \in Remaining : i <= j

CleanupDead ==
  /\ CallAt("cleanup") /\ Remaining # {} /\ table[NextSlot] = DEAD
  /\ fault' = "cleanup"
  /\ UNCHANGED <<fds, entries, loop, calls, mishap>>

TearDown ==
  /\ CallAt("cleanup") /\ Remaining = {}
  /\ fds' = [fd \in Fd |-> IF fds[fd] = "epoll" THEN "free" ELSE fds[fd]]
  /\ watched' = {} /\ table' = <<>>
  /\ Becomes("torn")
  /\ UNCHANGED <<loop, dropped, holed, fault, mishap>>
=============================================================================
