---------------------------- MODULE Service_proofs ----------------------------
(***************************************************************************)
(* Proofs about the watchdog and the signal loop in one process: the       *)
(* inductive invariant of module Service and the properties that follow.   *)
(***************************************************************************)
EXTENDS ServiceProps, WellFoundedInduction, TLAPS

\* What the loop watches is listed no more than once, through entries that are
\* there; until a removal damages the table, all of it.
TableExact ==
  /\ Listed \subseteq watched
  /\ ~holed => /\ watched \subseteq Listed
               /\ \A i \in DOMAIN table : table[i] # DEAD
               /\ \A i, j \in DOMAIN table : table[i] = table[j] /\ table[i] \in Fd => i = j

\* The loop watches what the program or the library has opened for it, and what
\* the library has to close; it watches nothing without epoll.
RegisteredIn(files) ==
  /\ \A fd \in watched : files[fd] \in {"program", "signalfd"} \cup Timers
  /\ ~holed => /\ mishap # "timer" => Of(files, "watchdog") \cup Of(files, "timer") \subseteq watched
               /\ mishap # "signal" => Of(files, "signalfd") \subseteq watched
  /\ watched # {} => Initialised(files)
Registered == RegisteredIn(fds)

\* A clean-up is announced.
Announced == \A k \in DOMAIN calls : calls[k] \in {"cleanup", "torn"} => terminate

\* Once a clean-up has torn the table down no code of the program runs until
\* it has returned, so that nothing is opened or added again.
TornDown ==
  \A k \in DOMAIN calls : calls[k] = "torn" =>
    /\ watched = {} /\ table = <<>> /\ ~Initialised(fds)
    /\ \A j \in DOMAIN calls : k < j => calls[j] # "user"

\* The socket lives as long as the loop and its clean-up.
SocketOwned ==
  Of(fds, "socket") # {} => Initialised(fds) \/ \E k \in DOMAIN calls : calls[k] = "torn"
NoWatchdogYet == ~Initialised(fds) /\ ~terminate => Of(fds, "watchdog") = {}

\* The channel, its handler and the data of the handler.
ChannelOpen == sd # NONE => fds[sd] = "signalfd" /\ inside /\ (handler => data = "held")
ChannelHandled == handler => inside /\ Of(fds, "signalfd") \subseteq {sd}
DataOnce ==
  /\ data # "twice"
  /\ data = "none" => ~handler /\ sd = NONE /\ Of(fds, "signalfd") = {}
  /\ data = "held" => \/ inside /\ handler /\ sd # NONE
                      \/ holed \/ mishap = "signal" \/ ~Running

\* signal_read is called by loop_run, while the data is held.  What runs on top
\* of it is a clean-up, and code that the clean-up calls.
Reading == \E k \in DOMAIN calls : calls[k] \in {"read", "deliver"}
ReadsFirst ==
  \A k \in DOMAIN calls : calls[k] \in {"read", "deliver"} =>
    /\ k = 1
    /\ Len(calls) > 1 => terminate
    /\ data # "held" => terminate /\ sd = NONE /\ data = "released"
DataFault == fault = "data" => Overtaken

IInv ==
  /\ TypeOK /\ TableExact /\ Registered /\ Announced /\ TornDown
  /\ SentinelsUnused /\ SocketOwned /\ NoWatchdogYet
  /\ ChannelOpen /\ ChannelHandled /\ DataOnce /\ ReadsFirst /\ DataFault

-----------------------------------------------------------------------------
(***************************************************************************)
(* The descriptor table: open hands out the lowest free number.            *)
(***************************************************************************)
LEMMA LeastLemma ==
  ASSUME NEW S \in SUBSET Nat, S # {}
  PROVE  \E n \in S : \A m \in S : n <= m
  <1>1. PICK n \in S : \A m \in S : ~ (<<m, n>> \in OpToRel(<, Nat))
    BY NatLessThanWellFounded, WFMin
  <1>2. \A m \in S : n <= m
    <2> TAKE m \in S
    <2>1. ~ (m < n)
      BY <1>1 DEF OpToRel
    <2> QED
      BY <2>1
  <1> QED
    BY <1>2

LEMMA LowestIsFree ==
  ASSUME NEW files, Room(files)
  PROVE  /\ Lowest(files) \in Of(files, "free")
         /\ \A fd \in Of(files, "free") : Lowest(files) <= fd
  <1>1. Of(files, "free") \in SUBSET Nat /\ Of(files, "free") # {}
    BY BoundsAssumption DEF Of, Room, Fd
  <1> QED
    BY <1>1, LeastLemma DEF Lowest

\* A descriptor opened is new, and after one has been opened 0 is taken.
LEMMA OpensLemma ==
  ASSUME NEW files \in [Fd -> Kind], Room(files), NEW kind \in Kind
  PROVE  /\ Lowest(files) \in Fd /\ files[Lowest(files)] = "free"
         /\ Opens(files, kind) \in [Fd -> Kind]
         /\ \A fd \in Fd : Opens(files, kind)[fd] =
                             IF fd = Lowest(files) THEN kind ELSE files[fd]
         /\ kind # "free" => Opens(files, kind)[0] # "free"
         /\ files[0] # "free" => Lowest(files) # 0
  <1>1. Lowest(files) \in Fd /\ files[Lowest(files)] = "free"
    BY LowestIsFree DEF Of
  <1>2. \A fd \in Fd : fd \in Nat /\ 0 <= fd
    BY BoundsAssumption DEF Fd
  <1>3. 0 \in Fd
    BY BoundsAssumption DEF Fd
  <1>4. files[0] = "free" => Lowest(files) = 0
    <2> SUFFICES ASSUME files[0] = "free"
                 PROVE  Lowest(files) = 0
      OBVIOUS
    <2>1. 0 \in Of(files, "free")
      BY <1>3 DEF Of
    <2>2. Lowest(files) <= 0
      BY <2>1, LowestIsFree
    <2> QED
      BY <1>1, <1>2, <2>2
  <1>5. files[0] # "free" => Lowest(files) # 0
    BY <1>1
  <1>6. /\ Opens(files, kind) \in [Fd -> Kind]
        /\ \A fd \in Fd : Opens(files, kind)[fd] = IF fd = Lowest(files) THEN kind ELSE files[fd]
    BY <1>1 DEF Opens
  <1>7. kind # "free" => Opens(files, kind)[0] # "free"
    BY <1>3, <1>4, <1>6
  <1> QED
    BY <1>1, <1>5, <1>6, <1>7

\* Closing frees descriptors of the library, nothing else.
LEMMA ClosedLemma ==
  ASSUME NEW files \in [Fd -> Kind], NEW gone
  PROVE  /\ Closed(files, gone) \in [Fd -> Kind]
         /\ \A fd \in Fd : Closed(files, gone)[fd] =
              IF fd \in gone /\ files[fd] \in Timers \cup {"signalfd"} THEN "free" ELSE files[fd]
  BY DEF Closed, Kind

\* What watchdog_add may come to.
LEMMA AddedLemma ==
  ASSUME NEW files \in [Fd -> Kind], NEW kind \in Kind, NEW added \in Added(files, kind)
  PROVE  \/ added.fds = files /\ added.id = 0 /\ added.result = "refused"
         \/ added.fds = files /\ added.id \in Errno /\ added.result = "unnoticed"
         \/ /\ Room(files) /\ added.fds = Opens(files, kind) /\ added.id = Lowest(files)
            /\ \/ added.result = "unnoticed"
               \/ added.result = "registered" /\ Initialised(files)
  BY DEF Added

-----------------------------------------------------------------------------
(***************************************************************************)
(* The calls that have not returned.                                       *)
(***************************************************************************)
LEMMA PushLemma ==
  ASSUME TypeOK, NEW call \in Call, Push(call)
  PROVE  /\ calls' \in Seq(Call) /\ Len(calls') = Len(calls) + 1 /\ Len(calls') <= MaxCalls
         /\ calls'[Len(calls')] = call
         /\ \A k \in DOMAIN calls : calls'[k] = calls[k]
  BY BoundsAssumption DEF TypeOK, Push

LEMMA PopLemma ==
  ASSUME TypeOK, calls # <<>>, Pop
  PROVE  /\ calls' \in Seq(Call) /\ Len(calls') = Len(calls) - 1 /\ Len(calls') <= MaxCalls
         /\ \A k \in DOMAIN calls' : k \in DOMAIN calls /\ calls'[k] = calls[k]
  <1>1. Len(calls) \in Nat \ {0} /\ Len(calls) <= MaxCalls
    BY DEF TypeOK
  <1>2. PICK n \in Nat : n = Len(calls) - 1
    BY <1>1
  <1>3. calls' = SubSeq(calls, 1, n)
    BY <1>2 DEF Pop
  <1>4. \A k \in 1 .. n : calls[k] \in Call
    BY <1>1, <1>2 DEF TypeOK
  <1>5. SubSeq(calls, 1, n) \in Seq(Call)
    BY <1>4
  <1>6. Len(SubSeq(calls, 1, n)) = n /\ \A k \in 1 .. n : SubSeq(calls, 1, n)[k] = calls[k]
    BY <1>2
  <1>7. calls' \in Seq(Call) /\ Len(calls') = n /\ \A k \in 1 .. n : calls'[k] = calls[k]
    BY <1>3, <1>5, <1>6
  <1>8. n <= MaxCalls /\ \A k \in 1 .. n : k \in 1 .. Len(calls)
    BY <1>1, <1>2, BoundsAssumption
  <1>9. DOMAIN calls = 1 .. Len(calls)
    BY DEF TypeOK
  <1>10. DOMAIN calls' = 1 .. n
    BY <1>7
  <1> QED
    BY <1>2, <1>7, <1>8, <1>9, <1>10

LEMMA BecomesLemma ==
  ASSUME TypeOK, calls # <<>>, NEW stage \in Call, Becomes(stage)
  PROVE  /\ calls' \in Seq(Call) /\ Len(calls') = Len(calls) /\ Len(calls') <= MaxCalls
         /\ DOMAIN calls' = DOMAIN calls
         /\ \A k \in DOMAIN calls : calls'[k] = IF k = Len(calls) THEN stage ELSE calls[k]
  <1>1. /\ Len(calls) \in Nat /\ DOMAIN calls = 1 .. Len(calls) /\ Len(calls) <= MaxCalls
        /\ calls \in [1 .. Len(calls) -> Call]
    BY DEF TypeOK
  <1>2. calls' \in [1 .. Len(calls) -> Call]
    BY <1>1 DEF Becomes
  <1>3. \A k \in DOMAIN calls : calls'[k] = IF k = Len(calls) THEN stage ELSE calls[k]
    BY <1>1 DEF Becomes
  <1> QED
    BY <1>1, <1>2, <1>3

\* The call that runs is the last.
LEMMA InnermostLemma ==
  ASSUME TypeOK, calls # <<>>
  PROVE  /\ Len(calls) \in DOMAIN calls /\ Innermost = calls[Len(calls)]
         /\ DOMAIN calls = 1 .. Len(calls) /\ Len(calls) \in Nat
  BY DEF TypeOK, Innermost

-----------------------------------------------------------------------------
(***************************************************************************)
(* The table.                                                              *)
(***************************************************************************)
Slot == Fd \cup {NONE, DEAD}

LEMMA SlotLemma ==
  /\ NONE \notin Fd /\ DEAD \notin Fd /\ NONE # DEAD
  /\ Fd \subseteq Nat /\ 0 \in Fd
  BY BoundsAssumption DEF NONE, DEAD, Fd

LEMMA ExceptLemma ==
  ASSUME NEW S, NEW s \in Seq(S), NEW i, NEW x \in S
  PROVE  /\ [s EXCEPT ![i] = x] \in Seq(S) /\ Len([s EXCEPT ![i] = x]) = Len(s)
         /\ \A k \in DOMAIN s : [s EXCEPT ![i] = x][k] = IF k = i THEN x ELSE s[k]
  <1>1. Len(s) \in Nat /\ DOMAIN s = 1 .. Len(s) /\ s \in [1 .. Len(s) -> S]
    OBVIOUS
  <1>2. [s EXCEPT ![i] = x] \in [1 .. Len(s) -> S]
    BY <1>1
  <1> QED
    BY <1>1, <1>2

LEMMA AddLemma ==
  ASSUME TypeOK, NEW fd \in Fd, Add(fd)
  PROVE  /\ table' \in Seq(Slot) /\ Len(table') = Len(table) + 1 /\ Len(table) \in Nat
         /\ table'[Len(table')] = fd /\ \A i \in DOMAIN table : table'[i] = table[i]
         /\ DOMAIN table = 1 .. Len(table) /\ DOMAIN table' = 1 .. Len(table')
         /\ watched' = watched \cup {fd} /\ watched' \subseteq Fd
  <1>1. table \in Seq(Slot) /\ fd \in Slot /\ table' = Append(table, fd)
    BY DEF Add, TypeOK, Slot
  <1> QED
    BY <1>1 DEF Add, TypeOK

LEMMA FreedInLemma ==
  ASSUME NEW slots \in Seq(Slot), NEW fd
  PROVE  /\ FreedIn(slots, fd) \in Seq(Slot) /\ Len(FreedIn(slots, fd)) = Len(slots)
         /\ \A i \in 1 .. Len(slots) :
              FreedIn(slots, fd)[i] = IF slots[i] = fd THEN DEAD ELSE slots[i]
  <1>1. DOMAIN slots = 1 .. Len(slots) /\ Len(slots) \in Nat
    OBVIOUS
  <1>2. FreedIn(slots, fd) \in [1 .. Len(slots) -> Slot]
    BY <1>1 DEF FreedIn, Slot
  <1> QED
    BY <1>1, <1>2 DEF FreedIn

LEMMA GoneLemma ==
  ASSUME TypeOK, NEW fd
  PROVE  /\ Gone(fd) = {} \/ Gone(fd) = {fd}
         /\ Gone(fd) # {} => /\ fd \in Fd /\ ~SearchFaults(fd) /\ Gone(fd) = {fd}
                             /\ \E i \in DOMAIN table : table[i] = fd
         /\ Gone(fd) \subseteq Fd
  BY DEF Gone, Listed

LEMMA ShiftedLemma ==
  ASSUME TypeOK, NEW fd, Gone(fd) # {}
  PROVE  /\ Shifted(fd) \in Seq(Slot) /\ Len(Shifted(fd)) = Len(table) - 1
         /\ Len(table) \in Nat \ {0}
  <1> DEFINE slots == [i \in 1 .. (Len(table) - 1) |->
                         IF i >= SlotOf(fd) /\ i + 2 <= Len(table) THEN table[i + 1] ELSE table[i]]
  <1>1. table \in Seq(Slot) /\ Len(table) \in Nat \ {0}
    BY GoneLemma DEF TypeOK, Slot
  <1>2. \A i \in 1 .. (Len(table) - 1) : table[i] \in Slot /\ table[i + 1] \in Slot
    BY <1>1
  <1>3. slots \in [1 .. (Len(table) - 1) -> Slot]
    BY <1>2
  <1>4. slots \in Seq(Slot) /\ Len(slots) = Len(table) - 1
    BY <1>1, <1>3
  <1>5. Shifted(fd) = FreedIn(slots, fd)
    BY DEF Shifted
  <1> HIDE DEF slots
  <1> QED
    BY <1>1, <1>4, <1>5, FreedInLemma

LEMMA RemoveLemma ==
  ASSUME TypeOK, NEW fd, Remove(fd)
  PROVE  /\ watched' = watched \ Gone(fd) /\ watched' \subseteq Fd
         /\ table' \in Seq(Slot) /\ dropped' \subseteq Fd
         /\ holed' \in BOOLEAN /\ (holed => holed')
         /\ fault' \in {"none", "search", "cleanup", "dispatch", "data"}
         /\ fault' # "none" \/ ~SearchFaults(fd)
         /\ fault' \in {fault, "search"}
  <1>1. table' \in Seq(Slot)
    BY ShiftedLemma DEF Remove, TypeOK, Slot
  <1>2. watched' = watched \ Gone(fd) /\ dropped' = dropped \cup (Gone(fd) \cap batch)
    BY DEF Remove, Forgotten
  <1>3. holed' \in BOOLEAN /\ (holed => holed')
    BY DEF Remove, TypeOK
  <1>4. fault' = IF SearchFaults(fd) THEN "search" ELSE fault
    BY DEF Remove
  <1> QED
    BY <1>1, <1>2, <1>3, <1>4 DEF TypeOK

-----------------------------------------------------------------------------
(***************************************************************************)
(* Types.                                                                  *)
(***************************************************************************)
LEMMA TypeInit == Init => TypeOK
  <1> SUFFICES ASSUME Init
               PROVE  TypeOK
    OBVIOUS
  <1>1. fds \in [Fd -> Kind]
    BY DEF Init, ProcessInit, Kind
  <1>2. table \in Seq(Fd \cup {NONE, DEAD}) /\ calls \in Seq(Call) /\ Len(calls) <= MaxCalls
    BY BoundsAssumption DEF Init, ProcessInit
  <1>3. /\ watched \subseteq Fd /\ batch \subseteq Fd /\ dropped \subseteq Fd
        /\ terminate \in BOOLEAN /\ inside \in BOOLEAN /\ holed \in BOOLEAN
        /\ fault \in {"none", "search", "cleanup", "dispatch", "data"} /\ mishap \in Mishap
    BY DEF Init, ProcessInit, Mishap
  <1>4. /\ notify \in Fd \cup {NONE} /\ watchdog \in Fd \cup {NONE} /\ ids \subseteq Fd \ {0}
        /\ sent \subseteq {"STOPPING=1"}
    BY DEF Init, WatchdogVarsInit
  <1>5. /\ sd \in Fd \cup {NONE} /\ {armed, handler, pending} \subseteq BOOLEAN
        /\ data \in {"none", "held", "released", "twice"}
    BY DEF Init, SignalVarsInit
  <1> QED
    BY <1>1, <1>2, <1>3, <1>4, <1>5 DEF TypeOK

LEMMA AddsType ==
  ASSUME TypeOK, NEW files \in [Fd -> Kind], NEW kind \in Kind,
         NEW added \in Added(files, kind), Adds(added)
  PROVE  /\ fds' \in [Fd -> Kind] /\ watched' \subseteq Fd /\ table' \in Seq(Slot)
         /\ mishap' \in Mishap /\ added.id \in Fd
  <1>1. added.fds \in [Fd -> Kind] /\ added.id \in Fd
    <2>1. CASE added.fds = files /\ (added.id = 0 \/ added.id \in Errno)
      BY <2>1, SlotLemma, ErrnoAssumption
    <2>2. CASE Room(files) /\ added.fds = Opens(files, kind) /\ added.id = Lowest(files)
      BY <2>2, OpensLemma
    <2> QED
      BY <2>1, <2>2, AddedLemma
  <1>2. fds' = added.fds /\ mishap' \in Mishap
    BY DEF Adds, Happens, Mishap, TypeOK
  <1>3. watched' \subseteq Fd /\ table' \in Seq(Slot)
    BY <1>1, AddLemma DEF Adds, TypeOK, Slot
  <1> QED
    BY <1>1, <1>2, <1>3

LEMMA TypeStep == TypeOK /\ [Next]_vars => TypeOK'
  <1> SUFFICES ASSUME TypeOK, [Next]_vars PROVE TypeOK'
    OBVIOUS
  <1> USE DEF Slot
  <1>1. CASE OpenProgram /\ UNCHANGED <<watchdogVars, signalVars>>
    <2>1. fds' \in [Fd -> Kind]
      BY <1>1, OpensLemma DEF OpenProgram, TypeOK, Kind
    <2> QED
      BY <1>1, <2>1 DEF OpenProgram, TypeOK, entries, loop, watchdogVars, signalVars
  <1>2. CASE UserReturns /\ UNCHANGED <<watchdogVars, signalVars>>
    <2>1. calls' \in Seq(Call) /\ Len(calls') <= MaxCalls
      BY <1>2, PopLemma DEF UserReturns
    <2> QED
      BY <1>2, <2>1 DEF UserReturns, TypeOK, entries, loop, watchdogVars, signalVars
  <1>3. ASSUME NEW fd \in Fd, CloseProgram(fd), UNCHANGED <<watchdogVars, signalVars>>
        PROVE  TypeOK'
    <2>1. fds' \in [Fd -> Kind]
      BY <1>3 DEF CloseProgram, TypeOK, Kind
    <2> QED
      BY <1>3, <2>1 DEF CloseProgram, TypeOK, entries, loop, watchdogVars, signalVars
  <1>4. ASSUME NEW fd \in Fd, AddProgram(fd), UNCHANGED <<watchdogVars, signalVars>>
        PROVE  TypeOK'
    <2>1. table' \in Seq(Slot) /\ watched' \subseteq Fd
      BY <1>4 DEF AddProgram, Add, TypeOK
    <2> QED
      BY <1>4, <2>1 DEF AddProgram, TypeOK, loop, watchdogVars, signalVars
  <1>5. ASSUME NEW fd \in Fd, RemoveProgram(fd), UNCHANGED <<watchdogVars, signalVars>>
        PROVE  TypeOK'
    <2>1. calls' \in Seq(Call) /\ Len(calls') <= MaxCalls
      BY <1>5, PushLemma DEF RemoveProgram, TypeOK, Call
    <2>2. Remove(fd) /\ UNCHANGED <<fds, terminate, inside, batch, mishap>>
      BY <1>5 DEF RemoveProgram, loop
    <2> QED
      BY <1>5, <2>1, <2>2, RemoveLemma DEF TypeOK, watchdogVars, signalVars
  <1>6. CASE LoopInit /\ UNCHANGED signalVars
    <2> DEFINE opened == Opens(fds, "epoll")
               socket == Opens(opened, "socket")
    <2>1. opened \in [Fd -> Kind]
      BY <1>6, OpensLemma DEF LoopInit, TypeOK, Kind
    <2>2. Room(opened) => socket \in [Fd -> Kind] /\ Lowest(opened) \in Fd
      BY <2>1, OpensLemma DEF Kind
    <2> HIDE DEF opened, socket
    <2>3. UNCHANGED <<terminate, inside, batch, dropped, holed, calls, fault, ids, sent, signalVars>>
      BY <1>6 DEF LoopInit, loop
    <2>4. CASE /\ fds' = opened /\ notify' \in {notify, NONE}
               /\ UNCHANGED <<watched, table, watchdog, mishap>>
      BY <2>1, <2>3, <2>4 DEF TypeOK, signalVars
    <2>5. CASE /\ Room(opened) /\ notify' = Lowest(opened)
               /\ fds' = socket /\ UNCHANGED <<watched, table, watchdog, mishap>>
      BY <2>2, <2>3, <2>5 DEF TypeOK, signalVars
    <2>6. ASSUME Room(opened), notify' = Lowest(opened),
                 NEW added \in Added(socket, "watchdog"), Adds(added), watchdog' = added.id
          PROVE  TypeOK'
      <3>1. /\ fds' \in [Fd -> Kind] /\ watched' \subseteq Fd /\ table' \in Seq(Slot)
            /\ mishap' \in Mishap /\ added.id \in Fd
        BY <2>2, <2>6, AddsType DEF Kind
      <3> QED
        BY <2>2, <2>3, <2>6, <3>1 DEF TypeOK, signalVars
    <2> QED
      BY <1>6, <2>4, <2>5, <2>6 DEF LoopInit, opened, socket
  <1>7. CASE WatchdogAdd /\ UNCHANGED signalVars
    <2>1. PICK added \in Added(fds, "timer") : Adds(added) /\ ids' = ids \cup ({added.id} \ {0})
      BY <1>7 DEF WatchdogAdd
    <2>2. /\ fds' \in [Fd -> Kind] /\ watched' \subseteq Fd /\ table' \in Seq(Slot)
          /\ mishap' \in Mishap /\ added.id \in Fd
      BY <2>1, AddsType DEF TypeOK, Kind
    <2> QED
      BY <1>7, <2>1, <2>2 DEF WatchdogAdd, TypeOK, loop, signalVars
  <1>8. CASE (Quit \/ ExitLoop) /\ UNCHANGED signalVars
    <2>1. StartCleanup /\ UNCHANGED signalVars
      BY <1>8 DEF Quit, ExitLoop
    <2>2. calls' \in Seq(Call) /\ Len(calls') <= MaxCalls
      BY <2>1, PushLemma DEF StartCleanup, Call
    <2>3. sent' \subseteq {"STOPPING=1"}
      BY <1>8 DEF Quit, ExitLoop, Notify, TypeOK
    <2> QED
      BY <2>1, <2>2, <2>3 DEF StartCleanup, TypeOK, entries, signalVars
  <1>9. ASSUME NEW id \in Fd, RemoveWatchdog(id)
        PROVE  TypeOK'
    <2>1. WatchdogRemove(id) /\ ChannelForgotten(Gone(id)) /\ UNCHANGED <<handler, pending>>
      BY <1>9 DEF RemoveWatchdog
    <2>2. fds' \in [Fd -> Kind] /\ Remove(id) /\ ids' \subseteq Fd \ {0}
      BY <2>1, ClosedLemma DEF WatchdogRemove, TypeOK
    <2>3. calls' \in Seq(Call) /\ Len(calls') <= MaxCalls
      BY <2>1, PushLemma DEF WatchdogRemove, TypeOK, Call
    <2>4. /\ sd' \in Fd \cup {NONE} /\ armed' \in BOOLEAN
          /\ data' \in {"none", "held", "released", "twice"}
      BY <2>1 DEF ChannelForgotten, Freed, TypeOK
    <2>5. UNCHANGED <<terminate, inside, batch, notify, watchdog, sent, mishap>>
      BY <2>1 DEF WatchdogRemove, loop
    <2> QED
      BY <2>1, <2>2, <2>3, <2>4, <2>5, RemoveLemma DEF TypeOK
  <1>10. CASE SetupFails /\ UNCHANGED watchdogVars
    <2>1. fds' \in [Fd -> Kind] /\ mishap' \in Mishap
      BY <1>10, OpensLemma DEF SetupFails, Happens, TypeOK, Kind, Mishap
    <2> QED
      BY <1>10, <2>1 DEF SetupFails, TypeOK, entries, loop, watchdogVars
  <1>11. CASE LoopRunWithSignal /\ UNCHANGED watchdogVars
    <2>1. fds' \in [Fd -> Kind] /\ sd' \in Fd
      BY <1>11, OpensLemma DEF LoopRunWithSignal, TypeOK, Kind
    <2>2. watched' \subseteq Fd /\ table' \in Seq(Slot)
      <3>1. PICK fd \in Fd : fd = sd'
        BY <2>1
      <3>2. CASE Add(fd)
        BY <3>2, AddLemma
      <3>3. CASE UNCHANGED <<watched, table>>
        BY <3>3 DEF TypeOK
      <3> QED
        BY <1>11, <3>1, <3>2, <3>3 DEF LoopRunWithSignal
    <2>3. mishap' \in Mishap /\ armed' \in BOOLEAN
      BY <1>11 DEF LoopRunWithSignal, Happens, TypeOK, Mishap
    <2> QED
      BY <1>11, <2>1, <2>2, <2>3 DEF LoopRunWithSignal, TypeOK, watchdogVars
  <1>12. ASSUME NEW others \in SUBSET watched, Wait(SignalReady \cup others),
                UNCHANGED <<watchdogVars, signalVars>>
         PROVE  TypeOK'
    <2>1. batch' \subseteq Fd /\ dropped' = {}
      BY <1>12 DEF Wait, SignalReady, TypeOK
    <2> QED
      BY <1>12, <2>1 DEF Wait, TypeOK, watchdogVars, signalVars
  <1>13. ASSUME NEW fd \in Fd, DispatchDropped(fd), UNCHANGED <<watchdogVars, signalVars>>
         PROVE  TypeOK'
    BY <1>13 DEF DispatchDropped, TypeOK, entries, loop, watchdogVars, signalVars
  <1>14. ASSUME NEW fd \in Fd, DispatchProgram(fd), UNCHANGED <<watchdogVars, signalVars>>
         PROVE  TypeOK'
    <2>1. calls' \in Seq(Call) /\ Len(calls') <= MaxCalls
      BY <1>14, PushLemma DEF DispatchProgram, Call
    <2> QED
      BY <1>14, <2>1 DEF DispatchProgram, TypeOK, entries, watchdogVars, signalVars
  <1>15. ASSUME NEW fd \in Fd, WatchdogFires(fd), UNCHANGED signalVars
         PROVE  TypeOK'
    <2>1. Closed(fds, Gone(fd)) \in [Fd -> Kind]
      BY ClosedLemma DEF TypeOK
    <2>2. fds' \in [Fd -> Kind]
      BY <1>15, <2>1 DEF WatchdogFires, Kind
    <2>3. Remove(fd) /\ batch' \subseteq Fd /\ ids' \subseteq Fd \ {0}
      BY <1>15 DEF WatchdogFires, TypeOK
    <2>4. UNCHANGED <<terminate, inside, calls, notify, watchdog, sent, mishap, signalVars>>
      BY <1>15 DEF WatchdogFires
    <2> QED
      BY <2>2, <2>3, <2>4, RemoveLemma DEF TypeOK, signalVars
  <1>16. ASSUME NEW fd \in Fd, SignalEvent(fd), UNCHANGED watchdogVars
         PROVE  TypeOK'
    <2>1. calls' \in Seq(Call) /\ Len(calls') <= MaxCalls
      BY <1>16, PushLemma DEF SignalEvent, Call
    <2> QED
      BY <1>16, <2>1 DEF SignalEvent, TypeOK, entries, watchdogVars, signalVars
  <1>29. CASE (SignalRead \/ SignalFunction \/ SignalDataGone) /\ UNCHANGED watchdogVars
    <2>1. CASE SignalRead
      <3>1. calls' \in Seq(Call) /\ Len(calls') <= MaxCalls
        BY <2>1, BecomesLemma DEF SignalRead, Reads, CallAt, Call
      <3> QED
        BY <1>29, <2>1, <3>1 DEF SignalRead, Reads, TypeOK, entries, loop, watchdogVars
    <2>2. CASE SignalFunction
      <3>1. calls' \in Seq(Call) /\ Len(calls') <= MaxCalls
        BY <2>2, BecomesLemma DEF SignalFunction, CallAt, Call
      <3> QED
        BY <1>29, <2>2, <3>1 DEF SignalFunction, TypeOK, entries, loop, watchdogVars, signalVars
    <2>3. CASE SignalDataGone
      BY <1>29, <2>3 DEF SignalDataGone, TypeOK, entries, loop, watchdogVars, signalVars
    <2> QED
      BY <1>29, <2>1, <2>2, <2>3
  <1>17. CASE SignalReadFails /\ UNCHANGED watchdogVars
    <2>2. calls' \in Seq(Call) /\ Len(calls') <= MaxCalls
      BY <1>17, PopLemma DEF SignalReadFails, CallAt
    <2>1. /\ armed' \in BOOLEAN /\ mishap' \in Mishap /\ handler' \in BOOLEAN
          /\ data' \in {"none", "held", "released", "twice"}
          /\ fault' \in {"none", "search", "cleanup", "dispatch", "data"}
      BY <1>17 DEF SignalReadFails, Freed, Happens, TypeOK, Mishap
    <2> QED
      BY <1>17, <2>1, <2>2 DEF SignalReadFails, TypeOK, entries, loop, watchdogVars
  <1>18. ASSUME NEW fd \in Fd, SignalIgnored(fd), UNCHANGED watchdogVars
         PROVE  TypeOK'
    BY <1>18 DEF SignalIgnored, TypeOK, entries, watchdogVars, signalVars
  <1>19. CASE LoopRunReturns /\ UNCHANGED watchdogVars
    <2>1. Remove(sd) /\ fds' \in [Fd -> Kind]
      BY <1>19, ClosedLemma DEF LoopRunReturns, Return, TypeOK
    <2>2. /\ sd' \in Fd \cup {NONE} /\ armed' \in BOOLEAN /\ handler' \in BOOLEAN
          /\ inside' \in BOOLEAN /\ data' \in {"none", "held", "released", "twice"}
      BY <1>19 DEF LoopRunReturns, Return, Freed, TypeOK
    <2>3. UNCHANGED <<terminate, batch, calls, mishap, pending, watchdogVars>>
      BY <1>19 DEF LoopRunReturns, Return
    <2> QED
      BY <2>1, <2>2, <2>3, RemoveLemma DEF TypeOK, watchdogVars
  <1>20. CASE CleanupEntry
    <2>1. PICK fd \in Fd :
            /\ fd = table[NextSlot] /\ Forgotten({fd}) /\ fds' = Closed(fds, {fd})
            /\ table' = FreedIn([table EXCEPT ![NextSlot] = NONE], fd)
            /\ ids' = (IF fds[fd] \in Timers THEN ids \ {fd} ELSE ids)
            /\ ChannelForgotten({fd})
            /\ IF fds[fd] = "program" THEN Push("user") ELSE UNCHANGED calls
      BY <1>20 DEF CleanupEntry
    <2>2. [table EXCEPT ![NextSlot] = NONE] \in Seq(Slot)
      BY ExceptLemma DEF TypeOK
    <2>3. table' \in Seq(Slot) /\ fds' \in [Fd -> Kind]
      BY <2>1, <2>2, FreedInLemma, ClosedLemma DEF TypeOK
    <2>4. watched' \subseteq Fd /\ dropped' \subseteq Fd /\ ids' \subseteq Fd \ {0}
      BY <2>1 DEF Forgotten, TypeOK
    <2>5. calls' \in Seq(Call) /\ Len(calls') <= MaxCalls
      BY <2>1, PushLemma DEF TypeOK, Call
    <2>6. /\ sd' \in Fd \cup {NONE} /\ armed' \in BOOLEAN
          /\ data' \in {"none", "held", "released", "twice"}
      BY <2>1 DEF ChannelForgotten, Freed, TypeOK
    <2>7. UNCHANGED <<terminate, inside, batch, holed, fault, mishap, notify, watchdog, sent,
                      handler, pending>>
      BY <1>20 DEF CleanupEntry, loop
    <2> QED
      BY <2>3, <2>4, <2>5, <2>6, <2>7 DEF TypeOK
  <1>21. CASE CleanupDead /\ UNCHANGED <<watchdogVars, signalVars>>
    BY <1>21 DEF CleanupDead, TypeOK, entries, loop, watchdogVars, signalVars
  <1>22. CASE TearDown /\ UNCHANGED <<watchdogVars, signalVars>>
    <2>1. fds' \in [Fd -> Kind] /\ table' \in Seq(Slot) /\ watched' \subseteq Fd
      BY <1>22 DEF TearDown, TypeOK, Kind
    <2>2. calls' \in Seq(Call) /\ Len(calls') = Len(calls)
      BY <1>22, BecomesLemma DEF TearDown, CallAt, Call
    <2> QED
      BY <1>22, <2>1, <2>2 DEF TearDown, TypeOK, loop, watchdogVars, signalVars
  <1>23. CASE WatchdogExit /\ UNCHANGED signalVars
    <2> DEFINE closed == IF notify > 0 THEN [fds EXCEPT ![notify] = "free"] ELSE fds
    <2>1. calls' \in Seq(Call) /\ Len(calls') <= MaxCalls
      BY <1>23, PopLemma DEF WatchdogExit, Exit, CallAt
    <2>2. closed \in [Fd -> Kind]
      BY DEF TypeOK, Kind
    <2> HIDE DEF closed
    <2>3. notify' \in Fd \cup {NONE}
      BY <1>23 DEF WatchdogExit, Exit, TypeOK
    <2>4. UNCHANGED <<loop, watchdog, ids, sent, mishap, signalVars>>
      BY <1>23 DEF WatchdogExit, Exit
    <2>5. CASE fds' = closed /\ UNCHANGED <<entries, fault>>
      BY <2>1, <2>2, <2>3, <2>4, <2>5 DEF TypeOK, entries, loop, signalVars
    <2>6. CASE Remove(watchdog) /\ fds' = Closed(closed, Gone(watchdog))
      <3>1. fds' \in [Fd -> Kind]
        BY <2>2, <2>6, ClosedLemma
      <3> QED
        BY <2>1, <2>3, <2>4, <2>6, <3>1, RemoveLemma DEF TypeOK, loop, signalVars
    <2> QED
      BY <1>23, <2>5, <2>6 DEF WatchdogExit, Exit, closed
  <1>24. CASE Raise /\ UNCHANGED watchdogVars
    BY <1>24 DEF Raise, TypeOK, process, entries, loop, watchdogVars
  <1>25. CASE UNCHANGED vars
    BY <1>25 DEF TypeOK, vars, process, entries, loop, watchdogVars, signalVars
  <1>26. CASE Program
    BY <1>1, <1>2, <1>3, <1>4, <1>5, <1>6, <1>7, <1>8, <1>9, <1>10, <1>11, <1>26 DEF Program
  <1>27. CASE LoopRun
    BY <1>12, <1>13, <1>14, <1>15, <1>16, <1>17, <1>18, <1>19, <1>27, <1>29 DEF LoopRun
  <1>28. CASE Cleanup
    BY <1>20, <1>21, <1>22, <1>23, <1>28 DEF Cleanup
  <1> QED
    BY <1>24, <1>25, <1>26, <1>27, <1>28 DEF Next, Halted

(***************************************************************************)
(* The state of the process, of the watchdog and of the signal loop has    *)
(* its types, whatever the number of descriptors, slots and nested calls.  *)
(***************************************************************************)
THEOREM TypeCorrect == Spec => []TypeOK
  BY TypeInit, TypeStep, PTL DEF Spec

-----------------------------------------------------------------------------
(***************************************************************************)
(* The registrations.                                                      *)
(***************************************************************************)
\* What has been registered is listed as soon as epoll has it.
LEMMA AddExact ==
  ASSUME TypeOK, TableExact, NEW fd \in Fd \ watched, Add(fd), UNCHANGED holed
  PROVE  TableExact'
  <1>1. /\ Len(table') = Len(table) + 1 /\ Len(table) \in Nat /\ watched' = watched \cup {fd}
        /\ table'[Len(table')] = fd /\ \A i \in DOMAIN table : table'[i] = table[i]
        /\ DOMAIN table = 1 .. Len(table) /\ DOMAIN table' = 1 .. Len(table')
    BY AddLemma
  <1>2. \A i \in DOMAIN table' : i \in DOMAIN table \/ i = Len(table')
    BY <1>1
  <1>3. Len(table') \in DOMAIN table' /\ \A i \in DOMAIN table : i \in DOMAIN table'
    BY <1>1
  <1>4. Listed' = Listed \cup {fd}
    BY <1>1, <1>2, <1>3 DEF Listed
  <1>5. \A i \in DOMAIN table : table[i] # fd
    BY DEF TableExact, Listed
  <1>6. ~holed => \A i \in DOMAIN table' : table'[i] # DEAD
    BY <1>1, <1>2, SlotLemma DEF TableExact
  <1>7. ~holed => \A i, j \in DOMAIN table' : table'[i] = table'[j] /\ table'[i] \in Fd => i = j
    BY <1>1, <1>2, <1>5 DEF TableExact
  <1> QED
    BY <1>1, <1>4, <1>6, <1>7 DEF TableExact

\* Slots that keep their entries, and the others that lose those of fd.
LEMMA FewerExact ==
  ASSUME TypeOK, TableExact, NEW fd \in Fd, watched' = watched \ {fd},
         \A i \in DOMAIN table' : table'[i] # fd /\ (table'[i] \in Fd => table'[i] \in Listed),
         ~holed' => /\ ~holed
                    /\ \A i \in DOMAIN table' :
                         /\ i \in DOMAIN table
                         /\ table'[i] # DEAD /\ (table'[i] \in Fd => table'[i] = table[i])
                    /\ \A i \in DOMAIN table :
                         table[i] \in Fd \ {fd} => i \in DOMAIN table' /\ table'[i] = table[i]
  PROVE  TableExact'
  <1>1. Listed' \subseteq Listed \ {fd}
    BY DEF Listed
  <1>2. ~holed' => Listed \ {fd} \subseteq Listed'
    BY DEF Listed
  <1>3. ~holed' => \A i, j \in DOMAIN table' : table'[i] = table'[j] /\ table'[i] \in Fd => i = j
    BY DEF TableExact
  <1> QED
    BY <1>1, <1>2, <1>3 DEF TableExact

\* A removal leaves the table exact if it took its last slot.
LEMMA RemoveExact ==
  ASSUME TypeOK, TableExact, NEW fd, Remove(fd)
  PROVE  TableExact'
  <1>1. CASE Gone(fd) = {}
    <2>1. UNCHANGED <<watched, table>> /\ (holed' <=> holed)
      BY <1>1 DEF Remove, Forgotten
    <2> QED
      BY <2>1 DEF TableExact, Listed
  <1>2. CASE Gone(fd) # {}
    <2>1. fd \in Fd /\ Gone(fd) = {fd} /\ \E i \in DOMAIN table : table[i] = fd
      BY <1>2, GoneLemma
    <2>2. /\ watched' = watched \ {fd} /\ table' = Shifted(fd)
          /\ (holed' <=> holed \/ SlotOf(fd) # Len(table))
      BY <1>2, <2>1 DEF Remove, Forgotten
    <2>3. PICK n \in Nat : Len(table) = n + 1
      BY <1>2, ShiftedLemma
    <2>4. DOMAIN table = 1 .. (n + 1) /\ \A i \in 1 .. n : i \in DOMAIN table /\ i + 1 \in DOMAIN table
      BY <2>3 DEF TypeOK
    <2> DEFINE slots == [i \in 1 .. n |-> IF i >= SlotOf(fd) /\ i + 2 <= n + 1 THEN table[i + 1] ELSE table[i]]
    <2>5. table' = FreedIn(slots, fd)
      BY <2>2, <2>3 DEF Shifted
    <2>6. \A i \in 1 .. n : slots[i] \in Slot /\ \E j \in DOMAIN table : slots[i] = table[j]
      BY <2>4 DEF TypeOK, Slot
    <2>7. slots \in Seq(Slot) /\ Len(slots) = n
      BY <2>6
    <2>8. ~holed /\ SlotOf(fd) = n + 1 => \A i \in 1 .. n : slots[i] = table[i]
      OBVIOUS
    <2> HIDE DEF slots
    <2>9. /\ DOMAIN table' = 1 .. n
          /\ \A i \in 1 .. n : table'[i] = IF slots[i] = fd THEN DEAD ELSE slots[i]
      BY <2>5, <2>7, FreedInLemma
    <2>10. \A i \in DOMAIN table' : table'[i] # fd /\ (table'[i] \in Fd => table'[i] \in Listed)
      BY <2>1, <2>6, <2>9, SlotLemma DEF Listed
    <2>11. ASSUME ~holed'
           PROVE  /\ ~holed
                  /\ \A i \in DOMAIN table' :
                       /\ i \in DOMAIN table
                       /\ table'[i] # DEAD /\ (table'[i] \in Fd => table'[i] = table[i])
                  /\ \A i \in DOMAIN table :
                       table[i] \in Fd \ {fd} => i \in DOMAIN table' /\ table'[i] = table[i]
      <3>1. ~holed /\ SlotOf(fd) = n + 1
        BY <2>2, <2>3, <2>11
      <3>2. PICK i \in DOMAIN table : table[i] = fd
        BY <2>1
      <3>3. \A j \in DOMAIN table : table[j] = fd => j = i
        BY <2>1, <3>1, <3>2 DEF TableExact
      <3>4. \A j \in 1 .. (i - 1) : j \in DOMAIN table /\ j # i
        BY <2>3, <2>4
      <3>5. SlotOf(fd) = i
        BY <3>2, <3>3, <3>4 DEF SlotOf
      <3>6. \A j \in 1 .. n : table[j] # fd /\ table'[j] = table[j]
        BY <2>4, <2>8, <2>9, <3>1, <3>3, <3>5
      <3>7. \A j \in DOMAIN table : table[j] # fd => j \in 1 .. n
        BY <2>3, <2>4, <3>1, <3>2, <3>5
      <3> QED
        BY <2>4, <2>9, <3>1, <3>6, <3>7 DEF TableExact
    <2> QED
      BY <2>1, <2>2, <2>10, <2>11, FewerExact
  <1> QED
    BY <1>1, <1>2

LEMMA EntryExact ==
  ASSUME TypeOK, TableExact, Remaining # {}, NEW fd \in Fd, fd = table[NextSlot],
         watched' = watched \ {fd}, UNCHANGED holed,
         table' = FreedIn([table EXCEPT ![NextSlot] = NONE], fd)
  PROVE  TableExact'
  <1>1. Remaining \in SUBSET Nat /\ DOMAIN table = 1 .. Len(table) /\ Len(table) \in Nat
    BY DEF Remaining, TypeOK
  <1>2. NextSlot \in Remaining
    BY <1>1, LeastLemma DEF NextSlot
  <1>3. PICK n \in DOMAIN table : n = NextSlot
    BY <1>2 DEF Remaining
  <1> DEFINE slots == [table EXCEPT ![n] = NONE]
  <1>4. /\ slots \in Seq(Slot) /\ Len(slots) = Len(table)
        /\ \A i \in DOMAIN table : slots[i] = IF i = n THEN NONE ELSE table[i]
    BY ExceptLemma DEF TypeOK, Slot
  <1>5. table' = FreedIn(slots, fd)
    BY <1>3
  <1> HIDE DEF slots
  <1>6. /\ DOMAIN table' = DOMAIN table
        /\ \A i \in DOMAIN table : table'[i] = IF slots[i] = fd THEN DEAD ELSE slots[i]
    <2>1. table' \in Seq(Slot) /\ Len(table') = Len(slots)
      BY <1>4, <1>5, FreedInLemma
    <2>2. \A i \in 1 .. Len(slots) : table'[i] = IF slots[i] = fd THEN DEAD ELSE slots[i]
      BY <1>4, <1>5, FreedInLemma
    <2>3. DOMAIN table' = DOMAIN table
      BY <1>1, <1>4, <2>1
    <2> QED
      BY <1>1, <1>4, <2>2, <2>3
  <1>7. \A i \in DOMAIN table : table'[i] = IF i = n THEN NONE
                                            ELSE IF table[i] = fd THEN DEAD ELSE table[i]
    BY <1>4, <1>6, SlotLemma
  <1>8. \A i \in DOMAIN table' : table'[i] # fd /\ (table'[i] \in Fd => table'[i] \in Listed)
    BY <1>6, <1>7, SlotLemma DEF Listed
  <1>9. ~holed => \A i \in DOMAIN table : table[i] = fd => i = n
    BY <1>3 DEF TableExact
  <1>10. ~holed' =>
           /\ ~holed
           /\ \A i \in DOMAIN table' :
                /\ i \in DOMAIN table
                /\ table'[i] # DEAD /\ (table'[i] \in Fd => table'[i] = table[i])
           /\ \A i \in DOMAIN table :
                table[i] \in Fd \ {fd} => i \in DOMAIN table' /\ table'[i] = table[i]
    BY <1>3, <1>6, <1>7, <1>9, SlotLemma DEF TableExact
  <1> QED
    BY <1>8, <1>10, FewerExact

\* A file opened that the loop does not watch.
LEMMA OpenedRegistered ==
  ASSUME TypeOK, NEW files \in [Fd -> Kind], RegisteredIn(files), Room(files),
         NEW kind \in {"program", "epoll", "socket"}
  PROVE  RegisteredIn(Opens(files, kind))
  <1>1. /\ \A fd \in Fd : Opens(files, kind)[fd] = IF fd = Lowest(files) THEN kind ELSE files[fd]
        /\ Lowest(files) \in Fd /\ files[Lowest(files)] = "free"
    BY OpensLemma DEF Kind
  <1>2. \A fd \in watched : fd \in Fd /\ files[fd] # "free"
    BY DEF TypeOK, RegisteredIn, Timers
  <1>3. Initialised(files) => Initialised(Opens(files, kind))
    BY <1>1 DEF Initialised, Of
  <1> QED
    BY <1>1, <1>2, <1>3 DEF RegisteredIn, Of

\* A step from these open files: those the loop goes on watching stay what they
\* are, or are spent; what the library has to close is watched, or lost unnoticed.
KeepsKinds(files) ==
  /\ Initialised(files) => Initialised(fds')
  /\ \A fd \in watched' :
       \/ fd \in watched /\ (fds'[fd] = files[fd] \/ fds'[fd] = "spent")
       \/ Initialised(files) /\ fds'[fd] \in {"program", "signalfd"} \cup Timers
LosesNone(files) ==
  ~holed' => \A fd \in Fd : fd \in watched' \/
    /\ fds'[fd] \in {"watchdog", "timer"} => mishap' = "timer" \/ (files[fd] = fds'[fd] /\ fd \notin watched)
    /\ fds'[fd] = "signalfd" => mishap' = "signal" \/ (files[fd] = fds'[fd] /\ fd \notin watched)

LEMMA StillRegistered ==
  ASSUME TypeOK, NEW files, RegisteredIn(files), watched' \subseteq Fd, holed => holed',
         mishap # "none" => mishap' = mishap, KeepsKinds(files), LosesNone(files)
  PROVE  Registered'
  <1>1. \A fd \in watched' : fds'[fd] \in {"program", "signalfd"} \cup Timers
    BY DEF RegisteredIn, Timers, KeepsKinds
  <1>2. watched' # {} => Initialised(fds')
    BY DEF RegisteredIn, KeepsKinds
  <1>3. ~holed' /\ mishap' # "timer" => Of(fds', "watchdog") \cup Of(fds', "timer") \subseteq watched'
    <2> SUFFICES ASSUME ~holed', mishap' # "timer", NEW fd \in Fd, fds'[fd] \in {"watchdog", "timer"},
                        fd \notin watched'
                 PROVE  FALSE
      BY DEF Of
    <2>1. files[fd] = fds'[fd] /\ fd \notin watched
      BY DEF LosesNone
    <2>2. ~holed /\ mishap # "timer"
      OBVIOUS
    <2> QED
      BY <2>1, <2>2 DEF RegisteredIn, Of
  <1>4. ~holed' /\ mishap' # "signal" => Of(fds', "signalfd") \subseteq watched'
    <2> SUFFICES ASSUME ~holed', mishap' # "signal", NEW fd \in Fd, fds'[fd] = "signalfd",
                        fd \notin watched'
                 PROVE  FALSE
      BY DEF Of
    <2>1. files[fd] = fds'[fd] /\ fd \notin watched
      BY DEF LosesNone
    <2>2. ~holed /\ mishap # "signal"
      OBVIOUS
    <2> QED
      BY <2>1, <2>2 DEF RegisteredIn, Of
  <1> QED
    BY <1>1, <1>2, <1>3, <1>4 DEF Registered, RegisteredIn

\* watchdog_add, with these open files.
LEMMA AddsRegistered ==
  ASSUME TypeOK, TableExact, NEW files \in [Fd -> Kind], RegisteredIn(files),
         NEW kind \in {"watchdog", "timer"}, NEW added \in Added(files, kind), Adds(added),
         UNCHANGED holed
  PROVE  TableExact' /\ Registered'
  <1>1. \A fd \in watched : fd \in Fd /\ files[fd] # "free"
    BY DEF TypeOK, RegisteredIn, Timers
  <1>2. mishap # "none" => mishap' = mishap
    BY DEF Adds, Happens
  <1>3. CASE added.fds = files /\ added.result # "registered"
    <2>1. fds' = files /\ UNCHANGED <<watched, table>>
      BY <1>3 DEF Adds
    <2>2. TableExact'
      BY <2>1 DEF TableExact, Listed
    <2>3. KeepsKinds(files) /\ LosesNone(files)
      BY <2>1 DEF KeepsKinds, LosesNone
    <2>4. Registered'
      BY <1>2, <2>1, <2>3, StillRegistered DEF TypeOK
    <2> QED
      BY <2>2, <2>4
  <1>4. ASSUME Room(files), added.fds = Opens(files, kind), added.id = Lowest(files),
               \/ added.result = "unnoticed"
               \/ added.result = "registered" /\ Initialised(files)
        PROVE  TableExact' /\ Registered'
    <2> DEFINE new == Lowest(files)
    <2>1. /\ \A fd \in Fd : fds'[fd] = IF fd = new THEN kind ELSE files[fd]
          /\ new \in Fd /\ files[new] = "free"
      BY <1>4, OpensLemma DEF Adds, Kind
    <2>2. new \notin watched
      BY <1>1, <2>1
    <2>3. Initialised(files) => Initialised(fds')
      BY <2>1 DEF Initialised, Of
    <2> HIDE DEF new
    <2>4. CASE added.result = "unnoticed"
      <3>1. UNCHANGED <<watched, table>> /\ mishap' = "timer"
        BY <2>4 DEF Adds, Happens
      <3>2. TableExact'
        BY <3>1 DEF TableExact, Listed
      <3>3. KeepsKinds(files) /\ LosesNone(files)
        BY <1>1, <2>1, <2>2, <2>3, <3>1 DEF KeepsKinds, LosesNone
      <3>4. Registered'
        BY <1>2, <3>1, <3>3, StillRegistered DEF TypeOK
      <3> QED
        BY <3>2, <3>4
    <2>5. CASE added.result = "registered" /\ Initialised(files)
      <3>1. Add(new) /\ UNCHANGED mishap
        BY <1>4, <2>5 DEF Adds, new
      <3>2. TableExact'
        BY <2>1, <2>2, <3>1, AddExact
      <3>3. watched' = watched \cup {new} /\ watched' \subseteq Fd
        BY <2>1, <3>1, AddLemma
      <3>4. KeepsKinds(files) /\ LosesNone(files)
        BY <1>1, <2>1, <2>2, <2>3, <2>5, <3>3 DEF KeepsKinds, LosesNone, Timers
      <3>5. Registered'
        BY <1>2, <3>3, <3>4, StillRegistered
      <3> QED
        BY <3>2, <3>5
    <2> QED
      BY <1>4, <2>4, <2>5
  <1>5. kind \in Kind
    BY DEF Kind
  <1>6. \/ added.fds = files /\ added.result \in {"refused", "unnoticed"}
        \/ /\ Room(files) /\ added.fds = Opens(files, kind) /\ added.id = Lowest(files)
           /\ (added.result = "unnoticed" \/ (added.result = "registered" /\ Initialised(files)))
    BY <1>5, AddedLemma
  <1> QED
    BY <1>3, <1>4, <1>6

\* A removal, after which what was removed has been closed or is the program's.
LEMMA RemoveRegistered ==
  ASSUME TypeOK, TableExact, Registered, NEW id, Remove(id), UNCHANGED mishap,
         \A fd \in Fd :
           \/ fds'[fd] = fds[fd] /\ (fd \in Gone(id) => fds[fd] = "program")
           \/ fds[fd] \in Timers /\ fds'[fd] = "spent"
           \/ fd \in Gone(id) /\ fds[fd] \in Timers \cup {"signalfd"} /\ fds'[fd] = "free"
  PROVE  TableExact' /\ Registered'
  <1>1. TableExact'
    BY RemoveExact
  <1>2. watched' = watched \ Gone(id) /\ watched' \subseteq Fd /\ (holed => holed')
    BY RemoveLemma
  <1>3. Initialised(fds) => Initialised(fds')
    BY DEF Initialised, Of, Timers
  <1>4. \A fd \in watched' : fd \in watched /\ (fds'[fd] = fds[fd] \/ fds'[fd] = "spent")
    BY <1>2
  <1>5. \A fd \in Fd : fds'[fd] \in {"watchdog", "timer", "signalfd"} =>
          fds'[fd] = fds[fd] /\ (fd \in watched' \/ fd \notin watched)
    BY <1>2
  <1>6. KeepsKinds(fds) /\ LosesNone(fds)
    BY <1>3, <1>4, <1>5 DEF KeepsKinds, LosesNone
  <1>7. Registered'
    BY <1>2, <1>6, StillRegistered DEF Registered
  <1> QED
    BY <1>1, <1>7

\* Nothing is registered or closed.
SameFiles ==
  \A fd \in Fd :
    \/ fds'[fd] = fds[fd]
    \/ fd \notin watched /\ fds[fd] # "epoll" /\ fds'[fd] \in {"free", "program"}
    \/ fds[fd] = "free" /\ fds'[fd] = "signalfd" /\ mishap' = "signal"

LEMMA SameRegistered ==
  ASSUME TypeOK, TableExact, Registered, UNCHANGED <<watched, table, holed>>,
         mishap # "none" => mishap' = mishap, SameFiles
  PROVE  TableExact' /\ Registered'
  <1>1. TableExact'
    BY DEF TableExact, Listed
  <1>2. watched' \subseteq Fd
    BY DEF TypeOK
  <1>3. Initialised(fds) => Initialised(fds')
    BY DEF Initialised, Of, SameFiles
  <1>4. \A fd \in watched' : fd \in watched /\ fds'[fd] = fds[fd]
    BY <1>2 DEF Registered, RegisteredIn, Timers, SameFiles
  <1>5. \A fd \in Fd :
          /\ fds'[fd] \in {"watchdog", "timer"} => fds'[fd] = fds[fd]
          /\ fds'[fd] = "signalfd" => fds'[fd] = fds[fd] \/ mishap' = "signal"
    BY DEF SameFiles
  <1>6. KeepsKinds(fds) /\ LosesNone(fds)
    BY <1>3, <1>4, <1>5 DEF KeepsKinds, LosesNone
  <1>7. Registered'
    BY <1>2, <1>6, StillRegistered DEF Registered
  <1> QED
    BY <1>1, <1>7

\* While a clean-up has torn the table down no user code runs, no event is
\* dispatched and no entry is taken out.
LEMMA NoneTorn ==
  ASSUME TypeOK, TornDown, UserCode \/ Idle \/ (calls # <<>> /\ Innermost = "user") \/ Remaining # {}
  PROVE  \A k \in DOMAIN calls : calls[k] # "torn"
  <1>1. CASE calls = <<>>
    BY <1>1
  <1>2. CASE calls # <<>> /\ Innermost = "user"
    <2>1. Len(calls) \in DOMAIN calls /\ calls[Len(calls)] = "user" /\ DOMAIN calls = 1 .. Len(calls)
          /\ Len(calls) \in Nat
      BY <1>2, InnermostLemma
    <2>2. \A k \in DOMAIN calls : k < Len(calls) \/ k = Len(calls)
      BY <2>1
    <2> QED
      BY <2>1, <2>2 DEF TornDown
  <1>3. CASE Remaining # {}
    <2>1. table # <<>>
      BY <1>3 DEF Remaining
    <2> QED
      BY <2>1 DEF TornDown
  <1> QED
    BY <1>1, <1>2, <1>3 DEF UserCode, Idle

\* What watchdog_exit finds: nothing but the socket.
LEMMA ExitEffect ==
  ASSUME TypeOK, TornDown, SentinelsUnused, WatchdogExit
  PROVE  /\ watched = {} /\ table = <<>> /\ ~Initialised(fds)
         /\ UNCHANGED <<watched, table, dropped, holed, fault, mishap>>
         /\ notify' = NONE /\ fds' \in [Fd -> Kind]
         /\ \A fd \in Fd : fds'[fd] = IF fd = notify THEN "free" ELSE fds[fd]
         /\ notify # NONE => notify \in Fd /\ fds[notify] = "socket"
  <1>1. calls # <<>> /\ Innermost = "torn"
    BY DEF WatchdogExit, Exit, CallAt
  <1>2. watched = {} /\ table = <<>> /\ ~Initialised(fds)
    BY <1>1, InnermostLemma DEF TornDown
  <1>3. notify # NONE => notify \in Fd /\ fds[notify] = "socket" /\ notify # 0
    BY DEF SentinelsUnused, Of, TypeOK
  <1>4. notify > 0 <=> notify # NONE
    <2>1. notify # NONE => notify > 0
      BY <1>3, BoundsAssumption DEF Fd
    <2>2. ~ (NONE > 0)
      BY DEF NONE
    <2> QED
      BY <2>1, <2>2
  <1> DEFINE closed == IF notify > 0 THEN [fds EXCEPT ![notify] = "free"] ELSE fds
  <1>5. /\ closed \in [Fd -> Kind]
        /\ \A fd \in Fd : closed[fd] = IF fd = notify THEN "free" ELSE fds[fd]
    BY <1>3, <1>4, SlotLemma DEF TypeOK, Kind
  <1>6. notify' = NONE /\ UNCHANGED mishap
    BY <1>4 DEF WatchdogExit, Exit
  <1>7. \/ fds' = closed /\ UNCHANGED <<entries, fault>>
        \/ Remove(watchdog) /\ fds' = Closed(closed, Gone(watchdog))
    BY DEF WatchdogExit, Exit
  <1> HIDE DEF closed
  <1>8. Gone(watchdog) = {} /\ ~SearchFaults(watchdog)
    BY <1>2 DEF Gone, Listed, SearchFaults
  <1>9. CASE fds' = closed /\ UNCHANGED <<entries, fault>>
    BY <1>2, <1>3, <1>5, <1>6, <1>9 DEF entries
  <1>10. CASE Remove(watchdog) /\ fds' = Closed(closed, Gone(watchdog))
    <2>1. UNCHANGED <<watched, table, dropped, fault>> /\ (holed' <=> holed)
      BY <1>8, <1>10 DEF Remove, Forgotten, TypeOK
    <2>2. holed' = holed
      BY <1>10, <2>1, RemoveLemma DEF TypeOK
    <2>3. fds' \in [Fd -> Kind] /\ \A fd \in Fd : fds'[fd] = closed[fd]
      BY <1>5, <1>8, <1>10, ClosedLemma
    <2> QED
      BY <1>2, <1>3, <1>5, <1>6, <2>1, <2>2, <2>3
  <1> QED
    BY <1>7, <1>9, <1>10

\* A descriptor that is opened was free, and the loop does not watch it.
LEMMA RegisteredStep ==
  IInv /\ [Next]_vars => TableExact' /\ Registered'
  <1> SUFFICES ASSUME IInv, [Next]_vars PROVE TableExact' /\ Registered'
    OBVIOUS
  <1>1. TypeOK /\ TableExact /\ Registered /\ TornDown /\ SentinelsUnused /\ fds \in [Fd -> Kind]
    BY DEF IInv, TypeOK
  <1>2. CASE UNCHANGED <<fds, watched, table, holed>> /\ (mishap # "none" => mishap' = mishap)
    <2>1. SameFiles
      BY <1>2 DEF SameFiles
    <2> QED
      BY <1>1, <1>2, <2>1, SameRegistered
  <1>3. CASE OpenProgram
    <2>1. \A fd \in Fd : fds'[fd] = fds[fd] \/ (fds[fd] = "free" /\ fds'[fd] = "program")
      BY <1>1, <1>3, OpensLemma DEF OpenProgram, Kind
    <2>2. \A fd \in Fd : fds[fd] = "free" => fd \notin watched
      BY <1>1 DEF Registered, RegisteredIn, Timers
    <2>3. SameFiles
      BY <2>1, <2>2 DEF SameFiles
    <2> QED
      BY <1>1, <1>3, <2>3, SameRegistered DEF OpenProgram, entries
  <1>4. ASSUME NEW fd \in Fd, CloseProgram(fd) PROVE TableExact' /\ Registered'
    <2>1. SameFiles
      BY <1>1, <1>4 DEF CloseProgram, SameFiles
    <2> QED
      BY <1>1, <1>4, <2>1, SameRegistered DEF CloseProgram, entries
  <1>5. ASSUME NEW fd \in Fd, AddProgram(fd) PROVE TableExact' /\ Registered'
    <2>1. Add(fd) /\ fd \notin watched /\ fds[fd] = "program" /\ Initialised(fds)
          /\ UNCHANGED <<fds, holed, mishap>>
      BY <1>5 DEF AddProgram
    <2>2. watched' = watched \cup {fd} /\ watched' \subseteq Fd
      BY <1>1, <2>1, AddLemma
    <2>3. KeepsKinds(fds) /\ LosesNone(fds)
      BY <2>1, <2>2 DEF KeepsKinds, LosesNone
    <2>4. Registered'
      BY <1>1, <2>1, <2>2, <2>3, StillRegistered DEF Registered
    <2> QED
      BY <1>1, <2>1, <2>4, AddExact
  <1>6. \A fd : Gone(fd) \subseteq watched
    BY <1>1 DEF TableExact, Gone
  <1>7. ASSUME NEW fd \in Fd, RemoveProgram(fd) PROVE TableExact' /\ Registered'
    <2>1. Remove(fd) /\ fds[fd] = "program" /\ UNCHANGED <<fds, mishap>>
      BY <1>7 DEF RemoveProgram
    <2>2. \A other \in Gone(fd) : fds[other] = "program"
      BY <2>1 DEF Gone
    <2> QED
      BY <1>1, <2>1, <2>2, RemoveRegistered
  <1>8. CASE LoopInit
    <2> DEFINE opened == Opens(fds, "epoll")
               socket == Opens(opened, "socket")
    <2>1. Room(fds) /\ UNCHANGED holed
      BY <1>8 DEF LoopInit
    <2>2. opened \in [Fd -> Kind] /\ RegisteredIn(opened)
      BY <1>1, <2>1, OpensLemma, OpenedRegistered DEF Registered, Kind
    <2> HIDE DEF opened
    <2>3. Room(opened) => socket \in [Fd -> Kind] /\ RegisteredIn(socket)
      BY <1>1, <2>2, OpensLemma, OpenedRegistered DEF Kind
    <2> HIDE DEF socket
    <2>4. ASSUME NEW files, RegisteredIn(files), fds' = files, UNCHANGED <<watched, table, mishap>>
          PROVE  TableExact' /\ Registered'
      BY <1>1, <2>1, <2>4 DEF TableExact, Listed, Registered, RegisteredIn
    <2>5. ASSUME Room(opened), NEW added \in Added(socket, "watchdog"), Adds(added)
          PROVE  TableExact' /\ Registered'
      BY <1>1, <2>1, <2>3, <2>5, AddsRegistered
    <2> QED
      BY <1>8, <2>2, <2>3, <2>4, <2>5 DEF LoopInit, opened, socket
  <1>9. CASE WatchdogAdd
    BY <1>1, <1>9, AddsRegistered DEF WatchdogAdd, Registered
  <1>10. \A gone : \A fd \in Fd :
           gone \subseteq watched =>
             \/ Closed(fds, gone)[fd] = fds[fd] /\ (fd \in gone => fds[fd] = "program")
             \/ fd \in gone /\ fds[fd] \in Timers \cup {"signalfd"} /\ Closed(fds, gone)[fd] = "free"
    BY <1>1, ClosedLemma DEF Registered, RegisteredIn
  <1>11. ASSUME NEW id \in Fd, RemoveWatchdog(id) PROVE TableExact' /\ Registered'
    <2>1. Remove(id) /\ fds' = Closed(fds, Gone(id)) /\ UNCHANGED mishap
      BY <1>11 DEF RemoveWatchdog, WatchdogRemove
    <2> QED
      BY <1>1, <1>6, <1>10, <2>1, RemoveRegistered
  <1>12. CASE SetupFails
    <2>1. UNCHANGED <<watched, table, holed>>
      BY <1>12 DEF SetupFails, entries
    <2>2. CASE UNCHANGED <<fds, mishap>>
      BY <1>2, <2>1, <2>2
    <2>3. CASE Room(fds) /\ fds' = Opens(fds, "signalfd") /\ Happens("signal")
      <3>1. \A fd \in Fd : fds'[fd] = fds[fd] \/ (fds[fd] = "free" /\ fds'[fd] = "signalfd")
        BY <1>1, <2>3, OpensLemma DEF Kind
      <3> QED
        BY <1>1, <2>1, <2>3, <3>1, SameRegistered DEF Happens, SameFiles
    <2> QED
      BY <1>12, <2>2, <2>3 DEF SetupFails
  <1>13. CASE LoopRunWithSignal
    <2>1. PICK new \in Fd : new = Lowest(fds) /\ sd' = new /\ fds[new] = "free" /\ new \notin watched
                            /\ \A fd \in Fd : fds'[fd] = IF fd = new THEN "signalfd" ELSE fds[fd]
      BY <1>1, <1>13, OpensLemma DEF LoopRunWithSignal, Kind, Registered, RegisteredIn, Timers
    <2>2. CASE Happens("signal") /\ UNCHANGED <<watched, table>>
      <3>1. SameFiles
        BY <2>1, <2>2 DEF SameFiles, Happens
      <3> QED
        BY <1>1, <1>13, <2>2, <3>1, SameRegistered DEF LoopRunWithSignal, Happens
    <2>3. CASE Initialised(fds) /\ Add(new) /\ (mishap # "none" => mishap' = mishap)
      <3>1. UNCHANGED holed
        BY <1>13 DEF LoopRunWithSignal
      <3>2. watched' = watched \cup {new} /\ watched' \subseteq Fd
        BY <1>1, <2>3, AddLemma
      <3>3. Initialised(fds')
        BY <2>1, <2>3 DEF Initialised, Of
      <3>4. KeepsKinds(fds)
        BY <2>1, <2>3, <3>2, <3>3 DEF KeepsKinds, TypeOK
      <3>5. LosesNone(fds)
        BY <2>1, <3>2 DEF LosesNone
      <3>6. Registered'
        BY <1>1, <2>3, <3>1, <3>2, <3>4, <3>5, StillRegistered DEF Registered
      <3> QED
        BY <1>1, <2>1, <2>3, <3>1, <3>6, AddExact
    <2> QED
      BY <1>13, <2>1, <2>2, <2>3 DEF LoopRunWithSignal, Happens
  <1>14. ASSUME NEW fd \in Fd, WatchdogFires(fd) PROVE TableExact' /\ Registered'
    <2>1. /\ Remove(fd) /\ UNCHANGED mishap /\ fds[fd] \in Timers
          /\ fds' = [Closed(fds, Gone(fd)) EXCEPT ![fd] = IF @ = "free" THEN @ ELSE "spent"]
      BY <1>14 DEF WatchdogFires
    <2>2. Closed(fds, Gone(fd)) \in [Fd -> Kind]
      BY <1>1, ClosedLemma
    <2>3. \A other \in Fd : fds'[other] = IF other = fd /\ Closed(fds, Gone(fd))[fd] # "free"
                                          THEN "spent" ELSE Closed(fds, Gone(fd))[other]
      BY <2>1, <2>2
    <2>4. \A other \in Fd :
            \/ fds'[other] = fds[other] /\ (other \in Gone(fd) => fds[other] = "program")
            \/ fds[other] \in Timers /\ fds'[other] = "spent"
            \/ other \in Gone(fd) /\ fds[other] \in Timers \cup {"signalfd"} /\ fds'[other] = "free"
      BY <1>6, <1>10, <2>1, <2>3 DEF Timers
    <2> QED
      BY <1>1, <2>1, <2>4, RemoveRegistered
  <1>15. CASE LoopRunReturns
    <2>1. Remove(sd) /\ fds' = Closed(fds, Gone(sd)) /\ UNCHANGED mishap
      BY <1>15 DEF LoopRunReturns, Return
    <2> QED
      BY <1>1, <1>6, <1>10, <2>1, RemoveRegistered
  <1>16. CASE CleanupEntry
    <2>1. PICK fd \in Fd :
            /\ fd = table[NextSlot] /\ fds' = Closed(fds, {fd}) /\ watched' = watched \ {fd}
            /\ table' = FreedIn([table EXCEPT ![NextSlot] = NONE], fd)
            /\ Remaining # {} /\ UNCHANGED <<holed, mishap>>
      BY <1>16 DEF CleanupEntry, Forgotten
    <2>2. TableExact'
      BY <1>1, <2>1, EntryExact
    <2>3. Remaining \in SUBSET Nat
      BY <1>1 DEF Remaining, TypeOK
    <2>4. NextSlot \in Remaining
      BY <2>1, <2>3, LeastLemma DEF NextSlot
    <2>5. fd \in watched
      BY <1>1, <2>1, <2>4 DEF TableExact, Listed, Remaining
    <2>6. \A other \in Fd :
            \/ fds'[other] = fds[other] /\ (other = fd => fds[other] = "program")
            \/ other = fd /\ fds[other] \in Timers \cup {"signalfd"} /\ fds'[other] = "free"
      BY <1>10, <2>1, <2>5
    <2>7. Initialised(fds) => Initialised(fds')
      BY <2>6 DEF Initialised, Of, Timers
    <2>8. KeepsKinds(fds)
      BY <1>1, <2>1, <2>6, <2>7 DEF KeepsKinds, TypeOK
    <2>9. LosesNone(fds)
      BY <2>1, <2>6 DEF LosesNone
    <2>10. Registered'
      BY <1>1, <2>1, <2>8, <2>9, StillRegistered DEF Registered, TypeOK
    <2> QED
      BY <2>2, <2>10
  <1>17. CASE TearDown
    <2>1. /\ watched' = {} /\ table' = <<>> /\ Remaining = {} /\ UNCHANGED <<holed, mishap>>
          /\ \A fd \in Fd : fds'[fd] = IF fds[fd] = "epoll" THEN "free" ELSE fds[fd]
      BY <1>17 DEF TearDown
    <2>2. ~holed => watched = {}
      BY <1>1, <2>1, SlotLemma DEF TableExact, Listed, Remaining
    <2>3. TableExact'
      BY <2>1, <2>2 DEF TableExact, Listed
    <2>4. Registered'
      BY <1>1, <2>1, <2>2 DEF Registered, RegisteredIn, Of
    <2> QED
      BY <2>3, <2>4
  <1>18. CASE WatchdogExit
    <2>1. /\ watched = {} /\ UNCHANGED <<watched, table, holed, mishap>>
          /\ \A fd \in Fd : fds'[fd] = fds[fd] \/ (fds[fd] = "socket" /\ fds'[fd] = "free")
      <3>1. watched = {} /\ UNCHANGED <<watched, table, holed, mishap>>
        BY <1>1, <1>18, ExitEffect
      <3>2. /\ \A fd \in Fd : fds'[fd] = IF fd = notify THEN "free" ELSE fds[fd]
            /\ notify # NONE => fds[notify] = "socket"
        BY <1>1, <1>18, ExitEffect
      <3>3. NONE \notin Fd
        BY SlotLemma
      <3> QED
        BY <3>1, <3>2, <3>3
    <2> QED
      BY <1>1, <2>1, SameRegistered DEF SameFiles
  <1>19. CASE Quit \/ ExitLoop \/ UserReturns \/ Raise
    BY <1>2, <1>19 DEF Quit, ExitLoop, StartCleanup, UserReturns, Raise, process, entries
  <1>20. CASE CleanupDead \/ UNCHANGED vars
    BY <1>2, <1>20 DEF CleanupDead, vars, process, entries
  <1>21. ASSUME NEW ready, Wait(ready) PROVE TableExact' /\ Registered'
    BY <1>2, <1>21 DEF Wait
  <1>22. ASSUME NEW fd \in Fd, DispatchDropped(fd) \/ DispatchProgram(fd) PROVE TableExact' /\ Registered'
    BY <1>2, <1>22 DEF DispatchDropped, DispatchProgram, entries
  <1>23. ASSUME NEW fd \in Fd, SignalEvent(fd) \/ SignalIgnored(fd)
         PROVE  TableExact' /\ Registered'
    BY <1>2, <1>23 DEF SignalEvent, SignalIgnored, entries
  <1>27. CASE SignalRead \/ SignalFunction \/ SignalReadFails \/ SignalDataGone
    BY <1>2, <1>27 DEF SignalRead, Reads, SignalFunction, SignalReadFails, SignalDataGone, Happens,
                       entries
  <1>24. CASE Program
    BY <1>3, <1>4, <1>5, <1>7, <1>8, <1>9, <1>11, <1>12, <1>13, <1>19, <1>24 DEF Program
  <1>25. CASE LoopRun
    BY <1>14, <1>15, <1>21, <1>22, <1>23, <1>25, <1>27 DEF LoopRun
  <1>26. CASE Cleanup
    BY <1>16, <1>17, <1>18, <1>20, <1>26 DEF Cleanup
  <1> QED
    BY <1>19, <1>20, <1>24, <1>25, <1>26 DEF Next, Halted

-----------------------------------------------------------------------------
(***************************************************************************)
(* The steps that are not the loop's own beginning and end.                *)
(***************************************************************************)
\* Nothing is quit, and no clean-up ends.
Calm ==
  /\ \/ UNCHANGED calls
     \/ Push("user") \/ Push("read")
     \/ calls # <<>> /\ Pop
     \/ calls # <<>> /\ (Becomes("deliver") \/ Becomes("user"))
  /\ UNCHANGED terminate
  /\ \/ \A k \in DOMAIN calls : calls[k] # "torn"
     \/ UNCHANGED <<fds, watched, table, calls>>

\* epoll, the socket and the library's watchdog stay what they are, or ring.
Spares ==
  /\ UNCHANGED <<notify, watchdog>>
  /\ holed => holed'
  /\ mishap = "timer" => mishap' = "timer"
  /\ \A fd \in Fd : fds[fd] \in {"epoll", "socket"} \/ fds'[fd] \in {"epoll", "socket", "watchdog"} =>
                    fds'[fd] = fds[fd]

LEMMA CalmLemma ==
  ASSUME TypeOK, Calm
  PROVE  \A k \in DOMAIN calls' :
           \/ calls'[k] \in {"user", "read", "deliver"}
           \/ k \in DOMAIN calls /\ calls'[k] = calls[k]
  <1>1. CASE UNCHANGED calls
    BY <1>1
  <1>2. CASE Push("user") \/ Push("read")
    <2>1. /\ calls' \in Seq(Call) /\ Len(calls') = Len(calls) + 1
          /\ calls'[Len(calls')] \in {"user", "read"}
          /\ \A k \in DOMAIN calls : calls'[k] = calls[k]
      BY <1>2, PushLemma DEF Call
    <2>2. DOMAIN calls' = 1 .. Len(calls') /\ DOMAIN calls = 1 .. Len(calls) /\ Len(calls) \in Nat
      BY <2>1 DEF TypeOK
    <2>3. \A k \in DOMAIN calls' : k \in DOMAIN calls \/ k = Len(calls')
      BY <2>1, <2>2
    <2> QED
      BY <2>1, <2>3
  <1>3. CASE calls # <<>> /\ Pop
    BY <1>3, PopLemma
  <1>4. CASE calls # <<>> /\ (Becomes("deliver") \/ Becomes("user"))
    BY <1>4, BecomesLemma DEF Call
  <1> QED
    BY <1>1, <1>2, <1>3, <1>4 DEF Calm

\* Files that only lose what the library closes for the loop, or ring.
LEMMA ClosedSpares ==
  ASSUME TypeOK, NEW gone
  PROVE  \A fd \in Fd :
           \/ Closed(fds, gone)[fd] = fds[fd]
           \/ fds[fd] \notin {"epoll", "socket"} /\ Closed(fds, gone)[fd] = "free"
  BY ClosedLemma DEF TypeOK, Timers

LEMMA OpensSpares ==
  ASSUME TypeOK, Room(fds), NEW kind \in Kind
  PROVE  \A fd \in Fd :
           \/ Opens(fds, kind)[fd] = fds[fd]
           \/ fds[fd] = "free" /\ Opens(fds, kind)[fd] = kind
  BY OpensLemma DEF TypeOK

LEMMA ProgramSpares ==
  ASSUME TypeOK, TornDown, Program
  PROVE  LoopInit \/ Quit \/ ExitLoop \/ (Calm /\ Spares)
  <1>1. UserCode => \A k \in DOMAIN calls : calls[k] # "torn"
    BY NoneTorn
  <1>2. CASE OpenProgram /\ UNCHANGED <<watchdogVars, signalVars>>
    <2>1. Calm
      BY <1>1, <1>2 DEF OpenProgram, Calm, loop
    <2>2. Spares
      BY <1>2, OpensSpares DEF OpenProgram, Spares, entries, watchdogVars, Kind
    <2> QED
      BY <2>1, <2>2
  <1>3. CASE UserReturns /\ UNCHANGED <<watchdogVars, signalVars>>
    <2>1. calls # <<>> /\ Innermost = "user" /\ Pop /\ UNCHANGED <<terminate, fds>>
      BY <1>3 DEF UserReturns, loop
    <2>2. Calm
      BY <2>1, NoneTorn DEF Calm
    <2>3. Spares
      BY <1>3, <2>1 DEF UserReturns, Spares, entries, watchdogVars
    <2> QED
      BY <2>2, <2>3
  <1>4. ASSUME NEW fd \in Fd, CloseProgram(fd), UNCHANGED <<watchdogVars, signalVars>>
        PROVE  Calm /\ Spares
    <2>1. Calm
      BY <1>1, <1>4 DEF CloseProgram, Calm, loop
    <2>2. Spares
      BY <1>4 DEF CloseProgram, Spares, entries, watchdogVars, TypeOK
    <2> QED
      BY <2>1, <2>2
  <1>5. ASSUME NEW fd \in Fd, AddProgram(fd), UNCHANGED <<watchdogVars, signalVars>>
        PROVE  Calm /\ Spares
    BY <1>1, <1>5 DEF AddProgram, Calm, Spares, loop, watchdogVars
  <1>6. ASSUME NEW fd \in Fd, RemoveProgram(fd), UNCHANGED <<watchdogVars, signalVars>>
        PROVE  Calm /\ Spares
    <2>1. Calm
      BY <1>1, <1>6 DEF RemoveProgram, Calm, loop
    <2>2. Spares
      BY <1>6, RemoveLemma DEF RemoveProgram, Spares, watchdogVars
    <2> QED
      BY <2>1, <2>2
  <1>7. CASE WatchdogAdd
    <2>1. PICK added \in Added(fds, "timer") : Adds(added)
      BY <1>7 DEF WatchdogAdd
    <2>2. Calm
      BY <1>1, <1>7 DEF WatchdogAdd, Calm, loop
    <2>3. \A fd \in Fd : fds'[fd] = fds[fd] \/ (fds[fd] = "free" /\ fds'[fd] = "timer")
      BY <2>1, AddedLemma, OpensSpares DEF Adds, TypeOK, Kind
    <2>4. Spares
      BY <1>7, <2>1, <2>3 DEF WatchdogAdd, Adds, Happens, Spares
    <2> QED
      BY <2>2, <2>4
  <1>8. ASSUME NEW id \in Fd, RemoveWatchdog(id)
        PROVE  Calm /\ Spares
    <2>1. WatchdogRemove(id)
      BY <1>8 DEF RemoveWatchdog
    <2>2. Calm
      BY <1>1, <2>1 DEF WatchdogRemove, Calm, loop
    <2>3. fds' = Closed(fds, Gone(id)) /\ Remove(id) /\ UNCHANGED <<notify, watchdog, mishap>>
      BY <2>1 DEF WatchdogRemove
    <2>4. Spares
      BY <2>3, RemoveLemma, ClosedSpares DEF Spares
    <2> QED
      BY <2>2, <2>4
  <1>9. CASE (SetupFails \/ LoopRunWithSignal) /\ UNCHANGED watchdogVars
    <2>1. Calm
      BY <1>1, <1>9 DEF SetupFails, LoopRunWithSignal, Calm, loop
    <2>2. UNCHANGED <<notify, watchdog, holed>> /\ (mishap = "timer" => mishap' = "timer")
      BY <1>9 DEF SetupFails, LoopRunWithSignal, watchdogVars, entries, Happens
    <2>3. fds' = fds \/ (Room(fds) /\ fds' = Opens(fds, "signalfd"))
      BY <1>9 DEF SetupFails, LoopRunWithSignal
    <2>4. Spares
      BY <2>2, <2>3, OpensSpares DEF Spares, Kind
    <2> QED
      BY <2>1, <2>4
  <1> QED
    BY <1>2, <1>3, <1>4, <1>5, <1>6, <1>7, <1>8, <1>9 DEF Program

\* Nothing else is running when signal_read does and nothing interrupts it.
LEMMA ReadAlone ==
  ASSUME TypeOK, ReadsFirst, CallAt("read") \/ CallAt("deliver")
  PROVE  /\ calls # <<>> /\ Len(calls) = 1 /\ DOMAIN calls = {1} /\ calls[1] = Innermost
         /\ data # "held" => terminate /\ sd = NONE /\ data = "released"
  <1>1. /\ calls # <<>> /\ Len(calls) \in DOMAIN calls /\ Innermost = calls[Len(calls)]
        /\ DOMAIN calls = 1 .. Len(calls) /\ Innermost \in {"read", "deliver"}
    BY InnermostLemma DEF CallAt
  <1>2. Len(calls) = 1 /\ (data # "held" => terminate /\ sd = NONE /\ data = "released")
    BY <1>1 DEF ReadsFirst
  <1> QED
    BY <1>1, <1>2

LEMMA LoopRunSpares ==
  ASSUME TypeOK, TornDown, ReadsFirst, LoopRun
  PROVE  Calm /\ Spares
  <1>1. Idle => \A k \in DOMAIN calls : calls[k] # "torn"
    BY NoneTorn
  <1>2. ASSUME NEW ready, Wait(ready), UNCHANGED watchdogVars
        PROVE  Calm /\ Spares
    BY <1>1, <1>2 DEF Wait, Calm, Spares, watchdogVars
  <1>3. ASSUME NEW fd \in Fd, DispatchDropped(fd) \/ DispatchProgram(fd), UNCHANGED watchdogVars
        PROVE  Calm /\ Spares
    BY <1>1, <1>3 DEF DispatchDropped, DispatchProgram, Calm, Spares, watchdogVars, entries, loop
  <1>4. ASSUME NEW fd \in Fd, WatchdogFires(fd)
        PROVE  Calm /\ Spares
    <2>1. Calm
      BY <1>1, <1>4 DEF WatchdogFires, Calm
    <2>2. /\ Remove(fd) /\ UNCHANGED <<mishap, notify, watchdog>> /\ fds[fd] \in Timers
          /\ fds' = [Closed(fds, Gone(fd)) EXCEPT ![fd] = IF @ = "free" THEN @ ELSE "spent"]
      BY <1>4 DEF WatchdogFires
    <2>3. Closed(fds, Gone(fd)) \in [Fd -> Kind]
      BY ClosedLemma DEF TypeOK
    <2>4. \A other \in Fd : \/ fds'[other] = Closed(fds, Gone(fd))[other]
                            \/ fds[other] \in Timers /\ fds'[other] = "spent"
      BY <2>2, <2>3
    <2>5. Spares
      BY <2>2, <2>4, RemoveLemma, ClosedSpares DEF Spares, Timers
    <2> QED
      BY <2>1, <2>5
  <1>5. ASSUME NEW fd \in Fd, SignalEvent(fd) \/ SignalIgnored(fd), UNCHANGED watchdogVars
        PROVE  Calm /\ Spares
    <2>1. Calm
      BY <1>1, <1>5 DEF SignalEvent, SignalIgnored, Calm
    <2>2. Spares
      BY <1>5 DEF SignalEvent, SignalIgnored, Spares, watchdogVars, entries
    <2> QED
      BY <2>1, <2>2
  <1>7. CASE /\ SignalRead \/ SignalFunction \/ SignalReadFails \/ SignalDataGone
             /\ UNCHANGED watchdogVars
    <2>1. CallAt("read") \/ CallAt("deliver")
      BY <1>7 DEF SignalRead, Reads, SignalFunction, SignalReadFails, SignalDataGone
    <2>2. calls # <<>> /\ \A k \in DOMAIN calls : calls[k] # "torn"
      BY <2>1, ReadAlone DEF CallAt
    <2>3. UNCHANGED terminate
      BY <1>7 DEF SignalRead, Reads, SignalFunction, SignalReadFails, SignalDataGone, loop
    <2>4. UNCHANGED calls \/ Pop \/ Becomes("deliver") \/ Becomes("user")
      BY <1>7 DEF SignalRead, Reads, SignalFunction, SignalReadFails, SignalDataGone
    <2>5. Calm
      BY <2>2, <2>3, <2>4 DEF Calm
    <2>6. Spares
      BY <1>7 DEF SignalRead, Reads, SignalFunction, SignalReadFails, SignalDataGone, Happens, Spares,
                  watchdogVars, entries
    <2> QED
      BY <2>5, <2>6
  <1>6. CASE LoopRunReturns /\ UNCHANGED watchdogVars
    <2>1. Calm
      BY <1>1, <1>6 DEF LoopRunReturns, Return, Calm
    <2>2. fds' = Closed(fds, Gone(sd)) /\ Remove(sd) /\ UNCHANGED <<notify, watchdog, mishap>>
      BY <1>6 DEF LoopRunReturns, Return, watchdogVars
    <2>3. Spares
      BY <2>2, RemoveLemma, ClosedSpares DEF Spares
    <2> QED
      BY <2>1, <2>3
  <1> QED
    BY <1>2, <1>3, <1>4, <1>5, <1>6, <1>7 DEF LoopRun

\* Every step.
LEMMA StepKinds ==
  ASSUME IInv, [Next]_vars
  PROVE  \/ LoopInit \/ Quit \/ ExitLoop \/ WatchdogExit \/ (Calm /\ Spares)
         \/ (TearDown /\ UNCHANGED watchdogVars)
  <1>1. TypeOK /\ TornDown /\ ReadsFirst
    BY DEF IInv
  <1>2. CASE CleanupEntry
    <2>1. PICK fd : /\ fds' = Closed(fds, {fd}) /\ (Push("user") \/ UNCHANGED calls) /\ Remaining # {}
                    /\ UNCHANGED <<terminate, holed, mishap, notify, watchdog>>
      BY <1>2 DEF CleanupEntry, loop
    <2>2. Calm
      BY <1>1, <2>1, NoneTorn DEF Calm
    <2>3. Spares
      BY <1>1, <2>1, ClosedSpares DEF Spares
    <2> QED
      BY <2>2, <2>3
  <1>3. CASE CleanupDead /\ UNCHANGED watchdogVars
    BY <1>3 DEF CleanupDead, Calm, Spares, entries, loop, watchdogVars
  <1>4. CASE Raise /\ UNCHANGED watchdogVars
    BY <1>4 DEF Raise, Calm, Spares, process, entries, loop, watchdogVars
  <1>5. CASE UNCHANGED vars
    BY <1>5 DEF Calm, Spares, vars, process, entries, loop, watchdogVars
  <1> QED
    BY <1>1, <1>2, <1>3, <1>4, <1>5, ProgramSpares, LoopRunSpares DEF Next, Cleanup, Halted

-----------------------------------------------------------------------------
(***************************************************************************)
(* The clean-up.                                                           *)
(***************************************************************************)
LEMMA CleanupStep ==
  ASSUME IInv, [Next]_vars
  PROVE  Announced' /\ TornDown'
  <1>1. TypeOK /\ Announced /\ TornDown /\ SentinelsUnused
    BY DEF IInv
  <1>2. DOMAIN calls = 1 .. Len(calls) /\ Len(calls) \in Nat
    BY <1>1 DEF TypeOK
  <1>3. CASE Calm /\ Spares
    <2>1. \A k \in DOMAIN calls' :
            \/ calls'[k] \in {"user", "read", "deliver"}
            \/ k \in DOMAIN calls /\ calls'[k] = calls[k]
      BY <1>1, <1>3, CalmLemma
    <2>2. Announced'
      BY <1>1, <1>3, <2>1 DEF Announced, Calm
    <2>3. CASE \A k \in DOMAIN calls : calls[k] # "torn"
      <3>1. \A k \in DOMAIN calls' : calls'[k] # "torn"
        BY <2>1, <2>3
      <3> QED
        BY <2>2, <3>1 DEF TornDown
    <2>4. CASE UNCHANGED <<fds, watched, table, calls>>
      <3>1. Initialised(fds') <=> Initialised(fds)
        BY <2>4
      <3> QED
        BY <1>1, <2>2, <2>4, <3>1 DEF TornDown
    <2> QED
      BY <1>3, <2>2, <2>3, <2>4 DEF Calm
  <1>4. CASE LoopInit
    <2>1. calls' = <<>>
      BY <1>4 DEF LoopInit
    <2> QED
      BY <2>1 DEF Announced, TornDown
  <1>5. CASE Quit \/ ExitLoop
    <2>1. Push("cleanup") /\ terminate' /\ UNCHANGED <<fds, watched, table>>
      BY <1>5 DEF Quit, ExitLoop, StartCleanup, entries
    <2>2. /\ calls' \in Seq(Call) /\ Len(calls') = Len(calls) + 1 /\ calls'[Len(calls')] = "cleanup"
          /\ \A k \in DOMAIN calls : calls'[k] = calls[k]
      BY <1>1, <2>1, PushLemma DEF Call
    <2>3. \A k \in DOMAIN calls' : calls'[k] = "cleanup" \/ (k \in DOMAIN calls /\ calls'[k] = calls[k])
      BY <1>2, <2>2
    <2>4. TornDown'
      BY <1>1, <2>1, <2>3 DEF TornDown
    <2> QED
      BY <2>1, <2>4 DEF Announced
  <1>6. CASE TearDown
    <2>1. /\ calls # <<>> /\ Innermost = "cleanup" /\ UNCHANGED terminate
          /\ watched' = {} /\ table' = <<>>
          /\ \A fd \in Fd : fds'[fd] = IF fds[fd] = "epoll" THEN "free" ELSE fds[fd]
      BY <1>6 DEF TearDown, CallAt, loop
    <2>2. /\ calls' \in Seq(Call) /\ Len(calls') = Len(calls)
          /\ \A k \in DOMAIN calls : calls'[k] = IF k = Len(calls) THEN "torn" ELSE calls[k]
      BY <1>1, <1>6, BecomesLemma DEF TearDown, CallAt, Call
    <2>3. DOMAIN calls' = DOMAIN calls /\ \A k, j \in DOMAIN calls : k < j => k # Len(calls)
      BY <1>2, <2>2
    <2>4. terminate
      BY <1>1, <2>1, InnermostLemma DEF Announced
    <2>5. ~Initialised(fds')
      BY <2>1 DEF Initialised, Of
    <2>6. \A k, j \in DOMAIN calls' : calls'[k] = "torn" /\ k < j => calls'[j] # "user"
      BY <1>1, <2>2, <2>3 DEF TornDown
    <2>7. TornDown'
      BY <2>1, <2>5, <2>6 DEF TornDown
    <2> QED
      BY <2>1, <2>4, <2>7 DEF Announced
  <1>7. CASE WatchdogExit
    <2>1. calls # <<>> /\ Pop /\ UNCHANGED terminate
      BY <1>7 DEF WatchdogExit, Exit, CallAt, loop
    <2>2. \A k \in DOMAIN calls' : k \in DOMAIN calls /\ calls'[k] = calls[k]
      BY <1>1, <2>1, PopLemma
    <2>3. UNCHANGED <<watched, table>> /\ ~Initialised(fds)
      BY <1>1, <1>7, ExitEffect
    <2>4. \A fd \in Fd : fds'[fd] = fds[fd] \/ fds'[fd] = "free"
      BY <1>1, <1>7, ExitEffect
    <2>5. ~Initialised(fds')
      BY <2>3, <2>4 DEF Initialised, Of
    <2>6. Announced'
      BY <1>1, <2>1, <2>2 DEF Announced
    <2> QED
      BY <1>1, <2>2, <2>3, <2>5, <2>6 DEF TornDown
  <1> QED
    BY <1>3, <1>4, <1>5, <1>6, <1>7, StepKinds

-----------------------------------------------------------------------------
(***************************************************************************)
(* The socket and the watchdog of the library.                             *)
(***************************************************************************)
SocketInv == SentinelsUnused /\ SocketOwned /\ NoWatchdogYet

\* epoll takes 0 if it is free, so that the socket and the watchdog do not.
LEMMA LoopInitSocket ==
  ASSUME TypeOK, SocketInv, LoopInit
  PROVE  SocketInv'
  <1> DEFINE opened == Opens(fds, "epoll")
             socket == Opens(opened, "socket")
  <1>1. ~Initialised(fds) /\ Room(fds) /\ ~terminate /\ calls = <<>> /\ UNCHANGED <<calls, terminate>>
    BY DEF LoopInit, loop
  <1>2. Of(fds, "socket") = {} /\ Of(fds, "watchdog") = {}
    BY <1>1 DEF SocketInv, SocketOwned, NoWatchdogYet
  <1>3. notify = NONE
    BY <1>2 DEF SocketInv, SentinelsUnused, Of, TypeOK
  <1>4. /\ opened \in [Fd -> Kind] /\ opened[0] # "free" /\ Lowest(fds) \in Fd
        /\ \A fd \in Fd : opened[fd] = IF fd = Lowest(fds) THEN "epoll" ELSE fds[fd]
    BY <1>1, OpensLemma DEF TypeOK, Kind
  <1>5. Initialised(opened) /\ Of(opened, "socket") = {} /\ Of(opened, "watchdog") = {}
    BY <1>2, <1>4 DEF Initialised, Of
  <1> HIDE DEF opened
  <1>6. ASSUME Room(opened)
        PROVE  /\ socket \in [Fd -> Kind] /\ socket[0] # "free" /\ Initialised(socket)
               /\ Lowest(opened) \in Fd \ {0} /\ socket[Lowest(opened)] = "socket"
               /\ Of(socket, "socket") = {Lowest(opened)} /\ Of(socket, "watchdog") = {}
    <2>1. /\ socket \in [Fd -> Kind] /\ socket[0] # "free" /\ Lowest(opened) # 0 /\ Lowest(opened) \in Fd
          /\ opened[Lowest(opened)] = "free"
      BY <1>4, <1>6, OpensLemma DEF Kind
    <2>2. \A fd \in Fd : socket[fd] = IF fd = Lowest(opened) THEN "socket" ELSE opened[fd]
      BY <1>4, <1>6, OpensLemma DEF Kind
    <2> HIDE DEF socket
    <2> QED
      BY <1>5, <2>1, <2>2 DEF Initialised, Of
  <1> HIDE DEF socket
  <1>7. CASE fds' = opened /\ notify' \in {notify, NONE} /\ UNCHANGED <<watchdog, mishap>>
    BY <1>3, <1>5, <1>7 DEF SocketInv, SentinelsUnused, SocketOwned, NoWatchdogYet
  <1>8. CASE Room(opened) /\ notify' = Lowest(opened) /\ fds' = socket
    BY <1>6, <1>8 DEF SocketInv, SentinelsUnused, SocketOwned, NoWatchdogYet
  <1>9. ASSUME Room(opened), notify' = Lowest(opened),
               NEW added \in Added(socket, "watchdog"), Adds(added), watchdog' = added.id
        PROVE  SocketInv'
    <2>1. fds' = added.fds
      BY <1>9 DEF Adds
    <2>2. CASE fds' = socket
      BY <1>6, <1>9, <2>2 DEF SocketInv, SentinelsUnused, SocketOwned, NoWatchdogYet
    <2>3. CASE Room(socket) /\ fds' = Opens(socket, "watchdog") /\ watchdog' = Lowest(socket)
      <3>1. Lowest(socket) \in Fd \ {0} /\ socket[Lowest(socket)] = "free"
        BY <1>6, <1>9, <2>3, OpensLemma DEF Kind
      <3>2. \A fd \in Fd : fds'[fd] = IF fd = Lowest(socket) THEN "watchdog" ELSE socket[fd]
        BY <1>6, <1>9, <2>3, OpensLemma DEF Kind
      <3>3. Of(fds', "socket") = Of(socket, "socket") /\ Of(fds', "watchdog") = {Lowest(socket)}
        BY <1>6, <1>9, <3>1, <3>2 DEF Of
      <3>4. Initialised(fds')
        BY <1>6, <1>9, <3>1, <3>2 DEF Initialised, Of
      <3>5. fds'[notify'] = "socket"
        BY <1>6, <1>9, <3>1, <3>2
      <3> QED
        BY <1>6, <1>9, <2>3, <3>1, <3>3, <3>4, <3>5
           DEF SocketInv, SentinelsUnused, SocketOwned, NoWatchdogYet
    <2>4. "watchdog" \in Kind /\ socket \in [Fd -> Kind]
      BY <1>6, <1>9 DEF Kind
    <2> QED
      BY <1>9, <2>1, <2>2, <2>3, <2>4, AddedLemma
  <1> QED
    BY <1>7, <1>8, <1>9 DEF LoopInit, opened, socket

LEMMA SocketStep ==
  ASSUME IInv, [Next]_vars
  PROVE  SocketInv'
  <1>1. TypeOK /\ Announced /\ TornDown /\ SentinelsUnused /\ SocketOwned /\ NoWatchdogYet
    BY DEF IInv
  <1>2. CASE LoopInit
    BY <1>1, <1>2, LoopInitSocket DEF SocketInv
  <1>3. CASE Calm /\ Spares
    <2>1. /\ UNCHANGED <<notify, watchdog>> /\ (Initialised(fds') <=> Initialised(fds))
          /\ Of(fds', "socket") = Of(fds, "socket") /\ Of(fds', "watchdog") \subseteq Of(fds, "watchdog")
      BY <1>3 DEF Spares, Initialised, Of
    <2>2. notify # NONE => notify \in Fd
      BY <1>1 DEF TypeOK
    <2>3. notify' # NONE => fds'[notify'] = "socket"
      BY <1>1, <1>3, <2>1, <2>2 DEF Spares, SentinelsUnused
    <2>4. SentinelsUnused'
      BY <1>1, <1>3, <2>1, <2>3 DEF SentinelsUnused, Spares
    <2>5. SocketOwned'
      BY <1>1, <1>3, <2>1 DEF SocketOwned, Calm
    <2>6. NoWatchdogYet'
      BY <1>1, <1>3, <2>1 DEF NoWatchdogYet, Calm
    <2> QED
      BY <2>4, <2>5, <2>6 DEF SocketInv
  <1>4. CASE Quit \/ ExitLoop
    <2>1. Push("cleanup") /\ terminate' /\ UNCHANGED <<fds, notify, watchdog, holed, mishap>>
      BY <1>4 DEF Quit, ExitLoop, StartCleanup, entries
    <2>2. /\ calls' \in Seq(Call) /\ Len(calls') = Len(calls) + 1
          /\ \A k \in DOMAIN calls : calls'[k] = calls[k]
      BY <1>1, <2>1, PushLemma DEF Call
    <2>3. \A k \in DOMAIN calls : k \in DOMAIN calls'
      BY <1>1, <2>2 DEF TypeOK
    <2> QED
      BY <1>1, <2>1, <2>2, <2>3 DEF SocketInv, SentinelsUnused, SocketOwned, NoWatchdogYet
  <1>5. CASE TearDown /\ UNCHANGED watchdogVars
    <2>1. /\ calls # <<>> /\ Innermost = "cleanup"
          /\ UNCHANGED <<terminate, holed, mishap, notify, watchdog>>
          /\ \A fd \in Fd : fds'[fd] = IF fds[fd] = "epoll" THEN "free" ELSE fds[fd]
      BY <1>5 DEF TearDown, CallAt, loop, watchdogVars
    <2>2. Len(calls) \in DOMAIN calls' /\ calls'[Len(calls)] = "torn"
      BY <1>1, <1>5, InnermostLemma, BecomesLemma DEF TearDown, CallAt, Call
    <2>3. terminate
      BY <1>1, <2>1, InnermostLemma DEF Announced
    <2>4. Of(fds', "socket") = Of(fds, "socket") /\ Of(fds', "watchdog") = Of(fds, "watchdog")
      BY <2>1 DEF Of
    <2>5. notify # NONE => fds'[notify] = "socket"
      BY <1>1, <2>1 DEF SentinelsUnused, TypeOK
    <2> QED
      BY <1>1, <2>1, <2>2, <2>3, <2>4, <2>5 DEF SocketInv, SentinelsUnused, SocketOwned, NoWatchdogYet
  <1>6. CASE WatchdogExit
    <2>1. calls # <<>> /\ Innermost = "torn" /\ UNCHANGED <<terminate, watchdog>>
      BY <1>6 DEF WatchdogExit, Exit, CallAt, loop
    <2>2. UNCHANGED <<holed, mishap>> /\ notify' = NONE
      BY <1>1, <1>6, ExitEffect
    <2>3. \A fd \in Fd : fds'[fd] = IF fd = notify THEN "free" ELSE fds[fd]
      BY <1>1, <1>6, ExitEffect
    <2>4. terminate
      BY <1>1, <2>1, InnermostLemma DEF Announced
    <2>5. Of(fds', "socket") = {} /\ Of(fds', "watchdog") \subseteq Of(fds, "watchdog")
      BY <1>1, <2>3 DEF Of, SentinelsUnused
    <2> QED
      BY <1>1, <2>1, <2>2, <2>4, <2>5 DEF SocketInv, SentinelsUnused, SocketOwned, NoWatchdogYet
  <1> QED
    BY <1>2, <1>3, <1>4, <1>5, <1>6, StepKinds

-----------------------------------------------------------------------------
(***************************************************************************)
(* The channel of the signal loop and its data.                            *)
(***************************************************************************)
SignalInv == ChannelOpen /\ ChannelHandled /\ DataOnce

\* Steps that leave the channel alone.
ChannelKept ==
  /\ UNCHANGED <<sd, handler, data, inside>>
  /\ holed => holed'
  /\ mishap = "signal" => mishap' = "signal"
  /\ ~Running => ~Running'
  /\ \A fd \in Fd : fds[fd] = "signalfd" \/ fds'[fd] = "signalfd" => fds'[fd] = fds[fd]

LEMMA KeptSignal ==
  ASSUME TypeOK, SignalInv, ChannelKept
  PROVE  SignalInv'
  <1>1. Of(fds', "signalfd") = Of(fds, "signalfd")
    BY DEF ChannelKept, Of
  <1>2. sd # NONE => sd \in Fd
    BY DEF TypeOK
  <1>3. ChannelOpen'
    BY <1>2 DEF SignalInv, ChannelOpen, ChannelKept
  <1>4. ChannelHandled'
    BY <1>1 DEF SignalInv, ChannelHandled, ChannelKept
  <1>5. DataOnce'
    BY <1>1 DEF SignalInv, DataOnce, ChannelKept
  <1> QED
    BY <1>3, <1>4, <1>5 DEF SignalInv

\* "gone" are unregistered and closed.  Their callbacks own the data.
LEMMA ForgottenSignal ==
  ASSUME TypeOK, SignalInv, NEW gone \in SUBSET Fd, ChannelForgotten(gone),
         UNCHANGED <<handler, inside, mishap>>, holed => holed', ~Running => ~Running',
         fds' = Closed(fds, gone)
  PROVE  SignalInv'
  <1>1. \A fd \in Fd :
          fds'[fd] = IF fd \in gone /\ fds[fd] \in Timers \cup {"signalfd"} THEN "free" ELSE fds[fd]
    BY ClosedLemma DEF TypeOK
  <1>2. CASE sd \notin gone
    <2>1. UNCHANGED <<sd, data>>
      BY <1>2 DEF ChannelForgotten
    <2>2. Of(fds', "signalfd") \subseteq Of(fds, "signalfd")
      BY <1>1 DEF Of
    <2>3. sd # NONE => sd \in Fd /\ fds'[sd] = fds[sd]
      BY <1>1, <1>2 DEF TypeOK
    <2>4. ChannelOpen'
      BY <2>1, <2>3 DEF SignalInv, ChannelOpen
    <2>5. ChannelHandled'
      BY <2>1, <2>2 DEF SignalInv, ChannelHandled
    <2>6. DataOnce'
      BY <2>1, <2>2 DEF SignalInv, DataOnce
    <2> QED
      BY <2>4, <2>5, <2>6 DEF SignalInv
  <1>3. CASE sd \in gone
    <2>1. sd # NONE /\ sd \in Fd /\ fds[sd] = "signalfd" /\ fds'[sd] = "free" /\ sd' = NONE
      BY <1>1, <1>3, SlotLemma DEF ChannelForgotten, SignalInv, ChannelOpen
    <2>2. IF handler THEN data = "held" /\ data' = "released" ELSE data' = data
      BY <1>3, <2>1 DEF ChannelForgotten, Freed, SignalInv, ChannelOpen
    <2>3. handler => inside /\ Of(fds', "signalfd") = {}
      BY <1>1, <2>1 DEF SignalInv, ChannelHandled, Of
    <2>4. data # "none"
      BY <2>1 DEF SignalInv, DataOnce
    <2>5. ~handler /\ data = "held" => holed \/ mishap = "signal" \/ ~Running
      BY DEF SignalInv, DataOnce
    <2>6. ChannelOpen' /\ ChannelHandled'
      BY <2>1, <2>3 DEF ChannelOpen, ChannelHandled
    <2>7. DataOnce'
      BY <2>2, <2>4, <2>5 DEF SignalInv, DataOnce
    <2> QED
      BY <2>6, <2>7 DEF SignalInv
  <1> QED
    BY <1>2, <1>3

LEMMA LoopRunWithSignalSignal ==
  ASSUME TypeOK, SignalInv, LoopRunWithSignal
  PROVE  SignalInv'
  <1>1. PICK new \in Fd : /\ sd' = new /\ fds[new] = "free"
                          /\ \A fd \in Fd : fds'[fd] = IF fd = new THEN "signalfd" ELSE fds[fd]
    BY OpensLemma DEF LoopRunWithSignal, TypeOK, Kind
  <1>2. data' = "held" /\ handler' = TRUE /\ inside' = TRUE /\ data = "none"
    BY DEF LoopRunWithSignal
  <1>3. new # NONE
    BY SlotLemma
  <1>4. Of(fds', "signalfd") = {new}
    BY <1>1, <1>2 DEF SignalInv, DataOnce, Of
  <1> QED
    BY <1>1, <1>2, <1>3, <1>4 DEF SignalInv, ChannelOpen, ChannelHandled, DataOnce

LEMMA SetupFailsSignal ==
  ASSUME TypeOK, SignalInv, SetupFails
  PROVE  SignalInv'
  <1>1. data = "none" /\ data' = "released" /\ UNCHANGED <<sd, handler>>
    BY DEF SetupFails
  <1>2. ~handler /\ sd = NONE
    BY <1>1 DEF SignalInv, DataOnce
  <1> QED
    BY <1>1, <1>2 DEF SignalInv, ChannelOpen, ChannelHandled, DataOnce

\* The read fails: the data, held until now, goes, and the handler with it.
LEMMA ReadFailsSignal ==
  ASSUME TypeOK, SignalInv, SignalReadFails
  PROVE  SignalInv'
  <1>1. handler' = FALSE /\ data' = "released" /\ UNCHANGED <<sd, fds, inside>>
    BY DEF SignalReadFails, Freed, loop
  <1> QED
    BY <1>1 DEF SignalInv, ChannelOpen, ChannelHandled, DataOnce

\* An event of a descriptor that is a signalfd is of the channel, whose handler
\* has its data.
LEMMA EventHeld ==
  ASSUME TypeOK, SignalInv, NEW fd \in Fd, SignalEvent(fd)
  PROVE  data = "held"
  <1>1. handler /\ fds[fd] = "signalfd"
    BY DEF SignalEvent
  <1>2. sd = fd /\ sd # NONE
    BY <1>1, SlotLemma DEF SignalInv, ChannelHandled, Of
  <1> QED
    BY <1>1, <1>2 DEF SignalInv, ChannelOpen

\* The data is lost only with the table's entry of the channel.
LEMMA ReturnSignal ==
  ASSUME TypeOK, TableExact, Registered, SignalInv, LoopRunReturns
  PROVE  SignalInv'
  <1>1. /\ Remove(sd) /\ sd' = NONE /\ handler' = FALSE /\ UNCHANGED mishap /\ Running
        /\ IF handler /\ Gone(sd) # {} THEN Freed ELSE UNCHANGED data
        /\ fds' = Closed(fds, Gone(sd))
    BY DEF LoopRunReturns, Return, Idle
  <1>2. (holed => holed') /\ (Running' => ~SearchFaults(sd))
    BY <1>1, RemoveLemma DEF Running
  <1>3. CASE handler /\ Gone(sd) # {}
    <2>1. sd # NONE
      BY <1>3, GoneLemma, SlotLemma
    <2>2. data = "held" /\ data' = "released"
      BY <1>1, <1>3, <2>1 DEF SignalInv, ChannelOpen, Freed
    <2> QED
      BY <1>1, <2>2 DEF SignalInv, ChannelOpen, ChannelHandled, DataOnce
  <1>4. CASE ~ (handler /\ Gone(sd) # {})
    <2>1. data' = data
      BY <1>1, <1>4
    <2>2. data = "held" /\ Running' => holed' \/ mishap' = "signal"
      <3> SUFFICES ASSUME data = "held", Running', ~holed, mishap # "signal"
                   PROVE  FALSE
        BY <1>1, <1>2
      <3>1. handler /\ sd # NONE
        BY <1>1 DEF SignalInv, DataOnce
      <3>2. sd \in Fd /\ fds[sd] = "signalfd"
        BY <3>1 DEF SignalInv, ChannelOpen, TypeOK
      <3>3. sd \in Listed
        BY <3>2 DEF Registered, RegisteredIn, TableExact, Of
      <3>4. Gone(sd) = {sd}
        BY <1>2, <3>3 DEF Gone
      <3> QED
        BY <1>4, <3>1, <3>4
    <2>3. data = "none" => Of(fds', "signalfd") = {}
      <3>1. \A fd \in Fd : fds'[fd] = "signalfd" => fds[fd] = "signalfd"
        BY <1>1, ClosedLemma DEF TypeOK
      <3> QED
        BY <3>1 DEF SignalInv, DataOnce, Of
    <2> QED
      BY <1>1, <2>1, <2>2, <2>3 DEF SignalInv, ChannelOpen, ChannelHandled, DataOnce
  <1> QED
    BY <1>3, <1>4

LEMMA SignalStep ==
  ASSUME IInv, [Next]_vars
  PROVE  SignalInv'
  <1>1. /\ TypeOK /\ TableExact /\ Registered /\ TornDown /\ SentinelsUnused /\ SignalInv
        /\ fds \in [Fd -> Kind]
    BY DEF IInv, SignalInv, TypeOK
  <1> USE DEF signalVars
  <1>2. ChannelKept => SignalInv'
    BY <1>1, KeptSignal
  <1>3. CASE OpenProgram /\ UNCHANGED signalVars
    <2>1. ChannelKept
      BY <1>1, <1>3, OpensSpares DEF OpenProgram, UserCode, ChannelKept, entries, loop, Kind
    <2> QED
      BY <1>2, <2>1
  <1>4. CASE (UserReturns \/ Raise \/ CleanupDead) /\ UNCHANGED <<sd, handler, data>>
    <2>1. ChannelKept
      BY <1>4 DEF UserReturns, Raise, CleanupDead, CallAt, ChannelKept, process, entries, loop
    <2> QED
      BY <1>2, <2>1
  <1>5. ASSUME NEW fd \in Fd, CloseProgram(fd) \/ AddProgram(fd) \/ RemoveProgram(fd), UNCHANGED signalVars
        PROVE  SignalInv'
    <2>1. CASE CloseProgram(fd)
      <3>1. ChannelKept
        BY <1>1, <1>5, <2>1 DEF CloseProgram, UserCode, ChannelKept, entries, loop
      <3> QED
        BY <1>2, <3>1
    <2>2. CASE AddProgram(fd)
      <3>1. ChannelKept
        BY <1>5, <2>2 DEF AddProgram, UserCode, ChannelKept, loop
      <3> QED
        BY <1>2, <3>1
    <2>3. CASE RemoveProgram(fd)
      <3>1. ChannelKept
        BY <1>1, <1>5, <2>3, RemoveLemma DEF RemoveProgram, UserCode, ChannelKept, loop
      <3> QED
        BY <1>2, <3>1
    <2> QED
      BY <1>5, <2>1, <2>2, <2>3
  <1>6. CASE LoopInit /\ UNCHANGED signalVars
    <2> DEFINE opened == Opens(fds, "epoll")
               socket == Opens(opened, "socket")
               Same(files) == \A fd \in Fd : fds[fd] = "signalfd" \/ files[fd] = "signalfd" => files[fd] = fds[fd]
    <2>1. UNCHANGED <<sd, handler, data, inside, holed>> /\ Running
      BY <1>6 DEF LoopInit, loop, UserCode
    <2>2. mishap = "signal" => mishap' = "signal"
      BY <1>6 DEF LoopInit, Adds, Happens
    <2>3. opened \in [Fd -> Kind] /\ Same(opened)
      BY <1>1, <1>6, OpensLemma DEF LoopInit, Kind
    <2> HIDE DEF opened
    <2>4. Room(opened) => socket \in [Fd -> Kind] /\ Same(socket)
      <3> SUFFICES ASSUME Room(opened) PROVE socket \in [Fd -> Kind] /\ Same(socket)
        OBVIOUS
      <3>1. /\ \A fd \in Fd : socket[fd] = IF fd = Lowest(opened) THEN "socket" ELSE opened[fd]
            /\ socket \in [Fd -> Kind] /\ Lowest(opened) \in Fd /\ opened[Lowest(opened)] = "free"
        BY <2>3, OpensLemma DEF Kind
      <3> QED
        BY <2>3, <3>1
    <2> HIDE DEF socket
    <2>5. ASSUME Room(opened), NEW added \in Added(socket, "watchdog"), Adds(added)
          PROVE  Same(fds')
      <3>1. "watchdog" \in Kind /\ socket \in [Fd -> Kind] /\ Same(socket) /\ fds' = added.fds
        BY <2>4, <2>5 DEF Adds, Kind
      <3>2. CASE fds' = socket
        BY <3>1, <3>2
      <3>3. CASE Room(socket) /\ fds' = Opens(socket, "watchdog")
        <4>1. /\ \A fd \in Fd : fds'[fd] = IF fd = Lowest(socket) THEN "watchdog" ELSE socket[fd]
              /\ Lowest(socket) \in Fd /\ socket[Lowest(socket)] = "free"
          BY <3>1, <3>3, OpensLemma
        <4> QED
          BY <3>1, <4>1
      <3> QED
        BY <2>5, <3>1, <3>2, <3>3, AddedLemma
    <2>6. Same(fds')
      BY <1>6, <2>3, <2>4, <2>5 DEF LoopInit, opened, socket
    <2>7. ChannelKept
      BY <2>1, <2>2, <2>6 DEF ChannelKept
    <2> QED
      BY <1>2, <2>7
  <1>7. CASE WatchdogAdd /\ UNCHANGED signalVars
    <2>1. PICK added \in Added(fds, "timer") : Adds(added)
      BY <1>7 DEF WatchdogAdd
    <2>2. \A fd \in Fd : fds'[fd] = fds[fd] \/ (fds[fd] = "free" /\ fds'[fd] = "timer")
      BY <1>1, <2>1, AddedLemma, OpensSpares DEF Adds, Kind
    <2>3. ChannelKept
      BY <1>7, <2>1, <2>2 DEF WatchdogAdd, Adds, Happens, UserCode, ChannelKept, loop
    <2> QED
      BY <1>2, <2>3
  <1>8. CASE (Quit \/ ExitLoop) /\ UNCHANGED signalVars
    <2>1. ChannelKept
      BY <1>8 DEF Quit, ExitLoop, StartCleanup, ChannelKept, entries
    <2> QED
      BY <1>2, <2>1
  <1>9. ASSUME NEW id \in Fd, RemoveWatchdog(id) PROVE SignalInv'
    <2>1. /\ Remove(id) /\ fds' = Closed(fds, Gone(id)) /\ ChannelForgotten(Gone(id)) /\ Running
          /\ UNCHANGED <<handler, inside, mishap>>
      BY <1>9 DEF RemoveWatchdog, WatchdogRemove, UserCode, loop
    <2>2. Gone(id) \in SUBSET Fd /\ (holed => holed')
      BY <1>1, <2>1, GoneLemma, RemoveLemma
    <2> QED
      BY <1>1, <2>1, <2>2, ForgottenSignal
  <1>10. CASE CleanupEntry
    <2>1. PICK fd \in Fd : fds' = Closed(fds, {fd}) /\ ChannelForgotten({fd})
                           /\ UNCHANGED <<handler, inside, mishap, holed, fault>>
      BY <1>10 DEF CleanupEntry, loop
    <2>2. {fd} \in SUBSET Fd /\ (~Running => ~Running')
      BY <2>1 DEF Running
    <2> QED
      BY <1>1, <2>1, <2>2, ForgottenSignal
  <1>11. ASSUME NEW ready, Wait(ready), UNCHANGED signalVars PROVE SignalInv'
    <2>1. ChannelKept
      BY <1>11 DEF Wait, Idle, ChannelKept
    <2> QED
      BY <1>2, <2>1
  <1>12. ASSUME NEW fd \in Fd, DispatchDropped(fd) \/ DispatchProgram(fd), UNCHANGED signalVars
         PROVE  SignalInv'
    <2>1. ChannelKept
      BY <1>12 DEF DispatchDropped, DispatchProgram, Idle, ChannelKept, entries, loop
    <2> QED
      BY <1>2, <2>1
  <1>13. ASSUME NEW fd \in Fd, WatchdogFires(fd), UNCHANGED signalVars PROVE SignalInv'
    <2>1. /\ Remove(fd) /\ UNCHANGED <<mishap, inside>> /\ fds[fd] \in Timers /\ Running
          /\ fds' = [Closed(fds, Gone(fd)) EXCEPT ![fd] = IF @ = "free" THEN @ ELSE "spent"]
      BY <1>13 DEF WatchdogFires, Idle
    <2>2. /\ Closed(fds, Gone(fd)) \in [Fd -> Kind]
          /\ \A other \in Fd : other \notin Gone(fd) => Closed(fds, Gone(fd))[other] = fds[other]
      BY <1>1, ClosedLemma
    <2>3. Gone(fd) \subseteq {fd}
      BY DEF Gone
    <2>4. \A other \in Fd : other # fd => fds'[other] = fds[other]
      BY <2>1, <2>2, <2>3
    <2>5. fds'[fd] \in {"free", "spent"}
      BY <2>1, <2>2
    <2>6. ChannelKept
      BY <1>1, <1>13, <2>1, <2>4, <2>5, RemoveLemma DEF ChannelKept, Timers
    <2> QED
      BY <1>2, <2>6
  <1>14. ASSUME NEW fd \in Fd, SignalEvent(fd) \/ SignalIgnored(fd) PROVE SignalInv'
    <2>1. ChannelKept
      BY <1>14 DEF SignalEvent, SignalIgnored, Idle, ChannelKept, entries, loop
    <2> QED
      BY <1>2, <2>1
  <1>24. CASE SignalRead \/ SignalFunction \/ SignalDataGone
    <2>1. ChannelKept
      BY <1>24 DEF SignalRead, Reads, SignalFunction, SignalDataGone, CallAt, ChannelKept, entries, loop
    <2> QED
      BY <1>2, <2>1
  <1>15. CASE SignalReadFails
    BY <1>1, <1>15, ReadFailsSignal
  <1>16. CASE LoopRunReturns
    BY <1>1, <1>16, ReturnSignal
  <1>17. CASE TearDown /\ UNCHANGED signalVars
    <2>1. ChannelKept
      BY <1>17 DEF TearDown, CallAt, ChannelKept, loop
    <2> QED
      BY <1>2, <2>1
  <1>18. CASE WatchdogExit /\ UNCHANGED signalVars
    <2>1. UNCHANGED <<sd, handler, data, inside>>
      BY <1>18 DEF WatchdogExit, Exit, loop
    <2>2. UNCHANGED <<holed, mishap, fault>>
      BY <1>1, <1>18, ExitEffect
    <2>3. \A fd \in Fd : fds'[fd] = fds[fd] \/ (fds[fd] = "socket" /\ fds'[fd] = "free")
      <3>1. /\ \A fd \in Fd : fds'[fd] = IF fd = notify THEN "free" ELSE fds[fd]
            /\ notify # NONE => fds[notify] = "socket"
        BY <1>1, <1>18, ExitEffect
      <3>2. NONE \notin Fd
        BY SlotLemma
      <3> QED
        BY <3>1, <3>2
    <2>4. ChannelKept
      BY <2>1, <2>2, <2>3 DEF ChannelKept, Running
    <2> QED
      BY <1>2, <2>4
  <1>19. CASE UNCHANGED vars
    <2>1. ChannelKept
      BY <1>19 DEF vars, process, entries, loop, ChannelKept, Running
    <2> QED
      BY <1>2, <2>1
  <1>20. CASE Program
    BY <1>1, <1>3, <1>4, <1>5, <1>6, <1>7, <1>8, <1>9, <1>20, SetupFailsSignal,
       LoopRunWithSignalSignal DEF Program
  <1>21. CASE LoopRun
    BY <1>11, <1>12, <1>13, <1>14, <1>15, <1>16, <1>21, <1>24 DEF LoopRun
  <1>22. CASE Cleanup
    BY <1>4, <1>10, <1>17, <1>18, <1>22 DEF Cleanup
  <1>23. Raise => UNCHANGED <<sd, handler, data>>
    BY DEF Raise
  <1> QED
    BY <1>4, <1>19, <1>20, <1>21, <1>22, <1>23 DEF Next, Halted

-----------------------------------------------------------------------------
(***************************************************************************)
(* The calls of signal_read.                                               *)
(***************************************************************************)
\* What interrupts signal_read is a clean-up.
LEMMA ReadingQuits ==
  ASSUME TypeOK, ReadsFirst, Announced, Reading
  PROVE  /\ UserCode \/ CallAt("cleanup") \/ CallAt("torn") => terminate
         /\ calls # <<>> /\ ~Idle
  <1>1. PICK k \in DOMAIN calls : calls[k] \in {"read", "deliver"}
    BY DEF Reading
  <1>2. calls # <<>> /\ k = 1 /\ (Len(calls) > 1 => terminate)
    BY <1>1 DEF ReadsFirst
  <1>3. Innermost = "user" => Len(calls) > 1
    BY <1>1, <1>2, InnermostLemma
  <1>4. CallAt("cleanup") \/ CallAt("torn") => terminate
    BY <1>2, InnermostLemma DEF Announced, CallAt
  <1> QED
    BY <1>2, <1>3, <1>4 DEF UserCode, Idle

\* Steps that call nothing but code of the program or a clean-up, and take the
\* data from signal_read only in a clean-up.
QuietStep ==
  /\ \/ UNCHANGED calls
     \/ calls # <<>> /\ Pop
     \/ \E call \in {"user", "cleanup"} : Push(call) /\ (Reading => terminate')
  /\ terminate => terminate'
  /\ Reading => \/ UNCHANGED <<sd, data>>
                \/ terminate /\ sd' = NONE /\ data' \in {"held", "released"}

LEMMA QuietReads ==
  ASSUME TypeOK, ReadsFirst, QuietStep
  PROVE  ReadsFirst'
  <1> SUFFICES ASSUME NEW k \in DOMAIN calls', calls'[k] \in {"read", "deliver"}
               PROVE  /\ k = 1
                      /\ Len(calls') > 1 => terminate'
                      /\ data' # "held" => terminate' /\ sd' = NONE /\ data' = "released"
    BY DEF ReadsFirst
  <1>1. /\ k \in DOMAIN calls /\ calls[k] \in {"read", "deliver"}
        /\ Len(calls') <= Len(calls) \/ terminate'
    <2>1. CASE UNCHANGED calls
      BY <2>1 DEF TypeOK
    <2>2. CASE calls # <<>> /\ Pop
      BY <2>2, PopLemma DEF TypeOK
    <2>3. ASSUME NEW call \in {"user", "cleanup"}, Push(call), Reading => terminate'
          PROVE  <1>1!1 /\ <1>1!2 /\ terminate'
      <3>1. /\ calls' \in Seq(Call) /\ Len(calls') = Len(calls) + 1 /\ calls'[Len(calls')] = call
            /\ \A i \in DOMAIN calls : calls'[i] = calls[i]
        BY <2>3, PushLemma DEF Call
      <3>2. k # Len(calls')
        BY <3>1
      <3>3. k \in DOMAIN calls
        BY <3>1, <3>2 DEF TypeOK
      <3> QED
        BY <2>3, <3>1, <3>3 DEF Reading
    <2> QED
      BY <2>1, <2>2, <2>3 DEF QuietStep
  <1>2. k = 1 /\ (Len(calls) > 1 => terminate)
        /\ (data # "held" => terminate /\ sd = NONE /\ data = "released")
    BY <1>1 DEF ReadsFirst
  <1>3. Len(calls') > 1 => terminate'
    <2>1. Len(calls) \in Nat /\ Len(calls') \in Nat
      BY PopLemma, PushLemma DEF QuietStep, TypeOK, Call
    <2> QED
      BY <1>1, <1>2, <2>1 DEF QuietStep
  <1>4. Reading
    BY <1>1 DEF Reading
  <1> QED
    BY <1>2, <1>3, <1>4 DEF QuietStep

\* The clean-up, and the program in it, may take the channel.
LEMMA ForgottenQuiet ==
  ASSUME TypeOK, ReadsFirst, Reading, terminate, NEW gone \in SUBSET Fd, ChannelForgotten(gone)
  PROVE  UNCHANGED <<sd, data>> \/ (terminate /\ sd' = NONE /\ data' \in {"held", "released"})
  <1>1. data # "held" => sd = NONE
    BY DEF ReadsFirst, Reading
  <1> QED
    BY <1>1, SlotLemma DEF ChannelForgotten, Freed

LEMMA ReadsStep ==
  ASSUME IInv, [Next]_vars
  PROVE  ReadsFirst'
  <1>1. TypeOK /\ ReadsFirst /\ Announced /\ SignalInv
    BY DEF IInv, SignalInv
  <1>2. QuietStep => ReadsFirst'
    BY <1>1, QuietReads
  <1>3. calls' = <<>> => ReadsFirst'
    BY DEF ReadsFirst
  <1>4. /\ Reading => calls # <<>> /\ ~Idle
        /\ Reading /\ (UserCode \/ CallAt("cleanup") \/ CallAt("torn")) => terminate
    BY <1>1, ReadingQuits
  <1> USE DEF signalVars
  <1>5. CASE (Quit \/ ExitLoop) /\ UNCHANGED signalVars
    <2>1. QuietStep
      BY <1>5 DEF Quit, ExitLoop, StartCleanup, QuietStep
    <2> QED
      BY <1>2, <2>1
  <1>6. CASE (LoopInit \/ WatchdogAdd \/ OpenProgram \/ UserReturns) /\ UNCHANGED signalVars
    <2>1. QuietStep
      BY <1>6 DEF LoopInit, WatchdogAdd, OpenProgram, UserReturns, loop, QuietStep
    <2> QED
      BY <1>2, <2>1
  <1>7. ASSUME NEW fd \in Fd, CloseProgram(fd) \/ AddProgram(fd) \/ RemoveProgram(fd), UNCHANGED signalVars
        PROVE  ReadsFirst'
    <2>1. UserCode /\ UNCHANGED terminate /\ (UNCHANGED calls \/ Push("user"))
      BY <1>7 DEF CloseProgram, AddProgram, RemoveProgram, loop
    <2>2. QuietStep
      BY <1>4, <1>7, <2>1 DEF QuietStep
    <2> QED
      BY <1>2, <2>2
  <1>8. ASSUME NEW id \in Fd, RemoveWatchdog(id) PROVE ReadsFirst'
    <2>1. /\ UserCode /\ UNCHANGED terminate /\ (UNCHANGED calls \/ Push("user"))
          /\ ChannelForgotten(Gone(id))
      BY <1>8 DEF RemoveWatchdog, WatchdogRemove, loop
    <2>2. Gone(id) \in SUBSET Fd
      BY <1>1, GoneLemma
    <2>3. Reading => \/ UNCHANGED <<sd, data>>
                     \/ terminate /\ sd' = NONE /\ data' \in {"held", "released"}
      BY <1>1, <1>4, <2>1, <2>2, ForgottenQuiet
    <2>4. QuietStep
      BY <1>4, <2>1, <2>3 DEF QuietStep
    <2> QED
      BY <1>2, <2>4
  <1>9. CASE SetupFails \/ LoopRunWithSignal \/ LoopRunReturns
    BY <1>3, <1>9 DEF SetupFails, LoopRunWithSignal, LoopRunReturns, Return, Idle
  <1>10. ASSUME NEW ready, Wait(ready) PROVE ReadsFirst'
    BY <1>3, <1>10 DEF Wait, Idle
  <1>11. ASSUME NEW fd \in Fd, \/ DispatchDropped(fd) \/ WatchdogFires(fd) \/ SignalIgnored(fd)
         PROVE  ReadsFirst'
    BY <1>3, <1>11 DEF DispatchDropped, WatchdogFires, SignalIgnored, Idle
  <1>12. ASSUME NEW fd \in Fd, DispatchProgram(fd) PROVE ReadsFirst'
    <2>1. calls' = <<"user">>
      BY <1>12 DEF DispatchProgram, Idle, Push
    <2> QED
      BY <2>1 DEF ReadsFirst
  <1>13. ASSUME NEW fd \in Fd, SignalEvent(fd) PROVE ReadsFirst'
    <2>1. calls' = <<"read">> /\ UNCHANGED data
      BY <1>13 DEF SignalEvent, Idle, Push
    <2>2. data = "held"
      BY <1>1, <1>13, EventHeld
    <2> QED
      BY <2>1, <2>2 DEF ReadsFirst
  <1>14. CASE SignalRead \/ SignalFunction
    <2>1. /\ CallAt("read") \/ CallAt("deliver")
          /\ Becomes("deliver") \/ Becomes("user")
          /\ UNCHANGED <<terminate, sd, data>>
      BY <1>14 DEF SignalRead, Reads, SignalFunction, loop
    <2>2. /\ calls # <<>> /\ Len(calls) = 1 /\ DOMAIN calls = {1}
          /\ data # "held" => terminate /\ sd = NONE /\ data = "released"
      BY <1>1, <2>1, ReadAlone
    <2>3. DOMAIN calls' = {1} /\ Len(calls') = 1
      BY <1>1, <2>1, <2>2, BecomesLemma DEF Call
    <2> QED
      BY <2>1, <2>2, <2>3 DEF ReadsFirst
  <1>15. CASE SignalReadFails
    <2>1. Len(calls) = 1 /\ calls # <<>> /\ Pop
      BY <1>1, <1>15, ReadAlone DEF SignalReadFails
    <2>2. calls' = <<>>
      BY <1>1, <2>1, PopLemma
    <2> QED
      BY <1>3, <2>2
  <1>16. CASE SignalDataGone \/ (CleanupDead /\ UNCHANGED signalVars)
    <2>1. QuietStep
      BY <1>16 DEF SignalDataGone, CleanupDead, loop, QuietStep
    <2> QED
      BY <1>2, <2>1
  <1>17. CASE CleanupEntry
    <2>1. PICK fd \in Fd :
            /\ CallAt("cleanup") /\ ChannelForgotten({fd}) /\ UNCHANGED terminate
            /\ UNCHANGED calls \/ Push("user")
      BY <1>17 DEF CleanupEntry, loop
    <2>2. Reading => \/ UNCHANGED <<sd, data>>
                     \/ terminate /\ sd' = NONE /\ data' \in {"held", "released"}
      BY <1>1, <1>4, <2>1, ForgottenQuiet
    <2>3. QuietStep
      BY <1>4, <2>1, <2>2 DEF QuietStep
    <2> QED
      BY <1>2, <2>3
  <1>18. CASE TearDown /\ UNCHANGED signalVars
    <2>1. /\ DOMAIN calls' = DOMAIN calls /\ Len(calls') = Len(calls)
          /\ \A k \in DOMAIN calls : calls'[k] = IF k = Len(calls) THEN "torn" ELSE calls[k]
      BY <1>1, <1>18, BecomesLemma DEF TearDown, CallAt, Call
    <2> QED
      BY <1>1, <1>18, <2>1 DEF TearDown, loop, ReadsFirst
  <1>19. CASE WatchdogExit /\ UNCHANGED signalVars
    <2>1. QuietStep
      BY <1>19 DEF WatchdogExit, Exit, CallAt, loop, QuietStep
    <2> QED
      BY <1>2, <2>1
  <1>20. CASE Raise \/ UNCHANGED vars
    <2>1. QuietStep
      BY <1>20 DEF Raise, vars, process, loop, QuietStep
    <2> QED
      BY <1>2, <2>1
  <1>21. CASE Program
    BY <1>5, <1>6, <1>7, <1>8, <1>9, <1>21 DEF Program
  <1>22. CASE LoopRun
    BY <1>9, <1>10, <1>11, <1>12, <1>13, <1>14, <1>15, <1>16, <1>22 DEF LoopRun
  <1>23. CASE Cleanup
    BY <1>16, <1>17, <1>18, <1>19, <1>23 DEF Cleanup
  <1> QED
    BY <1>20, <1>21, <1>22, <1>23 DEF Next, Halted

\* The data is missed by signal_read only.
LEMMA FaultKinds ==
  ASSUME TypeOK, [Next]_vars
  PROVE  fault' # "data" \/ SignalDataGone \/ UNCHANGED vars
  <1>1. Running => fault = "none"
    BY DEF Running
  <1>2. ASSUME NEW fd, Remove(fd), Running PROVE fault' # "data"
    BY <1>1, <1>2, RemoveLemma
  <1>3. CASE Program
    <2>1. CASE OpenProgram \/ UserReturns \/ SetupFails \/ LoopRunWithSignal
      BY <1>1, <2>1 DEF OpenProgram, UserReturns, SetupFails, LoopRunWithSignal, UserCode
    <2>2. ASSUME NEW fd \in Fd, CloseProgram(fd) \/ AddProgram(fd) \/ RemoveProgram(fd)
          PROVE  fault' # "data"
      BY <1>1, <1>2, <2>2 DEF CloseProgram, AddProgram, RemoveProgram, UserCode
    <2>3. CASE LoopInit \/ WatchdogAdd \/ Quit \/ ExitLoop
      BY <1>1, <2>3 DEF LoopInit, WatchdogAdd, Quit, ExitLoop, StartCleanup, UserCode
    <2>4. ASSUME NEW id \in Fd, RemoveWatchdog(id) PROVE fault' # "data"
      BY <1>2, <2>4 DEF RemoveWatchdog, WatchdogRemove, UserCode
    <2> QED
      BY <1>3, <2>1, <2>2, <2>3, <2>4 DEF Program
  <1>4. CASE LoopRun
    <2>1. ASSUME NEW ready, Wait(ready) PROVE fault' # "data"
      BY <1>1, <2>1 DEF Wait, Idle
    <2>2. ASSUME NEW fd \in Fd, \/ DispatchDropped(fd) \/ DispatchProgram(fd) \/ WatchdogFires(fd)
                                \/ SignalEvent(fd) \/ SignalIgnored(fd)
          PROVE  fault' # "data"
      BY <1>1, <1>2, <2>2 DEF DispatchDropped, DispatchProgram, WatchdogFires, SignalEvent,
                              SignalIgnored, Idle
    <2>3. CASE SignalRead \/ SignalFunction \/ SignalReadFails \/ LoopRunReturns
      BY <1>1, <1>2, <2>3 DEF SignalRead, Reads, SignalFunction, SignalReadFails, CallAt,
                              LoopRunReturns, Return, Idle
    <2> QED
      BY <1>4, <2>1, <2>2, <2>3 DEF LoopRun
  <1>5. CASE Cleanup
    BY <1>1, <1>2, <1>5 DEF Cleanup, CleanupEntry, CleanupDead, TearDown, WatchdogExit, Exit, CallAt
  <1>6. CASE Raise
    BY <1>1, <1>6 DEF Raise, process
  <1> QED
    BY <1>3, <1>4, <1>5, <1>6 DEF Next, Halted

LEMMA DataFaultStep ==
  ASSUME IInv, [Next]_vars
  PROVE  DataFault'
  <1>1. TypeOK /\ ReadsFirst /\ DataFault
    BY DEF IInv
  <1>2. CASE fault' # "data"
    BY <1>2 DEF DataFault
  <1>3. CASE SignalDataGone
    <2>1. /\ CallAt("read") \/ CallAt("deliver")
          /\ data # "held" /\ UNCHANGED <<calls, terminate, sd, data>>
      BY <1>3 DEF SignalDataGone, loop, signalVars
    <2>2. terminate /\ sd = NONE /\ data = "released"
      BY <1>1, <2>1, ReadAlone
    <2> QED
      BY <2>1, <2>2 DEF DataFault, Overtaken, CallAt, Innermost
  <1>4. CASE UNCHANGED vars
    BY <1>1, <1>4 DEF vars, process, loop, signalVars, DataFault, Overtaken, Innermost
  <1> QED
    BY <1>1, <1>2, <1>3, <1>4, FaultKinds

-----------------------------------------------------------------------------
(***************************************************************************)
(* The invariant, and what it is for.                                      *)
(***************************************************************************)
LEMMA InvInit == Init => IInv
  <1> SUFFICES ASSUME Init PROVE IInv
    OBVIOUS
  <1>1. /\ \A fd \in Fd : fds[fd] \in {"free", "program"}
        /\ watched = {} /\ table = <<>> /\ calls = <<>> /\ notify = NONE
        /\ sd = NONE /\ handler = FALSE /\ data = "none"
    BY DEF Init, ProcessInit, WatchdogVarsInit, SignalVarsInit
  <1>2. \A kind : kind \notin {"free", "program"} => Of(fds, kind) = {}
    BY <1>1 DEF Of
  <1>3. TableExact
    BY <1>1 DEF TableExact, Listed
  <1>4. Registered
    BY <1>1, <1>2 DEF Registered, RegisteredIn
  <1>5. Announced /\ TornDown
    BY <1>1 DEF Announced, TornDown
  <1>6. SentinelsUnused /\ SocketOwned /\ NoWatchdogYet
    BY <1>1, <1>2 DEF SentinelsUnused, SocketOwned, NoWatchdogYet
  <1>7. ChannelOpen /\ ChannelHandled /\ DataOnce
    BY <1>1, <1>2 DEF ChannelOpen, ChannelHandled, DataOnce
  <1>8. ReadsFirst /\ DataFault
    BY <1>1 DEF Init, ProcessInit, ReadsFirst, DataFault
  <1> QED
    BY <1>3, <1>4, <1>5, <1>6, <1>7, <1>8, TypeInit DEF IInv

LEMMA InvStep == IInv /\ [Next]_vars => IInv'
  <1> SUFFICES ASSUME IInv, [Next]_vars PROVE IInv'
    OBVIOUS
  <1>1. TypeOK'
    BY TypeStep DEF IInv
  <1> QED
    BY <1>1, RegisteredStep, CleanupStep, SocketStep, SignalStep, ReadsStep, DataFaultStep
       DEF IInv, SocketInv, SignalInv

(***************************************************************************)
(* The table, the registrations, the socket and the data of the signal     *)
(* handler agree in every state: the invariant is inductive.               *)
(***************************************************************************)
THEOREM Invariance == Spec => []IInv
  BY InvInit, InvStep, PTL DEF Spec

(***************************************************************************)
(* No use of 0 or -1 for "no descriptor" is mistaken: the socket and the   *)
(* watchdog timer are open under the names the library keeps of them.      *)
(***************************************************************************)
THEOREM SentinelsAreUnused == Spec => []SentinelsUnused
  <1>1. IInv => SentinelsUnused
    BY DEF IInv
  <1> QED
    BY <1>1, Invariance, PTL

(***************************************************************************)
(* After loop_cleanup and loop_run have returned the library holds nothing *)
(* open but what the table has lost or a failure hid from it.              *)
(***************************************************************************)
THEOREM NothingIsLeftOpen == Spec => []NothingLeftOpen
  <1>1. IInv => NothingLeftOpen
    <2> SUFFICES ASSUME IInv, Over
                 PROVE  /\ Of(fds, "epoll") \cup Of(fds, "socket") = {}
                        /\ Of(fds, "watchdog") \cup Of(fds, "timer") # {} => holed \/ mishap = "timer"
                        /\ Of(fds, "signalfd") # {} => holed \/ mishap = "signal"
      BY DEF NothingLeftOpen
    <2>1. calls = <<>> /\ ~Initialised(fds)
      BY DEF Over
    <2>2. Of(fds, "epoll") = {} /\ Of(fds, "socket") = {}
      BY <2>1 DEF IInv, SocketOwned, Initialised
    <2>3. watched = {}
      BY <2>1 DEF IInv, Registered, RegisteredIn
    <2> QED
      BY <2>2, <2>3 DEF IInv, Registered, RegisteredIn
  <1> QED
    BY <1>1, Invariance, PTL

(***************************************************************************)
(* The data of loop_run_with_signal is freed once, by whichever of its     *)
(* three owners comes first, and it is not used afterwards, unless a       *)
(* clean-up has interrupted signal_read before it was done with it.        *)
(***************************************************************************)
THEOREM SignalDataIsFreedOnce == Spec => []SignalDataFreedOnce
  <1>1. IInv => SignalDataFreedOnce
    BY DEF IInv, DataOnce, DataFault, SignalDataFreedOnce
  <1> QED
    BY <1>1, Invariance, PTL

(***************************************************************************)
(* watchdog_exit closes the socket and takes nothing from the loop,        *)
(* whatever the stale identifier of its watchdog stands for.               *)
(***************************************************************************)
THEOREM ExitTakesNothing == Spec => ExitRemovesNothing
  <1> DEFINE Act == Len(calls') < Len(calls) /\ Innermost \in {"cleanup", "torn"} =>
                      /\ UNCHANGED <<watched, table, fault>>
                      /\ \A fd \in Fd : fds'[fd] # fds[fd] => fds[fd] = "socket"
  <1>1. IInv /\ [Next]_vars => [Act]_vars
    <2> SUFFICES ASSUME IInv, [Next]_vars, Len(calls') < Len(calls),
                        Innermost \in {"cleanup", "torn"}
                 PROVE  /\ UNCHANGED <<watched, table, fault>>
                        /\ \A fd \in Fd : fds'[fd] # fds[fd] => fds[fd] = "socket"
      OBVIOUS
    <2>1. TypeOK /\ TornDown /\ SentinelsUnused
      BY DEF IInv
    <2>2. Len(calls) \in Nat
      BY <2>1 DEF TypeOK
    <2>3. CASE WatchdogExit
      <3>1. UNCHANGED <<watched, table, fault>>
        BY <2>1, <2>3, ExitEffect
      <3>2. /\ \A fd \in Fd : fds'[fd] = IF fd = notify THEN "free" ELSE fds[fd]
            /\ notify # NONE => fds[notify] = "socket"
        BY <2>1, <2>3, ExitEffect
      <3>3. NONE \notin Fd
        BY SlotLemma
      <3> QED
        BY <3>1, <3>2, <3>3
    <2>4. ~ UNCHANGED calls /\ ~ (\E call \in Call : Push(call)) /\ ~ UserReturns
      <3>1. ASSUME NEW call \in Call, Push(call) PROVE FALSE
        BY <2>1, <2>2, <3>1, PushLemma
      <3> QED
        BY <2>2, <3>1 DEF UserReturns
    <2>5. ~ TearDown
      BY <2>1, <2>2, BecomesLemma DEF TearDown, CallAt, Call
    <2>6. ~ Program
      BY <2>4 DEF Program, OpenProgram, CloseProgram, AddProgram, RemoveProgram, LoopInit, WatchdogAdd,
                  Quit, ExitLoop, StartCleanup, RemoveWatchdog, WatchdogRemove, SetupFails,
                  LoopRunWithSignal, Call
    <2>7. ~ LoopRun
      <3>1. ~ CallAt("read") /\ ~ CallAt("deliver")
        BY DEF CallAt
      <3> QED
        BY <2>4, <3>1 DEF LoopRun, Wait, DispatchDropped, DispatchProgram, WatchdogFires, SignalEvent,
                          SignalRead, Reads, SignalFunction, SignalReadFails, SignalDataGone,
                          SignalIgnored, LoopRunReturns, Return, Call
    <2>8. ~ CleanupEntry /\ ~ CleanupDead /\ ~ Raise /\ ~ UNCHANGED vars
      BY <2>4 DEF CleanupEntry, CleanupDead, Raise, vars, process, Call
    <2> QED
      BY <2>3, <2>5, <2>6, <2>7, <2>8 DEF Next, Cleanup, Halted
  <1> QED
    BY <1>1, Invariance, PTL DEF Spec, ExitRemovesNothing

=============================================================================
