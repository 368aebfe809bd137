-------------------------------- MODULE Loop --------------------------------
(***************************************************************************)
(* The event loop of src/src/common/loop.c: the table of registered        *)
(* descriptors, the epoll interest list it drives, loop_run with the batch *)
(* of events it dispatches, and the clean-up behind loop_quit.             *)
(*                                                                         *)
(* Library code and user code call each other: a callback or a destructor  *)
(* may call loop_add_sd, loop_modify_sd, loop_remove_sd or loop_quit, and  *)
(* a signal handler may call loop_quit.  The calls that have not returned  *)
(* are kept on a stack, so that a step of the model is the code between    *)
(* two points where user code can run.                                     *)
(*                                                                         *)
(* The first undefined behaviour (a freed entry or a NULL slot is read, an *)
(* entry is destroyed twice, a batch is longer than its array, a table was *)
(* not allocated) is recorded in "fault".  No step follows it: the         *)
(* properties speak of the execution up to that point, and say what it     *)
(* takes to get there.                                                     *)
(*                                                                         *)
(* A definition marked "mutant" is the one after it with a bug put in; the *)
(* specification does not use it.                                          *)
(***************************************************************************)
EXTENDS Integers, Sequences, FiniteSets

CONSTANTS
  Fd,              \* file descriptors the program registers
  Ptr,             \* addresses malloc returns for event_entry_t objects
  Mask,            \* epoll event masks
  NULL,            \* the null pointer
  Exits,           \* the functions that end the loop: quit, success, failure
  DestructorCalls, \* the loop functions called by the program's destructors
  ENTRY_CHANGE,    \* growth step of the table (4 in loop.c)
  MaxTop,          \* bound: table slots in use
  MaxDepth         \* bound: calls that have not returned

ASSUME EntryChangeAssumption == ENTRY_CHANGE \in Nat \ {0, 1}
ASSUME BoundsAssumption == MaxTop \in Nat /\ MaxDepth \in Nat
ASSUME CallsAssumption ==
  /\ DestructorCalls \subseteq {"add", "modify", "remove", "quit"}
  /\ Exits \subseteq {"quit", "success", "failure"} /\ "quit" \in Exits

Entry    == [sd : Fd, mask : Mask]      \* event_entry_t, what the loop reads of it
Interest == [ptr : Ptr, mask : Mask]    \* what the kernel keeps for a descriptor
Event    == [fd : Fd, ptr : Ptr]        \* an epoll_event in event_pool

ASSUME NullAssumption ==
  /\ NULL \notin Fd /\ NULL \notin Ptr /\ NULL \notin Mask
  /\ NULL \notin Entry /\ NULL \notin Interest

\* A call that has not returned.  "callback": user code called by loop_run with
\* the descriptor sd.  "remove": loop_remove_sd in the destructor of ptr.
\* "cleanup": loop_cleanup at slot i, in the destructor of ptr when ptr # NULL.
CallbackFrames == [fn : {"callback"}, sd : Fd, ptr : {NULL}, i : {0}, exit : {NULL}]
RemoveFrames   == [fn : {"remove"}, sd : {NULL}, ptr : Ptr, i : {0}, exit : {NULL}]
CleanupFrames  ==
  [fn : {"cleanup"}, sd : {NULL}, ptr : Ptr \cup {NULL}, i : Nat, exit : Exits]
Frame == CallbackFrames \cup RemoveFrames \cup CleanupFrames

CallbackFrame(sd)  == [fn |-> "callback", sd |-> sd, ptr |-> NULL, i |-> 0, exit |-> NULL]
RemoveFrame(p)     == [fn |-> "remove", sd |-> NULL, ptr |-> p, i |-> 0, exit |-> NULL]
CleanupFrame(exit) == [fn |-> "cleanup", sd |-> NULL, ptr |-> NULL, i |-> 0, exit |-> exit]

VARIABLES
  epfd,        \* the epoll descriptor is open
  terminate,   \* loop termination flag
  status,      \* exit status
  count,       \* allocated slots of the table (0: the table pointer is NULL)
  top,         \* slots in use
  entry,       \* the table: slot index |-> entry address or NULL
  heap,        \* what malloc handed out: address |-> entry, NULL when free
  watch,       \* the kernel's interest list: descriptor |-> registration
  run,         \* where the main program is with respect to loop_run
  pool,        \* length of event_pool
  batch,       \* events of the last epoll_wait still to be dispatched
  stack,       \* calls that have not returned, innermost last
  signalled,   \* the signal handler has called loop_quit
  fault,       \* the first undefined behaviour
  holed,       \* history: a slot other than the last one was removed
  dropped      \* history: descriptors unregistered since the last epoll_wait

control == <<terminate, status, signalled>>
storage == <<count, top, entry>>
kernel  == <<epfd, watch>>
running == <<run, pool, batch>>
history == <<holed, dropped>>
vars == <<control, storage, heap, kernel, running, stack, fault, history>>

-----------------------------------------------------------------------------
Live(p) == p # NULL /\ heap[p] # NULL
Watched == {fd \in Fd : watch[fd] # NULL}

Running == fault = "none"
Innermost == stack[Len(stack)]
Push(frame) == Len(stack) < MaxDepth /\ stack' = Append(stack, frame)
Pop == stack' = SubSeq(stack, 1, Len(stack) - 1)
Amend(frame) == stack' = [stack EXCEPT ![Len(stack)] = frame]

\* Nothing is pending, and the main program is at this point of loop_run.
Main(at) == Running /\ stack = <<>> /\ run = at

\* The innermost pending call is fn, and it is running code of this kind.
In(fn) == Running /\ stack # <<>> /\ Innermost.fn = fn
InDestructor == Running /\ stack # <<>> /\ Innermost.ptr # NULL
InCleanup == In("cleanup") /\ Innermost.ptr = NULL

\* User code is running and may call the loop function op.
Calls(op) ==
  Main("out") \/ In("callback") \/ (InDestructor /\ op \in DestructorCalls)

\* The destructor of p has been entered and has not returned.
Destroying(p) == \E k \in 1 .. Len(stack) : stack[k].ptr = p

Drop(fds) == dropped' = IF run = "dispatch" THEN dropped \cup fds ELSE {}

-----------------------------------------------------------------------------
Init ==
  /\ epfd = FALSE /\ watch = [fd \in Fd |-> NULL]
  /\ terminate = FALSE /\ status = "success" /\ signalled = FALSE
  /\ count = 0 /\ top = 0 /\ entry = [i \in 0 .. -1 |-> NULL]
  /\ heap = [p \in Ptr |-> NULL]
  /\ run = "out" /\ pool = 0 /\ batch = <<>>
  /\ stack = <<>>
  /\ fault = "none"
  /\ holed = FALSE /\ dropped = {}

(***************************************************************************)
(* loop_init: open epoll, then allocate the table.  The second step may    *)
(* fail and leaves the first one done; terminate and status keep their     *)
(* values.  A failing epoll_create1 changes nothing.  When a refused       *)
(* loop_add_sd came first, a failing malloc replaces the table it had      *)
(* allocated and leaves its count: the next loop_add_sd stores through     *)
(* NULL, which counts as undefined here already.                           *)
(***************************************************************************)
LoopInit ==
  /\ Main("out")
  /\ ~epfd
  /\ epfd' = TRUE
  /\ \/ /\ count' = ENTRY_CHANGE
        /\ entry' = [i \in 0 .. ENTRY_CHANGE - 1 |-> NULL]
        /\ UNCHANGED fault
     \/ /\ fault' = IF count = 0 THEN fault ELSE "unallocated"
        /\ UNCHANGED <<count, entry>>
  /\ UNCHANGED <<control, top, heap, watch, running, stack, history>>

(***************************************************************************)
(* loop_add_sd.  The table grows before anything else can fail and keeps   *)
(* its new size when something does.                                       *)
(***************************************************************************)
GrownCountOffByOne == IF count <= top THEN count + ENTRY_CHANGE ELSE count  \* mutant
GrownCount == IF count <= top + 1 THEN count + ENTRY_CHANGE ELSE count
GrownInPlace == [i \in 0 .. count - 1 |-> entry[i]]                         \* mutant
GrownUncopied ==                                                           \* mutant
  [i \in 0 .. GrownCount - 1 |-> IF GrownCount = count THEN entry[i] ELSE NULL]
Grown == [i \in 0 .. GrownCount - 1 |-> IF i < count THEN entry[i] ELSE NULL]

AddSdReusing(sd, mask) ==                                                  \* mutant
  /\ Calls("add")
  /\ top < MaxTop
  /\ epfd /\ watch[sd] = NULL
  /\ \E p \in Ptr, i \in 0 .. top :
       /\ heap[p] = NULL
       /\ Grown[i] = NULL /\ \A j \in 0 .. i - 1 : Grown[j] # NULL
       /\ heap' = [heap EXCEPT ![p] = [sd |-> sd, mask |-> mask]]
       /\ watch' = [watch EXCEPT ![sd] = [ptr |-> p, mask |-> mask]]
       /\ entry' = [Grown EXCEPT ![i] = p]
       /\ top' = IF i = top THEN top + 1 ELSE top
  /\ count' = GrownCount
  /\ UNCHANGED <<control, epfd, running, stack, fault, history>>

AddSd(sd, mask) ==
  /\ Calls("add")
  /\ top < MaxTop
  /\ epfd /\ watch[sd] = NULL
  /\ \E p \in Ptr :
       /\ heap[p] = NULL
       /\ heap' = [heap EXCEPT ![p] = [sd |-> sd, mask |-> mask]]
       /\ watch' = [watch EXCEPT ![sd] = [ptr |-> p, mask |-> mask]]
       /\ entry' = [Grown EXCEPT ![top] = p]
  /\ count' = GrownCount
  /\ top' = top + 1
  /\ UNCHANGED <<control, epfd, running, stack, fault, history>>

AddSdFailsLate ==                                                          \* mutant
  /\ Calls("add")
  /\ top < MaxTop
  /\ count' = GrownCount
  /\ entry' = Grown
  /\ top' = top + 1
  /\ UNCHANGED <<control, heap, kernel, running, stack, fault, history>>

\* No memory for the entry, or epoll_ctl refuses the descriptor: the entry is
\* freed again, the table stays grown.
AddSdFails ==
  /\ Calls("add")
  /\ count' = GrownCount
  /\ entry' = Grown
  /\ UNCHANGED <<control, top, heap, kernel, running, stack, fault, history>>

(***************************************************************************)
(* The search loop_modify_sd and loop_remove_sd share: slots are read from *)
(* the first on until one holds an entry for sd.                           *)
(***************************************************************************)
Passes(sd, i) == Live(entry[i]) /\ heap[entry[i]].sd # sd
Reaches(sd, i) == i \in 0 .. top - 1 /\ \A j \in 0 .. i - 1 : Passes(sd, j)
Found(sd, i) == Reaches(sd, i) /\ Live(entry[i]) /\ heap[entry[i]].sd = sd

\* The search reads a slot that holds NULL or the address of a freed entry.
SearchFaults(sd) ==
  /\ Calls("modify") \/ Calls("remove")
  /\ \E i \in 0 .. top - 1 :
       /\ Reaches(sd, i) /\ ~Live(entry[i])
       /\ fault' = IF entry[i] = NULL THEN "null" ELSE "stale"
  /\ UNCHANGED <<control, storage, heap, kernel, running, stack, history>>

\* loop_modify_sd: EPOLL_CTL_MOD on the descriptor with the entry found.
ModifySd(sd, mask) ==
  /\ Calls("modify")
  /\ watch[sd] # NULL
  /\ \E i \in 0 .. top - 1 :
       /\ Found(sd, i)
       /\ watch' = [watch EXCEPT ![sd] = [ptr |-> entry[i], mask |-> mask]]
       /\ heap' = [heap EXCEPT ![entry[i]].mask = mask]
  /\ UNCHANGED <<control, storage, epfd, running, stack, fault, history>>

(***************************************************************************)
(* loop_remove_sd, up to the call of the destructor.  The shift stops one  *)
(* slot early: slot top - 1 is cleared without having been copied down.    *)
(***************************************************************************)
Shifted(i) ==
  [k \in DOMAIN entry |->
     IF k = top - 1 THEN NULL
     ELSE IF i <= k /\ k + 2 < top THEN entry[k + 1]
     ELSE entry[k]]

RemoveSdRegistered(sd) ==                                                  \* mutant
  /\ Calls("remove")
  /\ \E i \in 0 .. top - 1 :
       /\ Found(sd, i) /\ ~Destroying(entry[i])
       /\ entry' = Shifted(i)
       /\ holed' = (holed \/ i # top - 1)
       /\ Push(RemoveFrame(entry[i]))
  /\ top' = top - 1
  /\ UNCHANGED <<control, count, heap, kernel, running, fault, dropped>>

RemoveSd(sd) ==
  /\ Calls("remove")
  /\ \E i \in 0 .. top - 1 :
       /\ Found(sd, i) /\ ~Destroying(entry[i])
       /\ entry' = Shifted(i)
       /\ holed' = (holed \/ i # top - 1)
       /\ Push(RemoveFrame(entry[i]))
  /\ top' = top - 1
  /\ watch' = [watch EXCEPT ![sd] = NULL]
  /\ Drop({sd})
  /\ UNCHANGED <<control, count, heap, epfd, running, fault>>

\* The entry found is one whose destructor is already running: it would run a
\* second time on the same user data.
RemoveTwice(sd) ==
  /\ Calls("remove")
  /\ \E i \in 0 .. top - 1 : Found(sd, i) /\ Destroying(entry[i])
  /\ fault' = "twice"
  /\ UNCHANGED <<control, storage, heap, kernel, running, stack, history>>

RemoveReturnsLeaking ==                                                    \* mutant
  /\ In("remove")
  /\ Pop
  /\ UNCHANGED <<control, storage, heap, kernel, running, fault, history>>

\* The destructor called by loop_remove_sd returns: the entry is freed.
RemoveReturns ==
  /\ In("remove")
  /\ heap' = [heap EXCEPT ![Innermost.ptr] = NULL]
  /\ Pop
  /\ UNCHANGED <<control, storage, kernel, running, fault, history>>

-----------------------------------------------------------------------------
(***************************************************************************)
(* loop_run.  event_pool is allocated once, with the size the table has    *)
(* then.                                                                   *)
(***************************************************************************)
RunStart ==
  /\ Main("out")
  /\ run' = "check"
  /\ pool' = count
  /\ UNCHANGED <<control, storage, heap, kernel, batch, stack, fault, history>>

\* epoll_wait returns at least one and at most top events, in any order.
Wait ==
  /\ Main("check") /\ ~terminate
  /\ \E n \in 1 .. top : \E fds \in [1 .. n -> Watched] :
       /\ \A j, k \in 1 .. n : fds[j] = fds[k] => j = k
       /\ \/ /\ n <= pool
             /\ batch' = [k \in 1 .. n |-> [fd |-> fds[k], ptr |-> watch[fds[k]].ptr]]
             /\ run' = "dispatch"
             /\ UNCHANGED fault
          \/ /\ n > pool
             /\ fault' = "pool"
             /\ UNCHANGED <<batch, run>>
  /\ dropped' = {}
  /\ UNCHANGED <<control, storage, heap, kernel, pool, stack, holed>>

\* epoll_wait fails (no slot in use, or interrupted) and is called again.
WaitFails ==
  /\ Main("check") /\ ~terminate
  /\ UNCHANGED vars

\* The callback of the next event is called, with what its entry holds now.
Dispatch ==
  /\ Main("dispatch") /\ batch # <<>>
  /\ LET p == Head(batch).ptr
     IN \/ /\ Live(p)
           /\ Push(CallbackFrame(heap[p].sd))
           /\ batch' = Tail(batch)
           /\ UNCHANGED fault
        \/ /\ ~Live(p)
           /\ fault' = "dispatch"
           /\ UNCHANGED <<stack, batch>>
  /\ UNCHANGED <<control, storage, heap, kernel, run, pool, history>>

CallbackReturns ==
  /\ In("callback")
  /\ Pop
  /\ UNCHANGED <<control, storage, heap, kernel, running, fault, history>>

BatchDone ==
  /\ Main("dispatch") /\ batch = <<>>
  /\ run' = "check"
  /\ dropped' = {}
  /\ UNCHANGED <<control, storage, heap, kernel, pool, batch, stack, fault, holed>>

RunExit ==
  /\ Main("check") /\ terminate
  /\ run' = "out"
  /\ pool' = 0
  /\ UNCHANGED <<control, storage, heap, kernel, batch, stack, fault, history>>

-----------------------------------------------------------------------------
(***************************************************************************)
(* loop_quit, loop_exit_success, loop_exit_failure: loop_cleanup, one slot *)
(* per step, then the exit status.                                         *)
(***************************************************************************)
StartCleanup(exit) ==
  /\ terminate' = TRUE
  /\ Push(CleanupFrame(exit))
  /\ UNCHANGED <<status, storage, heap, kernel, running, fault, history>>

Quit(exit) ==
  /\ Calls("quit")
  /\ StartCleanup(exit)
  /\ UNCHANGED signalled

\* The handler the tests install: it calls loop_quit the first time only, and
\* may interrupt the program between any two steps.
SignalQuit ==
  /\ Running
  /\ ~signalled
  /\ signalled' = TRUE
  /\ StartCleanup("quit")

SkipSlotForever ==                                                         \* mutant
  /\ InCleanup /\ Innermost.i < top
  /\ entry[Innermost.i] = NULL
  /\ UNCHANGED vars

SkipSlot ==
  /\ InCleanup /\ Innermost.i < top
  /\ entry[Innermost.i] = NULL
  /\ Amend([Innermost EXCEPT !.i = @ + 1])
  /\ UNCHANGED <<control, storage, heap, kernel, running, fault, history>>

\* Clear the slot, drop the registration, call the destructor.
CleanupSlot ==
  /\ InCleanup /\ Innermost.i < top
  /\ LET p == entry[Innermost.i]
     IN /\ Live(p) /\ ~Destroying(p)
        /\ entry' = [entry EXCEPT ![Innermost.i] = NULL]
        /\ watch' = [watch EXCEPT ![heap[p].sd] = NULL]
        /\ Drop({heap[p].sd})
        /\ Amend([Innermost EXCEPT !.ptr = p])
  /\ UNCHANGED <<control, count, top, heap, epfd, running, fault, holed>>

\* The slot holds the address of an entry that is freed or being destroyed.
CleanupFaults ==
  /\ InCleanup /\ Innermost.i < top
  /\ LET p == entry[Innermost.i]
     IN \/ p # NULL /\ ~Live(p) /\ fault' = "stale"
        \/ Live(p) /\ Destroying(p) /\ fault' = "twice"
  /\ UNCHANGED <<control, storage, heap, kernel, running, stack, history>>

\* The destructor returns: the entry is freed and the next slot is due.
CleanupReturns ==
  /\ In("cleanup") /\ Innermost.ptr # NULL
  /\ heap' = [heap EXCEPT ![Innermost.ptr] = NULL]
  /\ Amend([Innermost EXCEPT !.ptr = NULL, !.i = @ + 1])
  /\ UNCHANGED <<control, storage, kernel, running, fault, history>>

\* The table is freed and the epoll descriptor closed, which unregisters
\* everything; watchdog_exit then finds no entry to remove.
CleanupEnd ==
  /\ InCleanup
  /\ Innermost.i >= top
  /\ count' = 0
  /\ top' = 0
  /\ entry' = [i \in 0 .. -1 |-> NULL]
  /\ epfd' = FALSE
  /\ watch' = [fd \in Fd |-> NULL]
  /\ Drop(Watched)
  /\ status' = IF Innermost.exit = "quit" THEN status ELSE Innermost.exit
  /\ Pop
  /\ UNCHANGED <<terminate, signalled, heap, running, fault, holed>>

-----------------------------------------------------------------------------
\* After a fault nothing is specified: the model stands still.
Halted == ~Running /\ UNCHANGED vars

UserCode ==
  \/ LoopInit
  \/ \E sd \in Fd, mask \in Mask : AddSd(sd, mask)
  \/ AddSdFails
  \/ \E sd \in Fd, mask \in Mask : ModifySd(sd, mask)
  \/ \E sd \in Fd : RemoveSd(sd)
  \/ \E sd \in Fd : RemoveTwice(sd)
  \/ \E sd \in Fd : SearchFaults(sd)
  \/ \E exit \in Exits : Quit(exit)
  \/ RunStart

Return == RemoveReturns \/ CleanupReturns \/ CallbackReturns

LoopCode ==
  \/ Dispatch \/ BatchDone \/ RunExit
  \/ SkipSlot \/ CleanupSlot \/ CleanupFaults \/ CleanupEnd

Next == UserCode \/ Return \/ LoopCode \/ Wait \/ WaitFails \/ SignalQuit \/ Halted

Spec == Init /\ [][Next]_vars

\* The process keeps executing loop code, and every callback and destructor it
\* has called returns in the end, whatever it calls meanwhile.  Nothing makes
\* events arrive or the program quit.
Fairness ==
  /\ WF_vars(LoopCode)
  /\ \A d \in 1 .. MaxDepth : SF_vars(Len(stack) = d /\ Return)

FairSpec == Spec /\ Fairness
=============================================================================
