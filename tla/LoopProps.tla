----------------------------- MODULE LoopProps -----------------------------
(***************************************************************************)
(* What src/src/common/loop.c promises, as properties of module Loop.      *)
(*                                                                         *)
(* loop_remove_sd damages the table when it removes a slot other than the  *)
(* last one ("holed").  The properties that need an intact table say so;   *)
(* the runs with silent destructors check which of them survive.           *)
(***************************************************************************)
EXTENDS Loop

Faults == {"none", "unallocated", "null", "stale", "twice", "pool", "dispatch"}

TypeOK ==
  /\ epfd \in BOOLEAN /\ terminate \in BOOLEAN /\ signalled \in BOOLEAN
  /\ status \in {"quit", "success", "failure"}
  /\ count \in Nat /\ top \in Nat
  /\ entry \in [0 .. count - 1 -> Ptr \cup {NULL}]
  /\ heap \in [Ptr -> Entry \cup {NULL}]
  /\ watch \in [Fd -> Interest \cup {NULL}]
  /\ run \in {"out", "check", "dispatch"}
  /\ pool \in Nat
  /\ batch \in Seq(Event)
  /\ stack \in Seq(Frame)
  /\ fault \in Faults
  /\ holed \in BOOLEAN /\ dropped \in SUBSET Fd

-----------------------------------------------------------------------------
CleaningUp == \E k \in 1 .. Len(stack) : stack[k].fn = "cleanup"

\* Destructors that call back into the loop can turn a damaged table into a
\* kernel registration whose entry is gone; silent ones cannot.
Sound == ~holed \/ DestructorCalls = {}

Listed(p) == \E i \in 0 .. top - 1 : entry[i] = p

\* loop_add_sd stores at entry[top] without looking: the table always keeps a
\* slot beyond top, through growth, failed additions, removals and clean-up,
\* and no slot from top on holds an address.  While epoll is closed no slot is
\* in use, so that loop_init may start a new table.
TableShape ==
  /\ ~epfd => top = 0
  /\ IF count = 0 THEN top = 0
     ELSE top < count /\ \A i \in top .. count - 1 : entry[i] = NULL

\* As long as no removal has damaged it, the table lists every watched
\* descriptor, through the very entry the kernel reports, with the mask the
\* kernel has, and lists nothing twice; a slot in use is NULL only during a
\* clean-up.
SlotsNull == \A i \in 0 .. top - 1 : entry[i] = NULL => CleaningUp

SlotsRegistered ==
  \A i \in 0 .. top - 1 :
    LET p == entry[i]
    IN p # NULL => Live(p) /\ watch[heap[p].sd] = [ptr |-> p, mask |-> heap[p].mask]

SlotsDistinct ==
  \A i, j \in 0 .. top - 1 : entry[i] = entry[j] /\ entry[i] # NULL => i = j

WatchedListed ==
  \A fd \in Watched : Listed(watch[fd].ptr) /\ heap[watch[fd].ptr].sd = fd

TableExact ==
  SlotsNull /\ (~holed => SlotsRegistered /\ SlotsDistinct /\ WatchedListed)

\* Every allocated entry has one owner: the table, or the one call that is
\* running its destructor.  Nothing leaks and nothing is freed twice, however
\* callbacks, destructors and the signal handler nest their calls.
OneDestroyer ==
  \A j, k \in 1 .. Len(stack) : stack[j].ptr = stack[k].ptr /\ stack[j].ptr # NULL => j = k

EntryOwnership ==
  ~holed => OneDestroyer /\ \A p \in Ptr : Live(p) <=> (Listed(p) # Destroying(p))

\* Every pending clean-up has cleared all the slots it has passed, and has
\* passed none beyond the end of the table, unless one nested in it has already
\* taken everything down: no entry is skipped, whatever destructors add.
Done(f) == IF f.ptr = NULL THEN f.i ELSE f.i + 1

Passed(f) ==
  \/ ~epfd /\ top = 0
  \/ Done(f) <= top /\ \A i \in 0 .. Done(f) - 1 : entry[i] = NULL

CleanupProgress ==
  \A k \in 1 .. Len(stack) : stack[k].fn = "cleanup" => Passed(stack[k])

\* epoll hands back the pointer it was given: whatever user code did, the
\* entry of a registered descriptor is allocated and is that descriptor's own.
KernelPointersLive ==
  Sound => \A fd \in Watched :
    /\ Live(watch[fd].ptr)
    /\ heap[watch[fd].ptr] = [sd |-> fd, mask |-> watch[fd].mask]

\* loop_run asks epoll_wait for at most top events: outside clean-up top is
\* the number of registered descriptors, so none of them can starve.
TopCountsWatched == ~CleaningUp => top = Cardinality(Watched)

\* The events still to be dispatched point to live entries of registered
\* descriptors, but for the descriptors unregistered since epoll_wait.
BatchFresh ==
  Sound => \A k \in 1 .. Len(batch) :
    \/ batch[k].fd \in dropped
    \/ /\ batch[k].fd \in Watched
       /\ watch[batch[k].fd].ptr = batch[k].ptr
       /\ Live(batch[k].ptr)

\* What it takes to read memory that is not there: a freed entry is found in
\* the table, or one is destroyed twice, only after a removal damaged the
\* table; a NULL slot is read only from a destructor called by loop_cleanup;
\* a batch outgrows event_pool only after the table grew under loop_run; an
\* event is dispatched through a freed entry only when its descriptor was
\* unregistered during the batch; and the table is missing only when loop_init
\* failed after a refused loop_add_sd.
TableFaultsExplained ==
  /\ fault \in {"stale", "twice"} => holed
  /\ fault = "null" => CleaningUp
  /\ fault = "pool" => count > pool
  /\ fault = "unallocated" => top = 0 /\ count # 0

DispatchFaultsExplained ==
  fault = "dispatch" /\ Sound => Head(batch).fd \in dropped

FaultsExplained == TableFaultsExplained /\ DispatchFaultsExplained

Delivers == Dispatch /\ stack' # stack

\* The callback called for an event is the one registered for the descriptor
\* of the event, unless that descriptor was unregistered since epoll_wait: then
\* its entry may have been reused for another one.
DeliveredToOwner ==
  [][Delivers /\ Sound => Head(batch).fd \in dropped \/ stack'[1].sd = Head(batch).fd]_vars

-----------------------------------------------------------------------------
\* The loop as its clients see it: the interest list and the running callback.
Service == INSTANCE Registry WITH
  watched <- [fd \in Fd |-> IF watch[fd] = NULL THEN NULL ELSE watch[fd].mask],
  serving <- IF stack # <<>> /\ stack[1].fn = "callback" THEN stack[1].sd ELSE NULL,
  stopped <- terminate

\* With destructors that do not call back into the loop, its table, batch and
\* reused entries implement the registry: although events outlive removals and
\* addresses are handed out again, no callback starts for a descriptor that is
\* not registered, and only a removal or the clean-up ends a registration.
ServesRegistry == Service!Spec

-----------------------------------------------------------------------------
(***************************************************************************)
(* What the comments and tests say and the code does not do.               *)
(***************************************************************************)
\* "Modify watched descriptor", "Remove watched descriptor" (loop.h): a watched
\* descriptor is found by the search, so that it can be modified and removed.
WatchedIsFound == Running /\ ~CleaningUp => \A fd \in Watched : Listed(watch[fd].ptr)

-----------------------------------------------------------------------------
\* Destructors that add a descriptor whenever they are called keep a clean-up
\* from ever reaching the top of the table (loop.c:296).  In the model they
\* reach the bound of the table instead, and nothing is said from there on.
AddsWithoutEnd == top = MaxTop

\* loop_run returns once the loop has been told to quit.
QuitStopsLoop == terminate /\ run # "out" ~> run = "out" \/ ~Running \/ AddsWithoutEnd

\* A batch of events is dispatched to its end.
BatchDrains == run = "dispatch" ~> run # "dispatch" \/ ~Running \/ AddsWithoutEnd

\* A clean-up, once begun, runs to its end and leaves nothing registered.
CleanupCompletes ==
  CleaningUp ~> (count = 0 /\ ~epfd /\ Watched = {}) \/ ~Running \/ AddsWithoutEnd
=============================================================================
