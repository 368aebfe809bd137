--------------------------------- MODULE Io ---------------------------------
(***************************************************************************)
(* The I/O channels of src/src/common/io.c: reference-counted objects that *)
(* tie a descriptor to a read, a write and a disconnect handler, driven by *)
(* the event loop.                                                         *)
(*                                                                         *)
(* Of the loop this module keeps what the channels rely on: who watches a  *)
(* descriptor with which mask, the events of the current batch, and the    *)
(* descriptors that its table has lost (module Loop has the rest): epoll   *)
(* still reports these, but loop_modify_sd and loop_remove_sd do not find  *)
(* them.  Channels are created, changed and destroyed by the program,      *)
(* outside loop_run or in one of their callbacks.  The destroy functions   *)
(* of the program release its data and do nothing else.                    *)
(*                                                                         *)
(* An object of Data is the user data of one handler, with its destroy     *)
(* function; an object released is not handed out again, so that a second  *)
(* release, or a callback that runs on released data, shows as a "fault".  *)
(* No step follows a fault.                                                *)
(*                                                                         *)
(* A definition marked "mutant" is the one after it with a bug put in; the *)
(* specification does not use it.                                          *)
(***************************************************************************)
EXTENDS Naturals, FiniteSets

CONSTANTS
  Fd,        \* descriptors
  Chan,      \* addresses malloc returns for io_t objects
  Data,      \* user data the program gives to handlers
  NULL,      \* the null pointer; as a descriptor, -1
  Handled,   \* bound: the kinds of handlers the program installs
  Neighbours \* bound: the loop has other users, which may damage its table

\* The handlers of a channel, each with the bit it wants in the event mask
\* (EPOLLRDHUP, EPOLLIN, EPOLLOUT; as an event, "disconnect" is EPOLLRDHUP,
\* EPOLLHUP or EPOLLERR), in the order io_process_event serves them.
Kinds == {"disconnect", "read", "write"}
After == [disconnect |-> "read", read |-> "write", write |-> "done"]

IoType == [
  reference_count : Nat,
  descriptor : Fd \cup {NULL},
  events : SUBSET Kinds,
  close_on_destroy : BOOLEAN,
  callback : [Kinds -> BOOLEAN],
  data : [Kinds -> Data \cup {NULL}]]

Registration == [chan : Chan, mask : SUBSET Kinds]

ASSUME BoundsAssumption == Handled \subseteq Kinds /\ Neighbours \in BOOLEAN
ASSUME NullAssumption ==
  /\ NULL \notin Fd /\ NULL \notin Chan /\ NULL \notin Data
  /\ NULL \notin IoType /\ NULL \notin Registration /\ \A mask \in SUBSET Kinds : mask # NULL

VARIABLES
  io,        \* allocated channels: address |-> io_t, NULL when free
  owned,     \* channels the program got from io_new and has not destroyed
  watch,     \* the loop: descriptor |-> [chan, mask], or NULL
  open,      \* open descriptors
  data,      \* user data |-> "program", "held" (by a handler) or "released"
  batch,     \* events of the current batch still to be dispatched
  dropped,   \* descriptors unregistered while an event of theirs is in the batch
  stopped,   \* the loop has been told to quit
  at,        \* "out" of loop_run, "idle" in it, or a stage of io_process_event
  called,    \* the callback of this stage is running
  sd,        \* io_process_event: the descriptor it was called for
  cur,       \* io_process_event: the channel
  ev,        \* io_process_event: the events
  lost,      \* descriptors registered with epoll that the loop's table has lost
  fault,     \* the first undefined behaviour
  refused,   \* history: epoll_ctl refused the descriptor of an io_new
  unmodified,\* history: a loop_modify_sd failed
  holed      \* history: a slot of the table other than the last was removed

loop == <<batch, dropped, stopped>>
event == <<at, called, sd, cur, ev>>
damage == <<lost, holed>>
history == <<refused, unmodified>>
vars == <<io, owned, watch, open, data, loop, event, damage, fault, history>>

-----------------------------------------------------------------------------
Running == fault = "none"
Watched == {fd \in Fd : watch[fd] # NULL}
Listed == Watched \ lost
DataOf(c) == {io[c].data[k] : k \in Kinds} \ {NULL}

\* The program may call the functions of io.h and loop.h.
UserCode == Running /\ (at = "out" \/ called)

NewIoUnreferenced(fd) == [                                                 \* mutant
  reference_count |-> 0, descriptor |-> fd, events |-> {}, close_on_destroy |-> FALSE,
  callback |-> [k \in Kinds |-> FALSE], data |-> [k \in Kinds |-> NULL]]
NewIo(fd) == [
  reference_count |-> 1, descriptor |-> fd, events |-> {}, close_on_destroy |-> FALSE,
  callback |-> [k \in Kinds |-> FALSE], data |-> [k \in Kinds |-> NULL]]

\* io_unref, on the channels chans: the last reference frees the channel.
Unreferenced(chans, c) ==
  LET count == chans[c].reference_count
  IN [chans EXCEPT ![c] =
        IF count = 1 THEN NULL ELSE [chans[c] EXCEPT !.reference_count = count - 1]]

\* The destroy functions of the data "old" are called; "new" becomes a handler's.
Exchange(old, new) ==
  IF \A d \in old : data[d] = "held"
  THEN /\ data' = [d \in Data |->
                    IF d \in new THEN "held" ELSE IF d \in old THEN "released" ELSE data[d]]
       /\ UNCHANGED fault
  ELSE fault' = "twice" /\ UNCHANGED data
Release(old) == Exchange(old, {})

\* loop_modify_sd: fails when the table does not have the descriptor, or epoll_ctl
\* does.
Modify(fd, mask, ok) ==
  /\ ok => fd \in Listed
  /\ watch' = IF ok THEN [watch EXCEPT ![fd].mask = mask] ELSE watch
  /\ unmodified' = (unmodified \/ ~ok)

(***************************************************************************)
(* loop_remove_sd moves the slots after the one it removes but for the     *)
(* last, which is cut off.  A removal that is not of the last slot loses   *)
(* one of the descriptors that stay listed, or one of another user of the  *)
(* loop, and leaves an entry it has freed, or an entry twice, among the    *)
(* slots in use.                                                           *)
(***************************************************************************)
Shifted(listed) ==
  /\ holed' = TRUE
  /\ \/ Neighbours /\ lost' = lost
     \/ \E fd \in listed : lost' = lost \cup {fd}
Shifts(fd) == UNCHANGED damage \/ (fd \in Listed /\ Shifted(Listed \ {fd}))

\* The loop forgets those of these descriptors that it finds in its table: their
\* channels go through io_destroy_callback, which leaves the handlers in place.
\* io.c does not look whether loop_remove_sd has found anything.
Users(fds) == {watch[fd].chan : fd \in fds \cap Listed}
TornDown(chans, fds) ==
  [c \in Chan |->
     IF c \in Users(fds) THEN [chans[c] EXCEPT !.descriptor = NULL] ELSE chans[c]]

ForgetLeaking(fds) ==                                                      \* mutant
  /\ watch' = [fd \in Fd |-> IF fd \in fds \cap Listed THEN NULL ELSE watch[fd]]
  /\ dropped' = dropped \cup {fd \in fds \cap Listed : batch[fd] # {}}
  /\ UNCHANGED <<open, data, fault>>

ForgetStillWatched(fds) ==                                                 \* mutant
  /\ open' = open \ {io[c].descriptor : c \in {u \in Users(fds) : io[u].close_on_destroy}}
  /\ Release(UNION {DataOf(c) : c \in Users(fds)})
  /\ UNCHANGED <<watch, dropped>>

Forget(fds) ==
  /\ watch' = [fd \in Fd |-> IF fd \in fds \cap Listed THEN NULL ELSE watch[fd]]
  /\ dropped' = dropped \cup {fd \in fds \cap Listed : batch[fd] # {}}
  /\ open' = open \ {io[c].descriptor : c \in {u \in Users(fds) : io[u].close_on_destroy}}
  /\ Release(UNION {DataOf(c) : c \in Users(fds)})

-----------------------------------------------------------------------------
Init ==
  /\ io = [c \in Chan |-> NULL] /\ owned = {}
  /\ watch = [fd \in Fd |-> NULL] /\ open = {}
  /\ data = [d \in Data |-> "program"]
  /\ batch = [fd \in Fd |-> {}] /\ dropped = {} /\ stopped = FALSE
  /\ at = "out" /\ called = FALSE /\ sd = NULL /\ cur = NULL /\ ev = {}
  /\ fault = "none" /\ refused = FALSE /\ unmodified = FALSE
  /\ lost = {} /\ holed = FALSE

\* The program opens a descriptor, or closes one that no channel watches.
Open(fd) ==
  /\ UserCode /\ fd \notin open
  /\ open' = open \cup {fd}
  /\ UNCHANGED <<io, owned, watch, data, loop, event, damage, fault, history>>

Close(fd) ==
  /\ UserCode /\ fd \in open \ Watched
  /\ open' = open \ {fd}
  /\ UNCHANGED <<io, owned, watch, data, loop, event, damage, fault, history>>

(***************************************************************************)
(* io_new.  The descriptor is watched with an empty mask.  When epoll_ctl  *)
(* refuses it (already watched, not open, no memory, loop closed),         *)
(* loop_add_sd returns a positive errno, io_new takes it for a success and *)
(* the program gets a channel that is not registered.  A negative result   *)
(* of loop_add_sd leaves nothing behind; the first malloc is not checked.  *)
(***************************************************************************)
IoNew(fd, c) ==
  /\ UserCode /\ io[c] = NULL
  /\ fd \in open \ Watched /\ ~stopped
  /\ io' = [io EXCEPT ![c] = NewIo(fd)]
  /\ owned' = owned \cup {c}
  /\ watch' = [watch EXCEPT ![fd] = [chan |-> c, mask |-> {}]]
  /\ UNCHANGED <<open, data, loop, event, damage, fault, history>>

IoNewRefused(fd, c) ==
  /\ UserCode /\ io[c] = NULL
  /\ io' = [io EXCEPT ![c] = NewIo(fd)]
  /\ owned' = owned \cup {c}
  /\ refused' = TRUE
  /\ UNCHANGED <<watch, open, data, loop, event, damage, fault, unmodified>>

IoNewNoMemory ==
  /\ UserCode
  /\ fault' = "null"
  /\ UNCHANGED <<io, owned, watch, open, data, loop, event, damage, history>>

SetCloseOnDestroy(c) ==
  /\ UserCode /\ c \in owned
  /\ io' = [io EXCEPT ![c].close_on_destroy = ~@]
  /\ UNCHANGED <<owned, watch, open, data, loop, event, damage, fault, history>>

(***************************************************************************)
(* io_set_read_handler, io_set_write_handler, io_set_disconnect_handler.   *)
(* They return at once on a channel whose descriptor is -1.                *)
(***************************************************************************)
SetHandler(c, k, callback, d) ==
  /\ UserCode /\ c \in owned /\ io[c].descriptor # NULL
  /\ d \in Data => data[d] = "program"
  /\ LET old == io[c].events
         new == IF callback THEN old \cup {k} ELSE old \ {k}
         handler == [io[c] EXCEPT !.callback[k] = callback, !.data[k] = d]
     IN /\ Exchange({io[c].data[k]} \ {NULL}, {d} \ {NULL})
        /\ \/ /\ new = old
              /\ io' = [io EXCEPT ![c] = handler]
              /\ UNCHANGED <<watch, unmodified>>
           \/ /\ new # old
              /\ \E ok \in BOOLEAN :
                   /\ Modify(io[c].descriptor, new, ok)
                   /\ io' = [io EXCEPT ![c] = [handler EXCEPT !.events = IF ok THEN new ELSE old]]
  /\ UNCHANGED <<owned, open, loop, event, damage, refused>>

(***************************************************************************)
(* io_destroy: silence the channel, have the loop forget its descriptor,   *)
(* give up the program's reference.  When the table has lost the           *)
(* descriptor the last two go apart: epoll keeps a registration, with the  *)
(* address of a channel that is freed.                                     *)
(***************************************************************************)
MutedNot(kinds, c) == io                                                   \* mutant
Muted(kinds, c) ==
  [io EXCEPT ![c].callback = [k \in Kinds |-> k \notin kinds /\ io[c].callback[k]]]

IoDestroy(c) ==
  /\ UserCode /\ c \in owned
  /\ owned' = owned \ {c}
  /\ Forget({io[c].descriptor}) /\ Shifts(io[c].descriptor)
  /\ io' = Unreferenced(TornDown(Muted(Kinds, c), {io[c].descriptor}), c)
  /\ UNCHANGED <<batch, stopped, event, history>>

\* Another user of the loop removes its own descriptor.
OthersRemove ==
  /\ Neighbours /\ Running /\ ~stopped
  /\ Shifted(Listed)
  /\ UNCHANGED <<io, owned, watch, open, data, loop, event, fault, history>>

\* The next search of the damaged table may read the freed entry.
TableFaults ==
  /\ Running /\ holed
  /\ fault' = "table"
  /\ UNCHANGED <<io, owned, watch, open, data, loop, event, damage, history>>

LoopQuitRunning ==                                                         \* mutant
  /\ Running /\ ~holed
  /\ Forget(Fd)
  /\ io' = TornDown(io, Fd)
  /\ UNCHANGED <<owned, batch, stopped, event, damage, history>>

\* loop_quit, called by the program, a callback or a signal handler, which may
\* interrupt between any two steps: the clean-up takes every channel down, the
\* program keeps its references.  Over a damaged table the clean-up reads a freed
\* entry for certain: TableFaults.
LoopQuit ==
  /\ Running /\ ~holed
  /\ stopped' = TRUE
  /\ Forget(Fd)
  /\ io' = TornDown(io, Fd)
  /\ UNCHANGED <<owned, batch, event, damage, history>>

-----------------------------------------------------------------------------
RunLoop ==
  /\ Running /\ at = "out"
  /\ at' = "idle"
  /\ UNCHANGED <<io, owned, watch, open, data, loop, called, sd, cur, ev, damage, fault, history>>

\* epoll_wait: for each watched descriptor the events its mask asks for, and
\* hang-ups and errors whatever the mask.
Wait ==
  /\ Running /\ at = "idle" /\ ~stopped
  /\ \A fd \in Fd : batch[fd] = {}
  /\ \E events \in [Fd -> SUBSET Kinds] :
       /\ \E fd \in Fd : events[fd] # {}
       /\ \A fd \in Fd :
            events[fd] \subseteq IF fd \in Watched THEN watch[fd].mask \cup {"disconnect"} ELSE {}
       /\ batch' = events
  /\ dropped' = {}
  /\ UNCHANGED <<io, owned, watch, open, data, stopped, event, damage, fault, history>>

\* epoll_wait is interrupted, or fails because nothing is watched.
WaitFails ==
  /\ Running /\ at = "idle" /\ ~stopped
  /\ \A fd \in Fd : batch[fd] = {}
  /\ UNCHANGED vars

\* The next event: io_process_event takes a reference for its duration.
Start(fd) ==
  /\ Running /\ at = "idle"
  /\ batch[fd] # {} /\ fd \notin dropped
  /\ io[watch[fd].chan] # NULL
  /\ batch' = [batch EXCEPT ![fd] = {}]
  /\ at' = "disconnect" /\ sd' = fd /\ cur' = watch[fd].chan /\ ev' = batch[fd]
  /\ io' = [io EXCEPT ![watch[fd].chan].reference_count = @ + 1]
  /\ UNCHANGED <<owned, watch, open, data, dropped, stopped, called, damage, fault, history>>

\* The channel has been freed, and its descriptor is still registered.
StartFreed(fd) ==
  /\ Running /\ at = "idle"
  /\ batch[fd] # {} /\ fd \notin dropped
  /\ io[watch[fd].chan] = NULL
  /\ fault' = "freed"
  /\ UNCHANGED <<io, owned, watch, open, data, loop, event, damage, history>>

\* The event of a descriptor unregistered since: loop_run reads a freed entry
\* before it gets to io_process_event (see module Loop).
StartDropped(fd) ==
  /\ Running /\ at = "idle"
  /\ batch[fd] # {} /\ fd \in dropped
  /\ fault' = "dispatch"
  /\ UNCHANGED <<io, owned, watch, open, data, loop, event, damage, history>>

Stage(k) == Running /\ at = k /\ ~called

AbandonLeaking ==                                                          \* mutant
  /\ Stage("disconnect") /\ "disconnect" \in ev /\ ~io[cur].callback["disconnect"]
  /\ Forget({io[cur].descriptor}) /\ Shifts(io[cur].descriptor)
  /\ io' = TornDown(Muted({"read", "write"}, cur), {io[cur].descriptor})
  /\ at' = "idle" /\ sd' = NULL /\ cur' = NULL /\ ev' = {}
  /\ UNCHANGED <<owned, batch, stopped, called, history>>

\* A hang-up or an error with nobody to tell: the channel leaves the loop.
Abandon ==
  /\ Stage("disconnect") /\ "disconnect" \in ev /\ ~io[cur].callback["disconnect"]
  /\ Forget({io[cur].descriptor}) /\ Shifts(io[cur].descriptor)
  /\ io' = TornDown(Muted({"read", "write"}, cur), {io[cur].descriptor})
  /\ at' = "done"
  /\ UNCHANGED <<owned, batch, stopped, called, sd, cur, ev, history>>

\* A hang-up or an error silences the read and write handlers first.
Call(k) ==
  /\ Stage(k) /\ k \in ev /\ io[cur].callback[k]
  /\ io' = IF k = "disconnect" THEN Muted({"read", "write"}, cur) ELSE io
  /\ IF io[cur].data[k] # NULL => data[io[cur].data[k]] = "held"
     THEN called' = TRUE /\ UNCHANGED fault
     ELSE fault' = "released" /\ UNCHANGED called
  /\ UNCHANGED <<owned, watch, open, data, loop, at, sd, cur, ev, damage, history>>

Skip(k) ==
  /\ Stage(k)
  /\ k \notin ev \/ (k # "disconnect" /\ ~io[cur].callback[k])
  /\ at' = After[k]
  /\ UNCHANGED <<io, owned, watch, open, data, loop, called, sd, cur, ev, damage, fault, history>>

\* The callback returns non-zero: the handler stays.
ReturnKeep(k) ==
  /\ Running /\ at = k /\ called
  /\ called' = FALSE /\ at' = After[k]
  /\ UNCHANGED <<io, owned, watch, open, data, loop, sd, cur, ev, damage, fault, history>>

Dropped(k) ==
  [io[cur] EXCEPT !.callback[k] = FALSE, !.data[k] = NULL, !.events = io[cur].events \ {k}]

ReturnDropSilent(k) ==                                                     \* mutant
  /\ Running /\ at = k /\ called
  /\ called' = FALSE /\ at' = After[k]
  /\ Release({io[cur].data[k]} \ {NULL})
  /\ io' = [io EXCEPT ![cur] = Dropped(k)]
  /\ UNCHANGED <<owned, watch, open, loop, sd, cur, ev, damage, history>>

\* The callback returns 0: the handler is destroyed, and its bit is taken out of
\* the mask whether or not the loop agrees.
ReturnDrop(k) ==
  /\ Running /\ at = k /\ called
  /\ called' = FALSE /\ at' = After[k]
  /\ Release({io[cur].data[k]} \ {NULL})
  /\ \E ok \in BOOLEAN : Modify(io[cur].descriptor, io[cur].events \ {k}, ok)
  /\ io' = [io EXCEPT ![cur] = Dropped(k)]
  /\ UNCHANGED <<owned, open, loop, sd, cur, ev, damage, refused>>

Finish ==
  /\ Running /\ at = "done"
  /\ io' = Unreferenced(io, cur)
  /\ at' = "idle" /\ sd' = NULL /\ cur' = NULL /\ ev' = {}
  /\ UNCHANGED <<owned, watch, open, data, loop, called, damage, fault, history>>

ExitLoop ==
  /\ Running /\ at = "idle" /\ stopped
  /\ \A fd \in Fd : batch[fd] = {}
  /\ at' = "out"
  /\ UNCHANGED <<io, owned, watch, open, data, loop, called, sd, cur, ev, damage, fault, history>>

-----------------------------------------------------------------------------
\* After a fault nothing is specified: the model stands still.
Halted == ~Running /\ UNCHANGED vars

Program ==
  \/ \E fd \in Fd : Open(fd) \/ Close(fd)
  \/ \E fd \in Fd, c \in Chan : IoNew(fd, c) \/ IoNewRefused(fd, c)
  \/ IoNewNoMemory
  \/ \E c \in Chan : SetCloseOnDestroy(c) \/ IoDestroy(c)
  \/ \E c \in Chan, k \in Handled, callback \in BOOLEAN, d \in Data \cup {NULL} :
       SetHandler(c, k, callback, d)
  \/ LoopQuit \/ RunLoop \/ OthersRemove \/ TableFaults

ProcessEvent ==
  Abandon \/ Finish \/ \E k \in Kinds : Call(k) \/ Skip(k)

Return == \E k \in Kinds : ReturnKeep(k) \/ ReturnDrop(k)

LoopRun == Wait \/ WaitFails \/ ExitLoop \/ \E fd \in Fd : Start(fd) \/ StartFreed(fd) \/ StartDropped(fd)

Next == Program \/ ProcessEvent \/ Return \/ LoopRun \/ Halted

Spec == Init /\ [][Next]_vars
=============================================================================
