------------------------------- MODULE IoProps -------------------------------
(***************************************************************************)
(* What src/src/common/io.c promises, as properties of module Io.          *)
(***************************************************************************)
EXTENDS Io

TypeOK ==
  /\ io \in [Chan -> IoType \cup {NULL}]
  /\ owned \subseteq Chan
  /\ watch \in [Fd -> Registration \cup {NULL}]
  /\ open \subseteq Fd
  /\ data \in [Data -> {"program", "held", "released"}]
  /\ batch \in [Fd -> SUBSET Kinds] /\ dropped \subseteq Fd /\ stopped \in BOOLEAN
  /\ at \in {"out", "idle", "done"} \cup Kinds /\ called \in BOOLEAN
  /\ sd \in Fd \cup {NULL} /\ cur \in Chan \cup {NULL} /\ ev \subseteq Kinds
  /\ lost \subseteq Fd /\ holed \in BOOLEAN
  /\ fault \in {"none", "null", "twice", "released", "dispatch", "freed", "table"}
  /\ refused \in BOOLEAN /\ unmodified \in BOOLEAN

Allocated == {c \in Chan : io[c] # NULL}
Attached == {c \in Allocated : io[c].descriptor # NULL}

\* A channel is allocated exactly as long as somebody may use it, the program
\* or io_process_event, and its count says how many of the two: it is neither
\* leaked nor freed under a callback that destroys it.
Holders(c) == (IF c \in owned THEN 1 ELSE 0) + (IF c = cur THEN 1 ELSE 0)

ReferencesCounted ==
  \A c \in Chan :
    /\ c \in Allocated <=> Holders(c) # 0
    /\ c \in Allocated => io[c].reference_count = Holders(c)

\* What the loop's table has is a channel that is there, that the program has not
\* destroyed, and whose descriptor it is; without a refused io_new no two channels
\* share a descriptor and no channel is left out of epoll.  As long as no removal
\* has damaged the table, it has every registration.
RegisteredChannels ==
  /\ \A fd \in Listed :
       watch[fd].chan \in owned \cap Attached /\ io[watch[fd].chan].descriptor = fd
  /\ ~holed => Listed = Watched
  /\ ~refused => \A c \in Attached : watch[io[c].descriptor] # NULL
                                    /\ watch[io[c].descriptor].chan = c

\* The loop watches a channel with the mask the channel has recorded, and the
\* mask asks for every handler that is installed, unless a call of the loop
\* failed or was refused.
HandlersArmed ==
  ~refused /\ ~unmodified => \A c \in Attached :
    /\ watch[io[c].descriptor].mask = io[c].events
    /\ \A k \in Kinds : io[c].callback[k] => k \in io[c].events

\* User data given to a handler is released once: as long as it is held it is
\* the data of one handler of one channel that is still attached.  Only a
\* channel whose registration was refused, or was lost by a damaged table, takes
\* its data to the grave.
Places(d) == {x \in Attached \X Kinds : io[x[1]].data[x[2]] = d}

DataReleasedOnce ==
  Running => \A d \in Data :
    IF data[d] = "held" THEN Cardinality(Places(d)) = 1 \/ ((refused \/ holed) /\ Places(d) = {})
    ELSE Places(d) = {}

\* What it takes to go wrong: user data is released a second time, or handed to
\* a callback after its release, only in an event whose channel has been taken
\* down meanwhile.  For the first, a callback did it and then returned 0: it
\* destroyed the channel, or quit the loop.  For the second, the channel still
\* has handlers, and is not destroyed: the loop has been quit, or the program
\* destroyed another channel that it made for the same descriptor.  And a freed
\* channel gets an event only when the table had lost its descriptor.
FaultsExplained ==
  /\ fault = "twice" => ~called /\ cur \in Allocated \ Attached
  /\ fault = "released" => (stopped \/ refused) /\ cur \in owned \ Attached
  /\ fault = "dispatch" => dropped # {}
  /\ fault = "freed" => holed /\ \E fd \in lost \cap Watched : watch[fd].chan \notin Allocated
  /\ fault = "table" => holed

\* No callback is started once the program has destroyed the channel, not even
\* for the rest of the event in which it did; and as long as no removal has
\* damaged the table, a channel gets the events of its own descriptor only.
Calls == \E k \in Kinds : Call(k)
SilentAfterDestroy ==
  [][Calls => cur \in owned /\ (~holed /\ cur \in Attached => io[cur].descriptor = sd)]_vars

\* The channels ask of the loop only what module Registry offers, which Loop
\* implements, and take for granted no more: events come for watched
\* descriptors, one callback at a time; only a removal, or the end of the loop,
\* ends a registration.
Service == INSTANCE Registry WITH
  Mask <- SUBSET Kinds,
  watched <- [fd \in Fd |-> IF watch[fd] = NULL THEN NULL ELSE watch[fd].mask],
  serving <- sd

UsesRegistry == Service!Spec
=============================================================================
