------------------------------ MODULE Io_proofs ------------------------------
(***************************************************************************)
(* Proofs about the I/O channels: the inductive invariants of module Io,   *)
(* the properties that follow from them, and that Io asks of the loop what *)
(* Registry offers.                                                        *)
(***************************************************************************)
EXTENDS IoProps, FiniteSetTheorems, TLAPS

-----------------------------------------------------------------------------
(***************************************************************************)
(* The invariants.                                                         *)
(***************************************************************************)

\* io_process_event has a channel and its descriptor as long as it runs, and a
\* callback runs in it.
EventShape ==
  /\ cur = NULL <=> at \in {"out", "idle"}
  /\ sd = NULL <=> cur = NULL
  /\ called => at \in Kinds

\* An event of the batch that is not dropped is of a descriptor that is watched.
BatchWatched == \A fd \in Fd \ dropped : batch[fd] # {} => fd \in Watched

\* The descriptor of channel c is watched for it.
Registered(c) ==
  watch[io[c].descriptor] # NULL /\ watch[io[c].descriptor].chan = c

\* What the loop's table has is a channel of the program, and its descriptor.
ListedAttached ==
  \A fd \in Listed :
    watch[fd].chan \in owned \cap Attached /\ io[watch[fd].chan].descriptor = fd

AttachedRegistered == ~refused => \A c \in Attached : Registered(c)

\* Nothing is lost before a removal has damaged the table.
Intact == ~holed => lost = {}

\* Until then, the channel of an event is the one whose descriptor is reported.
CurDescriptor == ~holed /\ cur \in Attached => io[cur].descriptor = sd

DestroyedSilent == \A c \in Allocated \ owned, k \in Kinds : ~io[c].callback[k]

IInv ==
  /\ TypeOK /\ EventShape /\ ReferencesCounted /\ BatchWatched
  /\ ListedAttached /\ AttachedRegistered /\ DestroyedSilent
  /\ Intact /\ CurDescriptor

\* What a channel that is attached points to is held, for this place alone; as
\* long as no io_new was refused and the table is whole, what is held is in such a
\* place.
PlacesHeld ==
  \A c \in Attached, k \in Kinds : io[c].data[k] # NULL => data[io[c].data[k]] = "held"

PlacesDistinct ==
  \A c, o \in Attached, k, j \in Kinds :
    io[c].data[k] # NULL /\ io[c].data[k] = io[o].data[j] => c = o /\ k = j

HeldPlaced ==
  ~refused /\ ~holed => \A d \in Data :
    data[d] = "held" => \E c \in Attached, k \in Kinds : io[c].data[k] = d

HeldOnce == Running => PlacesHeld /\ PlacesDistinct /\ HeldPlaced

\* A channel that is taken down still points to the data released with it.
DetachedReleased ==
  Running => \A c \in Allocated \ Attached, k \in Kinds :
    io[c].data[k] # NULL => data[io[c].data[k]] = "released"

\* A channel of the program that was taken down has handlers left only after a
\* loop_quit, or if another channel was made for its descriptor.
DetachedMuted ==
  Running => \A c \in owned \ Attached :
    stopped \/ refused \/ \A k \in Kinds : ~io[c].callback[k]

DataInv == IInv /\ HeldOnce /\ DetachedReleased /\ DetachedMuted /\ FaultsExplained
-----------------------------------------------------------------------------
(***************************************************************************)
(* The operators of the module.                                            *)
(***************************************************************************)
LEMMA ChannelTypes ==
  ASSUME TypeOK, NEW c \in Allocated
  PROVE  /\ c \in Chan /\ io[c] \in IoType
         /\ io[c].reference_count \in Nat /\ io[c].descriptor \in Fd \cup {NULL}
         /\ io[c].events \subseteq Kinds /\ io[c].close_on_destroy \in BOOLEAN
         /\ io[c].callback \in [Kinds -> BOOLEAN] /\ io[c].data \in [Kinds -> Data \cup {NULL}]
  <1>1. c \in Chan /\ io[c] \in IoType
    BY DEF TypeOK, Allocated
  <1> QED
    BY <1>1 DEF IoType

LEMMA WatchTypes ==
  ASSUME TypeOK, NEW fd \in Watched
  PROVE  /\ fd \in Fd /\ watch[fd] \in Registration
         /\ watch[fd].chan \in Chan /\ watch[fd].mask \in SUBSET Kinds
  <1>1. fd \in Fd /\ watch[fd] \in Registration
    BY DEF TypeOK, Watched
  <1> QED
    BY <1>1 DEF Registration

\* A new channel.
LEMMA NewIoLemma ==
  ASSUME NEW fd \in Fd
  PROVE  /\ NewIo(fd) \in IoType /\ NewIo(fd) # NULL
         /\ NewIo(fd).reference_count = 1 /\ NewIo(fd).descriptor = fd
         /\ NewIo(fd).events = {}
         /\ \A k \in Kinds : ~NewIo(fd).callback[k] /\ NewIo(fd).data[k] = NULL
  <1>1. NewIo(fd) \in IoType
    BY DEF NewIo, IoType
  <1> QED
    BY <1>1, NullAssumption DEF NewIo

\* What is left of channel c of chans, of its descriptor and callbacks, by a step
\* that tears the channels of fds down.
Survives(c, fds, chans, count) ==
  /\ chans[c] \in IoType
  /\ chans[c].reference_count = count
  /\ chans[c].descriptor = IF c \in Users(fds) THEN NULL ELSE io[c].descriptor
  /\ chans[c].events = io[c].events /\ chans[c].data = io[c].data
  /\ chans[c].close_on_destroy = io[c].close_on_destroy
  /\ \A k \in Kinds : chans[c].callback[k] => io[c].callback[k]

LEMMA MutedLemma ==
  ASSUME TypeOK, NEW kinds, NEW c \in Allocated
  PROVE  /\ Muted(kinds, c) \in [Chan -> IoType \cup {NULL}]
         /\ \A o \in Chan \ {c} : Muted(kinds, c)[o] = io[o]
         /\ Survives(c, {}, Muted(kinds, c), io[c].reference_count)
         /\ \A k \in Kinds : Muted(kinds, c)[c].callback[k] <=> k \notin kinds /\ io[c].callback[k]
  <1> DEFINE callback == [k \in Kinds |-> k \notin kinds /\ io[c].callback[k]]
             muted == [io[c] EXCEPT !.callback = callback]
  <1>1. c \in Chan /\ io[c] \in IoType
    BY ChannelTypes
  <1>2. callback \in [Kinds -> BOOLEAN]
    OBVIOUS
  <1>3. \A k \in Kinds : callback[k] <=> k \notin kinds /\ io[c].callback[k]
    BY <1>1 DEF IoType
  <1> HIDE DEF callback
  <1>4. muted \in IoType /\ muted.callback = callback /\ muted.descriptor = io[c].descriptor
    BY <1>1, <1>2 DEF IoType
  <1>5. /\ muted.reference_count = io[c].reference_count /\ muted.events = io[c].events
        /\ muted.data = io[c].data /\ muted.close_on_destroy = io[c].close_on_destroy
    BY <1>1 DEF IoType
  <1>6. Muted(kinds, c) = [io EXCEPT ![c] = muted]
    BY DEF Muted, callback
  <1> HIDE DEF muted
  <1>7. Muted(kinds, c)[c] = muted /\ \A o \in Chan \ {c} : Muted(kinds, c)[o] = io[o]
    BY <1>1, <1>6 DEF TypeOK
  <1>8. Muted(kinds, c) \in [Chan -> IoType \cup {NULL}]
    BY <1>1, <1>4, <1>6 DEF TypeOK
  <1>9. Users({}) = {}
    BY DEF Users
  <1> QED
    BY <1>3, <1>4, <1>5, <1>7, <1>8, <1>9 DEF Survives

LEMMA TornDownLemma ==
  ASSUME NEW chans \in [Chan -> IoType \cup {NULL}], NEW fds,
         \A c \in Users(fds) : c \in Chan /\ chans[c] # NULL
  PROVE  /\ TornDown(chans, fds) \in [Chan -> IoType \cup {NULL}]
         /\ \A c \in Chan \ Users(fds) : TornDown(chans, fds)[c] = chans[c]
         /\ \A c \in Users(fds) :
              /\ TornDown(chans, fds)[c] \in IoType
              /\ TornDown(chans, fds)[c].descriptor = NULL
              /\ TornDown(chans, fds)[c].reference_count = chans[c].reference_count
              /\ TornDown(chans, fds)[c].events = chans[c].events
              /\ TornDown(chans, fds)[c].close_on_destroy = chans[c].close_on_destroy
              /\ TornDown(chans, fds)[c].callback = chans[c].callback
              /\ TornDown(chans, fds)[c].data = chans[c].data
  <1>1. \A c \in Chan : TornDown(chans, fds)[c] =
          IF c \in Users(fds) THEN [chans[c] EXCEPT !.descriptor = NULL] ELSE chans[c]
    BY DEF TornDown
  <1>2. ASSUME NEW c \in Users(fds), NEW t, t = [chans[c] EXCEPT !.descriptor = NULL]
        PROVE  /\ t \in IoType
               /\ t.descriptor = NULL
               /\ t.reference_count = chans[c].reference_count
               /\ t.events = chans[c].events
               /\ t.close_on_destroy = chans[c].close_on_destroy
               /\ t.callback = chans[c].callback
               /\ t.data = chans[c].data
    <2>1. chans[c] \in IoType
      BY <1>2
    <2> QED
      BY <1>2, <2>1 DEF IoType
  <1>3. TornDown(chans, fds) = [c \in Chan |-> TornDown(chans, fds)[c]]
    BY DEF TornDown
  <1>4. \A c \in Chan : TornDown(chans, fds)[c] \in IoType \cup {NULL}
    BY <1>1, <1>2
  <1>5. TornDown(chans, fds) \in [Chan -> IoType \cup {NULL}]
    BY <1>3, <1>4
  <1> QED
    BY <1>1, <1>2, <1>5

LEMMA UnreferencedLemma ==
  ASSUME NEW chans \in [Chan -> IoType \cup {NULL}], NEW c \in Chan,
         chans[c] \in IoType, chans[c].reference_count # 0
  PROVE  LET u == Unreferenced(chans, c) IN
         /\ u \in [Chan -> IoType \cup {NULL}]
         /\ \A o \in Chan \ {c} : u[o] = chans[o]
         /\ chans[c].reference_count = 1 => u[c] = NULL
         /\ chans[c].reference_count # 1 =>
              /\ u[c] \in IoType
              /\ u[c].reference_count = chans[c].reference_count - 1
              /\ u[c].descriptor = chans[c].descriptor
              /\ u[c].events = chans[c].events
              /\ u[c].close_on_destroy = chans[c].close_on_destroy
              /\ u[c].callback = chans[c].callback
              /\ u[c].data = chans[c].data
  <1> DEFINE less == [chans[c] EXCEPT !.reference_count = @ - 1]
             u == Unreferenced(chans, c)
  <1>1. chans[c].reference_count \in Nat \ {0}
    BY DEF IoType
  <1>2. chans[c].reference_count - 1 \in Nat
    BY <1>1
  <1>3. less \in IoType /\ less.reference_count = chans[c].reference_count - 1
    BY <1>2 DEF IoType
  <1>4. /\ less.descriptor = chans[c].descriptor /\ less.events = chans[c].events
        /\ less.close_on_destroy = chans[c].close_on_destroy
        /\ less.callback = chans[c].callback /\ less.data = chans[c].data
    BY DEF IoType
  <1>5. u = [chans EXCEPT ![c] = IF chans[c].reference_count = 1 THEN NULL ELSE less]
    BY DEF Unreferenced, u, less
  <1> HIDE DEF less, u
  <1>6. u \in [Chan -> IoType \cup {NULL}] /\ \A o \in Chan \ {c} : u[o] = chans[o]
    BY <1>3, <1>5
  <1>7. u[c] = IF chans[c].reference_count = 1 THEN NULL ELSE less
    BY <1>5
  <1> QED
    BY <1>3, <1>4, <1>6, <1>7 DEF u
\* The users of descriptors are channels of the program.
LEMMA UsersLemma ==
  ASSUME IInv, NEW fds
  PROVE  /\ Users(fds) \subseteq owned \cap Attached
         /\ \A c \in Users(fds) : io[c].descriptor \in fds /\ watch[io[c].descriptor].chan = c
  <1>1. ASSUME NEW c \in Users(fds)
        PROVE  /\ c \in owned \cap Attached
               /\ io[c].descriptor \in fds /\ watch[io[c].descriptor].chan = c
    <2>1. PICK fd \in fds \cap Listed : c = watch[fd].chan
      BY DEF Users
    <2> QED
      BY <2>1 DEF IInv, ListedAttached
  <1> QED
    BY <1>1

\* User data changes hands within its type, with or without a fault.
LEMMA ExchangeLemma ==
  ASSUME TypeOK, NEW old, NEW new, Exchange(old, new)
  PROVE  /\ data' \in [Data -> {"program", "held", "released"}]
         /\ fault' \in {"none", "null", "twice", "released", "dispatch", "freed", "table"}
  <1>1. CASE \A d \in old : data[d] = "held"
    BY <1>1 DEF Exchange, TypeOK
  <1>2. CASE ~\A d \in old : data[d] = "held"
    BY <1>2 DEF Exchange, TypeOK
  <1> QED
    BY <1>1, <1>2

LEMMA ForgetLemma ==
  ASSUME TypeOK, NEW fds, Forget(fds)
  PROVE  /\ watch' \in [Fd -> Registration \cup {NULL}]
         /\ Watched' = Watched \ (fds \cap Listed)
         /\ \A fd \in Watched' : watch'[fd] = watch[fd]
         /\ dropped' \subseteq Fd /\ dropped \subseteq dropped'
         /\ \A fd \in fds \cap Listed : batch[fd] # {} => fd \in dropped'
         /\ open' \subseteq Fd
         /\ data' \in [Data -> {"program", "held", "released"}]
         /\ fault' \in {"none", "null", "twice", "released", "dispatch", "freed", "table"}
  <1>1. \A fd \in Fd : watch'[fd] = IF fd \in fds \cap Listed THEN NULL ELSE watch[fd]
    BY DEF Forget
  <1>2. watch' \in [Fd -> Registration \cup {NULL}]
    BY DEF Forget, TypeOK
  <1>3. /\ Watched' = Watched \ (fds \cap Listed)
        /\ \A fd \in Watched' : watch'[fd] = watch[fd]
    BY <1>1 DEF Watched
  <1>4. /\ dropped' \subseteq Fd /\ dropped \subseteq dropped'
        /\ \A fd \in fds \cap Listed : batch[fd] # {} => fd \in dropped'
    BY DEF Forget, TypeOK, Watched, Listed
  <1>5. open' \subseteq Fd
    BY DEF Forget, TypeOK
  <1>6. /\ data' \in [Data -> {"program", "held", "released"}]
        /\ fault' \in {"none", "null", "twice", "released", "dispatch", "freed", "table"}
    BY ExchangeLemma DEF Forget, Release
  <1> QED
    BY <1>2, <1>3, <1>4, <1>5, <1>6

\* What loop_modify_sd does to the registrations.
Modified(fd, mask, ok) ==
  /\ watch' \in [Fd -> Registration \cup {NULL}]
  /\ Watched' = Watched
  /\ \A f \in Watched : watch'[f].chan = watch[f].chan
  /\ \A f \in Watched : watch'[f].mask = IF ok /\ f = fd THEN mask ELSE watch[f].mask
  /\ \A f \in Fd : watch'[f] = NULL <=> watch[f] = NULL
  /\ ok => fd \in Listed
  /\ unmodified' \in BOOLEAN
  /\ ~unmodified' <=> ok /\ ~unmodified

LEMMA ModifyLemma ==
  ASSUME TypeOK, NEW fd, NEW mask \in SUBSET Kinds, NEW ok \in BOOLEAN, Modify(fd, mask, ok)
  PROVE  Modified(fd, mask, ok)
  <1>1. unmodified' \in BOOLEAN /\ (~unmodified' <=> ok /\ ~unmodified)
    BY DEF Modify, TypeOK
  <1>2. ASSUME ok
        PROVE  /\ watch' \in [Fd -> Registration \cup {NULL}]
               /\ Watched' = Watched /\ fd \in Listed
               /\ \A f \in Watched : watch'[f].chan = watch[f].chan
               /\ \A f \in Watched : watch'[f].mask = IF f = fd THEN mask ELSE watch[f].mask
               /\ \A f \in Fd : watch'[f] = NULL <=> watch[f] = NULL
    <2>1. fd \in Watched /\ fd \in Listed
      BY <1>2 DEF Modify, Listed
    <2> DEFINE r == [watch[fd] EXCEPT !.mask = mask]
    <2>2. r \in Registration /\ r.chan = watch[fd].chan /\ r.mask = mask
      BY <2>1, WatchTypes DEF Registration
    <2>3. watch' = [watch EXCEPT ![fd] = r]
      BY <1>2 DEF Modify
    <2> HIDE DEF r
    <2>4. watch' \in [Fd -> Registration \cup {NULL}]
      BY <2>2, <2>3 DEF TypeOK
    <2>5. \A f \in Fd : watch'[f] = IF f = fd THEN r ELSE watch[f]
      BY <2>3 DEF TypeOK
    <2>6. r # NULL /\ watch[fd] # NULL /\ fd \in Fd
      BY <2>1, <2>2, NullAssumption DEF Watched
    <2>7. Watched' = Watched
      BY <2>5, <2>6 DEF Watched
    <2> QED
      BY <2>1, <2>2, <2>4, <2>5, <2>6, <2>7 DEF Watched
  <1>3. ASSUME ~ok
        PROVE  watch' = watch
    BY <1>3 DEF Modify
  <1>4. CASE ok
    BY <1>1, <1>2, <1>4 DEF Modified
  <1>5. CASE ~ok
    <2>1. watch' = watch /\ watch' \in [Fd -> Registration \cup {NULL}] /\ Watched' = Watched
      BY <1>3, <1>5 DEF TypeOK, Watched
    <2> QED
      BY <1>1, <1>5, <2>1 DEF Modified
  <1> QED
    BY <1>4, <1>5

-----------------------------------------------------------------------------
(***************************************************************************)
(* The steps that end registrations: io_destroy, loop_quit, and a hang-up  *)
(* with nobody to tell.                                                    *)
(***************************************************************************)

\* A removal that shifts the table loses descriptors, and the table stays damaged.
Damages ==
  /\ lost \subseteq lost' /\ lost' \subseteq Fd /\ holed' \in BOOLEAN
  /\ ~holed' => ~holed /\ lost' = lost

LEMMA DamagesLemma ==
  ASSUME TypeOK
  PROVE  /\ UNCHANGED damage => Damages
         /\ \A listed \in SUBSET Fd : Shifted(listed) => Damages
         /\ \A fd : Shifts(fd) => Damages
  <1>1. ASSUME UNCHANGED damage
        PROVE  Damages
    BY <1>1 DEF TypeOK, damage, Damages
  <1>2. ASSUME NEW listed \in SUBSET Fd, Shifted(listed)
        PROVE  Damages
    BY <1>2 DEF TypeOK, Shifted, Damages
  <1>3. ASSUME NEW fd, Shifts(fd)
        PROVE  Damages
    <2>1. Listed \ {fd} \in SUBSET Fd
      BY DEF Listed, Watched
    <2> QED
      BY <1>1, <1>2, <1>3, <2>1 DEF Shifts
  <1> QED
    BY <1>1, <1>2, <1>3

\* A step that has the loop forget fds, and in which the program gives up the
\* channels gone.
Teardown(fds, gone) ==
  /\ Forget(fds) /\ Damages /\ owned' = owned \ gone
  /\ UNCHANGED <<batch, sd, cur, refused, unmodified>>
  /\ \A c \in gone : c \in owned /\ io[c].descriptor \in fds \cup {NULL}
  /\ io' \in [Chan -> IoType \cup {NULL}]
  /\ \A c \in Chan \ Allocated : io'[c] = NULL
  /\ \A c \in Allocated \ gone : Survives(c, fds, io', io[c].reference_count)
  /\ \A c \in gone : IF io[c].reference_count = 1 THEN io'[c] = NULL
                     ELSE /\ Survives(c, fds, io', io[c].reference_count - 1)
                          /\ \A k \in Kinds : ~io'[c].callback[k]

\* A destroyed channel without a descriptor, which the loop is asked to remove as
\* -1, is in no registration.
LEMMA TeardownStep ==
  ASSUME IInv, NEW fds, NEW gone, Teardown(fds, gone)
  PROVE  /\ ReferencesCounted' /\ BatchWatched' /\ ListedAttached' /\ AttachedRegistered'
         /\ DestroyedSilent' /\ Intact' /\ CurDescriptor'
  <1> USE DEF IInv
  <1>0. Forget(fds) /\ Damages /\ owned' = owned \ gone
        /\ UNCHANGED <<batch, sd, cur, refused, unmodified>>
    BY DEF Teardown
  <1>1. /\ watch' \in [Fd -> Registration \cup {NULL}]
        /\ Watched' = Watched \ (fds \cap Listed)
        /\ \A fd \in Watched' : watch'[fd] = watch[fd]
        /\ dropped' \subseteq Fd /\ dropped \subseteq dropped'
        /\ \A fd \in fds \cap Listed : batch[fd] # {} => fd \in dropped'
    BY <1>0, ForgetLemma
  <1>2. \A c \in Chan \ Allocated : io'[c] = NULL
    BY DEF Teardown
  <1>3. \A c \in Allocated \ gone : Survives(c, fds, io', io[c].reference_count)
    BY DEF Teardown
  <1>4. ASSUME NEW c \in gone
        PROVE  /\ c \in owned /\ c \in Allocated /\ io[c].descriptor \in fds \cup {NULL}
               /\ IF io[c].reference_count = 1 THEN io'[c] = NULL
                  ELSE /\ Survives(c, fds, io', io[c].reference_count - 1)
                       /\ \A k \in Kinds : ~io'[c].callback[k]
    <2>1. c \in owned /\ c \in Chan
      BY DEF Teardown, TypeOK
    <2>2. c \in Allocated
      BY <2>1 DEF ReferencesCounted, Holders
    <2> QED
      BY <2>1, <2>2 DEF Teardown
  <1>5. Allocated \subseteq Chan /\ Allocated' \subseteq Allocated /\ NULL \notin IoType
    BY <1>2, NullAssumption DEF Allocated
  <1>6. \A c \in Chan : Holders(c) \in {0, 1, 2} /\ (c \in owned => Holders(c) # 0)
    BY DEF Holders
  <1>7. ReferencesCounted'
    <2> SUFFICES ASSUME NEW c \in Chan
                 PROVE  /\ io'[c] # NULL <=> Holders(c)' # 0
                        /\ io'[c] # NULL => io'[c].reference_count = Holders(c)'
      BY DEF ReferencesCounted, Allocated
    <2>1. CASE c \notin gone
      <3>1. Holders(c)' = Holders(c)
        BY <1>0, <2>1 DEF Holders
      <3> QED
        BY <1>2, <1>3, <1>5, <2>1, <3>1 DEF ReferencesCounted, Allocated, Survives
    <2>2. CASE c \in gone
      <3>1. Holders(c)' = Holders(c) - 1
        BY <1>0, <1>4, <2>2 DEF Holders
      <3>2. io[c].reference_count = Holders(c)
        BY <1>4, <2>2 DEF ReferencesCounted
      <3> QED
        BY <1>4, <1>5, <2>2, <3>1, <3>2 DEF Survives
    <2> QED
      BY <2>1, <2>2
  <1>8. BatchWatched'
    BY <1>0, <1>1 DEF BatchWatched
  <1>9. \A c \in Attached' : /\ c \in Attached /\ c \notin Users(fds)
                             /\ io'[c].descriptor = io[c].descriptor
    <2> SUFFICES ASSUME NEW c \in Chan, io'[c] # NULL, io'[c].descriptor # NULL
                 PROVE  /\ c \in Attached /\ c \notin Users(fds)
                        /\ io'[c].descriptor = io[c].descriptor
      BY DEF Attached, Allocated
    <2>1. c \in Allocated
      BY <1>2
    <2>2. \E count : Survives(c, fds, io', count)
      BY <1>3, <1>4, <2>1
    <2> QED
      BY <2>1, <2>2 DEF Survives, Attached
  <1>10. ASSUME NEW c \in Attached', Registered(c), io[c].descriptor \in Fd
         PROVE  Registered(c)'
    <2>1. io'[c].descriptor = io[c].descriptor /\ c \notin Users(fds)
      BY <1>9
    <2>2. io[c].descriptor \in Watched
      BY <1>10 DEF Registered, Watched
    <2>3. io[c].descriptor \notin fds \cap Listed
      BY <1>10, <2>1, <2>2 DEF Users, Registered
    <2> QED
      BY <1>1, <1>10, <2>1, <2>2, <2>3 DEF Registered
  <1>11. \A c \in Attached' : io[c].descriptor \in Fd
    <2>1. \A c \in Attached : c \in Allocated /\ io[c].descriptor # NULL
      BY DEF Attached
    <2> QED
      BY <1>9, <2>1, ChannelTypes
  <1>12. AttachedRegistered'
    BY <1>0, <1>9, <1>10, <1>11 DEF AttachedRegistered
  <1>13. Intact' /\ CurDescriptor'
    BY <1>0, <1>9 DEF Intact, CurDescriptor, Damages
  <1>14. ListedAttached'
    <2> SUFFICES ASSUME NEW fd \in Listed'
                 PROVE  /\ watch'[fd].chan \in owned' \cap Attached'
                        /\ io'[watch'[fd].chan].descriptor = fd
      BY DEF ListedAttached
    <2> DEFINE c == watch[fd].chan
    <2>1. fd \in Listed /\ fd \notin fds /\ watch'[fd] = watch[fd]
      BY <1>0, <1>1 DEF Listed, Damages
    <2>2. c \in owned \cap Attached /\ io[c].descriptor = fd /\ fd \in Fd /\ fd # NULL
      BY <2>1, NullAssumption DEF ListedAttached, Listed, Watched
    <2>3. c \notin gone
      BY <1>4, <2>1, <2>2
    <2>4. c \notin Users(fds)
      BY <2>1, <2>2, UsersLemma
    <2>5. Survives(c, fds, io', io[c].reference_count) /\ c \in Chan
      BY <1>3, <1>5, <2>2, <2>3 DEF Attached
    <2>6. io'[c].descriptor = fd /\ io'[c] # NULL
      BY <1>5, <2>2, <2>4, <2>5 DEF Survives
    <2> QED
      BY <1>0, <2>1, <2>2, <2>3, <2>5, <2>6 DEF Attached, Allocated
  <1>15. DestroyedSilent'
    <2> SUFFICES ASSUME NEW c \in Allocated' \ owned', NEW k \in Kinds
                 PROVE  ~io'[c].callback[k]
      BY DEF DestroyedSilent
    <2>1. c \in Allocated /\ io'[c] # NULL
      BY <1>5 DEF Allocated
    <2>2. CASE c \in gone
      BY <1>4, <2>1, <2>2
    <2>3. CASE c \notin gone
      BY <1>0, <1>3, <2>1, <2>3 DEF Survives, DestroyedSilent
    <2> QED
      BY <2>2, <2>3
  <1> QED
    BY <1>7, <1>8, <1>12, <1>13, <1>14, <1>15
\* Channels that are torn down as they are, or silenced first.
LEMMA TornDownSurvives ==
  ASSUME IInv, NEW chans \in [Chan -> IoType \cup {NULL}], NEW fds,
         NEW c \in Allocated, Survives(c, {}, chans, io[c].reference_count),
         \A o \in Users(fds) : o \in Chan /\ chans[o] # NULL
  PROVE  Survives(c, fds, TornDown(chans, fds), io[c].reference_count)
  <1>1. c \in Chan /\ Users({}) = {}
    BY ChannelTypes DEF IInv, Users
  <1>2. CASE c \in Users(fds)
    <2> DEFINE t == TornDown(chans, fds)[c]
    <2>1. /\ t \in IoType /\ t.descriptor = NULL
          /\ t.reference_count = chans[c].reference_count /\ t.events = chans[c].events
          /\ t.close_on_destroy = chans[c].close_on_destroy
          /\ t.callback = chans[c].callback /\ t.data = chans[c].data
      BY <1>2, TornDownLemma
    <2> HIDE DEF t
    <2>2. Survives(c, fds, TornDown(chans, fds), io[c].reference_count)
            <=> /\ t \in IoType /\ t.reference_count = io[c].reference_count
                /\ t.descriptor = NULL /\ t.events = io[c].events /\ t.data = io[c].data
                /\ t.close_on_destroy = io[c].close_on_destroy
                /\ \A k \in Kinds : t.callback[k] => io[c].callback[k]
      BY <1>2 DEF Survives, t
    <2> QED
      BY <2>1, <2>2 DEF Survives
  <1>3. CASE c \notin Users(fds)
    <2>1. TornDown(chans, fds)[c] = chans[c]
      BY <1>1, <1>3, TornDownLemma
    <2> QED
      BY <1>1, <1>3, <2>1 DEF Survives
  <1> QED
    BY <1>2, <1>3

LEMMA UnchangedSurvives ==
  ASSUME TypeOK, NEW chans, NEW c \in Allocated, chans[c] = io[c]
  PROVE  Survives(c, {}, chans, io[c].reference_count)
  BY ChannelTypes DEF Survives, Users

LEMMA IoDestroyTeardown ==
  ASSUME IInv, NEW c \in Chan, IoDestroy(c)
  PROVE  /\ Teardown({io[c].descriptor}, {c}) /\ UNCHANGED <<stopped, event>>
         /\ c \in Allocated
  <1> USE DEF IInv
  <1> DEFINE fds == {io[c].descriptor}
             muted == Muted(Kinds, c)
             torn == TornDown(muted, fds)
             freed == Unreferenced(torn, c)
  <1>0. /\ c \in owned /\ owned' = owned \ {c} /\ Forget(fds) /\ io' = freed
        /\ UNCHANGED <<batch, stopped, event, history>> /\ Shifts(io[c].descriptor)
    BY DEF IoDestroy
  <1>1. /\ c \in Allocated /\ io[c].reference_count = Holders(c)
        /\ io[c].reference_count \in {1, 2}
    BY <1>0 DEF ReferencesCounted, Holders
  <1>2. /\ muted \in [Chan -> IoType \cup {NULL}]
        /\ \A o \in Chan \ {c} : muted[o] = io[o]
        /\ Survives(c, {}, muted, io[c].reference_count)
        /\ \A k \in Kinds : ~muted[c].callback[k]
    BY <1>1, MutedLemma
  <1> HIDE DEF muted
  <1>3. \A o \in Allocated : Survives(o, {}, muted, io[o].reference_count) /\ muted[o] # NULL
    BY <1>2, UnchangedSurvives, NullAssumption DEF Survives, Allocated
  <1>4. Users(fds) \subseteq Allocated /\ Allocated \subseteq Chan
    BY UsersLemma DEF Attached, Allocated
  <1> HIDE DEF fds
  <1>5. \A o \in Users(fds) : o \in Chan /\ muted[o] # NULL
    BY <1>3, <1>4
  <1>6. /\ torn \in [Chan -> IoType \cup {NULL}]
        /\ \A o \in Chan \ Users(fds) : torn[o] = muted[o]
        /\ \A o \in Users(fds) : torn[o].callback = muted[o].callback
    BY <1>2, <1>5, TornDownLemma
  <1>7. \A o \in Allocated : Survives(o, fds, torn, io[o].reference_count)
    BY <1>2, <1>3, <1>5, TornDownSurvives
  <1>8. \A k \in Kinds : ~torn[c].callback[k]
    BY <1>2, <1>6
  <1> HIDE DEF torn
  <1>9. torn[c] \in IoType /\ torn[c].reference_count = io[c].reference_count
    BY <1>1, <1>7 DEF Survives
  <1>10. /\ freed \in [Chan -> IoType \cup {NULL}]
         /\ \A o \in Chan \ {c} : freed[o] = torn[o]
         /\ torn[c].reference_count = 1 => freed[c] = NULL
         /\ torn[c].reference_count # 1 =>
              /\ freed[c] \in IoType
              /\ freed[c].reference_count = torn[c].reference_count - 1
              /\ freed[c].descriptor = torn[c].descriptor
              /\ freed[c].events = torn[c].events
              /\ freed[c].close_on_destroy = torn[c].close_on_destroy
              /\ freed[c].callback = torn[c].callback
              /\ freed[c].data = torn[c].data
    BY <1>1, <1>6, <1>9, UnreferencedLemma
  <1> HIDE DEF freed
  <1>11. \A o \in Chan \ Allocated : freed[o] = NULL
    <2> TAKE o \in Chan \ Allocated
    <2>1. o # c /\ o \notin Users(fds)
      BY <1>1, <1>4
    <2> QED
      BY <1>2, <1>6, <1>10, <2>1 DEF Allocated
  <1>12. \A o \in Allocated \ {c} : Survives(o, fds, freed, io[o].reference_count)
    BY <1>4, <1>7, <1>10 DEF Survives
  <1>13. IF io[c].reference_count = 1 THEN freed[c] = NULL
         ELSE /\ Survives(c, fds, freed, io[c].reference_count - 1)
              /\ \A k \in Kinds : ~freed[c].callback[k]
    BY <1>1, <1>7, <1>8, <1>9, <1>10 DEF Survives
  <1>14. io[c].descriptor \in fds
    BY DEF fds
  <1>15. Damages
    BY <1>0, DamagesLemma
  <1>16. Teardown(fds, {c})
    BY <1>0, <1>10, <1>11, <1>12, <1>13, <1>14, <1>15 DEF Teardown, event, history
  <1> QED
    BY <1>0, <1>1, <1>16 DEF fds

LEMMA LoopQuitTeardown ==
  ASSUME IInv, LoopQuit
  PROVE  Teardown(Fd, {}) /\ stopped' = TRUE /\ UNCHANGED event
  <1> USE DEF IInv
  <1>0. /\ UNCHANGED <<owned, batch, event, history>> /\ Forget(Fd) /\ io' = TornDown(io, Fd)
        /\ stopped' = TRUE /\ Damages
    BY DamagesLemma DEF LoopQuit
  <1>1. io \in [Chan -> IoType \cup {NULL}]
    BY DEF TypeOK
  <1>2. Users(Fd) \subseteq Allocated /\ Allocated \subseteq Chan
    BY UsersLemma DEF Attached, Allocated
  <1>3. \A o \in Users(Fd) : o \in Chan /\ io[o] # NULL
    BY <1>2 DEF Allocated
  <1>4. \A o \in Allocated : Survives(o, Fd, io', io[o].reference_count)
    BY <1>0, <1>1, <1>3, UnchangedSurvives, TornDownSurvives
  <1>5. /\ io' \in [Chan -> IoType \cup {NULL}]
        /\ \A o \in Chan \ Users(Fd) : io'[o] = io[o]
    BY <1>0, <1>1, <1>3, TornDownLemma
  <1>6. \A o \in Chan \ Allocated : io'[o] = NULL
    BY <1>2, <1>5 DEF Allocated
  <1> QED
    BY <1>0, <1>4, <1>5, <1>6 DEF Teardown, event, history

LEMMA AbandonTeardown ==
  ASSUME IInv, Abandon
  PROVE  /\ Teardown({io[cur].descriptor}, {}) /\ cur \in Allocated
         /\ \A k \in Kinds : ~io'[cur].callback[k]
         /\ UNCHANGED <<stopped, called, sd, cur, ev>> /\ at' = "done"
  <1> USE DEF IInv
  <1> DEFINE fds == {io[cur].descriptor}
             muted == Muted({"read", "write"}, cur)
  <1>0. /\ UNCHANGED <<owned, batch, stopped, called, sd, cur, ev, history>> /\ at' = "done"
        /\ Forget(fds) /\ io' = TornDown(muted, fds) /\ Damages
        /\ at = "disconnect" /\ ~io[cur].callback["disconnect"]
    BY DamagesLemma DEF Abandon, Stage
  <1>1. cur \in Allocated
    <2>1. cur \in Chan
      BY <1>0 DEF EventShape, TypeOK
    <2> QED
      BY <2>1 DEF ReferencesCounted, Holders
  <1>2. /\ muted \in [Chan -> IoType \cup {NULL}]
        /\ \A o \in Chan \ {cur} : muted[o] = io[o]
        /\ Survives(cur, {}, muted, io[cur].reference_count)
        /\ \A k \in Kinds : ~muted[cur].callback[k]
    BY <1>0, <1>1, MutedLemma DEF Kinds
  <1> HIDE DEF muted
  <1>3. \A o \in Allocated : Survives(o, {}, muted, io[o].reference_count) /\ muted[o] # NULL
    BY <1>2, UnchangedSurvives, NullAssumption DEF Survives, Allocated
  <1>4. Users(fds) \subseteq Allocated /\ Allocated \subseteq Chan
    BY UsersLemma DEF Attached, Allocated
  <1> HIDE DEF fds
  <1>5. \A o \in Users(fds) : o \in Chan /\ muted[o] # NULL
    BY <1>3, <1>4
  <1>6. /\ io' \in [Chan -> IoType \cup {NULL}]
        /\ \A o \in Chan \ Users(fds) : io'[o] = muted[o]
        /\ \A o \in Users(fds) : io'[o].callback = muted[o].callback
    BY <1>0, <1>2, <1>5, TornDownLemma
  <1>7. \A o \in Allocated : Survives(o, fds, io', io[o].reference_count)
    BY <1>0, <1>2, <1>3, <1>5, TornDownSurvives
  <1>8. \A k \in Kinds : ~io'[cur].callback[k]
    BY <1>1, <1>2, <1>4, <1>6
  <1>9. \A o \in Chan \ Allocated : io'[o] = NULL
    BY <1>1, <1>2, <1>4, <1>6 DEF Allocated
  <1>10. Teardown(fds, {})
    BY <1>0, <1>6, <1>7, <1>9 DEF Teardown, history
  <1> QED
    BY <1>0, <1>1, <1>8, <1>10 DEF fds
-----------------------------------------------------------------------------
(***************************************************************************)
(* The other steps.                                                        *)
(***************************************************************************)
Core ==
  /\ ReferencesCounted /\ BatchWatched /\ ListedAttached /\ AttachedRegistered
  /\ DestroyedSilent /\ Intact /\ CurDescriptor

\* A step that changes the handlers of channel c, and the masks of the loop.
Rewrites(c, r) ==
  /\ c \in Allocated /\ r \in IoType
  /\ r.descriptor = io[c].descriptor /\ r.reference_count = io[c].reference_count
  /\ c \in owned \/ \A k \in Kinds : r.callback[k] => io[c].callback[k]
  /\ io' = [io EXCEPT ![c] = r]
  /\ Watched' = Watched /\ \A fd \in Watched : watch'[fd].chan = watch[fd].chan
  /\ UNCHANGED <<owned, batch, dropped, sd, cur, damage, refused>>

LEMMA RewritesLemma ==
  ASSUME TypeOK, NEW c, NEW r, Rewrites(c, r)
  PROVE  /\ io' \in [Chan -> IoType \cup {NULL}]
         /\ c \in Chan /\ io'[c] = r /\ \A o \in Chan \ {c} : io'[o] = io[o]
         /\ Allocated' = Allocated /\ Attached' = Attached
         /\ \A o \in Allocated : /\ io'[o].descriptor = io[o].descriptor
                                 /\ io'[o].reference_count = io[o].reference_count
  <1>1. c \in Chan /\ io[c] # NULL /\ r # NULL /\ r \in IoType
    BY NullAssumption DEF Rewrites, Allocated
  <1>2. io' = [io EXCEPT ![c] = r]
    BY DEF Rewrites
  <1>3. /\ io' \in [Chan -> IoType \cup {NULL}]
        /\ io'[c] = r /\ \A o \in Chan \ {c} : io'[o] = io[o]
    BY <1>1, <1>2 DEF TypeOK
  <1>4. Allocated' = Allocated
    BY <1>1, <1>3 DEF Allocated
  <1>5. \A o \in Allocated : /\ io'[o].descriptor = io[o].descriptor
                             /\ io'[o].reference_count = io[o].reference_count
    BY <1>3 DEF Rewrites, Allocated
  <1>6. Attached' = Attached
    BY <1>4, <1>5 DEF Attached
  <1> QED
    BY <1>1, <1>3, <1>4, <1>5, <1>6

LEMMA RewriteStep ==
  ASSUME IInv, NEW c, NEW r, Rewrites(c, r)
  PROVE  Core'
  <1> USE DEF IInv
  <1>1. /\ c \in Chan /\ io'[c] = r /\ \A o \in Chan \ {c} : io'[o] = io[o]
        /\ Allocated' = Allocated /\ Attached' = Attached
        /\ \A o \in Allocated : /\ io'[o].descriptor = io[o].descriptor
                                /\ io'[o].reference_count = io[o].reference_count
    BY RewritesLemma
  <1>2. /\ Watched' = Watched /\ \A fd \in Watched : watch'[fd].chan = watch[fd].chan
        /\ UNCHANGED <<owned, batch, dropped, sd, cur, lost, holed, refused>>
    BY DEF Rewrites, damage
  <1>3. Attached \subseteq Allocated /\ Allocated \subseteq Chan
    BY DEF Attached, Allocated
  <1>4. ReferencesCounted'
    BY <1>1, <1>2 DEF ReferencesCounted, Holders
  <1>5. BatchWatched'
    BY <1>2 DEF BatchWatched
  <1>6. ListedAttached'
    BY <1>1, <1>2, <1>3 DEF ListedAttached, Listed
  <1>7. \A o \in Attached : Registered(o) => Registered(o)'
    <2> SUFFICES ASSUME NEW o \in Attached, Registered(o)
                 PROVE  Registered(o)'
      OBVIOUS
    <2>1. io[o].descriptor \in Fd
      BY <1>3, ChannelTypes DEF Attached
    <2>2. io[o].descriptor \in Watched
      BY <2>1 DEF Registered, Watched
    <2> QED
      BY <1>1, <1>2, <1>3, <2>2 DEF Registered, Watched
  <1>8. AttachedRegistered' /\ Intact' /\ CurDescriptor'
    BY <1>1, <1>2, <1>3, <1>7 DEF AttachedRegistered, Intact, CurDescriptor
  <1>9. DestroyedSilent'
    BY <1>1, <1>2 DEF DestroyedSilent, Rewrites
  <1> QED
    BY <1>4, <1>5, <1>6, <1>8, <1>9 DEF Core

\* io_new.  The first user of a free address: the counts of others stay.
LEMMA IoNewStep ==
  ASSUME IInv, NEW fd \in Fd, NEW c \in Chan, IoNew(fd, c) \/ IoNewRefused(fd, c)
  PROVE  /\ Core' /\ io' \in [Chan -> IoType \cup {NULL}] /\ c \notin Allocated
         /\ io'[c] = NewIo(fd) /\ (\A o \in Chan \ {c} : io'[o] = io[o])
         /\ Allocated' = Allocated \cup {c} /\ Attached' = Attached \cup {c}
  <1> USE DEF IInv
  <1>1. /\ io[c] = NULL /\ io' = [io EXCEPT ![c] = NewIo(fd)] /\ owned' = owned \cup {c}
        /\ UNCHANGED <<batch, dropped, sd, cur, lost, holed>>
    BY DEF IoNew, IoNewRefused, loop, event, damage
  <1>2. /\ NewIo(fd) \in IoType /\ NewIo(fd) # NULL
        /\ NewIo(fd).reference_count = 1 /\ NewIo(fd).descriptor = fd
        /\ \A k \in Kinds : ~NewIo(fd).callback[k]
    BY NewIoLemma
  <1>3. /\ io' \in [Chan -> IoType \cup {NULL}]
        /\ io'[c] = NewIo(fd) /\ \A o \in Chan \ {c} : io'[o] = io[o]
    BY <1>1, <1>2 DEF TypeOK
  <1>4. c \notin Allocated /\ c \notin owned /\ c # cur
    BY <1>1 DEF Allocated, ReferencesCounted, Holders
  <1>5. Allocated' = Allocated \cup {c} /\ Attached' = Attached \cup {c}
    BY <1>2, <1>3, <1>4, NullAssumption DEF Allocated, Attached
  <1>6. Attached \subseteq Allocated /\ Allocated \subseteq Chan
    BY DEF Attached, Allocated
  <1>7. /\ Watched \subseteq Watched' /\ \A f \in Watched : watch'[f].chan = watch[f].chan
        /\ \/ UNCHANGED watch /\ refused'
           \/ /\ Watched' = Watched \cup {fd} /\ watch'[fd] # NULL /\ watch'[fd].chan = c
              /\ UNCHANGED refused
    <2>1. CASE IoNewRefused(fd, c)
      BY <2>1 DEF IoNewRefused, Watched
    <2>2. CASE IoNew(fd, c)
      <3> DEFINE r == [chan |-> c, mask |-> {}]
      <3>1. r \in Registration /\ r # NULL /\ r.chan = c
        BY NullAssumption DEF Registration
      <3>2. watch' = [watch EXCEPT ![fd] = r] /\ fd \notin Watched /\ UNCHANGED refused
        BY <2>2 DEF IoNew, history
      <3> HIDE DEF r
      <3>3. \A f \in Fd : watch'[f] = IF f = fd THEN r ELSE watch[f]
        BY <3>2 DEF TypeOK
      <3> QED
        BY <3>1, <3>2, <3>3 DEF Watched
    <2> QED
      BY <2>1, <2>2
  <1>8. ReferencesCounted'
    BY <1>1, <1>2, <1>3, <1>4, <1>5 DEF ReferencesCounted, Holders
  <1>9. BatchWatched'
    BY <1>1, <1>7 DEF BatchWatched
  <1>10. ListedAttached'
    <2> SUFFICES ASSUME NEW f \in Listed'
                 PROVE  /\ watch'[f].chan \in owned' \cap Attached'
                        /\ io'[watch'[f].chan].descriptor = f
      BY DEF ListedAttached
    <2>0. f \in Watched' /\ f \notin lost
      BY <1>1 DEF Listed
    <2>1. CASE f \in Watched
      <3> DEFINE o == watch[f].chan
      <3>1. o \in owned \cap Attached /\ io[o].descriptor = f
        BY <2>0, <2>1 DEF ListedAttached, Listed
      <3>2. watch'[f].chan = o /\ io'[o] = io[o]
        BY <1>3, <1>4, <1>6, <1>7, <2>1, <3>1
      <3> QED
        BY <1>1, <1>5, <3>1, <3>2
    <2>2. CASE f \notin Watched
      <3>1. f = fd /\ watch'[f].chan = c
        BY <1>7, <2>0, <2>2 DEF Watched
      <3> QED
        BY <1>1, <1>2, <1>3, <1>5, <3>1
    <2> QED
      BY <2>1, <2>2
  <1>11. \A o \in Attached : Registered(o) => Registered(o)'
    <2> SUFFICES ASSUME NEW o \in Attached, Registered(o)
                 PROVE  Registered(o)'
      OBVIOUS
    <2>1. io[o].descriptor \in Fd
      BY <1>6, ChannelTypes DEF Attached
    <2>2. io[o].descriptor \in Watched
      BY <2>1 DEF Registered, Watched
    <2>3. io'[o] = io[o]
      BY <1>3, <1>4, <1>6
    <2> QED
      BY <1>7, <2>2, <2>3 DEF Registered, Watched
  <1>12. AttachedRegistered'
    <2> SUFFICES ASSUME ~refused', NEW o \in Attached'
                 PROVE  Registered(o)'
      BY DEF AttachedRegistered
    <2>1. ~refused /\ watch'[fd] # NULL /\ watch'[fd].chan = c
      BY <1>7
    <2>2. CASE o = c
      BY <1>2, <1>3, <2>1, <2>2 DEF Registered
    <2>3. CASE o # c
      BY <1>5, <1>11, <2>1, <2>3 DEF AttachedRegistered
    <2> QED
      BY <2>2, <2>3
  <1>13. Intact' /\ CurDescriptor'
    BY <1>1, <1>3, <1>4, <1>5, <1>6 DEF Intact, CurDescriptor
  <1>14. DestroyedSilent'
    BY <1>1, <1>3, <1>4, <1>5, <1>6 DEF DestroyedSilent
  <1> QED
    BY <1>3, <1>4, <1>5, <1>8, <1>9, <1>10, <1>12, <1>13, <1>14 DEF Core

\* io_process_event begins: its channel is one of the program, which holds the
\* other reference, and if the table is whole, the one of the descriptor.
LEMMA StartStep ==
  ASSUME IInv, NEW fd \in Fd, Start(fd)
  PROVE  /\ Core' /\ fd \in Watched /\ cur' \in Chan
         /\ io' \in [Chan -> IoType \cup {NULL}]
         /\ Allocated' = Allocated /\ Attached' = Attached /\ cur' \in owned \cap Allocated
         /\ \A o \in Allocated : /\ io'[o].descriptor = io[o].descriptor
                                 /\ io'[o].data = io[o].data /\ io'[o].events = io[o].events
                                 /\ io'[o].callback = io[o].callback
  <1> USE DEF IInv
  <1> DEFINE c == watch[fd].chan
             r == [io[c] EXCEPT !.reference_count = @ + 1]
  <1>1. /\ at = "idle" /\ cur = NULL /\ cur' = c
        /\ UNCHANGED <<owned, watch, dropped, lost, holed, refused>>
        /\ batch' = [batch EXCEPT ![fd] = {}] /\ sd' = fd /\ io[c] # NULL
    BY DEF Start, EventShape, damage, history
  <1>2. fd \in Watched
    BY DEF Start, BatchWatched
  <1>3. c \in owned /\ c \in Chan /\ c \in Allocated /\ c # cur
    <2>1. c \in Chan /\ c # cur
      BY <1>1, <1>2, WatchTypes, NullAssumption
    <2>2. c \in Allocated
      BY <1>1, <2>1 DEF Allocated
    <2> QED
      BY <2>1, <2>2 DEF ReferencesCounted, Holders
  <1>4. io[c] \in IoType /\ io[c].reference_count = 1
    BY <1>3, ChannelTypes DEF ReferencesCounted, Holders
  <1>5. /\ r \in IoType /\ r.reference_count = 2 /\ r.descriptor = io[c].descriptor
        /\ r.data = io[c].data /\ r.events = io[c].events /\ r.callback = io[c].callback
    BY <1>4 DEF IoType
  <1>6. io' = [io EXCEPT ![c] = r]
    BY DEF Start
  <1> HIDE DEF r
  <1>7. /\ io' \in [Chan -> IoType \cup {NULL}]
        /\ io'[c] = r /\ \A o \in Chan \ {c} : io'[o] = io[o]
    BY <1>3, <1>5, <1>6 DEF TypeOK
  <1>8. Allocated' = Allocated
    BY <1>3, <1>4, <1>5, <1>7, NullAssumption DEF Allocated
  <1>9. \A o \in Allocated : /\ io'[o].descriptor = io[o].descriptor
                             /\ io'[o].data = io[o].data /\ io'[o].events = io[o].events
                             /\ io'[o].callback = io[o].callback
    BY <1>5, <1>7 DEF Allocated
  <1>10. Attached' = Attached
    BY <1>8, <1>9 DEF Attached
  <1> HIDE DEF c
  <1>11. ReferencesCounted'
    BY <1>1, <1>3, <1>5, <1>7, <1>8, NullAssumption DEF ReferencesCounted, Holders
  <1>12. BatchWatched'
    BY <1>1 DEF BatchWatched, TypeOK, Watched
  <1>13. Attached \subseteq Allocated
    BY DEF Attached
  <1>14. ListedAttached'
    BY <1>1, <1>9, <1>10, <1>13 DEF ListedAttached, Listed, Watched
  <1>15. AttachedRegistered'
    BY <1>1, <1>9, <1>10, <1>13 DEF AttachedRegistered, Registered
  <1>16. Intact' /\ CurDescriptor'
    <2>1. ~holed => io[c].descriptor = fd
      BY <1>2 DEF Intact, Listed, ListedAttached, c
    <2> QED
      BY <1>1, <1>5, <1>7, <2>1 DEF Intact, CurDescriptor
  <1>17. DestroyedSilent'
    BY <1>1, <1>8, <1>9 DEF DestroyedSilent
  <1> QED
    BY <1>1, <1>2, <1>3, <1>7, <1>8, <1>9, <1>10, <1>11, <1>12, <1>14, <1>15, <1>16, <1>17
    DEF Core

\* io_process_event ends: the channel is freed if the program has destroyed it,
\* and then the table has it no more.
LEMMA FinishStep ==
  ASSUME IInv, Finish
  PROVE  /\ Core' /\ io' \in [Chan -> IoType \cup {NULL}]
         /\ Allocated' \subseteq Allocated /\ Attached' = Attached \cap Allocated'
         /\ owned \subseteq Allocated' /\ (~refused /\ ~holed => Attached' = Attached)
         /\ \A o \in Allocated' : /\ io'[o].descriptor = io[o].descriptor
                                  /\ io'[o].data = io[o].data /\ io'[o].events = io[o].events
                                  /\ io'[o].callback = io[o].callback
  <1> USE DEF IInv
  <1>1. /\ at = "done" /\ cur \in Chan /\ cur' = NULL /\ io' = Unreferenced(io, cur)
        /\ UNCHANGED <<owned, watch, batch, dropped, lost, holed, refused>>
    BY DEF Finish, EventShape, TypeOK, loop, damage, history
  <1>2. /\ cur \in Allocated /\ io[cur] \in IoType
        /\ io[cur].reference_count = IF cur \in owned THEN 2 ELSE 1
    <2>1. cur \in Allocated
      BY <1>1 DEF ReferencesCounted, Holders
    <2> QED
      BY <1>1, <2>1, ChannelTypes DEF ReferencesCounted, Holders
  <1>3. /\ io' \in [Chan -> IoType \cup {NULL}]
        /\ \A o \in Chan \ {cur} : io'[o] = io[o]
        /\ io[cur].reference_count = 1 => io'[cur] = NULL
        /\ io[cur].reference_count # 1 =>
             /\ io'[cur] \in IoType
             /\ io'[cur].reference_count = io[cur].reference_count - 1
             /\ io'[cur].descriptor = io[cur].descriptor
             /\ io'[cur].events = io[cur].events
             /\ io'[cur].callback = io[cur].callback
             /\ io'[cur].data = io[cur].data
    <2>1. io \in [Chan -> IoType \cup {NULL}] /\ io[cur].reference_count # 0
      BY <1>2 DEF TypeOK
    <2> QED
      BY <1>1, <1>2, <2>1, UnreferencedLemma
  <1>4. Allocated' = IF cur \in owned THEN Allocated ELSE Allocated \ {cur}
    BY <1>1, <1>2, <1>3, NullAssumption DEF Allocated
  <1>5. \A o \in Allocated' : /\ io'[o].descriptor = io[o].descriptor
                              /\ io'[o].data = io[o].data /\ io'[o].events = io[o].events
                              /\ io'[o].callback = io[o].callback
    BY <1>2, <1>3, <1>4 DEF Allocated
  <1>6. ~refused /\ ~holed /\ cur \in Attached => cur \in owned
    <2> SUFFICES ASSUME ~refused, ~holed, cur \in Attached
                 PROVE  cur \in owned
      OBVIOUS
    <2>1. Registered(cur) /\ io[cur].descriptor \in Fd
      BY <1>2, ChannelTypes DEF AttachedRegistered, Attached
    <2>2. io[cur].descriptor \in Listed
      BY <2>1 DEF Registered, Watched, Listed, Intact
    <2> QED
      BY <2>1, <2>2 DEF Registered, ListedAttached
  <1>7. Attached' = Attached \cap Allocated' /\ (~refused /\ ~holed => Attached' = Attached)
    BY <1>4, <1>5, <1>6 DEF Attached
  <1>8. owned \subseteq Allocated' /\ Allocated \subseteq Chan
    BY <1>4 DEF Allocated, TypeOK, ReferencesCounted, Holders
  <1>9. ReferencesCounted'
    BY <1>1, <1>2, <1>3, <1>4, NullAssumption DEF ReferencesCounted, Holders
  <1>10. BatchWatched'
    BY <1>1 DEF BatchWatched, Watched
  <1>11. ListedAttached'
    BY <1>1, <1>5, <1>7, <1>8 DEF ListedAttached, Listed, Watched
  <1>12. AttachedRegistered'
    BY <1>1, <1>5, <1>7, <1>8 DEF AttachedRegistered, Registered
  <1>13. Intact' /\ CurDescriptor'
    <2>1. cur' \notin Attached'
      BY <1>1, <1>4, <1>7, <1>8, NullAssumption
    <2> QED
      BY <1>1, <2>1 DEF Intact, CurDescriptor
  <1>14. DestroyedSilent'
    BY <1>1, <1>4, <1>5 DEF DestroyedSilent
  <1> QED
    BY <1>3, <1>4, <1>5, <1>7, <1>8, <1>9, <1>10, <1>11, <1>12, <1>13, <1>14 DEF Core
-----------------------------------------------------------------------------
(***************************************************************************)
(* The steps that change the handlers of a channel.                        *)
(***************************************************************************)

\* A channel whose handler of kind k and mask are replaced.
Rehandled(c, k, callback, d, events) ==
  [io[c] EXCEPT !.callback[k] = callback, !.data[k] = d, !.events = events]

LEMMA HandlerLemma ==
  ASSUME TypeOK, NEW c \in Allocated, NEW k \in Kinds, NEW callback \in BOOLEAN,
         NEW d \in Data \cup {NULL}, NEW events \in SUBSET Kinds, NEW r,
         r = Rehandled(c, k, callback, d, events)
  PROVE  /\ r \in IoType
         /\ r.descriptor = io[c].descriptor /\ r.reference_count = io[c].reference_count
         /\ r.events = events
         /\ r.callback[k] = callback /\ r.data[k] = d
         /\ \A other \in Kinds \ {k} : r.callback[other] = io[c].callback[other]
                                       /\ r.data[other] = io[c].data[other]
  <1>1. /\ c \in Chan /\ io[c] \in IoType
        /\ io[c].callback \in [Kinds -> BOOLEAN] /\ io[c].data \in [Kinds -> Data \cup {NULL}]
    BY ChannelTypes
  <1> DEFINE callbacks == [io[c].callback EXCEPT ![k] = callback]
             datas == [io[c].data EXCEPT ![k] = d]
  <1>2. r = [io[c] EXCEPT !.callback = callbacks, !.data = datas, !.events = events]
    BY <1>1 DEF IoType, Rehandled
  <1>3. callbacks \in [Kinds -> BOOLEAN] /\ datas \in [Kinds -> Data \cup {NULL}]
    BY <1>1
  <1>4. /\ callbacks[k] = callback /\ datas[k] = d
        /\ \A other \in Kinds \ {k} : callbacks[other] = io[c].callback[other]
                                      /\ datas[other] = io[c].data[other]
    BY <1>1
  <1> HIDE DEF callbacks, datas
  <1>5. /\ r \in IoType /\ r.callback = callbacks /\ r.data = datas /\ r.events = events
        /\ r.descriptor = io[c].descriptor /\ r.reference_count = io[c].reference_count
    BY <1>1, <1>2, <1>3 DEF IoType
  <1> QED
    BY <1>4, <1>5
\* A step that replaces the handler of kind k of channel c.
Rehandles(c, k, callback, d, events) ==
  /\ c \in Allocated
  /\ io' = [io EXCEPT ![c] = Rehandled(c, k, callback, d, events)]
  /\ c \in owned \/ ~callback
  /\ Watched' = Watched /\ \A fd \in Watched : watch'[fd].chan = watch[fd].chan
  /\ UNCHANGED <<owned, batch, dropped, sd, cur, damage, refused>>

LEMMA RehandlesLemma ==
  ASSUME TypeOK, NEW c, NEW k \in Kinds, NEW callback \in BOOLEAN, NEW d \in Data \cup {NULL},
         NEW events \in SUBSET Kinds, Rehandles(c, k, callback, d, events)
  PROVE  /\ \E r : Rewrites(c, r)
         /\ io'[c].events = events /\ io'[c].callback[k] = callback /\ io'[c].data[k] = d
         /\ \A other \in Kinds \ {k} : io'[c].callback[other] = io[c].callback[other]
                                       /\ io'[c].data[other] = io[c].data[other]
  <1> DEFINE r == Rehandled(c, k, callback, d, events)
  <1>1. c \in Allocated /\ io' = [io EXCEPT ![c] = r]
    BY DEF Rehandles
  <1>2. /\ r \in IoType
        /\ r.descriptor = io[c].descriptor /\ r.reference_count = io[c].reference_count
        /\ r.events = events
        /\ r.callback[k] = callback /\ r.data[k] = d
        /\ \A other \in Kinds \ {k} : r.callback[other] = io[c].callback[other]
                                      /\ r.data[other] = io[c].data[other]
    BY <1>1, HandlerLemma
  <1> HIDE DEF r
  <1>3. c \in owned \/ \A j \in Kinds : r.callback[j] => io[c].callback[j]
    <2>1. CASE c \in owned
      BY <2>1
    <2>2. CASE c \notin owned
      <3>1. ~callback
        BY <2>2 DEF Rehandles
      <3> QED
        BY <1>2, <3>1
    <2> QED
      BY <2>1, <2>2
  <1>4. Rewrites(c, r)
    BY <1>1, <1>2, <1>3 DEF Rehandles, Rewrites
  <1>5. io'[c] = r
    BY <1>4, RewritesLemma
  <1> QED
    BY <1>2, <1>4, <1>5

\* The mask of a channel follows its handlers, and the loop follows the mask, unless
\* the loop fails.
Masked(c, k, callback, events) ==
  \/ /\ events = io[c].events /\ (callback => k \in events)
     /\ UNCHANGED <<watch, unmodified>>
  \/ events = io[c].events /\ unmodified'
  \/ /\ (callback => k \in events) /\ events \ {k} = io[c].events \ {k}
     /\ Modify(io[c].descriptor, events, TRUE)

LEMMA SetHandlerLemma ==
  ASSUME IInv, NEW c \in Chan, NEW k \in Kinds, NEW callback \in BOOLEAN,
         NEW d \in Data \cup {NULL}, SetHandler(c, k, callback, d)
  PROVE  /\ c \in owned \cap Attached
         /\ \E events \in SUBSET Kinds :
              Rehandles(c, k, callback, d, events) /\ Masked(c, k, callback, events)
         /\ watch' \in [Fd -> Registration \cup {NULL}] /\ unmodified' \in BOOLEAN
         /\ Exchange({io[c].data[k]} \ {NULL}, {d} \ {NULL})
         /\ d \in Data => data[d] = "program"
         /\ UNCHANGED <<owned, open, loop, event, damage, refused>>
  <1> USE DEF IInv
  <1> DEFINE old == io[c].events
             new == IF callback THEN old \cup {k} ELSE old \ {k}
             handler == [io[c] EXCEPT !.callback[k] = callback, !.data[k] = d]
  <1>1. /\ c \in owned /\ io[c].descriptor # NULL
        /\ UNCHANGED <<owned, open, loop, event, damage, refused>>
        /\ Exchange({io[c].data[k]} \ {NULL}, {d} \ {NULL})
        /\ d \in Data => data[d] = "program"
    BY DEF SetHandler
  <1>2. c \in Allocated /\ c \in Attached /\ io[c] \in IoType
    <2>1. c \in Allocated
      BY <1>1 DEF ReferencesCounted, Holders
    <2> QED
      BY <1>1, <2>1, ChannelTypes DEF Attached
  <1>3. old \in SUBSET Kinds /\ new \in SUBSET Kinds /\ (callback => k \in new)
        /\ new \ {k} = old \ {k}
    BY <1>2, ChannelTypes
  <1>4. handler = Rehandled(c, k, callback, d, old)
    BY <1>2 DEF IoType, Rehandled
  <1>5. \A events \in SUBSET Kinds : [handler EXCEPT !.events = events] = Rehandled(c, k, callback, d, events)
    BY <1>2 DEF IoType, Rehandled
  <1>6. \/ /\ new = old /\ io' = [io EXCEPT ![c] = handler] /\ UNCHANGED <<watch, unmodified>>
        \/ \E ok \in BOOLEAN :
             /\ Modify(io[c].descriptor, new, ok)
             /\ io' = [io EXCEPT ![c] = [handler EXCEPT !.events = IF ok THEN new ELSE old]]
    BY DEF SetHandler
  <1> HIDE DEF handler, old, new
  <1>7. ASSUME NEW events \in SUBSET Kinds, io' = [io EXCEPT ![c] = Rehandled(c, k, callback, d, events)],
               Watched' = Watched, \A fd \in Watched : watch'[fd].chan = watch[fd].chan
        PROVE  Rehandles(c, k, callback, d, events)
    BY <1>1, <1>2, <1>7 DEF Rehandles, loop, event
  <1>8. CASE new = old /\ io' = [io EXCEPT ![c] = handler] /\ UNCHANGED <<watch, unmodified>>
    <2>1. Watched' = Watched /\ \A fd \in Watched : watch'[fd].chan = watch[fd].chan
      BY <1>8 DEF Watched
    <2>2. Rehandles(c, k, callback, d, old)
      BY <1>3, <1>4, <1>7, <1>8, <2>1
    <2>3. watch' \in [Fd -> Registration \cup {NULL}] /\ unmodified' \in BOOLEAN
      BY <1>8 DEF TypeOK
    <2> QED
      BY <1>1, <1>2, <1>3, <1>8, <2>2, <2>3 DEF old, Masked
  <1>9. ASSUME NEW ok \in BOOLEAN, Modify(io[c].descriptor, new, ok),
               io' = [io EXCEPT ![c] = [handler EXCEPT !.events = IF ok THEN new ELSE old]]
        PROVE  /\ \E events \in SUBSET Kinds :
                    Rehandles(c, k, callback, d, events) /\ Masked(c, k, callback, events)
               /\ watch' \in [Fd -> Registration \cup {NULL}] /\ unmodified' \in BOOLEAN
    <2>1. /\ Watched' = Watched /\ \A fd \in Watched : watch'[fd].chan = watch[fd].chan
          /\ watch' \in [Fd -> Registration \cup {NULL}] /\ unmodified' \in BOOLEAN
          /\ ~ok => unmodified'
      <3>1. new \in SUBSET Kinds /\ Modify(io[c].descriptor, new, ok)
        BY <1>3, <1>9
      <3>2. /\ Watched' = Watched /\ \A fd \in Watched : watch'[fd].chan = watch[fd].chan
            /\ watch' \in [Fd -> Registration \cup {NULL}]
        BY <3>1, ModifyLemma DEF Modified
      <3>3. unmodified' \in BOOLEAN
        BY <3>1 DEF Modify, TypeOK
      <3>4. ~ok => unmodified'
        BY <3>1 DEF Modify
      <3> QED
        BY <3>2, <3>3, <3>4, Zenon
    <2>2. CASE ok
      <3>1. Rehandles(c, k, callback, d, new)
        BY <1>3, <1>5, <1>7, <1>9, <2>1, <2>2
      <3> QED
        BY <1>3, <1>9, <2>1, <2>2, <3>1 DEF old, Masked
    <2>3. CASE ~ok
      <3>1. Rehandles(c, k, callback, d, old)
        BY <1>3, <1>5, <1>7, <1>9, <2>1, <2>3
      <3> QED
        BY <1>3, <2>1, <2>3, <3>1 DEF old, Masked
    <2> QED
      BY <2>2, <2>3
  <1> QED
    BY <1>1, <1>2, <1>6, <1>8, <1>9
\* The callback that is called hears only of a channel that is there; before a
\* disconnect callback the others are silenced.
LEMMA CallLemma ==
  ASSUME IInv, NEW k \in Kinds, Call(k)
  PROVE  /\ cur \in Allocated /\ io[cur].callback[k]
         /\ \E r : Rewrites(cur, r) /\ r.data = io[cur].data /\ r.events = io[cur].events
                   /\ \A j \in Kinds : r.callback[j] => io[cur].callback[j]
         /\ UNCHANGED <<watch, open, data, loop, at, sd, ev, damage, history>>
         /\ called' \in BOOLEAN /\ fault' \in {fault, "released"}
  <1> USE DEF IInv
  <1>1. /\ at = k /\ ~called /\ io[cur].callback[k]
        /\ UNCHANGED <<owned, watch, open, data, loop, at, sd, cur, ev, damage, history>>
        /\ io' = IF k = "disconnect" THEN Muted({"read", "write"}, cur) ELSE io
    BY DEF Call, Stage
  <1>2. cur \in Allocated
    <2>1. cur \in Chan
      BY <1>1 DEF EventShape, TypeOK, Kinds
    <2> QED
      BY <2>1 DEF ReferencesCounted, Holders
  <1>3. called' \in BOOLEAN /\ fault' \in {fault, "released"}
    BY DEF Call, TypeOK
  <1> DEFINE r == io'[cur]
  <1>4. io' \in [Chan -> IoType \cup {NULL}] /\ \A o \in Chan \ {cur} : io'[o] = io[o]
    BY <1>1, <1>2, MutedLemma DEF TypeOK
  <1>5. Survives(cur, {}, io', io[cur].reference_count)
    BY <1>1, <1>2, MutedLemma, UnchangedSurvives
  <1>6. /\ r \in IoType /\ r.descriptor = io[cur].descriptor
        /\ r.reference_count = io[cur].reference_count
        /\ r.data = io[cur].data /\ r.events = io[cur].events
        /\ \A j \in Kinds : r.callback[j] => io[cur].callback[j]
    BY <1>5 DEF Survives, Users
  <1>7. cur \in Chan
    BY <1>2, ChannelTypes
  <1> HIDE DEF r
  <1>8. io' = [io EXCEPT ![cur] = r]
    BY <1>4, <1>7 DEF TypeOK, r
  <1>9. Watched' = Watched /\ \A fd \in Watched : watch'[fd].chan = watch[fd].chan
    BY <1>1 DEF Watched
  <1>10. UNCHANGED <<owned, batch, dropped, sd, cur, damage, refused>>
    BY <1>1 DEF loop, history
  <1>11. Rewrites(cur, r)
    BY <1>2, <1>6, <1>8, <1>9, <1>10 DEF Rewrites
  <1> QED
    BY <1>1, <1>2, <1>3, <1>6, <1>11

\* A callback that returns 0: its handler goes, whether or not the channel is
\* still registered.
LEMMA ReturnDropLemma ==
  ASSUME IInv, NEW k \in Kinds, ReturnDrop(k)
  PROVE  /\ cur \in Allocated
         /\ Rehandles(cur, k, FALSE, NULL, io[cur].events \ {k})
         /\ \E ok \in BOOLEAN : Modify(io[cur].descriptor, io[cur].events \ {k}, ok)
         /\ watch' \in [Fd -> Registration \cup {NULL}] /\ unmodified' \in BOOLEAN
         /\ Release({io[cur].data[k]} \ {NULL})
         /\ called' = FALSE /\ at' = After[k]
         /\ UNCHANGED <<owned, open, loop, sd, cur, ev, damage, refused>>
  <1> USE DEF IInv
  <1>1. /\ at = k /\ called' = FALSE /\ at' = After[k]
        /\ Release({io[cur].data[k]} \ {NULL})
        /\ \E ok \in BOOLEAN : Modify(io[cur].descriptor, io[cur].events \ {k}, ok)
        /\ io' = [io EXCEPT ![cur] = Dropped(k)]
        /\ UNCHANGED <<owned, open, loop, sd, cur, ev, damage, refused>>
    BY DEF ReturnDrop
  <1>2. cur \in Allocated
    <2>1. cur \in Chan
      BY <1>1 DEF EventShape, TypeOK, Kinds
    <2> QED
      BY <2>1 DEF ReferencesCounted, Holders
  <1>3. io[cur].events \ {k} \in SUBSET Kinds
    BY <1>2, ChannelTypes
  <1>4. Dropped(k) = Rehandled(cur, k, FALSE, NULL, io[cur].events \ {k})
    BY DEF Dropped, Rehandled
  <1>5. /\ Watched' = Watched /\ \A fd \in Watched : watch'[fd].chan = watch[fd].chan
        /\ watch' \in [Fd -> Registration \cup {NULL}] /\ unmodified' \in BOOLEAN
    BY <1>1, <1>3, ModifyLemma DEF Modified
  <1>6. Rehandles(cur, k, FALSE, NULL, io[cur].events \ {k})
    BY <1>1, <1>2, <1>4, <1>5 DEF Rehandles, loop
  <1> QED
    BY <1>1, <1>2, <1>5, <1>6

LEMMA SetCloseLemma ==
  ASSUME IInv, NEW c \in Chan, SetCloseOnDestroy(c)
  PROVE  /\ \E r : Rewrites(c, r) /\ r.data = io[c].data /\ r.events = io[c].events
                   /\ r.callback = io[c].callback
         /\ UNCHANGED <<owned, watch, open, data, loop, event, damage, fault, history>>
  <1> USE DEF IInv
  <1> DEFINE r == [io[c] EXCEPT !.close_on_destroy = ~io[c].close_on_destroy]
  <1>1. /\ c \in owned /\ io' = [io EXCEPT ![c] = r]
        /\ UNCHANGED <<owned, watch, open, data, loop, event, damage, fault, history>>
    BY DEF SetCloseOnDestroy
  <1>2. c \in Allocated
    BY <1>1 DEF ReferencesCounted, Holders
  <1>3. io[c] \in IoType
    BY <1>2, ChannelTypes
  <1>4. /\ r \in IoType /\ r.data = io[c].data /\ r.events = io[c].events
        /\ r.callback = io[c].callback /\ r.descriptor = io[c].descriptor
        /\ r.reference_count = io[c].reference_count
    BY <1>3 DEF IoType
  <1> HIDE DEF r
  <1>5. Rewrites(c, r)
    BY <1>1, <1>2, <1>4 DEF Rewrites, Watched, loop, event, history
  <1> QED
    BY <1>1, <1>4, <1>5
-----------------------------------------------------------------------------
(***************************************************************************)
(* The invariant is inductive.                                             *)
(***************************************************************************)

\* The steps that leave the channels and the registrations alone, if not the table.
Quiet ==
  \/ \E fd \in Fd : Open(fd) \/ Close(fd) \/ StartDropped(fd) \/ StartFreed(fd)
  \/ OthersRemove \/ TableFaults \/ IoNewNoMemory \/ RunLoop \/ WaitFails \/ ExitLoop \/ Halted
  \/ (\E k \in Kinds : Skip(k) \/ ReturnKeep(k)) \/ UNCHANGED vars

LEMMA StepCases ==
  ASSUME [Next]_vars
  PROVE  \/ \E fd \in Fd, c \in Chan : IoNew(fd, c) \/ IoNewRefused(fd, c)
         \/ \E c \in Chan : SetCloseOnDestroy(c) \/ IoDestroy(c)
         \/ \E c \in Chan, k \in Kinds, callback \in BOOLEAN, d \in Data \cup {NULL} :
              SetHandler(c, k, callback, d)
         \/ LoopQuit \/ Abandon \/ Finish \/ Wait
         \/ \E k \in Kinds : Call(k) \/ ReturnDrop(k)
         \/ \E fd \in Fd : Start(fd)
         \/ Quiet
  BY BoundsAssumption DEF Next, Program, ProcessEvent, Return, LoopRun, Quiet

\* The stages of io_process_event.
LEMMA AfterLemma == \A k \in Kinds : After[k] \in {"done"} \cup Kinds
  BY DEF After, Kinds

LEMMA KindsLemma == "out" \notin Kinds /\ "idle" \notin Kinds /\ "done" \notin Kinds
  BY DEF Kinds

LEMMA QuietLemma ==
  ASSUME IInv, Quiet
  PROVE  /\ IInv'
         /\ UNCHANGED <<io, owned, watch, data, batch, dropped, stopped, sd, cur, history>>
         /\ Damages
  <1> USE DEF IInv
  <1>1. UNCHANGED <<io, owned, watch, data, batch, dropped, stopped, sd, cur, refused, unmodified>>
    BY DEF Quiet, Open, Close, StartDropped, StartFreed, OthersRemove, TableFaults,
           IoNewNoMemory, RunLoop, WaitFails, ExitLoop, Halted, Skip, ReturnKeep, vars, loop, event, history
  <1>2. open' \subseteq Fd /\ ev' \subseteq Kinds
    BY DEF Quiet, Open, Close, StartDropped, StartFreed, OthersRemove, TableFaults,
           IoNewNoMemory, RunLoop, WaitFails, ExitLoop, Halted, Skip, ReturnKeep, vars, event, TypeOK
  <1>3. fault' \in {"none", "null", "twice", "released", "dispatch", "freed", "table"}
    BY DEF Quiet, Open, Close, StartDropped, StartFreed, OthersRemove, TableFaults,
           IoNewNoMemory, RunLoop, WaitFails, ExitLoop, Halted, Skip, ReturnKeep, vars, event, TypeOK
  <1>4. called' \in BOOLEAN /\ (called' => (called /\ at' = at) \/ called' = called)
    BY DEF Quiet, Open, Close, StartDropped, StartFreed, OthersRemove, TableFaults,
           IoNewNoMemory, RunLoop, WaitFails, ExitLoop, Halted, Skip, ReturnKeep, vars, event, TypeOK
  <1>5. /\ at' \in {"out", "idle", "done"} \cup Kinds
        /\ at' \in {"out", "idle"} <=> at \in {"out", "idle"}
        /\ called' => at' \in Kinds
    <2>1. CASE RunLoop \/ ExitLoop
      BY <2>1, KindsLemma DEF RunLoop, ExitLoop, EventShape
    <2>2. ASSUME NEW k \in Kinds, Skip(k) \/ ReturnKeep(k)
          PROVE  /\ at' \in {"out", "idle", "done"} \cup Kinds
                 /\ at' \in {"out", "idle"} <=> at \in {"out", "idle"}
                 /\ called' => at' \in Kinds
      <3>1. at = k /\ at' = After[k] /\ ~called'
        BY <2>2 DEF Skip, ReturnKeep, Stage
      <3> QED
        BY <3>1, AfterLemma, KindsLemma
    <2>3. CASE UNCHANGED <<at, called>>
      BY <2>3 DEF TypeOK, EventShape
    <2> QED
      BY <2>1, <2>2, <2>3
      DEF Quiet, Open, Close, StartDropped, StartFreed, OthersRemove, TableFaults, IoNewNoMemory,
          WaitFails, Halted, vars, event
  <1>6. Damages
    <2>1. CASE UNCHANGED damage
      BY <2>1, DamagesLemma
    <2>2. CASE OthersRemove
      <3>1. Listed \in SUBSET Fd
        BY DEF Listed, Watched
      <3> QED
        BY <2>2, <3>1, DamagesLemma DEF OthersRemove
    <2> QED
      BY <2>1, <2>2
      DEF Quiet, Open, Close, StartDropped, StartFreed, TableFaults, IoNewNoMemory, RunLoop,
          WaitFails, ExitLoop, Halted, Skip, ReturnKeep, vars
  <1>7. TypeOK'
    BY <1>1, <1>2, <1>3, <1>4, <1>5, <1>6 DEF TypeOK, Damages
  <1>8. EventShape'
    BY <1>1, <1>5 DEF EventShape
  <1>9. ReferencesCounted' /\ BatchWatched' /\ AttachedRegistered' /\ DestroyedSilent'
    BY <1>1 DEF ReferencesCounted, Holders, Allocated, BatchWatched, Watched,
       Attached, AttachedRegistered, Registered, DestroyedSilent
  <1>10. ListedAttached' /\ Intact' /\ CurDescriptor'
    BY <1>1, <1>6 DEF ListedAttached, Listed, Watched, Attached, Allocated, Intact, CurDescriptor,
       Damages
  <1> QED
    BY <1>1, <1>6, <1>7, <1>8, <1>9, <1>10 DEF history

\* epoll_wait reports events of watched descriptors only.
LEMMA WaitStep == IInv /\ Wait => IInv'
  <1> SUFFICES ASSUME IInv, Wait
               PROVE  IInv'
    OBVIOUS
  <1> USE DEF IInv
  <1>1. /\ UNCHANGED <<io, owned, watch, open, data, stopped, at, called, sd, cur, ev, lost, holed,
                       fault, refused, unmodified>>
        /\ dropped' = {}
    BY DEF Wait, event, damage, history
  <1>2. batch' \in [Fd -> SUBSET Kinds] /\ \A fd \in Fd : batch'[fd] # {} => fd \in Watched
    BY DEF Wait
  <1>3. TypeOK'
    BY <1>1, <1>2 DEF TypeOK
  <1>4. EventShape'
    BY <1>1 DEF EventShape
  <1>5. BatchWatched'
    BY <1>1, <1>2 DEF BatchWatched, Watched
  <1>6. Core'
    BY <1>1, <1>5 DEF Core, ReferencesCounted, Holders, Allocated, Watched, Listed, ListedAttached,
       Attached, AttachedRegistered, Registered, DestroyedSilent, Intact, CurDescriptor
  <1> QED
    BY <1>3, <1>4, <1>6 DEF Core

LEMMA TeardownTypes ==
  ASSUME IInv, NEW fds, NEW gone, Teardown(fds, gone), stopped' \in BOOLEAN,
         UNCHANGED ev, at' \in {"out", "idle", "done"} \cup Kinds, called' \in BOOLEAN,
         EventShape'
  PROVE  IInv'
  <1> USE DEF IInv
  <1>1. /\ watch' \in [Fd -> Registration \cup {NULL}] /\ dropped' \subseteq Fd
        /\ open' \subseteq Fd /\ data' \in [Data -> {"program", "held", "released"}]
        /\ fault' \in {"none", "null", "twice", "released", "dispatch", "freed", "table"}
    BY ForgetLemma DEF Teardown
  <1>2. /\ io' \in [Chan -> IoType \cup {NULL}] /\ owned' \subseteq Chan
        /\ UNCHANGED <<batch, sd, cur, refused, unmodified>>
        /\ lost' \subseteq Fd /\ holed' \in BOOLEAN
    BY DEF Teardown, TypeOK, Damages
  <1>3. TypeOK'
    BY <1>1, <1>2 DEF TypeOK
  <1> QED
    BY <1>3, TeardownStep

LEMMA TeardownSteps ==
  ASSUME IInv, LoopQuit \/ Abandon \/ \E c \in Chan : IoDestroy(c)
  PROVE  IInv'
  <1> USE DEF IInv
  <1>1. ASSUME NEW c \in Chan, IoDestroy(c)
        PROVE  IInv'
    <2>1. Teardown({io[c].descriptor}, {c}) /\ UNCHANGED <<stopped, at, called, sd, cur, ev>>
      BY <1>1, IoDestroyTeardown DEF event
    <2>2. /\ stopped' \in BOOLEAN /\ at' \in {"out", "idle", "done"} \cup Kinds
          /\ called' \in BOOLEAN /\ EventShape'
      BY <2>1 DEF TypeOK, EventShape
    <2> QED
      BY <2>1, <2>2, TeardownTypes
  <1>2. CASE LoopQuit
    <2>1. Teardown(Fd, {}) /\ stopped' = TRUE /\ UNCHANGED <<at, called, sd, cur, ev>>
      BY <1>2, LoopQuitTeardown DEF event
    <2>2. /\ stopped' \in BOOLEAN /\ at' \in {"out", "idle", "done"} \cup Kinds
          /\ called' \in BOOLEAN /\ EventShape'
      BY <2>1 DEF TypeOK, EventShape
    <2> QED
      BY <2>1, <2>2, TeardownTypes
  <1>3. CASE Abandon
    <2>1. /\ Teardown({io[cur].descriptor}, {}) /\ UNCHANGED <<stopped, called, sd, cur, ev>>
          /\ at' = "done"
      BY <1>3, AbandonTeardown
    <2>2. at = "disconnect" /\ ~called
      BY <1>3 DEF Abandon, Stage
    <2>3. /\ stopped' \in BOOLEAN /\ at' \in {"out", "idle", "done"} \cup Kinds
          /\ called' \in BOOLEAN /\ EventShape'
      BY <2>1, <2>2 DEF TypeOK, EventShape
    <2> QED
      BY <2>1, <2>3, TeardownTypes
  <1> QED
    BY <1>1, <1>2, <1>3

\* The steps that change the handlers of a channel.
LEMMA HandlerSteps ==
  ASSUME IInv,
         \/ \E c \in Chan : SetCloseOnDestroy(c)
         \/ \E c \in Chan, k \in Kinds, callback \in BOOLEAN, d \in Data \cup {NULL} :
              SetHandler(c, k, callback, d)
         \/ \E k \in Kinds : Call(k) \/ ReturnDrop(k)
  PROVE  IInv'
  <1>0. TypeOK /\ EventShape
    BY DEF IInv
  <1>1. ASSUME NEW c, NEW r, Rewrites(c, r)
        PROVE  Core' /\ io' \in [Chan -> IoType \cup {NULL}]
    BY <1>0, <1>1, RewriteStep, RewritesLemma
  <1>2. ASSUME NEW c \in Chan, SetCloseOnDestroy(c)
        PROVE  IInv'
    <2>1. /\ \E r : Rewrites(c, r)
          /\ UNCHANGED <<owned, watch, open, data, loop, event, damage, fault, history>>
      BY <1>2, SetCloseLemma
    <2>2. Core' /\ io' \in [Chan -> IoType \cup {NULL}]
      BY <1>1, <2>1
    <2>3. TypeOK'
      BY <1>0, <2>1, <2>2 DEF TypeOK, loop, event, damage, history
    <2>4. EventShape'
      BY <1>0, <2>1 DEF EventShape, event
    <2> QED
      BY <2>2, <2>3, <2>4 DEF Core, IInv
  <1>3. ASSUME NEW c \in Chan, NEW k \in Kinds, NEW callback \in BOOLEAN,
               NEW d \in Data \cup {NULL}, SetHandler(c, k, callback, d)
        PROVE  IInv'
    <2>0. \E events \in SUBSET Kinds : Rehandles(c, k, callback, d, events)
      BY <1>3, SetHandlerLemma
    <2>1. /\ watch' \in [Fd -> Registration \cup {NULL}] /\ unmodified' \in BOOLEAN
          /\ Exchange({io[c].data[k]} \ {NULL}, {d} \ {NULL})
          /\ UNCHANGED <<owned, open, loop, event, damage, refused>>
      BY <1>3, SetHandlerLemma
    <2>2. Core' /\ io' \in [Chan -> IoType \cup {NULL}]
      <3>1. \E r : Rewrites(c, r)
        BY <1>0, <2>0, RehandlesLemma
      <3> QED
        BY <1>1, <3>1
    <2>3. /\ data' \in [Data -> {"program", "held", "released"}]
          /\ fault' \in {"none", "null", "twice", "released", "dispatch", "freed", "table"}
      BY <1>0, <2>1, ExchangeLemma
    <2>4. TypeOK'
      BY <1>0, <2>1, <2>2, <2>3 DEF TypeOK, loop, event, damage
    <2>5. EventShape'
      BY <1>0, <2>1 DEF EventShape, event
    <2> QED
      BY <2>2, <2>4, <2>5 DEF Core, IInv
  <1>4. ASSUME NEW k \in Kinds, Call(k)
        PROVE  IInv'
    <2>1. /\ \E r : Rewrites(cur, r)
          /\ UNCHANGED <<watch, open, data, loop, at, sd, ev, damage, history>>
          /\ called' \in BOOLEAN /\ fault' \in {fault, "released"}
      BY <1>4, CallLemma
    <2>2. Core' /\ io' \in [Chan -> IoType \cup {NULL}]
      BY <1>1, <2>1
    <2>3. UNCHANGED <<owned, cur>> /\ at = k
      BY <1>4 DEF Call, Stage
    <2>4. TypeOK'
      BY <1>0, <2>1, <2>2, <2>3 DEF TypeOK, loop, damage, history
    <2>5. EventShape'
      BY <1>0, <2>1, <2>3 DEF EventShape
    <2> QED
      BY <2>2, <2>4, <2>5 DEF Core, IInv
  <1>5. ASSUME NEW k \in Kinds, ReturnDrop(k)
        PROVE  IInv'
    <2>1. /\ Rehandles(cur, k, FALSE, NULL, io[cur].events \ {k}) /\ cur \in Allocated
          /\ watch' \in [Fd -> Registration \cup {NULL}] /\ unmodified' \in BOOLEAN
          /\ Release({io[cur].data[k]} \ {NULL})
          /\ called' = FALSE /\ at' = After[k]
          /\ UNCHANGED <<owned, open, loop, sd, cur, ev, damage, refused>>
      BY <1>5, ReturnDropLemma
    <2>2. Core' /\ io' \in [Chan -> IoType \cup {NULL}]
      <3>1. io[cur].events \ {k} \in SUBSET Kinds
        BY <1>0, <2>1, ChannelTypes
      <3>2. \E r : Rewrites(cur, r)
        BY <1>0, <2>1, <3>1, RehandlesLemma
      <3> QED
        BY <1>1, <3>2
    <2>3. /\ data' \in [Data -> {"program", "held", "released"}]
          /\ fault' \in {"none", "null", "twice", "released", "dispatch", "freed", "table"}
      BY <1>0, <2>1, ExchangeLemma DEF Release
    <2>4. at' \in {"done"} \cup Kinds /\ at = k
      BY <1>5, <2>1, AfterLemma DEF ReturnDrop
    <2>5. TypeOK'
      BY <1>0, <2>1, <2>2, <2>3, <2>4 DEF TypeOK, loop, damage
    <2>6. EventShape'
      BY <1>0, <2>1, <2>4, KindsLemma DEF EventShape
    <2> QED
      BY <2>2, <2>5, <2>6 DEF Core, IInv
  <1> QED
    BY <1>2, <1>3, <1>4, <1>5

LEMMA EventSteps ==
  ASSUME IInv,
         \/ \E fd \in Fd, c \in Chan : IoNew(fd, c) \/ IoNewRefused(fd, c)
         \/ \E fd \in Fd : Start(fd)
         \/ Finish
  PROVE  IInv'
  <1> USE DEF IInv
  <1>1. ASSUME NEW fd \in Fd, NEW c \in Chan, IoNew(fd, c) \/ IoNewRefused(fd, c)
        PROVE  IInv'
    <2>1. Core' /\ io' \in [Chan -> IoType \cup {NULL}]
      BY <1>1, IoNewStep
    <2>2. /\ UNCHANGED <<open, data, loop, event, damage, fault, unmodified>>
          /\ owned' \subseteq Chan /\ refused' \in BOOLEAN
      BY <1>1 DEF IoNew, IoNewRefused, history, TypeOK
    <2>3. watch' \in [Fd -> Registration \cup {NULL}]
      BY <1>1 DEF IoNew, IoNewRefused, TypeOK, Registration
    <2>4. TypeOK'
      BY <2>1, <2>2, <2>3 DEF TypeOK, loop, event, damage
    <2>5. EventShape'
      BY <2>2 DEF EventShape, event
    <2> QED
      BY <2>1, <2>4, <2>5 DEF Core
  <1>2. ASSUME NEW fd \in Fd, Start(fd)
        PROVE  IInv'
    <2>1. Core' /\ io' \in [Chan -> IoType \cup {NULL}] /\ cur' \in Chan
      BY <1>2, StartStep
    <2>2. /\ UNCHANGED <<owned, watch, open, data, dropped, stopped, called, lost, holed, fault,
                         refused, unmodified>>
          /\ at = "idle" /\ at' = "disconnect" /\ sd' = fd /\ ev' = batch[fd]
          /\ batch' = [batch EXCEPT ![fd] = {}]
      BY <1>2 DEF Start, damage, history
    <2>3. TypeOK'
      BY <2>1, <2>2 DEF TypeOK, Kinds
    <2>4. EventShape'
      BY <2>1, <2>2, NullAssumption DEF EventShape, Kinds
    <2> QED
      BY <2>1, <2>3, <2>4 DEF Core
  <1>3. CASE Finish
    <2>1. Core' /\ io' \in [Chan -> IoType \cup {NULL}]
      BY <1>3, FinishStep
    <2>2. /\ UNCHANGED <<owned, watch, open, data, batch, dropped, stopped, called, lost, holed,
                         fault, refused, unmodified>>
          /\ at = "done" /\ at' = "idle" /\ sd' = NULL /\ cur' = NULL /\ ev' = {}
      BY <1>3 DEF Finish, loop, damage, history
    <2>3. TypeOK'
      BY <2>1, <2>2 DEF TypeOK
    <2>4. EventShape'
      BY <2>2, KindsLemma DEF EventShape
    <2> QED
      BY <2>1, <2>3, <2>4 DEF Core
  <1> QED
    BY <1>1, <1>2, <1>3

LEMMA IInvInit == Init => IInv
  <1> SUFFICES ASSUME Init
               PROVE  IInv
    OBVIOUS
  <1>1. Allocated = {} /\ Watched = {} /\ Attached = {} /\ cur = NULL
    BY DEF Init, Allocated, Watched, Attached
  <1>2. TypeOK
    BY DEF Init, TypeOK
  <1>3. EventShape
    BY DEF Init, EventShape
  <1>4. ReferencesCounted
    BY <1>1, NullAssumption DEF Init, ReferencesCounted, Holders
  <1>5. BatchWatched
    BY DEF Init, BatchWatched
  <1> QED
    BY <1>1, <1>2, <1>3, <1>4, <1>5
    DEF Init, IInv, ListedAttached, Listed, AttachedRegistered, DestroyedSilent, Intact,
        CurDescriptor

LEMMA IInvStep == IInv /\ [Next]_vars => IInv'
  BY StepCases, QuietLemma, WaitStep, TeardownSteps, HandlerSteps, EventSteps

LEMMA Invariance == Spec => []IInv
  BY IInvInit, IInvStep, PTL DEF Spec

\* The state of the channels is well-formed in every execution of the program.
THEOREM TypeCorrect == Spec => []TypeOK
  <1>1. IInv => TypeOK
    BY DEF IInv
  <1> QED
    BY <1>1, Invariance, PTL

\* A channel is allocated exactly as long as the program or io_process_event may
\* use it, whichever of them lets go last, and its count says how many of the two
\* do.
THEOREM ReferencesAreCounted == Spec => []ReferencesCounted
  <1>1. IInv => ReferencesCounted
    BY DEF IInv
  <1> QED
    BY <1>1, Invariance, PTL

\* What the loop's table has is a channel that is there, that the program has not
\* destroyed, and whose descriptor it is; no channel is left out of epoll unless an
\* io_new was refused, and until a removal that is not of the last slot damages the
\* table (loop.c:237), it has every registration.
THEOREM RegistrationsAreExact == Spec => []RegisteredChannels
  <1>1. IInv => RegisteredChannels
    BY DEF IInv, RegisteredChannels, ListedAttached, Listed, Intact, AttachedRegistered, Registered
  <1> QED
    BY <1>1, Invariance, PTL

\* No callback is started once the program has destroyed the channel, not even
\* for the rest of the event in which it did, and not even when epoll still reports
\* the descriptor because loop_remove_sd did not find it; as long as the table is
\* whole, a channel gets the events of its own descriptor only.
THEOREM DestroyedChannelsAreSilent == Spec => SilentAfterDestroy
  <1>1. IInv /\ [Next]_vars =>
          [Calls => cur \in owned /\ (~holed /\ cur \in Attached => io[cur].descriptor = sd)]_vars
    BY CallLemma DEF IInv, DestroyedSilent, CurDescriptor, Calls
  <1> QED
    BY <1>1, Invariance, PTL DEF Spec, SilentAfterDestroy
-----------------------------------------------------------------------------
(***************************************************************************)
(* Handlers and masks.                                                     *)
(***************************************************************************)

\* What HandlersArmed says of one channel.
Matches(c) ==
  /\ watch[io[c].descriptor].mask = io[c].events
  /\ \A k \in Kinds : io[c].callback[k] => k \in io[c].events

LEMMA ArmedMatches ==
  HandlersArmed <=> (~refused /\ ~unmodified => \A c \in Attached : Matches(c))
  BY DEF HandlersArmed, Matches

\* A channel that keeps its mask, and gets no new handlers, stays matched.
LEMMA MatchesStays ==
  ASSUME NEW c, Matches(c), UNCHANGED watch,
         io'[c].descriptor = io[c].descriptor, io'[c].events = io[c].events,
         \A k \in Kinds : io'[c].callback[k] => io[c].callback[k]
  PROVE  Matches(c)'
  BY DEF Matches

\* Without a refused io_new every channel has a registration of its own.
LEMMA OwnRegistration ==
  ASSUME IInv, ~refused
  PROVE  /\ \A c \in Attached : Registered(c) /\ io[c].descriptor \in Watched
         /\ \A c, o \in Attached : io[c].descriptor = io[o].descriptor => c = o
  <1>1. ASSUME NEW c \in Attached
        PROVE  Registered(c) /\ io[c].descriptor \in Watched
    <2>1. Registered(c) /\ io[c].descriptor \in Fd
      BY ChannelTypes DEF IInv, AttachedRegistered, Attached
    <2> QED
      BY <2>1 DEF Registered, Watched
  <1> QED
    BY <1>1 DEF Registered

\* A new handler, or the end of one, with the loop doing as it is asked.
LEMMA RehandlesMatches ==
  ASSUME IInv, ~refused, \A o \in Attached : Matches(o),
         NEW c \in Attached, NEW k \in Kinds, NEW callback \in BOOLEAN,
         NEW d \in Data \cup {NULL}, NEW events \in SUBSET Kinds,
         Rehandles(c, k, callback, d, events), Masked(c, k, callback, events), ~unmodified'
  PROVE  \A o \in Attached' : Matches(o)'
  <1>0. TypeOK
    BY DEF IInv
  <1>1. PICK r : Rewrites(c, r)
    BY <1>0, RehandlesLemma
  <1>2. /\ io'[c].events = events /\ io'[c].callback[k] = callback
        /\ \A other \in Kinds \ {k} : io'[c].callback[other] = io[c].callback[other]
    BY <1>0, RehandlesLemma
  <1>3. /\ \A o \in Chan \ {c} : io'[o] = io[o]
        /\ Attached' = Attached /\ \A o \in Allocated : io'[o].descriptor = io[o].descriptor
    BY <1>0, <1>1, RewritesLemma
  <1>4. Attached \subseteq Allocated /\ Allocated \subseteq Chan
    BY DEF Attached, Allocated
  <1>5. /\ \A o \in Attached : io[o].descriptor \in Watched
        /\ \A o \in Attached \ {c} : io[o].descriptor # io[c].descriptor
    BY OwnRegistration
  <1>6. /\ callback => k \in events
        /\ \A j \in Kinds \ {k} : j \in io[c].events => j \in events
        /\ \/ UNCHANGED watch /\ events = io[c].events
           \/ Modify(io[c].descriptor, events, TRUE)
    BY DEF Masked
  <1>7. \A f \in Watched : watch'[f].mask = IF f = io[c].descriptor THEN events ELSE watch[f].mask
    <2>1. CASE UNCHANGED watch /\ events = io[c].events
      <3>1. watch[io[c].descriptor].mask = io[c].events
        BY DEF Matches
      <3> QED
        BY <2>1, <3>1
    <2>2. CASE Modify(io[c].descriptor, events, TRUE)
      <3>1. Modified(io[c].descriptor, events, TRUE)
        BY <1>0, <2>2, ModifyLemma
      <3> QED
        BY <3>1 DEF Modified
    <2> QED
      BY <1>6, <2>1, <2>2
  <1> SUFFICES ASSUME NEW o \in Attached
               PROVE  Matches(o)'
    BY <1>3
  <1>8. Matches(o) /\ io'[o].descriptor = io[o].descriptor
    BY <1>3, <1>4
  <1>9. CASE o = c
    BY <1>2, <1>5, <1>6, <1>7, <1>8, <1>9 DEF Matches
  <1>10. CASE o # c
    <2>1. io'[o] = io[o] /\ io[o].descriptor # io[c].descriptor
      BY <1>3, <1>4, <1>5, <1>10
    <2> QED
      BY <1>5, <1>7, <1>8, <2>1 DEF Matches
  <1> QED
    BY <1>9, <1>10

LEMMA MatchesTeardown ==
  ASSUME IInv, ~refused, \A c \in Attached : Matches(c), NEW fds, NEW gone, Teardown(fds, gone)
  PROVE  \A c \in Attached' : Matches(c)'
  <1> SUFFICES ASSUME NEW c \in Attached'
               PROVE  Matches(c)'
    OBVIOUS
  <1>0. TypeOK
    BY DEF IInv
  <1>1. c \in Allocated /\ io'[c].descriptor # NULL
    BY DEF Teardown, Attached, Allocated
  <1>2. \E count : Survives(c, fds, io', count)
    <2>1. c \in Chan /\ io'[c] # NULL
      BY DEF Attached, Allocated
    <2> QED
      BY <1>1, <2>1 DEF Teardown
  <1>3. /\ c \notin Users(fds) /\ io'[c].descriptor = io[c].descriptor
        /\ io'[c].events = io[c].events /\ \A k \in Kinds : io'[c].callback[k] => io[c].callback[k]
    BY <1>1, <1>2 DEF Survives
  <1>4. c \in Attached
    BY <1>1, <1>3 DEF Attached
  <1>5. io[c].descriptor \in Watched /\ watch[io[c].descriptor].chan = c
    BY <1>4, OwnRegistration DEF Registered
  <1>6. io[c].descriptor \notin fds \cap Listed
    BY <1>3, <1>5 DEF Users
  <1>7. /\ Watched' = Watched \ (fds \cap Listed)
        /\ \A fd \in Watched' : watch'[fd] = watch[fd]
    BY <1>0, ForgetLemma DEF Teardown
  <1>8. Matches(c) /\ watch'[io[c].descriptor] = watch[io[c].descriptor]
    BY <1>4, <1>5, <1>6, <1>7
  <1> QED
    BY <1>3, <1>8 DEF Matches

LEMMA HandlersArmedStep == IInv /\ HandlersArmed /\ [Next]_vars => HandlersArmed'
  <1> SUFFICES ASSUME IInv, HandlersArmed, [Next]_vars, ~refused', ~unmodified'
               PROVE  \A c \in Attached' : Matches(c)'
    BY DEF HandlersArmed, Matches
  <1>0. TypeOK /\ Attached \subseteq Allocated /\ Allocated \subseteq Chan
    BY DEF IInv, Attached, Allocated
  <1>1. ASSUME UNCHANGED <<watch, refused, unmodified>>, Attached' \subseteq Attached,
               \A c \in Attached' : /\ io'[c].events = io[c].events
                                    /\ io'[c].descriptor = io[c].descriptor
                                    /\ \A k \in Kinds : io'[c].callback[k] => io[c].callback[k]
        PROVE  \A c \in Attached' : Matches(c)'
    <2>1. \A c \in Attached : Matches(c)
      BY <1>1, ArmedMatches
    <2> QED
      BY <1>1, <2>1, MatchesStays
  <1>2. ASSUME NEW c, NEW r, Rewrites(c, r), UNCHANGED <<watch, unmodified>>,
               r.events = io[c].events,
               \A k \in Kinds : r.callback[k] => io[c].callback[k]
        PROVE  \A o \in Attached' : Matches(o)'
    <2>1. /\ io'[c] = r /\ \A o \in Chan \ {c} : io'[o] = io[o]
          /\ Attached' = Attached /\ \A o \in Allocated : io'[o].descriptor = io[o].descriptor
          /\ UNCHANGED refused
      BY <1>0, <1>2, RewritesLemma DEF Rewrites
    <2>2. \A o \in Attached' : /\ io'[o].events = io[o].events
                               /\ io'[o].descriptor = io[o].descriptor
                               /\ \A k \in Kinds : io'[o].callback[k] => io[o].callback[k]
      BY <1>0, <1>2, <2>1
    <2> QED
      BY <1>1, <1>2, <2>1, <2>2
  <1>3. ASSUME NEW fd \in Fd, NEW c \in Chan, IoNew(fd, c) \/ IoNewRefused(fd, c)
        PROVE  \A o \in Attached' : Matches(o)'
    <2>1. /\ IoNew(fd, c) /\ UNCHANGED <<refused, unmodified>>
      BY <1>3 DEF IoNewRefused, IoNew, history
    <2>2. /\ c \notin Allocated /\ io'[c] = NewIo(fd) /\ \A o \in Chan \ {c} : io'[o] = io[o]
          /\ Attached' = Attached \cup {c}
      BY <1>3, IoNewStep
    <2> DEFINE r == [chan |-> c, mask |-> {}]
    <2>3. watch' = [watch EXCEPT ![fd] = r] /\ fd \notin Watched
      BY <2>1 DEF IoNew
    <2>4. r.chan = c /\ r.mask = {}
      OBVIOUS
    <2> HIDE DEF r
    <2> SUFFICES ASSUME NEW o \in Attached'
                 PROVE  Matches(o)'
      OBVIOUS
    <2>5. CASE o = c
      <3>1. /\ io'[c].events = {} /\ io'[c].descriptor = fd
            /\ \A k \in Kinds : ~io'[c].callback[k]
        BY <2>2, NewIoLemma
      <3>2. watch'[fd] = r
        BY <1>0, <2>3 DEF TypeOK
      <3> QED
        BY <2>4, <2>5, <3>1, <3>2 DEF Matches
    <2>6. CASE o # c
      <3>1. o \in Attached /\ io'[o] = io[o]
        BY <1>0, <2>2, <2>6
      <3>2. Matches(o) /\ io[o].descriptor \in Watched
        BY <2>1, <3>1, ArmedMatches, OwnRegistration
      <3>3. watch'[io[o].descriptor] = watch[io[o].descriptor]
        BY <1>0, <2>3, <3>2 DEF TypeOK, Watched
      <3> QED
        BY <3>1, <3>2, <3>3 DEF Matches
    <2> QED
      BY <2>5, <2>6
  <1>4. ASSUME NEW c \in Chan, SetCloseOnDestroy(c)
        PROVE  \A o \in Attached' : Matches(o)'
    BY <1>2, <1>4, SetCloseLemma DEF history
  <1>5. ASSUME NEW c \in Chan, NEW k \in Kinds, NEW callback \in BOOLEAN,
               NEW d \in Data \cup {NULL}, SetHandler(c, k, callback, d)
        PROVE  \A o \in Attached' : Matches(o)'
    <2>1. /\ c \in Attached
          /\ \E events \in SUBSET Kinds :
               Rehandles(c, k, callback, d, events) /\ Masked(c, k, callback, events)
          /\ UNCHANGED refused
      BY <1>5, SetHandlerLemma
    <2>2. PICK events \in SUBSET Kinds :
            Rehandles(c, k, callback, d, events) /\ Masked(c, k, callback, events)
      BY <2>1
    <2>3. ~unmodified
      <3>1. CASE Modify(io[c].descriptor, events, TRUE)
        BY <1>0, <3>1, ModifyLemma DEF Modified
      <3> QED
        BY <2>2, <3>1 DEF Masked
    <2>4. \A o \in Attached : Matches(o)
      BY <2>1, <2>3, ArmedMatches
    <2> QED
      BY <2>1, <2>2, <2>4, RehandlesMatches
  <1>6. ASSUME NEW k \in Kinds, Call(k)
        PROVE  \A o \in Attached' : Matches(o)'
    BY <1>2, <1>6, CallLemma DEF history
  <1>7. ASSUME NEW k \in Kinds, ReturnDrop(k)
        PROVE  \A o \in Attached' : Matches(o)'
    <2> DEFINE events == io[cur].events \ {k}
    <2>1. /\ cur \in Allocated /\ Rehandles(cur, k, FALSE, NULL, events) /\ UNCHANGED refused
          /\ \E ok \in BOOLEAN : Modify(io[cur].descriptor, events, ok)
      BY <1>7, ReturnDropLemma
    <2>2. events \in SUBSET Kinds
      BY <1>0, <2>1, ChannelTypes
    <2> HIDE DEF events
    <2>3. Modify(io[cur].descriptor, events, TRUE) /\ io[cur].descriptor \in Watched /\ ~unmodified
      <3>1. PICK ok \in BOOLEAN : Modify(io[cur].descriptor, events, ok)
        BY <2>1
      <3>2. ok /\ ~unmodified /\ (ok => io[cur].descriptor \in Watched)
        BY <3>1 DEF Modify, Listed
      <3>3. ok = TRUE
        BY <3>2
      <3> QED
        BY <3>1, <3>2, <3>3
    <2>4. cur \in Attached
      BY <2>1, <2>3, NullAssumption DEF Attached, Watched
    <2>5. Masked(cur, k, FALSE, events)
      BY <2>3 DEF Masked, events
    <2>6. \A o \in Attached : Matches(o)
      BY <2>1, <2>3, ArmedMatches
    <2> QED
      BY <2>1, <2>2, <2>4, <2>5, <2>6, RehandlesMatches
  <1>8. ASSUME NEW fds, NEW gone, Teardown(fds, gone)
        PROVE  \A o \in Attached' : Matches(o)'
    <2>1. ~refused /\ ~unmodified
      BY <1>8 DEF Teardown
    <2> QED
      BY <1>8, <2>1, ArmedMatches, MatchesTeardown
  <1>9. CASE LoopQuit \/ Abandon \/ \E c \in Chan : IoDestroy(c)
    BY <1>8, <1>9, LoopQuitTeardown, AbandonTeardown, IoDestroyTeardown
  <1>10. ASSUME NEW fd \in Fd, Start(fd)
         PROVE  \A o \in Attached' : Matches(o)'
    <2>1. UNCHANGED <<watch, refused, unmodified>>
      BY <1>10 DEF Start, history
    <2>2. /\ Attached' = Attached
          /\ \A o \in Allocated : /\ io'[o].descriptor = io[o].descriptor
                                  /\ io'[o].events = io[o].events
                                  /\ io'[o].callback = io[o].callback
      BY <1>10, StartStep
    <2> QED
      BY <1>0, <1>1, <2>1, <2>2
  <1>11. CASE Finish
    <2>1. UNCHANGED <<watch, refused, unmodified>>
      BY <1>11 DEF Finish, history
    <2>2. /\ Attached' = Attached \cap Allocated'
          /\ \A o \in Allocated' : /\ io'[o].descriptor = io[o].descriptor
                                   /\ io'[o].events = io[o].events
                                   /\ io'[o].callback = io[o].callback
      BY <1>11, FinishStep
    <2> QED
      BY <1>1, <2>1, <2>2
  <1>12. CASE Wait
    BY <1>1, <1>12 DEF Wait, history, Attached, Allocated
  <1>13. CASE Quiet
    <2>1. UNCHANGED <<io, watch, refused, unmodified>>
      BY <1>13, QuietLemma DEF history
    <2> QED
      BY <1>1, <2>1 DEF Attached, Allocated
  <1> QED
    BY <1>3, <1>4, <1>5, <1>6, <1>7, <1>9, <1>10, <1>11, <1>12, <1>13, StepCases

\* The loop watches a channel with the mask the channel has recorded, and the mask
\* asks for every handler that is installed, as long as the loop does what
\* io_new, the io_set functions and io_process_event ask of it.
THEOREM InstalledHandlersAreArmed == Spec => []HandlersArmed
  <1>1. Init => HandlersArmed
    BY DEF Init, HandlersArmed, Attached, Allocated
  <1> QED
    BY <1>1, Invariance, HandlersArmedStep, PTL DEF Spec
-----------------------------------------------------------------------------
(***************************************************************************)
(* User data.                                                              *)
(***************************************************************************)

\* Nothing happens after a fault.
LEMMA HaltedLemma == ~Running /\ [Next]_vars => UNCHANGED vars
  <1> SUFFICES ASSUME ~Running, Next
               PROVE  UNCHANGED vars
    OBVIOUS
  <1>1. ~Program
    <2>1. \A fd, c : ~Open(fd) /\ ~Close(fd) /\ ~IoNew(fd, c) /\ ~IoNewRefused(fd, c)
      BY DEF UserCode, Open, Close, IoNew, IoNewRefused
    <2>2. ASSUME NEW c, NEW k, NEW callback, NEW d, SetHandler(c, k, callback, d)
          PROVE  FALSE
      <3>1. UserCode
        BY <2>2 DEF SetHandler
      <3> QED
        BY <3>1 DEF UserCode
    <2>3. \A c : ~SetCloseOnDestroy(c) /\ ~IoDestroy(c)
      BY DEF UserCode, SetCloseOnDestroy, IoDestroy
    <2>4. ~IoNewNoMemory /\ ~LoopQuit /\ ~RunLoop /\ ~OthersRemove /\ ~TableFaults
      BY DEF UserCode, IoNewNoMemory, LoopQuit, RunLoop, OthersRemove, TableFaults
    <2> QED
      BY <2>1, <2>2, <2>3, <2>4 DEF Program
  <1>2. ~ProcessEvent /\ ~Return
    BY DEF ProcessEvent, Return, Stage, Abandon, Finish, Call, Skip, ReturnKeep, ReturnDrop
  <1>3. ~LoopRun
    BY DEF LoopRun, Wait, WaitFails, ExitLoop, Start, StartFreed, StartDropped
  <1> QED
    BY <1>1, <1>2, <1>3 DEF Next, Halted

\* A step that leaves the user data where it is.
LEMMA SameData ==
  ASSUME HeldOnce, DetachedReleased, Running,
         UNCHANGED data, refused => refused', holed => holed',
         Allocated' \subseteq Allocated, Attached' = Attached \cap Allocated',
         ~refused' /\ ~holed' => Attached' = Attached,
         \A c \in Allocated' : io'[c].data = io[c].data
  PROVE  HeldOnce' /\ DetachedReleased'
  <1>1. Attached' \subseteq Allocated' /\ Attached' \subseteq Attached
    OBVIOUS
  <1>2. PlacesHeld' /\ PlacesDistinct'
    BY <1>1 DEF HeldOnce, PlacesHeld, PlacesDistinct
  <1>3. HeldPlaced'
    BY <1>1 DEF HeldOnce, HeldPlaced
  <1>4. DetachedReleased'
    BY DEF DetachedReleased
  <1> QED
    BY <1>2, <1>3, <1>4 DEF HeldOnce

\* The channels that are taken down have no more handlers than before.
LEMMA SameHandlers ==
  ASSUME DetachedMuted, Running, stopped => stopped', refused => refused',
         \A c \in owned' \ Attached' :
           /\ c \in owned \ Attached
           /\ \A k \in Kinds : io'[c].callback[k] => io[c].callback[k]
  PROVE  DetachedMuted'
  BY DEF DetachedMuted

\* The program's channels are there.
LEMMA OwnedAllocated ==
  ASSUME IInv
  PROVE  owned \subseteq Allocated /\ Attached \subseteq Allocated /\ Allocated \subseteq Chan
  BY DEF IInv, TypeOK, ReferencesCounted, Holders, Attached, Allocated

\* The handler of a channel changes, or a callback gives up the one of a channel
\* that was taken down.
LEMMA ExchangePlaces ==
  ASSUME IInv, HeldOnce, DetachedReleased, Running,
         NEW c \in Attached, NEW k \in Kinds, NEW callback \in BOOLEAN,
         NEW d \in Data \cup {NULL}, NEW events \in SUBSET Kinds,
         Rehandles(c, k, callback, d, events),
         Exchange({io[c].data[k]} \ {NULL}, {d} \ {NULL}),
         d \in Data => data[d] = "program"
  PROVE  UNCHANGED fault /\ HeldOnce' /\ DetachedReleased'
  <1>0. TypeOK /\ NULL \notin Data /\ UNCHANGED <<refused, holed>> /\ c \in Allocated
    BY NullAssumption DEF IInv, Rehandles, Attached, damage
  <1> DEFINE old == io[c].data[k]
  <1>1. PlacesHeld /\ PlacesDistinct /\ HeldPlaced
    BY DEF HeldOnce
  <1>2. /\ old \in Data \cup {NULL} /\ (old # NULL => data[old] = "held")
        /\ \A o \in Allocated, j \in Kinds : io[o].data[j] \in Data \cup {NULL}
    BY <1>0, <1>1, ChannelTypes DEF PlacesHeld
  <1>3. /\ UNCHANGED fault
        /\ \A e \in Data : data'[e] = IF e = d THEN "held"
                                      ELSE IF e = old THEN "released" ELSE data[e]
    BY <1>0, <1>2 DEF Exchange
  <1>4. /\ io'[c].data[k] = d
        /\ \A other \in Kinds \ {k} : io'[c].data[other] = io[c].data[other]
    BY <1>0, RehandlesLemma
  <1>5. PICK r : Rewrites(c, r)
    <2>1. TypeOK
      BY <1>0
    <2>2. \E r : Rewrites(c, r)
      BY <2>1, RehandlesLemma
    <2> QED
      BY <2>2
  <1>6. /\ \A o \in Chan \ {c} : io'[o] = io[o]
        /\ Allocated' = Allocated /\ Attached' = Attached
    BY <1>0, <1>5, RewritesLemma
  <1>7. Attached \subseteq Allocated /\ Allocated \subseteq Chan
    BY DEF Attached, Allocated
  <1>8. \A o \in Allocated, j \in Kinds :
          io'[o].data[j] = IF o = c /\ j = k THEN d ELSE io[o].data[j]
    BY <1>4, <1>6, <1>7
  <1>9. \A o \in Attached, j \in Kinds : io[o].data[j] # NULL =>
          /\ io[o].data[j] # d
          /\ (io[o].data[j] = old => o = c /\ j = k)
    BY <1>0, <1>1, <1>2, <1>7 DEF PlacesHeld, PlacesDistinct
  <1> HIDE DEF old
  <1>10. PlacesHeld'
    <2> SUFFICES ASSUME NEW o \in Attached, NEW j \in Kinds, io'[o].data[j] # NULL
                 PROVE  data'[io'[o].data[j]] = "held"
      BY <1>6 DEF PlacesHeld
    <2>1. CASE o = c /\ j = k
      BY <1>0, <1>3, <1>7, <1>8, <2>1
    <2>2. CASE ~(o = c /\ j = k)
      <3>1. io'[o].data[j] = io[o].data[j] /\ io[o].data[j] \in Data
        BY <1>2, <1>7, <1>8, <2>2
      <3> QED
        BY <1>1, <1>3, <1>9, <2>2, <3>1 DEF PlacesHeld
    <2> QED
      BY <2>1, <2>2
  <1>11. PlacesDistinct'
    <2> SUFFICES ASSUME NEW o \in Attached, NEW p \in Attached, NEW i \in Kinds, NEW j \in Kinds,
                        io'[o].data[i] # NULL, io'[o].data[i] = io'[p].data[j]
                 PROVE  o = p /\ i = j
      BY <1>6 DEF PlacesDistinct
    <2> QED
      BY <1>1, <1>7, <1>8, <1>9 DEF PlacesDistinct
  <1>12. HeldPlaced'
    <2> SUFFICES ASSUME ~refused, ~holed, NEW e \in Data, data'[e] = "held"
                 PROVE  \E o \in Attached, j \in Kinds : io'[o].data[j] = e
      BY <1>0, <1>6 DEF HeldPlaced
    <2>1. CASE e = d
      BY <1>4, <2>1
    <2>2. CASE e # d
      <3>1. data[e] = "held" /\ e # old
        BY <1>3, <2>2
      <3>2. PICK o \in Attached, j \in Kinds : io[o].data[j] = e
        BY <1>1, <3>1 DEF HeldPlaced
      <3>3. ~(o = c /\ j = k)
        BY <3>1, <3>2 DEF old
      <3> QED
        BY <1>7, <1>8, <3>2, <3>3
    <2> QED
      BY <2>1, <2>2
  <1>13. DetachedReleased'
    <2> SUFFICES ASSUME NEW o \in Allocated \ Attached, NEW j \in Kinds, io'[o].data[j] # NULL
                 PROVE  data'[io'[o].data[j]] = "released"
      BY <1>6 DEF DetachedReleased
    <2>1. io'[o].data[j] = io[o].data[j] /\ io[o].data[j] \in Data
      BY <1>2, <1>8
    <2>2. data[io[o].data[j]] = "released"
      BY <2>1 DEF DetachedReleased
    <2>3. io[o].data[j] # d
      BY <2>1, <2>2
    <2> QED
      BY <1>3, <2>1, <2>2, <2>3
  <1> QED
    BY <1>3, <1>10, <1>11, <1>12, <1>13 DEF HeldOnce
\* What the loop forgets is released, once.
LEMMA TeardownPlaces ==
  ASSUME IInv, HeldOnce, DetachedReleased, Running, NEW fds, NEW gone, Teardown(fds, gone)
  PROVE  /\ UNCHANGED fault /\ HeldOnce' /\ DetachedReleased'
         /\ Allocated' \subseteq Allocated /\ Attached' \subseteq Attached \ Users(fds)
         /\ \A c \in Allocated' :
              /\ io'[c].descriptor = IF c \in Users(fds) THEN NULL ELSE io[c].descriptor
              /\ \A k \in Kinds : io'[c].callback[k] => io[c].callback[k]
  <1>0. TypeOK /\ NULL \notin Data /\ UNCHANGED refused /\ (holed => holed')
    BY NullAssumption DEF IInv, Teardown, Damages, TypeOK
  <1> DEFINE old == UNION {DataOf(c) : c \in Users(fds)}
  <1>1. PlacesHeld /\ PlacesDistinct /\ HeldPlaced
    BY DEF HeldOnce
  <1>2. Users(fds) \subseteq Attached /\ Attached \subseteq Allocated /\ Allocated \subseteq Chan
    BY UsersLemma DEF Attached, Allocated
  <1>3. \A o \in Allocated, j \in Kinds : io[o].data[j] \in Data \cup {NULL}
    BY <1>0, ChannelTypes
  <1>4. \A e : e \in old <=> e # NULL /\ \E c \in Users(fds), k \in Kinds : io[c].data[k] = e
    BY DEF DataOf
  <1>5. Release(old)
    BY DEF Teardown, Forget
  <1> HIDE DEF old
  <1>6. \A e \in old : data[e] = "held"
    BY <1>1, <1>2, <1>4 DEF PlacesHeld
  <1>7. /\ UNCHANGED fault
        /\ \A e \in Data : data'[e] = IF e \in old THEN "released" ELSE data[e]
    BY <1>5, <1>6 DEF Release, Exchange
  <1>8. ASSUME NEW c \in Allocated'
        PROVE  /\ c \in Allocated /\ io'[c].data = io[c].data
               /\ io'[c].descriptor = IF c \in Users(fds) THEN NULL ELSE io[c].descriptor
               /\ \A k \in Kinds : io'[c].callback[k] => io[c].callback[k]
    <2>1. c \in Chan /\ io'[c] # NULL /\ c \in Allocated
      BY DEF Allocated, Teardown
    <2>2. \E count : Survives(c, fds, io', count)
      BY <2>1 DEF Teardown
    <2> QED
      BY <2>1, <2>2 DEF Survives
  <1>9. Allocated' \subseteq Allocated /\ Attached' \subseteq Attached \ Users(fds)
    BY <1>8 DEF Attached
  <1>10. Attached' \subseteq Allocated' /\ \A c \in Attached' : io'[c].data = io[c].data
    BY <1>8 DEF Attached
  <1>11. \A o \in Attached \ Users(fds), j \in Kinds : io[o].data[j] \notin old
    BY <1>1, <1>2, <1>4 DEF PlacesDistinct
  <1>12. PlacesHeld'
    <2> SUFFICES ASSUME NEW o \in Attached', NEW j \in Kinds, io[o].data[j] # NULL
                 PROVE  data'[io[o].data[j]] = "held"
      BY <1>10 DEF PlacesHeld
    <2>1. o \in Attached \ Users(fds) /\ io[o].data[j] \in Data
      BY <1>2, <1>3, <1>9
    <2> QED
      BY <1>1, <1>7, <1>11, <2>1 DEF PlacesHeld
  <1>13. PlacesDistinct'
    BY <1>1, <1>9, <1>10 DEF PlacesDistinct
  <1>14. HeldPlaced'
    <2> SUFFICES ASSUME ~refused, ~holed, NEW e \in Data, data'[e] = "held"
                 PROVE  \E o \in Attached', j \in Kinds : io'[o].data[j] = e
      BY <1>0 DEF HeldPlaced
    <2>1. data[e] = "held" /\ e \notin old /\ e # NULL
      BY <1>0, <1>7
    <2>2. PICK o \in Attached, j \in Kinds : io[o].data[j] = e
      BY <1>1, <2>1 DEF HeldPlaced
    <2>3. o \notin Users(fds)
      BY <1>4, <2>1, <2>2
    <2>4. Registered(o) /\ io[o].descriptor \in Fd /\ io[o].descriptor # NULL
      <3>1. Registered(o) /\ io[o].descriptor # NULL
        BY <2>2 DEF IInv, AttachedRegistered, Attached
      <3> QED
        BY <1>0, <1>2, <2>2, <3>1, ChannelTypes
    <2>5. io[o].descriptor \notin fds
      BY <2>3, <2>4 DEF Registered, Users, Listed, Watched, IInv, Intact
    <2>6. o \notin gone
      BY <2>4, <2>5 DEF Teardown
    <2>7. Survives(o, fds, io', io[o].reference_count) /\ o \in Chan
      BY <1>2, <2>2, <2>6 DEF Teardown
    <2>8. io'[o].data = io[o].data /\ io'[o].descriptor # NULL /\ io'[o] # NULL
      BY <2>3, <2>4, <2>7, NullAssumption DEF Survives
    <2>9. o \in Attached'
      BY <2>7, <2>8 DEF Attached, Allocated
    <2> QED
      BY <2>2, <2>8, <2>9
  <1>15. DetachedReleased'
    <2> SUFFICES ASSUME NEW o \in Allocated' \ Attached', NEW j \in Kinds, io[o].data[j] # NULL
                 PROVE  data'[io[o].data[j]] = "released"
      BY <1>8 DEF DetachedReleased
    <2>1. o \in Allocated /\ io[o].data[j] \in Data
      BY <1>3, <1>8
    <2>2. CASE o \notin Attached
      <3>1. data[io[o].data[j]] = "released"
        BY <2>1, <2>2 DEF DetachedReleased
      <3> QED
        BY <1>7, <2>1, <3>1
    <2>3. CASE o \in Attached
      <3>1. io'[o].descriptor = NULL /\ io[o].descriptor # NULL
        BY <2>3 DEF Attached
      <3>2. o \in Users(fds)
        BY <1>8, <3>1
      <3>3. io[o].data[j] \in old
        BY <1>4, <3>2
      <3> QED
        BY <1>7, <2>1, <3>3
    <2> QED
      BY <2>2, <2>3
  <1> QED
    BY <1>7, <1>8, <1>9, <1>12, <1>13, <1>14, <1>15 DEF HeldOnce
\* The steps that end registrations; a channel of the program that is not the one
\* destroyed, or the one of the event, is taken down only by loop_quit or as a second
\* channel of the descriptor.
LEMMA TeardownData ==
  ASSUME DataInv, Running, LoopQuit \/ Abandon \/ \E c \in Chan : IoDestroy(c)
  PROVE  DataInv'
  <1>0. IInv /\ HeldOnce /\ DetachedReleased /\ DetachedMuted
    BY DEF DataInv
  <1>1. IInv'
    BY <1>0, TeardownSteps
  <1>2. ASSUME NEW fds, NEW gone, Teardown(fds, gone)
        PROVE  /\ HeldOnce' /\ DetachedReleased' /\ FaultsExplained'
               /\ UNCHANGED <<cur, refused>> /\ owned' = owned \ gone
               /\ Attached' \subseteq Attached \ Users(fds) /\ Allocated' \subseteq Allocated
               /\ \A c \in Allocated' :
                    /\ io'[c].descriptor = IF c \in Users(fds) THEN NULL ELSE io[c].descriptor
                    /\ \A k \in Kinds : io'[c].callback[k] => io[c].callback[k]
    <2>1. UNCHANGED <<cur, refused>> /\ owned' = owned \ gone
      BY <1>2 DEF Teardown
    <2>2. UNCHANGED fault
      BY <1>0, <1>2, TeardownPlaces
    <2>3. FaultsExplained'
      BY <2>2 DEF FaultsExplained, Running
    <2> QED
      BY <1>0, <1>2, <2>1, <2>3, TeardownPlaces
  <1>3. ASSUME NEW o \in Allocated, NEW gone, Teardown({io[o].descriptor}, gone),
               NEW c \in owned' \ Attached', c # o, ~stopped, ~refused, IInv'
        PROVE  \A k \in Kinds : ~io'[c].callback[k]
    <2> DEFINE fds == {io[o].descriptor}
    <2>1. Teardown(fds, gone)
      BY <1>3
    <2>2. /\ owned' = owned \ gone
          /\ \A a \in Allocated' :
               /\ io'[a].descriptor = IF a \in Users(fds) THEN NULL ELSE io[a].descriptor
               /\ \A k \in Kinds : io'[a].callback[k] => io[a].callback[k]
      <3> HIDE DEF fds
      <3> QED
        BY <1>2, <2>1
    <2>3. c \in owned /\ c \in Allocated' /\ c \in Allocated
      BY <1>0, <1>3, <2>2, OwnedAllocated DEF IInv, TypeOK, ReferencesCounted, Holders
    <2>4. c \notin Attached
      <3> SUFFICES ASSUME c \in Attached
                   PROVE  FALSE
        OBVIOUS
      <3>1. c \in Users(fds)
        BY <1>3, <2>2, <2>3 DEF Attached
      <3>2. io[c].descriptor = io[o].descriptor
        BY <1>0, <3>1, UsersLemma
      <3>3. o \in Attached
        BY <3>2 DEF Attached
      <3> QED
        BY <1>0, <1>3, <3>2, <3>3, OwnRegistration
    <2> QED
      BY <1>0, <1>3, <2>2, <2>3, <2>4 DEF DetachedMuted
  <1>4. CASE LoopQuit
    <2>1. Teardown(Fd, {}) /\ stopped'
      BY <1>0, <1>4, LoopQuitTeardown
    <2>2. DetachedMuted'
      BY <2>1 DEF DetachedMuted
    <2> QED
      BY <1>1, <1>2, <2>1, <2>2 DEF DataInv
  <1>5. CASE Abandon
    <2>1. /\ Teardown({io[cur].descriptor}, {}) /\ cur \in Allocated
          /\ UNCHANGED <<stopped, refused>>
          /\ \A k \in Kinds : ~io'[cur].callback[k]
      BY <1>0, <1>5, AbandonTeardown DEF Teardown
    <2>2. DetachedMuted'
      <3> SUFFICES ASSUME NEW c \in owned' \ Attached', ~stopped, ~refused
                   PROVE  \A k \in Kinds : ~io'[c].callback[k]
        BY <2>1 DEF DetachedMuted
      <3> QED
        BY <1>1, <1>3, <2>1
    <2> QED
      BY <1>1, <1>2, <2>1, <2>2 DEF DataInv
  <1>6. ASSUME NEW c \in Chan, IoDestroy(c)
        PROVE  DataInv'
    <2>1. /\ Teardown({io[c].descriptor}, {c}) /\ c \in Allocated
          /\ UNCHANGED <<stopped, refused>> /\ owned' = owned \ {c}
      BY <1>0, <1>6, IoDestroyTeardown DEF IoDestroy, history
    <2>2. DetachedMuted'
      <3> SUFFICES ASSUME NEW o \in owned' \ Attached', ~stopped, ~refused
                   PROVE  \A k \in Kinds : ~io'[o].callback[k]
        BY <2>1 DEF DetachedMuted
      <3>1. o # c
        BY <2>1
      <3> QED
        BY <1>1, <1>3, <2>1, <3>1
    <2> QED
      BY <1>1, <1>2, <2>1, <2>2 DEF DataInv
  <1> QED
    BY <1>4, <1>5, <1>6

\* A step that takes a handler from a channel.
LEMMA EndsLemma ==
  ASSUME TypeOK, NEW c, NEW k \in Kinds, NEW callback \in BOOLEAN, NEW d \in Data \cup {NULL},
         NEW events \in SUBSET Kinds, Rehandles(c, k, callback, d, events)
  PROVE  /\ io'[c].data[k] = d
         /\ \A other \in Kinds \ {k} : io'[c].data[other] = io[c].data[other]
         /\ \A j \in Kinds : io'[c].callback[j] => io[c].callback[j] \/ callback
  <1>1. /\ io'[c].callback[k] = callback /\ io'[c].data[k] = d
        /\ \A other \in Kinds \ {k} : io'[c].callback[other] = io[c].callback[other]
                                      /\ io'[c].data[other] = io[c].data[other]
    BY RehandlesLemma
  <1> QED
    BY <1>1

\* The steps that give a handler to a channel, or end one.
LEMMA ExchangeData ==
  ASSUME DataInv, Running,
         \/ \E c \in Chan, k \in Kinds, callback \in BOOLEAN, d \in Data \cup {NULL} :
              SetHandler(c, k, callback, d)
         \/ \E k \in Kinds : ReturnDrop(k)
  PROVE  DataInv'
  <1>0. IInv /\ HeldOnce /\ DetachedReleased /\ DetachedMuted /\ TypeOK
    BY DEF DataInv, IInv
  <1>1. IInv'
    BY <1>0, HandlerSteps
  <1>2. ASSUME NEW c \in Chan, NEW k \in Kinds, NEW callback \in BOOLEAN,
               NEW d \in Data \cup {NULL}, SetHandler(c, k, callback, d)
        PROVE  DataInv'
    <2>1. /\ c \in owned \cap Attached
          /\ Exchange({io[c].data[k]} \ {NULL}, {d} \ {NULL})
          /\ d \in Data => data[d] = "program"
          /\ UNCHANGED <<owned, open, loop, event, damage, refused>>
      BY <1>0, <1>2, SetHandlerLemma
    <2>2. PICK events \in SUBSET Kinds : Rehandles(c, k, callback, d, events)
      <3>1. IInv
        BY <1>0
      <3>2. \E events \in SUBSET Kinds : Rehandles(c, k, callback, d, events)
        BY <1>2, <3>1, SetHandlerLemma
      <3> QED
        BY <3>2
    <2>3. UNCHANGED fault /\ HeldOnce' /\ DetachedReleased'
      BY <1>0, <2>1, <2>2, ExchangePlaces
    <2>4. PICK r : Rewrites(c, r)
      BY <1>0, <2>2, RehandlesLemma
    <2>5. (\A o \in Chan \ {c} : io'[o] = io[o]) /\ Attached' = Attached
      BY <1>0, <2>4, RewritesLemma
    <2>6. DetachedMuted'
      <3>1. owned \subseteq Chan /\ UNCHANGED <<owned, cur, stopped, refused>>
        BY <1>0, <2>1 DEF TypeOK, loop, event
      <3> QED
        BY <1>0, <2>1, <2>5, <3>1, SameHandlers
    <2>7. FaultsExplained'
      BY <2>3 DEF FaultsExplained, Running
    <2> QED
      BY <1>1, <2>3, <2>6, <2>7 DEF DataInv
  <1>3. ASSUME NEW k \in Kinds, ReturnDrop(k)
        PROVE  DataInv'
    <2> DEFINE events == io[cur].events \ {k}
    <2>1. /\ cur \in Allocated /\ Rehandles(cur, k, FALSE, NULL, events)
          /\ Release({io[cur].data[k]} \ {NULL}) /\ called' = FALSE
          /\ UNCHANGED <<owned, loop, cur, damage, refused>>
      BY <1>0, <1>3, ReturnDropLemma
    <2>2. events \in SUBSET Kinds
      BY <1>0, <2>1, ChannelTypes
    <2> HIDE DEF events
    <2>3. /\ io'[cur].data[k] = NULL
          /\ \A other \in Kinds \ {k} : io'[cur].data[other] = io[cur].data[other]
          /\ \A j \in Kinds : io'[cur].callback[j] => io[cur].callback[j]
      <3>1. ASSUME NEW c, NEW callback \in BOOLEAN, NEW d \in Data \cup {NULL},
                   Rehandles(c, k, callback, d, events)
            PROVE  /\ io'[c].data[k] = d
                   /\ \A other \in Kinds \ {k} : io'[c].data[other] = io[c].data[other]
                   /\ \A j \in Kinds : io'[c].callback[j] => io[c].callback[j] \/ callback
        <4>1. TypeOK
          BY <1>0
        <4> QED
          BY <2>2, <3>1, <4>1, EndsLemma
      <3> QED
        BY <2>1, <3>1
    <2>4. PICK r : Rewrites(cur, r)
      BY <1>0, <2>1, <2>2, RehandlesLemma
    <2>5. /\ (\A o \in Chan \ {cur} : io'[o] = io[o])
          /\ Attached' = Attached /\ Allocated' = Allocated
      BY <1>0, <2>4, RewritesLemma
    <2>6. DetachedMuted'
      <3>1. \A o \in owned, j \in Kinds : io'[o].callback[j] => io[o].callback[j]
        BY <1>0, <2>3, <2>5, OwnedAllocated
      <3> QED
        BY <1>0, <2>1, <2>5, <3>1, SameHandlers DEF loop
    <2>7. CASE cur \in Attached
      <3>1. Exchange({io[cur].data[k]} \ {NULL}, {NULL} \ {NULL})
        BY <2>1 DEF Release
      <3>2. UNCHANGED fault /\ HeldOnce' /\ DetachedReleased'
        BY <1>0, <2>1, <2>2, <2>7, <3>1, ExchangePlaces, NullAssumption
      <3>3. FaultsExplained'
        BY <3>2 DEF FaultsExplained, Running
      <3> QED
        BY <1>1, <2>6, <3>2, <3>3 DEF DataInv
    <2>8. CASE cur \notin Attached /\ io[cur].data[k] = NULL
      <3>1. UNCHANGED fault /\ UNCHANGED data
        BY <1>0, <2>1, <2>8 DEF Release, Exchange, TypeOK
      <3>2. \A c \in Allocated, j \in Kinds : io'[c].data[j] = io[c].data[j]
        BY <2>3, <2>5, <2>8 DEF Allocated
      <3>3. HeldOnce' /\ DetachedReleased'
        <4>1. Attached \subseteq Allocated /\ UNCHANGED <<refused, holed>>
          BY <2>1 DEF Attached, damage
        <4>2. PlacesHeld' /\ PlacesDistinct' /\ HeldPlaced'
          BY <1>0, <2>5, <3>1, <3>2, <4>1 DEF HeldOnce, PlacesHeld, PlacesDistinct, HeldPlaced
        <4>3. DetachedReleased'
          BY <1>0, <2>5, <3>1, <3>2 DEF DetachedReleased
        <4> QED
          BY <4>2, <4>3 DEF HeldOnce
      <3>4. FaultsExplained'
        BY <3>1 DEF FaultsExplained, Running
      <3> QED
        BY <1>1, <2>6, <3>3, <3>4 DEF DataInv
    <2>9. CASE cur \notin Attached /\ io[cur].data[k] # NULL
      <3>1. data[io[cur].data[k]] = "released"
        BY <1>0, <2>1, <2>9 DEF DetachedReleased
      <3>2. fault' = "twice"
        BY <2>1, <2>9, <3>1 DEF Release, Exchange
      <3>3. FaultsExplained'
        BY <2>1, <2>5, <2>9, <3>2 DEF FaultsExplained
      <3> QED
        BY <1>1, <3>2, <3>3 DEF DataInv, HeldOnce, DetachedReleased, DetachedMuted, Running
    <2> QED
      BY <2>7, <2>8, <2>9
  <1> QED
    BY <1>2, <1>3
\* A new channel has no user data.
LEMMA IoNewData ==
  ASSUME DataInv, Running, NEW fd \in Fd, NEW c \in Chan, IoNew(fd, c) \/ IoNewRefused(fd, c)
  PROVE  DataInv'
  <1>0. IInv /\ HeldOnce /\ DetachedReleased /\ DetachedMuted /\ TypeOK /\ ReferencesCounted
    BY DEF DataInv, IInv
  <1>1. IInv'
    BY <1>0, EventSteps
  <1>2. /\ c \notin Allocated /\ io'[c] = NewIo(fd) /\ (\A o \in Chan \ {c} : io'[o] = io[o])
        /\ Allocated' = Allocated \cup {c} /\ Attached' = Attached \cup {c}
    BY <1>0, IoNewStep
  <1>3. \A k \in Kinds : io'[c].data[k] = NULL
    BY <1>2, NewIoLemma
  <1>4. /\ UNCHANGED <<data, fault, cur, stopped, holed>> /\ owned' = owned \cup {c}
        /\ (refused => refused')
    BY DEF IoNew, IoNewRefused, loop, event, damage, history
  <1>5. Attached \subseteq Allocated /\ Allocated \subseteq Chan \ {c}
    BY <1>2 DEF Attached, Allocated
  <1>6. PlacesHeld' /\ PlacesDistinct'
    BY <1>0, <1>2, <1>3, <1>4, <1>5 DEF HeldOnce, PlacesHeld, PlacesDistinct
  <1>7. HeldPlaced'
    BY <1>0, <1>2, <1>4, <1>5 DEF HeldOnce, HeldPlaced
  <1>8. DetachedReleased'
    BY <1>0, <1>2, <1>4, <1>5 DEF DetachedReleased
  <1>9. DetachedMuted'
    <2>1. \A o \in owned' \ Attached' : o \in owned \ Attached /\ io'[o] = io[o]
      BY <1>0, <1>2, <1>4 DEF TypeOK
    <2> QED
      BY <1>0, <1>4, <2>1, SameHandlers
  <1>10. FaultsExplained'
    BY <1>4 DEF FaultsExplained, Running
  <1> QED
    BY <1>1, <1>6, <1>7, <1>8, <1>9, <1>10 DEF DataInv, HeldOnce

\* Released data is handed to a callback only if its channel has been taken down.
LEMMA CallData ==
  ASSUME DataInv, Running, NEW k \in Kinds, Call(k)
  PROVE  DataInv'
  <1>0. /\ IInv /\ HeldOnce /\ DetachedReleased /\ DetachedMuted /\ TypeOK /\ DestroyedSilent
    BY DEF DataInv, IInv
  <1>1. IInv'
    BY <1>0, HandlerSteps
  <1>2. /\ cur \in Allocated /\ io[cur].callback[k]
        /\ UNCHANGED <<data, loop, damage, history>> /\ UNCHANGED <<owned, cur>>
    BY <1>0, CallLemma DEF Call
  <1>3. PICK r : /\ Rewrites(cur, r) /\ r.data = io[cur].data
                 /\ \A j \in Kinds : r.callback[j] => io[cur].callback[j]
    BY <1>0, CallLemma
  <1>4. /\ cur \in Chan /\ io'[cur] = r /\ (\A o \in Chan \ {cur} : io'[o] = io[o])
        /\ Attached' = Attached /\ Allocated' = Allocated
    BY <1>0, <1>3, RewritesLemma
  <1>5. HeldOnce' /\ DetachedReleased'
    <2>1. \A o \in Allocated' : io'[o].data = io[o].data
      BY <1>3, <1>4 DEF Allocated
    <2> QED
      BY <1>0, <1>2, <1>4, <2>1, SameData, OwnedAllocated DEF damage, history
  <1>6. DetachedMuted'
    <2>1. \A o \in owned, j \in Kinds : io'[o].callback[j] => io[o].callback[j]
      BY <1>0, <1>3, <1>4, OwnedAllocated
    <2> QED
      BY <1>0, <1>2, <1>4, <2>1, SameHandlers DEF loop, history
  <1>7. FaultsExplained'
    <2>1. CASE io[cur].data[k] # NULL => data[io[cur].data[k]] = "held"
      BY <2>1 DEF Call, FaultsExplained, Running
    <2>2. CASE ~(io[cur].data[k] # NULL => data[io[cur].data[k]] = "held")
      <3>1. fault' = "released"
        BY <2>2 DEF Call
      <3>2. cur \notin Attached
        BY <1>0, <2>2 DEF HeldOnce, PlacesHeld
      <3>3. cur \in owned
        BY <1>0, <1>2 DEF DestroyedSilent
      <3>4. stopped \/ refused
        BY <1>0, <1>2, <3>2, <3>3 DEF DetachedMuted
      <3> QED
        BY <1>2, <1>4, <3>1, <3>2, <3>3, <3>4 DEF FaultsExplained, loop, history
    <2> QED
      BY <2>1, <2>2
  <1> QED
    BY <1>1, <1>5, <1>6, <1>7 DEF DataInv

\* The steps that change neither user data nor handlers.
LEMMA EventData ==
  ASSUME DataInv, Running,
         \/ \E c \in Chan : SetCloseOnDestroy(c)
         \/ \E fd \in Fd : Start(fd)
         \/ Finish \/ Wait \/ Quiet
  PROVE  DataInv'
  <1>0. /\ IInv /\ HeldOnce /\ DetachedReleased /\ DetachedMuted /\ TypeOK
        /\ owned \subseteq Allocated /\ Attached \subseteq Allocated /\ Allocated \subseteq Chan
    BY OwnedAllocated DEF DataInv, IInv
  <1>1. ASSUME NEW c \in Chan, SetCloseOnDestroy(c)
        PROVE  DataInv'
    <2>1. IInv'
      BY <1>0, <1>1, HandlerSteps
    <2>2. UNCHANGED <<owned, data, loop, event, damage, fault, history>>
      BY <1>1 DEF SetCloseOnDestroy
    <2>3. PICK r : Rewrites(c, r) /\ r.data = io[c].data /\ r.callback = io[c].callback
      BY <1>0, <1>1, SetCloseLemma
    <2>4. /\ io'[c] = r /\ (\A o \in Chan \ {c} : io'[o] = io[o])
          /\ Attached' = Attached /\ Allocated' = Allocated
      BY <1>0, <2>3, RewritesLemma
    <2>5. \A o \in Chan : io'[o].data = io[o].data /\ io'[o].callback = io[o].callback
      BY <2>3, <2>4
    <2>6. HeldOnce' /\ DetachedReleased'
      BY <1>0, <2>2, <2>4, <2>5, SameData DEF damage, history
    <2>7. DetachedMuted'
      BY <1>0, <2>2, <2>4, <2>5, SameHandlers DEF loop, event, history
    <2>8. FaultsExplained'
      BY <2>2 DEF FaultsExplained, Running
    <2> QED
      BY <2>1, <2>6, <2>7, <2>8 DEF DataInv
  <1>2. ASSUME NEW fd \in Fd, Start(fd)
        PROVE  DataInv'
    <2>1. IInv'
      BY <1>0, <1>2, EventSteps
    <2>2. UNCHANGED <<owned, data, fault, stopped, refused, holed>>
      BY <1>2 DEF Start, damage, history
    <2>3. /\ Attached' = Attached /\ Allocated' = Allocated
          /\ \A o \in Allocated : io'[o].data = io[o].data /\ io'[o].callback = io[o].callback
      BY <1>0, <1>2, StartStep
    <2>4. HeldOnce' /\ DetachedReleased'
      BY <1>0, <2>2, <2>3, SameData
    <2>5. DetachedMuted'
      BY <1>0, <2>2, <2>3, SameHandlers
    <2>6. FaultsExplained'
      BY <2>2 DEF FaultsExplained, Running
    <2> QED
      BY <2>1, <2>4, <2>5, <2>6 DEF DataInv
  <1>3. CASE Finish
    <2>1. IInv'
      BY <1>0, <1>3, EventSteps
    <2>2. UNCHANGED <<owned, data, fault, stopped, refused, holed>>
      BY <1>3 DEF Finish, loop, damage, history
    <2>3. /\ Attached' = Attached \cap Allocated' /\ Allocated' \subseteq Allocated
          /\ owned \subseteq Allocated' /\ (~refused /\ ~holed => Attached' = Attached)
          /\ \A o \in Allocated' : io'[o].data = io[o].data /\ io'[o].callback = io[o].callback
      BY <1>0, <1>3, FinishStep
    <2>4. HeldOnce' /\ DetachedReleased'
      BY <1>0, <2>2, <2>3, SameData
    <2>5. DetachedMuted'
      BY <1>0, <2>2, <2>3, SameHandlers
    <2>6. FaultsExplained'
      BY <2>2 DEF FaultsExplained, Running
    <2> QED
      BY <2>1, <2>4, <2>5, <2>6 DEF DataInv
  <1>4. ASSUME UNCHANGED <<io, owned, data, stopped, cur, refused>>, holed => holed'
        PROVE  HeldOnce' /\ DetachedReleased' /\ DetachedMuted'
    <2>1. Attached' = Attached /\ Allocated' = Allocated
      BY <1>4 DEF Attached, Allocated
    <2>2. HeldOnce' /\ DetachedReleased'
      BY <1>0, <1>4, <2>1, SameData
    <2>3. DetachedMuted'
      BY <1>0, <1>4, <2>1, SameHandlers
    <2> QED
      BY <2>2, <2>3
  <1>5. CASE Wait
    <2>1. IInv'
      BY <1>0, <1>5, WaitStep
    <2>2. UNCHANGED <<io, owned, data, stopped, cur, refused, holed, fault>>
      BY <1>5 DEF Wait, event, damage, history
    <2>3. FaultsExplained'
      BY <2>2 DEF FaultsExplained, Running
    <2> QED
      BY <1>4, <2>1, <2>2, <2>3 DEF DataInv
  <1>6. CASE Quiet
    <2>1. /\ IInv' /\ UNCHANGED <<io, owned, watch, data, batch, stopped, cur, refused, dropped>>
          /\ Damages
      BY <1>0, <1>6, QuietLemma DEF history
    <2>2. FaultsExplained'
      <3>1. CASE \E fd \in Fd : StartDropped(fd)
        <4>1. fault' = "dispatch" /\ dropped' # {}
          BY <2>1, <3>1 DEF StartDropped
        <4> QED
          BY <4>1 DEF FaultsExplained
      <3>2. ASSUME NEW fd \in Fd, StartFreed(fd)
            PROVE  FaultsExplained'
        <4>1. /\ fd \in Watched /\ watch[fd].chan \notin Allocated /\ fault' = "freed"
              /\ UNCHANGED damage
          BY <1>0, <3>2 DEF StartFreed, IInv, BatchWatched, Allocated
        <4>2. fd \in lost /\ holed
          BY <1>0, <4>1 DEF IInv, ListedAttached, Listed, Intact
        <4>3. UNCHANGED <<lost, holed>> /\ Watched' = Watched /\ Allocated' = Allocated
          BY <2>1, <4>1 DEF damage, Watched, Allocated
        <4> QED
          BY <2>1, <4>1, <4>2, <4>3 DEF FaultsExplained
      <3>3. CASE TableFaults
        BY <3>3 DEF TableFaults, FaultsExplained, damage
      <3>4. CASE IoNewNoMemory
        BY <3>4 DEF IoNewNoMemory, FaultsExplained
      <3>5. CASE UNCHANGED fault
        BY <3>5 DEF FaultsExplained, Running
      <3>6. \/ IoNewNoMemory \/ TableFaults \/ UNCHANGED fault
            \/ \E fd \in Fd : StartDropped(fd) \/ StartFreed(fd)
        BY <1>6 DEF Quiet, Open, Close, OthersRemove, RunLoop, WaitFails, ExitLoop, Halted, Skip,
           ReturnKeep, vars
      <3> QED
        BY <3>1, <3>2, <3>3, <3>4, <3>5, <3>6
    <2>3. holed => holed'
      BY <1>0, <2>1 DEF Damages, TypeOK
    <2> QED
      BY <1>4, <2>1, <2>2, <2>3 DEF DataInv
  <1> QED
    BY <1>1, <1>2, <1>3, <1>5, <1>6

LEMMA DataInvInit == Init => DataInv
  <1> SUFFICES ASSUME Init
               PROVE  DataInv
    OBVIOUS
  <1>1. IInv
    BY IInvInit
  <1>2. Allocated = {} /\ Attached = {} /\ owned = {} /\ fault = "none"
        /\ \A d \in Data : data[d] = "program"
    BY DEF Init, Allocated, Attached
  <1>3. HeldOnce /\ DetachedReleased /\ DetachedMuted
    BY <1>2 DEF HeldOnce, PlacesHeld, PlacesDistinct, HeldPlaced, DetachedReleased, DetachedMuted
  <1>4. FaultsExplained
    BY <1>2 DEF FaultsExplained
  <1> QED
    BY <1>1, <1>3, <1>4 DEF DataInv

LEMMA DataInvStep == DataInv /\ [Next]_vars => DataInv'
  <1> SUFFICES ASSUME DataInv, [Next]_vars
               PROVE  DataInv'
    OBVIOUS
  <1>1. CASE ~Running
    <2>1. UNCHANGED vars
      BY <1>1, HaltedLemma
    <2>2. IInv'
      BY <2>1, IInvStep DEF DataInv
    <2>3. /\ UNCHANGED <<io, owned, watch, data, loop, event, damage, fault, history>>
          /\ Attached' = Attached /\ Allocated' = Allocated /\ Watched' = Watched
      BY <2>1 DEF vars, Attached, Allocated, Watched
    <2>4. HeldOnce' /\ DetachedReleased' /\ DetachedMuted' /\ ~Running'
      BY <1>1, <2>3 DEF HeldOnce, DetachedReleased, DetachedMuted, Running
    <2>5. FaultsExplained'
      BY <2>3 DEF DataInv, FaultsExplained, loop, event, damage, history
    <2> QED
      BY <2>2, <2>4, <2>5 DEF DataInv
  <1>2. CASE Running
    BY <1>2, StepCases, IoNewData, EventData, TeardownData, ExchangeData, CallData
  <1> QED
    BY <1>1, <1>2

LEMMA DataInvariance == Spec => []DataInv
  BY DataInvInit, DataInvStep, PTL DEF Spec

\* User data given to a handler is released once: as long as it is held it is the
\* data of one handler of one attached channel, or in none and never released,
\* after an io_new that was refused or a removal that damaged the table, which
\* io_destroy does not notice.
THEOREM UserDataIsReleasedOnce == Spec => []DataReleasedOnce
  <1>1. DataInv => DataReleasedOnce
    <2> SUFFICES ASSUME DataInv, Running, NEW d \in Data
                 PROVE  IF data[d] = "held"
                        THEN Cardinality(Places(d)) = 1 \/ ((refused \/ holed) /\ Places(d) = {})
                        ELSE Places(d) = {}
      BY DEF DataReleasedOnce
    <2>0. PlacesHeld /\ PlacesDistinct /\ HeldPlaced /\ d # NULL
      BY NullAssumption DEF DataInv, HeldOnce
    <2>1. \A x \in Places(d) : data[d] = "held"
      BY <2>0 DEF Places, PlacesHeld
    <2>2. \A x, y \in Places(d) : x = y
      <3> SUFFICES ASSUME NEW x \in Places(d), NEW y \in Places(d)
                   PROVE  x = y
        OBVIOUS
      <3>1. /\ x \in Attached \X Kinds /\ io[x[1]].data[x[2]] = d
            /\ y \in Attached \X Kinds /\ io[y[1]].data[y[2]] = d
        BY DEF Places
      <3>2. x[1] = y[1] /\ x[2] = y[2]
        BY <2>0, <3>1 DEF PlacesDistinct
      <3> QED
        BY <3>1, <3>2
    <2>3. ASSUME data[d] = "held", ~refused, ~holed
          PROVE  Places(d) # {}
      <3>1. PICK c \in Attached, k \in Kinds : io[c].data[k] = d
        BY <2>0, <2>3 DEF HeldPlaced
      <3>2. <<c, k>> \in Places(d)
        BY <3>1 DEF Places
      <3> QED
        BY <3>2
    <2>4. ASSUME NEW x \in Places(d)
          PROVE  Cardinality(Places(d)) = 1
      <3>1. Places(d) = {x}
        BY <2>2
      <3> QED
        BY <3>1, FS_Singleton
    <2> QED
      BY <2>1, <2>3, <2>4
  <1> QED
    BY <1>1, DataInvariance, PTL

\* What it takes for user data to be released twice, or handed to a callback after
\* its release, for an event to be dispatched that the loop should have dropped, or
\* for io_process_event to run on a channel that is freed: the last only when the
\* table had lost the descriptor, so that io.c:357 dropped the reference of a
\* registration that stayed.
THEOREM FaultsAreExplained == Spec => []FaultsExplained
  <1>1. DataInv => FaultsExplained
    BY DEF DataInv
  <1> QED
    BY <1>1, DataInvariance, PTL
-----------------------------------------------------------------------------
(***************************************************************************)
(* What the channels ask of the loop.                                      *)
(***************************************************************************)

\* The masks the loop has.
masks == [fd \in Fd |-> IF watch[fd] = NULL THEN NULL ELSE watch[fd].mask]

LEMMA MasksLemma ==
  ASSUME TypeOK
  PROVE  \A fd \in Fd : masks[fd] = NULL <=> fd \notin Watched
  <1> SUFFICES ASSUME NEW fd \in Fd
               PROVE  masks[fd] = NULL <=> fd \notin Watched
    OBVIOUS
  <1>1. masks[fd] = IF watch[fd] = NULL THEN NULL ELSE watch[fd].mask
    BY DEF masks
  <1>2. CASE fd \in Watched
    BY <1>1, <1>2, WatchTypes, NullAssumption DEF Watched
  <1>3. CASE fd \notin Watched
    BY <1>1, <1>3 DEF Watched
  <1> QED
    BY <1>2, <1>3

LEMMA ServiceNext ==
  ASSUME \/ \E fd \in Fd, mask \in SUBSET Kinds :
              /\ masks' = [masks EXCEPT ![fd] = mask]
              /\ UNCHANGED <<sd, stopped>>
         \/ \E fd \in Fd : /\ masks[fd] # NULL /\ masks' = [masks EXCEPT ![fd] = NULL]
                           /\ UNCHANGED <<sd, stopped>>
         \/ \E fd \in Fd : sd = NULL /\ masks[fd] # NULL /\ sd' = fd /\ UNCHANGED <<masks, stopped>>
         \/ sd # NULL /\ sd' = NULL /\ UNCHANGED <<masks, stopped>>
         \/ stopped' = TRUE /\ masks' = [fd \in Fd |-> NULL] /\ UNCHANGED sd
         \/ UNCHANGED <<masks, sd, stopped>>
  PROVE  [Service!Next]_(Service!vars)
  <1> USE DEF masks
  <1>1. ASSUME NEW fd \in Fd, NEW mask \in SUBSET Kinds,
               masks' = [masks EXCEPT ![fd] = mask], UNCHANGED <<sd, stopped>>
        PROVE  Service!Next
    <2>1. CASE masks[fd] = NULL
      <3>1. Service!Register(fd, mask)
        BY <1>1, <2>1 DEF Service!Register
      <3> QED
        BY <3>1 DEF Service!Next
    <2>2. CASE masks[fd] # NULL
      <3>1. Service!Update(fd, mask)
        BY <1>1, <2>2 DEF Service!Update
      <3> QED
        BY <3>1 DEF Service!Next
    <2> QED
      BY <2>1, <2>2
  <1>2. ASSUME NEW fd \in Fd, masks[fd] # NULL, masks' = [masks EXCEPT ![fd] = NULL],
               UNCHANGED <<sd, stopped>>
        PROVE  Service!Next
    BY <1>2 DEF Service!Next, Service!Unregister
  <1>3. ASSUME NEW fd \in Fd, sd = NULL, masks[fd] # NULL, sd' = fd, UNCHANGED <<masks, stopped>>
        PROVE  Service!Next
    BY <1>3 DEF Service!Next, Service!Serve
  <1>4. CASE sd # NULL /\ sd' = NULL /\ UNCHANGED <<masks, stopped>>
    BY <1>4 DEF Service!Next, Service!Served
  <1>5. CASE stopped' = TRUE /\ masks' = [fd \in Fd |-> NULL] /\ UNCHANGED sd
    BY <1>5 DEF Service!Next, Service!Close
  <1>6. CASE UNCHANGED <<masks, sd, stopped>>
    BY <1>6 DEF Service!vars
  <1> QED
    BY <1>1, <1>2, <1>3, <1>4, <1>5, <1>6

LEMMA ServiceStep == IInv /\ [Next]_vars => [Service!Next]_(Service!vars)
  <1> SUFFICES ASSUME IInv, [Next]_vars
               PROVE  [Service!Next]_(Service!vars)
    OBVIOUS
  <1>0. TypeOK /\ EventShape /\ BatchWatched
    BY DEF IInv
  <1>1. ASSUME NEW fd, NEW mask \in SUBSET Kinds, NEW ok \in BOOLEAN, Modify(fd, mask, ok),
               UNCHANGED <<sd, stopped>>
        PROVE  [Service!Next]_(Service!vars)
    <2>1. CASE ok
      <3>1. fd \in Fd /\ \A f \in Fd : masks'[f] = IF f = fd THEN mask ELSE masks[f]
        <4>1. ok = TRUE
          BY <2>1
        <4>2. /\ \A f \in Watched : watch'[f].mask = IF f = fd THEN mask ELSE watch[f].mask
              /\ \A f \in Fd : watch'[f] = NULL <=> watch[f] = NULL
              /\ fd \in Watched
          <5>1. Modified(fd, mask, ok)
            BY <1>0, <1>1, ModifyLemma
          <5> QED
            BY <4>1, <5>1 DEF Modified, Listed
        <4> QED
          BY <4>2 DEF masks, Watched
      <3>2. masks' = [masks EXCEPT ![fd] = mask]
        BY <3>1 DEF masks
      <3> QED
        BY <1>1, <3>1, <3>2, ServiceNext
    <2>2. CASE ~ok
      <3>1. UNCHANGED watch
        BY <1>1, <2>2 DEF Modify
      <3> QED
        BY <1>1, <3>1, ServiceNext DEF masks
    <2> QED
      BY <2>1, <2>2
  <1>2. ASSUME UNCHANGED <<watch, sd, stopped>>
        PROVE  [Service!Next]_(Service!vars)
    BY <1>2, ServiceNext DEF masks
  <1>3. ASSUME NEW fd, Forget({fd}), UNCHANGED <<sd, stopped>>
        PROVE  [Service!Next]_(Service!vars)
    <2>1. \A f \in Fd : masks'[f] = IF f = fd /\ fd \in Listed THEN NULL ELSE masks[f]
      BY <1>3 DEF masks, Forget
    <2>2. CASE fd \in Listed
      <3>1. fd \in Fd /\ masks[fd] # NULL
        BY <1>0, <2>2, MasksLemma DEF Listed, Watched
      <3>2. masks' = [masks EXCEPT ![fd] = NULL]
        BY <2>1, <2>2 DEF masks
      <3> QED
        BY <1>3, <3>1, <3>2, ServiceNext
    <2>3. CASE fd \notin Listed
      <3>1. UNCHANGED masks
        BY <2>1, <2>3 DEF masks
      <3> QED
        BY <1>3, <3>1, ServiceNext
    <2> QED
      BY <2>2, <2>3
  <1>4. ASSUME NEW fd \in Fd, NEW c \in Chan, IoNew(fd, c) \/ IoNewRefused(fd, c)
        PROVE  [Service!Next]_(Service!vars)
    <2>1. UNCHANGED <<sd, stopped>>
      BY <1>4 DEF IoNew, IoNewRefused, event, loop
    <2>2. CASE IoNewRefused(fd, c)
      BY <1>2, <2>1, <2>2 DEF IoNewRefused
    <2>3. CASE IoNew(fd, c)
      <3> DEFINE r == [chan |-> c, mask |-> {}]
      <3>1. watch' = [watch EXCEPT ![fd] = r]
        BY <2>3 DEF IoNew
      <3>2. r \in Registration /\ r.mask = {} /\ r # NULL
        BY NullAssumption DEF Registration
      <3> HIDE DEF r
      <3>3. \A f \in Fd : masks'[f] = IF f = fd THEN {} ELSE masks[f]
        BY <1>0, <3>1, <3>2 DEF masks, TypeOK
      <3>4. masks' = [masks EXCEPT ![fd] = {}]
        BY <3>3 DEF masks
      <3> QED
        BY <2>1, <3>4, ServiceNext
    <2> QED
      BY <1>4, <2>2, <2>3
  <1>5. ASSUME NEW c \in Chan, SetCloseOnDestroy(c) \/ IoDestroy(c)
        PROVE  [Service!Next]_(Service!vars)
    <2>1. CASE SetCloseOnDestroy(c)
      BY <1>2, <2>1 DEF SetCloseOnDestroy, event, loop
    <2>2. CASE IoDestroy(c)
      BY <1>3, <2>2 DEF IoDestroy, event
    <2> QED
      BY <1>5, <2>1, <2>2
  <1>6. ASSUME NEW c \in Chan, NEW k \in Kinds, NEW callback \in BOOLEAN,
               NEW d \in Data \cup {NULL}, SetHandler(c, k, callback, d)
        PROVE  [Service!Next]_(Service!vars)
    <2> DEFINE new == IF callback THEN io[c].events \cup {k} ELSE io[c].events \ {k}
    <2>1. UNCHANGED <<sd, stopped>>
      BY <1>6 DEF SetHandler, event, loop
    <2>2. c \in Allocated
      BY <1>6, SetHandlerLemma DEF Attached
    <2>3. new \in SUBSET Kinds
      BY <1>0, <2>2, ChannelTypes
    <2>4. UNCHANGED watch \/ \E ok \in BOOLEAN : Modify(io[c].descriptor, new, ok)
      BY <1>6 DEF SetHandler
    <2> HIDE DEF new
    <2> QED
      BY <1>1, <1>2, <2>1, <2>3, <2>4
  <1>7. CASE LoopQuit
    <2>1. stopped' = TRUE /\ UNCHANGED sd /\ watch' = [fd \in Fd |-> NULL]
      <3>1. \A fd \in Fd : fd \in Listed \/ watch[fd] = NULL
        BY <1>7 DEF LoopQuit, IInv, Intact, Listed, Watched
      <3> QED
        BY <1>7, <3>1 DEF LoopQuit, Forget, event
    <2>2. masks' = [fd \in Fd |-> NULL]
      BY <2>1 DEF masks
    <2> QED
      BY <2>1, <2>2, ServiceNext
  <1>8. CASE Abandon
    BY <1>3, <1>8 DEF Abandon
  <1>9. CASE Finish
    <2>1. sd # NULL /\ sd' = NULL /\ UNCHANGED <<masks, stopped>>
      BY <1>0, <1>9 DEF Finish, EventShape, masks, loop
    <2> QED
      BY <2>1, ServiceNext
  <1>10. CASE Wait
    BY <1>2, <1>10 DEF Wait, event
  <1>11. ASSUME NEW k \in Kinds, Call(k) \/ ReturnDrop(k)
         PROVE  [Service!Next]_(Service!vars)
    <2>1. CASE Call(k)
      BY <1>2, <2>1 DEF Call, loop
    <2>2. CASE ReturnDrop(k)
      <3>1. UNCHANGED <<sd, stopped>> /\ cur \in Allocated
        BY <2>2, ReturnDropLemma DEF loop
      <3>2. io[cur].events \ {k} \in SUBSET Kinds
        BY <1>0, <3>1, ChannelTypes
      <3>3. \E ok \in BOOLEAN : Modify(io[cur].descriptor, io[cur].events \ {k}, ok)
        BY <2>2, ReturnDropLemma
      <3> QED
        BY <1>1, <3>1, <3>2, <3>3
    <2> QED
      BY <1>11, <2>1, <2>2
  <1>12. ASSUME NEW fd \in Fd, Start(fd)
         PROVE  [Service!Next]_(Service!vars)
    <2>1. /\ at = "idle" /\ batch[fd] # {} /\ fd \notin dropped /\ sd' = fd
          /\ UNCHANGED <<watch, stopped>>
      BY <1>12 DEF Start
    <2>2. sd = NULL /\ fd \in Watched
      BY <1>0, <2>1 DEF EventShape, BatchWatched
    <2>3. masks[fd] # NULL /\ UNCHANGED masks
      BY <1>0, <2>1, <2>2, MasksLemma DEF masks
    <2> QED
      BY <2>1, <2>2, <2>3, ServiceNext
  <1>13. CASE Quiet
    BY <1>2, <1>13, QuietLemma
  <1> QED
    BY <1>4, <1>5, <1>6, <1>7, <1>8, <1>9, <1>10, <1>11, <1>12, <1>13, StepCases

\* The channels ask of the loop only what module Registry offers: a descriptor is
\* registered, its mask updated, and removed, one callback runs at a time, and it
\* is of a descriptor that was registered when the callback began.
THEOREM ImplementsRegistry == Spec => UsesRegistry
  <1>1. Init => Service!Init
    BY DEF Init, Service!Init
  <1> QED
    BY <1>1, ServiceStep, Invariance, PTL DEF Spec, UsesRegistry, Service!Spec
=============================================================================
