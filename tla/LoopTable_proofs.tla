-------------------------- MODULE LoopTable_proofs --------------------------
(***************************************************************************)
(* The table, the interest list and the ownership of entries: the          *)
(* inductive invariant of Loop and what follows from it.                   *)
(***************************************************************************)
EXTENDS Loop_proofs

\* The properties support each other: a clean-up that ends has cleared every
\* slot (CleanupProgress), so that no entry loses its owner (EntryOwnership);
\* an entry being freed is in no slot, so that the slots stay live (TableExact).
IInv ==
  TypeOK /\ TableShape /\ TableExact /\ CleanupProgress /\ EntryOwnership

LEMMA IInvInit == Init => IInv
  <1> SUFFICES ASSUME Init
               PROVE  IInv
    OBVIOUS
  <1>1. TypeOK
    BY TypeInit
  <1>2. top = 0 /\ count = 0 /\ Len(stack) = 0
    BY EmptySeq DEF Init
  <1>3. 1 .. Len(stack) = {} /\ 0 .. top - 1 = {}
    BY <1>2
  <1>4. Watched = {} /\ \A p \in Ptr : ~Live(p)
    BY DEF Init, Watched, Live
  <1> QED
    BY <1>1, <1>2, <1>3, <1>4
    DEF IInv, TableShape, TableExact, SlotsNull, SlotsRegistered, SlotsDistinct,
        WatchedListed, CleanupProgress, EntryOwnership, OneDestroyer, Listed, Destroying

-----------------------------------------------------------------------------
(***************************************************************************)
(* The steps that change the table, the heap, the interest list or the     *)
(* stack.                                                                  *)
(***************************************************************************)
state == <<storage, heap, kernel, holed>>

Call == UNCHANGED state /\ \E f \in Frame : f.ptr = NULL /\ f.i = 0 /\ Push(f)

LEMMA StepCases ==
  ASSUME TypeOK, [Next]_vars
  PROVE  \/ LoopInit \/ AddSdFails
         \/ \E sd \in Fd, mask \in Mask : AddSd(sd, mask) \/ ModifySd(sd, mask)
         \/ \E sd \in Fd : RemoveSd(sd)
         \/ RemoveReturns \/ CallbackReturns \/ CleanupReturns
         \/ SkipSlot \/ CleanupSlot \/ CleanupEnd
         \/ Call
         \/ UNCHANGED <<state, stack>>
  <1> USE DEF state, vars, control, storage, kernel, running, history
  <1>1. ASSUME NEW exit \in Exits, StartCleanup(exit)
        PROVE  Call
    BY <1>1, NewFrames DEF StartCleanup, Call, CleanupFrame
  <1>2. CASE Dispatch
    <2>1. CASE Live(Head(batch).ptr)
      <3>1. heap[Head(batch).ptr].sd \in Fd
        <4>1. Head(batch) \in Event
          BY <1>2, HeadTailProperties DEF Dispatch, TypeOK
        <4> QED
          BY <2>1, <4>1 DEF Live, Event, Entry, TypeOK
      <3>2. /\ Push(CallbackFrame(heap[Head(batch).ptr].sd))
            /\ UNCHANGED state
        BY <1>2, <2>1 DEF Dispatch
      <3> QED
        BY <3>1, <3>2, NewFrames DEF Call, CallbackFrame
    <2>2. CASE ~Live(Head(batch).ptr)
      BY <1>2, <2>2 DEF Dispatch
    <2> QED
      BY <2>1, <2>2
  <1>3. CASE SignalQuit \/ \E exit \in Exits : Quit(exit)
    BY <1>1, <1>3, CallsAssumption DEF SignalQuit, Quit
  <1>4. CASE \/ RunStart \/ Wait \/ WaitFails \/ BatchDone \/ RunExit \/ CleanupFaults
             \/ Halted \/ \E sd \in Fd : RemoveTwice(sd) \/ SearchFaults(sd)
             \/ UNCHANGED vars
    BY <1>4 DEF RunStart, Wait, WaitFails, BatchDone, RunExit, CleanupFaults, Halted,
                RemoveTwice, SearchFaults
  <1> QED
    BY <1>2, <1>3, <1>4 DEF Next, UserCode, Return, LoopCode

\* The table after a growth lists what it listed before.
LEMMA GrownSlots ==
  ASSUME TypeOK, TableShape
  PROVE  /\ top \in 0 .. GrownCount - 1
         /\ \A i \in 0 .. top - 1 : Grown[i] = entry[i]
  <1>1. count \in Nat /\ top \in Nat /\ (top < count \/ (count = 0 /\ top = 0))
    BY DEF TypeOK, TableShape
  <1>2. top < GrownCount /\ GrownCount \in Nat
    BY <1>1, EntryChangeAssumption DEF GrownCount
  <1>3. ASSUME NEW i \in 0 .. top - 1
        PROVE  Grown[i] = entry[i]
    <2>1. i \in 0 .. GrownCount - 1 /\ i < count
      BY <1>1, <1>2
    <2> QED
      BY <2>1 DEF Grown
  <1> QED
    BY <1>1, <1>2, <1>3

\* The table after a removal: what is left comes from the slots in use, and is
\* untouched when the last one was removed.
LEMMA ShiftedSlots ==
  ASSUME TypeOK, TableShape, NEW i \in 0 .. top - 1
  PROVE  /\ \A k \in 0 .. top - 2 : \E j \in 0 .. top - 1 : Shifted(i)[k] = entry[j]
         /\ i = top - 1 => \A k \in 0 .. top - 2 : Shifted(i)[k] = entry[k]
  <1>1. \A k \in 0 .. top - 2 :
          Shifted(i)[k] = IF i <= k /\ k + 2 < top THEN entry[k + 1] ELSE entry[k]
    BY DEF Shifted, TypeOK, TableShape
  <1> QED
    BY <1>1 DEF TypeOK

\* What calls and returns leave alone.
LEMMA CleaningUpStays ==
  ASSUME TypeOK, CleaningUp
  PROVE  /\ \A f \in Frame : Push(f) => CleaningUp'
         /\ stack # <<>> /\ Innermost.fn # "cleanup" /\ Pop => CleaningUp'
         /\ \A f \in Frame : stack # <<>> /\ f.fn = Innermost.fn /\ Amend(f) => CleaningUp'
  <1>1. PICK k \in 1 .. Len(stack) : stack[k].fn = "cleanup"
    BY DEF CleaningUp
  <1>2. stack \in Seq(Frame) /\ Len(stack) \in Nat
    BY DEF TypeOK
  <1>3. ASSUME NEW f \in Frame, Push(f)
        PROVE  CleaningUp'
    BY <1>1, <1>2, <1>3, PushLemma DEF CleaningUp
  <1>4. ASSUME stack # <<>>, Innermost.fn # "cleanup", Pop
        PROVE  CleaningUp'
    BY <1>1, <1>2, <1>4, PopLemma DEF CleaningUp, Innermost
  <1>5. ASSUME NEW f \in Frame, stack # <<>>, f.fn = Innermost.fn, Amend(f)
        PROVE  CleaningUp'
    BY <1>1, <1>2, <1>5, AmendLemma DEF CleaningUp, Innermost
  <1> QED
    BY <1>3, <1>4, <1>5
-----------------------------------------------------------------------------
(***************************************************************************)
(* A slot in use is NULL only during a clean-up.                           *)
(***************************************************************************)
LEMMA SlotsNullStep == TypeOK /\ TableShape /\ SlotsNull /\ [Next]_vars => SlotsNull'
  <1> SUFFICES ASSUME TypeOK, TableShape, SlotsNull, [Next]_vars
               PROVE  SlotsNull'
    OBVIOUS
  <1> USE DEF storage, state
  <1>0. top \in Nat /\ count \in Nat /\ stack \in Seq(Frame)
    BY DEF TypeOK
  <1>1. CASE LoopInit
    <2>1. top' = 0
      BY <1>1 DEF LoopInit, TableShape
    <2> QED
      BY <2>1 DEF SlotsNull
  <1>2. ASSUME NEW sd \in Fd, NEW mask \in Mask, AddSd(sd, mask)
        PROVE  SlotsNull'
    <2>1. PICK p \in Ptr : entry' = [Grown EXCEPT ![top] = p]
      BY <1>2 DEF AddSd
    <2>2. top' = top + 1 /\ UNCHANGED stack
      BY <1>2 DEF AddSd
    <2>3. \A i \in 0 .. top - 1 : entry'[i] = entry[i]
      BY <1>0, <2>1, GrownSlots, GrownLemma
    <2>4. entry'[top] = p
      BY <2>1, GrownSlots, GrownLemma
    <2>5. CleaningUp' = CleaningUp
      BY <2>2 DEF CleaningUp
    <2> QED
      BY <1>0, <2>2, <2>3, <2>4, <2>5, NullAssumption DEF SlotsNull
  <1>3. CASE AddSdFails
    <2>1. top' = top /\ UNCHANGED stack /\ entry' = Grown
      BY <1>3 DEF AddSdFails
    <2> QED
      BY <2>1, GrownSlots DEF SlotsNull, CleaningUp
  <1>4. ASSUME NEW sd \in Fd, RemoveSd(sd)
        PROVE  SlotsNull'
    <2>1. PICK i \in 0 .. top - 1 :
            Found(sd, i) /\ entry' = Shifted(i) /\ Push(RemoveFrame(entry[i]))
      BY <1>4 DEF RemoveSd
    <2>2. entry[i] \in Ptr
      BY <2>1, SlotLemma DEF Found, Live
    <2>3. CleaningUp => CleaningUp'
      BY <2>1, <2>2, NewFrames, CleaningUpStays
    <2>4. top' = top - 1
      BY <1>4 DEF RemoveSd
    <2>5. \A k \in 0 .. top - 2 : \E j \in 0 .. top - 1 : entry'[k] = entry[j]
      BY <2>1, ShiftedSlots
    <2>6. SUFFICES ASSUME NEW k \in 0 .. top - 2, entry'[k] = NULL
                   PROVE  CleaningUp'
      BY <1>0, <2>4 DEF SlotsNull
    <2> QED
      BY <2>3, <2>5, <2>6 DEF SlotsNull
  <1>5. CASE CleanupSlot \/ CleanupReturns \/ SkipSlot
    <2>1. InCleanup \/ In("cleanup")
      BY <1>5 DEF CleanupSlot, CleanupReturns, SkipSlot
    <2>2. stack # <<>> /\ Innermost.fn = "cleanup" /\ Innermost \in CleanupFrames
      BY <1>0, <2>1, InnermostLemma DEF InCleanup, In
    <2>3. \E f \in Frame : f.fn = Innermost.fn /\ Amend(f)
      <3>1. CASE CleanupSlot
        <4>1. Innermost.i \in 0 .. top - 1
          BY <2>2, <3>1, <1>0 DEF CleanupFrames, CleanupSlot
        <4>2. entry[Innermost.i] \in Ptr
          BY <3>1, <4>1, SlotLemma DEF CleanupSlot, Live
        <4> QED
          BY <2>2, <3>1, <4>2, CleanupFrameLemma DEF CleanupSlot
      <3>2. CASE CleanupReturns
        BY <2>2, <3>2, CleanupFrameLemma DEF CleanupReturns
      <3>3. CASE SkipSlot
        BY <2>2, <3>3, CleanupFrameLemma DEF SkipSlot
      <3> QED
        BY <1>5, <3>1, <3>2, <3>3
    <2>4. CleaningUp'
      BY <1>0, <2>2, <2>3, CleaningUpStays, InnermostLemma DEF CleaningUp, Innermost
    <2> QED
      BY <2>4 DEF SlotsNull
  <1>6. CASE RemoveReturns \/ CallbackReturns
    <2>1. stack # <<>> /\ Innermost.fn # "cleanup" /\ Pop /\ UNCHANGED storage
      BY <1>6 DEF RemoveReturns, CallbackReturns, In
    <2> QED
      BY <2>1, CleaningUpStays DEF SlotsNull
  <1>7. CASE CleanupEnd
    BY <1>7 DEF CleanupEnd, SlotsNull
  <1>8. CASE Call
    BY <1>8, CleaningUpStays DEF Call, SlotsNull
  <1>9. CASE UNCHANGED <<storage, stack>>
    BY <1>9 DEF SlotsNull, CleaningUp
  <1>10. ASSUME NEW sd \in Fd, NEW mask \in Mask, ModifySd(sd, mask)
         PROVE  SlotsNull'
    BY <1>9, <1>10 DEF ModifySd
  <1> QED
    BY <1>1, <1>2, <1>3, <1>4, <1>5, <1>6, <1>7, <1>8, <1>9, <1>10, StepCases
-----------------------------------------------------------------------------
(***************************************************************************)
(* Every pending clean-up has cleared the slots it has passed.             *)
(***************************************************************************)
LEMMA DoneLemma ==
  ASSUME NEW f \in Frame, f.fn = "cleanup"
  PROVE  f \in CleanupFrames /\ Done(f) \in Nat
  <1>1. f \in CleanupFrames
    BY DEF Frame, CallbackFrames, RemoveFrames, CleanupFrames
  <1>2. f.i \in Nat
    BY <1>1 DEF CleanupFrames
  <1> QED
    BY <1>1, <1>2 DEF Done

\* What a step does to the table leaves a clean-up that had passed its slots in
\* the same position.
LEMMA PassedStays ==
  ASSUME TypeOK, TableShape, [Next]_vars,
         NEW f \in Frame, f.fn = "cleanup", Passed(f), stack # <<>>
  PROVE  Passed(f)'
  <1> USE DEF state, storage, kernel
  <1>0. top \in Nat /\ count \in Nat /\ Done(f) \in Nat
    BY DoneLemma DEF TypeOK
  <1>1. ASSUME NEW sd \in Fd, NEW mask \in Mask, AddSd(sd, mask)
        PROVE  Passed(f)'
    <2>1. PICK p \in Ptr : entry' = [Grown EXCEPT ![top] = p]
      BY <1>1 DEF AddSd
    <2>2. top' = top + 1 /\ epfd
      BY <1>1 DEF AddSd
    <2>3. \A i \in 0 .. top - 1 : entry'[i] = entry[i]
      BY <1>0, <2>1, GrownSlots, GrownLemma
    <2>4. Done(f) <= top /\ \A i \in 0 .. Done(f) - 1 : entry[i] = NULL
      BY <2>2 DEF Passed
    <2>5. Done(f)' = Done(f)
      BY DEF Done
    <2>6. Done(f) <= top' /\ \A i \in 0 .. Done(f) - 1 : entry'[i] = NULL
      BY <1>0, <2>2, <2>3, <2>4
    <2> QED
      BY <2>5, <2>6 DEF Passed, Done
  <1>2. CASE AddSdFails
    <2>1. top' = top /\ epfd' = epfd /\ entry' = Grown
      BY <1>2 DEF AddSdFails
    <2>2. \A i \in 0 .. top - 1 : entry'[i] = entry[i]
      BY <2>1, GrownSlots
    <2> QED
      BY <1>0, <2>1, <2>2 DEF Passed, Done
  <1>3. ASSUME NEW sd \in Fd, RemoveSd(sd)
        PROVE  Passed(f)'
    <2>1. PICK i \in 0 .. top - 1 : Found(sd, i)
      BY <1>3 DEF RemoveSd
    <2>2. entry[0] # NULL /\ top > 0
      BY <1>0, <2>1 DEF Found, Reaches, Passes, Live
    <2>3. Done(f) = 0
      BY <1>0, <2>2 DEF Passed
    <2>4. top' = top - 1
      BY <1>3 DEF RemoveSd
    <2> QED
      BY <1>0, <2>2, <2>3, <2>4 DEF Passed, Done
  <1>4. CASE CleanupSlot
    <2>1. UNCHANGED <<epfd, top>> /\ entry' = [entry EXCEPT ![Innermost.i] = NULL]
      BY <1>4 DEF CleanupSlot
    <2>2. \A i \in 0 .. top - 1 : entry[i] = NULL => entry'[i] = NULL
      BY <2>1 DEF TypeOK, TableShape
    <2> QED
      BY <1>0, <2>1, <2>2 DEF Passed, Done
  <1>5. CASE CleanupEnd
    BY <1>5 DEF CleanupEnd, Passed
  <1>6. CASE UNCHANGED <<storage, epfd>>
    BY <1>6 DEF Passed, Done
  <1>7. LoopInit => FALSE
    BY DEF LoopInit, Main
  <1> QED
    BY <1>1, <1>2, <1>3, <1>4, <1>5, <1>6, <1>7, StepCases
    DEF ModifySd, RemoveReturns, CallbackReturns, CleanupReturns, SkipSlot, Call

\* A clean-up that is called has passed no slot; one that clears a slot, skips
\* one or frees an entry has passed that slot as well.
LEMMA ProgressStep ==
  TypeOK /\ TableShape /\ CleanupProgress /\ [Next]_vars => CleanupProgress'
  <1> SUFFICES ASSUME TypeOK, TableShape, CleanupProgress, [Next]_vars
               PROVE  CleanupProgress'
    OBVIOUS
  <1> USE DEF state, storage, kernel
  <1>0. stack \in Seq(Frame) /\ Len(stack) \in Nat /\ top \in Nat
    BY DEF TypeOK
  <1>1. \A k \in 1 .. Len(stack) : stack[k] \in Frame /\ stack # <<>>
    BY <1>0, ElementOfSeq, EmptySeq
  <1>2. \A k \in 1 .. Len(stack) : stack[k].fn = "cleanup" => Passed(stack[k])
    BY DEF CleanupProgress
  <1>3. ASSUME NEW k \in 1 .. Len(stack), NEW f, f = stack[k], f.fn = "cleanup"
        PROVE  Passed(f)'
    BY <1>1, <1>2, <1>3, PassedStays
  <1>4. ASSUME NEW g \in Frame, Push(g), g.fn = "cleanup" => Passed(g)'
        PROVE  CleanupProgress'
    <2>1. SUFFICES ASSUME NEW k \in 1 .. Len(stack'), NEW f, f = stack'[k], f.fn = "cleanup"
                   PROVE  Passed(f)'
      BY DEF CleanupProgress, Passed, Done
    <2> QED
      BY <1>0, <1>3, <1>4, <2>1, PushLemma
  <1>5. ASSUME stack # <<>>, Pop
        PROVE  CleanupProgress'
    <2>1. SUFFICES ASSUME NEW k \in 1 .. Len(stack'), NEW f, f = stack'[k], f.fn = "cleanup"
                   PROVE  Passed(f)'
      BY DEF CleanupProgress, Passed, Done
    <2> QED
      BY <1>0, <1>3, <1>5, <2>1, PopLemma
  <1>6. ASSUME stack # <<>>, NEW g \in Frame, Amend(g), g.fn = "cleanup" => Passed(g)'
        PROVE  CleanupProgress'
    <2>1. SUFFICES ASSUME NEW k \in 1 .. Len(stack'), NEW f, f = stack'[k], f.fn = "cleanup"
                   PROVE  Passed(f)'
      BY DEF CleanupProgress, Passed, Done
    <2> QED
      BY <1>0, <1>3, <1>6, <2>1, AmendLemma
  <1>7. ASSUME UNCHANGED stack
        PROVE  CleanupProgress'
    <2>1. SUFFICES ASSUME NEW k \in 1 .. Len(stack'), NEW f, f = stack'[k], f.fn = "cleanup"
                   PROVE  Passed(f)'
      BY DEF CleanupProgress, Passed, Done
    <2> QED
      BY <1>3, <1>7, <2>1
  <1>8. CASE Call
    <2>1. PICK g \in Frame : g.ptr = NULL /\ g.i = 0 /\ Push(g)
      BY <1>8 DEF Call
    <2>2. Passed(g)'
      BY <1>0, <1>8, <2>1 DEF Call, Passed, Done
    <2> QED
      BY <1>4, <2>1, <2>2
  <1>9. ASSUME NEW sd \in Fd, RemoveSd(sd)
        PROVE  CleanupProgress'
    <2>1. PICK i \in 0 .. top - 1 : Found(sd, i) /\ Push(RemoveFrame(entry[i]))
      BY <1>9 DEF RemoveSd
    <2>2. entry[i] \in Ptr
      BY <2>1, SlotLemma DEF Found, Live
    <2> QED
      BY <1>4, <2>1, <2>2, NewFrames DEF RemoveFrame
  <1>10. CASE RemoveReturns \/ CallbackReturns \/ CleanupEnd
    BY <1>5, <1>10 DEF RemoveReturns, CallbackReturns, CleanupEnd, InCleanup, In
  <1>11. ASSUME In("cleanup")
         PROVE  /\ stack # <<>> /\ Innermost \in CleanupFrames
                /\ Passed(Innermost)
    BY <1>0, <1>2, <1>11, InnermostLemma DEF In, Innermost
  <1>12. CASE CleanupSlot
    <2>1. stack # <<>> /\ Innermost \in CleanupFrames /\ Passed(Innermost)
      BY <1>11, <1>12 DEF CleanupSlot, InCleanup
    <2>2. Innermost.ptr = NULL /\ Innermost.i < top /\ Innermost.i \in Nat
      BY <1>12, <2>1, CleanupFrameLemma DEF CleanupSlot, InCleanup
    <2>3. PICK p : p = entry[Innermost.i] /\ Live(p)
                   /\ entry' = [entry EXCEPT ![Innermost.i] = NULL]
                   /\ Amend([Innermost EXCEPT !.ptr = p])
      BY <1>12 DEF CleanupSlot
    <2>4. Innermost.i \in 0 .. top - 1
      BY <1>0, <2>2
    <2>5. p \in Ptr
      BY <2>3, <2>4, SlotLemma DEF Live
    <2>6. PICK g \in Frame : g.fn = "cleanup" /\ g.ptr = p /\ g.i = Innermost.i /\ Amend(g)
      <3>1. LET g == [Innermost EXCEPT !.ptr = p]
            IN  g \in Frame /\ g.fn = "cleanup" /\ g.ptr = p /\ g.i = Innermost.i
        BY <2>1, <2>5, CleanupFrameLemma
      <3>2. Amend([Innermost EXCEPT !.ptr = p])
        BY <2>3
      <3> QED
        BY <3>1, <3>2
    <2>7. top' = top
      BY <1>12 DEF CleanupSlot
    <2>8. \A i \in 0 .. Innermost.i - 1 : entry[i] = NULL
      BY <1>0, <2>1, <2>2 DEF Passed, Done
    <2>9. \A i \in 0 .. Innermost.i : entry'[i] = NULL
      BY <2>3, <2>4, <2>8, SlotLemma DEF TypeOK
    <2>10. p # NULL
      BY <2>3 DEF Live
    <2>11. Passed(g)'
      BY <1>0, <2>2, <2>6, <2>7, <2>9, <2>10 DEF Passed, Done
    <2> QED
      BY <1>6, <2>1, <2>6, <2>11
  <1>13. CASE CleanupReturns
    <2>1. stack # <<>> /\ Innermost \in CleanupFrames /\ Passed(Innermost)
      BY <1>11, <1>13 DEF CleanupReturns
    <2>2. PICK g \in Frame : g.fn = "cleanup" /\ g.ptr = NULL /\ g.i = Innermost.i + 1 /\ Amend(g)
      BY <1>13, <2>1, CleanupFrameLemma DEF CleanupReturns
    <2>3. UNCHANGED <<storage, epfd>> /\ Innermost.ptr # NULL
      BY <1>13 DEF CleanupReturns
    <2>4. Passed(g)'
      BY <2>1, <2>2, <2>3 DEF Passed, Done
    <2> QED
      BY <1>6, <2>1, <2>2, <2>4
  <1>14. CASE SkipSlot
    <2>1. stack # <<>> /\ Innermost \in CleanupFrames /\ Passed(Innermost)
      BY <1>11, <1>14 DEF SkipSlot, InCleanup
    <2>2. PICK g \in Frame : g.fn = "cleanup" /\ g.ptr = NULL /\ g.i = Innermost.i + 1 /\ Amend(g)
      BY <1>14, <2>1, CleanupFrameLemma DEF SkipSlot, InCleanup
    <2>3. UNCHANGED <<storage, epfd>> /\ Innermost.ptr = NULL /\ Innermost.i \in Nat
          /\ Innermost.i < top /\ entry[Innermost.i] = NULL
      BY <1>14, <2>1, CleanupFrameLemma DEF SkipSlot, InCleanup
    <2>4. \A i \in 0 .. Innermost.i - 1 : entry[i] = NULL
      BY <1>0, <2>1, <2>3 DEF Passed, Done
    <2>5. Passed(g)'
      BY <1>0, <2>2, <2>3, <2>4 DEF Passed, Done
    <2> QED
      BY <1>6, <2>1, <2>2, <2>5
  <1> QED
    BY <1>7, <1>8, <1>9, <1>10, <1>12, <1>13, <1>14, StepCases
    DEF LoopInit, AddSd, AddSdFails, ModifySd
-----------------------------------------------------------------------------
(***************************************************************************)
(* The intact table: what TableExact and EntryOwnership say while no       *)
(* removal has damaged it, in the form the steps preserve.                 *)
(***************************************************************************)
Intact ==
  /\ SlotsRegistered /\ SlotsDistinct /\ WatchedListed /\ OneDestroyer
  /\ \A p \in Ptr : Destroying(p) => Live(p) /\ ~Listed(p)
  /\ \A p \in Ptr : Live(p) => Listed(p) \/ Destroying(p)

LEMMA ListedLive ==
  ASSUME SlotsRegistered, NEW p \in Ptr, Listed(p)
  PROVE  Live(p)
  BY NullAssumption DEF Listed, SlotsRegistered

LEMMA IntactLemma ==
  TableExact /\ EntryOwnership <=> SlotsNull /\ (~holed => Intact)
  <1>1. ASSUME SlotsRegistered, NEW p \in Ptr
        PROVE  (Live(p) <=> (Listed(p) # Destroying(p)))
                 <=> /\ Destroying(p) => Live(p) /\ ~Listed(p)
                     /\ Live(p) => Listed(p) \/ Destroying(p)
    <2>1. Listed(p) => Live(p)
      BY <1>1, ListedLive
    <2>2. Listed(p) \in BOOLEAN /\ Destroying(p) \in BOOLEAN /\ Live(p) \in BOOLEAN
      BY DEF Listed, Destroying, Live
    <2> QED
      BY <2>1, <2>2
  <1> QED
    BY <1>1 DEF TableExact, EntryOwnership, Intact

(***************************************************************************)
(* Which entries are being destroyed, as calls are made and return.        *)
(***************************************************************************)
LEMMA DestroyingPush ==
  ASSUME TypeOK, OneDestroyer, NEW g \in Frame, Push(g),
         g.ptr = NULL \/ ~Destroying(g.ptr)
  PROVE  /\ OneDestroyer'
         /\ \A q \in Ptr : Destroying(q)' <=> Destroying(q) \/ g.ptr = q
  <1>1. stack \in Seq(Frame) /\ Len(stack) \in Nat
    BY DEF TypeOK
  <1>2. /\ Len(stack') = Len(stack) + 1
        /\ stack'[Len(stack) + 1] = g
        /\ \A k \in 1 .. Len(stack) : stack'[k] = stack[k]
    BY <1>1, PushLemma
  <1> QED
    BY <1>1, <1>2 DEF OneDestroyer, Destroying

LEMMA DestroyingPop ==
  ASSUME TypeOK, OneDestroyer, stack # <<>>, Pop
  PROVE  /\ OneDestroyer'
         /\ \A q \in Ptr : Destroying(q)' <=> Destroying(q) /\ q # Innermost.ptr
  <1>1. stack \in Seq(Frame) /\ Len(stack) \in Nat /\ Len(stack) > 0
    BY InnermostLemma DEF TypeOK
  <1>2. /\ Len(stack') = Len(stack) - 1
        /\ \A k \in 1 .. Len(stack) - 1 : stack'[k] = stack[k]
    BY <1>1, PopLemma
  <1>3. \A j, k \in 1 .. Len(stack) :
          stack[j].ptr = stack[k].ptr /\ stack[j].ptr # NULL => j = k
    BY DEF OneDestroyer
  <1>4. OneDestroyer'
    BY <1>1, <1>2, <1>3 DEF OneDestroyer
  <1>5. ASSUME NEW q \in Ptr
        PROVE  Destroying(q)' <=> Destroying(q) /\ q # Innermost.ptr
    <2>1. q # NULL
      BY NullAssumption
    <2> QED
      BY <1>1, <1>2, <1>3, <2>1 DEF Destroying, Innermost
  <1> QED
    BY <1>4, <1>5

LEMMA DestroyingAmend ==
  ASSUME TypeOK, OneDestroyer, stack # <<>>, NEW g \in Frame, Amend(g),
         g.ptr = NULL \/ (Innermost.ptr = NULL /\ ~Destroying(g.ptr))
  PROVE  /\ OneDestroyer'
         /\ \A q \in Ptr :
              Destroying(q)' <=> (Destroying(q) /\ q # Innermost.ptr) \/ g.ptr = q
  <1>1. stack \in Seq(Frame) /\ Len(stack) \in Nat /\ Len(stack) > 0
    BY InnermostLemma DEF TypeOK
  <1>2. /\ Len(stack') = Len(stack)
        /\ stack'[Len(stack)] = g
        /\ \A k \in 1 .. Len(stack) - 1 : stack'[k] = stack[k]
    BY <1>1, AmendLemma
  <1>3. \A j, k \in 1 .. Len(stack) :
          stack[j].ptr = stack[k].ptr /\ stack[j].ptr # NULL => j = k
    BY DEF OneDestroyer
  <1>4. OneDestroyer'
    BY <1>1, <1>2, <1>3 DEF OneDestroyer, Destroying, Innermost
  <1>5. ASSUME NEW q \in Ptr
        PROVE  Destroying(q)' <=> (Destroying(q) /\ q # Innermost.ptr) \/ g.ptr = q
    <2>1. q # NULL
      BY NullAssumption
    <2> QED
      BY <1>1, <1>2, <1>3, <2>1 DEF Destroying, Innermost
  <1> QED
    BY <1>4, <1>5

-----------------------------------------------------------------------------
(***************************************************************************)
(* Each step keeps an intact table intact.                                 *)
(***************************************************************************)
\* An entry that the table lists, or that is being destroyed, is not free.
LEMMA IntactFacts ==
  ASSUME TypeOK, TableShape, Intact
  PROVE  /\ \A i \in 0 .. top - 1 : entry[i] # NULL =>
              /\ entry[i] \in Ptr /\ Live(entry[i])
              /\ heap[entry[i]] \in Entry /\ heap[entry[i]].sd \in Fd
              /\ watch[heap[entry[i]].sd] = [ptr |-> entry[i], mask |-> heap[entry[i]].mask]
              /\ heap[entry[i]].sd \in Watched
         /\ \A p \in Ptr : ~Live(p) => ~Listed(p) /\ ~Destroying(p)
         /\ \A fd \in Watched : fd \in Fd /\ watch[fd] \in Interest /\ watch[fd].ptr \in Ptr
  <1>1. ASSUME NEW i \in 0 .. top - 1, entry[i] # NULL
        PROVE  /\ entry[i] \in Ptr /\ Live(entry[i])
               /\ heap[entry[i]] \in Entry /\ heap[entry[i]].sd \in Fd
               /\ watch[heap[entry[i]].sd] = [ptr |-> entry[i], mask |-> heap[entry[i]].mask]
               /\ heap[entry[i]].sd \in Watched
    <2>1. entry[i] \in Ptr
      BY <1>1, SlotLemma
    <2>2. /\ Live(entry[i])
          /\ watch[heap[entry[i]].sd] = [ptr |-> entry[i], mask |-> heap[entry[i]].mask]
      BY <1>1 DEF Intact, SlotsRegistered
    <2>3. heap[entry[i]] \in Entry
      BY <2>1, <2>2 DEF Live, TypeOK
    <2>4. heap[entry[i]].sd \in Fd /\ heap[entry[i]].mask \in Mask
      BY <2>3 DEF Entry
    <2>5. watch[heap[entry[i]].sd] \in Interest
      BY <2>1, <2>2, <2>4 DEF Interest
    <2> QED
      BY <2>1, <2>2, <2>3, <2>4, <2>5, NullAssumption DEF Watched
  <1>2. \A p \in Ptr : ~Live(p) => ~Listed(p) /\ ~Destroying(p)
    BY ListedLive DEF Intact
  <1>3. ASSUME NEW fd \in Watched
        PROVE  fd \in Fd /\ watch[fd] \in Interest /\ watch[fd].ptr \in Ptr
    <2>1. fd \in Fd /\ watch[fd] \in Interest
      BY DEF Watched, TypeOK
    <2> QED
      BY <2>1 DEF Interest
  <1> QED
    BY <1>1, <1>2, <1>3

\* A step that changes neither the table, the heap nor the interest list.
LEMMA IntactCalls ==
  ASSUME TypeOK, Intact, UNCHANGED <<storage, heap, watch>>, OneDestroyer',
         \A q \in Ptr : Destroying(q)' <=> Destroying(q)
  PROVE  Intact'
  BY DEF storage, Intact, SlotsRegistered, SlotsDistinct, WatchedListed, Listed, Live, Watched

LEMMA IntactAdd ==
  ASSUME TypeOK, TableShape, Intact, NEW sd \in Fd, NEW mask \in Mask, AddSd(sd, mask)
  PROVE  Intact'
  <1>0. top \in Nat
    BY DEF TypeOK
  <1>1. PICK p \in Ptr : /\ heap[p] = NULL
                          /\ heap' = [heap EXCEPT ![p] = [sd |-> sd, mask |-> mask]]
                          /\ watch' = [watch EXCEPT ![sd] = [ptr |-> p, mask |-> mask]]
                          /\ entry' = [Grown EXCEPT ![top] = p]
    BY DEF AddSd
  <1>2. top' = top + 1 /\ UNCHANGED stack /\ watch[sd] = NULL
    BY DEF AddSd
  <1>3. entry'[top] = p /\ \A i \in 0 .. top - 1 : entry'[i] = entry[i]
    BY <1>0, <1>1, GrownSlots, GrownLemma
  <1>4. /\ heap'[p] = [sd |-> sd, mask |-> mask]
        /\ \A q \in Ptr : q # p => heap'[q] = heap[q]
        /\ watch'[sd] = [ptr |-> p, mask |-> mask]
        /\ \A fd \in Fd : fd # sd => watch'[fd] = watch[fd]
    BY <1>1 DEF TypeOK
  <1>5. ~Live(p) /\ ~Listed(p) /\ ~Destroying(p) /\ sd \notin Watched
    BY <1>1, <1>2, IntactFacts DEF Live, Watched
  <1>6. p # NULL /\ [sd |-> sd, mask |-> mask] # NULL
    BY NullAssumption DEF Entry
  <1>7. \A q \in Ptr : (Destroying(q)' <=> Destroying(q)) /\ (Live(q)' <=> (Live(q) \/ q = p))
    BY <1>2, <1>4, <1>6, NullAssumption DEF Destroying, Live
  <1>8. \A q \in Ptr : Listed(q)' <=> (Listed(q) \/ q = p)
    BY <1>0, <1>2, <1>3 DEF Listed
  <1>9. SlotsRegistered'
    <2>1. SUFFICES ASSUME NEW i \in 0 .. top, NEW q, q = entry'[i], q # NULL
                   PROVE  Live(q)' /\ watch'[heap'[q].sd] = [ptr |-> q, mask |-> heap'[q].mask]
      BY <1>0, <1>2 DEF SlotsRegistered, Live
    <2>2. CASE i = top
      BY <1>3, <1>4, <1>7, <2>1, <2>2
    <2>3. CASE i \in 0 .. top - 1
      <3>1. q = entry[i] /\ q \in Ptr /\ Live(q) /\ heap[q].sd \in Watched /\ heap[q].sd \in Fd
            /\ watch[heap[q].sd] = [ptr |-> q, mask |-> heap[q].mask]
        BY <1>3, <2>1, <2>3, IntactFacts
      <3>2. q # p /\ heap[q].sd # sd
        BY <1>5, <3>1
      <3> QED
        BY <1>4, <1>7, <3>1, <3>2
    <2> QED
      BY <1>0, <2>2, <2>3
  <1>10. SlotsDistinct'
    <2>1. \A i \in 0 .. top - 1 : entry[i] # p
      BY <1>5 DEF Listed
    <2> QED
      BY <1>0, <1>2, <1>3, <2>1 DEF Intact, SlotsDistinct
  <1>11. WatchedListed'
    <2>1. SUFFICES ASSUME NEW fd \in Fd, watch'[fd] # NULL, NEW q, q = watch'[fd].ptr
                   PROVE  Listed(q)' /\ heap'[q].sd = fd
      BY DEF WatchedListed, Watched, Listed
    <2>2. CASE fd = sd
      BY <1>4, <1>8, <2>1, <2>2
    <2>3. CASE fd # sd
      <3>1. fd \in Watched /\ q = watch[fd].ptr
        BY <1>4, <2>1, <2>3 DEF Watched
      <3>2. q \in Ptr /\ Listed(q) /\ heap[q].sd = fd
        BY <3>1, IntactFacts DEF Intact, WatchedListed
      <3> QED
        BY <1>4, <1>5, <1>8, <3>2
    <2> QED
      BY <2>2, <2>3
  <1>12. OneDestroyer'
    BY <1>2 DEF Intact, OneDestroyer
  <1>13. \A q \in Ptr : Destroying(q)' => Live(q)' /\ ~Listed(q)'
    BY <1>5, <1>7, <1>8 DEF Intact
  <1>14. \A q \in Ptr : Live(q)' => Listed(q)' \/ Destroying(q)'
    BY <1>7, <1>8 DEF Intact
  <1> QED
    BY <1>9, <1>10, <1>11, <1>12, <1>13, <1>14 DEF Intact

LEMMA IntactAddFails ==
  ASSUME TypeOK, TableShape, Intact, AddSdFails
  PROVE  Intact'
  <1>1. /\ top' = top /\ entry' = Grown
        /\ UNCHANGED <<heap, watch, stack>>
    BY DEF AddSdFails, kernel
  <1>2. \A i \in 0 .. top - 1 : entry'[i] = entry[i]
    BY <1>1, GrownSlots
  <1> QED
    <2>1. \A q : (Live(q)' <=> Live(q)) /\ (Listed(q)' <=> Listed(q)) /\ (Destroying(q)' <=> Destroying(q))
      BY <1>1, <1>2 DEF Live, Listed, Destroying
    <2>2. SlotsRegistered' /\ SlotsDistinct'
      BY <1>1, <1>2, <2>1 DEF Intact, SlotsRegistered, SlotsDistinct, Live
    <2>3. WatchedListed' /\ OneDestroyer'
      BY <1>1, <1>2 DEF Intact, WatchedListed, OneDestroyer, Watched, Listed
    <2> QED
      BY <2>1, <2>2, <2>3 DEF Intact

LEMMA IntactModify ==
  ASSUME TypeOK, TableShape, Intact, NEW sd \in Fd, NEW mask \in Mask, ModifySd(sd, mask)
  PROVE  Intact'
  <1>1. PICK i \in 0 .. top - 1 :
          /\ Found(sd, i)
          /\ watch' = [watch EXCEPT ![sd] = [ptr |-> entry[i], mask |-> mask]]
          /\ heap' = [heap EXCEPT ![entry[i]].mask = mask]
    BY DEF ModifySd
  <1>2. UNCHANGED <<storage, stack>>
    BY DEF ModifySd
  <1>3. PICK p : p = entry[i]
    OBVIOUS
  <1>4. /\ p \in Ptr /\ heap[p] \in Entry /\ heap[p].sd = sd /\ sd \in Watched
        /\ watch[sd] = [ptr |-> p, mask |-> heap[p].mask]
    BY <1>1, <1>3, IntactFacts DEF Found, Live
  <1>5. /\ heap'[p].sd = sd /\ heap'[p].mask = mask /\ heap'[p] \in Entry
        /\ \A q \in Ptr : q # p => heap'[q] = heap[q]
        /\ watch'[sd] = [ptr |-> p, mask |-> mask]
        /\ \A fd \in Fd : fd # sd => watch'[fd] = watch[fd]
    BY <1>1, <1>3, <1>4 DEF TypeOK, Entry
  <1>6. \A q \in Ptr : Live(q)' <=> Live(q)
    BY <1>4, <1>5, NullAssumption DEF Live
  <1>7. \A q \in Ptr : (Listed(q)' <=> Listed(q)) /\ (Destroying(q)' <=> Destroying(q))
    BY <1>2 DEF storage, Listed, Destroying
  <1>8. SlotsRegistered'
    <2>1. SUFFICES ASSUME NEW j \in 0 .. top - 1, NEW q, q = entry[j], q # NULL
                   PROVE  Live(q)' /\ watch'[heap'[q].sd] = [ptr |-> q, mask |-> heap'[q].mask]
      BY <1>2 DEF SlotsRegistered, storage, Live
    <2>2. CASE q = p
      BY <1>4, <1>5, <1>6, <2>1, <2>2, IntactFacts
    <2>3. CASE q # p
      <3>1. q \in Ptr /\ Live(q) /\ heap[q].sd \in Fd
            /\ watch[heap[q].sd] = [ptr |-> q, mask |-> heap[q].mask]
        BY <2>1, IntactFacts
      <3>2. heap[q].sd # sd
        BY <1>4, <2>3, <3>1
      <3> QED
        BY <1>5, <1>6, <2>3, <3>1, <3>2
    <2> QED
      BY <2>2, <2>3
  <1>9. WatchedListed'
    <2>1. SUFFICES ASSUME NEW fd \in Fd, watch'[fd] # NULL, NEW q, q = watch'[fd].ptr
                   PROVE  Listed(q)' /\ heap'[q].sd = fd
      BY DEF WatchedListed, Watched, Listed
    <2>2. fd \in Watched /\ q = watch[fd].ptr
      BY <1>4, <1>5, <2>1 DEF Watched
    <2>3. q \in Ptr /\ Listed(q) /\ heap[q].sd = fd
      BY <2>2, IntactFacts DEF Intact, WatchedListed
    <2> QED
      BY <1>4, <1>5, <1>7, <2>3
  <1>10. SlotsDistinct' /\ OneDestroyer'
    BY <1>2 DEF storage, Intact, SlotsDistinct, OneDestroyer
  <1> QED
    BY <1>6, <1>7, <1>8, <1>9, <1>10 DEF Intact

\* A registration is dropped together with the slot that lists its entry: both
\* by loop_remove_sd and by loop_cleanup.
LEMMA IntactDrop ==
  ASSUME TypeOK, TableShape, Intact, NEW i \in 0 .. top - 1, NEW p, p = entry[i], Live(p),
         UNCHANGED heap, watch' = [watch EXCEPT ![heap[p].sd] = NULL],
         NEW t \in 0 .. top, top' = t, i < t => entry'[i] = NULL,
         \A k \in 0 .. t - 1 : k # i => entry'[k] = entry[k],
         \A k \in 0 .. top - 1 : k # i => k < t,
         OneDestroyer', \A q \in Ptr : Destroying(q)' <=> Destroying(q) \/ p = q
  PROVE  Intact'
  <1>0. top \in Nat /\ t \in Nat /\ i \in Nat
    BY DEF TypeOK
  <1>1. /\ p \in Ptr /\ p # NULL /\ heap[p] \in Entry /\ heap[p].sd \in Fd /\ Listed(p)
        /\ heap[p].sd \in Watched /\ watch[heap[p].sd].ptr = p
    <2>1. entry[i] # NULL
      BY DEF Live
    <2>2. Listed(p)
      BY DEF Listed
    <2>3. /\ entry[i] \in Ptr /\ heap[entry[i]] \in Entry /\ heap[entry[i]].sd \in Fd
          /\ watch[heap[entry[i]].sd] = [ptr |-> entry[i], mask |-> heap[entry[i]].mask]
          /\ heap[entry[i]].sd \in Watched
      BY <2>1, IntactFacts
    <2> QED
      BY <2>1, <2>2, <2>3
  <1>2. \A q : Live(q)' <=> Live(q)
    BY DEF Live
  <1>3. watch'[heap[p].sd] = NULL /\ \A fd \in Fd : fd # heap[p].sd => watch'[fd] = watch[fd]
    BY <1>1 DEF TypeOK
  <1>4. \A k \in 0 .. top - 1 : k # i /\ entry[k] # NULL => entry[k] # p
    BY DEF Intact, SlotsDistinct
  <1>5. \A q \in Ptr : Listed(q)' <=> Listed(q) /\ q # p
    <2>1. SUFFICES ASSUME NEW q \in Ptr
                   PROVE  Listed(q)' <=> Listed(q) /\ q # p
      OBVIOUS
    <2>2. q # NULL
      BY NullAssumption
    <2>3. ASSUME Listed(q)'
          PROVE  Listed(q) /\ q # p
      <3>1. PICK k \in 0 .. t - 1 : entry'[k] = q
        BY <2>3 DEF Listed
      <3>2. k # i /\ k \in 0 .. top - 1
        BY <1>0, <2>2, <3>1
      <3> QED
        BY <1>4, <2>2, <3>1, <3>2 DEF Listed
    <2>4. ASSUME Listed(q), q # p
          PROVE  Listed(q)'
      <3>1. PICK k \in 0 .. top - 1 : entry[k] = q
        BY <2>4 DEF Listed
      <3>2. k # i /\ k \in 0 .. t - 1
        BY <1>0, <2>4, <3>1
      <3> QED
        BY <3>1, <3>2 DEF Listed
    <2> QED
      BY <2>3, <2>4
  <1>6. SlotsRegistered'
    <2>1. SUFFICES ASSUME NEW k \in 0 .. t - 1, NEW q, q = entry'[k], q # NULL
                   PROVE  Live(q) /\ watch'[heap[q].sd] = [ptr |-> q, mask |-> heap[q].mask]
      BY <1>2 DEF SlotsRegistered
    <2>2. k # i /\ k \in 0 .. top - 1 /\ q = entry[k]
      BY <1>0, <2>1
    <2>3. /\ q \in Ptr /\ Live(q) /\ heap[q].sd \in Fd
          /\ watch[heap[q].sd] = [ptr |-> q, mask |-> heap[q].mask]
      BY <2>1, <2>2, IntactFacts
    <2>4. heap[q].sd # heap[p].sd
      BY <1>1, <1>4, <2>1, <2>2, <2>3
    <2> QED
      BY <1>3, <2>3, <2>4
  <1>7. SlotsDistinct'
    <2>1. \A k \in 0 .. t - 1 : entry'[k] # NULL => k # i /\ k \in 0 .. top - 1 /\ entry'[k] = entry[k]
      BY <1>0
    <2> QED
      BY <2>1 DEF Intact, SlotsDistinct
  <1>8. WatchedListed'
    <2>1. SUFFICES ASSUME NEW fd \in Fd, watch'[fd] # NULL, NEW q, q = watch'[fd].ptr
                   PROVE  Listed(q)' /\ heap[q].sd = fd
      BY DEF WatchedListed, Watched, Listed
    <2>2. fd # heap[p].sd /\ fd \in Watched /\ q = watch[fd].ptr
      BY <1>1, <1>3, <2>1 DEF Watched
    <2>3. q \in Ptr /\ Listed(q) /\ heap[q].sd = fd
      BY <2>2, IntactFacts DEF Intact, WatchedListed
    <2>4. q # p
      BY <2>2 DEF Intact, WatchedListed
    <2> QED
      BY <1>5, <2>3, <2>4
  <1>9. \A q \in Ptr : Destroying(q)' => Live(q)' /\ ~Listed(q)'
    BY <1>1, <1>2, <1>5 DEF Intact
  <1>10. \A q \in Ptr : Live(q)' => Listed(q)' \/ Destroying(q)'
    BY <1>2, <1>5 DEF Intact
  <1> QED
    BY <1>6, <1>7, <1>8, <1>9, <1>10 DEF Intact

\* The entry whose destructor has returned is freed.
LEMMA IntactFree ==
  ASSUME TypeOK, TableShape, Intact, NEW p \in Ptr, Destroying(p),
         UNCHANGED <<storage, watch>>, heap' = [heap EXCEPT ![p] = NULL],
         OneDestroyer', \A q \in Ptr : Destroying(q)' <=> Destroying(q) /\ q # p
  PROVE  Intact'
  <1>1. ~Listed(p)
    BY DEF Intact
  <1>2. \A q \in Ptr : (Live(q)' <=> Live(q) /\ q # p) /\ (q # p => heap'[q] = heap[q])
    BY DEF Live, TypeOK
  <1>3. \A q : Listed(q)' <=> Listed(q)
    BY DEF storage, Listed
  <1>4. SlotsRegistered'
    <2>1. SUFFICES ASSUME NEW k \in 0 .. top - 1, NEW q, q = entry[k], q # NULL
                   PROVE  Live(q)' /\ watch[heap'[q].sd] = [ptr |-> q, mask |-> heap'[q].mask]
      BY DEF storage, SlotsRegistered, Live
    <2>2. q \in Ptr /\ Live(q) /\ q # p /\ watch[heap[q].sd] = [ptr |-> q, mask |-> heap[q].mask]
      BY <1>1, <2>1, IntactFacts DEF Listed
    <2> QED
      BY <1>2, <2>2
  <1>5. SlotsDistinct' /\ WatchedListed'
    BY DEF storage, Intact, SlotsDistinct, WatchedListed, Watched, Listed
  <1> QED
    BY <1>1, <1>2, <1>3, <1>4, <1>5 DEF Intact

LEMMA IntactRemove ==
  ASSUME TypeOK, TableShape, Intact, NEW sd \in Fd, RemoveSd(sd), ~holed'
  PROVE  Intact'
  <1>1. PICK i \in 0 .. top - 1 :
          /\ Found(sd, i) /\ ~Destroying(entry[i])
          /\ entry' = Shifted(i)
          /\ holed' = (holed \/ i # top - 1)
          /\ Push(RemoveFrame(entry[i]))
    BY DEF RemoveSd
  <1>2. PICK p : p = entry[i]
    OBVIOUS
  <1>3. top \in Nat /\ i = top - 1
    BY <1>1 DEF TypeOK
  <1>4. PICK t \in 0 .. top : t = top - 1 /\ top' = t
    BY <1>1, <1>3 DEF RemoveSd
  <1>5. p \in Ptr /\ Live(p) /\ heap[p].sd = sd
    <2>1. i \in 0 .. top - 1 /\ heap[entry[i]] # NULL /\ heap[entry[i]].sd = sd
      BY <1>1 DEF Found, Live
    <2>2. entry[i] \in Ptr \cup {NULL} /\ Live(entry[i])
      BY <1>1, SlotLemma DEF Found
    <2> QED
      BY <1>2, <2>1, <2>2 DEF Live
  <1>6. UNCHANGED heap /\ watch' = [watch EXCEPT ![heap[p].sd] = NULL]
    BY <1>5 DEF RemoveSd
  <1>7. \A k \in 0 .. t - 1 : k # i => entry'[k] = entry[k]
    <2>1. i = top - 1 /\ entry' = Shifted(i) /\ i \in 0 .. top - 1
      BY <1>1, <1>3
    <2>2. \A k \in 0 .. top - 2 : Shifted(i)[k] = entry[k]
      BY <2>1, ShiftedSlots
    <2>3. 0 .. t - 1 = 0 .. top - 2
      BY <1>3, <1>4
    <2> QED
      BY <2>1, <2>2, <2>3
  <1>8. ~(i < t) /\ \A k \in 0 .. top - 1 : k # i => k < t
    BY <1>3, <1>4
  <1>9. OneDestroyer' /\ \A q \in Ptr : Destroying(q)' <=> Destroying(q) \/ p = q
    <2>1. PICK g \in Frame : g.ptr = p /\ Push(g)
      BY <1>1, <1>2, <1>5, NewFrames DEF RemoveFrame
    <2> QED
      BY <1>1, <1>2, <2>1, DestroyingPush DEF Intact
  <1> QED
    BY <1>2, <1>4, <1>5, <1>6, <1>7, <1>8, <1>9, IntactDrop

LEMMA IntactCleanupSlot ==
  ASSUME TypeOK, TableShape, Intact, CleanupSlot
  PROVE  Intact'
  <1>1. stack # <<>> /\ Innermost \in CleanupFrames /\ Innermost.ptr = NULL /\ Innermost.i < top
    BY InnermostLemma DEF CleanupSlot, InCleanup, In, TypeOK
  <1>2. PICK i \in 0 .. top - 1 : i = Innermost.i
    BY <1>1 DEF CleanupFrames, TypeOK
  <1>3. PICK p : /\ p = entry[i] /\ Live(p) /\ ~Destroying(p)
                 /\ entry' = [entry EXCEPT ![i] = NULL]
                 /\ watch' = [watch EXCEPT ![heap[p].sd] = NULL]
                 /\ Amend([Innermost EXCEPT !.ptr = p])
    BY <1>2 DEF CleanupSlot
  <1>4. p \in Ptr
    BY <1>3, SlotLemma DEF Live
  <1>5. PICK t \in 0 .. top : t = top /\ top' = t
    BY DEF CleanupSlot, TypeOK
  <1>6. entry'[i] = NULL /\ \A k \in 0 .. t - 1 : k # i => entry'[k] = entry[k]
    BY <1>3, <1>5, SlotLemma
  <1>7. \A k \in 0 .. top - 1 : k # i => k < t
    BY <1>5
  <1>8. OneDestroyer' /\ \A q \in Ptr : Destroying(q)' <=> Destroying(q) \/ p = q
    <2>1. PICK g \in Frame : g.ptr = p /\ Amend(g)
      <3>1. LET g == [Innermost EXCEPT !.ptr = p] IN g \in Frame /\ g.ptr = p
        BY <1>1, <1>4, CleanupFrameLemma
      <3>2. Amend([Innermost EXCEPT !.ptr = p])
        BY <1>3
      <3> QED
        BY <3>1, <3>2
    <2>2. \A q \in Ptr : q # NULL
      BY NullAssumption
    <2> QED
      BY <1>1, <1>3, <2>1, <2>2, DestroyingAmend DEF Intact
  <1>9. UNCHANGED heap
    BY DEF CleanupSlot
  <1> QED
    BY <1>3, <1>5, <1>6, <1>7, <1>8, <1>9, IntactDrop

LEMMA IntactReturns ==
  ASSUME TypeOK, TableShape, Intact,
         RemoveReturns \/ CleanupReturns \/ CallbackReturns \/ SkipSlot
  PROVE  Intact'
  <1>0. stack \in Seq(Frame) /\ OneDestroyer
    BY DEF TypeOK, Intact
  <1>1. stack # <<>> /\ Len(stack) \in Nat /\ Len(stack) > 0
    BY <1>0, InnermostLemma DEF RemoveReturns, CleanupReturns, CallbackReturns, SkipSlot, InCleanup, In
  <1>2. \A q \in Ptr : q # NULL
    BY NullAssumption
  <1>3. Innermost.ptr # NULL => Destroying(Innermost.ptr)
    BY <1>1 DEF Destroying, Innermost
  <1>4. CASE RemoveReturns
    <2>1. PICK p \in Ptr : p = Innermost.ptr
      BY <1>0, <1>4, InnermostLemma DEF RemoveReturns, In, RemoveFrames
    <2>2. Pop /\ UNCHANGED <<storage, watch>> /\ heap' = [heap EXCEPT ![p] = NULL]
      BY <1>4, <2>1 DEF RemoveReturns, kernel
    <2>3. OneDestroyer' /\ \A q \in Ptr : Destroying(q)' <=> Destroying(q) /\ q # p
      BY <1>0, <1>1, <2>1, <2>2, DestroyingPop
    <2> QED
      BY <1>2, <1>3, <2>1, <2>2, <2>3, IntactFree
  <1>5. CASE CleanupReturns
    <2>1. Innermost \in CleanupFrames /\ Innermost.ptr # NULL
      BY <1>0, <1>5, InnermostLemma DEF CleanupReturns, In
    <2>2. PICK p \in Ptr : p = Innermost.ptr
      BY <2>1, CleanupFrameLemma
    <2>3. PICK g \in Frame : g.ptr = NULL /\ Amend(g)
      BY <1>5, <2>1, CleanupFrameLemma DEF CleanupReturns
    <2>4. UNCHANGED <<storage, watch>> /\ heap' = [heap EXCEPT ![p] = NULL]
      BY <1>5, <2>2 DEF CleanupReturns, kernel
    <2>5. OneDestroyer' /\ \A q \in Ptr : Destroying(q)' <=> Destroying(q) /\ q # p
      BY <1>0, <1>1, <1>2, <2>2, <2>3, DestroyingAmend
    <2> QED
      BY <1>3, <2>1, <2>2, <2>4, <2>5, IntactFree
  <1>6. CASE CallbackReturns
    <2>1. Innermost.ptr = NULL /\ Pop /\ UNCHANGED <<storage, heap, watch>>
      BY <1>0, <1>6, InnermostLemma DEF CallbackReturns, In, CallbackFrames, kernel
    <2>2. OneDestroyer' /\ \A q \in Ptr : Destroying(q)' <=> Destroying(q)
      BY <1>0, <1>1, <1>2, <2>1, DestroyingPop
    <2> QED
      BY <2>1, <2>2, IntactCalls
  <1>7. CASE SkipSlot
    <2>1. Innermost \in CleanupFrames /\ Innermost.ptr = NULL
      BY <1>0, <1>7, InnermostLemma DEF SkipSlot, InCleanup, In
    <2>2. PICK g \in Frame : g.ptr = NULL /\ Amend(g)
      BY <1>7, <2>1, CleanupFrameLemma DEF SkipSlot
    <2>3. UNCHANGED <<storage, heap, watch>>
      BY <1>7 DEF SkipSlot, kernel
    <2>4. OneDestroyer' /\ \A q \in Ptr : Destroying(q)' <=> Destroying(q)
      BY <1>0, <1>1, <1>2, <2>1, <2>2, DestroyingAmend
    <2> QED
      BY <2>3, <2>4, IntactCalls
  <1> QED
    BY <1>4, <1>5, <1>6, <1>7

\* loop_cleanup has cleared every slot when it ends: the table it frees lists
\* nothing, so every entry left belongs to a call that is destroying it.
LEMMA IntactCleanupEnd ==
  ASSUME TypeOK, TableShape, CleanupProgress, Intact, CleanupEnd
  PROVE  Intact'
  <1>1. stack # <<>> /\ Innermost \in CleanupFrames /\ Innermost.ptr = NULL /\ Innermost.i >= top
    BY InnermostLemma DEF CleanupEnd, InCleanup, In, TypeOK
  <1>2. top \in Nat /\ Innermost.i \in Nat /\ Innermost.fn = "cleanup"
    <2>1. Innermost \in CleanupFrames /\ top \in Nat
      BY <1>1 DEF TypeOK
    <2> QED
      BY <2>1 DEF CleanupFrames
  <1>3. Passed(Innermost)
    <2>1. Len(stack) \in 1 .. Len(stack)
      BY <1>1, InnermostLemma DEF TypeOK
    <2> QED
      BY <1>2, <2>1 DEF CleanupProgress, Innermost
  <1>4. \A i \in 0 .. top - 1 : entry[i] = NULL
    BY <1>1, <1>2, <1>3 DEF Passed, Done
  <1>5. \A q \in Ptr : ~Listed(q)
    BY <1>4, NullAssumption DEF Listed
  <1>6. top' = 0 /\ UNCHANGED heap /\ Pop /\ \A fd \in Fd : watch'[fd] = NULL
    BY DEF CleanupEnd
  <1>7. OneDestroyer' /\ \A q \in Ptr : Destroying(q)' <=> Destroying(q)
    BY <1>1, <1>6, DestroyingPop, NullAssumption DEF Intact
  <1>8. \A q \in Ptr : (Live(q)' <=> Live(q)) /\ ~Listed(q)'
    BY <1>6 DEF Live, Listed
  <1>9. SlotsRegistered' /\ SlotsDistinct' /\ WatchedListed'
    BY <1>6 DEF SlotsRegistered, SlotsDistinct, WatchedListed, Watched
  <1> QED
    BY <1>5, <1>7, <1>8, <1>9 DEF Intact

LEMMA IntactStep ==
  ASSUME TypeOK, TableShape, CleanupProgress, Intact, [Next]_vars, ~holed'
  PROVE  Intact'
  <1> USE DEF state, storage, kernel
  <1>1. CASE LoopInit
    <2>1. top = 0 /\ top' = 0 /\ UNCHANGED <<heap, watch, stack>>
      BY <1>1 DEF LoopInit, TableShape
    <2> QED
      BY <2>1 DEF Intact, SlotsRegistered, SlotsDistinct, WatchedListed, OneDestroyer,
                  Destroying, Listed, Live, Watched
  <1>2. CASE Call
    <2>1. PICK g \in Frame : g.ptr = NULL /\ Push(g)
      BY <1>2 DEF Call
    <2>2. OneDestroyer' /\ \A q \in Ptr : Destroying(q)' <=> Destroying(q)
      BY <2>1, DestroyingPush, NullAssumption DEF Intact
    <2> QED
      BY <1>2, <2>2, IntactCalls DEF Call
  <1>3. CASE UNCHANGED <<state, stack>>
    <2>1. OneDestroyer' /\ \A q \in Ptr : Destroying(q)' <=> Destroying(q)
      BY <1>3 DEF Intact, OneDestroyer, Destroying
    <2> QED
      BY <1>3, <2>1, IntactCalls
  <1> QED
    BY <1>1, <1>2, <1>3, StepCases, IntactAdd, IntactAddFails, IntactModify, IntactRemove,
       IntactReturns, IntactCleanupSlot, IntactCleanupEnd

-----------------------------------------------------------------------------
(***************************************************************************)
(* The theorems.                                                           *)
(***************************************************************************)
LEMMA HoledStays ==
  ASSUME TypeOK, [Next]_vars, holed
  PROVE  holed'
  BY StepCases DEF state, LoopInit, AddSd, AddSdFails, ModifySd, RemoveSd, RemoveReturns,
     CallbackReturns, CleanupReturns, SkipSlot, CleanupSlot, CleanupEnd, Call, history

LEMMA IInvStep == IInv /\ [Next]_vars => IInv'
  <1> SUFFICES ASSUME IInv, [Next]_vars
               PROVE  IInv'
    OBVIOUS
  <1>1. TypeOK' /\ TableShape' /\ CleanupProgress'
    BY TypeStep, ShapeStep, ProgressStep DEF IInv
  <1>2. SlotsNull /\ (~holed => Intact)
    BY IntactLemma DEF IInv
  <1>3. SlotsNull'
    BY <1>2, SlotsNullStep DEF IInv
  <1>4. ~holed' => Intact'
    BY <1>2, HoledStays, IntactStep DEF IInv
  <1>5. (TableExact /\ EntryOwnership)'
    BY <1>3, <1>4, IntactLemma, PTL
  <1> QED
    BY <1>1, <1>5 DEF IInv

LEMMA Invariance == Spec => []IInv
  BY IInvInit, IInvStep, PTL DEF Spec

\* While no removal has damaged the table, it lists exactly the descriptors the
\* kernel watches, each through its own entry: for any number of descriptors,
\* entries, masks and nested calls.
THEOREM TableIsExact == Spec => []TableExact
  BY Invariance, PTL DEF IInv

\* Every entry is owned by the table or by the one call destroying it: no leak
\* and no double free, however callbacks, destructors and signals nest.
THEOREM OwnershipHolds == Spec => []EntryOwnership
  BY Invariance, PTL DEF IInv

\* A pending loop_cleanup has cleared every slot it has passed.
THEOREM CleanupSkipsNothing == Spec => []CleanupProgress
  BY Invariance, PTL DEF IInv

-----------------------------------------------------------------------------
(***************************************************************************)
(* What it takes to run into undefined behaviour.                          *)
(***************************************************************************)
LEMMA HaltLemma ==
  ASSUME [Next]_vars, fault # "none"
  PROVE  UNCHANGED vars
  BY DEF Next, UserCode, Return, LoopCode, LoopInit, AddSd, AddSdFails, ModifySd, RemoveSd,
     RemoveTwice, SearchFaults, RunStart, Quit, SignalQuit, RemoveReturns, CleanupReturns,
     CallbackReturns, Dispatch, BatchDone, RunExit, SkipSlot, CleanupSlot, CleanupFaults,
     CleanupEnd, Wait, WaitFails, Halted, Calls, Main, In, InDestructor, InCleanup, Running

LEMMA TableFaultsStep == IInv /\ TableFaultsExplained /\ [Next]_vars => TableFaultsExplained'
  <1> SUFFICES ASSUME IInv, TableFaultsExplained, [Next]_vars
               PROVE  TableFaultsExplained'
    OBVIOUS
  <1> USE DEF storage
  <1>0. TypeOK /\ TableShape /\ SlotsNull /\ (~holed => Intact) /\ top \in Nat
    BY IntactLemma DEF IInv, TypeOK
  <1>1. CASE fault # "none"
    <2>1. UNCHANGED vars
      BY <1>1, HaltLemma
    <2>2. UNCHANGED <<fault, holed, stack, count, top, pool>>
      BY <2>1 DEF vars, history, running
    <2> QED
      BY <2>2 DEF TableFaultsExplained, CleaningUp
  <1>2. CASE fault' = "none"
    BY <1>2 DEF TableFaultsExplained
  <1>3. ASSUME NEW sd \in Fd, SearchFaults(sd)
        PROVE  TableFaultsExplained'
    <2>1. PICK i \in 0 .. top - 1 :
            ~Live(entry[i]) /\ fault' = IF entry[i] = NULL THEN "null" ELSE "stale"
      BY <1>3 DEF SearchFaults
    <2>2. UNCHANGED <<storage, stack, holed>>
      BY <1>3 DEF SearchFaults, history
    <2>3. entry[i] = NULL => CleaningUp'
      BY <1>0, <2>2 DEF SlotsNull, CleaningUp
    <2>4. entry[i] # NULL => holed
      BY <1>0, <2>1, IntactFacts
    <2>5. CASE entry[i] = NULL
      BY <2>1, <2>3, <2>5 DEF TableFaultsExplained
    <2>6. CASE entry[i] # NULL
      BY <2>1, <2>2, <2>4, <2>6 DEF TableFaultsExplained
    <2> QED
      BY <2>5, <2>6
  <1>4. ASSUME NEW sd \in Fd, RemoveTwice(sd)
        PROVE  TableFaultsExplained'
    <2>1. PICK i \in 0 .. top - 1 : Found(sd, i) /\ Destroying(entry[i])
      BY <1>4 DEF RemoveTwice
    <2>2. fault' = "twice" /\ UNCHANGED holed
      BY <1>4 DEF RemoveTwice, history
    <2>3. entry[i] \in Ptr /\ Listed(entry[i])
      BY <1>0, <2>1, SlotLemma DEF Found, Live, Listed
    <2> QED
      BY <1>0, <2>1, <2>2, <2>3 DEF Intact, TableFaultsExplained
  <1>5. CASE CleanupFaults
    <2>1. Innermost \in CleanupFrames /\ Innermost.i < top
      BY <1>0, <1>5, InnermostLemma DEF CleanupFaults, InCleanup, In, TypeOK
    <2>2. PICK i \in 0 .. top - 1 : i = Innermost.i
      BY <1>0, <2>1 DEF CleanupFrames
    <2>3. /\ entry[i] # NULL /\ (~Live(entry[i]) \/ Destroying(entry[i]))
          /\ fault' \in {"stale", "twice"} /\ UNCHANGED holed
      BY <1>5, <2>2 DEF CleanupFaults, Live, history
    <2>4. entry[i] \in Ptr /\ Listed(entry[i])
      BY <1>0, <2>3, SlotLemma DEF Listed
    <2>5. holed
      BY <1>0, <2>3, <2>4, IntactFacts DEF Intact
    <2> QED
      BY <2>3, <2>5 DEF TableFaultsExplained
  <1>6. CASE Wait
    <2>1. PICK n \in 1 .. top : fault' # fault => n > pool /\ fault' = "pool"
      BY <1>6 DEF Wait
    <2>2. UNCHANGED <<count, pool>>
      BY <1>6 DEF Wait
    <2>3. pool \in Nat /\ count \in Nat /\ top < count
      BY <1>0, <2>1 DEF TypeOK, TableShape
    <2> QED
      BY <1>0, <1>1, <1>2, <2>1, <2>2, <2>3 DEF TableFaultsExplained
  <1>7. CASE Dispatch
    <2>1. fault' = fault \/ fault' = "dispatch"
      BY <1>7 DEF Dispatch
    <2> QED
      BY <1>1, <1>2, <2>1 DEF TableFaultsExplained
  <1>8. CASE LoopInit
    <2>1. ~epfd /\ UNCHANGED top
      BY <1>8 DEF LoopInit
    <2>2. fault' = fault \/ (fault' = "unallocated" /\ count # 0 /\ UNCHANGED count)
      BY <1>8 DEF LoopInit
    <2>3. top' = 0
      BY <1>0, <2>1 DEF TableShape
    <2> QED
      BY <1>1, <1>2, <2>2, <2>3 DEF TableFaultsExplained
  <1>9. \/ UNCHANGED fault \/ CleanupFaults \/ Wait \/ Dispatch \/ LoopInit
        \/ \E sd \in Fd : SearchFaults(sd) \/ RemoveTwice(sd)
    BY DEF Next, UserCode, Return, LoopCode, AddSd, AddSdFails, ModifySd, RemoveSd,
       RunStart, Quit, SignalQuit, StartCleanup, RemoveReturns, CleanupReturns, CallbackReturns,
       BatchDone, RunExit, SkipSlot, CleanupSlot, CleanupEnd, WaitFails, Halted, vars
  <1> QED
    BY <1>1, <1>2, <1>3, <1>4, <1>5, <1>6, <1>7, <1>8, <1>9

\* A freed entry is read, or one is destroyed twice, only after a removal has
\* damaged the table; a NULL slot is read only under loop_cleanup; a batch
\* outgrows event_pool only after the table grew under loop_run.
LEMMA TableFaults == Spec => []TableFaultsExplained
  <1>1. Init => TableFaultsExplained
    BY DEF Init, TableFaultsExplained
  <1> QED
    BY <1>1, Invariance, TableFaultsStep, PTL DEF Spec
=============================================================================
