---------------------------- MODULE Loop_proofs ----------------------------
(***************************************************************************)
(* Proofs about Loop, for any number of descriptors, entries and nested    *)
(* calls.                                                                  *)
(***************************************************************************)
EXTENDS LoopProps, SequenceTheorems, TLAPS

(***************************************************************************)
(* The three ways the stack of pending calls changes.                      *)
(***************************************************************************)
LEMMA PushLemma ==
  ASSUME stack \in Seq(Frame), NEW f \in Frame, Push(f)
  PROVE  /\ stack' \in Seq(Frame)
         /\ Len(stack') = Len(stack) + 1
         /\ stack'[Len(stack) + 1] = f
         /\ \A k \in 1 .. Len(stack) : stack'[k] = stack[k]
  BY AppendProperties DEF Push

LEMMA PopLemma ==
  ASSUME stack \in Seq(Frame), stack # <<>>, Pop
  PROVE  /\ stack' \in Seq(Frame)
         /\ Len(stack') = Len(stack) - 1
         /\ \A k \in 1 .. Len(stack) - 1 : stack'[k] = stack[k]
  <1>1. Len(stack) \in Nat /\ Len(stack) > 0
    BY EmptySeq
  <1>2. PICK n \in Nat : n = Len(stack) - 1
    BY <1>1
  <1>3. stack' = SubSeq(stack, 1, n)
    BY <1>2 DEF Pop
  <1>4. \A k \in 1 .. n : stack[k] \in Frame
    BY <1>1, <1>2, ElementOfSeq
  <1>5. SubSeq(stack, 1, n) \in Seq(Frame)
    BY <1>4
  <1>6. Len(SubSeq(stack, 1, n)) = n /\ \A k \in 1 .. n : SubSeq(stack, 1, n)[k] = stack[k]
    BY <1>2
  <1> QED
    BY <1>2, <1>3, <1>5, <1>6

LEMMA AmendLemma ==
  ASSUME stack \in Seq(Frame), stack # <<>>, NEW f \in Frame, Amend(f)
  PROVE  /\ stack' \in Seq(Frame)
         /\ Len(stack') = Len(stack)
         /\ stack'[Len(stack)] = f
         /\ \A k \in 1 .. Len(stack) - 1 : stack'[k] = stack[k]
  <1>1. Len(stack) \in 1 .. Len(stack)
    BY EmptySeq
  <1> QED
    BY <1>1, ExceptSeq DEF Amend
\* The innermost pending call, by what it is.
LEMMA InnermostLemma ==
  ASSUME stack \in Seq(Frame), stack # <<>>
  PROVE  /\ Len(stack) \in Nat /\ Len(stack) > 0
         /\ Innermost \in Frame
         /\ Innermost.fn = "callback" => Innermost \in CallbackFrames
         /\ Innermost.fn = "remove" => Innermost \in RemoveFrames
         /\ Innermost.fn = "cleanup" => Innermost \in CleanupFrames
  <1>1. Len(stack) \in Nat /\ Len(stack) > 0
    BY EmptySeq
  <1>2. Innermost \in Frame
    BY <1>1, ElementOfSeq DEF Innermost
  <1> QED
    BY <1>1, <1>2 DEF Frame, CallbackFrames, RemoveFrames, CleanupFrames

LEMMA NewFrames ==
  /\ \A sd \in Fd : CallbackFrame(sd) \in Frame
  /\ \A p \in Ptr : RemoveFrame(p) \in Frame
  /\ \A exit \in Exits : CleanupFrame(exit) \in Frame
  BY DEF Frame, CallbackFrames, RemoveFrames, CleanupFrames,
         CallbackFrame, RemoveFrame, CleanupFrame

-----------------------------------------------------------------------------
(***************************************************************************)
(* Type correctness.                                                       *)
(***************************************************************************)
LEMMA TypeInit == Init => TypeOK
  <1> SUFFICES ASSUME Init
               PROVE  TypeOK
    OBVIOUS
  <1>1. entry \in [0 .. count - 1 -> Ptr \cup {NULL}]
    BY DEF Init
  <1>2. batch \in Seq(Event) /\ stack \in Seq(Frame)
    BY EmptySeq DEF Init
  <1>3. heap \in [Ptr -> Entry \cup {NULL}] /\ watch \in [Fd -> Interest \cup {NULL}]
    BY DEF Init
  <1> QED
    BY <1>1, <1>2, <1>3 DEF Init, TypeOK, Faults

\* The slots in use exist: a step that reads one needs the shape of the table.
LEMMA SlotLemma ==
  ASSUME TypeOK, TableShape, NEW i \in 0 .. top - 1
  PROVE  i \in DOMAIN entry /\ entry[i] \in Ptr \cup {NULL}
  BY DEF TypeOK, TableShape

LEMMA GrownLemma ==
  ASSUME TypeOK
  PROVE  /\ GrownCount \in Nat
         /\ Grown \in [0 .. GrownCount - 1 -> Ptr \cup {NULL}]
  <1>1. GrownCount \in Nat
    BY EntryChangeAssumption DEF GrownCount, TypeOK
  <1>2. ASSUME NEW i \in 0 .. GrownCount - 1
        PROVE  (IF i < count THEN entry[i] ELSE NULL) \in Ptr \cup {NULL}
    BY <1>1 DEF TypeOK
  <1> QED
    BY <1>1, <1>2 DEF Grown

LEMMA ShiftedLemma ==
  ASSUME TypeOK, TableShape, NEW i \in 0 .. top - 1
  PROVE  Shifted(i) \in [0 .. count - 1 -> Ptr \cup {NULL}]
  <1>1. ASSUME NEW k \in 0 .. count - 1
        PROVE  (IF k = top - 1 THEN NULL
                ELSE IF i <= k /\ k + 2 < top THEN entry[k + 1]
                ELSE entry[k]) \in Ptr \cup {NULL}
    BY SlotLemma DEF TypeOK
  <1> QED
    BY <1>1 DEF Shifted, TypeOK

\* A cleanup frame moves on along the table.
LEMMA CleanupFrameLemma ==
  ASSUME NEW f \in CleanupFrames
  PROVE  /\ f \in Frame /\ f.fn = "cleanup"
         /\ f.i \in Nat /\ f.exit \in Exits /\ f.ptr \in Ptr \cup {NULL}
         /\ LET g == [f EXCEPT !.i = @ + 1]
            IN  g \in Frame /\ g.fn = "cleanup" /\ g.ptr = f.ptr /\ g.i = f.i + 1
         /\ LET g == [f EXCEPT !.ptr = NULL, !.i = @ + 1]
            IN  g \in Frame /\ g.fn = "cleanup" /\ g.ptr = NULL /\ g.i = f.i + 1
         /\ \A p \in Ptr : LET g == [f EXCEPT !.ptr = p]
            IN  g \in Frame /\ g.fn = "cleanup" /\ g.ptr = p /\ g.i = f.i
  <1>1. f.fn = "cleanup" /\ f.i \in Nat /\ f.exit \in Exits /\ f.ptr \in Ptr \cup {NULL}
    BY DEF CleanupFrames
  <1>2. f.i + 1 \in Nat
    BY <1>1
  <1>3. ASSUME NEW n \in Nat
        PROVE  LET g == [f EXCEPT !.i = n]
               IN  g \in CleanupFrames /\ g.fn = "cleanup" /\ g.ptr = f.ptr /\ g.i = n
    BY DEF CleanupFrames
  <1>4. ASSUME NEW n \in Nat
        PROVE  LET g == [f EXCEPT !.ptr = NULL, !.i = n]
               IN  g \in CleanupFrames /\ g.fn = "cleanup" /\ g.ptr = NULL /\ g.i = n
    BY DEF CleanupFrames
  <1>5. ASSUME NEW p \in Ptr
        PROVE  LET g == [f EXCEPT !.ptr = p]
               IN  g \in CleanupFrames /\ g.fn = "cleanup" /\ g.ptr = p /\ g.i = f.i
    BY DEF CleanupFrames
  <1>6. CleanupFrames \subseteq Frame
    BY DEF Frame
  <1> QED
    BY <1>1, <1>2, <1>3, <1>4, <1>5, <1>6

\* The clean-up calls the destructor of an entry.
LEMMA DestructorFrame ==
  ASSUME NEW f \in CleanupFrames, NEW p \in Ptr
  PROVE  \E g \in Frame : /\ g = [f EXCEPT !.ptr = p]
                          /\ g.fn = f.fn /\ g.fn = "cleanup" /\ g.ptr = p /\ g.i = f.i
  <1> DEFINE g == [f EXCEPT !.ptr = p]
  <1>1. g \in Frame /\ g.fn = f.fn /\ g.fn = "cleanup" /\ g.ptr = p /\ g.i = f.i
    BY DEF CleanupFrames, Frame
  <1> QED
    BY <1>1

LEMMA CleanupSlotTypes ==
  ASSUME TypeOK, TableShape, CleanupSlot
  PROVE  TypeOK'
  <1>1. Innermost \in CleanupFrames /\ stack \in Seq(Frame) /\ stack # <<>>
    BY InnermostLemma DEF CleanupSlot, InCleanup, In, TypeOK
  <1>2. PICK p : /\ p = entry[Innermost.i] /\ Live(p)
                 /\ entry' = [entry EXCEPT ![Innermost.i] = NULL]
                 /\ watch' = [watch EXCEPT ![heap[p].sd] = NULL]
                 /\ Drop({heap[p].sd})
                 /\ Amend([Innermost EXCEPT !.ptr = p])
    BY DEF CleanupSlot
  <1>3. p \in Ptr
    <2>1. Innermost.i \in Nat /\ Innermost.i < top /\ top \in Nat
      BY <1>1 DEF CleanupFrames, CleanupSlot, TypeOK
    <2>2. Innermost.i \in 0 .. top - 1
      BY <2>1
    <2>3. p \in Ptr \cup {NULL}
      BY <1>2, <2>2, SlotLemma
    <2> QED
      BY <1>2, <2>3 DEF Live
  <1>4. PICK g \in Frame : g = [Innermost EXCEPT !.ptr = p]
    BY <1>1, <1>3, DestructorFrame
  <1>5. stack' \in Seq(Frame)
    BY <1>1, <1>2, <1>4, AmendLemma
  <1>6. heap[p].sd \in Fd
    BY <1>2, <1>3 DEF Live, Entry, TypeOK
  <1>7. /\ entry' \in [0 .. count - 1 -> Ptr \cup {NULL}]
        /\ watch' \in [Fd -> Interest \cup {NULL}]
    BY <1>2 DEF TypeOK
  <1>8. dropped' \in SUBSET Fd /\ pool' = pool /\ batch' = batch
    BY <1>2, <1>6 DEF Drop, CleanupSlot, TypeOK, running
  <1>9. UNCHANGED <<epfd, terminate, signalled, status, count, top, heap, run, fault, holed>>
    BY DEF CleanupSlot, control, running
  <1> QED
    BY <1>5, <1>7, <1>8, <1>9 DEF TypeOK

LEMMA TypeStep == TypeOK /\ TableShape /\ [Next]_vars => TypeOK'
  <1> SUFFICES ASSUME TypeOK, TableShape, [Next]_vars
               PROVE  TypeOK'
    OBVIOUS
  <1> USE EntryChangeAssumption, NullAssumption
      DEF TypeOK, Faults, control, storage, kernel, running, history
  <1>1. CASE LoopInit
    BY <1>1 DEF LoopInit
  <1>2. ASSUME NEW sd \in Fd, NEW mask \in Mask, AddSd(sd, mask)
        PROVE  TypeOK'
    <2>1. PICK p \in Ptr :
            /\ heap' = [heap EXCEPT ![p] = [sd |-> sd, mask |-> mask]]
            /\ watch' = [watch EXCEPT ![sd] = [ptr |-> p, mask |-> mask]]
            /\ entry' = [Grown EXCEPT ![top] = p]
      BY <1>2 DEF AddSd
    <2>2. heap' \in [Ptr -> Entry \cup {NULL}] /\ watch' \in [Fd -> Interest \cup {NULL}]
      BY <2>1 DEF Entry, Interest
    <2>3. count' = GrownCount /\ top' = top + 1
      BY <1>2 DEF AddSd
    <2>4. entry' \in [0 .. count' - 1 -> Ptr \cup {NULL}] /\ count' \in Nat
      BY <2>1, <2>3, GrownLemma
    <2> QED
      BY <1>2, <2>2, <2>3, <2>4 DEF AddSd
  <1>3. CASE AddSdFails
    BY <1>3, GrownLemma DEF AddSdFails
  <1>4. ASSUME NEW sd \in Fd, NEW mask \in Mask, ModifySd(sd, mask)
        PROVE  TypeOK'
    <2>1. PICK i \in 0 .. top - 1 :
            /\ Found(sd, i)
            /\ watch' = [watch EXCEPT ![sd] = [ptr |-> entry[i], mask |-> mask]]
            /\ heap' = [heap EXCEPT ![entry[i]].mask = mask]
      BY <1>4 DEF ModifySd
    <2>2. entry[i] \in Ptr /\ heap[entry[i]] \in Entry
      BY <2>1, SlotLemma DEF Found, Live
    <2>3. watch' \in [Fd -> Interest \cup {NULL}]
      BY <2>1, <2>2 DEF Interest
    <2>4. heap' \in [Ptr -> Entry \cup {NULL}]
      BY <2>1, <2>2 DEF Entry
    <2> QED
      BY <1>4, <2>3, <2>4 DEF ModifySd
  <1>5. ASSUME NEW sd \in Fd, RemoveSd(sd)
        PROVE  TypeOK'
    <2>1. PICK i \in 0 .. top - 1 :
            /\ Found(sd, i)
            /\ entry' = Shifted(i) /\ holed' = (holed \/ i # top - 1)
            /\ Push(RemoveFrame(entry[i]))
      BY <1>5 DEF RemoveSd
    <2>2. entry[i] \in Ptr
      BY <2>1, SlotLemma DEF Found, Live
    <2>3. stack' \in Seq(Frame)
      BY <2>1, <2>2, PushLemma, NewFrames
    <2>4. entry' \in [0 .. count' - 1 -> Ptr \cup {NULL}]
      BY <1>5, <2>1, ShiftedLemma DEF RemoveSd
    <2> QED
      BY <1>5, <2>1, <2>3, <2>4 DEF RemoveSd, Drop
  <1>6. ASSUME NEW sd \in Fd, RemoveTwice(sd) \/ SearchFaults(sd)
        PROVE  TypeOK'
    BY <1>6 DEF RemoveTwice, SearchFaults
  <1>7. CASE RunStart
    BY <1>7 DEF RunStart
  <1>8. ASSUME NEW exit \in Exits, Quit(exit)
        PROVE  TypeOK'
    BY <1>8, PushLemma, NewFrames DEF Quit, StartCleanup
  <1>9. CASE SignalQuit
    BY <1>9, CallsAssumption, PushLemma, NewFrames DEF SignalQuit, StartCleanup
  <1>10. CASE RemoveReturns
    BY <1>10, InnermostLemma, PopLemma DEF RemoveReturns, In, RemoveFrames
  <1>11. CASE CleanupReturns
    <2>1. stack # <<>> /\ Innermost \in CleanupFrames /\ Innermost.ptr \in Ptr
      BY <1>11, InnermostLemma DEF CleanupReturns, In, CleanupFrames
    <2>2. [Innermost EXCEPT !.ptr = NULL, !.i = @ + 1] \in Frame
      BY <2>1, CleanupFrameLemma
    <2>3. stack' \in Seq(Frame)
      BY <1>11, <2>1, <2>2, AmendLemma DEF CleanupReturns
    <2> QED
      BY <1>11, <2>1, <2>3 DEF CleanupReturns
  <1>12. CASE CallbackReturns
    BY <1>12, PopLemma DEF CallbackReturns, In
  <1>13. CASE Dispatch
    <2>1. Head(batch) \in Event /\ Tail(batch) \in Seq(Event)
      BY <1>13, HeadTailProperties DEF Dispatch
    <2>2. CASE Live(Head(batch).ptr)
      <3>1. heap[Head(batch).ptr].sd \in Fd
        BY <2>1, <2>2 DEF Live, Event, Entry
      <3>2. Push(CallbackFrame(heap[Head(batch).ptr].sd)) /\ batch' = Tail(batch) /\ UNCHANGED fault
        BY <1>13, <2>2 DEF Dispatch
      <3>3. stack' \in Seq(Frame)
        BY <3>1, <3>2, PushLemma, NewFrames
      <3> QED
        BY <1>13, <2>1, <3>2, <3>3 DEF Dispatch
    <2> QED
      BY <1>13, <2>2 DEF Dispatch
  <1>14. CASE BatchDone
    BY <1>14 DEF BatchDone
  <1>15. CASE RunExit
    BY <1>15 DEF RunExit
  <1>16. CASE SkipSlot
    <2>1. stack # <<>> /\ Innermost \in CleanupFrames
      BY <1>16, InnermostLemma DEF SkipSlot, InCleanup, In
    <2>2. [Innermost EXCEPT !.i = @ + 1] \in Frame
      BY <2>1, CleanupFrameLemma
    <2> QED
      BY <1>16, <2>1, <2>2, AmendLemma DEF SkipSlot
  <1>17. CASE CleanupSlot
    BY <1>17, CleanupSlotTypes
  <1>18. CASE CleanupFaults
    BY <1>18 DEF CleanupFaults
  <1>19. CASE CleanupEnd
    <2>1. stack # <<>> /\ Innermost \in CleanupFrames
      BY <1>19, InnermostLemma DEF CleanupEnd, InCleanup, In
    <2>2. Innermost.exit \in Exits
      BY <2>1 DEF CleanupFrames
    <2>3. stack' \in Seq(Frame)
      BY <1>19, <2>1, PopLemma DEF CleanupEnd
    <2>4. status' \in {"quit", "success", "failure"}
      BY <1>19, <2>2, CallsAssumption DEF CleanupEnd
    <2> QED
      <3>1. UNCHANGED <<terminate, signalled, heap, run, pool, batch, fault, holed>>
        BY <1>19 DEF CleanupEnd
      <3>2. /\ count' = 0 /\ top' = 0 /\ entry' = [i \in 0 .. -1 |-> NULL]
            /\ epfd' = FALSE /\ watch' = [fd \in Fd |-> NULL]
        BY <1>19 DEF CleanupEnd
      <3>3. dropped' \in SUBSET Fd
        BY <1>19 DEF CleanupEnd, Drop, Watched
      <3>4. entry' \in [0 .. count' - 1 -> Ptr \cup {NULL}]
        BY <3>2
      <3> QED
        BY <2>3, <2>4, <3>1, <3>2, <3>3, <3>4
  <1>20. CASE Wait
    <2>1. PICK n \in 1 .. top : \E fds \in [1 .. n -> Watched] :
            /\ \A j, k \in 1 .. n : fds[j] = fds[k] => j = k
            /\ \/ /\ n <= pool
                  /\ batch' = [k \in 1 .. n |-> [fd |-> fds[k], ptr |-> watch[fds[k]].ptr]]
                  /\ run' = "dispatch"
                  /\ UNCHANGED fault
               \/ /\ n > pool
                  /\ fault' = "pool"
                  /\ UNCHANGED <<batch, run>>
      BY <1>20, Zenon DEF Wait
    <2>2. PICK fds \in [1 .. n -> Watched] :
            \/ /\ batch' = [k \in 1 .. n |-> [fd |-> fds[k], ptr |-> watch[fds[k]].ptr]]
               /\ run' = "dispatch" /\ UNCHANGED fault
            \/ fault' = "pool" /\ UNCHANGED <<batch, run>>
      BY <2>1, Zenon
    <2>3. \A k \in 1 .. n : [fd |-> fds[k], ptr |-> watch[fds[k]].ptr] \in Event
      BY DEF Event, Watched, Interest
    <2>4. [k \in 1 .. n |-> [fd |-> fds[k], ptr |-> watch[fds[k]].ptr]] \in Seq(Event)
      BY <2>3
    <2> QED
      BY <1>20, <2>2, <2>4 DEF Wait
  <1>21. CASE UNCHANGED vars
    BY <1>21 DEF vars
  <1> QED
    BY <1>1, <1>2, <1>3, <1>4, <1>5, <1>6, <1>7, <1>8, <1>9, <1>10, <1>11, <1>12,
       <1>13, <1>14, <1>15, <1>16, <1>17, <1>18, <1>19, <1>20, <1>21
    DEF Next, UserCode, Return, LoopCode, WaitFails, Halted

LEMMA ShapeStep == TypeOK /\ TableShape /\ [Next]_vars => TableShape'
  <1> SUFFICES ASSUME TypeOK, TableShape, [Next]_vars
               PROVE  TableShape'
    OBVIOUS
  <1> USE EntryChangeAssumption
      DEF TypeOK, TableShape, control, storage, kernel, running, history
  <1>1. CASE LoopInit
    <2>1. top' = 0 /\ epfd'
      BY <1>1 DEF LoopInit
    <2>2. CASE UNCHANGED <<count, entry>>
      BY <1>1, <2>1, <2>2 DEF LoopInit
    <2>3. CASE count' = ENTRY_CHANGE /\ entry' = [i \in 0 .. ENTRY_CHANGE - 1 |-> NULL]
      BY <2>1, <2>3
    <2> QED
      BY <1>1, <2>2, <2>3 DEF LoopInit
  <1>2. ASSUME NEW sd \in Fd, NEW mask \in Mask, AddSd(sd, mask)
        PROVE  TableShape'
    <2>1. PICK p \in Ptr : entry' = [Grown EXCEPT ![top] = p]
      BY <1>2 DEF AddSd
    <2>2. count' = GrownCount /\ top' = top + 1
      BY <1>2 DEF AddSd
    <2>3. count' # 0 /\ top' < count'
      BY <2>2 DEF GrownCount
    <2>4. \A i \in top' .. count' - 1 : entry'[i] = NULL
      BY <2>1, <2>2 DEF GrownCount, Grown
    <2>5. epfd'
      BY <1>2 DEF AddSd
    <2> QED
      BY <2>3, <2>4, <2>5
  <1>3. CASE AddSdFails
    <2>1. count' = GrownCount /\ top' = top /\ entry' = Grown
      BY <1>3 DEF AddSdFails
    <2>2. count' # 0 /\ top' < count'
      BY <2>1 DEF GrownCount
    <2>3. \A i \in top' .. count' - 1 : entry'[i] = NULL
      BY <2>1 DEF GrownCount, Grown
    <2>4. UNCHANGED epfd
      BY <1>3 DEF AddSdFails
    <2> QED
      BY <2>1, <2>2, <2>3, <2>4
  <1>4. ASSUME NEW sd \in Fd, RemoveSd(sd)
        PROVE  TableShape'
    <2>1. PICK i \in 0 .. top - 1 : entry' = Shifted(i)
      BY <1>4 DEF RemoveSd
    <2>2. count' = count /\ top' = top - 1
      BY <1>4 DEF RemoveSd
    <2>3. UNCHANGED epfd /\ top # 0
      BY <1>4, <2>1 DEF RemoveSd
    <2> QED
      BY <2>1, <2>2, <2>3 DEF Shifted
  <1>5. CASE CleanupSlot
    <2>1. Innermost.i \in 0 .. top - 1
      <3>1. Innermost.i \in Nat
        BY <1>5, InnermostLemma DEF CleanupSlot, InCleanup, In, CleanupFrames
      <3>2. Innermost.i < top
        BY <1>5 DEF CleanupSlot
      <3> QED
        BY <3>1, <3>2
    <2>2. entry' = [entry EXCEPT ![Innermost.i] = NULL]
      BY <1>5 DEF CleanupSlot
    <2> QED
      BY <1>5, <2>1, <2>2 DEF CleanupSlot
  <1>6. CASE CleanupEnd
    BY <1>6 DEF CleanupEnd
  <1>7. ASSUME UNCHANGED <<storage, epfd>>
        PROVE  TableShape'
    BY <1>7
  <1>8. \/ LoopInit \/ AddSdFails \/ CleanupSlot \/ CleanupEnd
        \/ \E sd \in Fd, mask \in Mask : AddSd(sd, mask)
        \/ \E sd \in Fd : RemoveSd(sd)
        \/ UNCHANGED <<storage, epfd>>
    BY DEF Next, UserCode, Return, LoopCode, vars, ModifySd, RemoveTwice, SearchFaults,
           RunStart, Quit, SignalQuit, StartCleanup, RemoveReturns, CleanupReturns,
           CallbackReturns, Dispatch, BatchDone, RunExit, SkipSlot, CleanupFaults,
           Wait, WaitFails, Halted
  <1> QED
    BY <1>1, <1>2, <1>3, <1>4, <1>5, <1>6, <1>7, <1>8

LEMMA TypedTable == Spec => [](TypeOK /\ TableShape)
  <1>1. Init => TypeOK /\ TableShape
    BY TypeInit DEF Init, TableShape
  <1>2. TypeOK /\ TableShape /\ [Next]_vars => (TypeOK /\ TableShape)'
    BY TypeStep, ShapeStep
  <1> QED
    BY <1>1, <1>2, PTL DEF Spec

\* Every variable keeps its type, whatever user code, destructors and the
\* signal handler call, and however deeply.
THEOREM TypeCorrect == Spec => []TypeOK
  BY TypedTable, PTL

\* loop_add_sd never stores past the table: a free slot is always left, for any
\* growth step of at least two.
THEOREM SpareSlot == Spec => []TableShape
  BY TypedTable, PTL
=============================================================================
