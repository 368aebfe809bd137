-------------------------- MODULE LoopWatch_proofs --------------------------
(***************************************************************************)
(* The registrations: what the kernel, the table, the entries and the      *)
(* batch say of a descriptor, through damaged tables too, and the          *)
(* refinement of Registry.                                                 *)
(***************************************************************************)
EXTENDS LoopTable_proofs, FiniteSetTheorems

\* The entry is in the table and nobody is destroying it.
Current(p) == Listed(p) /\ Live(p) /\ ~Destroying(p)

\* Callbacks are called by loop_run only: one of them, under everything else.
StackShape == \A k \in 1 .. Len(stack) : stack[k].fn = "callback" => k = 1

DestroyingLive == \A p \in Ptr : Destroying(p) => Live(p)

-----------------------------------------------------------------------------
(***************************************************************************)
(* What a step does to the registrations.                                  *)
(***************************************************************************)
SameStack == \A q \in Ptr : Destroying(q)' <=> Destroying(q)
SameSlots == top' = top /\ \A q \in Ptr : Listed(q)' <=> Listed(q)

Adds(sd, mask, p) ==
  /\ heap[p] = NULL /\ watch[sd] = NULL
  /\ heap' = [heap EXCEPT ![p] = [sd |-> sd, mask |-> mask]]
  /\ watch' = [watch EXCEPT ![sd] = [ptr |-> p, mask |-> mask]]
  /\ top' = top + 1 /\ \A q \in Ptr : Listed(q)' <=> Listed(q) \/ q = p
  /\ SameStack /\ UNCHANGED dropped

Modifies(sd, mask, p) ==
  /\ Listed(p) /\ Live(p) /\ heap[p].sd = sd /\ (Sound => ~Destroying(p))
  /\ watch[sd] # NULL
  /\ watch' = [watch EXCEPT ![sd] = [ptr |-> p, mask |-> mask]]
  /\ heap' = [heap EXCEPT ![p].mask = mask]
  /\ SameSlots /\ SameStack /\ UNCHANGED dropped

Unregisters(p) ==
  /\ Current(p)
  /\ watch' = [watch EXCEPT ![heap[p].sd] = NULL]
  /\ UNCHANGED heap
  /\ top' = top - 1 \/ CleaningUp'
  /\ \A q \in Ptr : Listed(q)' => Listed(q)
  /\ \A q \in Ptr : Destroying(q)' <=> Destroying(q) \/ p = q
  /\ Drop({heap[p].sd})

Frees(p) ==
  /\ Destroying(p)
  /\ heap' = [heap EXCEPT ![p] = NULL]
  /\ UNCHANGED watch
  /\ \A q \in Ptr : Destroying(q)' <=> Destroying(q) /\ q # p
  /\ SameSlots /\ UNCHANGED dropped

Closes ==
  /\ CleaningUp
  /\ watch' = [fd \in Fd |-> NULL] /\ top' = 0 /\ \A q \in Ptr : ~Listed(q)'
  /\ UNCHANGED heap
  /\ SameStack /\ Drop(Watched)

Keeps == UNCHANGED <<heap, watch>> /\ SameSlots /\ SameStack

Effect ==
  \/ \E sd \in Fd, mask \in Mask, p \in Ptr : Adds(sd, mask, p) \/ Modifies(sd, mask, p)
  \/ \E p \in Ptr : Unregisters(p) \/ Frees(p)
  \/ Closes
  \/ Keeps

\* User code of a program whose destructors are silent runs in a callback, or
\* outside loop_run: no destructor is pending.
LEMMA SilentCalls ==
  ASSUME TypeOK, StackShape, DestructorCalls = {}, NEW op, Calls(op), NEW p \in Ptr
  PROVE  ~Destroying(p)
  <1>1. CASE stack = <<>>
    BY <1>1, EmptySeq DEF Destroying
  <1>2. CASE stack # <<>>
    <2>1. stack \in Seq(Frame) /\ Innermost.fn = "callback"
      BY <1>2 DEF Calls, Main, In, TypeOK
    <2>2. Innermost \in CallbackFrames /\ Len(stack) \in Nat /\ Len(stack) > 0
      BY <1>2, <2>1, InnermostLemma
    <2>3. Len(stack) = 1
      <3>1. Len(stack) \in 1 .. Len(stack) /\ stack[Len(stack)].fn = "callback"
        BY <2>1, <2>2 DEF Innermost
      <3> QED
        BY <3>1 DEF StackShape
    <2>4. stack[1].ptr = NULL
      BY <2>2, <2>3 DEF Innermost, CallbackFrames
    <2> QED
      BY <2>3, <2>4, NullAssumption DEF Destroying
  <1> QED
    BY <1>1, <1>2

\* An entry the search finds is being destroyed only when a destructor that
\* calls the loop finds it in a damaged table.
LEMMA FoundIsCurrent ==
  ASSUME IInv, StackShape, Sound, NEW op, Calls(op), NEW p \in Ptr, Listed(p)
  PROVE  ~Destroying(p)
  <1>1. CASE ~holed
    BY <1>1, IntactLemma DEF IInv, Intact
  <1>2. CASE DestructorCalls = {}
    BY <1>2, SilentCalls DEF IInv
  <1> QED
    BY <1>1, <1>2 DEF Sound

LEMMA SameStackLemma ==
  ASSUME OneDestroyer, UNCHANGED stack
  PROVE  OneDestroyer' /\ SameStack
  BY DEF OneDestroyer, SameStack, Destroying

LEMMA CallLemma ==
  ASSUME TypeOK, OneDestroyer, NEW g \in Frame, g.ptr = NULL, Push(g)
  PROVE  OneDestroyer' /\ SameStack
  BY DestroyingPush, NullAssumption DEF SameStack

LEMMA Effects ==
  ASSUME IInv, StackShape, OneDestroyer, [Next]_vars
  PROVE  OneDestroyer' /\ Effect
  <1>0. /\ TypeOK /\ TableShape /\ top \in Nat
        /\ stack \in Seq(Frame) /\ \A q \in Ptr : q # NULL
    BY NullAssumption DEF IInv, TypeOK
  <1>1. CASE LoopInit
    <2>1. top = 0 /\ UNCHANGED <<top, heap, watch, stack>>
      BY <1>0, <1>1 DEF LoopInit, TableShape
    <2>2. SameSlots
      BY <2>1 DEF SameSlots, Listed
    <2>3. OneDestroyer' /\ Keeps
      BY <2>1, <2>2, SameStackLemma DEF Keeps
    <2> QED
      BY <2>3 DEF Effect
  <1>2. ASSUME NEW sd \in Fd, NEW mask \in Mask, AddSd(sd, mask)
        PROVE  OneDestroyer' /\ Effect
    <2>1. PICK p \in Ptr : /\ heap[p] = NULL
                            /\ heap' = [heap EXCEPT ![p] = [sd |-> sd, mask |-> mask]]
                            /\ watch' = [watch EXCEPT ![sd] = [ptr |-> p, mask |-> mask]]
                            /\ entry' = [Grown EXCEPT ![top] = p]
      BY <1>2 DEF AddSd
    <2>2. top' = top + 1 /\ UNCHANGED <<stack, dropped>> /\ watch[sd] = NULL
      BY <1>2 DEF AddSd, history
    <2>3. entry'[top] = p /\ \A i \in 0 .. top - 1 : entry'[i] = entry[i]
      BY <1>0, <2>1, GrownSlots, GrownLemma
    <2>4. \A q \in Ptr : Listed(q)' <=> Listed(q) \/ q = p
      BY <1>0, <2>2, <2>3 DEF Listed
    <2>5. OneDestroyer' /\ SameStack
      BY <2>2, SameStackLemma
    <2>6. Adds(sd, mask, p)
      BY <2>1, <2>2, <2>4, <2>5 DEF Adds
    <2> QED
      BY <2>5, <2>6 DEF Effect
  <1>3. CASE AddSdFails
    <2>1. top' = top /\ entry' = Grown /\ UNCHANGED <<heap, watch, stack>>
      BY <1>3 DEF AddSdFails, kernel
    <2>2. SameSlots
      BY <1>0, <2>1, GrownSlots DEF SameSlots, Listed
    <2>3. OneDestroyer' /\ Keeps
      BY <2>1, <2>2, SameStackLemma DEF Keeps
    <2> QED
      BY <2>3 DEF Effect
  <1>4. ASSUME NEW sd \in Fd, NEW mask \in Mask, ModifySd(sd, mask)
        PROVE  OneDestroyer' /\ Effect
    <2>1. PICK i \in 0 .. top - 1 :
            /\ Found(sd, i)
            /\ watch' = [watch EXCEPT ![sd] = [ptr |-> entry[i], mask |-> mask]]
            /\ heap' = [heap EXCEPT ![entry[i]].mask = mask]
      BY <1>4 DEF ModifySd
    <2>2. PICK p : p = entry[i]
      OBVIOUS
    <2>3. /\ UNCHANGED <<storage, stack, dropped>> /\ watch[sd] # NULL
          /\ Calls("modify")
      BY <1>4 DEF ModifySd, history
    <2>4. p \in Ptr /\ Listed(p) /\ Live(p) /\ heap[p].sd = sd
      BY <1>0, <2>1, <2>2, SlotLemma DEF Found, Live, Listed
    <2>5. Sound => ~Destroying(p)
      BY <2>3, <2>4, FoundIsCurrent
    <2>6. SameSlots
      BY <2>3 DEF SameSlots, Listed, storage
    <2>7. OneDestroyer' /\ SameStack
      BY <2>3, SameStackLemma
    <2>8. Modifies(sd, mask, p)
      BY <2>1, <2>2, <2>3, <2>4, <2>5, <2>6, <2>7 DEF Modifies
    <2> QED
      BY <2>4, <2>7, <2>8 DEF Effect
  <1>5. ASSUME NEW sd \in Fd, RemoveSd(sd)
        PROVE  OneDestroyer' /\ Effect
    <2>1. PICK i \in 0 .. top - 1 :
            /\ Found(sd, i) /\ ~Destroying(entry[i])
            /\ entry' = Shifted(i)
            /\ Push(RemoveFrame(entry[i]))
      BY <1>5 DEF RemoveSd
    <2>2. PICK p : p = entry[i]
      OBVIOUS
    <2>3. p \in Ptr /\ Current(p) /\ heap[p].sd = sd
      BY <1>0, <2>1, <2>2, SlotLemma DEF Found, Live, Listed, Current
    <2>4. PICK g \in Frame : g.ptr = p /\ Push(g)
      BY <2>1, <2>2, <2>3, NewFrames DEF RemoveFrame
    <2>5. OneDestroyer' /\ \A q \in Ptr : Destroying(q)' <=> Destroying(q) \/ p = q
      BY <1>0, <2>3, <2>4, DestroyingPush DEF Current
    <2>6. top' = top - 1 /\ watch' = [watch EXCEPT ![heap[p].sd] = NULL] /\ UNCHANGED heap
      BY <1>5, <2>3 DEF RemoveSd
    <2>7. Drop({heap[p].sd})
      BY <1>5, <2>3 DEF RemoveSd
    <2>8. ASSUME NEW q \in Ptr, Listed(q)'
          PROVE  Listed(q)
      <3>1. PICK k \in 0 .. top - 2 : entry'[k] = q
        BY <1>0, <2>6, <2>8 DEF Listed
      <3> QED
        BY <1>0, <2>1, <3>1, ShiftedSlots DEF Listed
    <2>9. Unregisters(p)
      BY <2>3, <2>5, <2>6, <2>7, <2>8 DEF Unregisters
    <2> QED
      BY <2>3, <2>5, <2>9 DEF Effect
  <1>6. CASE RemoveReturns
    <2>1. stack # <<>> /\ Pop
      BY <1>6 DEF RemoveReturns, In
    <2>2. PICK p \in Ptr : p = Innermost.ptr
      BY <1>0, <1>6, InnermostLemma DEF RemoveReturns, In, RemoveFrames
    <2>3. Destroying(p)
      BY <1>0, <2>1, <2>2, InnermostLemma DEF Destroying, Innermost
    <2>4. heap' = [heap EXCEPT ![p] = NULL] /\ UNCHANGED <<storage, watch, dropped>>
      BY <1>6, <2>2 DEF RemoveReturns, kernel, history
    <2>5. OneDestroyer' /\ \A q \in Ptr : Destroying(q)' <=> Destroying(q) /\ q # p
      BY <1>0, <2>1, <2>2, DestroyingPop
    <2>6. SameSlots
      BY <2>4 DEF SameSlots, Listed, storage
    <2>7. Frees(p)
      BY <2>3, <2>4, <2>5, <2>6 DEF Frees
    <2> QED
      BY <2>5, <2>7 DEF Effect
  <1>7. CASE CallbackReturns
    <2>1. stack # <<>> /\ Pop /\ Innermost.ptr = NULL
      BY <1>0, <1>7, InnermostLemma DEF CallbackReturns, In, CallbackFrames
    <2>2. OneDestroyer' /\ SameStack
      BY <1>0, <2>1, DestroyingPop DEF SameStack
    <2>3. UNCHANGED <<storage, heap, watch>>
      BY <1>7 DEF CallbackReturns, kernel
    <2>4. Keeps
      BY <2>2, <2>3 DEF Keeps, SameSlots, Listed, storage
    <2> QED
      BY <2>2, <2>4 DEF Effect
  <1>8. CASE CleanupReturns
    <2>1. stack # <<>> /\ Innermost \in CleanupFrames /\ Innermost.ptr # NULL
      BY <1>0, <1>8, InnermostLemma DEF CleanupReturns, In
    <2>2. PICK p \in Ptr : p = Innermost.ptr
      BY <2>1, CleanupFrameLemma
    <2>3. Destroying(p)
      BY <1>0, <2>1, <2>2, InnermostLemma DEF Destroying, Innermost
    <2>4. PICK g \in Frame : g.ptr = NULL /\ Amend(g)
      BY <1>8, <2>1, CleanupFrameLemma DEF CleanupReturns
    <2>5. heap' = [heap EXCEPT ![p] = NULL] /\ UNCHANGED <<storage, watch, dropped>>
      BY <1>8, <2>2 DEF CleanupReturns, kernel, history
    <2>6. OneDestroyer' /\ \A q \in Ptr : Destroying(q)' <=> Destroying(q) /\ q # p
      BY <1>0, <2>1, <2>2, <2>4, DestroyingAmend
    <2>7. SameSlots
      BY <2>5 DEF SameSlots, Listed, storage
    <2>8. Frees(p)
      BY <2>3, <2>5, <2>6, <2>7 DEF Frees
    <2> QED
      BY <2>6, <2>8 DEF Effect
  <1>9. CASE SkipSlot
    <2>1. stack # <<>> /\ Innermost \in CleanupFrames /\ Innermost.ptr = NULL
      BY <1>0, <1>9, InnermostLemma DEF SkipSlot, InCleanup, In
    <2>2. PICK g \in Frame : g.ptr = NULL /\ Amend(g)
      BY <1>9, <2>1, CleanupFrameLemma DEF SkipSlot
    <2>3. OneDestroyer' /\ SameStack
      BY <1>0, <2>1, <2>2, DestroyingAmend DEF SameStack
    <2>4. UNCHANGED <<storage, heap, watch>>
      BY <1>9 DEF SkipSlot, kernel
    <2>5. Keeps
      BY <2>3, <2>4 DEF Keeps, SameSlots, Listed, storage
    <2> QED
      BY <2>3, <2>5 DEF Effect
  <1>10. CASE CleanupSlot
    <2>1. /\ stack # <<>> /\ Innermost \in CleanupFrames /\ Innermost.ptr = NULL
          /\ Innermost.fn = "cleanup"
      BY <1>0, <1>10, InnermostLemma DEF CleanupSlot, InCleanup, In
    <2>2. PICK i \in 0 .. top - 1 : i = Innermost.i
      BY <1>0, <1>10, <2>1 DEF CleanupFrames, CleanupSlot
    <2>3. PICK p : /\ p = entry[i] /\ Live(p) /\ ~Destroying(p)
                   /\ entry' = [entry EXCEPT ![i] = NULL]
                   /\ watch' = [watch EXCEPT ![heap[p].sd] = NULL]
                   /\ Drop({heap[p].sd})
                   /\ Amend([Innermost EXCEPT !.ptr = p])
      BY <1>10, <2>2 DEF CleanupSlot
    <2>4. p \in Ptr /\ Current(p)
      BY <1>0, <2>3, SlotLemma DEF Live, Current, Listed
    <2>5. PICK g \in Frame : g.ptr = p /\ g.fn = Innermost.fn /\ Amend(g)
      <3>1. Innermost \in CleanupFrames /\ p \in Ptr
        BY <2>1, <2>4
      <3>2. PICK g \in Frame : g = [Innermost EXCEPT !.ptr = p] /\ g.ptr = p /\ g.fn = Innermost.fn
        BY <3>1, DestructorFrame
      <3>3. Amend(g)
        BY <2>3, <3>2
      <3> QED
        BY <3>2, <3>3
    <2>6. OneDestroyer' /\ \A q \in Ptr : Destroying(q)' <=> Destroying(q) \/ p = q
      BY <1>0, <2>1, <2>4, <2>5, DestroyingAmend DEF Current
    <2>7. CleaningUp'
      <3>1. CleaningUp
        BY <1>0, <2>1, InnermostLemma DEF CleaningUp, Innermost
      <3> QED
        BY <1>0, <2>1, <2>5, <3>1, CleaningUpStays
    <2>8. UNCHANGED <<top, heap>>
      BY <1>10 DEF CleanupSlot
    <2>9. ASSUME NEW q \in Ptr, Listed(q)'
          PROVE  Listed(q)
      <3>1. PICK k \in 0 .. top - 1 : entry'[k] = q
        BY <2>8, <2>9 DEF Listed
      <3> QED
        BY <1>0, <2>3, <3>1, SlotLemma DEF Listed
    <2>10. Unregisters(p)
      BY <2>3, <2>4, <2>6, <2>7, <2>8, <2>9 DEF Unregisters
    <2> QED
      BY <2>4, <2>6, <2>10 DEF Effect
  <1>11. CASE CleanupEnd
    <2>1. stack # <<>> /\ Innermost.ptr = NULL /\ Pop
      BY <1>11 DEF CleanupEnd, InCleanup, In
    <2>2. OneDestroyer' /\ SameStack
      BY <1>0, <2>1, DestroyingPop DEF SameStack
    <2>3. /\ watch' = [fd \in Fd |-> NULL] /\ top' = 0 /\ UNCHANGED heap
          /\ Drop(Watched)
      BY <1>11 DEF CleanupEnd
    <2>4. CleaningUp
      BY <1>0, <1>11, InnermostLemma DEF CleanupEnd, InCleanup, In, CleaningUp, Innermost
    <2>5. Closes
      BY <2>2, <2>3, <2>4 DEF Closes, Listed
    <2> QED
      BY <2>2, <2>5 DEF Effect
  <1>12. CASE Call
    <2>1. PICK g \in Frame : g.ptr = NULL /\ Push(g)
      BY <1>12 DEF Call
    <2>2. OneDestroyer' /\ SameStack
      BY <1>0, <2>1, CallLemma
    <2>3. Keeps
      BY <1>12, <2>2 DEF Call, Keeps, SameSlots, Listed, state, storage, kernel
    <2> QED
      BY <2>2, <2>3 DEF Effect
  <1>13. CASE UNCHANGED <<state, stack>>
    <2>1. OneDestroyer' /\ SameStack
      BY <1>13, SameStackLemma
    <2>2. Keeps
      BY <1>13, <2>1 DEF Keeps, SameSlots, Listed, state, storage, kernel
    <2> QED
      BY <2>1, <2>2 DEF Effect
  <1> QED
    BY <1>0, <1>1, <1>2, <1>3, <1>4, <1>5, <1>6, <1>7, <1>8, <1>9, <1>10, <1>11, <1>12,
       <1>13, StepCases

-----------------------------------------------------------------------------
(***************************************************************************)
(* What each effect says, entry by entry and descriptor by descriptor.     *)
(***************************************************************************)
LEMMA LiveFacts ==
  ASSUME TypeOK, NEW p \in Ptr, Live(p)
  PROVE  heap[p] \in Entry /\ heap[p].sd \in Fd /\ heap[p].mask \in Mask
  BY DEF TypeOK, Live, Entry

Added(sd, mask, p) ==
  /\ ~Live(p) /\ ~Destroying(p) /\ sd \notin Watched
  /\ heap'[p] = [sd |-> sd, mask |-> mask]
  /\ \A q \in Ptr : q # p => heap'[q] = heap[q]
  /\ heap'[p].sd = sd /\ watch'[sd].ptr = p /\ watch'[sd].mask = mask
  /\ watch'[sd] # NULL
  /\ \A fd \in Fd : fd # sd => watch'[fd] = watch[fd]
  /\ \A q \in Ptr : Live(q)' <=> Live(q) \/ q = p
  /\ \A q \in Ptr : Current(q)' => Current(q) \/ q = p

LEMMA AddsFacts ==
  ASSUME TypeOK, DestroyingLive, NEW sd \in Fd, NEW mask \in Mask, NEW p \in Ptr,
         Adds(sd, mask, p)
  PROVE  Added(sd, mask, p)
  <1>1. ~Live(p) /\ ~Destroying(p) /\ sd \notin Watched
    BY DEF Adds, Live, DestroyingLive, Watched
  <1>2. /\ heap'[p] = [sd |-> sd, mask |-> mask]
        /\ \A q \in Ptr : q # p => heap'[q] = heap[q]
    BY DEF Adds, TypeOK
  <1>3. /\ watch'[sd] = [ptr |-> p, mask |-> mask]
        /\ \A fd \in Fd : fd # sd => watch'[fd] = watch[fd]
    BY DEF Adds, TypeOK
  <1>4. [ptr |-> p, mask |-> mask] # NULL /\ [sd |-> sd, mask |-> mask] # NULL
    BY NullAssumption DEF Entry, Interest
  <1>5. \A q \in Ptr : Live(q)' <=> Live(q) \/ q = p
    BY <1>2, <1>4, NullAssumption DEF Live
  <1>6. \A q \in Ptr : Current(q)' => Current(q) \/ q = p
    BY <1>5 DEF Current, Adds, SameStack
  <1>7. heap'[p].sd = sd /\ watch'[sd].ptr = p /\ watch'[sd].mask = mask /\ watch'[sd] # NULL
    BY <1>2, <1>3, <1>4
  <1> QED
    BY <1>1, <1>2, <1>3, <1>5, <1>6, <1>7 DEF Added

LEMMA ModifiesFacts ==
  ASSUME TypeOK, NEW sd \in Fd, NEW mask \in Mask, NEW p \in Ptr, Modifies(sd, mask, p)
  PROVE  /\ heap'[p] = [sd |-> sd, mask |-> mask]
         /\ \A q \in Ptr : q # p => heap'[q] = heap[q]
         /\ \A q \in Ptr : Live(q) => heap'[q].sd = heap[q].sd
         /\ heap'[p].sd = sd /\ watch'[sd].ptr = p /\ watch'[sd].mask = mask
         /\ watch'[sd] # NULL
         /\ \A fd \in Fd : fd # sd => watch'[fd] = watch[fd]
         /\ Watched' = Watched
         /\ \A q \in Ptr : (Live(q)' <=> Live(q)) /\ (Current(q)' <=> Current(q))
  <1>1. heap[p] \in Entry /\ heap[p].sd = sd /\ watch[sd] # NULL
    BY LiveFacts DEF Modifies
  <1>2. /\ heap'[p] = [sd |-> sd, mask |-> mask]
        /\ \A q \in Ptr : q # p => heap'[q] = heap[q]
    <2>1. heap'[p] = [heap[p] EXCEPT !.mask = mask]
      BY DEF Modifies, TypeOK
    <2>2. heap'[p] = [sd |-> sd, mask |-> mask]
      BY <1>1, <2>1 DEF Entry
    <2>3. \A q \in Ptr : q # p => heap'[q] = heap[q]
      BY DEF Modifies, TypeOK
    <2> QED
      BY <2>2, <2>3
  <1>3. /\ watch'[sd] = [ptr |-> p, mask |-> mask]
        /\ \A fd \in Fd : fd # sd => watch'[fd] = watch[fd]
    BY DEF Modifies, TypeOK
  <1>4. [ptr |-> p, mask |-> mask] # NULL /\ [sd |-> sd, mask |-> mask] # NULL
    BY NullAssumption DEF Entry, Interest
  <1>5. Watched' = Watched
    BY <1>1, <1>3, <1>4 DEF Watched
  <1>6. \A q \in Ptr : Live(q)' <=> Live(q)
    BY <1>2, <1>4, NullAssumption DEF Live, Modifies
  <1>7. \A q \in Ptr : Current(q)' <=> Current(q)
    BY <1>6 DEF Current, Modifies, SameStack, SameSlots
  <1> QED
    BY <1>1, <1>2, <1>3, <1>4, <1>5, <1>6, <1>7

LEMMA UnregistersFacts ==
  ASSUME TypeOK, NEW p \in Ptr, Unregisters(p)
  PROVE  /\ heap[p] \in Entry /\ heap[p].sd \in Fd
         /\ watch'[heap[p].sd] = NULL
         /\ \A fd \in Fd : fd # heap[p].sd => watch'[fd] = watch[fd]
         /\ Watched' = Watched \ {heap[p].sd}
         /\ \A q \in Ptr : Live(q)' <=> Live(q)
         /\ \A q \in Ptr : Current(q)' => Current(q) /\ q # p
  <1>1. heap[p] \in Entry /\ heap[p].sd \in Fd
    BY LiveFacts DEF Unregisters, Current
  <1>2. /\ watch'[heap[p].sd] = NULL
        /\ \A fd \in Fd : fd # heap[p].sd => watch'[fd] = watch[fd]
    BY <1>1 DEF Unregisters, TypeOK
  <1>3. Watched' = Watched \ {heap[p].sd}
    BY <1>1, <1>2 DEF Watched
  <1>4. \A q \in Ptr : Live(q)' <=> Live(q)
    BY DEF Unregisters, Live
  <1>5. \A q \in Ptr : Current(q)' => Current(q) /\ q # p
    BY <1>4 DEF Unregisters, Current
  <1> QED
    BY <1>1, <1>2, <1>3, <1>4, <1>5

LEMMA FreesFacts ==
  ASSUME TypeOK, NEW p \in Ptr, Frees(p)
  PROVE  /\ \A q \in Ptr : q # p => heap'[q] = heap[q]
         /\ UNCHANGED watch /\ Watched' = Watched
         /\ \A q \in Ptr : Live(q)' <=> Live(q) /\ q # p
         /\ \A q \in Ptr : Current(q)' => Current(q) /\ q # p
  <1>1. heap'[p] = NULL /\ \A q \in Ptr : q # p => heap'[q] = heap[q]
    BY DEF Frees, TypeOK
  <1>2. UNCHANGED watch /\ Watched' = Watched
    BY DEF Frees, Watched
  <1>3. \A q \in Ptr : Live(q)' <=> Live(q) /\ q # p
    BY <1>1 DEF Live
  <1>4. \A q \in Ptr : Current(q)' => Current(q) /\ q # p
    BY <1>3 DEF Frees, Current, SameSlots
  <1> QED
    BY <1>1, <1>2, <1>3, <1>4

LEMMA KeepsFacts ==
  ASSUME Keeps
  PROVE  /\ UNCHANGED <<heap, watch>> /\ Watched' = Watched
         /\ \A q \in Ptr : (Live(q)' <=> Live(q)) /\ (Current(q)' <=> Current(q))
  <1>1. UNCHANGED <<heap, watch>> /\ Watched' = Watched /\ \A q : Live(q)' <=> Live(q)
    BY DEF Keeps, Watched, Live
  <1> QED
    BY <1>1 DEF Keeps, Current, SameSlots, SameStack

-----------------------------------------------------------------------------
(***************************************************************************)
(* The invariant.                                                          *)
(***************************************************************************)
\* What the table still lists is registered, and no two entries of it are for
\* one descriptor, damaged or not.
SlotsWatched == \A p \in Ptr : Current(p) => heap[p].sd \in Watched
SlotsBySd == \A p, q \in Ptr : Current(p) /\ Current(q) /\ heap[p].sd = heap[q].sd => p = q

\* A registered descriptor's entry is its own and nobody is destroying it.
Owned ==
  \A fd \in Watched :
    LET p == watch[fd].ptr
    IN Live(p) /\ ~Destroying(p) /\ heap[p] = [sd |-> fd, mask |-> watch[fd].mask]

\* What the table still lists is what the kernel would report.
Tracked == \A p \in Ptr : Current(p) => watch[heap[p].sd].ptr = p

RegInv ==
  /\ IInv /\ StackShape /\ OneDestroyer /\ DestroyingLive
  /\ SlotsWatched /\ SlotsBySd
  /\ Sound => Owned /\ Tracked

LEMMA DestroyingLiveStep ==
  ASSUME TypeOK, DestroyingLive, Effect
  PROVE  DestroyingLive'
  <1>1. ASSUME NEW sd \in Fd, NEW mask \in Mask, NEW p \in Ptr, Adds(sd, mask, p)
        PROVE  DestroyingLive'
    BY <1>1, AddsFacts DEF DestroyingLive, Adds, SameStack, Added
  <1>2. ASSUME NEW sd \in Fd, NEW mask \in Mask, NEW p \in Ptr, Modifies(sd, mask, p)
        PROVE  DestroyingLive'
    BY <1>2, ModifiesFacts DEF DestroyingLive, Modifies, SameStack
  <1>3. ASSUME NEW p \in Ptr, Unregisters(p)
        PROVE  DestroyingLive'
    BY <1>3, UnregistersFacts DEF DestroyingLive, Unregisters, Current
  <1>4. ASSUME NEW p \in Ptr, Frees(p)
        PROVE  DestroyingLive'
    BY <1>4, FreesFacts DEF DestroyingLive, Frees
  <1>5. CASE Closes
    BY <1>5 DEF DestroyingLive, Closes, SameStack, Live
  <1>6. CASE Keeps
    BY <1>6, KeepsFacts DEF DestroyingLive, Keeps, SameStack
  <1> QED
    BY <1>1, <1>2, <1>3, <1>4, <1>5, <1>6 DEF Effect

LEMMA SlotsWatchedStep ==
  ASSUME TypeOK, DestroyingLive, SlotsWatched, SlotsBySd, Effect
  PROVE  SlotsWatched' /\ SlotsBySd'
  <1>0. \A q \in Ptr : Current(q) => Live(q) /\ heap[q].sd \in Watched /\ heap[q].sd \in Fd
    BY LiveFacts DEF Current, SlotsWatched
  <1>1. ASSUME NEW sd \in Fd, NEW mask \in Mask, NEW p \in Ptr, Adds(sd, mask, p)
        PROVE  SlotsWatched' /\ SlotsBySd'
    <2>a. Added(sd, mask, p)
      BY <1>1, AddsFacts
    <2>0. ~Live(p) /\ sd \notin Watched
      BY <2>a DEF Added
    <2>1. \A q \in Ptr : Current(q) => q # p /\ heap[q].sd # sd
      BY <1>0, <2>0
    <2>2. \A q \in Ptr : Current(q)' =>
             \/ q = p /\ heap'[q].sd = sd
             \/ Current(q) /\ heap'[q].sd = heap[q].sd /\ q # p
      BY <2>1, <2>a DEF Added
    <2>3. sd \in Watched' /\ Watched \subseteq Watched'
      BY <1>1, <2>a DEF Added, Watched
    <2>4. SlotsWatched'
      BY <1>0, <2>2, <2>3 DEF SlotsWatched
    <2>5. SlotsBySd'
      BY <2>1, <2>2 DEF SlotsBySd
    <2> QED
      BY <2>4, <2>5
  <1>2. ASSUME NEW sd \in Fd, NEW mask \in Mask, NEW p \in Ptr, Modifies(sd, mask, p)
        PROVE  SlotsWatched' /\ SlotsBySd'
    <2>1. \A q \in Ptr : Current(q)' <=> Current(q)
      BY <1>2, ModifiesFacts
    <2>2. \A q \in Ptr : Live(q) => heap'[q].sd = heap[q].sd
      BY <1>2, ModifiesFacts
    <2>3. Watched' = Watched
      BY <1>2, ModifiesFacts
    <2> QED
      BY <1>0, <2>1, <2>2, <2>3 DEF SlotsWatched, SlotsBySd
  <1>3. ASSUME NEW p \in Ptr, Unregisters(p)
        PROVE  SlotsWatched' /\ SlotsBySd'
    <2>1. Current(p) /\ UNCHANGED heap
      BY <1>3 DEF Unregisters
    <2>2. \A q \in Ptr : Current(q)' => Current(q) /\ q # p
      BY <1>3, UnregistersFacts
    <2>3. \A q \in Ptr : Current(q)' => heap[q].sd # heap[p].sd
      BY <2>1, <2>2 DEF SlotsBySd
    <2>4. Watched' = Watched \ {heap[p].sd}
      BY <1>3, UnregistersFacts
    <2> QED
      BY <2>1, <2>2, <2>3, <2>4 DEF SlotsWatched, SlotsBySd
  <1>4. ASSUME NEW p \in Ptr, Frees(p)
        PROVE  SlotsWatched' /\ SlotsBySd'
    <2>1. \A q \in Ptr : Current(q)' => Current(q) /\ heap'[q] = heap[q]
      BY <1>4, FreesFacts
    <2> QED
      BY <1>4, <2>1, FreesFacts DEF SlotsWatched, SlotsBySd
  <1>5. CASE Closes
    <2>1. \A q \in Ptr : ~Current(q)'
      BY <1>5 DEF Closes, Current
    <2> QED
      BY <2>1 DEF SlotsWatched, SlotsBySd
  <1>6. CASE Keeps
    BY <1>6, KeepsFacts DEF SlotsWatched, SlotsBySd
  <1> QED
    BY <1>1, <1>2, <1>3, <1>4, <1>5, <1>6 DEF Effect

LEMMA OwnedStep ==
  ASSUME TypeOK, DestroyingLive, SlotsWatched, Owned, Tracked, Sound, Effect
  PROVE  Owned' /\ Tracked'
  <1>0. \A q \in Ptr : Current(q) =>
          Live(q) /\ heap[q].sd \in Watched /\ heap[q].sd \in Fd /\ watch[heap[q].sd].ptr = q
    BY LiveFacts DEF Current, SlotsWatched, Tracked
  <1>00. \A fd \in Watched :
           /\ fd \in Fd /\ watch[fd].ptr \in Ptr
           /\ Live(watch[fd].ptr) /\ ~Destroying(watch[fd].ptr)
           /\ heap[watch[fd].ptr] = [sd |-> fd, mask |-> watch[fd].mask]
           /\ heap[watch[fd].ptr].sd = fd
    <2>1. \A fd \in Watched : fd \in Fd /\ watch[fd] \in Interest
      BY DEF TypeOK, Watched
    <2>2. \A fd \in Watched : watch[fd].ptr \in Ptr
      BY <2>1 DEF Interest
    <2> QED
      BY <2>1, <2>2 DEF Owned
  <1>1. ASSUME NEW sd \in Fd, NEW mask \in Mask, NEW p \in Ptr, Adds(sd, mask, p)
        PROVE  Owned' /\ Tracked'
    <2>0. Added(sd, mask, p)
      BY <1>1, AddsFacts
    <2>a. /\ heap'[p] = [sd |-> sd, mask |-> mask] /\ heap'[p].sd = sd
          /\ watch'[sd].ptr = p /\ watch'[sd].mask = mask
      BY <2>0 DEF Added
    <2>b. /\ \A q \in Ptr : q # p => heap'[q] = heap[q]
          /\ \A fd \in Fd : fd # sd => watch'[fd] = watch[fd]
      BY <2>0 DEF Added
    <2>c. \A q \in Ptr : Current(q)' => Current(q) \/ q = p
      BY <2>0 DEF Added
    <2>1. SameStack /\ ~Destroying(p) /\ ~Live(p) /\ sd \notin Watched
      BY <1>1, <2>0 DEF Adds, Added
    <2>2. \A q \in Ptr : (Destroying(q)' <=> Destroying(q)) /\ (Live(q)' <=> Live(q) \/ q = p)
      BY <1>1, <2>0 DEF Adds, SameStack, Added
    <2>3. ASSUME NEW fd \in Fd, watch'[fd] # NULL, NEW q, q = watch'[fd].ptr
          PROVE  Live(q)' /\ ~Destroying(q)' /\ heap'[q] = [sd |-> fd, mask |-> watch'[fd].mask]
      <3>1. CASE fd = sd
        <4>1. q = p /\ watch'[fd].mask = mask
          BY <2>3, <3>1, <2>a
        <4> QED
          BY <2>1, <2>2, <3>1, <4>1, <2>a
      <3>2. CASE fd # sd
        <4>1. fd \in Watched /\ watch'[fd] = watch[fd]
          BY <2>3, <3>2, <2>b DEF Watched
        <4>2. q \in Ptr /\ Live(q) /\ ~Destroying(q) /\ q # p
              /\ heap[q] = [sd |-> fd, mask |-> watch[fd].mask]
          BY <1>00, <2>1, <2>3, <4>1
        <4> QED
          BY <2>2, <4>1, <4>2, <2>b
      <3> QED
        BY <3>1, <3>2
    <2>4. Owned'
      BY <2>3 DEF Owned, Watched
    <2>5. ASSUME NEW q \in Ptr, Current(q)'
          PROVE  watch'[heap'[q].sd].ptr = q
      <3>1. CASE q = p
        BY <3>1, <2>a
      <3>2. CASE q # p
        <4>1. Current(q) /\ heap'[q] = heap[q] /\ heap[q].sd # sd
          BY <1>0, <2>1, <2>5, <3>2, <2>b, <2>c
        <4> QED
          BY <1>0, <4>1, <2>b
      <3> QED
        BY <3>1, <3>2
    <2> QED
      BY <2>4, <2>5 DEF Tracked
  <1>2. ASSUME NEW sd \in Fd, NEW mask \in Mask, NEW p \in Ptr, Modifies(sd, mask, p)
        PROVE  Owned' /\ Tracked'
    <2>a. /\ heap'[p] = [sd |-> sd, mask |-> mask] /\ heap'[p].sd = sd
          /\ watch'[sd].ptr = p /\ watch'[sd].mask = mask
      BY <1>2, ModifiesFacts
    <2>b. \A q \in Ptr : q # p => heap'[q] = heap[q]
      BY <1>2 DEF Modifies, TypeOK
    <2>d. \A fd \in Fd : fd # sd => watch'[fd] = watch[fd]
      BY <1>2, ModifiesFacts
    <2>c. /\ \A q \in Ptr : Live(q) => heap'[q].sd = heap[q].sd
          /\ \A q \in Ptr : Current(q)' => Current(q)
      BY <1>2, ModifiesFacts
    <2>1. Current(p) /\ heap[p].sd = sd /\ watch[sd].ptr = p /\ sd \in Watched
      BY <1>0, <1>2 DEF Modifies, Current
    <2>2. \A q \in Ptr : (Destroying(q)' <=> Destroying(q)) /\ (Live(q)' <=> Live(q))
      BY <1>2, ModifiesFacts DEF Modifies, SameStack
    <2>3. ASSUME NEW fd \in Fd, watch'[fd] # NULL, NEW q, q = watch'[fd].ptr
          PROVE  Live(q)' /\ ~Destroying(q)' /\ heap'[q] = [sd |-> fd, mask |-> watch'[fd].mask]
      <3>1. CASE fd = sd
        <4>1. q = p /\ watch'[fd].mask = mask
          BY <2>3, <3>1, <2>a
        <4> QED
          BY <2>1, <2>2, <3>1, <4>1, <2>a DEF Current
      <3>2. CASE fd # sd
        <4>1. fd \in Watched /\ watch'[fd] = watch[fd]
          BY <2>3, <3>2, <2>d DEF Watched
        <4>2. q \in Ptr /\ Live(q) /\ ~Destroying(q) /\ heap[q].sd = fd
              /\ heap[q] = [sd |-> fd, mask |-> watch[fd].mask]
          BY <1>00, <2>3, <4>1
        <4>3. q # p
          BY <2>1, <3>2, <4>2
        <4> QED
          BY <2>2, <4>1, <4>2, <4>3, <2>b
      <3> QED
        BY <3>1, <3>2
    <2>4. Owned'
      BY <2>3 DEF Owned, Watched
    <2>5. ASSUME NEW q \in Ptr, Current(q)'
          PROVE  watch'[heap'[q].sd].ptr = q
      <3>1. Current(q) /\ heap'[q].sd = heap[q].sd /\ watch[heap[q].sd].ptr = q /\ heap[q].sd \in Fd
        BY <1>0, <2>5, <2>c
      <3> QED
        BY <2>1, <3>1, <2>a, <2>d
    <2> QED
      BY <2>4, <2>5 DEF Tracked
  <1>3. ASSUME NEW p \in Ptr, Unregisters(p)
        PROVE  Owned' /\ Tracked'
    <2>1. Current(p) /\ UNCHANGED heap /\ watch[heap[p].sd].ptr = p /\ heap[p].sd \in Fd
      BY <1>0, <1>3 DEF Unregisters
    <2>2. \A q \in Ptr : (Destroying(q)' <=> Destroying(q) \/ p = q) /\ (Live(q)' <=> Live(q))
      BY <1>3, UnregistersFacts DEF Unregisters
    <2>3. ASSUME NEW fd \in Fd, watch'[fd] # NULL, NEW q, q = watch'[fd].ptr
          PROVE  Live(q)' /\ ~Destroying(q)' /\ heap'[q] = [sd |-> fd, mask |-> watch'[fd].mask]
      <3>1. fd # heap[p].sd /\ watch'[fd] = watch[fd] /\ fd \in Watched
        BY <1>3, <2>3, UnregistersFacts DEF Watched
      <3>2. q \in Ptr /\ Live(q) /\ ~Destroying(q) /\ heap[q].sd = fd
            /\ heap[q] = [sd |-> fd, mask |-> watch[fd].mask]
        BY <1>00, <2>3, <3>1
      <3> QED
        BY <2>1, <2>2, <3>1, <3>2
    <2>4. Owned'
      BY <2>3 DEF Owned, Watched
    <2>5. ASSUME NEW q \in Ptr, Current(q)'
          PROVE  watch'[heap'[q].sd].ptr = q
      <3>1. Current(q) /\ q # p
        BY <1>3, <2>5, UnregistersFacts
      <3>2. heap[q].sd \in Fd /\ watch[heap[q].sd].ptr = q
        BY <1>0, <3>1
      <3>3. heap[q].sd # heap[p].sd
        BY <2>1, <3>1, <3>2
      <3> QED
        BY <1>3, <2>1, <3>2, <3>3, UnregistersFacts
    <2> QED
      BY <2>4, <2>5 DEF Tracked
  <1>4. ASSUME NEW p \in Ptr, Frees(p)
        PROVE  Owned' /\ Tracked'
    <2>1. Destroying(p) /\ UNCHANGED watch /\ Watched' = Watched
      BY <1>4, FreesFacts DEF Frees
    <2>2. \A q \in Ptr : /\ Destroying(q)' <=> Destroying(q) /\ q # p
                         /\ Live(q)' <=> Live(q) /\ q # p
                         /\ q # p => heap'[q] = heap[q]
                         /\ Current(q)' => Current(q) /\ q # p
      BY <1>4, FreesFacts DEF Frees
    <2>3. \A fd \in Watched : watch[fd].ptr # p
      BY <1>00, <2>1
    <2>4. Owned'
      BY <1>00, <2>1, <2>2, <2>3 DEF Owned
    <2>5. Tracked'
      BY <1>0, <2>1, <2>2 DEF Tracked
    <2> QED
      BY <2>4, <2>5
  <1>5. CASE Closes
    <2>1. \A q \in Ptr : ~Current(q)'
      BY <1>5 DEF Closes, Current
    <2>2. Watched' = {}
      BY <1>5 DEF Closes, Watched
    <2> QED
      BY <2>1, <2>2 DEF Owned, Tracked
  <1>6. CASE Keeps
    <2>1. UNCHANGED <<heap, watch>> /\ Watched' = Watched /\ SameStack
      BY <1>6, KeepsFacts DEF Keeps
    <2>2. Owned'
      BY <1>00, <2>1 DEF Owned, Live, SameStack
    <2>3. Tracked'
      BY <1>6, <2>1, KeepsFacts DEF Tracked
    <2> QED
      BY <2>2, <2>3
  <1> QED
    BY <1>1, <1>2, <1>3, <1>4, <1>5, <1>6 DEF Effect

-----------------------------------------------------------------------------
(***************************************************************************)
(* The invariant holds.                                                    *)
(***************************************************************************)
\* The ways the stack changes: a callback is called by loop_run on an empty stack
\* and returns to it, a clean-up stays one as it moves along the table, and
\* starts by ending the loop.
StackMoves ==
  \/ UNCHANGED stack
  \/ stack # <<>> /\ Pop /\ (Innermost.fn = "callback" => CallbackReturns)
  \/ \E g \in Frame : stack # <<>> /\ Amend(g) /\ g.fn = "cleanup" /\ Innermost.fn = "cleanup"
  \/ \E g \in Frame : /\ Push(g)
                      /\ g.fn = "callback" => stack = <<>> /\ Dispatch
                      /\ g.fn = "cleanup" => terminate'

LEMMA StackSteps ==
  ASSUME TypeOK, TableShape, [Next]_vars
  PROVE  StackMoves
  <1> USE DEF StackMoves
  <1>0. stack \in Seq(Frame) /\ top \in Nat
    BY DEF TypeOK
  <1>1. ASSUME NEW sd \in Fd, RemoveSd(sd)
        PROVE  StackMoves
    <2>1. PICK i \in 0 .. top - 1 : Found(sd, i) /\ Push(RemoveFrame(entry[i]))
      BY <1>1 DEF RemoveSd
    <2>2. entry[i] \in Ptr
      BY <2>1, SlotLemma DEF Found, Live
    <2>3. RemoveFrame(entry[i]) \in Frame /\ RemoveFrame(entry[i]).fn = "remove"
      BY <2>2, NewFrames DEF RemoveFrame
    <2> QED
      BY <2>1, <2>3
  <1>2. CASE RemoveReturns \/ CallbackReturns \/ CleanupEnd
    BY <1>2 DEF RemoveReturns, CallbackReturns, CleanupEnd, InCleanup, In
  <1>3. CASE CleanupReturns \/ SkipSlot \/ CleanupSlot
    <2>1. stack # <<>> /\ Innermost.fn = "cleanup" /\ Innermost \in CleanupFrames
      BY <1>0, <1>3, InnermostLemma DEF CleanupReturns, SkipSlot, CleanupSlot, InCleanup, In
    <2>2. CASE CleanupSlot
      <3>1. Innermost.i \in 0 .. top - 1
        BY <1>0, <2>1, <2>2 DEF CleanupFrames, CleanupSlot
      <3>2. entry[Innermost.i] \in Ptr
        BY <2>2, <3>1, SlotLemma DEF CleanupSlot, Live
      <3> QED
        BY <2>1, <2>2, <3>2, CleanupFrameLemma DEF CleanupSlot
    <2>3. CASE CleanupReturns
      BY <2>1, <2>3, CleanupFrameLemma DEF CleanupReturns
    <2>4. CASE SkipSlot
      BY <2>1, <2>4, CleanupFrameLemma DEF SkipSlot
    <2> QED
      BY <1>3, <2>2, <2>3, <2>4
  <1>4. CASE Dispatch
    <2>1. CASE Live(Head(batch).ptr)
      <3>1. heap[Head(batch).ptr].sd \in Fd
        <4>1. Head(batch) \in Event
          BY <1>4, HeadTailProperties DEF Dispatch, TypeOK
        <4> QED
          BY <2>1, <4>1 DEF Live, Event, Entry, TypeOK
      <3>2. Push(CallbackFrame(heap[Head(batch).ptr].sd)) /\ stack = <<>>
        BY <1>4, <2>1 DEF Dispatch, Main
      <3>3. CallbackFrame(heap[Head(batch).ptr].sd).fn = "callback"
        BY DEF CallbackFrame
      <3> QED
        BY <1>4, <3>1, <3>2, <3>3, NewFrames
    <2>2. CASE ~Live(Head(batch).ptr)
      BY <1>4, <2>2 DEF Dispatch
    <2> QED
      BY <2>1, <2>2
  <1>5. ASSUME NEW exit \in Exits, StartCleanup(exit)
        PROVE  StackMoves
    <2>1. CleanupFrame(exit) \in Frame /\ CleanupFrame(exit).fn = "cleanup"
      BY NewFrames DEF CleanupFrame
    <2> QED
      BY <1>5, <2>1 DEF StartCleanup
  <1>6. CASE SignalQuit \/ \E exit \in Exits : Quit(exit)
    BY <1>5, <1>6, CallsAssumption DEF SignalQuit, Quit
  <1>7. CASE LoopInit \/ AddSdFails \/ \E sd \in Fd, mask \in Mask : AddSd(sd, mask) \/ ModifySd(sd, mask)
    BY <1>7 DEF LoopInit, AddSdFails, AddSd, ModifySd
  <1>8. CASE \/ RunStart \/ Wait \/ WaitFails \/ BatchDone \/ RunExit \/ CleanupFaults
             \/ Halted \/ \E sd \in Fd : RemoveTwice(sd) \/ SearchFaults(sd)
             \/ UNCHANGED vars
    BY <1>8 DEF RunStart, Wait, WaitFails, BatchDone, RunExit, CleanupFaults, Halted,
                RemoveTwice, SearchFaults, vars
  <1> QED
    BY <1>1, <1>2, <1>3, <1>4, <1>6, <1>7, <1>8 DEF Next, UserCode, Return, LoopCode

LEMMA StackShapeStep ==
  ASSUME TypeOK, StackShape, StackMoves
  PROVE  StackShape'
  <1>0. stack \in Seq(Frame) /\ Len(stack) \in Nat
    BY DEF TypeOK
  <1>1. CASE UNCHANGED stack
    BY <1>1 DEF StackShape
  <1>2. CASE stack # <<>> /\ Pop
    BY <1>0, <1>2, PopLemma DEF StackShape
  <1>3. ASSUME NEW g \in Frame, stack # <<>>, Amend(g), g.fn = "cleanup"
        PROVE  StackShape'
    BY <1>0, <1>3, AmendLemma DEF StackShape
  <1>4. ASSUME NEW g \in Frame, Push(g), g.fn = "callback" => stack = <<>>
        PROVE  StackShape'
    <2>1. stack = <<>> => Len(stack) = 0
      BY EmptySeq
    <2> QED
      BY <1>0, <1>4, <2>1, PushLemma DEF StackShape
  <1> QED
    BY <1>1, <1>2, <1>3, <1>4 DEF StackMoves

LEMMA RegInvInit == Init => RegInv
  <1> SUFFICES ASSUME Init
               PROVE  RegInv
    OBVIOUS
  <1>1. IInv
    BY IInvInit
  <1>2. Len(stack) = 0 /\ Watched = {} /\ \A p \in Ptr : ~Live(p)
    BY EmptySeq DEF Init, Watched, Live
  <1>3. StackShape /\ OneDestroyer /\ \A p \in Ptr : ~Destroying(p)
    BY <1>2 DEF StackShape, OneDestroyer, Destroying
  <1>4. \A p \in Ptr : ~Current(p)
    BY <1>2 DEF Current
  <1> QED
    BY <1>1, <1>2, <1>3, <1>4
    DEF RegInv, DestroyingLive, SlotsWatched, SlotsBySd, Owned, Tracked

LEMMA RegInvStep == RegInv /\ [Next]_vars => RegInv'
  <1> SUFFICES ASSUME RegInv, [Next]_vars
               PROVE  RegInv'
    OBVIOUS
  <1>0. IInv /\ TypeOK /\ TableShape /\ StackShape /\ OneDestroyer /\ DestroyingLive
    BY DEF RegInv, IInv
  <1>1. IInv'
    BY <1>0, IInvStep
  <1>2. StackShape'
    BY <1>0, StackSteps, StackShapeStep
  <1>3. OneDestroyer' /\ Effect
    BY <1>0, Effects
  <1>4. DestroyingLive' /\ SlotsWatched' /\ SlotsBySd'
    BY <1>0, <1>3, DestroyingLiveStep, SlotsWatchedStep DEF RegInv
  <1>5. Sound' => Sound
    BY <1>0, HoledStays DEF Sound
  <1>6. Sound' => Owned' /\ Tracked'
    BY <1>0, <1>3, <1>5, OwnedStep DEF RegInv
  <1> QED
    BY <1>1, <1>2, <1>3, <1>4, <1>6 DEF RegInv

LEMMA Registrations == Spec => []RegInv
  BY RegInvInit, RegInvStep, PTL DEF Spec

\* The entry of a registered descriptor is allocated and is that descriptor's
\* own, whatever user code did: while the table is undamaged, and after any
\* damage when destructors do not call the loop.
THEOREM KernelPointersAreLive == Spec => []KernelPointersLive
  <1>1. RegInv => KernelPointersLive
    BY DEF RegInv, KernelPointersLive, Owned
  <1> QED
    BY <1>1, Registrations, PTL

-----------------------------------------------------------------------------
(***************************************************************************)
(* The table has as many slots in use as there are registered descriptors, *)
(* damaged or not.                                                         *)
(***************************************************************************)
LEMMA CleaningUpEnds ==
  ASSUME TypeOK, TableShape, CleaningUp, [Next]_vars, ~CleaningUp'
  PROVE  CleanupEnd
  <1>0. stack \in Seq(Frame) /\ top \in Nat
    BY DEF TypeOK
  <1>1. ASSUME NEW g \in Frame, Push(g)
        PROVE  FALSE
    BY <1>1, CleaningUpStays
  <1>2. ASSUME NEW g \in Frame, stack # <<>>, Amend(g), g.fn = Innermost.fn
        PROVE  FALSE
    BY <1>2, CleaningUpStays
  <1>3. ASSUME stack # <<>>, Pop, Innermost.fn # "cleanup"
        PROVE  FALSE
    BY <1>3, CleaningUpStays
  <1>4. ASSUME UNCHANGED stack
        PROVE  FALSE
    BY <1>4 DEF CleaningUp
  <1>5. ASSUME NEW sd \in Fd, RemoveSd(sd)
        PROVE  FALSE
    <2>1. PICK i \in 0 .. top - 1 : Found(sd, i) /\ Push(RemoveFrame(entry[i]))
      BY <1>5 DEF RemoveSd
    <2>2. entry[i] \in Ptr
      BY <2>1, SlotLemma DEF Found, Live
    <2> QED
      BY <1>1, <2>1, <2>2, NewFrames
  <1>6. CASE CleanupReturns \/ SkipSlot \/ CleanupSlot
    <2>1. stack # <<>> /\ Innermost.fn = "cleanup" /\ Innermost \in CleanupFrames
      BY <1>0, <1>6, InnermostLemma DEF CleanupReturns, SkipSlot, CleanupSlot, InCleanup, In
    <2>2. CASE CleanupSlot
      <3>1. Innermost.i \in 0 .. top - 1
        BY <1>0, <2>1, <2>2 DEF CleanupFrames, CleanupSlot
      <3>2. entry[Innermost.i] \in Ptr
        BY <2>2, <3>1, SlotLemma DEF CleanupSlot, Live
      <3>3. \E g \in Frame : g.fn = Innermost.fn /\ Amend(g)
        BY <2>1, <2>2, <3>2, CleanupFrameLemma DEF CleanupSlot
      <3> QED
        BY <1>2, <2>1, <3>3
    <2>3. CASE CleanupReturns
      <3>1. \E g \in Frame : g.fn = Innermost.fn /\ Amend(g)
        BY <2>1, <2>3, CleanupFrameLemma DEF CleanupReturns
      <3> QED
        BY <1>2, <2>1, <3>1
    <2>4. CASE SkipSlot
      <3>1. \E g \in Frame : g.fn = Innermost.fn /\ Amend(g)
        BY <2>1, <2>4, CleanupFrameLemma DEF SkipSlot
      <3> QED
        BY <1>2, <2>1, <3>1
    <2> QED
      BY <1>6, <2>2, <2>3, <2>4
  <1>7. CASE RemoveReturns \/ CallbackReturns
    BY <1>3, <1>7 DEF RemoveReturns, CallbackReturns, In
  <1>8. CASE Call
    BY <1>1, <1>8 DEF Call
  <1>9. CASE \/ LoopInit \/ AddSdFails \/ UNCHANGED <<state, stack>>
             \/ \E sd \in Fd, mask \in Mask : AddSd(sd, mask) \/ ModifySd(sd, mask)
    BY <1>4, <1>9 DEF LoopInit, AddSdFails, AddSd, ModifySd
  <1> QED
    BY <1>5, <1>6, <1>7, <1>8, <1>9, StepCases

Counted == IsFiniteSet(Watched) /\ top = Cardinality(Watched)

LEMMA CountedStep ==
  ASSUME RegInv, ~CleaningUp => Counted, [Next]_vars, ~CleaningUp'
  PROVE  Counted'
  <1>0. /\ IInv /\ TypeOK /\ TableShape /\ StackShape /\ OneDestroyer /\ DestroyingLive
        /\ SlotsWatched /\ top \in Nat
    BY DEF RegInv, IInv, TypeOK
  <1>1. ASSUME Watched' = {}, top' = 0
        PROVE  Counted'
    BY <1>1, FS_EmptySet DEF Counted
  <1>2. CASE CleaningUp
    <2>1. CleanupEnd
      BY <1>0, <1>2, CleaningUpEnds
    <2> QED
      BY <1>1, <2>1 DEF CleanupEnd, Watched
  <1>3. CASE ~CleaningUp
    <2>0. IsFiniteSet(Watched) /\ top = Cardinality(Watched)
      BY <1>3 DEF Counted
    <2>1. ASSUME NEW sd \in Fd, NEW mask \in Mask, NEW p \in Ptr, Adds(sd, mask, p)
          PROVE  Counted'
      <3>1. top' = top + 1 /\ sd \notin Watched /\ Watched' = Watched \cup {sd}
        <4>0. Added(sd, mask, p)
          BY <1>0, <2>1, AddsFacts
        <4>1. sd \notin Watched /\ watch'[sd] # NULL
          BY <4>0 DEF Added
        <4>2. \A fd \in Fd : fd # sd => watch'[fd] = watch[fd]
          BY <4>0 DEF Added
        <4> QED
          BY <2>1, <4>1, <4>2 DEF Adds, Watched
      <3> QED
        BY <2>0, <3>1, FS_AddElement DEF Counted
    <2>2. ASSUME NEW p \in Ptr, Unregisters(p)
          PROVE  Counted'
      <3>1. top' = top - 1 /\ heap[p].sd \in Watched
        BY <1>0, <2>2 DEF Unregisters, SlotsWatched
      <3>2. Watched' = Watched \ {heap[p].sd}
        BY <1>0, <2>2, UnregistersFacts
      <3> QED
        BY <2>0, <3>1, <3>2, FS_RemoveElement DEF Counted
    <2>3. CASE Closes
      BY <1>1, <2>3 DEF Closes, Watched
    <2>4. ASSUME Watched' = Watched, top' = top
          PROVE  Counted'
      BY <2>0, <2>4 DEF Counted
    <2>5. ASSUME NEW sd \in Fd, NEW mask \in Mask, NEW p \in Ptr, Modifies(sd, mask, p)
          PROVE  Counted'
      BY <1>0, <2>4, <2>5, ModifiesFacts DEF Modifies, SameSlots
    <2>6. ASSUME NEW p \in Ptr, Frees(p)
          PROVE  Counted'
      BY <1>0, <2>4, <2>6, FreesFacts DEF Frees, SameSlots
    <2>7. CASE Keeps
      BY <2>4, <2>7, KeepsFacts DEF Keeps, SameSlots
    <2>8. Effect
      BY <1>0, Effects
    <2> QED
      BY <2>1, <2>2, <2>3, <2>5, <2>6, <2>7, <2>8 DEF Effect
  <1> QED
    BY <1>2, <1>3

LEMMA CountedInit == Init => Counted
  <1>1. Init => Watched = {} /\ top = 0
    BY DEF Init, Watched
  <1> QED
    BY <1>1, FS_EmptySet DEF Counted

\* Outside a clean-up loop_run asks epoll_wait for as many events as there are
\* registered descriptors, for any table, damaged or not.
THEOREM TopIsExact == Spec => []TopCountsWatched
  <1> DEFINE Inv == ~CleaningUp => Counted
  <1>1. Init => Inv
    BY CountedInit
  <1>2. RegInv /\ Inv /\ [Next]_vars => Inv'
    BY CountedStep
  <1>3. Inv => TopCountsWatched
    BY DEF Counted, TopCountsWatched
  <1> QED
    BY <1>1, <1>2, <1>3, Registrations, PTL DEF Spec

-----------------------------------------------------------------------------
(***************************************************************************)
(* The events still to be dispatched.                                      *)
(***************************************************************************)
Fresh(e) == e.fd \in dropped \/ (watch[e.fd] # NULL /\ watch[e.fd].ptr = e.ptr)

BatchInv ==
  /\ batch # <<>> => run = "dispatch"
  /\ Sound => \A k \in 1 .. Len(batch) : Fresh(batch[k])

LEMMA RunningMoves ==
  ASSUME [Next]_vars
  PROVE  Wait \/ Dispatch \/ BatchDone \/ RunStart \/ RunExit \/ UNCHANGED <<run, batch>>
  BY DEF Next, UserCode, Return, LoopCode, LoopInit, AddSd, AddSdFails, ModifySd, RemoveSd,
     RemoveTwice, SearchFaults, Quit, SignalQuit, StartCleanup, RemoveReturns, CleanupReturns,
     CallbackReturns, SkipSlot, CleanupSlot, CleanupFaults, CleanupEnd, WaitFails, Halted,
     running, vars

\* Within a batch the descriptors unregistered are remembered.
LEMMA DroppedGrows ==
  ASSUME [Next]_vars, run = "dispatch", run' = "dispatch"
  PROVE  dropped \subseteq dropped'
  BY DEF Next, UserCode, Return, LoopCode, LoopInit, AddSd, AddSdFails, ModifySd, RemoveSd,
     RemoveTwice, SearchFaults, Quit, SignalQuit, StartCleanup, RemoveReturns, CleanupReturns,
     CallbackReturns, SkipSlot, CleanupSlot, CleanupFaults, CleanupEnd, WaitFails, Halted,
     Wait, Dispatch, BatchDone, RunStart, RunExit, Drop, Main, history, vars

LEMMA FreshStays ==
  ASSUME RegInv, [Next]_vars, run = "dispatch", run' = "dispatch", Sound', NEW e \in Event, Fresh(e)
  PROVE  Fresh(e)'
  <1>0. /\ IInv /\ TypeOK /\ TableShape /\ StackShape /\ OneDestroyer /\ DestroyingLive
        /\ SlotsWatched /\ Tracked /\ Sound
    BY HoledStays DEF RegInv, IInv, Sound
  <1>1. e.fd \in Fd /\ dropped \subseteq dropped'
    BY DroppedGrows DEF Event
  <1>2. CASE e.fd \in dropped
    BY <1>1, <1>2 DEF Fresh
  <1>3. CASE watch[e.fd] # NULL /\ watch[e.fd].ptr = e.ptr
    <2>1. ASSUME NEW sd \in Fd, NEW mask \in Mask, NEW p \in Ptr, Adds(sd, mask, p)
          PROVE  Fresh(e)'
      <3>1. sd # e.fd
        BY <1>3, <2>1 DEF Adds
      <3>a. Added(sd, mask, p)
        BY <1>0, <2>1, AddsFacts
      <3>2. watch'[e.fd] = watch[e.fd]
        BY <1>1, <3>1, <3>a DEF Added
      <3> QED
        BY <1>3, <3>2 DEF Fresh
    <2>2. ASSUME NEW sd \in Fd, NEW mask \in Mask, NEW p \in Ptr, Modifies(sd, mask, p)
          PROVE  Fresh(e)'
      <3>1. watch[sd].ptr = p
        BY <1>0, <2>2 DEF Modifies, Tracked, Current
      <3>2. watch'[sd].ptr = p
        BY <1>0, <2>2 DEF Modifies, TypeOK
      <3>4. watch'[sd] # NULL
        BY <1>0, <2>2, ModifiesFacts
      <3>3. e.fd # sd => watch'[e.fd] = watch[e.fd]
        BY <1>0, <1>1, <2>2, ModifiesFacts
      <3> QED
        BY <1>3, <3>1, <3>2, <3>3, <3>4 DEF Fresh
    <2>3. ASSUME NEW p \in Ptr, Unregisters(p)
          PROVE  Fresh(e)'
      <3>1. heap[p].sd \in dropped'
        BY <2>3 DEF Unregisters, Drop
      <3>2. e.fd # heap[p].sd => watch'[e.fd] = watch[e.fd]
        BY <1>0, <1>1, <2>3, UnregistersFacts
      <3> QED
        BY <1>3, <3>1, <3>2 DEF Fresh
    <2>4. CASE Closes
      <3>1. e.fd \in dropped'
        BY <1>1, <1>3, <2>4 DEF Closes, Drop, Watched
      <3> QED
        BY <3>1 DEF Fresh
    <2>5. CASE Keeps \/ \E p \in Ptr : Frees(p)
      <3>1. UNCHANGED watch
        BY <2>5 DEF Keeps, Frees
      <3> QED
        BY <1>3, <3>1 DEF Fresh
    <2>6. Effect
      BY <1>0, Effects
    <2> QED
      BY <2>1, <2>2, <2>3, <2>4, <2>5, <2>6 DEF Effect
  <1> QED
    BY <1>2, <1>3 DEF Fresh

LEMMA BatchInvStep ==
  ASSUME RegInv, BatchInv, [Next]_vars
  PROVE  BatchInv'
  <1>0. /\ IInv /\ TypeOK /\ batch \in Seq(Event) /\ Len(batch) \in Nat
        /\ batch = <<>> => Len(batch) = 0
    BY EmptySeq DEF RegInv, IInv, TypeOK
  <1>1. Sound' => Sound
    BY <1>0, HoledStays DEF Sound
  <1>2. ASSUME batch = <<>>, UNCHANGED batch
        PROVE  BatchInv'
    <2>1. batch' = <<>> /\ Len(batch') = 0
      BY <1>0, <1>2
    <2> QED
      BY <2>1 DEF BatchInv
  <1>3. CASE Wait
    <2>0. PICK n \in 1 .. top : \E fds \in [1 .. n -> Watched] :
            \/ /\ batch' = [k \in 1 .. n |-> [fd |-> fds[k], ptr |-> watch[fds[k]].ptr]]
               /\ run' = "dispatch"
            \/ UNCHANGED batch
      BY <1>3 DEF Wait
    <2>1. PICK fds \in [1 .. n -> Watched] :
            \/ /\ batch' = [k \in 1 .. n |-> [fd |-> fds[k], ptr |-> watch[fds[k]].ptr]]
               /\ run' = "dispatch"
            \/ UNCHANGED batch
      BY <2>0
    <2>2. CASE UNCHANGED batch
      BY <1>2, <1>3, <2>2 DEF Wait, Main, BatchInv
    <2>3. CASE /\ batch' = [k \in 1 .. n |-> [fd |-> fds[k], ptr |-> watch[fds[k]].ptr]]
               /\ run' = "dispatch"
      <3>1. n \in Nat /\ UNCHANGED watch
        BY <1>0, <1>3 DEF Wait, kernel, TypeOK
      <3>2. Len(batch') = n
        BY <2>3, <3>1
      <3>3. ASSUME NEW k \in 1 .. Len(batch')
            PROVE  Fresh(batch[k])'
        <4>1. batch'[k].fd = fds[k] /\ batch'[k].ptr = watch[fds[k]].ptr
          BY <2>3, <3>2, <3>3
        <4>2. watch[fds[k]] # NULL
          BY <3>2, <3>3 DEF Watched
        <4> QED
          BY <3>1, <4>1, <4>2 DEF Fresh
      <3> QED
        BY <2>3, <3>3 DEF BatchInv
    <2> QED
      BY <2>1, <2>2, <2>3
  <1>4. CASE Dispatch
    <2>1. /\ run' = "dispatch" /\ UNCHANGED <<watch, dropped>>
          /\ batch # <<>> /\ batch' \in {batch, Tail(batch)}
      BY <1>4 DEF Dispatch, Main, kernel, history
    <2>2. ASSUME NEW k \in 1 .. Len(batch'), Sound
          PROVE  Fresh(batch[k])'
      <3>1. CASE batch' = batch
        BY <2>1, <2>2, <3>1 DEF BatchInv, Fresh
      <3>2. CASE batch' = Tail(batch)
        <4>1. /\ Len(Tail(batch)) = Len(batch) - 1
              /\ \A j \in 1 .. Len(batch) - 1 : Tail(batch)[j] = batch[j + 1]
          BY <1>0, <2>1, HeadTailProperties
        <4>2. k + 1 \in 1 .. Len(batch) /\ batch'[k] = batch[k + 1]
          BY <1>0, <2>2, <3>2, <4>1
        <4>3. Fresh(batch[k + 1])
          BY <2>2, <4>2 DEF BatchInv
        <4> QED
          BY <2>1, <4>2, <4>3 DEF Fresh
      <3> QED
        BY <2>1, <3>1, <3>2
    <2> QED
      BY <1>1, <2>1, <2>2 DEF BatchInv
  <1>5. CASE BatchDone \/ RunStart \/ RunExit
    <2>1. batch = <<>> /\ UNCHANGED batch
      BY <1>5 DEF BatchDone, RunStart, RunExit, Main, BatchInv
    <2> QED
      BY <1>2, <2>1
  <1>6. CASE UNCHANGED <<run, batch>>
    <2>1. CASE batch = <<>>
      BY <1>2, <1>6, <2>1
    <2>2. CASE batch # <<>>
      <3>1. run = "dispatch" /\ run' = "dispatch"
        BY <1>6, <2>2 DEF BatchInv
      <3>2. ASSUME Sound', NEW k \in 1 .. Len(batch), NEW e, e = batch[k]
            PROVE  Fresh(e)'
        <4>1. e \in Event /\ Fresh(e)
          BY <1>0, <1>1, <3>2, ElementOfSeq DEF BatchInv
        <4> QED
          BY <3>1, <3>2, <4>1, FreshStays
      <3> QED
        BY <1>6, <3>1, <3>2 DEF BatchInv, Fresh
    <2> QED
      BY <2>1, <2>2
  <1> QED
    BY <1>3, <1>4, <1>5, <1>6, RunningMoves

LEMMA BatchInvariance == Spec => [](RegInv /\ BatchInv)
  <1>1. Init => BatchInv
    <2>1. Len(<<>>) = 0
      BY EmptySeq
    <2> QED
      BY <2>1 DEF Init, BatchInv
  <1> QED
    BY <1>1, BatchInvStep, Registrations, PTL DEF Spec

\* The events still to be dispatched point to live entries of the descriptors
\* they are for, but for the descriptors unregistered since epoll_wait: nothing
\* the callbacks of a batch do makes another event of it stale.
THEOREM BatchIsFresh == Spec => []BatchFresh
  <1>1. RegInv /\ BatchInv => BatchFresh
    <2> SUFFICES ASSUME RegInv, BatchInv, Sound, NEW k \in 1 .. Len(batch), NEW e, e = batch[k],
                        e.fd \notin dropped
                 PROVE  /\ e.fd \in Watched
                        /\ watch[e.fd].ptr = e.ptr /\ Live(e.ptr)
      BY DEF BatchFresh
    <2>1. e \in Event /\ Fresh(e)
      BY ElementOfSeq DEF BatchInv, RegInv, IInv, TypeOK
    <2>2. e.fd \in Watched /\ watch[e.fd].ptr = e.ptr
      BY <2>1 DEF Fresh, Event, Watched
    <2> QED
      BY <2>2 DEF RegInv, Owned
  <1> QED
    BY <1>1, BatchInvariance, PTL

LEMMA DispatchFaultsStep ==
  ASSUME RegInv, BatchInv, DispatchFaultsExplained, [Next]_vars
  PROVE  DispatchFaultsExplained'
  <1>1. CASE fault # "none"
    <2>1. UNCHANGED vars
      BY <1>1, HaltLemma
    <2>2. UNCHANGED <<fault, holed, batch, dropped>>
      BY <2>1 DEF vars, history, running
    <2> QED
      BY <2>2 DEF DispatchFaultsExplained, Sound
  <1>2. CASE fault = "none" /\ fault' = "dispatch" /\ Sound'
    <2>1. Dispatch
      BY <1>2 DEF Next, UserCode, Return, LoopCode, LoopInit, AddSd, AddSdFails, ModifySd,
         RemoveSd, RemoveTwice, SearchFaults, RunStart, Quit, SignalQuit, StartCleanup,
         RemoveReturns, CleanupReturns, CallbackReturns, BatchDone, RunExit, SkipSlot,
         CleanupSlot, CleanupFaults, CleanupEnd, Wait, WaitFails, Halted, vars
    <2>2. /\ batch # <<>> /\ ~Live(Head(batch).ptr)
          /\ UNCHANGED <<batch, holed, dropped>>
      BY <1>2, <2>1 DEF Dispatch, history
    <2>3. PICK e : e = Head(batch)
      OBVIOUS
    <2>4. e \in Event /\ (Sound => Fresh(e))
      <3>1. batch \in Seq(Event) /\ 1 \in 1 .. Len(batch) /\ e = batch[1]
        BY <2>2, <2>3, HeadTailProperties, EmptySeq DEF RegInv, IInv, TypeOK
      <3> QED
        BY <3>1, ElementOfSeq DEF BatchInv
    <2>5. Sound
      BY <1>2, <2>2 DEF Sound
    <2>6. ASSUME e.fd \notin dropped
          PROVE  FALSE
      <3>1. e.fd \in Watched /\ watch[e.fd].ptr = e.ptr
        <4>1. Fresh(e) /\ e.fd \in Fd
          BY <2>4, <2>5 DEF Event
        <4> QED
          BY <2>6, <4>1 DEF Fresh, Watched
      <3>2. Live(e.ptr)
        BY <2>5, <3>1 DEF RegInv, Owned
      <3> QED
        BY <2>2, <2>3, <3>2
    <2> QED
      BY <2>2, <2>3, <2>6 DEF DispatchFaultsExplained
  <1>3. CASE fault' # "dispatch" \/ ~Sound'
    BY <1>3 DEF DispatchFaultsExplained
  <1> QED
    BY <1>1, <1>2, <1>3

\* Every undefined behaviour has one of the causes FaultsExplained names: among
\* them, an event is dispatched through a freed entry only after its descriptor
\* was unregistered during the batch.
THEOREM FaultsAreExplained == Spec => []FaultsExplained
  <1>1. Init => DispatchFaultsExplained
    BY DEF Init, DispatchFaultsExplained
  <1>2. Spec => []DispatchFaultsExplained
    BY <1>1, DispatchFaultsStep, BatchInvariance, PTL DEF Spec
  <1> QED
    BY <1>2, TableFaults, PTL DEF FaultsExplained

\* The callback that is called for an event is the one of the event's
\* descriptor, unless that was unregistered since epoll_wait.
THEOREM EventsReachTheirOwner == Spec => DeliveredToOwner
  <1>1. RegInv /\ BatchInv /\ [Next]_vars =>
          [Delivers /\ Sound => Head(batch).fd \in dropped \/ stack'[1].sd = Head(batch).fd]_vars
    <2> SUFFICES ASSUME RegInv, BatchInv, [Next]_vars, Delivers, Sound,
                        Head(batch).fd \notin dropped
                 PROVE  stack'[1].sd = Head(batch).fd
      OBVIOUS
    <2>1. PICK e : e = Head(batch)
      OBVIOUS
    <2>2. stack = <<>> /\ batch # <<>> /\ Push(CallbackFrame(heap[e.ptr].sd))
      BY <2>1 DEF Delivers, Dispatch, Main
    <2>3. e \in Event /\ Fresh(e)
      <3>1. batch \in Seq(Event) /\ 1 \in 1 .. Len(batch) /\ e = batch[1]
        BY <2>1, <2>2, HeadTailProperties, EmptySeq DEF RegInv, IInv, TypeOK
      <3> QED
        BY <3>1, ElementOfSeq DEF BatchInv
    <2>4. e.fd \in Watched /\ watch[e.fd].ptr = e.ptr
      BY <2>1, <2>3 DEF Fresh, Event, Watched
    <2>5. heap[e.ptr].sd = e.fd
      <3>1. Owned
        BY DEF RegInv
      <3>2. heap[e.ptr] = [sd |-> e.fd, mask |-> watch[e.fd].mask]
        BY <2>4, <3>1 DEF Owned
      <3> QED
        BY <3>2
    <2>6. stack' = <<CallbackFrame(e.fd)>>
      BY <2>2, <2>5 DEF Push
    <2> QED
      BY <2>1, <2>6 DEF CallbackFrame
  <1> QED
    BY <1>1, BatchInvariance, PTL DEF Spec, DeliveredToOwner

-----------------------------------------------------------------------------
(***************************************************************************)
(* Quitting.                                                               *)
(***************************************************************************)
\* The rest of a batch that follows a quit is dispatched under the clean-up or
\* after it, with epoll closed and the table empty.
QuitInv ==
  /\ run = "dispatch" /\ terminate => CleaningUp \/ ~epfd
  /\ CleaningUp => terminate

LEMMA TerminateMoves ==
  ASSUME [Next]_vars
  PROVE  \/ terminate' = TRUE /\ \E exit \in Exits : StartCleanup(exit)
         \/ UNCHANGED terminate
  BY CallsAssumption
  DEF Next, UserCode, Return, LoopCode, LoopInit, AddSd, AddSdFails, ModifySd, RemoveSd,
     RemoveTwice, SearchFaults, Quit, SignalQuit, StartCleanup, RemoveReturns, CleanupReturns,
     CallbackReturns, SkipSlot, CleanupSlot, CleanupFaults, CleanupEnd, WaitFails, Halted,
     Wait, Dispatch, BatchDone, RunStart, RunExit, control, vars

\* epoll is opened outside loop_run, and a batch begins before the quit.
LEMMA DispatchBegins ==
  ASSUME [Next]_vars, run' = "dispatch"
  PROVE  /\ epfd' => epfd
         /\ run # "dispatch" => ~terminate /\ ~terminate'
  <1>1. UNCHANGED epfd \/ LoopInit \/ epfd' = FALSE
    BY DEF Next, UserCode, Return, LoopCode, AddSd, AddSdFails, ModifySd, RemoveSd,
       RemoveTwice, SearchFaults, Quit, SignalQuit, StartCleanup, RemoveReturns, CleanupReturns,
       CallbackReturns, SkipSlot, CleanupSlot, CleanupFaults, CleanupEnd, WaitFails, Halted,
       Wait, Dispatch, BatchDone, RunStart, RunExit, kernel, vars
  <1>2. ~LoopInit
    BY DEF LoopInit, Main, running
  <1>3. run # "dispatch" => Wait
    BY RunningMoves DEF Dispatch, BatchDone, RunStart, RunExit, Main
  <1>4. Wait => ~terminate /\ terminate' = terminate
    BY DEF Wait, control
  <1> QED
    BY <1>1, <1>2, <1>3, <1>4

LEMMA StartLemma ==
  ASSUME TypeOK, NEW exit \in Exits, StartCleanup(exit)
  PROVE  CleaningUp'
  <1>1. stack \in Seq(Frame) /\ Len(stack) \in Nat
    BY DEF TypeOK
  <1>2. CleanupFrame(exit) \in Frame /\ CleanupFrame(exit).fn = "cleanup"
    BY NewFrames DEF CleanupFrame
  <1>3. Push(CleanupFrame(exit))
    BY DEF StartCleanup
  <1>4. Len(stack') = Len(stack) + 1 /\ stack'[Len(stack) + 1] = CleanupFrame(exit)
    BY <1>1, <1>2, <1>3, PushLemma
  <1> QED
    BY <1>1, <1>2, <1>4 DEF CleaningUp

LEMMA CleaningUpStarts ==
  ASSUME TypeOK, StackMoves, ~CleaningUp, CleaningUp'
  PROVE  terminate'
  <1>0. stack \in Seq(Frame) /\ Len(stack) \in Nat
    BY DEF TypeOK
  <1>1. \A k \in 1 .. Len(stack) : stack[k].fn # "cleanup"
    BY DEF CleaningUp
  <1>2. UNCHANGED stack => FALSE
    BY DEF CleaningUp
  <1>3. ASSUME stack # <<>>, Pop
        PROVE  FALSE
    BY <1>0, <1>1, <1>3, PopLemma DEF CleaningUp
  <1>4. ASSUME stack # <<>>, Innermost.fn = "cleanup"
        PROVE  FALSE
    BY <1>0, <1>1, <1>4, InnermostLemma DEF Innermost
  <1>5. ASSUME NEW g \in Frame, Push(g), g.fn # "cleanup"
        PROVE  FALSE
    BY <1>0, <1>1, <1>5, PushLemma DEF CleaningUp
  <1> QED
    BY <1>2, <1>3, <1>4, <1>5 DEF StackMoves

LEMMA QuitInvStep ==
  ASSUME TypeOK, TableShape, QuitInv, [Next]_vars
  PROVE  QuitInv'
  <1>1. ASSUME run' = "dispatch", terminate'
        PROVE  CleaningUp' \/ ~epfd'
    <2>1. CASE \E exit \in Exits : StartCleanup(exit)
      BY <2>1, StartLemma
    <2>2. CASE UNCHANGED terminate
      <3>1. run = "dispatch" /\ terminate
        BY <1>1, <2>2, DispatchBegins
      <3>2. CASE CleaningUp /\ ~CleaningUp'
        BY <3>2, CleaningUpEnds DEF CleanupEnd
      <3>3. CASE ~epfd
        BY <1>1, <3>3, DispatchBegins
      <3> QED
        BY <3>1, <3>2, <3>3 DEF QuitInv
    <2> QED
      BY <2>1, <2>2, TerminateMoves
  <1>2. ASSUME CleaningUp'
        PROVE  terminate'
    <2>1. CASE CleaningUp
      BY <2>1, TerminateMoves DEF QuitInv
    <2>2. CASE ~CleaningUp
      BY <1>2, <2>2, StackSteps, CleaningUpStarts
    <2> QED
      BY <2>1, <2>2
  <1> QED
    BY <1>1, <1>2 DEF QuitInv

LEMMA QuitInvariance == Spec => [](RegInv /\ QuitInv)
  <1>1. Init => QuitInv
    <2>1. Len(<<>>) = 0
      BY EmptySeq
    <2> QED
      BY <2>1 DEF Init, QuitInv, CleaningUp
  <1>2. RegInv => TypeOK /\ TableShape
    BY DEF RegInv, IInv
  <1> QED
    BY <1>1, <1>2, QuitInvStep, Registrations, PTL DEF Spec

-----------------------------------------------------------------------------
(***************************************************************************)
(* The refinement of Registry.                                             *)
(***************************************************************************)
\* Until the loop is told to quit, every entry that nobody is destroying is the
\* one registered for its descriptor, whether the table still lists it or not.
Reported ==
  ~terminate => \A p \in Ptr : Live(p) /\ ~Destroying(p) =>
                  heap[p].sd \in Watched /\ watch[heap[p].sd].ptr = p

LEMMA ReportedStep ==
  ASSUME DestructorCalls = {}, RegInv, QuitInv, Reported, [Next]_vars
  PROVE  Reported'
  <1>0. /\ IInv /\ TypeOK /\ TableShape /\ StackShape /\ OneDestroyer /\ DestroyingLive
        /\ SlotsWatched /\ Owned /\ Tracked /\ Sound
    BY DEF RegInv, IInv, Sound
  <1> SUFFICES ASSUME ~terminate', NEW q \in Ptr, Live(q)', ~Destroying(q)'
               PROVE  heap'[q].sd \in Watched' /\ watch'[heap'[q].sd].ptr = q
    BY DEF Reported
  <1>1. ~terminate /\ ~CleaningUp
    BY TerminateMoves DEF QuitInv
  <1>2. \A p \in Ptr : Live(p) /\ ~Destroying(p) =>
          heap[p].sd \in Watched /\ heap[p].sd \in Fd /\ watch[heap[p].sd].ptr = p
    BY <1>1 DEF Reported, Watched
  <1>3. ASSUME NEW sd \in Fd, NEW mask \in Mask, NEW p \in Ptr, Adds(sd, mask, p)
        PROVE  heap'[q].sd \in Watched' /\ watch'[heap'[q].sd].ptr = q
    <2>0. Added(sd, mask, p)
      BY <1>0, <1>3, AddsFacts
    <2>1. heap'[p].sd = sd /\ watch'[sd].ptr = p /\ watch'[sd] # NULL
      BY <2>0 DEF Added
    <2>2. \A fd \in Fd : fd # sd => watch'[fd] = watch[fd]
      BY <2>0 DEF Added
    <2>3. CASE q = p
      BY <2>1, <2>3 DEF Watched
    <2>4. CASE q # p
      <3>0. \A r \in Ptr : Live(r)' <=> Live(r) \/ r = p
        BY <2>0 DEF Added
      <3>1. Live(q) /\ ~Destroying(q)
        BY <1>3, <2>4, <3>0 DEF Adds, SameStack
      <3>2. heap'[q] = heap[q]
        BY <1>0, <1>3, <2>4 DEF Adds, TypeOK
      <3>3. heap[q].sd # sd
        BY <1>2, <1>3, <3>1 DEF Adds, Watched
      <3> QED
        BY <1>2, <2>2, <3>1, <3>2, <3>3 DEF Watched
    <2> QED
      BY <2>3, <2>4
  <1>4. ASSUME NEW sd \in Fd, NEW mask \in Mask, NEW p \in Ptr, Modifies(sd, mask, p)
        PROVE  heap'[q].sd \in Watched' /\ watch'[heap'[q].sd].ptr = q
    <2>1. watch[sd].ptr = p
      BY <1>0, <1>4 DEF Modifies, Current, Tracked
    <2>2. Live(q) /\ ~Destroying(q)
      BY <1>0, <1>4, ModifiesFacts DEF Modifies, SameStack
    <2>3. heap'[q].sd = heap[q].sd
      BY <1>0, <1>4, <2>2, ModifiesFacts
    <2>4. Watched' = Watched
      BY <1>0, <1>4, ModifiesFacts
    <2>5. watch'[heap[q].sd].ptr = watch[heap[q].sd].ptr
      BY <1>0, <1>2, <1>4, <2>1, <2>2 DEF Modifies, TypeOK
    <2> QED
      BY <1>2, <2>2, <2>3, <2>4, <2>5
  <1>5. ASSUME NEW p \in Ptr, Unregisters(p)
        PROVE  heap'[q].sd \in Watched' /\ watch'[heap'[q].sd].ptr = q
    <2>1. Live(p) /\ ~Destroying(p) /\ UNCHANGED heap
      BY <1>5 DEF Unregisters, Current
    <2>2. Live(q) /\ ~Destroying(q) /\ q # p
      BY <1>0, <1>5, UnregistersFacts DEF Unregisters
    <2>3. heap[q].sd # heap[p].sd
      BY <1>2, <2>1, <2>2
    <2>4. \A fd \in Fd : fd # heap[p].sd => watch'[fd] = watch[fd]
      BY <1>0, <1>5, UnregistersFacts
    <2> QED
      BY <1>2, <2>1, <2>2, <2>3, <2>4 DEF Watched
  <1>6. ASSUME NEW p \in Ptr, Frees(p)
        PROVE  heap'[q].sd \in Watched' /\ watch'[heap'[q].sd].ptr = q
    <2>1. Live(q) /\ q # p
      BY <1>0, <1>6, FreesFacts
    <2>2. ~Destroying(q)
      BY <1>6, <2>1 DEF Frees
    <2>3. heap'[q] = heap[q] /\ UNCHANGED watch /\ Watched' = Watched
      BY <1>0, <1>6, <2>1, FreesFacts
    <2> QED
      BY <1>2, <2>1, <2>2, <2>3
  <1>7. CASE Keeps
    <2>1. UNCHANGED <<heap, watch>> /\ Watched' = Watched
      BY <1>7, KeepsFacts
    <2>2. Live(q) /\ ~Destroying(q)
      BY <1>7, KeepsFacts DEF Keeps, SameStack
    <2> QED
      BY <1>2, <2>1, <2>2
  <1>8. ~Closes
    BY <1>1 DEF Closes
  <1>9. Effect
    BY <1>0, Effects
  <1> QED
    BY <1>3, <1>4, <1>5, <1>6, <1>7, <1>8, <1>9 DEF Effect

\* The masks and the callback as the clients see them.
masks == [fd \in Fd |-> IF watch[fd] = NULL THEN NULL ELSE watch[fd].mask]
serving == IF stack # <<>> /\ stack[1].fn = "callback" THEN stack[1].sd ELSE NULL

LEMMA MasksLemma ==
  ASSUME TypeOK
  PROVE  \A fd \in Fd : masks[fd] = NULL <=> fd \notin Watched
  <1>1. \A fd \in Watched : watch[fd].mask # NULL
    <2>1. \A fd \in Watched : watch[fd] \in Interest
      BY DEF TypeOK, Watched
    <2> QED
      BY <2>1, NullAssumption DEF Interest
  <1> QED
    BY <1>1 DEF masks, Watched

\* Who is being served changes only as loop_run calls a callback and as it
\* returns.
LEMMA ServingStays ==
  ASSUME TypeOK, StackMoves, ~Dispatch, ~CallbackReturns
  PROVE  UNCHANGED serving
  <1>0. /\ stack \in Seq(Frame) /\ Len(stack) \in Nat
        /\ stack # <<>> => Len(stack) > 0
    BY EmptySeq DEF TypeOK
  <1>1. CASE UNCHANGED stack
    BY <1>1 DEF serving
  <1>2. CASE stack # <<>> /\ Pop /\ Innermost.fn # "callback"
    <2>1. /\ stack' \in Seq(Frame) /\ Len(stack') = Len(stack) - 1
          /\ \A k \in 1 .. Len(stack) - 1 : stack'[k] = stack[k]
      BY <1>0, <1>2, PopLemma
    <2>2. CASE Len(stack) = 1
      <3>1. stack' = <<>> /\ stack[1].fn # "callback"
        BY <1>2, <2>1, <2>2, EmptySeq DEF Innermost
      <3> QED
        BY <3>1 DEF serving
    <2>3. CASE Len(stack) # 1
      <3>1. stack'[1] = stack[1] /\ stack' # <<>>
        BY <1>0, <1>2, <2>1, <2>3, EmptySeq
      <3> QED
        BY <1>2, <3>1 DEF serving
    <2> QED
      BY <2>2, <2>3
  <1>3. ASSUME NEW g \in Frame, stack # <<>>, Amend(g), g.fn = "cleanup", Innermost.fn = "cleanup"
        PROVE  UNCHANGED serving
    <2>1. /\ stack' \in Seq(Frame) /\ Len(stack') = Len(stack) /\ stack'[Len(stack)] = g
          /\ \A k \in 1 .. Len(stack) - 1 : stack'[k] = stack[k]
      BY <1>0, <1>3, AmendLemma
    <2>2. stack' # <<>>
      BY <1>0, <1>3, <2>1, EmptySeq
    <2>3. CASE Len(stack) = 1
      BY <1>3, <2>1, <2>2, <2>3 DEF serving, Innermost
    <2>4. CASE Len(stack) # 1
      <3>1. stack'[1] = stack[1]
        BY <1>0, <1>3, <2>1, <2>4
      <3> QED
        BY <1>3, <2>2, <3>1 DEF serving
    <2> QED
      BY <2>3, <2>4
  <1>4. ASSUME NEW g \in Frame, Push(g), g.fn # "callback"
        PROVE  UNCHANGED serving
    <2>1. /\ stack' \in Seq(Frame) /\ Len(stack') = Len(stack) + 1 /\ stack'[Len(stack) + 1] = g
          /\ \A k \in 1 .. Len(stack) : stack'[k] = stack[k]
      BY <1>0, <1>4, PushLemma
    <2>2. stack' # <<>>
      BY <1>0, <2>1, EmptySeq
    <2>3. CASE stack = <<>>
      <3>1. stack'[1] = g
        BY <2>1, <2>3, EmptySeq
      <3> QED
        BY <1>4, <2>2, <2>3, <3>1 DEF serving
    <2>4. CASE stack # <<>>
      <3>1. stack'[1] = stack[1]
        BY <1>0, <2>1, <2>4
      <3> QED
        BY <2>2, <2>4, <3>1 DEF serving
    <2> QED
      BY <2>3, <2>4
  <1> QED
    BY <1>1, <1>2, <1>3, <1>4 DEF StackMoves

LEMMA ServiceNext ==
  ASSUME \/ \E fd \in Fd, mask \in Mask :
              /\ masks' = [masks EXCEPT ![fd] = mask]
              /\ UNCHANGED <<serving, terminate>>
         \/ \E fd \in Fd : /\ masks[fd] # NULL /\ masks' = [masks EXCEPT ![fd] = NULL]
                           /\ UNCHANGED <<serving, terminate>>
         \/ \E fd \in Fd : /\ serving = NULL /\ (masks[fd] # NULL \/ terminate)
                           /\ serving' = fd /\ UNCHANGED <<masks, terminate>>
         \/ serving # NULL /\ serving' = NULL /\ UNCHANGED <<masks, terminate>>
         \/ terminate' = TRUE /\ UNCHANGED <<masks, serving>>
         \/ terminate' = TRUE /\ masks' = [fd \in Fd |-> NULL] /\ UNCHANGED serving
         \/ UNCHANGED <<masks, serving, terminate>>
  PROVE  [Service!Next]_(Service!vars)
  <1> USE DEF masks, serving
  <1>1. ASSUME NEW fd \in Fd, NEW mask \in Mask,
               masks' = [masks EXCEPT ![fd] = mask], UNCHANGED <<serving, terminate>>
        PROVE  Service!Next
    <2>1. CASE masks[fd] = NULL
      <3>1. Service!Register(fd, mask)
        BY <1>1, <2>1 DEF Service!Register
      <3> QED
        BY <3>1 DEF Service!Next
    <2>2. CASE masks[fd] # NULL
      <3>1. Service!Update(fd, mask)
        BY <1>1, <2>2 DEF Service!Update
      <3> QED
        BY <3>1 DEF Service!Next
    <2> QED
      BY <2>1, <2>2
  <1>2. ASSUME NEW fd \in Fd, masks[fd] # NULL, masks' = [masks EXCEPT ![fd] = NULL],
               UNCHANGED <<serving, terminate>>
        PROVE  Service!Next
    BY <1>2 DEF Service!Next, Service!Unregister
  <1>3. ASSUME NEW fd \in Fd, serving = NULL, masks[fd] # NULL \/ terminate, serving' = fd,
               UNCHANGED <<masks, terminate>>
        PROVE  Service!Next
    BY <1>3 DEF Service!Next, Service!Serve
  <1>4. CASE serving # NULL /\ serving' = NULL /\ UNCHANGED <<masks, terminate>>
    BY <1>4 DEF Service!Next, Service!Served
  <1>5. CASE terminate' = TRUE /\ UNCHANGED <<masks, serving>>
    BY <1>5 DEF Service!Next, Service!Stop
  <1>6. CASE terminate' = TRUE /\ masks' = [fd \in Fd |-> NULL] /\ UNCHANGED serving
    BY <1>6 DEF Service!Next, Service!Close
  <1>7. CASE UNCHANGED <<masks, serving, terminate>>
    BY <1>7 DEF Service!vars
  <1> QED
    BY <1>1, <1>2, <1>3, <1>4, <1>5, <1>6, <1>7

LEMMA ServiceStep ==
  ASSUME DestructorCalls = {}, RegInv, QuitInv, Reported, [Next]_vars
  PROVE  [Service!Next]_(Service!vars)
  <1>0. /\ IInv /\ TypeOK /\ TableShape /\ StackShape /\ OneDestroyer /\ DestroyingLive
        /\ SlotsWatched /\ stack \in Seq(Frame)
    BY DEF RegInv, IInv, TypeOK
  <1>1. StackMoves /\ Effect
    BY <1>0, StackSteps, Effects
  <1>2. UNCHANGED watch => UNCHANGED masks
    BY DEF masks
  <1>3. CASE Dispatch
    <2>1. UNCHANGED <<masks, terminate>> /\ stack = <<>> /\ batch # <<>>
      BY <1>2, <1>3 DEF Dispatch, Main, kernel, control
    <2>2. CASE UNCHANGED stack
      <3>1. UNCHANGED serving
        BY <2>2 DEF serving
      <3> QED
        BY <2>1, <3>1, ServiceNext
    <2>3. CASE ~UNCHANGED stack
      <3>1. PICK p : p = Head(batch).ptr
        OBVIOUS
      <3>2. Live(p) /\ Push(CallbackFrame(heap[p].sd))
        BY <1>3, <2>3, <3>1 DEF Dispatch
      <3>3. Head(batch) \in Event
        BY <1>0, <2>1, HeadTailProperties DEF TypeOK
      <3>4. p \in Ptr
        BY <3>1, <3>3 DEF Event
      <3>5. heap[p].sd \in Fd
        BY <1>0, <3>2, <3>4, LiveFacts
      <3>6. Len(stack) = 0
        BY <2>1, EmptySeq
      <3>7. ~Destroying(p)
        BY <3>6 DEF Destroying
      <3>8. heap[p].sd \in Watched \/ terminate
        BY <3>2, <3>4, <3>7 DEF Reported
      <3>9. masks[heap[p].sd] # NULL \/ terminate
        BY <1>0, <3>5, <3>8, MasksLemma
      <3>10. stack' = <<CallbackFrame(heap[p].sd)>>
        BY <2>1, <3>2 DEF Push
      <3>11. serving = NULL /\ serving' = heap[p].sd
        BY <2>1, <3>10 DEF serving, CallbackFrame
      <3> QED
        BY <2>1, <3>5, <3>9, <3>11, ServiceNext
    <2> QED
      BY <2>2, <2>3
  <1>4. CASE CallbackReturns
    <2>1. UNCHANGED <<masks, terminate>> /\ stack # <<>> /\ Innermost.fn = "callback" /\ Pop
      BY <1>2, <1>4 DEF CallbackReturns, In, kernel, control
    <2>2. Innermost \in CallbackFrames /\ Len(stack) \in Nat /\ Len(stack) > 0
      BY <1>0, <2>1, InnermostLemma
    <2>3. Len(stack) = 1
      <3>1. Len(stack) \in 1 .. Len(stack) /\ stack[Len(stack)].fn = "callback"
        BY <2>1, <2>2 DEF Innermost
      <3> QED
        BY <1>0, <3>1 DEF StackShape
    <2>4. stack' = <<>>
      <3>1. stack' \in Seq(Frame) /\ Len(stack') = 0
        BY <1>0, <2>1, <2>3, PopLemma
      <3> QED
        BY <3>1, EmptySeq
    <2>5. stack[1].sd \in Fd /\ stack[1].fn = "callback"
      BY <2>1, <2>2, <2>3 DEF Innermost, CallbackFrames
    <2>6. serving # NULL /\ serving' = NULL
      BY <2>1, <2>4, <2>5, NullAssumption DEF serving
    <2> QED
      BY <2>1, <2>6, ServiceNext
  <1>5. CASE ~Dispatch /\ ~CallbackReturns
    <2>1. UNCHANGED serving
      BY <1>0, <1>1, <1>5, ServingStays
    <2>2. CASE terminate' = TRUE /\ \E exit \in Exits : StartCleanup(exit)
      <3>1. UNCHANGED masks
        BY <1>2, <2>2 DEF StartCleanup, kernel
      <3> QED
        BY <2>1, <2>2, <3>1, ServiceNext
    <2>3. CASE UNCHANGED terminate
      <3>1. ASSUME NEW sd \in Fd, NEW mask \in Mask, NEW p \in Ptr,
                   Adds(sd, mask, p) \/ Modifies(sd, mask, p)
            PROVE  [Service!Next]_(Service!vars)
        <4> DEFINE r == [ptr |-> p, mask |-> mask]
        <4>1. watch' = [watch EXCEPT ![sd] = r]
          BY <3>1 DEF Adds, Modifies
        <4>2. r.mask = mask /\ r # NULL
          BY NullAssumption DEF Interest
        <4> HIDE DEF r
        <4>3. \A fd \in Fd : masks'[fd] = IF fd = sd THEN mask ELSE masks[fd]
          BY <1>0, <4>1, <4>2 DEF masks, TypeOK
        <4>4. masks' = [masks EXCEPT ![sd] = mask]
          BY <4>3 DEF masks
        <4> QED
          BY <2>1, <2>3, <4>4, ServiceNext
      <3>2. ASSUME NEW p \in Ptr, Unregisters(p)
            PROVE  [Service!Next]_(Service!vars)
        <4>1. /\ heap[p].sd \in Fd /\ heap[p].sd \in Watched
              /\ watch' = [watch EXCEPT ![heap[p].sd] = NULL]
          BY <1>0, <3>2, UnregistersFacts DEF Unregisters, SlotsWatched
        <4>2. masks[heap[p].sd] # NULL
          BY <1>0, <4>1, MasksLemma
        <4>3. \A fd \in Fd : masks'[fd] = IF fd = heap[p].sd THEN NULL ELSE masks[fd]
          BY <1>0, <4>1 DEF masks, TypeOK
        <4>4. masks' = [masks EXCEPT ![heap[p].sd] = NULL]
          BY <4>3 DEF masks
        <4> QED
          BY <2>1, <2>3, <4>1, <4>2, <4>4, ServiceNext
      <3>3. CASE Closes
        <4>1. terminate
          BY <3>3 DEF Closes, QuitInv
        <4>2. terminate' = TRUE
          BY <1>0, <2>3, <4>1 DEF TypeOK
        <4>3. masks' = [fd \in Fd |-> NULL]
          BY <3>3 DEF Closes, masks
        <4> QED
          BY <2>1, <4>2, <4>3, ServiceNext
      <3>4. CASE Keeps \/ \E p \in Ptr : Frees(p)
        <4>1. UNCHANGED masks
          BY <1>2, <3>4 DEF Keeps, Frees
        <4> QED
          BY <2>1, <2>3, <4>1, ServiceNext
      <3> QED
        BY <1>1, <3>1, <3>2, <3>3, <3>4 DEF Effect
    <2> QED
      BY <2>2, <2>3, TerminateMoves
  <1> QED
    BY <1>3, <1>4, <1>5

\* The table with its damage, the batch with its stale events and the entries
\* with their reused addresses implement the registry of loop.h, for programs
\* whose destructors do not call the loop: no callback starts for a descriptor
\* that is not registered, and only a removal or the clean-up unregisters one.
THEOREM ImplementsRegistry ==
  ASSUME DestructorCalls = {}
  PROVE  Spec => ServesRegistry
  <1>1. Init => Service!Init /\ Reported
    <2> SUFFICES ASSUME Init
                 PROVE  Service!Init /\ Reported
      OBVIOUS
    <2>1. Service!Init
      BY DEF Init, Service!Init
    <2>2. Reported
      BY DEF Init, Reported, Live
    <2> QED
      BY <2>1, <2>2
  <1>2. RegInv /\ QuitInv /\ Reported /\ [Next]_vars => Reported'
    BY ReportedStep
  <1>3. RegInv /\ QuitInv /\ Reported /\ [Next]_vars => [Service!Next]_(Service!vars)
    BY ServiceStep
  <1> QED
    BY <1>1, <1>2, <1>3, QuitInvariance, PTL DEF Spec, ServesRegistry, Service!Spec
=============================================================================
