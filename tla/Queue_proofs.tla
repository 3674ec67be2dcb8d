----------------------------- MODULE Queue_proofs -----------------------------
(***************************************************************************)
(* Proofs about Queue, for every set of threads and every length.          *)
(***************************************************************************)
EXTENDS Queue, SequenceTheorems, TLAPS

\* Advancing a pointer keeps it in the storage area.
LEMMA AdvanceInSlot == \A i \in Slot : Advance(i) \in Slot
  BY QueueAssumption DEF QueueAssumption, Slot, Advance

\* The queue starts in the inductive invariant.
LEMMA InitIInv == Init => IInv
<1> SUFFICES ASSUME Init PROVE IInv
  OBVIOUS
<1> USE QueueAssumption DEF QueueAssumption, Init
<1>1. TypeOK
  <2>1. 0 \in Slot /\ Length - 1 \in Slot /\ 0 \in 0 .. Length
    BY DEF Slot
  <2>2. call \in [Threads -> Calls]
    BY DEF Calls
  <2>3. QED
    BY <2>1, <2>2 DEF TypeOK
<1>2. MutexInv
  BY DEF MutexInv, Inside
<1>3. RoomInv
  BY DEF RoomInv
<1>4. RingInv
  BY DEF RingInv, Spans, Wrap, Advance
<1>5. QED
  BY <1>1, <1>2, <1>3, <1>4 DEF IInv

\* Every step keeps the types; the counter stays in 0..Length because a caller
\* past the test had room, or an item (RoomInv).
LEMMA TypeStep == IInv /\ [Next]_vars => TypeOK'
<1> SUFFICES ASSUME IInv, [Next]_vars PROVE TypeOK'
  OBVIOUS
<1> USE QueueAssumption, AdvanceInSlot DEF QueueAssumption, IInv
<1>t. TypeOK
  OBVIOUS
<1>1. ASSUME NEW t \in Threads, NEW c \in Calls, Begin(t, c) PROVE TypeOK'
  BY <1>1, <1>t DEF TypeOK, Begin, Goto, ringVars
<1>2. ASSUME NEW t \in Threads, Acquire(t) \/ AcquireOwnerDead(t) PROVE TypeOK'
  BY <1>2, <1>t DEF TypeOK, Acquire, AcquireOwnerDead, Goto, ringVars
<1>3. ASSUME NEW t \in Threads, Refuse(t) \/ Finish(t) PROVE TypeOK'
  BY <1>3, <1>t DEF TypeOK, Refuse, Finish, Broadcast, ringVars
<1>4. ASSUME NEW t \in Threads, Park(t) \/ Pass(t) PROVE TypeOK'
  BY <1>4, <1>t DEF TypeOK, Park, Pass, Goto, ringVars
<1>5. ASSUME NEW t \in Threads, CopyIn(t) PROVE TypeOK'
  BY <1>5, <1>t DEF TypeOK, CopyIn, Goto, Calls
<1>6. ASSUME NEW t \in Threads, CopyOut(t) PROVE TypeOK'
  BY <1>6, <1>t DEF TypeOK, CopyOut, Goto
<1>7. ASSUME NEW t \in Threads, Count(t) PROVE TypeOK'
  <2>1. call[t].op \in {"send", "receive", "peek"}
    BY <1>t DEF TypeOK, Calls
  <2>2. ~MustWait(t)
    BY <1>7 DEF RoomInv, Count
  <2>3. uxMessagesWaiting' \in 0 .. Length /\ pcReadFrom' \in Slot
    <3>1. CASE call[t].op = "send"
      BY <1>7, <1>t, <2>2, <3>1 DEF TypeOK, Count, MustWait
    <3>2. CASE call[t].op = "receive"
      BY <1>7, <1>t, <2>2, <3>2 DEF TypeOK, Count, MustWait
    <3>3. CASE call[t].op = "peek"
      BY <1>7, <1>t, <3>3 DEF TypeOK, Count
    <3>4. QED
      BY <2>1, <3>1, <3>2, <3>3
  <2>4. QED
    BY <1>7, <1>t, <2>3 DEF TypeOK, Count, Goto
<1>8. ASSUME NEW t \in Threads, SpuriousWakeup(t) \/ CancelParked(t) PROVE TypeOK'
  BY <1>8, <1>t DEF TypeOK, SpuriousWakeup, CancelParked, Goto, ringVars
<1>9. ASSUME NEW t \in Threads, Cancel(t) \/ Unwind(t) PROVE TypeOK'
  BY <1>9, <1>t DEF TypeOK, Cancel, Unwind, ringVars
<1>10. CASE LockQueue
  BY <1>10, <1>t DEF TypeOK, LockQueue, ringVars
<1>11. CASE UNCHANGED vars
  BY <1>11, <1>t DEF TypeOK, vars, ringVars
<1>12. QED
  <2>1. \A t \in Threads, x \in Items : Send(t, x) => TypeOK'
    BY <1>1 DEF Send, Calls
  <2>2. \A t \in Threads : Receive(t) \/ Peek(t) => TypeOK'
    BY <1>1 DEF Receive, Peek, Calls
  <2>3. QED
    BY <1>2, <1>3, <1>4, <1>5, <1>6, <1>7, <1>8, <1>9, <1>10, <1>11, <2>1, <2>2
    DEF Next, QuietNext, Step

\* At most one thread is inside, and a dead one there keeps all others out.
LEMMA MutexStep == IInv /\ [Next]_vars => MutexInv'
<1> SUFFICES ASSUME IInv, [Next]_vars PROVE MutexInv'
  OBVIOUS
<1> USE QueueAssumption DEF QueueAssumption, MutexInv, Inside, Abandoned
<1>t. TypeOK /\ MutexInv /\ RoomInv /\ RingInv
  BY DEF IInv
<1>1. ASSUME NEW t \in Threads, NEW c \in Calls, Begin(t, c) PROVE MutexInv'
  BY <1>1, <1>t DEF TypeOK, Begin, Goto
<1>2. ASSUME NEW t \in Threads, Acquire(t) PROVE MutexInv'
  BY <1>2, <1>t DEF TypeOK, Acquire, Goto
<1>3. ASSUME NEW t \in Threads, AcquireOwnerDead(t) PROVE MutexInv'
  BY <1>3, <1>t DEF TypeOK, AcquireOwnerDead, Goto
<1>4. ASSUME NEW t \in Threads, Refuse(t) \/ Finish(t) PROVE MutexInv'
  BY <1>4, <1>t DEF TypeOK, Refuse, Finish, Broadcast
<1>5. ASSUME NEW t \in Threads, Park(t) \/ Pass(t) PROVE MutexInv'
  BY <1>5, <1>t DEF TypeOK, Park, Pass, Goto
<1>6. ASSUME NEW t \in Threads, CopyIn(t) \/ CopyOut(t) \/ Count(t) PROVE MutexInv'
  BY <1>6, <1>t DEF TypeOK, CopyIn, CopyOut, Count, Goto
<1>7. ASSUME NEW t \in Threads, SpuriousWakeup(t) \/ CancelParked(t) PROVE MutexInv'
  BY <1>7, <1>t DEF TypeOK, SpuriousWakeup, CancelParked, Goto
<1>8. ASSUME NEW t \in Threads, Cancel(t) \/ Unwind(t) PROVE MutexInv'
  BY <1>8, <1>t DEF TypeOK, Cancel, Unwind
<1>9. CASE LockQueue \/ UNCHANGED vars
  BY <1>9, <1>t DEF TypeOK, LockQueue, vars
<1>10. QED
  <2>1. \A t \in Threads, x \in Items : Send(t, x) => MutexInv'
    BY <1>1 DEF Send, Calls
  <2>2. \A t \in Threads : Receive(t) \/ Peek(t) => MutexInv'
    BY <1>1 DEF Receive, Peek, Calls
  <2>3. QED
    BY <1>2, <1>3, <1>4, <1>5, <1>6, <1>7, <1>8, <1>9, <2>1, <2>2
    DEF Next, QuietNext, Step

\* Only the thread inside moves the counter, so the test it passed stays true.
LEMMA RoomStep == IInv /\ [Next]_vars => RoomInv'
<1> SUFFICES ASSUME IInv, [Next]_vars PROVE RoomInv'
  OBVIOUS
<1> USE QueueAssumption DEF QueueAssumption, RoomInv, MustWait
<1>t. TypeOK /\ MutexInv /\ RoomInv /\ RingInv
  BY DEF IInv
<1>1. ASSUME NEW t \in Threads, NEW c \in Calls, Begin(t, c) PROVE RoomInv'
  BY <1>1, <1>t DEF TypeOK, Begin, Goto, MutexInv, Inside, ringVars
<1>2. ASSUME NEW t \in Threads, Acquire(t) PROVE RoomInv'
  BY <1>2, <1>t DEF TypeOK, Acquire, Goto, MutexInv, Inside, ringVars
<1>3. ASSUME NEW t \in Threads, AcquireOwnerDead(t) PROVE RoomInv'
  BY <1>3, <1>t DEF TypeOK, AcquireOwnerDead, Goto, MutexInv, Inside, ringVars
<1>4. ASSUME NEW t \in Threads, Refuse(t) \/ Finish(t) PROVE RoomInv'
  BY <1>4, <1>t DEF TypeOK, Refuse, Finish, Broadcast, MutexInv, Inside, ringVars
<1>5. ASSUME NEW t \in Threads, Park(t) \/ Pass(t) PROVE RoomInv'
  BY <1>5, <1>t DEF TypeOK, Park, Pass, Goto, MutexInv, Inside, ringVars
<1>6. ASSUME NEW t \in Threads, CopyIn(t) \/ CopyOut(t) \/ Count(t) PROVE RoomInv'
  BY <1>6, <1>t DEF TypeOK, CopyIn, CopyOut, Count, Goto, MutexInv, Inside, ringVars
<1>7. ASSUME NEW t \in Threads, SpuriousWakeup(t) \/ CancelParked(t) PROVE RoomInv'
  BY <1>7, <1>t DEF TypeOK, SpuriousWakeup, CancelParked, Goto, MutexInv, Inside, ringVars
<1>8. ASSUME NEW t \in Threads, Cancel(t) \/ Unwind(t) PROVE RoomInv'
  BY <1>8, <1>t DEF TypeOK, Cancel, Unwind, MutexInv, Inside, ringVars
<1>9. CASE LockQueue \/ UNCHANGED vars
  BY <1>9, <1>t DEF TypeOK, LockQueue, vars, MutexInv, Inside, ringVars
<1>10. QED
  <2>1. \A t \in Threads, x \in Items : Send(t, x) => RoomInv'
    BY <1>1 DEF Send, Calls
  <2>2. \A t \in Threads : Receive(t) \/ Peek(t) => RoomInv'
    BY <1>1 DEF Receive, Peek, Calls
  <2>3. QED
    BY <1>2, <1>3, <1>4, <1>5, <1>6, <1>7, <1>8, <1>9, <2>1, <2>2
    DEF Next, QuietNext, Step

\* One more item: the write pointer is one slot further.
LEMMA SpansSend ==
  \A r \in Slot, n \in 0 .. Length - 1 :
    Wrap(Advance(r) + (n + 1)) = Advance(Wrap(Advance(r) + n))
  BY QueueAssumption DEF QueueAssumption, Slot, Advance, Wrap

\* One slot further on the read side: one item less.
LEMMA SpansReceive ==
  \A r \in Slot, n \in 1 .. Length :
    Wrap(Advance(Advance(r)) + n - 1) = Wrap(Advance(r) + n)
  BY QueueAssumption DEF QueueAssumption, Slot, Advance, Wrap

\* The pointers and the counter stay in step through every call.
LEMMA RingStep == IInv /\ [Next]_vars => RingInv'
<1> SUFFICES ASSUME IInv, [Next]_vars PROVE RingInv'
  OBVIOUS
<1> USE QueueAssumption, AdvanceInSlot DEF QueueAssumption
<1>t. TypeOK /\ MutexInv /\ RoomInv /\ RingInv
  BY DEF IInv
<1>1. ASSUME NEW t \in Threads, NEW c \in Calls, Begin(t, c) PROVE RingInv'
  BY <1>1, <1>t DEF TypeOK, RingInv, Spans, ringVars, Begin, Goto
<1>2. ASSUME NEW t \in Threads, Acquire(t) \/ AcquireOwnerDead(t) PROVE RingInv'
  BY <1>2, <1>t DEF TypeOK, RingInv, Spans, ringVars, Acquire, AcquireOwnerDead, Goto
<1>3. ASSUME NEW t \in Threads, Refuse(t) \/ Finish(t) PROVE RingInv'
  BY <1>3, <1>t DEF TypeOK, RingInv, Spans, ringVars, Refuse, Finish, Broadcast
<1>4. ASSUME NEW t \in Threads, Park(t) \/ Pass(t) PROVE RingInv'
  BY <1>4, <1>t DEF TypeOK, RingInv, Spans, ringVars, Park, Pass, Goto
<1>5. ASSUME NEW t \in Threads, SpuriousWakeup(t) \/ CancelParked(t) PROVE RingInv'
  BY <1>5, <1>t DEF TypeOK, RingInv, Spans, ringVars, SpuriousWakeup, CancelParked, Goto
<1>6. ASSUME NEW t \in Threads, Cancel(t) \/ Unwind(t) PROVE RingInv'
  BY <1>6, <1>t DEF TypeOK, RingInv, Spans, ringVars, Cancel, Unwind
<1>7. ASSUME NEW t \in Threads, pc[t] = "copy" PROVE \A u \in Threads : pc[u] # "count"
  BY <1>7, <1>t DEF MutexInv, Inside
<1>8. ASSUME NEW t \in Threads, CopyIn(t) PROVE RingInv'
  <2>1. Spans(pcReadFrom, uxMessagesWaiting)
    BY <1>7, <1>8, <1>t DEF RingInv, CopyIn
  <2>2. uxMessagesWaiting \in 0 .. Length - 1
    BY <1>8, <1>t DEF RoomInv, CopyIn, MustWait, TypeOK
  <2>3. /\ Spans(pcReadFrom, uxMessagesWaiting + 1)'
        /\ (slots[Wrap(Advance(pcReadFrom) + uxMessagesWaiting)] = call[t].item)'
    BY <1>8, <1>t, <2>1, <2>2, SpansSend DEF CopyIn, Spans, TypeOK
  <2>4. pc' = [pc EXCEPT ![t] = "count"] /\ call' = call /\ call[t].op = "send"
    BY <1>8 DEF CopyIn, Goto
  <2>5. QED
    BY <1>7, <1>8, <1>t, <2>3, <2>4 DEF RingInv, TypeOK, CopyIn
<1>9. ASSUME NEW t \in Threads, CopyOut(t) PROVE RingInv'
  <2>1. Spans(pcReadFrom, uxMessagesWaiting)
    BY <1>7, <1>9, <1>t DEF RingInv, CopyOut
  <2>2. uxMessagesWaiting \in 1 .. Length
    BY <1>9, <1>t DEF RoomInv, CopyOut, MustWait, TypeOK
  <2>3. Spans(pcReadFrom, uxMessagesWaiting - 1)'
    BY <1>9, <1>t, <2>1, <2>2, SpansReceive DEF CopyOut, Spans, TypeOK
  <2>4. /\ pcReadFrom' = Advance(pcOriginalReadPosition'[t])
        /\ pcOriginalReadPosition'[t] = pcReadFrom
    BY <1>9, <1>t DEF CopyOut, TypeOK
  <2>5. Spans(pcOriginalReadPosition[t], uxMessagesWaiting)'
    BY <1>9, <2>1, <2>4 DEF CopyOut, Spans
  <2>6. pc' = [pc EXCEPT ![t] = "count"] /\ call' = call /\ call[t].op # "send"
    BY <1>9 DEF CopyOut, Goto
  <2>7. \A u \in Threads : pc'[u] = "count" => u = t
    BY <1>7, <1>9, <1>t, <2>6 DEF CopyOut, TypeOK
  <2>8. call[t].op \in {"receive", "peek"}
    BY <1>t, <2>6 DEF TypeOK, Calls
  <2>9. pc'[t] = "count"
    BY <1>t, <2>6 DEF TypeOK
  <2>10. QED
    BY <2>3, <2>4, <2>5, <2>6, <2>7, <2>8, <2>9 DEF RingInv
<1>10. ASSUME NEW t \in Threads, Count(t) PROVE RingInv'
  <2>1. \A u \in Threads : pc'[u] # "count"
    BY <1>10, <1>t DEF Count, Goto, MutexInv, Inside, TypeOK
  <2>2. call[t].op \in {"send", "receive", "peek"}
    BY <1>t DEF TypeOK, Calls
  <2>3. Spans(pcReadFrom, uxMessagesWaiting)'
    <3>1. CASE call[t].op = "send"
      BY <1>10, <1>t, <3>1 DEF RingInv, Count, Spans
    <3>2. CASE call[t].op = "receive"
      BY <1>10, <1>t, <3>2 DEF RingInv, Count, Spans
    <3>3. CASE call[t].op = "peek"
      BY <1>10, <1>t, <3>3 DEF RingInv, Count, Spans
    <3>4. QED
      BY <2>2, <3>1, <3>2, <3>3
  <2>4. QED
    BY <2>1, <2>3 DEF RingInv
<1>11. CASE LockQueue \/ UNCHANGED vars
  BY <1>11, <1>t DEF RingInv, Spans, LockQueue, vars, ringVars
<1>12. QED
  <2>1. \A t \in Threads, x \in Items : Send(t, x) => RingInv'
    BY <1>1 DEF Send, Calls
  <2>2. \A t \in Threads : Receive(t) \/ Peek(t) => RingInv'
    BY <1>1 DEF Receive, Peek, Calls
  <2>3. QED
    BY <1>2, <1>3, <1>4, <1>5, <1>6, <1>8, <1>9, <1>10, <1>11, <2>1, <2>2
    DEF Next, QuietNext, Step

\* Types, mutual exclusion, room for the thread inside and the shape of the
\* ring hold in every state, however threads interleave and wherever they die.
THEOREM Invariance == Spec => []IInv
<1>1. Init => IInv
  BY InitIInv
<1>2. IInv /\ [Next]_vars => IInv'
  BY TypeStep, MutexStep, RoomStep, RingStep DEF IInv
<1>3. QED
  BY <1>1, <1>2, PTL DEF Spec

\* The type invariant, with the counter between 0 and the length of the queue.
THEOREM TypeCorrect == Spec => []TypeOK
<1>1. IInv => TypeOK
  BY DEF IInv
<1>2. QED
  BY <1>1, Invariance, PTL

\* Whenever the mutex is free the ring is in step with its counter.
THEOREM RingIsConsistent == Spec => []RingConsistent
<1>1. IInv => RingConsistent
  <2> SUFFICES ASSUME IInv, owner = NoThread
               PROVE  /\ \A t \in Threads : pc[t] # "count"
                      /\ Spans(pcReadFrom, uxMessagesWaiting)
    BY DEF RingConsistent
  <2>1. \A t \in Threads : pc[t] # "count"
    BY QueueAssumption DEF QueueAssumption, IInv, MutexInv, Abandoned, Inside, TypeOK
  <2>2. QED
    BY <2>1 DEF IInv, RingInv
<1>2. QED
  BY <1>1, Invariance, PTL

\* Every step keeps the promise that a thread parked for nothing is about to
\* be woken: only Count makes waiting needless, and Count leads to Finish.
LEMMA WakeupStep == IInv /\ NoLostWakeup /\ [Next]_vars => NoLostWakeup'
<1> SUFFICES ASSUME IInv, NoLostWakeup, [Next]_vars PROVE NoLostWakeup'
  OBVIOUS
<1> USE QueueAssumption DEF QueueAssumption, Inside, Abandoned, ringVars, NoLostWakeup, MustWait
<1>t. TypeOK /\ MutexInv
  BY DEF IInv
<1>1. ASSUME NEW t \in Threads, NEW c \in Calls, Begin(t, c) PROVE NoLostWakeup'
  BY <1>1, <1>t DEF TypeOK, MutexInv, Begin, Goto
<1>2. ASSUME NEW t \in Threads, Acquire(t) PROVE NoLostWakeup'
  BY <1>2, <1>t DEF TypeOK, MutexInv, Acquire, Goto
<1>3. ASSUME NEW t \in Threads, AcquireOwnerDead(t) PROVE NoLostWakeup'
  BY <1>3, <1>t DEF TypeOK, MutexInv, AcquireOwnerDead, Goto
<1>4. ASSUME NEW t \in Threads, Refuse(t) \/ Finish(t) PROVE NoLostWakeup'
  BY <1>4, <1>t DEF TypeOK, MutexInv, Refuse, Finish, Broadcast
<1>5. ASSUME NEW t \in Threads, Park(t) \/ Pass(t) PROVE NoLostWakeup'
  BY <1>5, <1>t DEF TypeOK, MutexInv, Park, Pass, Goto
<1>6. ASSUME NEW t \in Threads, CopyIn(t) \/ CopyOut(t) \/ Count(t) PROVE NoLostWakeup'
  BY <1>6, <1>t DEF TypeOK, MutexInv, CopyIn, CopyOut, Count, Goto
<1>7. ASSUME NEW t \in Threads, SpuriousWakeup(t) \/ CancelParked(t) PROVE NoLostWakeup'
  BY <1>7, <1>t DEF TypeOK, MutexInv, SpuriousWakeup, CancelParked, Goto
<1>8. ASSUME NEW t \in Threads, Cancel(t) \/ Unwind(t) PROVE NoLostWakeup'
  BY <1>8, <1>t DEF TypeOK, MutexInv, Cancel, Unwind
<1>9. CASE LockQueue \/ UNCHANGED vars
  BY <1>9, <1>t DEF TypeOK, LockQueue, vars
<1>10. QED
  <2>1. \A t \in Threads, x \in Items : Send(t, x) => NoLostWakeup'
    BY <1>1 DEF Send, Calls
  <2>2. \A t \in Threads : Receive(t) \/ Peek(t) => NoLostWakeup'
    BY <1>1 DEF Receive, Peek, Calls
  <2>3. QED
    BY <1>2, <1>3, <1>4, <1>5, <1>6, <1>7, <1>8, <1>9, <2>1, <2>2
    DEF Next, QuietNext, Step

\* No wake-up is lost, however threads interleave, on the one condition
\* variable that senders and receivers share (queue.c:130 and queue.c:163).
THEOREM WakeupsKept == Spec => []NoLostWakeup
<1>1. Init => NoLostWakeup
  BY DEF Init, NoLostWakeup
<1>2. QED
  BY <1>1, WakeupStep, Invariance, PTL DEF Spec

\* No step touches the ring of an abandoned queue, or gives its mutex back.
LEMMA FrozenStep ==
  IInv /\ [Next]_vars => [Abandoned => Abandoned' /\ UNCHANGED ringVars]_vars
<1> SUFFICES ASSUME IInv, [Next]_vars, Abandoned PROVE (Abandoned' /\ UNCHANGED ringVars)
  OBVIOUS
<1> USE QueueAssumption DEF QueueAssumption, Inside, Abandoned, ringVars, vars
<1>t. TypeOK /\ MutexInv
  BY DEF IInv
<1>1. ASSUME NEW t \in Threads, NEW c \in Calls, Begin(t, c) PROVE (Abandoned' /\ UNCHANGED ringVars)
  BY <1>1, <1>t DEF TypeOK, MutexInv, Begin, Goto
<1>2. ASSUME NEW t \in Threads, Acquire(t) PROVE (Abandoned' /\ UNCHANGED ringVars)
  BY <1>2, <1>t DEF TypeOK, MutexInv, Acquire, Goto
<1>3. ASSUME NEW t \in Threads, AcquireOwnerDead(t) PROVE (Abandoned' /\ UNCHANGED ringVars)
  BY <1>3, <1>t DEF TypeOK, MutexInv, AcquireOwnerDead, Goto
<1>4. ASSUME NEW t \in Threads, Refuse(t) \/ Finish(t) PROVE (Abandoned' /\ UNCHANGED ringVars)
  BY <1>4, <1>t DEF TypeOK, MutexInv, Refuse, Finish, Broadcast
<1>5. ASSUME NEW t \in Threads, Park(t) \/ Pass(t) PROVE (Abandoned' /\ UNCHANGED ringVars)
  BY <1>5, <1>t DEF TypeOK, MutexInv, Park, Pass, Goto
<1>6. ASSUME NEW t \in Threads, CopyIn(t) \/ CopyOut(t) \/ Count(t) PROVE (Abandoned' /\ UNCHANGED ringVars)
  BY <1>6, <1>t DEF TypeOK, MutexInv, CopyIn, CopyOut, Count, Goto
<1>7. ASSUME NEW t \in Threads, SpuriousWakeup(t) \/ CancelParked(t) PROVE (Abandoned' /\ UNCHANGED ringVars)
  BY <1>7, <1>t DEF TypeOK, MutexInv, SpuriousWakeup, CancelParked, Goto
<1>8. ASSUME NEW t \in Threads, Cancel(t) \/ Unwind(t) PROVE (Abandoned' /\ UNCHANGED ringVars)
  BY <1>8, <1>t DEF TypeOK, MutexInv, Cancel, Unwind
<1>9. CASE LockQueue \/ UNCHANGED vars
  BY <1>9, <1>t DEF TypeOK, LockQueue, vars
<1>10. QED
  <2>1. \A t \in Threads, x \in Items : Send(t, x) => (Abandoned' /\ UNCHANGED ringVars)
    BY <1>1 DEF Send, Calls
  <2>2. \A t \in Threads : Receive(t) \/ Peek(t) => (Abandoned' /\ UNCHANGED ringVars)
    BY <1>1 DEF Receive, Peek, Calls
  <2>3. QED
    BY <1>2, <1>3, <1>4, <1>5, <1>6, <1>7, <1>8, <1>9, <2>1, <2>2
    DEF Next, QuietNext, Step

\* A queue whose mutex owner died is frozen for ever: nobody sees the update
\* the dead thread left half done.
THEOREM FrozenOnceAbandoned == Spec => AbandonedIsFrozen
  BY FrozenStep, Invariance, PTL DEF Spec, AbandonedIsFrozen

\* After the lock no thread passes the test any more.
LEMMA ShutStep ==
  IInv /\ [Next]_vars => [ShutDown => ShutDown' /\ UNCHANGED ringVars]_vars
<1> SUFFICES ASSUME IInv, [Next]_vars, ShutDown PROVE (ShutDown' /\ UNCHANGED ringVars)
  OBVIOUS
<1> USE QueueAssumption DEF QueueAssumption, Inside, Abandoned, ringVars, vars, ShutDown
<1>t. TypeOK /\ MutexInv
  BY DEF IInv
<1>1. ASSUME NEW t \in Threads, NEW c \in Calls, Begin(t, c) PROVE (ShutDown' /\ UNCHANGED ringVars)
  BY <1>1, <1>t DEF TypeOK, MutexInv, Begin, Goto
<1>2. ASSUME NEW t \in Threads, Acquire(t) PROVE (ShutDown' /\ UNCHANGED ringVars)
  BY <1>2, <1>t DEF TypeOK, MutexInv, Acquire, Goto
<1>3. ASSUME NEW t \in Threads, AcquireOwnerDead(t) PROVE (ShutDown' /\ UNCHANGED ringVars)
  BY <1>3, <1>t DEF TypeOK, MutexInv, AcquireOwnerDead, Goto
<1>4. ASSUME NEW t \in Threads, Refuse(t) \/ Finish(t) PROVE (ShutDown' /\ UNCHANGED ringVars)
  BY <1>4, <1>t DEF TypeOK, MutexInv, Refuse, Finish, Broadcast
<1>5. ASSUME NEW t \in Threads, Park(t) \/ Pass(t) PROVE (ShutDown' /\ UNCHANGED ringVars)
  BY <1>5, <1>t DEF TypeOK, MutexInv, Park, Pass, Goto
<1>6. ASSUME NEW t \in Threads, CopyIn(t) \/ CopyOut(t) \/ Count(t) PROVE (ShutDown' /\ UNCHANGED ringVars)
  BY <1>6, <1>t DEF TypeOK, MutexInv, CopyIn, CopyOut, Count, Goto
<1>7. ASSUME NEW t \in Threads, SpuriousWakeup(t) \/ CancelParked(t) PROVE (ShutDown' /\ UNCHANGED ringVars)
  BY <1>7, <1>t DEF TypeOK, MutexInv, SpuriousWakeup, CancelParked, Goto
<1>8. ASSUME NEW t \in Threads, Cancel(t) \/ Unwind(t) PROVE (ShutDown' /\ UNCHANGED ringVars)
  BY <1>8, <1>t DEF TypeOK, MutexInv, Cancel, Unwind
<1>9. CASE LockQueue \/ UNCHANGED vars
  BY <1>9, <1>t DEF TypeOK, LockQueue, vars
<1>10. QED
  <2>1. \A t \in Threads, x \in Items : Send(t, x) => (ShutDown' /\ UNCHANGED ringVars)
    BY <1>1 DEF Send, Calls
  <2>2. \A t \in Threads : Receive(t) \/ Peek(t) => (ShutDown' /\ UNCHANGED ringVars)
    BY <1>1 DEF Receive, Peek, Calls
  <2>3. QED
    BY <1>2, <1>3, <1>4, <1>5, <1>6, <1>7, <1>8, <1>9, <2>1, <2>2
    DEF Next, QuietNext, Step

\* Once the killer has locked the queue and the call that had passed the test
\* is over, the queue accepts and delivers nothing more.
THEOREM ShutForGood == Spec => ShutDownIsFinal
  BY ShutStep, Invariance, PTL DEF Spec, ShutDownIsFinal

------------------------------------------------------------------------------
\* Refinement: the ring buffer implements BoundedFifo.

\* A step that moves no thread over the counter and leaves the ring alone
\* leaves the content alone.
LEMMA ContentKept ==
  ASSUME UNCHANGED ringVars,
         \A op \in {"receive", "peek"} : Copied(op)' = Copied(op)
  PROVE  Content' = Content
  BY DEF Content, Held, Oldest, ringVars

\* The content is a sequence of as many items as are held.
LEMMA ContentSeq ==
  IInv => /\ Held \in 0 .. Length
          /\ Oldest \in Slot
          /\ \A i \in 1 .. Held : Wrap(Oldest + i - 1) \in Slot
          /\ Content \in Seq(Items \cup {NoItem})
          /\ Len(Content) = Held
<1> SUFFICES ASSUME IInv
             PROVE  /\ Held \in 0 .. Length
                    /\ Oldest \in Slot
                    /\ \A i \in 1 .. Held : Wrap(Oldest + i - 1) \in Slot
                    /\ Content \in Seq(Items \cup {NoItem})
                    /\ Len(Content) = Held
  OBVIOUS
<1> USE QueueAssumption, AdvanceInSlot DEF QueueAssumption
<1>t. TypeOK /\ RoomInv
  BY DEF IInv
<1>1. Held \in 0 .. Length
  BY <1>t DEF Held, Copied, TypeOK, RoomInv, MustWait
<1>2. Oldest \in Slot
  BY <1>t DEF Oldest, TypeOK
<1>3. \A i \in 1 .. Held : Wrap(Oldest + i - 1) \in Slot
  BY <1>1, <1>2 DEF Wrap, Slot
<1>4. \A i \in 1 .. Held : slots[Wrap(Oldest + i - 1)] \in Items \cup {NoItem}
  BY <1>t, <1>3 DEF TypeOK
<1>5. Content \in Seq(Items \cup {NoItem}) /\ Len(Content) = Held
  BY <1>1, <1>4 DEF Content
<1>6. QED
  BY <1>1, <1>2, <1>3, <1>5

\* memcpy into the free slot: invisible until it is counted.
LEMMA CopyInStep ==
  ASSUME IInv, NEW t \in Threads, CopyIn(t)
  PROVE  UNCHANGED <<Content, pvBuffer>>
<1> USE QueueAssumption, AdvanceInSlot DEF QueueAssumption
<1>t. TypeOK /\ RoomInv /\ RingInv /\ MutexInv
  BY DEF IInv
<1>1. \A u \in Threads : pc[u] # "count"
  BY <1>t DEF CopyIn, MutexInv, Inside
<1>2. Held = uxMessagesWaiting /\ Oldest = Advance(pcReadFrom)
  BY <1>1 DEF Held, Oldest, Copied
<1>3. Held' = Held /\ Oldest' = Oldest
  <2>1. pc' = [pc EXCEPT ![t] = "count"] /\ call' = call /\ call[t].op = "send"
    BY DEF CopyIn, Goto
  <2>2. Copied("receive")' = {} /\ Copied("peek")' = {}
    BY <1>1, <1>t, <2>1 DEF Copied, TypeOK
  <2>3. QED
    BY <1>2, <2>2 DEF Held, Oldest, CopyIn
<1>4. uxMessagesWaiting \in 0 .. Length - 1
  BY <1>t DEF RoomInv, CopyIn, MustWait, TypeOK
<1>5. \A i \in 1 .. Held : Wrap(Oldest + i - 1) # pcWriteTo
  <2>1. pcWriteTo = Wrap(Oldest + uxMessagesWaiting)
    BY <1>1, <1>2, <1>t DEF RingInv, Spans
  <2>2. Oldest \in Slot
    BY ContentSeq
  <2>3. QED
    BY <1>2, <1>4, <2>1, <2>2 DEF Wrap, Slot
<1>6. \A i \in 1 .. Held : slots'[Wrap(Oldest + i - 1)] = slots[Wrap(Oldest + i - 1)]
  BY <1>5, ContentSeq, <1>t DEF CopyIn, TypeOK
<1>7. Content' = Content
  BY <1>3, <1>6 DEF Content
<1>8. QED
  BY <1>7 DEF CopyIn

\* memcpy out of the oldest slot: the item is delivered, or peeked at.
LEMMA CopyOutStep ==
  ASSUME IInv, NEW t \in Threads, CopyOut(t)
  PROVE  Fifo!Deliver(t) \/ Fifo!PeekAt(t)
<1> USE QueueAssumption, AdvanceInSlot DEF QueueAssumption
<1>t. TypeOK /\ RoomInv /\ RingInv /\ MutexInv
  BY DEF IInv
<1>1. \A u \in Threads : pc[u] # "count"
  BY <1>t DEF CopyOut, MutexInv, Inside
<1>2. Held = uxMessagesWaiting /\ Oldest = Advance(pcReadFrom)
  BY <1>1 DEF Held, Oldest, Copied
<1>3. uxMessagesWaiting \in 1 .. Length /\ uxMessagesWaiting' = uxMessagesWaiting
  BY <1>t DEF RoomInv, CopyOut, MustWait, TypeOK
<1>4. /\ Content \in Seq(Items \cup {NoItem})
      /\ Len(Content) = Held
      /\ Content # << >>
  BY <1>2, <1>3, ContentSeq
<1>5. Head(Content) = slots[Advance(pcReadFrom)]
  <2>1. Wrap(Advance(pcReadFrom) + 1 - 1) = Advance(pcReadFrom)
    BY <1>t DEF Wrap, TypeOK, Slot
  <2>2. Head(Content) = Content[1]
    BY <1>4
  <2>3. QED
    BY <1>2, <1>3, <2>1, <2>2 DEF Content
<1>6. pvBuffer' = [pvBuffer EXCEPT ![t] = Head(Content)]
  BY <1>5 DEF CopyOut
<1>7. pc' = [pc EXCEPT ![t] = "count"] /\ call' = call
  BY DEF CopyOut, Goto
<1>8. CASE call[t].op = "receive"
  <2>1. Copied("receive")' = {t} /\ Copied("peek")' = {}
    BY <1>1, <1>t, <1>7, <1>8 DEF Copied, TypeOK
  <2>2. Held' = Held - 1 /\ Oldest' = Advance(Oldest)
    BY <1>2, <1>3, <2>1 DEF Held, Oldest, CopyOut
  <2>3. \A i \in 1 .. Held - 1 :
          Wrap(Advance(Oldest) + i - 1) = Wrap(Oldest + (i + 1) - 1)
    <3>1. Oldest \in Slot /\ Held \in 0 .. Length
      BY ContentSeq
    <3>2. QED
      BY <3>1 DEF Wrap, Advance, Slot
  <2>4. Content' = [i \in 1 .. Held - 1 |-> slots[Wrap(Oldest + (i + 1) - 1)]]
    BY <2>2, <2>3 DEF Content, CopyOut
  <2>5. /\ Tail(Content) \in Seq(Items \cup {NoItem})
        /\ Len(Tail(Content)) = Held - 1
        /\ \A i \in 1 .. Len(Tail(Content)) : Tail(Content)[i] = Content[i + 1]
    BY <1>4, HeadTailProperties
  <2>6. \A i \in 1 .. Held - 1 : Content[i + 1] = slots[Wrap(Oldest + (i + 1) - 1)]
    BY <1>2, <1>3 DEF Content
  <2>7. Content' = Tail(Content)
    <3>1. Held - 1 \in Nat
      BY <1>2, <1>3
    <3>2. Tail(Content) = [i \in 1 .. Held - 1 |-> Tail(Content)[i]]
      <4>1. Tail(Content) \in [1 .. Held - 1 -> Items \cup {NoItem}]
        BY <2>5, LenProperties
      <4>2. QED
        BY <4>1
    <3>3. [i \in 1 .. Held - 1 |-> Tail(Content)[i]]
            = [i \in 1 .. Held - 1 |-> slots[Wrap(Oldest + (i + 1) - 1)]]
      BY <2>5, <2>6
    <3>4. QED
      BY <2>4, <3>2, <3>3
  <2>8. QED
    BY <1>4, <1>6, <2>7 DEF Fifo!Deliver
<1>9. CASE call[t].op = "peek"
  <2>1. Copied("receive")' = {} /\ Copied("peek")' = {t}
    BY <1>1, <1>t, <1>7, <1>9 DEF Copied, TypeOK
  <2>2. Held' = Held /\ Oldest' = Oldest
    BY <1>2, <1>3, <2>1 DEF Held, Oldest, CopyOut
  <2>3. Content' = Content
    BY <2>2 DEF Content, CopyOut
  <2>4. QED
    BY <1>4, <1>6, <2>3 DEF Fifo!PeekAt
<1>10. QED
  <2>1. call[t].op \in {"receive", "peek"}
    BY <1>t DEF CopyOut, TypeOK, Calls
  <2>2. QED
    BY <1>8, <1>9, <2>1

\* The counter makes a sent item visible; for a reader it changes nothing.
LEMMA CountStep ==
  ASSUME IInv, NEW t \in Threads, Count(t)
  PROVE  (\E x \in Items : Fifo!Accept(x)) \/ UNCHANGED <<Content, pvBuffer>>
<1> USE QueueAssumption, AdvanceInSlot DEF QueueAssumption
<1>t. TypeOK /\ RoomInv /\ RingInv /\ MutexInv
  BY DEF IInv
<1>1. \A u \in Threads : pc[u] = "count" => u = t
  BY <1>t DEF Count, MutexInv, Inside
<1>2. pc' = [pc EXCEPT ![t] = "finish"] /\ call' = call /\ pc[t] = "count"
  BY DEF Count, Goto
<1>3. Copied("receive")' = {} /\ Copied("peek")' = {}
  BY <1>1, <1>2, <1>t DEF Copied, TypeOK
<1>4. Held' = uxMessagesWaiting' /\ Oldest' = Advance(pcReadFrom')
  BY <1>3 DEF Held, Oldest
<1>5. CASE call[t].op = "send"
  <2>1. Held = uxMessagesWaiting /\ Oldest = Advance(pcReadFrom)
    BY <1>1, <1>5 DEF Held, Oldest, Copied
  <2>2. Held' = Held + 1 /\ Oldest' = Oldest /\ slots' = slots
    BY <1>4, <1>5, <2>1 DEF Count
  <2>3. Held < Length
    BY <1>t, <1>2, <1>5, <2>1 DEF RoomInv, MustWait, TypeOK
  <2>4. call[t].item \in Items
    BY <1>t, <1>5 DEF TypeOK, Calls
  <2>5. slots[Wrap(Oldest + Held)] = call[t].item
    BY <1>t, <1>2, <1>5, <2>1 DEF RingInv
  <2>6. Content \in Seq(Items \cup {NoItem}) /\ Len(Content) = Held /\ Held \in Nat
    BY ContentSeq
  <2>7. Oldest + (Held + 1) - 1 = Oldest + Held
    BY <2>6, ContentSeq DEF Slot
  <2>8. Append(Content, call[t].item)
          = [i \in 1 .. Held + 1 |-> IF i = Held + 1 THEN call[t].item ELSE Content[i]]
    BY <2>6, <2>4
  <2>9. \A i \in 1 .. Held + 1 :
          slots[Wrap(Oldest + i - 1)] = IF i = Held + 1 THEN call[t].item ELSE Content[i]
    BY <2>5, <2>6, <2>7 DEF Content
  <2>10. Content' = Append(Content, call[t].item)
    BY <2>2, <2>8, <2>9 DEF Content
  <2>11. Fifo!Accept(call[t].item)
    BY <2>3, <2>6, <2>10 DEF Fifo!Accept, Count
  <2>12. QED
    BY <2>4, <2>11
<1>6. CASE call[t].op = "receive"
  <2>1. Held = uxMessagesWaiting - 1 /\ Oldest = Advance(pcReadFrom)
    BY <1>1, <1>2, <1>6 DEF Held, Oldest, Copied
  <2>2. QED
    BY <1>4, <1>6, <2>1 DEF Count, Content
<1>7. CASE call[t].op = "peek"
  <2>1. Held = uxMessagesWaiting /\ Oldest = pcReadFrom
    BY <1>1, <1>2, <1>7 DEF Held, Oldest, Copied
  <2>2. pcReadFrom = Advance(pcOriginalReadPosition[t])
    BY <1>t, <1>2, <1>7 DEF RingInv
  <2>3. QED
    BY <1>4, <1>7, <2>1, <2>2 DEF Count, Content
<1>8. QED
  <2>1. call[t].op \in {"send", "receive", "peek"}
    BY <1>t DEF TypeOK, Calls
  <2>2. QED
    BY <1>5, <1>6, <1>7, <2>1

\* Every step of the ring buffer is a step of the FIFO or changes nothing
\* its callers can see.
LEMMA FifoStep == IInv /\ [Next]_vars => [Fifo!FifoNext]_(Fifo!fifoVars)
<1> SUFFICES ASSUME IInv, [Next]_vars PROVE [Fifo!FifoNext]_(Fifo!fifoVars)
  OBVIOUS
<1> USE DEF ringVars
<1>t. TypeOK /\ MutexInv
  BY DEF IInv
<1>s. \A t \in Threads : (CopyIn(t) \/ CopyOut(t) \/ Count(t)) => [Fifo!FifoNext]_(Fifo!fifoVars)
  BY CopyInStep, CopyOutStep, CountStep DEF Fifo!FifoNext, Fifo!fifoVars
<1>q. SUFFICES ASSUME ~ \E t \in Threads : CopyIn(t) \/ CopyOut(t) \/ Count(t)
               PROVE  UNCHANGED <<Content, pvBuffer>>
  BY <1>s DEF Fifo!fifoVars
<1> DEFINE Same == /\ UNCHANGED ringVars
                   /\ \A op \in {"receive", "peek"} : Copied(op)' = Copied(op)
                   /\ pvBuffer' = pvBuffer
<1>1. ASSUME NEW t \in Threads, NEW c \in Calls, Begin(t, c) PROVE Same
  BY <1>1, <1>t DEF TypeOK, Begin, Goto, Copied
<1>2. ASSUME NEW t \in Threads, Acquire(t) \/ AcquireOwnerDead(t) PROVE Same
  BY <1>2, <1>t DEF TypeOK, Acquire, AcquireOwnerDead, Goto, Copied
<1>3. ASSUME NEW t \in Threads, Refuse(t) \/ Finish(t) PROVE Same
  BY <1>3, <1>t DEF TypeOK, Refuse, Finish, Broadcast, Copied
<1>4. ASSUME NEW t \in Threads, Park(t) \/ Pass(t) PROVE Same
  BY <1>4, <1>t DEF TypeOK, Park, Pass, Goto, Copied
<1>5. ASSUME NEW t \in Threads, SpuriousWakeup(t) \/ CancelParked(t) PROVE Same
  BY <1>5, <1>t DEF TypeOK, SpuriousWakeup, CancelParked, Goto, Copied
<1>6. ASSUME NEW t \in Threads, Cancel(t) \/ Unwind(t) PROVE Same
  BY <1>6 DEF Cancel, Unwind, Copied
<1>7. ASSUME LockQueue \/ UNCHANGED vars PROVE Same
  BY <1>7 DEF LockQueue, vars, Copied
<1>8. Same
  <2>1. \A t \in Threads, x \in Items : Send(t, x) => Same
    BY <1>1 DEF Send, Calls
  <2>2. \A t \in Threads : Receive(t) \/ Peek(t) => Same
    BY <1>1 DEF Receive, Peek, Calls
  <2>3. QED
    BY <1>q, <1>2, <1>3, <1>4, <1>5, <1>6, <1>7, <2>1, <2>2 DEF Next, QuietNext, Step
<1>9. QED
  BY <1>8, ContentKept

\* The initial queue is the empty FIFO.
LEMMA FifoStart == Init => Fifo!FifoInit
<1> SUFFICES ASSUME Init PROVE Fifo!FifoInit
  OBVIOUS
<1>1. Held = 0
  BY DEF Init, Held, Copied
<1>2. Content = << >>
  BY <1>1 DEF Content
<1>3. QED
  BY <1>2 DEF Init, Fifo!FifoInit

\* xQueueSend and xQueueReceive implement a bounded FIFO for any number of
\* threads and any length, with threads cancelled anywhere.
THEOREM QueueImplementsFifo == Spec => ImplementsFifo
<1>1. Init => Fifo!FifoInit
  BY FifoStart
<1>2. IInv /\ [Next]_vars => [Fifo!FifoNext]_(Fifo!fifoVars)
  BY FifoStep
<1>3. QED
  BY <1>1, <1>2, Invariance, PTL DEF Spec, ImplementsFifo, Fifo!FifoSpec

==============================================================================
