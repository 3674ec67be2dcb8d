-------------------------------- MODULE Queue --------------------------------
(***************************************************************************)
(* The event-loop queue of the unix port, platform/queue.c: a ring buffer  *)
(* under one robust pthread mutex and ONE condition variable shared by     *)
(* senders (timer threads) and receivers (the event-loop thread).          *)
(*                                                                         *)
(* A thread's call is cut where another thread, or the cancellation of     *)
(* this one, can tell the difference: taking the mutex, the test of        *)
(* locked/full/empty, the memcpy with the pointer advance, the update of   *)
(* the counter, and the broadcast with the unlock.  The timer threads and  *)
(* the event-loop thread run with PTHREAD_CANCEL_ASYNCHRONOUS, so a thread *)
(* in Cancellable may die between any two of these, holding the mutex.     *)
(*                                                                         *)
(* Slots are counted in items: a pointer pcHead + i * uxItemSize is i.     *)
(***************************************************************************)
EXTENDS Naturals, Sequences

CONSTANTS Senders,      \* the threads that call xQueueSend
          Receivers,    \* the threads that call xQueueReceive
          Peekers,      \* the threads that call it with xJustPeeking
          Cancellable,  \* the threads another thread may pthread_cancel
          Items,        \* the values queued
          Length,       \* uxLength
          NoItem, NoThread

Threads == Senders \cup Receivers \cup Peekers

ASSUME QueueAssumption == /\ Length \in Nat \ {0}       \* queue.c:77
                          /\ NoThread \notin Threads
                          /\ NoItem \notin Items

VARIABLES
  slots,            \* the storage area, pcHead .. pcTail
  pcWriteTo,        \* the next free slot
  pcReadFrom,       \* the slot last read
  uxMessagesWaiting,
  locked,           \* set by the killer without the mutex
  owner,            \* the thread the mutex belongs to, dead or alive
  pc,               \* where each thread is in its call
  call,             \* the call each thread is making: operation and item
  pcOriginalReadPosition,
  pvBuffer,         \* what was last copied out for each thread
  dead              \* the threads that were cancelled, or have returned

ringVars == <<slots, pcWriteTo, pcReadFrom, uxMessagesWaiting>>
vars == <<ringVars, locked, owner, pc, call, pcOriginalReadPosition, pvBuffer, dead>>

Slot == 0 .. Length - 1
Calls == [op : {"send"}, item : Items] \cup [op : {"receive", "peek"}, item : {NoItem}]

TypeOK ==
  /\ slots \in [Slot -> Items \cup {NoItem}]
  /\ pcWriteTo \in Slot
  /\ pcReadFrom \in Slot
  /\ uxMessagesWaiting \in 0 .. Length
  /\ locked \in BOOLEAN
  /\ owner \in Threads \cup {NoThread}
  /\ pc \in [Threads -> {"idle", "acquire", "check", "parked", "copy",
                         "count", "finish", "unwind"}]
  /\ call \in [Threads -> Calls]
  /\ pcOriginalReadPosition \in [Threads -> Slot]
  /\ pvBuffer \in [Threads -> Items \cup {NoItem}]
  /\ dead \subseteq Threads

Init ==
  /\ slots = [i \in Slot |-> NoItem]
  /\ pcWriteTo = 0
  /\ pcReadFrom = Length - 1
  /\ uxMessagesWaiting = 0
  /\ locked = FALSE
  /\ owner = NoThread
  /\ pc = [t \in Threads |-> "idle"]
  /\ call = [t \in Threads |-> [op |-> "receive", item |-> NoItem]]
  /\ pcOriginalReadPosition = [t \in Threads |-> 0]
  /\ pvBuffer = [t \in Threads |-> NoItem]
  /\ dead = {}

------------------------------------------------------------------------------
\* MUTANT of Advance: off by one, the slot at pcTail is used.
AdvanceNoWrap(i) == IF i + 1 > Length THEN 0 ELSE i + 1

\* A pointer moved one item on; at pcTail it wraps to pcHead.
Advance(i) == IF i + 1 >= Length THEN 0 ELSE i + 1

\* The pc values at which a thread owns the mutex.
Inside == {"check", "copy", "count", "finish"}

Goto(t, where) == pc' = [pc EXCEPT ![t] = where]

Begin(t, c) ==
  /\ t \notin dead
  /\ pc[t] = "idle"
  /\ Goto(t, "acquire")
  /\ call' = [call EXCEPT ![t] = c]
  /\ UNCHANGED <<ringVars, locked, owner, pcOriginalReadPosition, pvBuffer, dead>>

Send(t, x) == t \in Senders   /\ Begin(t, [op |-> "send", item |-> x])
Receive(t) == t \in Receivers /\ Begin(t, [op |-> "receive", item |-> NoItem])
Peek(t)    == t \in Peekers   /\ Begin(t, [op |-> "peek", item |-> NoItem])

\* pthread_mutex_lock, or the relock at the end of pthread_cond_wait.
Acquire(t) ==
  /\ t \notin dead
  /\ pc[t] = "acquire"
  /\ owner = NoThread
  /\ owner' = t
  /\ Goto(t, "check")
  /\ UNCHANGED <<ringVars, locked, call, pcOriginalReadPosition, pvBuffer, dead>>

\* MUTANT of AcquireOwnerDead: the result of the lock call is ignored.
AcquireOwnerDeadIgnored(t) ==
  /\ t \notin dead
  /\ pc[t] = "acquire"
  /\ owner \in dead
  /\ owner' = t
  /\ Goto(t, "check")
  /\ UNCHANGED <<ringVars, locked, call, pcOriginalReadPosition, pvBuffer, dead>>

\* The same, after the owner died: the lock call gives the robust mutex to t
\* and returns EOWNERDEAD.  The code takes any non-zero result for a failure
\* and returns pdFAIL, so t leaves the queue with the mutex in its hands.
AcquireOwnerDead(t) ==
  /\ t \notin dead
  /\ pc[t] = "acquire"
  /\ owner \in dead
  /\ owner' = t
  /\ Goto(t, "idle")
  /\ UNCHANGED <<ringVars, locked, call, pcOriginalReadPosition, pvBuffer, dead>>

\* MUTANT of MustWait: off by one, a send overwrites the oldest item.
MustWaitLate(t) == IF call[t].op = "send" THEN uxMessagesWaiting > Length
                                             ELSE uxMessagesWaiting <= 0

\* The while condition of xQueueSend and of xQueueReceive.
MustWait(t) == IF call[t].op = "send" THEN uxMessagesWaiting >= Length
                                      ELSE uxMessagesWaiting <= 0

\* Broadcast: whoever is parked competes for the mutex again.
Broadcast(t, where) ==
  pc' = [u \in Threads |-> IF u = t THEN where
                           ELSE IF pc[u] = "parked" /\ u \notin dead THEN "acquire"
                           ELSE pc[u]]

\* After the lock, and after every wake-up: a locked queue refuses the call.
Refuse(t) ==
  /\ t \notin dead
  /\ pc[t] = "check"
  /\ locked
  /\ Broadcast(t, "idle")
  /\ owner' = NoThread
  /\ UNCHANGED <<ringVars, locked, call, pcOriginalReadPosition, pvBuffer, dead>>

\* pthread_cond_wait: the mutex is given back while t is parked.
Park(t) ==
  /\ t \notin dead
  /\ pc[t] = "check"
  /\ ~locked
  /\ MustWait(t)
  /\ Goto(t, "parked")
  /\ owner' = NoThread
  /\ UNCHANGED <<ringVars, locked, call, pcOriginalReadPosition, pvBuffer, dead>>

Pass(t) ==
  /\ t \notin dead
  /\ pc[t] = "check"
  /\ ~locked
  /\ ~MustWait(t)
  /\ Goto(t, "copy")
  /\ UNCHANGED <<ringVars, locked, owner, call, pcOriginalReadPosition, pvBuffer, dead>>

\* prvCopyDataToQueue up to the counter.
CopyIn(t) ==
  /\ t \notin dead
  /\ pc[t] = "copy"
  /\ call[t].op = "send"
  /\ slots' = [slots EXCEPT ![pcWriteTo] = call[t].item]
  /\ pcWriteTo' = Advance(pcWriteTo)
  /\ Goto(t, "count")
  /\ UNCHANGED <<pcReadFrom, uxMessagesWaiting, locked, owner, call,
                 pcOriginalReadPosition, pvBuffer, dead>>

\* prvCopyDataFromQueue, after the read position is saved.
CopyOut(t) ==
  /\ t \notin dead
  /\ pc[t] = "copy"
  /\ call[t].op # "send"
  /\ pcOriginalReadPosition' = [pcOriginalReadPosition EXCEPT ![t] = pcReadFrom]
  /\ pcReadFrom' = Advance(pcReadFrom)
  /\ pvBuffer' = [pvBuffer EXCEPT ![t] = slots[Advance(pcReadFrom)]]
  /\ Goto(t, "count")
  /\ UNCHANGED <<slots, pcWriteTo, uxMessagesWaiting, locked, owner, call, dead>>

\* MUTANT of Count: a receive takes all items out.
CountResets(t) ==
  /\ t \notin dead
  /\ pc[t] = "count"
  /\ uxMessagesWaiting' = IF call[t].op = "send" THEN uxMessagesWaiting + 1 ELSE 0
  /\ Goto(t, "finish")
  /\ UNCHANGED <<slots, pcWriteTo, pcReadFrom, locked, owner, call,
                 pcOriginalReadPosition, pvBuffer, dead>>

\* The counter; a peek puts the read position back instead.
Count(t) ==
  /\ t \notin dead
  /\ pc[t] = "count"
  /\ CASE call[t].op = "send" ->
            /\ uxMessagesWaiting' = uxMessagesWaiting + 1
            /\ UNCHANGED pcReadFrom
       [] call[t].op = "receive" ->
            /\ uxMessagesWaiting' = uxMessagesWaiting - 1
            /\ UNCHANGED pcReadFrom
       [] call[t].op = "peek" ->
            /\ pcReadFrom' = pcOriginalReadPosition[t]
            /\ UNCHANGED uxMessagesWaiting
  /\ Goto(t, "finish")
  /\ UNCHANGED <<slots, pcWriteTo, locked, owner, call, pcOriginalReadPosition,
                 pvBuffer, dead>>

\* MUTANT of Finish: pthread_cond_signal, which wakes one parked thread.
FinishSignal(t) ==
  /\ t \notin dead
  /\ pc[t] = "finish"
  /\ LET parked == {u \in Threads \ dead : pc[u] = "parked"}
     IN \/ parked = {} /\ Goto(t, "idle")
        \/ \E u \in parked : pc' = [pc EXCEPT ![t] = "idle", ![u] = "acquire"]
  /\ owner' = NoThread
  /\ UNCHANGED <<ringVars, locked, call, pcOriginalReadPosition, pvBuffer, dead>>

Finish(t) ==
  /\ t \notin dead
  /\ pc[t] = "finish"
  /\ Broadcast(t, "idle")
  /\ owner' = NoThread
  /\ UNCHANGED <<ringVars, locked, call, pcOriginalReadPosition, pvBuffer, dead>>

\* POSIX allows pthread_cond_wait to return without a broadcast.
SpuriousWakeup(t) ==
  /\ t \notin dead
  /\ pc[t] = "parked"
  /\ Goto(t, "acquire")
  /\ UNCHANGED <<ringVars, locked, owner, call, pcOriginalReadPosition, pvBuffer, dead>>

------------------------------------------------------------------------------
\* The killer shuts the queue, without taking its mutex (eventloop.c:85).
LockQueue ==
  /\ ~locked
  /\ locked' = TRUE
  /\ UNCHANGED <<ringVars, owner, pc, call, pcOriginalReadPosition, pvBuffer, dead>>

\* pthread_cancel hits t outside pthread_cond_wait (or t's thread function
\* returns): it is gone at once, with whatever it holds.
Cancel(t) ==
  /\ t \in Cancellable \ dead
  /\ pc[t] \notin {"parked", "unwind"}
  /\ dead' = dead \cup {t}
  /\ UNCHANGED <<ringVars, locked, owner, pc, call, pcOriginalReadPosition, pvBuffer>>

\* A thread cancelled in pthread_cond_wait takes the mutex back before it
\* unwinds, and no cleanup handler gives it up again.
CancelParked(t) ==
  /\ t \in Cancellable \ dead
  /\ pc[t] = "parked"
  /\ Goto(t, "unwind")
  /\ UNCHANGED <<ringVars, locked, owner, call, pcOriginalReadPosition, pvBuffer, dead>>

Unwind(t) ==
  /\ t \notin dead
  /\ pc[t] = "unwind"
  /\ owner \in dead \cup {NoThread}
  /\ owner' = t
  /\ dead' = dead \cup {t}
  /\ UNCHANGED <<ringVars, locked, pc, call, pcOriginalReadPosition, pvBuffer>>

------------------------------------------------------------------------------
\* What a thread does once it is in a call.
Step(t) == \/ Acquire(t) \/ AcquireOwnerDead(t) \/ Refuse(t) \/ Park(t) \/ Pass(t)
           \/ CopyIn(t) \/ CopyOut(t) \/ Count(t) \/ Finish(t) \/ Unwind(t)

QuietNext ==
  \/ \E t \in Threads :
       \/ \E x \in Items : Send(t, x)
       \/ Receive(t) \/ Peek(t)
       \/ Step(t) \/ Cancel(t) \/ CancelParked(t)
  \/ LockQueue

Next == QuietNext \/ \E t \in Threads : SpuriousWakeup(t)

Spec == Init /\ [][Next]_vars

\* The operating system runs every thread, but pthread mutexes are not fair:
\* nothing says who gets a contended one.  The event loop calls receive again
\* whenever it returns, peek being no substitute.  Spurious wake-ups come
\* finitely often: without end they could keep the mutex busy for ever.
FairSpec == /\ Spec
            /\ \A t \in Threads : WF_vars(Step(t))
            /\ \A t \in Receivers : SF_vars(Receive(t))
            /\ <>[][QuietNext]_vars

------------------------------------------------------------------------------
\* The slot that is i slots after pcHead, for i < 2 * Length.
Wrap(i) == IF i >= Length THEN i - Length ELSE i

\* The threads between the copy and the counter, dying there included.
Copied(op) == {t \in Threads : pc[t] = "count" /\ call[t].op = op}

\* The queue's content as its callers see it: an item counts as consumed once
\* it was copied out, as accepted once it was counted.
Oldest == IF Copied("peek") # {} THEN pcReadFrom ELSE Advance(pcReadFrom)
Held == IF Copied("receive") # {} THEN uxMessagesWaiting - 1 ELSE uxMessagesWaiting
Content == [i \in 1 .. Held |-> slots[Wrap(Oldest + i - 1)]]

Fifo == INSTANCE BoundedFifo WITH fifo <- Content

\* The ring buffer implements a bounded FIFO: whatever the interleaving, and
\* wherever in its call a thread is cancelled, no accepted item is lost,
\* duplicated, reordered or torn (xQueueSend, xQueueReceive).
ImplementsFifo == Fifo!FifoSpec

\* The write pointer is exactly n slots after the read pointer r.
Spans(r, n) == pcWriteTo = Wrap(Advance(r) + n)

\* Whenever the mutex is free the ring holds exactly uxMessagesWaiting items:
\* no call returned half-way through its update.
RingConsistent ==
  owner = NoThread => /\ \A t \in Threads : pc[t] # "count"
                      /\ Spans(pcReadFrom, uxMessagesWaiting)

\* The mutex is in the hands of a thread that will never give it up: it died,
\* or it was handed a dead thread's mutex and took that for a failure.
Abandoned == owner \in dead \/ (owner # NoThread /\ pc[owner] \notin Inside)

\* With one condition variable for both directions: a parked thread that need
\* not wait any more has a broadcast coming, from the thread that changed the
\* counter and still holds the mutex; only that thread's death loses it.
NoLostWakeup ==
  \A t \in Threads \ dead :
    pc[t] = "parked" /\ ~MustWait(t) =>
      Abandoned \/ \E u \in Threads : owner = u /\ pc[u] = "finish"

\* Once a thread dies inside a call nobody touches the ring again, so a
\* half-done update is never seen; the price is that the queue is lost for good.
AbandonedIsFrozen == [][Abandoned => Abandoned' /\ UNCHANGED ringVars]_vars

\* Locked, and no thread is past the test of locked.
ShutDown == locked /\ \A t \in Threads : pc[t] \notin {"copy", "count"}

\* After a kill at most the one call that had passed the test completes;
\* then no item is accepted or handed out any more, by anyone, ever.
ShutDownIsFinal == [][ShutDown => ShutDown' /\ UNCHANGED ringVars]_vars

\* Every accepted item is handed to a receiver, unless the queue is locked or
\* somebody is cancelled, although senders may win the mutex any number of times in between: they
\* run out of slots before the receiver runs out of chances.
EveryItemDelivered ==
  \A x \in Items :
    (\E i \in DOMAIN Content : Content[i] = x)
      ~> (locked \/ dead # {} \/ \E t \in Copied("receive") : pvBuffer[t] = x)

------------------------------------------------------------------------------
\* The inductive invariant behind the safety properties.
\* A live thread inside owns the mutex; a dead one left the mutex abandoned;
\* no two threads, dead ones included, are inside.
MutexInv ==
  /\ \A t \in Threads \ dead : pc[t] \in Inside => owner = t
  /\ \A t \in dead : pc[t] \in Inside => Abandoned
  /\ \A t, u \in Threads : pc[t] \in Inside /\ pc[u] \in Inside => t = u

\* Past the test the caller need not wait, until it has counted.
RoomInv == \A t \in Threads : pc[t] \in {"copy", "count"} => ~MustWait(t)

\* Where the pointers are while one thread is between the copy and the counter.
RingInv ==
  /\ (\A t \in Threads : pc[t] # "count") => Spans(pcReadFrom, uxMessagesWaiting)
  /\ \A t \in Threads : pc[t] = "count" =>
       CASE call[t].op = "send" ->
              /\ Spans(pcReadFrom, uxMessagesWaiting + 1)
              /\ slots[Wrap(Advance(pcReadFrom) + uxMessagesWaiting)] = call[t].item
         [] call[t].op = "receive" -> Spans(pcReadFrom, uxMessagesWaiting - 1)
         [] call[t].op = "peek"    ->
              /\ pcReadFrom = Advance(pcOriginalReadPosition[t])
              /\ Spans(pcOriginalReadPosition[t], uxMessagesWaiting)

IInv == TypeOK /\ MutexInv /\ RoomInv /\ RingInv

==============================================================================
