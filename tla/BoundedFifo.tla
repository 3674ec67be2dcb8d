----------------------------- MODULE BoundedFifo -----------------------------
(***************************************************************************)
(* What the event-loop queue promises its callers: a FIFO of at most       *)
(* Length items, shared by any number of threads, that a killer can shut.  *)
(* Nothing here knows about slots, mutexes or condition variables.         *)
(***************************************************************************)
EXTENDS Naturals, Sequences

CONSTANTS Threads,   \* the threads that call the queue
          Items,     \* what is queued (copies of callback_t)
          Length,    \* the capacity, EVENTLOOP_PLATFORM_QUEUE_LENGTH
          NoItem     \* the contents of a buffer nothing was copied to yet

VARIABLES fifo,      \* the accepted and not yet consumed items, oldest first
          pvBuffer   \* thread -> the last item the queue copied out to it

fifoVars == <<fifo, pvBuffer>>

FifoInit == /\ fifo = << >>
            /\ pvBuffer = [t \in Threads |-> NoItem]

\* An item is accepted at the back, only while there is room.
Accept(x) == /\ Len(fifo) < Length
             /\ fifo' = Append(fifo, x)
             /\ UNCHANGED pvBuffer

\* The oldest item leaves the queue into one thread's buffer.
Deliver(t) == /\ fifo # << >>
              /\ pvBuffer' = [pvBuffer EXCEPT ![t] = Head(fifo)]
              /\ fifo' = Tail(fifo)

\* The oldest item is copied and stays.
PeekAt(t) == /\ fifo # << >>
             /\ pvBuffer' = [pvBuffer EXCEPT ![t] = Head(fifo)]
             /\ UNCHANGED fifo

FifoNext == \/ \E x \in Items : Accept(x)
            \/ \E t \in Threads : Deliver(t) \/ PeekAt(t)

FifoSpec == FifoInit /\ [][FifoNext]_fifoVars

==============================================================================
