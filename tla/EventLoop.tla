------------------------------ MODULE EventLoop ------------------------------
(***************************************************************************)
(* The event loop of the unix port: src/eventloop.c with                   *)
(* platform/unix/.../eventloop.c and critical_section.c.                   *)
(*                                                                         *)
(* Threads: the event-loop thread, which runs the JavaScript program and   *)
(* every callback; one thread per timer (_timer_task); and Controllers,    *)
(* the threads that kill and restart the loop (LWM2M client, firmware      *)
(* downloader).  They share the event queue, the list of timers, and one   *)
(* non-recursive mutex behind CRITICAL_SECTION_ENTER, which also turns     *)
(* thread cancellation off.                                                *)
(*                                                                         *)
(* The queue appears as BoundedFifo does, a sequence of callback copies,   *)
(* together with the owner of its mutex, because a timer thread may be     *)
(* cancelled while it owns it (module Queue has the details).              *)
(*                                                                         *)
(* A callback and its timer item are allocated together and named by the   *)
(* callback's _id within one incarnation of the loop; the handle setTimeout *)
(* and setInterval return is its address, and the program may clear any    *)
(* handle it got, at any time and more than once.  Touching a freed        *)
(* callback, joining a timer thread that was never created, or running two *)
(* loops over the same statics is undefined: it sets `undefined` and the   *)
(* model stops there.                                                      *)
(***************************************************************************)
EXTENDS Integers, Sequences, FiniteSets

CONSTANTS Controllers,   \* threads that kill and start the loop
          Kinds,         \* what the program starts: "interval", "timeout"
          Length,        \* EVENTLOOP_PLATFORM_QUEUE_LENGTH
          MaxCallbacks,  \* bound: callbacks created in one incarnation
          MaxKills,      \* bound: kills
          Loop, Nobody   \* the loop thread, and no thread, as mutex owners

Ids == 0 .. MaxCallbacks - 1

ASSUME EventLoopAssumption ==
  /\ Kinds \subseteq {"interval", "timeout"}
  /\ Length \in Nat \ {0} /\ MaxCallbacks \in Nat \ {0} /\ MaxKills \in Nat
  /\ IsFiniteSet(Controllers)
  /\ Loop # Nobody /\ {Loop, Nobody} \cap (Ids \cup Controllers) = {}

VARIABLES
  \* the platform layer
  cs,          \* who is in the critical section
  err,         \* -1: no loop was started since the last kill
  queue,       \* "null", "open" or "locked"
  items,       \* the queued copies of callbacks
  qOwner,      \* the owner of the queue's mutex
  tpc,         \* id -> state of its timer thread
  dying,       \* the timer threads pthread_cancel was sent to
  \* the event loop
  lpc,         \* where the loop thread is
  cancelled,   \* pthread_cancel was sent to it
  received,    \* _received_callback, the static copy last received
  callbacks,   \* callback_list_first: the allocated callbacks and timer items
  stash,       \* the ids with a function in the stash's _callbacks object
  kind,        \* id -> what started it
  seq,         \* _callback_sequence_id
  back,        \* where the running JavaScript returns to
  target,      \* the timer being cleaned up
  after,       \* where _timer_cleanup returns to
  \* the controllers
  kpc,
  \* history
  cleared,     \* the ids the program has passed to clearTimeout or clearInterval
  gen,         \* incarnation: the number of kills so far
  fresh,       \* the last receive copied an item
  undefined    \* what undefined behaviour was reached

platVars == <<cs, err, queue, items, qOwner, tpc, dying>>
loopVars == <<received, callbacks, stash, kind, seq, back, target, after>>
histVars == <<cleared, gen, fresh, undefined>>
vars == <<platVars, lpc, cancelled, loopVars, kpc, histVars>>

Copies == [id : Ids, oneShot : BOOLEAN, gen : 0 .. MaxKills]

TypeOK ==
  /\ cs \in Controllers \cup {Loop, Nobody}
  /\ err \in {-1, 0}
  /\ queue \in {"null", "open", "locked"}
  /\ items \in Seq(Copies) /\ Len(items) <= Length
  /\ qOwner \in Ids \cup {Loop, Nobody}
  /\ tpc \in [Ids -> {"none", "linked", "sleep", "lock", "hold", "parked", "pushed",
                       "unwind", "gone"}]
  /\ dying \subseteq Ids
  /\ lpc \in {"none", "born", "boot", "js", "create", "receive", "lookup",
              "complete", "enter", "join", "parked", "unwind", "dead"}
  /\ cancelled \in BOOLEAN
  /\ received \in Copies
  /\ callbacks \subseteq Ids /\ stash \subseteq Ids
  /\ kind \in [Ids -> {"interval", "timeout"}]
  /\ seq \in 0 .. MaxCallbacks
  /\ back \in {"receive", "complete"} /\ after \in {"js", "receive"}
  /\ target \in Ids
  /\ kpc \in [Controllers -> {"run", "kill", "lockqueue", "cancel", "join",
                              "clear", "killed"}]
  /\ cleared \subseteq Ids
  /\ gen \in 0 .. MaxKills
  /\ fresh \in BOOLEAN
  /\ undefined \in {"no", "use after free", "no thread", "two loops"}

\* The program has booted up to entrypoint(): no loop yet, one is about to be
\* started; the statics are zero.
Init ==
  /\ cs = Nobody /\ err = -1 /\ queue = "null" /\ items = << >> /\ qOwner = Nobody
  /\ tpc = [c \in Ids |-> "none"] /\ dying = {}
  /\ lpc = "none" /\ cancelled = FALSE
  /\ received = [id |-> 0, oneShot |-> FALSE, gen |-> 0]
  /\ callbacks = {} /\ stash = {} /\ seq = 0
  /\ kind = [c \in Ids |-> "interval"]
  /\ back = "receive" /\ target = 0 /\ after = "js"
  /\ \E k \in Controllers : kpc = [j \in Controllers |-> IF j = k THEN "killed" ELSE "run"]
  /\ cleared = {} /\ gen = 0 /\ fresh = FALSE /\ undefined = "no"

------------------------------------------------------------------------------
\* Shared pieces.

\* The owner of the queue mutex exists no more; the next lock call gets the
\* mutex and an error.
OwnerDead == \/ qOwner \in Ids /\ tpc[qOwner] = "gone"
             \/ qOwner = Loop /\ lpc \in {"none", "dead"}

\* MUTANT of WakeLoop: the push does not signal the parked receiver.
WakeLoopForgotten == UNCHANGED lpc

\* pthread_cond_broadcast: whoever is parked competes for the mutex again.
WakeLoop == lpc' = IF lpc = "parked" THEN "receive" ELSE lpc
Wake(state) == [c \in Ids |-> IF state[c] = "parked" THEN "lock" ELSE state[c]]

Undefined(what) ==
  /\ undefined' = what
  /\ UNCHANGED <<platVars, lpc, cancelled, loopVars, kpc, cleared, gen, fresh>>

------------------------------------------------------------------------------
\* Timer threads: _timer_task.

TimerGoes(c, from, to) == tpc[c] = from /\ tpc' = [tpc EXCEPT ![c] = to]
TimerFrame == UNCHANGED <<cs, err, queue, dying, cancelled, loopVars, kpc, histVars>>

Fire(c) ==
  /\ TimerGoes(c, "sleep", "lock")
  /\ UNCHANGED <<items, qOwner, lpc>> /\ TimerFrame

TimerLock(c) ==
  /\ TimerGoes(c, "lock", "hold")
  /\ qOwner = Nobody
  /\ qOwner' = c
  /\ UNCHANGED <<items, lpc>> /\ TimerFrame

\* EOWNERDEAD: the push fails and the thread keeps the mutex.
TimerLockFails(c) ==
  /\ TimerGoes(c, "lock", "pushed")
  /\ OwnerDead
  /\ qOwner' = c
  /\ UNCHANGED <<items, lpc>> /\ TimerFrame

TimerPark(c) ==
  /\ TimerGoes(c, "hold", "parked")
  /\ queue = "open" /\ Len(items) >= Length
  /\ qOwner' = Nobody
  /\ UNCHANGED <<items, lpc>> /\ TimerFrame

\* MUTANT of Push: the handler of a one-shot timer is set for intervals too.
PushAlwaysOneShot(c) ==
  /\ tpc[c] = "hold"
  /\ \/ /\ queue = "open" /\ Len(items) < Length
        /\ items' = Append(items, [id |-> c, oneShot |-> TRUE, gen |-> gen])
     \/ queue = "locked" /\ UNCHANGED items
  /\ tpc' = [Wake(tpc) EXCEPT ![c] = "pushed"]
  /\ WakeLoop
  /\ qOwner' = Nobody
  /\ TimerFrame

\* MUTANT of Push: a full queue takes one more item.
PushOverfull(c) ==
  /\ tpc[c] = "hold"
  /\ \/ /\ queue = "open" /\ Len(items) <= Length
        /\ items' = Append(items, [id |-> c, oneShot |-> kind[c] = "timeout", gen |-> gen])
     \/ queue = "locked" /\ UNCHANGED items
  /\ tpc' = [Wake(tpc) EXCEPT ![c] = "pushed"]
  /\ WakeLoop
  /\ qOwner' = Nobody
  /\ TimerFrame

\* eventloop_callback_call: the callback is copied into the queue, unless the
\* queue is locked.
Push(c) ==
  /\ tpc[c] = "hold"
  /\ \/ /\ queue = "open" /\ Len(items) < Length
        /\ items' = Append(items, [id |-> c, oneShot |-> kind[c] = "timeout", gen |-> gen])
     \/ queue = "locked" /\ UNCHANGED items
  /\ tpc' = [Wake(tpc) EXCEPT ![c] = "pushed"]
  /\ WakeLoop
  /\ qOwner' = Nobody
  /\ TimerFrame

\* The push returned, accepted or not: read timer_item->repeat.
Repeat(c) ==
  /\ TimerGoes(c, "pushed", IF kind[c] = "interval" THEN "sleep" ELSE "gone")
  /\ UNCHANGED <<items, qOwner, lpc>> /\ TimerFrame

\* The cancellation arrives: anywhere, for it is asynchronous.  A thread that
\* owns the mutex takes it to the grave, and one parked in pthread_cond_wait
\* gets it first.
TimerDies(c) ==
  /\ c \in dying
  /\ \/ /\ \E from \in {"sleep", "lock", "hold", "pushed"} : TimerGoes(c, from, "gone")
        /\ UNCHANGED qOwner
     \/ TimerGoes(c, "parked", "unwind") /\ UNCHANGED qOwner
     \/ /\ TimerGoes(c, "unwind", "gone")
        /\ qOwner = Nobody \/ OwnerDead
        /\ qOwner' = c
  /\ UNCHANGED <<items, lpc>> /\ TimerFrame

TimerStep(c) == \/ Fire(c) \/ TimerLock(c) \/ TimerLockFails(c) \/ TimerPark(c)
                \/ Push(c) \/ Repeat(c) \/ TimerDies(c)

------------------------------------------------------------------------------
\* The event-loop thread.

LoopGoes(from, to) == lpc = from /\ lpc' = to

\* eventloop_task, inside the critical section: a new queue, no timers.
TaskStart ==
  /\ LoopGoes("born", "boot")
  /\ cs = Nobody
  /\ queue' = "open" /\ items' = << >> /\ qOwner' = Nobody
  /\ UNCHANGED <<cs, err, tpc, dying, cancelled, loopVars, kpc, histVars>>

\* eventloop() up to duk_eval_string: nothing is left for clear_eventloop.
Boot ==
  /\ LoopGoes("boot", "js")
  /\ back' = "receive"
  /\ UNCHANGED <<platVars, cancelled, received, callbacks, stash, kind, seq,
                 target, after, kpc, histVars>>

\* eventloop_callback_create_from_context.
CreateCallback ==
  /\ callbacks' = callbacks \cup {seq}
  /\ stash' = stash \cup {seq}
  /\ seq' = seq + 1

\* setTimeout and setInterval: the callback and its timer item, linked before
\* there is a thread for it.
SetTimer(what) ==
  /\ LoopGoes("js", "create")
  /\ seq < MaxCallbacks
  /\ CreateCallback
  /\ kind' = [kind EXCEPT ![seq] = what]
  /\ tpc' = [tpc EXCEPT ![seq] = "linked"]
  /\ UNCHANGED <<cs, err, queue, items, qOwner, dying, cancelled, received,
                 back, target, after, kpc, histVars>>

\* The pthread_create of eventloop_platform_timer_start; the program gets its handle.
StartThread ==
  /\ LoopGoes("create", "js")
  /\ tpc' = [c \in Ids |-> IF tpc[c] = "linked" THEN "sleep" ELSE tpc[c]]
  /\ UNCHANGED <<cs, err, queue, items, qOwner, dying, cancelled, loopVars, kpc, histVars>>

\* clearTimeout and clearInterval of any handle the program got, cleared or
\* not: timer_stop reads callback->user_data.
ClearTimer(c) ==
  /\ lpc = "js"
  /\ c < seq
  /\ IF c \in callbacks
     THEN /\ lpc' = "enter" /\ target' = c /\ after' = "js"
          /\ cleared' = cleared \cup {c}
          /\ UNCHANGED <<platVars, cancelled, received, callbacks, stash, kind,
                         seq, back, kpc, gen, fresh, undefined>>
     ELSE Undefined("use after free")

\* The program, or the callback, returns.
Return ==
  /\ LoopGoes("js", back)
  /\ UNCHANGED <<platVars, cancelled, loopVars, kpc, histVars>>

Receive ==
  /\ LoopGoes("receive", "lookup")
  /\ queue = "open" /\ qOwner = Nobody /\ items # << >>
  /\ received' = Head(items)
  /\ items' = Tail(items)
  /\ tpc' = Wake(tpc)
  /\ fresh' = TRUE
  /\ UNCHANGED <<cs, err, queue, qOwner, dying, cancelled, callbacks, stash, kind, seq,
                 back, target, after, kpc, cleared, gen, undefined>>

\* MUTANT of ReceiveParks: xQueueReceive does not wait.
ReceivePolls ==
  /\ LoopGoes("receive", "lookup")
  /\ queue = "open" /\ qOwner = Nobody /\ items = << >>
  /\ fresh' = FALSE
  /\ UNCHANGED <<platVars, cancelled, loopVars, kpc, cleared, gen, undefined>>

ReceiveParks ==
  /\ LoopGoes("receive", "parked")
  /\ queue = "open" /\ qOwner = Nobody /\ items = << >>
  /\ UNCHANGED <<platVars, cancelled, loopVars, kpc, histVars>>

\* The queue is locked, or its mutex owner is dead: xQueueReceive returns
\* pdFAIL, which eventloop_platform_queue_receive does not look at.
ReceiveFails ==
  /\ LoopGoes("receive", "lookup")
  /\ fresh' = FALSE
  /\ \/ /\ qOwner = Nobody /\ queue = "locked"
        /\ tpc' = Wake(tpc)
        /\ UNCHANGED qOwner
     \/ /\ OwnerDead
        /\ qOwner' = Loop
        /\ UNCHANGED tpc
  /\ UNCHANGED <<cs, err, queue, items, dying, cancelled, loopVars, kpc, cleared, gen, undefined>>

\* duk_get_prop finds the function, or the callback was destroyed meanwhile.
Lookup ==
  /\ lpc = "lookup"
  /\ IF received.id \in stash THEN lpc' = "js" /\ back' = "complete"
                              ELSE lpc' = "complete" /\ UNCHANGED back
  /\ UNCHANGED <<platVars, cancelled, received, callbacks, stash, kind, seq,
                 target, after, kpc, histVars>>

\* completion_handler of the received copy; _timer_callback_completion reads
\* the timer item its user_data points to.
Complete ==
  /\ lpc = "complete"
  /\ CASE ~received.oneShot ->
            /\ lpc' = "receive"
            /\ UNCHANGED <<platVars, cancelled, loopVars, kpc, histVars>>
       [] received.oneShot /\ received.gen = gen /\ received.id \in callbacks ->
            /\ lpc' = "enter" /\ target' = received.id /\ after' = "receive"
            /\ UNCHANGED <<platVars, cancelled, received, callbacks, stash, kind,
                           seq, back, kpc, histVars>>
       [] OTHER -> Undefined("use after free")

\* _timer_cleanup: the critical section, then cancel.
CleanupEnter ==
  /\ LoopGoes("enter", "join")
  /\ cs = Nobody
  /\ cs' = Loop
  /\ dying' = dying \cup {target}
  /\ UNCHANGED <<err, queue, items, qOwner, tpc, cancelled, loopVars, kpc, histVars>>

\* MUTANT of DestroyCallback: the function stays in the stash.
DestroyStruct(c) == callbacks' = callbacks \ {c} /\ UNCHANGED stash

\* eventloop_callback_destroy.
DestroyCallback(c) == callbacks' = callbacks \ {c} /\ stash' = stash \ {c}

\* MUTANT of CleanupJoin: the timer thread is not joined.
CleanupNoJoin ==
  /\ LoopGoes("join", after)
  /\ DestroyCallback(target)
  /\ cs' = Nobody
  /\ UNCHANGED <<err, queue, items, qOwner, tpc, dying, cancelled, received, kind,
                 seq, back, target, after, kpc, histVars>>

\* _timer_cleanup: join, destroy the callback, free the timer, leave.
CleanupJoin ==
  /\ LoopGoes("join", after)
  /\ tpc[target] = "gone"
  /\ DestroyCallback(target)
  /\ cs' = Nobody
  /\ UNCHANGED <<err, queue, items, qOwner, tpc, dying, cancelled, received, kind,
                 seq, back, target, after, kpc, histVars>>

LoopStep == \/ TaskStart \/ Boot \/ StartThread \/ Return \/ Receive \/ ReceiveParks \/ ReceiveFails
            \/ Lookup \/ Complete \/ CleanupEnter \/ CleanupJoin

Script == \/ \E what \in Kinds : SetTimer(what)
          \/ \E c \in Ids : ClearTimer(c)

\* The cancellation is delivered: anywhere, except where the critical section
\* has turned it off.  A thread that dies inside xQueueReceive may own the
\* mutex, and one parked there takes it before it dies.
LoopDies ==
  /\ cancelled
  /\ \/ /\ lpc \in {"boot", "js", "create", "receive", "lookup", "complete"}
        /\ lpc' = "dead"
        /\ UNCHANGED qOwner
     \/ /\ lpc \in {"receive", "unwind"}
        /\ qOwner = Nobody \/ OwnerDead
        /\ lpc' = "dead"
        /\ qOwner' = Loop
     \/ /\ LoopGoes("parked", "unwind")
        /\ UNCHANGED qOwner
  /\ UNCHANGED <<cs, err, queue, items, tpc, dying, cancelled, loopVars, kpc, histVars>>

------------------------------------------------------------------------------
\* The controllers: kill_eventloop_thread and start_eventloop_thread.

ControllerGoes(k, from, to) == kpc[k] = from /\ kpc' = [kpc EXCEPT ![k] = to]

RequestKill(k) ==
  /\ ControllerGoes(k, "run", "kill")
  /\ gen + Cardinality({j \in Controllers : kpc[j] \notin {"run", "killed"}}) < MaxKills
  /\ UNCHANGED <<platVars, lpc, cancelled, loopVars, histVars>>

\* err is set: there is no loop to kill.
KillNothing(k) ==
  /\ ControllerGoes(k, "kill", "killed")
  /\ cs = Nobody /\ err # 0
  /\ queue' = "null"
  /\ UNCHANGED <<cs, err, items, qOwner, tpc, dying, lpc, cancelled, loopVars, histVars>>

\* MUTANT of KillEnter: no retry while the loop has no queue yet.
KillEnterEarly(k) ==
  /\ ControllerGoes(k, "kill", "lockqueue")
  /\ cs = Nobody /\ err = 0
  /\ cs' = k
  /\ UNCHANGED <<err, queue, items, qOwner, tpc, dying, lpc, cancelled, loopVars, histVars>>

\* The loop was started but has no queue yet: leave and retry (a stutter).
\* Otherwise stay in the critical section.
KillEnter(k) ==
  /\ ControllerGoes(k, "kill", "lockqueue")
  /\ cs = Nobody /\ err = 0 /\ queue # "null"
  /\ cs' = k
  /\ UNCHANGED <<err, queue, items, qOwner, tpc, dying, lpc, cancelled, loopVars, histVars>>

KillLockQueue(k) ==
  /\ ControllerGoes(k, "lockqueue", "cancel")
  /\ queue' = "locked"
  /\ UNCHANGED <<cs, err, items, qOwner, tpc, dying, lpc, cancelled, loopVars, histVars>>

KillCancel(k) ==
  /\ ControllerGoes(k, "cancel", "join")
  /\ cancelled' = TRUE
  /\ UNCHANGED <<platVars, lpc, loopVars, histVars>>

\* MUTANT of KillJoin: the cancelled loop is not joined.
KillNoJoin(k) ==
  /\ ControllerGoes(k, "join", "clear")
  /\ UNCHANGED <<platVars, lpc, cancelled, loopVars, histVars>>

KillJoin(k) ==
  /\ ControllerGoes(k, "join", "clear")
  /\ lpc = "dead"
  /\ UNCHANGED <<platVars, lpc, cancelled, loopVars, histVars>>

Alive(c) == tpc[c] \notin {"none", "gone"}

\* The first timer of the list that is not joined yet.
NextTimer(c) == /\ c \in callbacks /\ Alive(c)
                /\ \A d \in callbacks : d < c => ~Alive(d)

\* clear_eventloop, eventloop_platform_timers_cleanup: cancel and join the
\* timers one after the other, in the order they were started.  The pthread_t
\* of an item that was linked and got no thread was never set.
KillTimer(k) ==
  /\ kpc[k] = "clear"
  /\ \E c \in Ids :
       /\ NextTimer(c)
       /\ IF tpc[c] = "linked"
          THEN Undefined("no thread")
          ELSE /\ dying' = dying \cup {c}
               /\ UNCHANGED <<cs, err, queue, items, qOwner, tpc, lpc, cancelled, loopVars,
                              kpc, histVars>>

\* The rest of clear_eventloop: callbacks and heap are freed, ids restart.
ClearEventLoop == callbacks' = {} /\ stash' = {} /\ cleared' = {} /\ seq' = 0

\* The rest of the kill: the queue is deleted.
KillFinish(k) ==
  /\ ControllerGoes(k, "clear", "killed")
  /\ \A c \in callbacks : ~Alive(c)
  /\ ClearEventLoop
  /\ tpc' = [c \in Ids |-> IF Alive(c) THEN tpc[c] ELSE "none"]
  /\ queue' = "null" /\ items' = << >> /\ qOwner' = Nobody /\ dying' = {}
  /\ err' = -1 /\ cs' = Nobody
  /\ gen' = gen + 1
  /\ UNCHANGED <<lpc, cancelled, received, kind, back, target, after, fresh, undefined>>

\* start_eventloop_thread.  A second loop over the same statics is undefined.
Start(k) ==
  /\ kpc[k] = "killed"
  /\ cs = Nobody
  /\ IF lpc \in {"none", "dead"}
     THEN /\ lpc' = "born" /\ cancelled' = FALSE /\ err' = 0
          /\ kpc' = [kpc EXCEPT ![k] = "run"]
          /\ UNCHANGED <<cs, queue, items, qOwner, tpc, dying, loopVars, histVars>>
     ELSE Undefined("two loops")

KillStep(k) == \/ KillNothing(k) \/ KillEnter(k) \/ KillLockQueue(k) \/ KillCancel(k)
               \/ KillJoin(k) \/ KillTimer(k) \/ KillFinish(k) \/ Start(k)

Next ==
  /\ undefined = "no"
  /\ \/ \E c \in Ids : TimerStep(c)
     \/ LoopStep \/ Script \/ LoopDies
     \/ \E k \in Controllers : RequestKill(k) \/ KillStep(k)

Spec == Init /\ [][Next]_vars

\* Every thread runs: timers expire, a callback's JavaScript returns, a
\* cancellation arrives.  A thread waiting for a mutex that is free again and
\* again gets it at last where dying depends on it (an interval timer sleeps
\* between two pushes); elsewhere nothing is said about who wins a mutex.
Running(A) == undefined = "no" /\ A

Fairness == /\ \A c \in Ids : WF_vars(Running(TimerStep(c))) /\ SF_vars(Running(TimerDies(c)))
            /\ WF_vars(Running(LoopStep)) /\ SF_vars(Running(LoopDies))
            /\ \A k \in Controllers : SF_vars(Running(KillStep(k)))

FairSpec == Spec /\ Fairness

------------------------------------------------------------------------------
\* The queue's mutex belongs to a thread that is dead or does not know it: for
\* good, the code has no way to repair it.
QueueLost == \/ OwnerDead
             \/ qOwner = Loop
             \/ qOwner \in Ids /\ tpc[qOwner] # "hold"

Queued(c) == \E i \in DOMAIN items : items[i].id = c

\* What is freed is touched only by one of three mistakes.  A handle stays good
\* until the program itself clears it, or its timeout has fired and its copy
\* has left the queue: only then is clearing it a use after free
\* (eventloop.c:79-85, unix eventloop.c:206).  And a one-shot copy finds its
\* timer item on completion, unless the program cleared the timeout while the
\* copy was queued, or a kill has shut the queue or a cancelled timer has taken
\* its mutex, so that an old copy is completed again (eventloop.c:222, unix
\* eventloop.c:132-139).  After a kill the next incarnation starts afresh.
NoUseAfterFree ==
  /\ \A c \in Ids : c < seq /\ c \notin callbacks \cup cleared =>
       kind[c] = "timeout" /\ tpc[c] = "gone" /\ ~Queued(c)
  /\ lpc = "complete" /\ received.oneShot =>
       \/ received.gen = gen /\ received.id \in callbacks \cup cleared
       \/ queue # "open" \/ QueueLost

\* No timer thread outlives its timer item, which it reads after every push,
\* and its callback, which it copies (unix eventloop.c:149-150): whoever frees
\* them has joined the thread before.
NoTimerOutlivesItem == \A c \in Ids : Alive(c) => c \in callbacks

\* Between kill and start nothing of the old incarnation is left running: no
\* timer thread that could push into the deleted queue, no loop thread
\* (unix eventloop.c:74-94).
KillLeavesNothing ==
  queue = "null" => (\A c \in Ids : ~Alive(c)) /\ lpc \in {"none", "born", "dead"}

\* A callback is executed only while it exists: never after it was cleared,
\* however many copies of it were still queued (eventloop.c:210-213).
ClearedStaysSilent ==
  [][lpc = "lookup" /\ lpc' = "js" => received.id \in callbacks]_vars

\* The loop goes on with an old copy, left by an earlier receive or an earlier
\* incarnation, only when a kill has shut the queue or the queue is lost: the
\* result nobody looks at (unix eventloop.c:102) matters to a dying loop only.
StaleOnlyAfterFailure == lpc = "lookup" /\ ~fresh => queue # "open" \/ QueueLost

Runs(c) == lpc = "js" /\ back = "complete" /\ received.id = c

\* What may keep queued copies from being executed at all: a kill, the lost
\* queue, or the program touching what is freed, here by clearing a handle twice.
FiringsEnd == queue # "open" \/ QueueLost \/ undefined = "use after free"

\* A timer that fired gets its callback executed, unless it is cleared or
\* FiringsEnd, although the other timers may win the queue's mutex every time;
\* and a one-shot timer that fired is destroyed afterwards (eventloop.c:207-224).
FiringsComplete ==
  \A c \in Ids :
    /\ Queued(c) ~> Runs(c) \/ c \notin stash \/ FiringsEnd
    /\ Queued(c) /\ kind[c] = "timeout" ~> c \notin callbacks \/ FiringsEnd

\* The two ways a kill can hang for ever: the loop waits, cancellation off, at
\* the gate of the critical section a killer is in (unix eventloop.c:107 and
\* :86), or a cancelled thread has to take the queue's lost mutex to die.
GateDeadlock == lpc = "enter" /\ \E k \in Controllers : cs = k /\ kpc[k] = "join"
MutexDeadlock == QueueLost /\ (lpc = "unwind" \/ \E c \in Ids : tpc[c] = "unwind")

\* A kill comes to its end, or hangs in one of these two ways, or the program
\* stops being defined before: by a use after free of the loop that is still
\* running, by the kill itself joining a thread that setTimeout had not created
\* yet when it was cancelled (unix eventloop.c:158-159 and :184-199), or by the
\* second loop another controller starts.
KillEnds ==
  \A k \in Controllers :
    kpc[k] = "kill" ~> \/ kpc[k] = "killed"
                       \/ [](GateDeadlock \/ MutexDeadlock)
                       \/ undefined \in {"use after free", "no thread", "two loops"}

==============================================================================
