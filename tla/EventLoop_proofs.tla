-------------------------- MODULE EventLoop_proofs --------------------------
(***************************************************************************)
(* Proofs about EventLoop, for any number of killers, timers, kills and    *)
(* any length of the queue: what a kill leaves behind, that no thread uses *)
(* a timer item that was freed, and when a callback still runs.            *)
(***************************************************************************)
EXTENDS EventLoop, FiniteSetTheorems, TLAPS

Inside == {"lockqueue", "cancel", "join", "clear"}

Killing == {j \in Controllers : kpc[j] \notin {"run", "killed"}}

\* Every kill under way has its number.
KillsCounted == gen + Cardinality(Killing) <= MaxKills

\* Who is in the critical section, and what that keeps the others from.
SectionInv ==
  /\ \A k \in Controllers : kpc[k] \in Inside <=> cs = k
  /\ cs = Loop <=> lpc = "join"
  /\ \A k \in Controllers : kpc[k] \in Inside => queue # "null" /\ err = 0
  /\ \A k \in Controllers : kpc[k] = "clear" => lpc = "dead"

\* A loop that has ended was cancelled, by a kill that is not over or has set err.
LoopInv ==
  /\ lpc \in {"unwind", "dead"} => cancelled
  /\ cancelled => err = -1 \/ \E k \in Controllers : kpc[k] \in {"join", "clear"}
  /\ lpc = "none" => err = -1
  /\ err = -1 => queue = "null" /\ lpc \in {"none", "dead"}
  /\ lpc = "born" => queue = "null"
  /\ queue = "null" => lpc \in {"none", "born", "dead"}

\* Timers and callbacks are of this incarnation, and end with it.
ItemInv ==
  /\ NoTimerOutlivesItem
  /\ stash = callbacks
  /\ \A c \in callbacks \cup cleared : c < seq
  /\ queue = "null" => callbacks = {} /\ cleared = {} /\ items = << >>

\* A thread past its lock owns the mutex.
HoldInv == \A c \in Ids : tpc[c] = "hold" => qOwner = c

\* The copies of callbacks say what their originals are.
CopyInv ==
  /\ \A i \in DOMAIN items :
       /\ items[i].gen = gen /\ items[i].id < seq
       /\ items[i].oneShot <=> kind[items[i].id] = "timeout"
  /\ received.gen <= gen
  /\ received.gen = gen /\ received.oneShot => received.id < seq /\ kind[received.id] = "timeout"

Lost == qOwner = Loop \/ (qOwner \in Ids /\ tpc[qOwner] # "hold")
Sound == queue = "open" /\ ~Lost

\* The copy received last has not been completed yet.
Serving == \/ lpc \in {"lookup", "complete"}
           \/ back = "complete" /\ (lpc \in {"js", "create"} \/ (lpc \in {"enter", "join"} /\ after = "js"))

Fired(c) == tpc[c] \in {"pushed", "gone"}

\* A one-shot timer pushes one copy, which is in the queue or received; what is
\* being cleaned up was cleared or is the timeout received; and what is gone was
\* cleared, or is a timeout whose copy has been received.
OnceInv ==
  /\ \A i \in DOMAIN items : items[i].oneShot =>
       /\ Fired(items[i].id)
       /\ \A j \in DOMAIN items : items[j].id = items[i].id => j = i
  /\ received.gen = gen /\ received.oneShot => Fired(received.id) /\ ~Queued(received.id)
  /\ lpc \in {"enter", "join"} =>
       \/ after = "js" /\ target \in cleared
       \/ after = "receive" /\ received.oneShot /\ received.gen = gen /\ received.id = target
  /\ \A c \in Ids : c < seq /\ c \notin callbacks \cup cleared =>
       kind[c] = "timeout" /\ tpc[c] = "gone" /\ ~Queued(c)

\* A sound loop serves the copy it has just received, and knows its original.
ServeInv ==
  Sound /\ Serving =>
    /\ fresh
    /\ received.oneShot => received.gen = gen /\ received.id \in callbacks \cup cleared

IInv == /\ TypeOK /\ KillsCounted /\ SectionInv /\ LoopInv /\ ItemInv /\ HoldInv /\ CopyInv
        /\ OnceInv /\ ServeInv

------------------------------------------------------------------------------
\* What the assumption says of the constants, with Ids expanded.
LEMMA ConstantTypes ==
  /\ Ids = 0 .. MaxCallbacks - 1 /\ MaxCallbacks \in Nat \ {0} /\ MaxKills \in Nat /\ 0 \in Ids
  /\ Kinds \subseteq {"interval", "timeout"}
  /\ Length \in Nat \ {0} /\ IsFiniteSet(Controllers)
  /\ Loop # Nobody /\ {Loop, Nobody} \cap (Ids \cup Controllers) = {}
BY EventLoopAssumption DEF Ids

\* The kills under way can be counted.
LEMMA KillingIsFinite ==
  /\ IsFiniteSet(Killing) /\ Cardinality(Killing) \in Nat
  /\ Cardinality(Killing)' \in Nat
<1>1. Killing \in SUBSET Controllers /\ Killing' \in SUBSET Controllers
  BY DEF Killing
<1>2. IsFiniteSet(Killing) /\ IsFiniteSet(Killing')
  BY <1>1, ConstantTypes, FS_Subset
<1> QED BY <1>2, FS_CardinalityType

\* What a step of a timer thread leaves alone.
LEMMA TimerSteps ==
  ASSUME TypeOK, NEW c \in Ids, TimerStep(c)
  PROVE  /\ UNCHANGED <<cs, err, queue, dying, cancelled, loopVars, kpc, histVars>>
         /\ lpc' = lpc \/ (lpc = "parked" /\ lpc' = "receive")
         /\ \A d \in Ids \ {c} : tpc'[d] = tpc[d] \/ (tpc[d] = "parked" /\ tpc'[d] = "lock")
         /\ tpc[c] \notin {"none", "gone"}
<1> USE DEF TypeOK, TimerFrame, TimerGoes
<1>1. CASE Fire(c) \/ TimerLock(c) \/ TimerLockFails(c) \/ TimerPark(c) \/ Repeat(c)
  BY <1>1 DEF Fire, TimerLock, TimerLockFails, TimerPark, Repeat
<1>2. CASE Push(c)
  BY <1>2 DEF Push, Wake, WakeLoop
<1>3. CASE TimerDies(c)
  BY <1>3 DEF TimerDies
<1> QED BY <1>1, <1>2, <1>3 DEF TimerStep

\* The program starts in the invariant.
LEMMA InitInvariant == Init => IInv
<1> SUFFICES ASSUME Init PROVE IInv
  OBVIOUS
<1>1. TypeOK
  <2>1. received \in Copies
    BY ConstantTypes DEF Init, Copies
  <2>2. items \in Seq(Copies) /\ Len(items) <= Length
    BY ConstantTypes DEF Init
  <2>3. /\ cs \in Controllers \cup {Loop, Nobody} /\ err \in {-1, 0}
        /\ queue \in {"null", "open", "locked"} /\ qOwner \in Ids \cup {Loop, Nobody}
        /\ dying \subseteq Ids /\ cancelled \in BOOLEAN /\ fresh \in BOOLEAN
        /\ lpc = "none" /\ undefined = "no"
    BY DEF Init
  <2>4. /\ tpc \in [Ids -> {"none"}] /\ kind \in [Ids -> {"interval"}]
        /\ kpc \in [Controllers -> {"run", "killed"}]
    BY DEF Init
  <2>5. /\ callbacks \subseteq Ids /\ stash \subseteq Ids /\ cleared \subseteq Ids
        /\ seq \in 0 .. MaxCallbacks /\ target \in Ids /\ gen \in 0 .. MaxKills
        /\ back = "receive" /\ after = "js"
    BY ConstantTypes DEF Init
  <2> QED BY <2>1, <2>2, <2>3, <2>4, <2>5 DEF TypeOK
<1>2. KillsCounted
  <2>1. Killing = {}
    BY DEF Killing, Init
  <2>2. Cardinality(Killing) = 0 /\ gen = 0
    BY <2>1, FS_EmptySet DEF Init
  <2> QED BY <2>2, ConstantTypes DEF KillsCounted
<1>3. SectionInv
  BY ConstantTypes DEF Init, SectionInv, Inside
<1>4. LoopInv
  BY DEF Init, LoopInv
<1>5. ItemInv /\ HoldInv
  BY DEF Init, ItemInv, NoTimerOutlivesItem, Alive, HoldInv
<1>6. CopyInv
  BY DEF Init, CopyInv
<1>7. OnceInv /\ ServeInv
  BY DEF Init, OnceInv, ServeInv, Serving, Sound
<1> QED BY <1>1, <1>2, <1>3, <1>4, <1>5, <1>6, <1>7 DEF IInv

------------------------------------------------------------------------------
\* A kill that begins or ends changes the number of those under way by one.
LEMMA KillingOf ==
  ASSUME TypeOK, NEW k \in Controllers
  PROVE  /\ \A to : kpc[k] = "run" /\ to \notin {"run", "killed"} /\ kpc' = [kpc EXCEPT ![k] = to]
               => Cardinality(Killing)' = Cardinality(Killing) + 1
         /\ \A to : kpc[k] \notin {"run", "killed"} /\ to = "killed" /\ kpc' = [kpc EXCEPT ![k] = to]
               => Cardinality(Killing)' = Cardinality(Killing) - 1
         /\ \A to : (kpc[k] \in {"run", "killed"} <=> to \in {"run", "killed"}) /\ kpc' = [kpc EXCEPT ![k] = to]
               => Killing' = Killing
<1>1. ASSUME NEW to, kpc[k] = "run", to \notin {"run", "killed"}, kpc' = [kpc EXCEPT ![k] = to]
      PROVE  Cardinality(Killing)' = Cardinality(Killing) + 1
  <2>1. Killing' = Killing \cup {k} /\ k \notin Killing
    BY <1>1 DEF Killing, TypeOK
  <2> QED BY <2>1, KillingIsFinite, FS_AddElement
<1>2. ASSUME NEW to, kpc[k] \notin {"run", "killed"}, to = "killed", kpc' = [kpc EXCEPT ![k] = to]
      PROVE  Cardinality(Killing)' = Cardinality(Killing) - 1
  <2>1. Killing' = Killing \ {k} /\ k \in Killing
    BY <1>2 DEF Killing, TypeOK
  <2> QED BY <2>1, KillingIsFinite, FS_RemoveElement
<1>3. ASSUME NEW to, kpc[k] \in {"run", "killed"} <=> to \in {"run", "killed"},
             kpc' = [kpc EXCEPT ![k] = to]
      PROVE  Killing' = Killing
  BY <1>3 DEF Killing, TypeOK
<1> QED BY <1>1, <1>2, <1>3

\* A kill begins only where its number is left (kill is bounded by MaxKills).
LEMMA CountInvariant ==
  ASSUME TypeOK, KillsCounted, [Next]_vars
  PROVE  KillsCounted'
<1> USE DEF platVars, loopVars, histVars
<1>1. CASE UNCHANGED <<kpc, gen>>
  BY <1>1 DEF KillsCounted, Killing
<1>2. ASSUME NEW k \in Controllers, RequestKill(k) PROVE KillsCounted'
  <2>1. gen' = gen /\ gen + Cardinality(Killing) < MaxKills /\ kpc[k] = "run" /\ kpc' = [kpc EXCEPT ![k] = "kill"]
    BY <1>2 DEF RequestKill, ControllerGoes, Killing
  <2>2. Cardinality(Killing)' = Cardinality(Killing) + 1
    BY <2>1, KillingOf
  <2>3. gen \in Int /\ Cardinality(Killing) \in Int /\ MaxKills \in Int /\ gen + Cardinality(Killing) <= MaxKills
    <3>1. gen \in 0 .. MaxKills
      BY DEF TypeOK
    <3> QED BY <3>1, KillingIsFinite, ConstantTypes DEF KillsCounted
  <2>4. gen' + Cardinality(Killing)' <= MaxKills
    BY <2>1, <2>2, <2>3, SMT
  <2> QED BY <2>4 DEF KillsCounted
<1>3. ASSUME NEW k \in Controllers, KillNothing(k) PROVE KillsCounted'
  <2>1. gen' = gen /\ kpc[k] = "kill" /\ kpc' = [kpc EXCEPT ![k] = "killed"]
    BY <1>3 DEF KillNothing, ControllerGoes
  <2>2. Cardinality(Killing)' = Cardinality(Killing) - 1
    BY <2>1, KillingOf
  <2>3. gen \in Int /\ Cardinality(Killing) \in Int /\ MaxKills \in Int /\ gen + Cardinality(Killing) <= MaxKills
    <3>1. gen \in 0 .. MaxKills
      BY DEF TypeOK
    <3> QED BY <3>1, KillingIsFinite, ConstantTypes DEF KillsCounted
  <2>4. gen' + Cardinality(Killing)' <= MaxKills
    BY <2>1, <2>2, <2>3, SMT
  <2> QED BY <2>4 DEF KillsCounted
<1>4. ASSUME NEW k \in Controllers, KillFinish(k) PROVE KillsCounted'
  <2>1. gen' = gen + 1 /\ kpc[k] = "clear" /\ kpc' = [kpc EXCEPT ![k] = "killed"]
    BY <1>4 DEF KillFinish, ControllerGoes
  <2>2. Cardinality(Killing)' = Cardinality(Killing) - 1
    BY <2>1, KillingOf
  <2>3. gen \in Int /\ Cardinality(Killing) \in Int /\ MaxKills \in Int /\ gen + Cardinality(Killing) <= MaxKills
    <3>1. gen \in 0 .. MaxKills
      BY DEF TypeOK
    <3> QED BY <3>1, KillingIsFinite, ConstantTypes DEF KillsCounted
  <2>4. gen' + Cardinality(Killing)' <= MaxKills
    BY <2>1, <2>2, <2>3, SMT
  <2> QED BY <2>4 DEF KillsCounted
<1>5. ASSUME NEW k \in Controllers,
             KillEnter(k) \/ KillLockQueue(k) \/ KillCancel(k) \/ KillJoin(k)
      PROVE  KillsCounted'
  <2>1. gen' = gen /\ \E to \in {"lockqueue", "cancel", "join", "clear"} :
                         kpc[k] \notin {"run", "killed"} /\ kpc' = [kpc EXCEPT ![k] = to]
    BY <1>5 DEF KillEnter, KillLockQueue, KillCancel, KillJoin, ControllerGoes
  <2>2. Killing' = Killing
    BY <2>1, KillingOf
  <2> QED BY <2>1, <2>2 DEF KillsCounted
<1>6. ASSUME NEW k \in Controllers, Start(k) PROVE KillsCounted'
  <2>1. CASE UNCHANGED <<kpc, gen>>
    BY <1>1, <2>1
  <2>2. CASE ~UNCHANGED <<kpc, gen>>
    <3>1. gen' = gen /\ kpc[k] = "killed" /\ kpc' = [kpc EXCEPT ![k] = "run"]
      BY <1>6, <2>2 DEF Start, Undefined
    <3>2. Killing' = Killing
      BY <3>1, KillingOf
    <3> QED BY <3>1, <3>2 DEF KillsCounted
  <2> QED BY <2>1, <2>2
<1>7. ASSUME NEW c \in Ids, TimerStep(c) PROVE UNCHANGED <<kpc, gen>>
  BY <1>7, TimerSteps
<1>8. ASSUME LoopStep \/ Script \/ LoopDies PROVE UNCHANGED <<kpc, gen>>
  BY <1>8 DEF LoopStep, Script, LoopDies, TaskStart, Boot, StartThread, Return, Receive, ReceiveParks, ReceiveFails,
              Lookup, Complete, CleanupEnter, CleanupJoin, SetTimer, ClearTimer, Undefined
<1>9. ASSUME NEW k \in Controllers, KillTimer(k) PROVE UNCHANGED <<kpc, gen>>
  BY <1>9 DEF KillTimer, Undefined
<1>10. CASE UNCHANGED vars
  BY <1>1, <1>10 DEF vars
<1> QED BY <1>1, <1>2, <1>3, <1>4, <1>5, <1>6, <1>7, <1>8, <1>9, <1>10 DEF Next, KillStep

------------------------------------------------------------------------------
\* TypeOK, in parts.
QueueTypes == items \in Seq(Copies) /\ Len(items) <= Length
ThreadTypes ==
  /\ cs \in Controllers \cup {Loop, Nobody} /\ err \in {-1, 0}
  /\ queue \in {"null", "open", "locked"} /\ qOwner \in Ids \cup {Loop, Nobody}
  /\ lpc \in {"none", "born", "boot", "js", "create", "receive", "lookup",
              "complete", "enter", "join", "parked", "unwind", "dead"}
  /\ cancelled \in BOOLEAN /\ dying \subseteq Ids
TableTypes ==
  /\ tpc \in [Ids -> {"none", "linked", "sleep", "lock", "hold", "parked", "pushed", "unwind", "gone"}]
  /\ kpc \in [Controllers -> {"run", "kill", "lockqueue", "cancel", "join", "clear", "killed"}]
LoopTypes ==
  /\ callbacks \subseteq Ids /\ stash \subseteq Ids
  /\ kind \in [Ids -> {"interval", "timeout"}]
  /\ seq \in 0 .. MaxCallbacks /\ target \in Ids
  /\ back \in {"receive", "complete"} /\ after \in {"js", "receive"}
HistoryTypes ==
  /\ received \in Copies /\ cleared \subseteq Ids
  /\ gen \in 0 .. MaxKills /\ fresh \in BOOLEAN
  /\ undefined \in {"no", "use after free", "no thread", "two loops"}

\* The type invariant, taken apart by what a step changes.
LEMMA TypeParts ==
  /\ TypeOK <=> QueueTypes /\ ThreadTypes /\ TableTypes /\ LoopTypes /\ HistoryTypes
  /\ TypeOK' <=> QueueTypes' /\ ThreadTypes' /\ TableTypes' /\ LoopTypes' /\ HistoryTypes'
BY DEF TypeOK, QueueTypes, ThreadTypes, TableTypes, LoopTypes, HistoryTypes

\* The queue keeps its type when a copy is taken or added.
LEMMA ItemsTypes ==
  ASSUME QueueTypes
  PROVE  /\ items # << >> => Head(items) \in Copies /\ Tail(items) \in Seq(Copies) /\ Len(Tail(items)) <= Length
         /\ << >> \in Seq(Copies) /\ Len(<< >>) <= Length
         /\ \A v \in Copies : Len(items) < Length =>
              Append(items, v) \in Seq(Copies) /\ Len(Append(items, v)) <= Length
BY ConstantTypes DEF QueueTypes

\* The ids that are at hand.
LEMMA TypeTypes ==
  ASSUME TypeOK
  PROVE  /\ target \in Ids /\ received.id \in Ids
         /\ \A i \in DOMAIN items : items[i] \in Copies /\ items[i].id \in Ids
<1>1. \A v \in Copies : v.id \in Ids
  BY DEF Copies
<1>2. \A i \in DOMAIN items : items[i] \in Copies
  BY TypeParts DEF QueueTypes
<1> QED BY <1>1, <1>2, TypeParts DEF LoopTypes, HistoryTypes

\* The queue keeps its type.
LEMMA QueueTypesKept ==
  ASSUME TypeOK, [Next]_vars
  PROVE  QueueTypes'
<1> QueueTypes
  BY TypeParts
<1>1. CASE items' = items
  BY <1>1 DEF QueueTypes
<1>2. CASE items' = << >>
  BY <1>2, ItemsTypes DEF QueueTypes
<1>3. CASE items # << >> /\ items' = Tail(items)
  BY <1>3, ItemsTypes DEF QueueTypes
<1>4. ASSUME NEW c \in Ids, Push(c) PROVE QueueTypes'
  <2>1. [id |-> c, oneShot |-> kind[c] = "timeout", gen |-> gen] \in Copies
    BY TypeParts DEF LoopTypes, HistoryTypes, Copies
  <2>2. CASE items' = items
    BY <2>2, <1>1
  <2>3. CASE /\ Len(items) < Length
             /\ items' = Append(items, [id |-> c, oneShot |-> kind[c] = "timeout", gen |-> gen])
    BY <2>1, <2>3, ItemsTypes DEF QueueTypes
  <2> QED BY <1>4, <2>2, <2>3 DEF Push
<1>5. ASSUME NEW c \in Ids, TimerStep(c) PROVE Push(c) \/ items' = items
  BY <1>5 DEF TimerStep, Fire, TimerLock, TimerLockFails, TimerPark, Repeat, TimerDies
<1>6. LoopStep \/ Script \/ LoopDies => items' \in {items, << >>} \/ (items # << >> /\ items' = Tail(items))
  BY DEF LoopStep, Script, LoopDies, TaskStart, Boot, StartThread, Return, Receive, ReceiveParks, ReceiveFails,
         Lookup, Complete, CleanupEnter, CleanupJoin, SetTimer, ClearTimer, Undefined, platVars
<1>7. ASSUME NEW k \in Controllers, RequestKill(k) \/ KillStep(k) PROVE items' \in {items, << >>}
  BY <1>7 DEF KillStep, RequestKill, KillNothing, KillEnter, KillLockQueue, KillCancel, KillJoin, KillTimer,
              KillFinish, Start, Undefined, platVars
<1>8. CASE UNCHANGED vars
  BY <1>1, <1>8 DEF vars, platVars
<1> QED BY <1>1, <1>2, <1>3, <1>4, <1>5, <1>6, <1>7, <1>8 DEF Next

\* Every step keeps the types.
LEMMA TypeInvariant ==
  ASSUME TypeOK, KillsCounted, [Next]_vars
  PROVE  TypeOK'
<1> USE DEF platVars, loopVars, histVars
<1>t. ThreadTypes /\ TableTypes /\ LoopTypes /\ HistoryTypes
  BY TypeParts
<1>1. ThreadTypes'
  <2>1. ASSUME NEW c \in Ids, TimerStep(c) PROVE ThreadTypes'
    <3>1. UNCHANGED <<cs, err, queue, dying, cancelled>> /\ lpc' \in {lpc, "receive"}
      BY <2>1, TimerSteps
    <3>2. qOwner' \in {qOwner, c, Nobody}
      BY <2>1 DEF TimerStep, Fire, TimerLock, TimerLockFails, TimerPark, Push, Repeat, TimerDies
    <3> QED BY <1>t, <3>1, <3>2 DEF ThreadTypes
  <2>2. ASSUME LoopStep PROVE ThreadTypes'
    <3>1. /\ cs' \in {cs, Loop, Nobody} /\ queue' \in {queue, "open"} /\ qOwner' \in {qOwner, Loop, Nobody}
          /\ lpc' \in {lpc, "boot", "js", "receive", "complete", "lookup", "parked", "enter", "join", back, after}
          /\ dying' \in {dying, dying \cup {target}} /\ UNCHANGED <<err, cancelled>>
      BY <2>2 DEF LoopStep, TaskStart, Boot, StartThread, Return, Receive, ReceiveParks, ReceiveFails, Lookup, Complete,
                  CleanupEnter, CleanupJoin, LoopGoes, Undefined
    <3>2. target \in Ids /\ back \in {"receive", "complete"} /\ after \in {"js", "receive"}
      BY <1>t DEF LoopTypes
    <3> QED BY <1>t, <3>1, <3>2 DEF ThreadTypes
  <2>3. ASSUME Script \/ LoopDies PROVE ThreadTypes'
    <3>1. /\ lpc' \in {lpc, "create", "enter", "dead", "unwind"} /\ qOwner' \in {qOwner, Loop}
          /\ UNCHANGED <<cs, err, queue, cancelled, dying>>
      BY <2>3 DEF Script, LoopDies, SetTimer, ClearTimer, LoopGoes, Undefined
    <3> QED BY <1>t, <3>1 DEF ThreadTypes
  <2>4. ASSUME NEW k \in Controllers, RequestKill(k) \/ KillStep(k) PROVE ThreadTypes'
    <3>1. /\ cs' \in {cs, k, Nobody} /\ err' \in {err, -1, 0} /\ queue' \in {queue, "null", "locked"}
          /\ qOwner' \in {qOwner, Nobody} /\ lpc' \in {lpc, "born"}
          /\ cancelled' = cancelled \/ cancelled' = TRUE \/ cancelled' = FALSE
          /\ dying' = {} \/ \E c \in Ids : dying' \in {dying, dying \cup {c}}
      <4>1. ASSUME KillTimer(k) PROVE \E c \in Ids : dying' \in {dying, dying \cup {c}}
        BY <4>1, <1>t DEF KillTimer, NextTimer, Undefined, LoopTypes
      <4>2. ~KillTimer(k) => dying' \in {dying, {}}
        BY <2>4 DEF RequestKill, KillStep, KillNothing, KillEnter, KillLockQueue, KillCancel, KillJoin,
                    KillFinish, Start, Undefined
      <4>3. \E c \in Ids : TRUE
        BY ConstantTypes
      <4>4. /\ cs' \in {cs, k, Nobody} /\ err' \in {err, -1, 0} /\ queue' \in {queue, "null", "locked"}
            /\ qOwner' \in {qOwner, Nobody} /\ lpc' \in {lpc, "born"}
        BY <2>4 DEF RequestKill, KillStep, KillNothing, KillEnter, KillLockQueue, KillCancel, KillJoin,
                    KillTimer, KillFinish, Start, Undefined
      <4>5. cancelled' = cancelled \/ cancelled' = TRUE \/ cancelled' = FALSE
        BY <2>4 DEF RequestKill, KillStep, KillNothing, KillEnter, KillLockQueue, KillCancel, KillJoin,
                    KillTimer, KillFinish, Start, Undefined
      <4> QED BY <4>1, <4>2, <4>3, <4>4, <4>5
    <3>2. cancelled' \in BOOLEAN
      BY <1>t, <3>1, Zenon DEF ThreadTypes
    <3>3. dying' \subseteq Ids
      BY <1>t, <3>1 DEF ThreadTypes
    <3> QED BY <1>t, <3>1, <3>2, <3>3 DEF ThreadTypes
  <2>5. ASSUME UNCHANGED vars PROVE ThreadTypes'
    BY <1>t, <2>5 DEF vars, ThreadTypes
  <2> QED BY <2>1, <2>2, <2>3, <2>4, <2>5 DEF Next
<1>2. TableTypes'
  <2>w. Wake(tpc) \in [Ids -> {"none", "linked", "sleep", "lock", "hold", "parked", "pushed", "unwind", "gone"}]
    BY <1>t DEF Wake, TableTypes
  <2>1. UNCHANGED <<tpc, kpc>> => TableTypes'
    BY <1>t DEF TableTypes
  <2>2. ASSUME NEW c \in Ids, TimerStep(c) PROVE TableTypes'
    <3>1. kpc' = kpc
      BY <2>2, TimerSteps
    <3>2. \E to \in {"none", "linked", "sleep", "lock", "hold", "parked", "pushed", "unwind", "gone"} :
            tpc' = [tpc EXCEPT ![c] = to] \/ tpc' = [Wake(tpc) EXCEPT ![c] = to]
      BY <2>2 DEF TimerStep, Fire, TimerLock, TimerLockFails, TimerPark, Push, Repeat, TimerDies, TimerGoes
    <3> QED BY <1>t, <2>w, <3>1, <3>2 DEF TableTypes
  <2>3. ASSUME LoopStep \/ LoopDies PROVE TableTypes'
    <3>1. /\ kpc' = kpc
          /\ \/ tpc' \in {tpc, Wake(tpc)}
             \/ tpc' = [c \in Ids |-> IF tpc[c] = "linked" THEN "sleep" ELSE tpc[c]]
      BY <2>3 DEF LoopStep, TaskStart, Boot, StartThread, Return, Receive, ReceiveParks, ReceiveFails, Lookup, Complete,
                  CleanupEnter, CleanupJoin, LoopDies, Undefined
    <3> QED BY <1>t, <2>w, <3>1 DEF TableTypes
  <2>4. ASSUME NEW what \in Kinds, SetTimer(what) PROVE TableTypes'
    <3>1. kpc' = kpc /\ tpc' = [tpc EXCEPT ![seq] = "linked"]
      BY <2>4 DEF SetTimer
    <3> QED BY <1>t, <3>1 DEF TableTypes
  <2>5. ASSUME NEW c \in Ids, ClearTimer(c) PROVE TableTypes'
    BY <2>1, <2>5 DEF ClearTimer, Undefined
  <2>6. ASSUME NEW k \in Controllers, RequestKill(k) \/ KillStep(k) PROVE TableTypes'
    <3>1. \/ kpc' = kpc
          \/ \E to \in {"run", "kill", "lockqueue", "cancel", "join", "clear", "killed"} : kpc' = [kpc EXCEPT ![k] = to]
      BY <2>6 DEF RequestKill, KillStep, KillNothing, KillEnter, KillLockQueue, KillCancel, KillJoin,
                  KillTimer, KillFinish, Start, Undefined, ControllerGoes
    <3>2. tpc' = tpc \/ tpc' = [c \in Ids |-> IF Alive(c) THEN tpc[c] ELSE "none"]
      BY <2>6 DEF RequestKill, KillStep, KillNothing, KillEnter, KillLockQueue, KillCancel, KillJoin,
                  KillTimer, KillFinish, Start, Undefined
    <3> QED BY <1>t, <3>1, <3>2 DEF TableTypes
  <2> QED BY <2>1, <2>2, <2>3, <2>4, <2>5, <2>6 DEF Next, Script, vars
<1>3. LoopTypes'
  <2>1. UNCHANGED <<callbacks, stash, kind, seq, target, back, after>> => LoopTypes'
    BY <1>t DEF LoopTypes
  <2>2. ASSUME NEW c \in Ids, TimerStep(c) PROVE LoopTypes'
    BY <2>1, <2>2, TimerSteps
  <2>3. ASSUME Boot \/ Lookup \/ CleanupJoin PROVE LoopTypes'
    BY <1>t, <2>3 DEF LoopTypes, Boot, Lookup, CleanupJoin, DestroyCallback
  <2>4. ASSUME Complete PROVE LoopTypes'
    <3>1. received.id \in Ids
      BY <1>t DEF HistoryTypes, Copies
    <3> QED BY <1>t, <2>4, <3>1 DEF LoopTypes, Complete, Undefined
  <2>5. ASSUME NEW what \in Kinds, SetTimer(what) PROVE LoopTypes'
    <3>1. seq \in Ids /\ seq + 1 \in 0 .. MaxCallbacks /\ what \in {"interval", "timeout"}
      BY <1>t, <2>5, ConstantTypes DEF SetTimer, LoopTypes
    <3> QED BY <1>t, <2>5, <3>1 DEF SetTimer, CreateCallback, LoopTypes
  <2>6. ASSUME NEW c \in Ids, ClearTimer(c) PROVE LoopTypes'
    BY <1>t, <2>6 DEF ClearTimer, Undefined, LoopTypes
  <2>7. ASSUME NEW k \in Controllers, KillFinish(k) PROVE LoopTypes'
    BY <1>t, <2>7, ConstantTypes DEF KillFinish, ClearEventLoop, LoopTypes
  <2>8. ASSUME NEW k \in Controllers, RequestKill(k) \/ (KillStep(k) /\ ~KillFinish(k)) PROVE LoopTypes'
    BY <2>1, <2>8 DEF RequestKill, KillStep, KillNothing, KillEnter, KillLockQueue, KillCancel, KillJoin,
                      KillTimer, Start, Undefined
  <2>9. TaskStart \/ StartThread \/ Return \/ Receive \/ ReceiveParks \/ ReceiveFails \/ CleanupEnter \/ LoopDies => LoopTypes'
    BY <2>1 DEF TaskStart, StartThread, Return, Receive, ReceiveParks, ReceiveFails, CleanupEnter, LoopDies
  <2> QED BY <2>1, <2>2, <2>3, <2>4, <2>5, <2>6, <2>7, <2>8, <2>9 DEF Next, LoopStep, Script, vars
<1>4. HistoryTypes'
  <2>1. received' \in Copies
    <3>1. Receive => received' \in Copies
      BY TypeParts, ItemsTypes DEF Receive
    <3>2. Receive \/ received' = received
      <4>1. ASSUME NEW c \in Ids, TimerStep(c) PROVE received' = received
        BY <4>1, TimerSteps
      <4> QED BY <4>1 DEF Next, LoopStep, TaskStart, Boot, StartThread, Return, ReceiveParks, ReceiveFails, Lookup, Complete,
                  CleanupEnter, CleanupJoin, LoopDies, Script, SetTimer, ClearTimer, Undefined,
                  RequestKill, KillStep, KillNothing, KillEnter, KillLockQueue, KillCancel, KillJoin,
                  KillTimer, KillFinish, Start, vars
    <3> QED BY <1>t, <3>1, <3>2 DEF HistoryTypes
  <2>2. gen' \in 0 .. MaxKills
    <3>1. gen' + Cardinality(Killing)' <= MaxKills
      BY CountInvariant DEF KillsCounted
    <3>2. gen' \in {gen, gen + 1}
      <4>1. ASSUME NEW c \in Ids, TimerStep(c) PROVE gen' = gen
        BY <4>1, TimerSteps
      <4> QED BY <4>1 DEF Next, LoopStep, TaskStart, Boot, StartThread, Return, Receive, ReceiveParks, ReceiveFails, Lookup,
                  Complete, CleanupEnter, CleanupJoin, LoopDies, Script, SetTimer, ClearTimer, Undefined,
                  RequestKill, KillStep, KillNothing, KillEnter, KillLockQueue, KillCancel, KillJoin,
                  KillTimer, KillFinish, Start, vars
    <3>3. Cardinality(Killing)' \in Nat
      BY KillingIsFinite
    <3>4. gen \in 0 .. MaxKills
      BY <1>t DEF HistoryTypes
    <3> QED BY <3>1, <3>2, <3>3, <3>4, ConstantTypes
  <2>3. /\ fresh' = fresh \/ fresh' = TRUE \/ fresh' = FALSE
        /\ undefined' \in {undefined, "use after free", "no thread", "two loops"}
    <3>1. ASSUME NEW c \in Ids, TimerStep(c) PROVE UNCHANGED <<fresh, undefined>>
      BY <3>1, TimerSteps
    <3> QED BY <3>1 DEF Next, LoopStep, TaskStart, Boot, StartThread, Return, Receive, ReceiveParks, ReceiveFails, Lookup,
                  Complete, CleanupEnter, CleanupJoin, LoopDies, Script, SetTimer, ClearTimer, Undefined,
                  RequestKill, KillStep, KillNothing, KillEnter, KillLockQueue, KillCancel, KillJoin,
                  KillTimer, KillFinish, Start, vars
  <2>4. cleared' \subseteq Ids
    <3>1. ASSUME NEW c \in Ids, TimerStep(c) PROVE cleared' = cleared
      BY <3>1, TimerSteps
    <3>2. cleared' = cleared \/ cleared' = {} \/ \E c \in Ids : cleared' = cleared \cup {c}
      BY <3>1 DEF Next, LoopStep, TaskStart, Boot, StartThread, Return, Receive, ReceiveParks, ReceiveFails,
                  Lookup, Complete, CleanupEnter, CleanupJoin, LoopDies, Script, SetTimer, ClearTimer,
                  Undefined, RequestKill, KillStep, KillNothing, KillEnter, KillLockQueue, KillCancel,
                  KillJoin, KillTimer, KillFinish, ClearEventLoop, Start, vars
    <3> QED BY <1>t, <3>2 DEF HistoryTypes
  <2> QED BY <1>t, <2>1, <2>2, <2>3, <2>4 DEF HistoryTypes
<1> QED BY <1>1, <1>2, <1>3, <1>4, QueueTypesKept, TypeParts

------------------------------------------------------------------------------
\* Who is in the critical section, and when a loop has ended.
LEMMA SectionInvariant ==
  ASSUME TypeOK, SectionInv, LoopInv, [Next]_vars
  PROVE  SectionInv' /\ LoopInv'
<1> USE DEF platVars, loopVars, histVars
<1>t. /\ Loop \notin Controllers /\ Nobody \notin Controllers /\ Loop # Nobody
      /\ kpc \in [Controllers -> {"run", "kill", "lockqueue", "cancel", "join", "clear", "killed"}]
      /\ after \in {"js", "receive"} /\ back \in {"receive", "complete"} /\ err \in {-1, 0}
  BY TypeParts, ConstantTypes DEF TableTypes, LoopTypes, ThreadTypes
<1>1. ASSUME UNCHANGED <<cs, err, queue, cancelled, kpc>>,
             \/ lpc' = lpc
             \/ /\ lpc \notin {"none", "born", "dead", "join", "unwind"}
                /\ lpc' \notin {"none", "born", "dead", "join", "unwind"}
      PROVE  SectionInv' /\ LoopInv'
  BY <1>1 DEF SectionInv, LoopInv
<1>2. ASSUME NEW c \in Ids, TimerStep(c) PROVE SectionInv' /\ LoopInv'
  BY <1>1, <1>2, TimerSteps
<1>3. ASSUME \/ Boot \/ StartThread \/ Return \/ Receive \/ ReceiveParks \/ ReceiveFails \/ Lookup \/ Complete \/ Script
      PROVE  SectionInv' /\ LoopInv'
  <2>1. /\ UNCHANGED <<cs, err, queue, cancelled, kpc>>
        /\ \/ lpc' = lpc
           \/ /\ lpc \in {"boot", "js", "create", "receive", "lookup", "complete"}
              /\ lpc' \in {"js", "create", "receive", "complete", "lookup", "parked", "enter"}
    BY <1>3, <1>t DEF Boot, StartThread, Return, Receive, ReceiveParks, ReceiveFails, Lookup, Complete, Script, SetTimer,
                      ClearTimer, Undefined, LoopGoes
  <2> QED BY <1>1, <2>1
<1>4. ASSUME TaskStart PROVE SectionInv' /\ LoopInv'
  BY <1>4, <1>t DEF TaskStart, LoopGoes, SectionInv, LoopInv, Inside
<1>5. ASSUME CleanupEnter PROVE SectionInv' /\ LoopInv'
  BY <1>5, <1>t DEF CleanupEnter, LoopGoes, SectionInv, LoopInv, Inside
<1>6. ASSUME CleanupJoin PROVE SectionInv' /\ LoopInv'
  BY <1>6, <1>t DEF CleanupJoin, LoopGoes, SectionInv, LoopInv, Inside
<1>7. ASSUME LoopDies PROVE SectionInv' /\ LoopInv'
  <2>1. /\ UNCHANGED <<cs, err, queue, cancelled, kpc>> /\ cancelled
        /\ lpc \in {"boot", "js", "create", "receive", "lookup", "complete", "unwind", "parked"}
        /\ lpc' \in {"dead", "unwind"}
    BY <1>7 DEF LoopDies, LoopGoes
  <2> QED BY <2>1 DEF SectionInv, LoopInv
<1>8. ASSUME NEW k \in Controllers, RequestKill(k) \/ KillNothing(k) PROVE SectionInv' /\ LoopInv'
  <2>1. /\ UNCHANGED <<cs, err, lpc, cancelled>>
        /\ kpc[k] \in {"run", "kill"} /\ \E to \in {"kill", "killed"} : kpc' = [kpc EXCEPT ![k] = to]
        /\ queue' = queue \/ (queue' = "null" /\ err # 0)
    BY <1>8 DEF RequestKill, KillNothing, ControllerGoes
  <2>2. queue' = queue
    BY <1>t, <2>1 DEF LoopInv
  <2>3. \A j \in Controllers : /\ kpc'[j] \in Inside <=> kpc[j] \in Inside
                               /\ kpc'[j] \in {"join", "clear"} <=> kpc[j] \in {"join", "clear"}
                               /\ kpc'[j] = "clear" <=> kpc[j] = "clear"
    BY <1>t, <2>1 DEF Inside
  <2> QED BY <2>1, <2>2, <2>3 DEF SectionInv, LoopInv
<1>9. ASSUME NEW k \in Controllers, KillEnter(k) PROVE SectionInv' /\ LoopInv'
  BY <1>9, <1>t DEF KillEnter, ControllerGoes, SectionInv, LoopInv, Inside
<1>10. ASSUME NEW k \in Controllers, KillLockQueue(k) PROVE SectionInv' /\ LoopInv'
  <2>1. kpc[k] = "lockqueue" /\ kpc' = [kpc EXCEPT ![k] = "cancel"] /\ queue' = "locked"
        /\ UNCHANGED <<cs, err, lpc, cancelled>>
    BY <1>10 DEF KillLockQueue, ControllerGoes
  <2>2. \A j \in Controllers : /\ kpc'[j] \in Inside <=> kpc[j] \in Inside
                               /\ kpc'[j] \in {"join", "clear"} <=> kpc[j] \in {"join", "clear"}
                               /\ kpc'[j] = "clear" <=> kpc[j] = "clear"
    BY <1>t, <2>1 DEF Inside
  <2>3. queue # "null" /\ err = 0
    BY <2>1 DEF SectionInv, Inside
  <2>4. SectionInv'
    BY <2>1, <2>2, <2>3 DEF SectionInv
  <2>5. LoopInv'
    BY <2>1, <2>2, <2>3 DEF LoopInv
  <2> QED BY <2>4, <2>5
<1>11. ASSUME NEW k \in Controllers, KillCancel(k) PROVE SectionInv' /\ LoopInv'
  <2>1. kpc[k] = "cancel" /\ kpc' = [kpc EXCEPT ![k] = "join"] /\ UNCHANGED <<cs, err, lpc, queue>>
    BY <1>11 DEF KillCancel, ControllerGoes
  <2>2. kpc'[k] = "join" /\ \A j \in Controllers : /\ kpc'[j] \in Inside <=> kpc[j] \in Inside
                                                   /\ kpc'[j] = "clear" <=> kpc[j] = "clear"
    BY <1>t, <2>1 DEF Inside
  <2>3. cancelled' = TRUE
    BY <1>11 DEF KillCancel
  <2>4. SectionInv'
    BY <2>1, <2>2 DEF SectionInv
  <2>5. LoopInv'
    BY <2>1, <2>2, <2>3 DEF LoopInv
  <2> QED BY <2>4, <2>5
<1>12. ASSUME NEW k \in Controllers, KillJoin(k) PROVE SectionInv' /\ LoopInv'
  <2>1. /\ kpc[k] = "join" /\ kpc' = [kpc EXCEPT ![k] = "clear"] /\ lpc = "dead"
        /\ UNCHANGED <<cs, err, lpc, queue, cancelled>>
    BY <1>12 DEF KillJoin, ControllerGoes
  <2>2. \A j \in Controllers : /\ kpc'[j] \in Inside <=> kpc[j] \in Inside
                               /\ kpc'[j] \in {"join", "clear"} <=> kpc[j] \in {"join", "clear"}
    BY <1>t, <2>1 DEF Inside
  <2>3. SectionInv'
    BY <2>1, <2>2 DEF SectionInv
  <2>4. LoopInv'
    BY <2>1, <2>2 DEF LoopInv
  <2> QED BY <2>3, <2>4
<1>13. ASSUME NEW k \in Controllers, KillTimer(k) PROVE SectionInv' /\ LoopInv'
  BY <1>1, <1>13 DEF KillTimer, Undefined
<1>14. ASSUME NEW k \in Controllers, KillFinish(k) PROVE SectionInv' /\ LoopInv'
  <2>1. /\ kpc[k] = "clear" /\ kpc' = [kpc EXCEPT ![k] = "killed"] /\ queue' = "null" /\ err' = -1
        /\ cs' = Nobody /\ UNCHANGED <<lpc, cancelled>>
    BY <1>14 DEF KillFinish, ControllerGoes
  <2>2. cs = k /\ lpc = "dead"
    BY <2>1 DEF SectionInv, Inside
  <2>3. \A j \in Controllers : kpc'[j] \notin Inside
    BY <1>t, <2>1, <2>2 DEF SectionInv, Inside
  <2>4. SectionInv'
    BY <1>t, <2>1, <2>2, <2>3 DEF SectionInv, Inside
  <2>5. LoopInv'
    BY <2>1, <2>2 DEF LoopInv
  <2> QED BY <2>4, <2>5
<1>15. ASSUME NEW k \in Controllers, Start(k) PROVE SectionInv' /\ LoopInv'
  <2>1. CASE UNCHANGED <<cs, err, queue, cancelled, kpc, lpc>>
    BY <1>1, <2>1
  <2>2. CASE /\ kpc[k] = "killed" /\ cs = Nobody /\ lpc \in {"none", "dead"}
             /\ lpc' = "born" /\ err' = 0 /\ kpc' = [kpc EXCEPT ![k] = "run"]
             /\ UNCHANGED <<cs, queue>> /\ cancelled' = FALSE
    <3>1. \A j \in Controllers : kpc[j] \notin Inside /\ kpc'[j] \notin Inside
      BY <1>t, <2>2 DEF SectionInv, Inside
    <3>2. queue = "null"
      BY <2>2, <3>1 DEF LoopInv, Inside
    <3>3. SectionInv'
      BY <1>t, <2>2, <3>1 DEF SectionInv, Inside
    <3>4. LoopInv'
      BY <2>2, <3>2 DEF LoopInv
    <3> QED BY <3>3, <3>4
  <2> QED BY <1>15, <2>1, <2>2 DEF Start, Undefined
<1>16. ASSUME UNCHANGED vars PROVE SectionInv' /\ LoopInv'
  BY <1>1, <1>16 DEF vars
<1> QED BY <1>2, <1>3, <1>4, <1>5, <1>6, <1>7, <1>8, <1>9, <1>10, <1>11, <1>12, <1>13, <1>14, <1>15, <1>16
  DEF Next, LoopStep, KillStep

------------------------------------------------------------------------------
\* Whoever frees a timer item has joined its thread: the completion of a
\* callback and clearInterval through the critical section, a kill one by one.
LEMMA ItemInvariant ==
  ASSUME TypeOK, SectionInv, LoopInv, ItemInv, [Next]_vars
  PROVE  ItemInv'
<1> USE DEF platVars, loopVars, histVars
<1>t. /\ tpc \in [Ids -> {"none", "linked", "sleep", "lock", "hold", "parked", "pushed", "unwind", "gone"}]
      /\ kpc \in [Controllers -> {"run", "kill", "lockqueue", "cancel", "join", "clear", "killed"}]
      /\ callbacks \subseteq Ids /\ cleared \subseteq Ids /\ seq \in Nat /\ Ids \subseteq Nat
      /\ after \in {"js", "receive"}
  <2>1. cleared \subseteq Ids
    BY TypeParts DEF HistoryTypes
  <2> QED BY <2>1, TypeParts, ConstantTypes DEF TableTypes, LoopTypes
<1>1. ASSUME UNCHANGED <<callbacks, stash, cleared, seq>>, queue' = "null" => queue = "null" /\ items' = items,
             \A c \in Ids : Alive(c)' => Alive(c)
      PROVE  ItemInv'
  <2>1. NoTimerOutlivesItem'
    BY <1>1 DEF ItemInv, NoTimerOutlivesItem
  <2> QED BY <1>1, <2>1 DEF ItemInv
<1>w. \A c \in Ids : Wake(tpc)[c] \in {"none", "gone"} <=> tpc[c] \in {"none", "gone"}
  BY <1>t DEF Wake
<1>2. ASSUME NEW c \in Ids, TimerStep(c) PROVE ItemInv'
  <2>1. UNCHANGED <<callbacks, stash, cleared, seq, queue>>
    BY <1>2, TimerSteps
  <2>2. \A d \in Ids : Alive(d)' => Alive(d)
    BY <1>2, TimerSteps DEF Alive
  <2>3. queue # "null"
    BY <1>2, TimerSteps, ConstantTypes DEF ItemInv, NoTimerOutlivesItem, Alive
  <2> QED BY <1>1, <2>1, <2>2, <2>3
<1>3. ASSUME Boot \/ StartThread \/ Return \/ Receive \/ ReceiveParks \/ ReceiveFails \/ Lookup \/ Complete \/ LoopDies
             \/ CleanupEnter \/ TaskStart
      PROVE  ItemInv'
  <2>1. /\ UNCHANGED <<callbacks, stash, cleared, seq>> /\ queue' \in {queue, "open"}
        /\ \/ tpc' \in {tpc, Wake(tpc)}
           \/ tpc' = [c \in Ids |-> IF tpc[c] = "linked" THEN "sleep" ELSE tpc[c]]
        /\ items' = items \/ (TaskStart /\ queue' = "open") \/ (Receive /\ queue' = "open")
    BY <1>3 DEF Boot, StartThread, Return, Receive, ReceiveParks, ReceiveFails, Lookup, Complete, LoopDies, CleanupEnter,
                TaskStart, Undefined
  <2>2. \A d \in Ids : Alive(d)' => Alive(d)
    BY <1>t, <1>w, <2>1 DEF Alive
  <2> QED BY <1>1, <2>1, <2>2
<1>4. ASSUME CleanupJoin PROVE ItemInv'
  <2>1. /\ tpc[target] = "gone" /\ callbacks' = callbacks \ {target} /\ stash' = stash \ {target}
        /\ UNCHANGED <<tpc, queue, items, cleared, seq>>
    BY <1>4 DEF CleanupJoin, DestroyCallback
  <2>2. NoTimerOutlivesItem'
    BY <2>1 DEF ItemInv, NoTimerOutlivesItem, Alive
  <2> QED BY <2>1, <2>2 DEF ItemInv
<1>5. ASSUME NEW what \in Kinds, SetTimer(what) PROVE ItemInv'
  <2>1. /\ callbacks' = callbacks \cup {seq} /\ stash' = stash \cup {seq} /\ seq' = seq + 1
        /\ cleared' = cleared /\ tpc' = [tpc EXCEPT ![seq] = "linked"]
        /\ lpc = "js" /\ UNCHANGED <<queue, items>>
    BY <1>5 DEF SetTimer, CreateCallback, LoopGoes
  <2>2. queue # "null"
    BY <2>1 DEF LoopInv
  <2>3. NoTimerOutlivesItem'
    BY <1>t, <2>1 DEF ItemInv, NoTimerOutlivesItem, Alive
  <2>4. \A c \in callbacks' \cup cleared' : c < seq'
    <3>1. \A c \in callbacks \cup cleared : c < seq /\ c \in Nat
      BY <1>t DEF ItemInv
    <3> QED BY <1>t, <2>1, <3>1
  <2> QED BY <2>1, <2>2, <2>3, <2>4 DEF ItemInv
<1>6. ASSUME NEW c \in Ids, ClearTimer(c) PROVE ItemInv'
  <2>1. /\ cleared' \in {cleared, cleared \cup {c}} /\ c < seq /\ lpc = "js"
        /\ UNCHANGED <<tpc, queue, items, callbacks, stash, seq>>
    BY <1>6 DEF ClearTimer, Undefined
  <2>3. queue # "null"
    BY <2>1 DEF LoopInv
  <2>2. NoTimerOutlivesItem'
    BY <2>1 DEF ItemInv, NoTimerOutlivesItem, Alive
  <2> QED BY <2>1, <2>2, <2>3 DEF ItemInv
<1>7. ASSUME NEW k \in Controllers, RequestKill(k) \/ KillNothing(k) \/ KillEnter(k) \/ KillLockQueue(k)
                                    \/ KillCancel(k) \/ KillJoin(k) \/ KillTimer(k) \/ Start(k)
      PROVE  ItemInv'
  <2>1. /\ UNCHANGED <<callbacks, stash, cleared, seq, tpc, items>>
        /\ queue' \in {queue, "locked"} \/ (queue' = "null" /\ err # 0)
    BY <1>7 DEF RequestKill, KillNothing, KillEnter, KillLockQueue, KillCancel, KillJoin, KillTimer, Start,
                Undefined
  <2>2. err # 0 => queue = "null"
    BY TypeParts DEF LoopInv, ThreadTypes
  <2> QED BY <1>1, <2>1, <2>2 DEF Alive
<1>8. ASSUME NEW k \in Controllers, KillFinish(k) PROVE ItemInv'
  <2>1. /\ \A c \in callbacks : ~Alive(c)
        /\ callbacks' = {} /\ stash' = {} /\ cleared' = {} /\ items' = << >>
        /\ tpc' = [c \in Ids |-> IF Alive(c) THEN tpc[c] ELSE "none"]
    BY <1>8 DEF KillFinish, ClearEventLoop
  <2>2. \A c \in Ids : ~Alive(c)
    BY <2>1 DEF ItemInv, NoTimerOutlivesItem
  <2>3. \A c \in Ids : tpc'[c] = "none"
    BY <2>1, <2>2
  <2>4. NoTimerOutlivesItem'
    BY <2>3 DEF NoTimerOutlivesItem, Alive
  <2> QED BY <2>1, <2>4 DEF ItemInv
<1>9. ASSUME UNCHANGED vars PROVE ItemInv'
  BY <1>1, <1>9 DEF vars, Alive
<1> QED BY <1>2, <1>3, <1>4, <1>5, <1>6, <1>7, <1>8, <1>9 DEF Next, LoopStep, Script, KillStep

\* The queue's mutex is changed by its owner, or taken when it is free or its
\* owner dead.
LEMMA HoldInvariant ==
  ASSUME TypeOK, LoopInv, ItemInv, HoldInv, [Next]_vars
  PROVE  HoldInv'
<1> USE DEF platVars, loopVars, histVars
<1>t. /\ tpc \in [Ids -> {"none", "linked", "sleep", "lock", "hold", "parked", "pushed", "unwind", "gone"}]
      /\ Loop \notin Ids /\ Nobody \notin Ids
  BY TypeParts, ConstantTypes DEF TableTypes
<1>f. OwnerDead \/ qOwner = Nobody => \A c \in Ids : tpc[c] # "hold"
  BY <1>t DEF OwnerDead, HoldInv
<1>1. ASSUME \A c \in Ids : tpc'[c] = "hold" => tpc[c] = "hold" /\ qOwner' = qOwner
      PROVE  HoldInv'
  BY <1>1 DEF HoldInv
<1>2. ASSUME NEW c \in Ids, TimerStep(c) PROVE HoldInv'
  <2>1. \A d \in Ids \ {c} : tpc'[d] = "hold" => tpc[d] = "hold"
    BY <1>2, TimerSteps
  <2>2. CASE Fire(c) \/ Repeat(c)
    <3>1. qOwner' = qOwner /\ tpc'[c] # "hold"
      BY <1>t, <2>2 DEF Fire, Repeat, TimerGoes
    <3> QED BY <1>1, <2>1, <3>1
  <2>3. CASE TimerLock(c)
    <3>1. qOwner' = c /\ qOwner = Nobody
      BY <2>3 DEF TimerLock
    <3> QED BY <1>f, <2>1, <3>1 DEF HoldInv
  <2>4. CASE TimerLockFails(c)
    <3>1. qOwner' = c /\ OwnerDead
      BY <2>4 DEF TimerLockFails
    <3> QED BY <1>f, <2>1, <3>1 DEF HoldInv
  <2>5. CASE TimerPark(c) \/ Push(c)
    <3>1. tpc[c] = "hold" /\ tpc'[c] # "hold"
      BY <1>t, <2>5 DEF TimerPark, Push, TimerGoes, Wake
    <3>2. \A d \in Ids \ {c} : tpc[d] # "hold"
      BY <3>1 DEF HoldInv
    <3> QED BY <2>1, <3>1, <3>2 DEF HoldInv
  <2>6. CASE TimerDies(c)
    <3>1. tpc'[c] # "hold" /\ (qOwner' = qOwner \/ qOwner = Nobody \/ OwnerDead)
      BY <1>t, <2>6 DEF TimerDies, TimerGoes
    <3> QED BY <1>f, <2>1, <3>1 DEF HoldInv
  <2> QED BY <1>2, <2>2, <2>3, <2>4, <2>5, <2>6 DEF TimerStep
<1>3. ASSUME Boot \/ StartThread \/ Return \/ ReceiveParks \/ Lookup \/ Complete \/ CleanupEnter \/ CleanupJoin \/ Script
      PROVE  HoldInv'
  <2>1. /\ qOwner' = qOwner
        /\ \/ tpc' = tpc \/ tpc' = [tpc EXCEPT ![seq] = "linked"]
           \/ tpc' = [c \in Ids |-> IF tpc[c] = "linked" THEN "sleep" ELSE tpc[c]]
    BY <1>3 DEF Boot, StartThread, Return, ReceiveParks, Lookup, Complete, CleanupEnter, CleanupJoin, Script, SetTimer,
                ClearTimer, Undefined
  <2> QED BY <1>1, <1>t, <2>1
<1>4. ASSUME Receive \/ ReceiveFails \/ LoopDies PROVE HoldInv'
  <2>1. /\ tpc' \in {tpc, Wake(tpc)}
        /\ qOwner' = qOwner \/ qOwner = Nobody \/ OwnerDead
    BY <1>4 DEF Receive, ReceiveFails, LoopDies
  <2>2. \A c \in Ids : tpc'[c] = "hold" => tpc[c] = "hold"
    BY <1>t, <2>1 DEF Wake
  <2> QED BY <1>1, <1>f, <2>1, <2>2
<1>5. ASSUME TaskStart PROVE HoldInv'
  <2>1. queue = "null" /\ tpc' = tpc
    BY <1>5 DEF TaskStart, LoopGoes, LoopInv
  <2>2. \A c \in Ids : tpc[c] # "hold"
    BY <2>1 DEF ItemInv, NoTimerOutlivesItem, Alive
  <2> QED BY <1>1, <2>1, <2>2
<1>6. ASSUME NEW k \in Controllers, RequestKill(k) \/ KillNothing(k) \/ KillEnter(k) \/ KillLockQueue(k)
                                    \/ KillCancel(k) \/ KillJoin(k) \/ KillTimer(k) \/ Start(k)
      PROVE  HoldInv'
  <2>1. UNCHANGED <<tpc, qOwner>>
    BY <1>6 DEF RequestKill, KillNothing, KillEnter, KillLockQueue, KillCancel, KillJoin, KillTimer, Start,
                Undefined
  <2> QED BY <1>1, <2>1
<1>7. ASSUME NEW k \in Controllers, KillFinish(k) PROVE HoldInv'
  <2>1. /\ \A c \in callbacks : ~Alive(c)
        /\ tpc' = [c \in Ids |-> IF Alive(c) THEN tpc[c] ELSE "none"]
    BY <1>7 DEF KillFinish
  <2>2. \A c \in Ids : ~Alive(c)
    BY <2>1 DEF ItemInv, NoTimerOutlivesItem
  <2>3. \A c \in Ids : tpc'[c] = "none"
    BY <2>1, <2>2
  <2> QED BY <1>1, <2>3
<1>8. ASSUME UNCHANGED vars PROVE HoldInv'
  BY <1>1, <1>8 DEF vars
<1> QED BY <1>2, <1>3, <1>4, <1>5, <1>6, <1>7, <1>8 DEF Next, LoopStep, KillStep

------------------------------------------------------------------------------
\* A copy in the queue, or received, says what its original is.
LEMMA CopyInvariant ==
  ASSUME TypeOK, LoopInv, ItemInv, CopyInv, [Next]_vars
  PROVE  CopyInv'
<1> USE DEF platVars, loopVars, histVars
<1>t. /\ items \in Seq(Copies) /\ received \in Copies /\ received.id \in Ids /\ received.gen \in Int
      /\ kind \in [Ids -> {"interval", "timeout"}] /\ seq \in Nat /\ Ids \subseteq Nat /\ gen \in Nat
  <2>1. items \in Seq(Copies)
    BY TypeParts DEF QueueTypes
  <2>2. received \in Copies /\ gen \in 0 .. MaxKills
    BY TypeParts DEF HistoryTypes
  <2>3. received.id \in Ids /\ received.gen \in Int
    BY <2>2 DEF Copies
  <2>4. kind \in [Ids -> {"interval", "timeout"}] /\ seq \in 0 .. MaxCallbacks
    BY TypeParts DEF LoopTypes
  <2>5. seq \in Nat /\ Ids \subseteq Nat /\ gen \in Nat
    BY <2>2, <2>4, ConstantTypes
  <2> QED BY <2>1, <2>2, <2>3, <2>4, <2>5
<1>i. \A i \in DOMAIN items : items[i] \in Copies /\ items[i].id \in Ids
  <2>1. \A i \in DOMAIN items : items[i] \in Copies
    BY <1>t
  <2>2. \A v \in Copies : v.id \in Ids
    BY DEF Copies
  <2> QED BY <2>1, <2>2
<1>1. ASSUME UNCHANGED <<items, received, gen, seq, kind>>
      PROVE  CopyInv'
  BY <1>1 DEF CopyInv
<1>2. ASSUME NEW c \in Ids, Push(c) PROVE CopyInv'
  <2>1. UNCHANGED <<received, gen, seq, kind>>
    BY <1>2 DEF Push, TimerFrame
  <2>2. CASE items' = items
    BY <1>1, <2>1, <2>2
  <2>3. CASE items' = Append(items, [id |-> c, oneShot |-> kind[c] = "timeout", gen |-> gen])
    <3> DEFINE v == [id |-> c, oneShot |-> kind[c] = "timeout", gen |-> gen]
    <3>1. v.gen = gen /\ v.id = c /\ (v.oneShot <=> kind[v.id] = "timeout")
      OBVIOUS
    <3>2. c < seq
      <4>1. Alive(c)
        BY <1>2 DEF Push, Alive
      <4> QED BY <4>1 DEF ItemInv, NoTimerOutlivesItem
    <3> HIDE DEF v
    <3>3. \A i \in DOMAIN items' : (i \in DOMAIN items /\ items'[i] = items[i]) \/ items'[i] = v
      BY <1>t, <2>3 DEF v
    <3> QED BY <2>1, <3>1, <3>2, <3>3 DEF CopyInv
  <2> QED BY <1>2, <2>2, <2>3 DEF Push
<1>3. ASSUME NEW c \in Ids, TimerStep(c) PROVE CopyInv'
  <2>1. CASE Push(c)
    BY <1>2, <2>1
  <2>2. CASE ~Push(c)
    <3>1. items' = items
      BY <1>3, <2>2 DEF TimerStep, Fire, TimerLock, TimerLockFails, TimerPark, Repeat, TimerDies
    <3> QED BY <1>1, <1>3, <3>1, TimerSteps
  <2> QED BY <2>1, <2>2
<1>4. ASSUME TaskStart PROVE CopyInv'
  <2>1. items' = << >> /\ UNCHANGED <<received, gen, seq, kind>>
    BY <1>4 DEF TaskStart
  <2>2. DOMAIN items' = {}
    BY <2>1
  <2> QED BY <2>1, <2>2 DEF CopyInv
<1>5. ASSUME Receive PROVE CopyInv'
  <2>1. /\ items # << >> /\ received' = Head(items) /\ items' = Tail(items)
        /\ UNCHANGED <<gen, seq, kind>>
    BY <1>5 DEF Receive
  <2>2. 1 \in DOMAIN items /\ received' = items[1]
    BY <1>t, <2>1
  <2>3. \A i \in DOMAIN items' : i + 1 \in DOMAIN items /\ items'[i] = items[i + 1]
    BY <1>t, <2>1
  <2>4. received'.gen <= gen
    BY <1>t, <2>2 DEF CopyInv
  <2> QED BY <2>1, <2>2, <2>3, <2>4 DEF CopyInv
<1>6. ASSUME NEW what \in Kinds, SetTimer(what) PROVE CopyInv'
  <2>1. seq' = seq + 1 /\ kind' = [kind EXCEPT ![seq] = what] /\ UNCHANGED <<items, received, gen>>
    BY <1>6 DEF SetTimer, CreateCallback
  <2>2. \A c \in Ids : c < seq => c < seq' /\ kind'[c] = kind[c]
    BY <1>t, <2>1
  <2> QED BY <1>t, <1>i, <2>1, <2>2 DEF CopyInv
<1>7. ASSUME NEW k \in Controllers, KillFinish(k) PROVE CopyInv'
  <2>1. items' = << >> /\ gen' = gen + 1 /\ received' = received
    BY <1>7 DEF KillFinish
  <2>2. DOMAIN items' = {}
    BY <2>1
  <2>3. received.gen <= gen
    BY DEF CopyInv
  <2>4. received'.gen <= gen' /\ received'.gen # gen'
    BY <1>t, <2>1, <2>3
  <2> QED BY <2>2, <2>4 DEF CopyInv
<1>8. ASSUME \/ Boot \/ StartThread \/ Return \/ ReceiveParks \/ ReceiveFails \/ Lookup \/ Complete \/ CleanupEnter
             \/ CleanupJoin \/ LoopDies \/ \E c \in Ids : ClearTimer(c)
      PROVE  CopyInv'
  BY <1>1, <1>8 DEF Boot, StartThread, Return, ReceiveParks, ReceiveFails, Lookup, Complete, CleanupEnter, CleanupJoin,
                    LoopDies, ClearTimer, Undefined
<1>9. ASSUME NEW k \in Controllers, RequestKill(k) \/ KillNothing(k) \/ KillEnter(k) \/ KillLockQueue(k)
                                    \/ KillCancel(k) \/ KillJoin(k) \/ KillTimer(k) \/ Start(k)
      PROVE  CopyInv'
  BY <1>1, <1>9 DEF RequestKill, KillNothing, KillEnter, KillLockQueue, KillCancel, KillJoin, KillTimer, Start,
                    Undefined
<1>10. ASSUME UNCHANGED vars PROVE CopyInv'
  BY <1>1, <1>10 DEF vars
<1> QED BY <1>3, <1>4, <1>5, <1>6, <1>7, <1>8, <1>9, <1>10 DEF Next, LoopStep, Script, KillStep

\* Once the queue is shut or its mutex lost only the next incarnation is sound.
LEMMA SoundKept ==
  ASSUME TypeOK, HoldInv, [Next]_vars, Sound'
  PROVE  Sound \/ TaskStart
<1> USE DEF platVars, loopVars, histVars
<1>t. /\ tpc \in [Ids -> {"none", "linked", "sleep", "lock", "hold", "parked", "pushed", "unwind", "gone"}]
      /\ Loop \notin Ids /\ Nobody \notin Ids /\ Loop # Nobody
  BY TypeParts, ConstantTypes DEF TableTypes
<1>1. ASSUME UNCHANGED <<queue, qOwner>>, \A d \in Ids : tpc'[d] = "hold" => tpc[d] = "hold"
      PROVE  Sound
  BY <1>1 DEF Sound, Lost
<1>2. ASSUME NEW c \in Ids, TimerStep(c) PROVE Sound
  <2>1. queue' = queue /\ \A d \in Ids \ {c} : tpc'[d] = "hold" => tpc[d] = "hold"
    BY <1>2, TimerSteps
  <2>2. CASE Fire(c) \/ Repeat(c)
    <3>1. qOwner' = qOwner /\ tpc'[c] # "hold"
      BY <1>t, <2>2 DEF Fire, Repeat, TimerGoes
    <3> QED BY <1>1, <2>1, <3>1
  <2>3. CASE TimerLock(c)
    BY <1>t, <2>1, <2>3 DEF TimerLock, Sound, Lost
  <2>4. CASE TimerLockFails(c)
    <3>1. qOwner' = c /\ tpc'[c] = "pushed"
      BY <1>t, <2>4 DEF TimerLockFails, TimerGoes
    <3> QED BY <3>1 DEF Sound, Lost
  <2>5. CASE TimerPark(c) \/ Push(c)
    <3>1. tpc[c] = "hold"
      BY <2>5 DEF TimerPark, Push, TimerGoes
    <3>2. qOwner = c
      BY <3>1 DEF HoldInv
    <3> QED BY <1>t, <2>1, <3>1, <3>2 DEF Sound, Lost
  <2>6. CASE TimerDies(c)
    <3>1. tpc'[c] # "hold" /\ qOwner' \in {qOwner, c}
      BY <1>t, <2>6 DEF TimerDies, TimerGoes
    <3>2. qOwner' = qOwner
      BY <3>1 DEF Sound, Lost
    <3> QED BY <1>1, <2>1, <3>1, <3>2
  <2> QED BY <1>2, <2>2, <2>3, <2>4, <2>5, <2>6 DEF TimerStep
<1>3. ASSUME Boot \/ StartThread \/ Return \/ ReceiveParks \/ Lookup \/ Complete \/ CleanupEnter \/ CleanupJoin \/ Script
      PROVE  Sound
  <2>1. /\ UNCHANGED <<qOwner, queue>>
        /\ \/ tpc' = tpc \/ tpc' = [tpc EXCEPT ![seq] = "linked"]
           \/ tpc' = [c \in Ids |-> IF tpc[c] = "linked" THEN "sleep" ELSE tpc[c]]
    BY <1>3 DEF Boot, StartThread, Return, ReceiveParks, Lookup, Complete, CleanupEnter, CleanupJoin, Script, SetTimer,
                ClearTimer, Undefined
  <2> QED BY <1>1, <1>t, <2>1
<1>4. ASSUME Receive \/ ReceiveFails \/ LoopDies PROVE Sound
  <2>1. /\ tpc' \in {tpc, Wake(tpc)} /\ queue' = queue
        /\ qOwner' = qOwner \/ qOwner' = Loop
    BY <1>4 DEF Receive, ReceiveFails, LoopDies
  <2>2. \A c \in Ids : tpc'[c] = "hold" => tpc[c] = "hold"
    BY <1>t, <2>1 DEF Wake
  <2>3. qOwner' # Loop
    BY DEF Sound, Lost
  <2> QED BY <1>1, <2>1, <2>2, <2>3
<1>5. ASSUME NEW k \in Controllers, RequestKill(k) \/ KillNothing(k) \/ KillEnter(k) \/ KillLockQueue(k)
                                    \/ KillCancel(k) \/ KillJoin(k) \/ KillTimer(k) \/ Start(k)
      PROVE  Sound
  <2>1. UNCHANGED <<tpc, qOwner>> /\ (queue' = queue \/ queue' \in {"locked", "null"})
    BY <1>5 DEF RequestKill, KillNothing, KillEnter, KillLockQueue, KillCancel, KillJoin, KillTimer, Start,
                Undefined
  <2> QED BY <1>1, <2>1 DEF Sound
<1>6. ASSUME NEW k \in Controllers, KillFinish(k) PROVE Sound
  <2>1. queue' = "null"
    BY <1>6 DEF KillFinish
  <2> QED BY <2>1 DEF Sound
<1>7. ASSUME UNCHANGED vars PROVE Sound
  BY <1>1, <1>7 DEF vars
<1> QED BY <1>2, <1>3, <1>4, <1>5, <1>6, <1>7 DEF Next, LoopStep, KillStep

\* Nothing that concerns one-shot copies happens in most steps.
LEMMA OnceFrame ==
  ASSUME TypeOK, CopyInv, OnceInv, cleared \subseteq cleared',
         UNCHANGED <<items, received, gen, seq, callbacks, kind, target, after>>,
         lpc' \in {"enter", "join"} => lpc \in {"enter", "join"},
         \A c \in Ids : kind[c] = "timeout" /\ Fired(c) => tpc'[c] \in {"pushed", "gone"},
         \A c \in Ids : tpc[c] = "gone" => tpc'[c] = "gone"
  PROVE  OnceInv'
<1>t. /\ target \in Ids /\ received.id \in Ids
      /\ \A i \in DOMAIN items : items[i].id \in Ids
  BY TypeTypes
<1>1. \A i \in DOMAIN items : items[i].oneShot =>
        /\ tpc'[items[i].id] \in {"pushed", "gone"}
        /\ \A j \in DOMAIN items : items[j].id = items[i].id => j = i
  <2> SUFFICES ASSUME NEW i \in DOMAIN items, items[i].oneShot
               PROVE  /\ tpc'[items[i].id] \in {"pushed", "gone"}
                      /\ \A j \in DOMAIN items : items[j].id = items[i].id => j = i
    OBVIOUS
  <2>1. kind[items[i].id] = "timeout"
    BY DEF CopyInv
  <2>2. Fired(items[i].id) /\ \A j \in DOMAIN items : items[j].id = items[i].id => j = i
    BY DEF OnceInv
  <2> QED BY <1>t, <2>1, <2>2
<1>2. received.gen = gen /\ received.oneShot =>
        tpc'[received.id] \in {"pushed", "gone"} /\ ~Queued(received.id)
  BY <1>t DEF CopyInv, OnceInv
<1>3. lpc' \in {"enter", "join"} =>
        \/ after = "js" /\ target \in cleared'
        \/ after = "receive" /\ received.oneShot /\ received.gen = gen /\ received.id = target
  BY DEF OnceInv
<1>4. \A c \in Ids : c < seq /\ c \notin callbacks \cup cleared' =>
        kind[c] = "timeout" /\ tpc'[c] = "gone" /\ ~Queued(c)
  BY DEF OnceInv
<1> QED BY <1>1, <1>2, <1>3, <1>4 DEF OnceInv, Fired, Queued

\* A timeout pushes one copy, which is received once; an item is freed when it
\* was cleared, or when its one copy has been received.
LEMMA OnceInvariant ==
  ASSUME TypeOK, SectionInv, LoopInv, ItemInv, CopyInv, OnceInv, [Next]_vars
  PROVE  OnceInv'
<1> USE DEF platVars, loopVars, histVars
<1>t. /\ target \in Ids /\ received.id \in Ids /\ seq \in Nat /\ Ids \subseteq Nat
      /\ items \in Seq(Copies) /\ \A i \in DOMAIN items : items[i].id \in Ids
      /\ tpc \in [Ids -> {"none", "linked", "sleep", "lock", "hold", "parked", "pushed", "unwind", "gone"}]
      /\ kind \in [Ids -> {"interval", "timeout"}] /\ callbacks \subseteq Ids
      /\ after \in {"js", "receive"} /\ back \in {"receive", "complete"}
  BY TypeTypes, TypeParts, ConstantTypes DEF TableTypes, LoopTypes, QueueTypes
<1>1. ASSUME TaskStart PROVE OnceInv'
  <2>1. /\ lpc' = "boot" /\ items' = << >> /\ UNCHANGED <<tpc, received, gen, seq, callbacks, kind, cleared>>
    BY <1>1 DEF TaskStart, LoopGoes
  <2>2. DOMAIN items' = {}
    BY <2>1
  <2> QED BY <2>1, <2>2 DEF OnceInv, Queued, Fired
<1>2. ASSUME NEW c \in Ids, TimerStep(c), ~Push(c) PROVE OnceInv'
  <2>1. items' = items
    BY <1>2 DEF TimerStep, Fire, TimerLock, TimerLockFails, TimerPark, Repeat, TimerDies
  <2>2. Fired(c) /\ kind[c] = "timeout" => tpc'[c] \in {"pushed", "gone"}
    BY <1>t, <1>2 DEF TimerStep, Fire, TimerLock, TimerLockFails, TimerPark, Repeat, TimerDies, TimerGoes, Fired
  <2>3. /\ \A d \in Ids : kind[d] = "timeout" /\ Fired(d) => tpc'[d] \in {"pushed", "gone"}
        /\ \A d \in Ids : tpc[d] = "gone" => tpc'[d] = "gone"
    BY <1>2, <2>2, TimerSteps DEF Fired
  <2>4. UNCHANGED <<received, gen, seq, callbacks, kind, target, after, cleared>>
        /\ (lpc' \in {"enter", "join"} => lpc \in {"enter", "join"})
    BY <1>2, TimerSteps
  <2> QED BY <2>1, <2>3, <2>4, OnceFrame
\* A timer pushes a copy: a timeout that does has none yet.
<1>3. ASSUME NEW c \in Ids, Push(c) PROVE OnceInv'
  <2>1. /\ UNCHANGED <<received, gen, seq, callbacks, kind, target, after, cleared>>
        /\ lpc' = lpc \/ (lpc = "parked" /\ lpc' = "receive")
    BY <1>3 DEF Push, TimerFrame, WakeLoop
  <2>2. tpc[c] = "hold" /\ tpc'[c] = "pushed" /\ \A d \in Ids : Fired(d) => d # c /\ tpc'[d] = tpc[d]
    BY <1>t, <1>3 DEF Push, Wake, Fired
  <2>3. CASE items' = items
    BY <2>1, <2>2, <2>3, OnceFrame DEF Fired
  <2>4. CASE items' = Append(items, [id |-> c, oneShot |-> kind[c] = "timeout", gen |-> gen])
    <3> DEFINE n == Len(items) + 1
               v == [id |-> c, oneShot |-> kind[c] = "timeout", gen |-> gen]
    <3>1. v.id = c /\ (v.oneShot => kind[c] = "timeout")
      OBVIOUS
    <3> HIDE DEF v
    <3>2. /\ DOMAIN items' = DOMAIN items \cup {n} /\ n \notin DOMAIN items
          /\ items'[n] = v /\ \A i \in DOMAIN items : items'[i] = items[i]
      BY <1>t, <2>4 DEF v
    <3> HIDE DEF n
    <3>3. c \in callbacks
      BY <2>2 DEF ItemInv, NoTimerOutlivesItem, Alive
    <3>4. kind[c] = "timeout" => ~Queued(c)
      <4>1. \A i \in DOMAIN items : kind[items[i].id] = "timeout" => Fired(items[i].id)
        BY DEF CopyInv, OnceInv
      <4> QED BY <2>2, <4>1 DEF Queued, Fired
    <3>5. \A d \in Ids : Queued(d)' => Queued(d) \/ d = c
      BY <3>1, <3>2 DEF Queued
    <3>6. \A i \in DOMAIN items : items[i].oneShot =>
            /\ Fired(items[i].id) /\ items[i].id # c
            /\ \A k \in DOMAIN items : items[k].id = items[i].id => k = i
      BY <1>t, <2>2 DEF OnceInv
    <3>7. \A i \in DOMAIN items' : items'[i].oneShot =>
            /\ tpc'[items'[i].id] \in {"pushed", "gone"}
            /\ \A k \in DOMAIN items' : items'[k].id = items'[i].id => k = i
      <4> SUFFICES ASSUME NEW i \in DOMAIN items', items'[i].oneShot
                   PROVE  /\ tpc'[items'[i].id] \in {"pushed", "gone"}
                          /\ \A k \in DOMAIN items' : items'[k].id = items'[i].id => k = i
        OBVIOUS
      <4>1. CASE i = n
        BY <2>2, <3>1, <3>2, <3>4, <4>1 DEF Queued
      <4>2. CASE i \in DOMAIN items
        BY <1>t, <2>2, <3>1, <3>2, <3>6, <4>2 DEF Fired
      <4> QED BY <3>2, <4>1, <4>2
    <3>8. received.gen = gen /\ received.oneShot =>
            tpc'[received.id] \in {"pushed", "gone"} /\ ~Queued(received.id)'
      BY <1>t, <2>1, <2>2, <3>5 DEF OnceInv, Fired
    <3>9. \A d \in Ids : d < seq /\ d \notin callbacks \cup cleared =>
            kind[d] = "timeout" /\ tpc'[d] = "gone" /\ ~Queued(d)'
      BY <2>2, <3>3, <3>5 DEF OnceInv, Fired
    <3>10. lpc' \in {"enter", "join"} =>
             \/ after = "js" /\ target \in cleared
             \/ after = "receive" /\ received.oneShot /\ received.gen = gen /\ received.id = target
      BY <2>1 DEF OnceInv
    <3> QED BY <2>1, <3>7, <3>8, <3>9, <3>10 DEF OnceInv, Fired
  <2> QED BY <1>3, <2>3, <2>4 DEF Push
\* The loop receives a copy: if it is of a timeout, none is left.
<1>4. ASSUME Receive PROVE OnceInv'
  <2>1. /\ lpc' = "lookup" /\ items # << >> /\ received' = Head(items)
        /\ items' = Tail(items) /\ tpc' = Wake(tpc)
        /\ UNCHANGED <<gen, seq, callbacks, kind, cleared>>
    BY <1>4 DEF Receive, LoopGoes
  <2>2. /\ 1 \in DOMAIN items /\ received' = items[1]
        /\ \A i \in DOMAIN items' : i + 1 \in DOMAIN items /\ i + 1 # 1 /\ items'[i] = items[i + 1]
        /\ \A i, j \in DOMAIN items' : i + 1 = j + 1 => i = j
    BY <1>t, <2>1
  <2>3. \A d \in Ids : /\ Fired(d) => tpc'[d] \in {"pushed", "gone"}
                       /\ tpc[d] = "gone" => tpc'[d] = "gone"
    BY <1>t, <2>1 DEF Wake, Fired
  <2>4. \A i \in DOMAIN items : items[i].oneShot =>
          /\ tpc'[items[i].id] \in {"pushed", "gone"}
          /\ \A j \in DOMAIN items : items[j].id = items[i].id => j = i
    BY <1>t, <2>3 DEF OnceInv
  <2>5. received'.oneShot => /\ tpc'[received'.id] \in {"pushed", "gone"}
                             /\ \A i \in DOMAIN items' : items'[i].id # received'.id
    BY <2>2, <2>4
  <2>6. \A i \in DOMAIN items' : items'[i].oneShot =>
          /\ tpc'[items'[i].id] \in {"pushed", "gone"}
          /\ \A j \in DOMAIN items' : items'[j].id = items'[i].id => j = i
    BY <2>2, <2>4
  <2>7. \A d \in Ids : Queued(d)' => Queued(d)
    BY <2>2 DEF Queued
  <2>8. \A d \in Ids : d < seq /\ d \notin callbacks \cup cleared =>
          kind[d] = "timeout" /\ tpc'[d] = "gone" /\ ~Queued(d)'
    BY <2>3, <2>7 DEF OnceInv
  <2>9. lpc' \notin {"enter", "join"}
    BY <2>1
  <2> QED BY <2>1, <2>5, <2>6, <2>8, <2>9 DEF OnceInv, Fired, Queued
<1>5. ASSUME \/ Boot \/ StartThread \/ Return \/ ReceiveParks \/ ReceiveFails \/ Lookup
             \/ CleanupEnter \/ LoopDies
      PROVE  OnceInv'
  <2>1. /\ UNCHANGED <<items, received, gen, seq, callbacks, kind, target, after, cleared>>
        /\ \/ tpc' \in {tpc, Wake(tpc)}
           \/ tpc' = [c \in Ids |-> IF tpc[c] = "linked" THEN "sleep" ELSE tpc[c]]
    BY <1>5 DEF Boot, StartThread, Return, ReceiveParks, ReceiveFails, Lookup, CleanupEnter, LoopDies
  <2>2. lpc' \in {"enter", "join"} => lpc \in {"enter", "join"}
    BY <1>5, <1>t DEF Boot, StartThread, Return, ReceiveParks, ReceiveFails, Lookup, CleanupEnter, LoopDies,
                      LoopGoes
  <2>3. /\ \A c \in Ids : Fired(c) => tpc'[c] \in {"pushed", "gone"}
        /\ \A c \in Ids : tpc[c] = "gone" => tpc'[c] = "gone"
    BY <1>t, <2>1 DEF Wake, Fired
  <2> QED BY <2>1, <2>2, <2>3, OnceFrame
\* A one-shot copy is completed: its item is the one to be cleaned up.
<1>7. ASSUME Complete PROVE OnceInv'
  <2>1. /\ UNCHANGED <<items, received, gen, seq, callbacks, kind, tpc, cleared>>
        /\ \/ UNCHANGED <<lpc, target, after>>
           \/ lpc' = "receive" /\ UNCHANGED <<target, after>>
           \/ after' = "receive" /\ received.oneShot /\ received.gen = gen /\ target' = received.id
    BY <1>7 DEF Complete, Undefined
  <2> QED BY <2>1 DEF OnceInv, Fired, Queued
\* What is freed was cleared, or its one copy has been received.
<1>8. ASSUME CleanupJoin PROVE OnceInv'
  <2>1. /\ lpc = "join" /\ lpc' = after /\ callbacks' = callbacks \ {target} /\ tpc[target] = "gone"
        /\ UNCHANGED <<items, received, gen, seq, kind, cleared, tpc, target, after>>
    BY <1>8 DEF CleanupJoin, LoopGoes, DestroyCallback
  <2>2. target \notin cleared => kind[target] = "timeout" /\ ~Queued(target)
    <3>1. target \notin cleared => received.oneShot /\ received.gen = gen /\ received.id = target
      BY <2>1 DEF OnceInv
    <3> QED BY <3>1 DEF OnceInv, CopyInv
  <2>3. \A d \in Ids : d < seq /\ d \notin callbacks' \cup cleared =>
          kind[d] = "timeout" /\ tpc[d] = "gone" /\ ~Queued(d)
    BY <1>t, <2>1, <2>2 DEF OnceInv
  <2>4. lpc' \notin {"enter", "join"}
    BY <1>t, <2>1
  <2> QED BY <2>1, <2>3, <2>4 DEF OnceInv, Fired, Queued
<1>9. ASSUME NEW what \in Kinds, SetTimer(what) PROVE OnceInv'
  <2>1. /\ lpc' = "create" /\ callbacks' = callbacks \cup {seq} /\ seq' = seq + 1
        /\ kind' = [kind EXCEPT ![seq] = what] /\ tpc' = [tpc EXCEPT ![seq] = "linked"]
        /\ UNCHANGED <<items, received, gen, cleared>>
    BY <1>9 DEF SetTimer, LoopGoes, CreateCallback
  <2>2. \A d \in Ids : d # seq => kind'[d] = kind[d] /\ tpc'[d] = tpc[d]
    BY <1>t, <2>1
  <2>3. \A i \in DOMAIN items : items[i].id # seq
    <3>1. \A i \in DOMAIN items : items[i].id < seq
      BY DEF CopyInv
    <3> QED BY <1>t, <3>1
  <2>4. received.gen = gen /\ received.oneShot => received.id # seq
    <3>1. received.gen = gen /\ received.oneShot => received.id < seq
      BY DEF CopyInv
    <3> QED BY <1>t, <3>1
  <2>5. \A i \in DOMAIN items : items[i].oneShot =>
          /\ tpc'[items[i].id] \in {"pushed", "gone"}
          /\ \A j \in DOMAIN items : items[j].id = items[i].id => j = i
    BY <1>t, <2>2, <2>3 DEF OnceInv, Fired
  <2>6. received.gen = gen /\ received.oneShot =>
          tpc'[received.id] \in {"pushed", "gone"} /\ ~Queued(received.id)
    BY <1>t, <2>2, <2>4 DEF OnceInv, Fired
  <2>7. \A d \in Ids : d < seq' /\ d \notin callbacks' \cup cleared =>
          kind'[d] = "timeout" /\ tpc'[d] = "gone" /\ ~Queued(d)
    <3> SUFFICES ASSUME NEW d \in Ids, d < seq', d \notin callbacks' \cup cleared
                 PROVE  kind'[d] = "timeout" /\ tpc'[d] = "gone" /\ ~Queued(d)
      OBVIOUS
    <3>1. d # seq /\ d < seq /\ d \notin callbacks \cup cleared
      BY <1>t, <2>1
    <3> QED BY <2>2, <3>1 DEF OnceInv
  <2> QED BY <2>1, <2>5, <2>6, <2>7 DEF OnceInv, Fired, Queued
<1>10. ASSUME NEW c \in Ids, ClearTimer(c) PROVE OnceInv'
  <2>1. CASE UNCHANGED <<items, received, gen, seq, callbacks, kind, tpc, cleared, lpc, target, after>>
    BY <2>1, OnceFrame DEF Fired
  <2>2. CASE /\ target' = c /\ after' = "js" /\ cleared' = cleared \cup {c}
             /\ UNCHANGED <<items, received, gen, seq, callbacks, kind, tpc>>
    BY <2>2 DEF OnceInv, Fired, Queued
  <2> QED BY <1>10, <2>1, <2>2 DEF ClearTimer, Undefined
<1>11. ASSUME NEW k \in Controllers, RequestKill(k) \/ KillNothing(k) \/ KillEnter(k) \/ KillLockQueue(k)
                                     \/ KillCancel(k) \/ KillJoin(k) \/ KillTimer(k) \/ Start(k)
       PROVE  OnceInv'
  <2>1. /\ UNCHANGED <<items, received, gen, seq, callbacks, kind, target, after, cleared, tpc>>
        /\ lpc' = lpc \/ lpc' = "born"
    BY <1>11 DEF RequestKill, KillNothing, KillEnter, KillLockQueue, KillCancel, KillJoin, KillTimer, Start,
                 Undefined
  <2> QED BY <2>1, OnceFrame DEF Fired
<1>12. ASSUME NEW k \in Controllers, KillFinish(k) PROVE OnceInv'
  <2>1. /\ items' = << >> /\ seq' = 0 /\ gen' = gen + 1 /\ received' = received /\ lpc' = "dead"
    BY <1>12 DEF KillFinish, ClearEventLoop, ControllerGoes, SectionInv
  <2>2. DOMAIN items' = {}
    BY <2>1
  <2>3. received'.gen # gen'
    <3>1. received \in Copies /\ gen \in 0 .. MaxKills
      BY TypeParts DEF HistoryTypes
    <3>2. received.gen <= gen /\ received.gen \in Int /\ gen \in Int
      BY <3>1, ConstantTypes DEF CopyInv, Copies
    <3> QED BY <2>1, <3>2
  <2>4. \A d \in Ids : ~(d < seq')
    BY <1>t, <2>1
  <2> QED BY <2>1, <2>2, <2>3, <2>4 DEF OnceInv
<1>13. ASSUME UNCHANGED vars PROVE OnceInv'
  BY <1>13, OnceFrame DEF vars, Fired
<1> QED BY <1>1, <1>2, <1>3, <1>4, <1>5, <1>7, <1>8, <1>9, <1>10, <1>11, <1>12, <1>13
  DEF Next, LoopStep, Script, KillStep

\* A sound loop serves a fresh copy, whose original is there or was cleared.
LEMMA ServeInvariant ==
  ASSUME TypeOK, LoopInv, ItemInv, HoldInv, CopyInv, OnceInv, ServeInv, [Next]_vars
  PROVE  ServeInv'
<1> USE DEF platVars, loopVars, histVars
<1>t. after \in {"js", "receive"} /\ back \in {"receive", "complete"} /\ items \in Seq(Copies)
  BY TypeParts DEF LoopTypes, QueueTypes
<1>1. ASSUME UNCHANGED <<fresh, received, gen>>, callbacks \cup cleared \subseteq callbacks' \cup cleared',
             Sound' /\ Serving' => Serving, ~TaskStart
      PROVE  ServeInv'
  BY <1>1, SoundKept DEF ServeInv
<1>2. ASSUME NEW c \in Ids, TimerStep(c) PROVE ServeInv'
  <2>1. /\ UNCHANGED <<fresh, received, gen, callbacks, cleared, back, after>>
        /\ lpc' = lpc \/ (lpc = "parked" /\ lpc' = "receive")
    BY <1>2, TimerSteps
  <2>2. ~TaskStart /\ (Serving' => Serving)
    BY <2>1 DEF TaskStart, LoopGoes, Serving
  <2> QED BY <1>1, <2>1, <2>2
<1>3. TaskStart => ServeInv'
  BY DEF TaskStart, LoopGoes, Serving, ServeInv
<1>4. ASSUME Receive PROVE ServeInv'
  <2>1. /\ fresh' = TRUE /\ items # << >> /\ received' = Head(items)
        /\ UNCHANGED <<gen, callbacks, cleared, kind>>
    BY <1>4 DEF Receive
  <2>2. 1 \in DOMAIN items /\ received' = items[1]
    BY <1>t, <2>1
  <2>3. received'.gen = gen' /\ received'.id < seq /\ received'.id \in Ids /\ Queued(received'.id)
    BY <2>1, <2>2, TypeTypes DEF CopyInv, Queued
  <2>4. received'.id \in callbacks \cup cleared
    BY <2>3 DEF OnceInv
  <2> QED BY <2>1, <2>3, <2>4 DEF ServeInv
<1>5. ReceiveFails => ~Sound'
  BY DEF ReceiveFails, Sound, Lost
<1>6. ASSUME Boot \/ StartThread \/ Return \/ ReceiveParks \/ Lookup \/ Complete \/ CleanupEnter
             \/ LoopDies \/ Script
      PROVE  ServeInv'
  <2>1. /\ UNCHANGED <<fresh, received, gen>> /\ ~TaskStart
    BY <1>6 DEF Boot, StartThread, Return, ReceiveParks, Lookup, Complete, CleanupEnter, LoopDies, Script,
                SetTimer, ClearTimer, Undefined, TaskStart, LoopGoes
  <2>2. callbacks \cup cleared \subseteq callbacks' \cup cleared'
    BY <1>6 DEF Boot, StartThread, Return, ReceiveParks, Lookup, Complete, CleanupEnter, LoopDies, Script,
                SetTimer, CreateCallback, ClearTimer, Undefined
  <2>3. Serving' => Serving
    BY <1>t, <1>6 DEF Boot, StartThread, Return, ReceiveParks, Lookup, Complete, CleanupEnter, LoopDies, Script,
                      SetTimer, ClearTimer, Undefined, LoopGoes, Serving
  <2> QED BY <1>1, <2>1, <2>2, <2>3
<1>7. ASSUME CleanupJoin PROVE ServeInv'
  <2>1. /\ lpc = "join" /\ lpc' = after /\ callbacks' = callbacks \ {target}
        /\ UNCHANGED <<fresh, received, gen, cleared, back, after>>
    BY <1>7 DEF CleanupJoin, LoopGoes, DestroyCallback
  <2>2. CASE after = "js"
    <3>1. target \in cleared
      BY <2>1, <2>2 DEF OnceInv
    <3>2. Serving' => Serving
      BY <2>1, <2>2 DEF Serving
    <3> QED BY <1>1, <2>1, <3>1, <3>2 DEF TaskStart, LoopGoes
  <2>3. CASE after = "receive"
    BY <2>1, <2>3 DEF ServeInv, Serving
  <2> QED BY <1>t, <2>2, <2>3
<1>8. ASSUME NEW k \in Controllers, RequestKill(k) \/ KillStep(k) PROVE ServeInv'
  <2>1. CASE KillFinish(k)
    BY <2>1 DEF KillFinish, ServeInv, Sound
  <2>2. CASE ~KillFinish(k)
    <3>1. /\ UNCHANGED <<fresh, received, gen, callbacks, cleared, back, after>>
          /\ lpc' = lpc \/ lpc' = "born"
      BY <1>8, <2>2 DEF RequestKill, KillStep, KillNothing, KillEnter, KillLockQueue, KillCancel, KillJoin,
                        KillTimer, Start, Undefined
    <3>2. ~TaskStart
      BY <3>1 DEF TaskStart, LoopGoes
    <3> QED BY <1>1, <3>1, <3>2 DEF Serving
  <2> QED BY <2>1, <2>2
<1>9. UNCHANGED vars => ServeInv'
  BY <1>1 DEF vars, Serving, TaskStart, LoopGoes
<1> QED BY <1>2, <1>3, <1>4, <1>5, <1>6, <1>7, <1>8, <1>9 DEF Next, LoopStep, ServeInv

------------------------------------------------------------------------------
\* The inductive invariant holds.
LEMMA Invariance == Spec => []IInv
<1>1. IInv /\ [Next]_vars => IInv'
  <2> SUFFICES ASSUME IInv, [Next]_vars PROVE IInv'
    OBVIOUS
  <2>1. TypeOK' /\ KillsCounted'
    BY TypeInvariant, CountInvariant DEF IInv
  <2>2. SectionInv' /\ LoopInv'
    BY SectionInvariant DEF IInv
  <2>3. ItemInv' /\ HoldInv'
    BY ItemInvariant, HoldInvariant DEF IInv
  <2>4. CopyInv' /\ OnceInv' /\ ServeInv'
    BY CopyInvariant, OnceInvariant, ServeInvariant DEF IInv
  <2> QED BY <2>1, <2>2, <2>3, <2>4 DEF IInv
<1> QED BY <1>1, InitInvariant, PTL DEF Spec

\* The two ways to say that the mutex went with a thread agree.
LEMMA LostAgain == Lost <=> QueueLost
BY DEF Lost, QueueLost, OwnerDead

\* Every variable keeps its type: the kills, too, stay within their bound.
THEOREM TypeCorrect == Spec => []TypeOK
<1>1. IInv => TypeOK
  BY DEF IInv
<1> QED BY <1>1, Invariance, PTL

\* No timer thread outlives the item and the callback it reads, whoever frees
\* them (unix eventloop.c:149-150), through any number of kills.
THEOREM TimersAreJoined == Spec => []NoTimerOutlivesItem
<1>1. IInv => NoTimerOutlivesItem
  BY DEF IInv, ItemInv
<1> QED BY <1>1, Invariance, PTL

\* No thread of the old incarnation is left between kill and start, with any
\* number of killers (unix eventloop.c:74-94).
THEOREM KillIsComplete == Spec => []KillLeavesNothing
<1>1. IInv => KillLeavesNothing
  BY DEF IInv, ItemInv, LoopInv, NoTimerOutlivesItem, KillLeavesNothing
<1> QED BY <1>1, Invariance, PTL

\* The loop goes on with an old copy only when it is being killed or its queue
\* is lost (unix eventloop.c:102).
THEOREM StaleCopiesAreLate == Spec => []StaleOnlyAfterFailure
<1>1. IInv => StaleOnlyAfterFailure
  BY LostAgain, TypeParts DEF IInv, ServeInv, Serving, Sound, StaleOnlyAfterFailure
<1> QED BY <1>1, Invariance, PTL

\* What is freed is touched only by clearing a handle again, or after its timeout
\* is over, or by completing a copy whose timeout was cleared, or when the queue is
\* shut by a kill or lost to a cancelled timer (eventloop.c:79-85 and :222, unix
\* eventloop.c:132-139): whatever the program clears, through any number of kills.
THEOREM FreedByThreeMistakes == Spec => []NoUseAfterFree
<1>1. IInv => NoUseAfterFree
  <2>1. lpc = "complete" => Serving
    BY DEF Serving
  <2> QED BY <2>1, LostAgain, TypeParts DEF IInv, OnceInv, ServeInv, Sound, NoUseAfterFree, ThreadTypes
<1> QED BY <1>1, Invariance, PTL

\* A callback that was cleared is not executed, however many copies of it are
\* still queued (eventloop.c:210-213).
THEOREM ClearedAreSilent == Spec => ClearedStaysSilent
<1>1. IInv /\ [Next]_vars => [lpc = "lookup" /\ lpc' = "js" => received.id \in callbacks]_vars
  <2> SUFFICES ASSUME IInv, Next, lpc = "lookup", lpc' = "js" PROVE received.id \in callbacks
    OBVIOUS
  <2>1. Lookup
    <3>1. ASSUME NEW c \in Ids, TimerStep(c) PROVE FALSE
      BY <3>1, TimerSteps DEF IInv
    <3>2. ASSUME NEW k \in Controllers, RequestKill(k) \/ KillStep(k) PROVE FALSE
      <4>1. lpc' = lpc \/ lpc' = "born"
        BY <3>2 DEF RequestKill, KillStep, KillNothing, KillEnter, KillLockQueue, KillCancel, KillJoin,
                    KillTimer, KillFinish, Start, Undefined, platVars
      <4> QED BY <4>1
    <3> QED BY <3>1, <3>2 DEF Next, LoopStep, TaskStart, Boot, StartThread, Return, Receive, ReceiveParks, ReceiveFails,
          Complete, CleanupEnter, CleanupJoin, LoopDies, Script, SetTimer, ClearTimer, Undefined, LoopGoes
  <2>2. received.id \in stash
    BY <2>1 DEF Lookup
  <2> QED BY <2>2 DEF IInv, ItemInv
<1> QED BY <1>1, Invariance, PTL DEF Spec, ClearedStaysSilent

==============================================================================
