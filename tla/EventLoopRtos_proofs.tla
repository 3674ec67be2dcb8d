------------------------ MODULE EventLoopRtos_proofs ------------------------
(***************************************************************************)
(* Proofs about EventLoopRtos, for any number of timers and kills and any  *)
(* lengths of the two queues: that a deletion is queued for every timer    *)
(* whose item was freed, and that until the daemon has met a full event    *)
(* queue only the program's own mistakes touch what was freed.             *)
(***************************************************************************)
EXTENDS EventLoopRtos, SequenceTheorems, TLAPS

\* The identifiers given out so far.
Known == 0 .. seq - 1

\* A copy of a callback that was made says truly what it is.
Real(copy) == copy.id \in Known /\ (copy.oneShot <=> kind[copy.id] = "timeout")

\* Where the loop is in its calls.
CleansUp == lpc \in {"stop", "cleanup", "destroy", "unlink"}
HasReceived == lpc \in {"lookup", "complete"} \/ back = "complete"

\* The call the daemon is in, if any, is the call of a timer that was given out.
FiringShape ==
  /\ firing \in [id : Ids \cup {-1}, reload : BOOLEAN, kills : Int]
  /\ firing # NoFiring => firing.id \in Known /\ (firing.reload => kind[firing.id] = "interval")

\* Whatever has an id, the id was given out.
ShapeInv ==
  /\ FiringShape
  /\ timers \cup listed \cup callbacks \cup handles \subseteq Known
  /\ CleansUp => target \in Known
  /\ \A i \in DOMAIN items : Real(items[i])
  /\ HasReceived => Real(received)

\* How far a kill has come, and what is gone by then.
FlowInv ==
  /\ kpc \in {"clear", "reset", "delete"} => kills < MaxKills
  /\ undefined = "no" =>
       /\ queue = "none" <=> lpc \in {"none", "born"}
       /\ lpc = "none" <=> kpc = "killed"
       /\ lpc = "born" => kpc = "run"
       /\ kpc \in {"reset", "delete", "killed"} \/ queue = "none" =>
            listed = {} /\ callbacks = {} /\ handles = {}
       /\ queue = "none" => cmds = << >> /\ items = << >> /\ firing = NoFiring
       /\ firing # NoFiring => firing.kills = kills
       /\ kpc = "delete" /\ firing # NoFiring => items = << >>

HasDeletion(c) == \E i \in DOMAIN cmds : cmds[i] = [op |-> "delete", id |-> c]

\* Cleaning up frees an item after its deletion was queued.
DeletionInv ==
  /\ NoTimerOutlivesItem
  /\ lpc \in {"destroy", "unlink"} => target \notin timers \/ HasDeletion(target)

\* An interval that is late is started again while its callback is called.
LateStart ==
  /\ ~firing.reload /\ kind[firing.id] = "interval"
  /\ \A i \in DOMAIN cmds : cmds[i] = [op |-> "start", id |-> firing.id]

\* Until the daemon meets a full event queue it never waits, so that loop and
\* killer find its command queue empty.
PromptInv ==
  ~stalled =>
    /\ Len(cmds) <= 1
    /\ undefined = "no" /\ firing # NoFiring => Len(items) < Length /\ (cmds = << >> \/ LateStart)

\* Every command, and the call the daemon is in, is about a timer that is there.
TimersInv ==
  /\ \A i \in DOMAIN cmds : cmds[i].id \in timers
  /\ firing # NoFiring => firing.id \in timers \cap listed
  /\ timers \cap listed \subseteq callbacks
  /\ listed \subseteq timers \cup {target}
  /\ lpc \notin {"destroy", "unlink"} => listed \subseteq timers
  /\ \A i \in DOMAIN cmds : cmds[i].op = "delete" =>
       IF kpc = "run" THEN lpc = "destroy" /\ cmds[i].id = target
                      ELSE cmds[i].id \notin listed
  /\ kpc = "run" /\ lpc \in {"stop", "cleanup"} => target \in timers \cap listed

\* The timers that will not fire any more, unless they are started again.
Spent == {c \in Ids : /\ c \notin active /\ firing.id # c
                      /\ \A i \in DOMAIN cmds : cmds[i] # [op |-> "start", id |-> c]}

\* The copy received last has not been completed yet.
Serving == \/ lpc \in {"lookup", "complete"}
           \/ back = "complete" /\ (lpc = "js" \/ (CleansUp /\ after = "js"))

\* A one-shot timer has one copy, in the queue or received, and keeps its item
\* until that has been completed or the program clears it.
QueuedOnce ==
  \A i \in DOMAIN items :
    /\ items[i].whole
    /\ items[i].oneShot =>
         /\ items[i].id \in (timers \cap listed) \cup cleared /\ items[i].id \in Spent
         /\ \A j \in DOMAIN items : items[j].id = items[i].id => j = i

\* The copy being served is the last of its one-shot timer, whose item is still
\* there or was cleared.
ReceivedOnce ==
  Serving /\ received.oneShot =>
    /\ received.id \in (timers \cap listed) \cup cleared /\ received.id \in Spent
    /\ \A i \in DOMAIN items : items[i].id # received.id

\* A timeout that is over: it will not fire again, and no copy of it waits.
Over(c) == kind[c] = "timeout" /\ c \in Spent /\ ~Queued(c)

HandlesInv ==
  /\ firing # NoFiring /\ kind[firing.id] = "timeout" => firing.id \notin active
  /\ \A c \in handles : c \in (timers \cap listed) \cup cleared \/ Over(c)
  /\ callbacks \subseteq listed /\ (lpc = "unlink" => target \notin callbacks)

CleaningInv ==
  CleansUp => \/ after = "js" /\ target \in cleared
              \/ after = "receive" /\ Over(target)

OnceInv == QueuedOnce /\ ReceivedOnce /\ HandlesInv /\ CleaningInv

\* The mistakes of the program, and the kill of a loop that has not run.
Mistakes == {"early", "period", "handle", "completion"}

\* As long as it is calm nothing else has touched anything freed, nor will.
SafeInv ==
  Calm =>
    /\ undefined \in {"no"} \cup Mistakes
    /\ undefined = "no" => TimersInv
    /\ undefined = "no" /\ kpc = "run" => OnceInv

IInv == TypeOK /\ ShapeInv /\ FlowInv /\ DeletionInv /\ PromptInv /\ SafeInv
------------------------------------------------------------------------------
\* What the assumption says of the constants, with Ids expanded.
LEMMA ConstantTypes ==
  /\ Ids = 0 .. MaxTimers - 1 /\ 0 \in Ids
  /\ Kinds \subseteq {"interval", "timeout"}
  /\ Length \in Nat \ {0} /\ MaxCommands \in Nat \ {0}
  /\ MaxTimers \in Nat \ {0} /\ MaxKills \in Nat
BY RtosAssumption DEF Ids

\* A queue grows at its end.
LEMMA Appended ==
  ASSUME NEW S, NEW s \in Seq(S), NEW e \in S
  PROVE  /\ Append(s, e) \in Seq(S) /\ Len(Append(s, e)) = Len(s) + 1
         /\ \A i \in DOMAIN Append(s, e) :
              IF i = Len(s) + 1 THEN Append(s, e)[i] = e
                                ELSE i \in DOMAIN s /\ Append(s, e)[i] = s[i]
         /\ \A i \in DOMAIN s : i \in DOMAIN Append(s, e) /\ Append(s, e)[i] = s[i]
         /\ Len(s) + 1 \in DOMAIN Append(s, e)
BY AppendProperties, LenProperties

\* A queue shrinks at its front.
LEMMA Shortened ==
  ASSUME NEW S, NEW s \in Seq(S), s # << >>
  PROVE  /\ Tail(s) \in Seq(S) /\ Len(Tail(s)) = Len(s) - 1
         /\ Head(s) = s[1] /\ Head(s) \in S /\ 1 \in DOMAIN s
         /\ \A i \in DOMAIN Tail(s) : i + 1 \in DOMAIN s /\ Tail(s)[i] = s[i + 1]
         /\ \A i \in DOMAIN s : i = 1 \/ (i - 1 \in DOMAIN Tail(s) /\ Tail(s)[i - 1] = s[i])
BY HeadTailProperties, LenProperties, EmptySeq

\* What the event queue holds.
Copies == [id : Ids, oneShot : BOOLEAN, whole : BOOLEAN]

\* The queued command and what was there before.
LEMMA QueuesCommand ==
  ASSUME TypeOK, NEW op \in {"start", "stop", "delete"}, NEW c \in Ids, Queues(op, c)
  PROVE  /\ cmds' \in Seq(Commands) /\ Len(cmds') = Len(cmds) + 1 /\ Len(cmds') <= MaxCommands
         /\ \A i \in DOMAIN cmds' : IF i = Len(cmds) + 1 THEN cmds'[i] = [op |-> op, id |-> c]
                                    ELSE i \in DOMAIN cmds /\ cmds'[i] = cmds[i]
         /\ \A i \in DOMAIN cmds : i \in DOMAIN cmds' /\ cmds'[i] = cmds[i]
         /\ Len(cmds) + 1 \in DOMAIN cmds'
<1> DEFINE e == [op |-> op, id |-> c]
<1>1. e \in Commands
  BY DEF Commands
<1>2. cmds \in Seq(Commands) /\ cmds' = Append(cmds, e) /\ Len(cmds) < MaxCommands
  BY DEF TypeOK, Queues
<1> HIDE DEF e
<1>3. Len(cmds) \in Nat /\ MaxCommands \in Nat
  BY <1>2, LenProperties, ConstantTypes
<1>4. /\ Append(cmds, e) \in Seq(Commands) /\ Len(Append(cmds, e)) = Len(cmds) + 1
      /\ \A i \in DOMAIN Append(cmds, e) :
           IF i = Len(cmds) + 1 THEN Append(cmds, e)[i] = e
                                ELSE i \in DOMAIN cmds /\ Append(cmds, e)[i] = cmds[i]
      /\ \A i \in DOMAIN cmds :
           i \in DOMAIN Append(cmds, e) /\ Append(cmds, e)[i] = cmds[i]
      /\ Len(cmds) + 1 \in DOMAIN Append(cmds, e)
  BY <1>1, <1>2, Appended
<1> QED BY <1>2, <1>3, <1>4 DEF e

\* The command that is executed, and what stays.
LEMMA TakesCommand ==
  ASSUME TypeOK, cmds # << >>, cmds' = Tail(cmds)
  PROVE  /\ cmds' \in Seq(Commands) /\ Len(cmds') = Len(cmds) - 1 /\ Len(cmds) \in Nat
         /\ Head(cmds) = cmds[1] /\ Head(cmds) \in Commands /\ 1 \in DOMAIN cmds
         /\ \A i \in DOMAIN cmds' : i + 1 \in DOMAIN cmds /\ cmds'[i] = cmds[i + 1]
         /\ \A i \in DOMAIN cmds : i = 1 \/ (i - 1 \in DOMAIN cmds' /\ cmds'[i - 1] = cmds[i])
<1>1. cmds \in Seq(Commands)
  BY DEF TypeOK
<1> QED BY <1>1, Shortened, LenProperties

\* What a callback that is pushed adds to the event queue, and perhaps a command.
LEMMA Pushes ==
  ASSUME TypeOK, ShapeInv, Push, undefined = "no", undefined' = "no"
  PROVE  LET c == firing.id
             e == [id |-> c, oneShot |-> kind[c] = "timeout", whole |-> c \in callbacks]
         IN /\ c \in Known /\ c \in Ids /\ firing' = NoFiring /\ Len(items) < Length
            /\ queue = "open" /\ firing.kills = kills
            /\ items' \in Seq(Copies) /\ Len(items') = Len(items) + 1
            /\ \A i \in DOMAIN items' :
                 IF i = Len(items) + 1 THEN items'[i] = e
                                       ELSE i \in DOMAIN items /\ items'[i] = items[i]
            /\ \/ ~firing.reload /\ cmds' = cmds
               \/ firing.reload /\ Queues("start", c)
<1> DEFINE c == firing.id
           e == [id |-> c, oneShot |-> kind[c] = "timeout", whole |-> c \in callbacks]
<1>1. c \in Known /\ c \in Ids /\ Len(items) < Length /\ items' = Append(items, e)
      /\ firing' = NoFiring /\ queue = "open" /\ firing.kills = kills
  BY ConstantTypes DEF TypeOK, ShapeInv, FiringShape, Push, HasRoom, Undefined
<1>2. e \in Copies /\ items \in Seq(Copies)
  BY <1>1 DEF Copies, TypeOK
<1>3. \/ ~firing.reload /\ cmds' = cmds
      \/ firing.reload /\ Queues("start", c)
  <2>1. cmds \in Seq(Commands) /\ Len(cmds) \in Nat /\ Len(cmds) <= MaxCommands /\ MaxCommands \in Nat
    BY LenProperties, ConstantTypes DEF TypeOK
  <2>2. firing.reload => Len(cmds) # MaxCommands
    BY DEF Push, Undefined
  <2> QED BY <2>1, <2>2 DEF Push, Queues, Undefined
<1> HIDE DEF e
<1>4. /\ Append(items, e) \in Seq(Copies) /\ Len(Append(items, e)) = Len(items) + 1
      /\ \A i \in DOMAIN Append(items, e) :
           IF i = Len(items) + 1 THEN Append(items, e)[i] = e
                                 ELSE i \in DOMAIN items /\ Append(items, e)[i] = items[i]
  BY <1>2, Appended
<1> QED BY <1>1, <1>3, <1>4 DEF e

\* The copy that is received, and what stays.
LEMMA TakesCopy ==
  ASSUME TypeOK, items # << >>, items' = Tail(items)
  PROVE  /\ items' \in Seq(Copies) /\ Len(items') = Len(items) - 1 /\ Len(items) \in Nat
         /\ Head(items) = items[1] /\ Head(items) \in Copies /\ 1 \in DOMAIN items
         /\ \A i \in DOMAIN items' : i + 1 \in DOMAIN items /\ items'[i] = items[i + 1]
<1>1. items \in Seq(Copies)
  BY DEF TypeOK, Copies
<1> QED BY <1>1, Shortened, LenProperties

\* The types, by what the steps change together.
CmdsType == cmds \in Seq(Commands) /\ Len(cmds) <= MaxCommands

ItemsType == items \in Seq(Copies) /\ Len(items) <= Length

DaemonType ==
  /\ active \subseteq timers /\ timers \subseteq Ids
  /\ firing = NoFiring \/ (firing.id \in Ids /\ firing.kills <= kills)
  /\ stalled \in BOOLEAN

LoopType ==
  /\ queue \in {"none", "open"}
  /\ lpc \in {"none", "born", "js", "receive", "lookup", "complete",
              "stop", "cleanup", "destroy", "unlink", "hung"}
  /\ callbacks \subseteq Ids /\ listed \subseteq Ids /\ handles \subseteq Ids
  /\ kind \in [Ids -> {"interval", "timeout"}] /\ seq \in 0 .. MaxTimers
  /\ received \in Copies
  /\ back \in {"receive", "complete"} /\ target \in Ids /\ after \in {"js", "receive"}

KillType ==
  /\ kpc \in {"run", "clear", "reset", "delete", "killed"} /\ kills \in 0 .. MaxKills
  /\ cleared \subseteq Ids /\ unstopped \subseteq Ids

\* TypeOK, taken apart.
LEMMA TypeParts == TypeOK <=> CmdsType /\ ItemsType /\ DaemonType /\ LoopType /\ KillType
BY DEF TypeOK, CmdsType, ItemsType, DaemonType, LoopType, KillType, Copies

\* What an executed command may ask for.
LEMMA CommandTypes == \A e \in Commands : e.op \in {"start", "stop", "delete"} /\ e.id \in Ids
BY DEF Commands

\* The steps that leave the command queue alone, and those that leave the event queue alone.
LEMMA Frames ==
  /\ \/ \E c \in Ids : ClearTimer(c)
     \/ SetTimerToZero \/ TaskStart \/ Destroy \/ Unlink \/ Return \/ Receive \/ Lookup \/ Complete
     \/ Suspend \/ ClearEventLoop \/ KillReset \/ KillFinish \/ Start \/ UNCHANGED vars
     => cmds' = cmds
  /\ \/ \E c \in Ids : Expire(c) \/ ClearTimer(c)
     \/ Command \/ Stop \/ Cleanup \/ Destroy \/ Unlink \/ Return \/ Lookup \/ Complete
     \/ SetTimerToZero \/ \E what \in Kinds : SetTimer(what)
     \/ Suspend \/ KillTimer \/ ClearEventLoop \/ Start \/ UNCHANGED vars
     => items' = items
<1> USE DEF daemonVars, loopVars, killVars, DaemonFrame, LoopFrame, Undefined
<1>1. /\ \A c \in Ids : ClearTimer(c) => cmds' = cmds /\ items' = items
      /\ \A c \in Ids : Expire(c) => items' = items
      /\ SetTimerToZero => cmds' = cmds /\ items' = items
  BY DEF Expire, ClearTimer, SetTimerToZero
<1>2. Destroy \/ Unlink \/ Return \/ Lookup \/ Complete => cmds' = cmds /\ items' = items
  BY DEF Destroy, Unlink, Return, Lookup, Complete
<1>3. Suspend \/ ClearEventLoop \/ Start \/ UNCHANGED vars => cmds' = cmds /\ items' = items
  BY DEF Suspend, ClearEventLoop, Start, vars
<1>4. TaskStart \/ Receive \/ KillReset \/ KillFinish => cmds' = cmds
  BY DEF TaskStart, Receive, KillReset, KillFinish
<1>5. Command \/ Stop \/ Cleanup \/ KillTimer => items' = items
  BY DEF Command, Stop, Cleanup, KillTimer
<1>6. \A what \in Kinds : SetTimer(what) => items' = items
  BY DEF SetTimer
<1> QED BY <1>1, <1>2, <1>3, <1>4, <1>5, <1>6

\* The command queue holds commands, and no more than there is room for.
LEMMA CmdsTyped ==
  ASSUME TypeOK, ShapeInv, [Next]_vars
  PROVE  CmdsType'
<1>1. CmdsType
  BY TypeParts
<1>2. CASE cmds' = cmds
  BY <1>1, <1>2 DEF CmdsType
<1>3. CASE \E op \in {"start", "stop", "delete"}, c \in Ids : Queues(op, c)
  BY <1>3, QueuesCommand DEF CmdsType
<1>4. CASE cmds # << >> /\ cmds' = Tail(cmds)
  BY <1>1, <1>4, TakesCommand, ConstantTypes DEF CmdsType
<1>5. CASE undefined = "no" /\ Push
  BY <1>2, <1>3, <1>5, Pushes DEF Push, Undefined, daemonVars
<1>6. CASE Command
  BY <1>2, <1>4, <1>6 DEF Command, Undefined, daemonVars
<1>7. CASE Stop \/ Cleanup \/ KillTimer
  BY <1>2, <1>3, <1>7 DEF Stop, Cleanup, KillTimer, TypeOK
<1>8. ASSUME NEW what \in Kinds, SetTimer(what) PROVE CmdsType'
  BY <1>2, <1>3, <1>8, ConstantTypes DEF SetTimer, TypeOK
<1>9. ASSUME NEW c \in Ids, Expire(c) PROVE CmdsType'
  BY <1>2, <1>3, <1>9 DEF Expire
<1> QED BY <1>2, <1>5, <1>6, <1>7, <1>8, <1>9, Frames
        DEF Next, DaemonStep, LoopStep, Script, KillStep

\* The event queue holds copies of callbacks, and no more than there is room for.
LEMMA ItemsTyped ==
  ASSUME TypeOK, ShapeInv, [Next]_vars
  PROVE  ItemsType'
<1>1. ItemsType
  BY TypeParts
<1>2. CASE items' = items
  BY <1>1, <1>2 DEF ItemsType
<1>3. CASE items' = << >>
  BY <1>3, EmptySeq, ConstantTypes DEF ItemsType
<1>4. CASE undefined = "no" /\ Push
  <2>1. CASE undefined' = "no"
    BY <1>1, <1>4, <2>1, Pushes, LenProperties, ConstantTypes DEF ItemsType
  <2> QED BY <1>2, <1>4, <2>1 DEF Push, Undefined
<1>5. CASE Receive
  <2>1. CASE items' = Tail(items)
    BY <1>1, <1>5, <2>1, TakesCopy, ConstantTypes DEF ItemsType, Receive
  <2> QED BY <1>2, <1>5, <2>1 DEF Receive, Undefined
<1>6. CASE TaskStart \/ KillReset \/ KillFinish
  BY <1>3, <1>6 DEF TaskStart, KillReset, KillFinish
<1> QED BY <1>2, <1>4, <1>5, <1>6, Frames
        DEF Next, DaemonStep, LoopStep, Script, KillStep

\* entrypoint() starts in the invariant.
LEMMA InitInvariant == Init => IInv
<1> SUFFICES ASSUME Init PROVE IInv
  OBVIOUS
<1> USE ConstantTypes DEF Init
<1>1. TypeOK
  <2>1. CmdsType /\ ItemsType
    BY EmptySeq DEF CmdsType, ItemsType
  <2>2. DaemonType
    BY DEF DaemonType
  <2>4. KillType
    BY DEF KillType
  <2>3. LoopType
    BY DEF LoopType, Copies, NoCopy
  <2> QED BY <2>1, <2>2, <2>3, <2>4, TypeParts
<1>2. ShapeInv
  BY DEF ShapeInv, FiringShape, NoFiring, CleansUp, HasReceived
<1>3. FlowInv
  BY DEF FlowInv
<1>4. DeletionInv
  BY DEF DeletionInv, NoTimerOutlivesItem
<1>5. PromptInv
  BY DEF PromptInv
<1>6. SafeInv
  BY DEF SafeInv, TimersInv, OnceInv, QueuedOnce, ReceivedOnce, HandlesInv, CleaningInv,
         Serving, CleansUp, Mistakes
<1> QED BY <1>1, <1>2, <1>3, <1>4, <1>5, <1>6 DEF IInv

\* The daemon enters the callback of a timer, or finds its item gone.
Calls(c) ==
  \/ /\ c \notin listed \/ queue = "none"
     /\ undefined' = "trigger" /\ UNCHANGED <<firing, stalled>>
  \/ /\ c \in listed /\ queue # "none" /\ undefined' = undefined
     /\ firing' \in [id : Ids, reload : BOOLEAN, kills : {kills}] /\ firing'.id = c
     /\ firing'.reload => kind[c] = "interval"
     /\ stalled' \in BOOLEAN /\ (stalled => stalled')
     /\ ~stalled' => Len(items) < Length

\* The callback of a timer is called for a timer whose item is there.
LEMMA TriggerCalls ==
  ASSUME TypeOK, NEW c \in Ids, NEW r \in BOOLEAN, Trigger(c, r), r => kind[c] = "interval"
  PROVE  Calls(c)
<1>1. CASE c \notin listed \/ queue = "none"
  BY <1>1 DEF Trigger, Calls
<1>2. CASE ~(c \notin listed \/ queue = "none")
  <2>1. firing' = [id |-> c, reload |-> r, kills |-> kills] /\ undefined' = undefined
    BY <1>2 DEF Trigger
  <2>2. stalled' = (stalled \/ Len(items) >= Length)
    BY <1>2, Zenon DEF Trigger
  <2>3. stalled' \in BOOLEAN /\ (stalled => stalled') /\ (~stalled' => ~(Len(items) >= Length))
    BY <2>2, Zenon
  <2>4. Len(items) \in Nat /\ Length \in Nat
    BY LenProperties, ConstantTypes DEF TypeOK
  <2>5. ~stalled' => Len(items) < Length
    BY <2>3, <2>4
  <2> QED BY <1>2, <2>1, <2>3, <2>5 DEF Calls
<1> QED BY <1>1, <1>2

\* What the daemon does with a command.
LEMMA Executes ==
  ASSUME TypeOK, Command
  PROVE  LET c == Head(cmds).id
             op == Head(cmds).op
         IN /\ firing = NoFiring /\ cmds # << >> /\ c \in Ids
            /\ \/ c \notin timers /\ Undefined("timer")
               \/ /\ c \in timers /\ cmds' = Tail(cmds)
                  /\ UNCHANGED <<queue, items, loopVars, cleared, killVars>>
                  /\ \/ /\ op = "start" /\ active' = active \cup {c}
                        /\ UNCHANGED <<timers, firing, stalled, undefined>>
                     \/ /\ op = "start" /\ active' = active \ {c} /\ Calls(c)
                        /\ UNCHANGED timers
                     \/ /\ op \in {"stop", "delete"} /\ active' = active \ {c}
                        /\ timers' = IF op = "delete" THEN timers \ {c} ELSE timers
                        /\ UNCHANGED <<firing, stalled, undefined>>
<1> DEFINE c == Head(cmds).id
           op == Head(cmds).op
<1>1. firing = NoFiring /\ cmds # << >>
  BY DEF Command
<1>2. c \in Ids
  <2>1. cmds \in Seq(Commands)
    BY DEF TypeOK
  <2> QED BY <1>1, <2>1, Shortened, CommandTypes
<1>3. CASE c \notin timers
  BY <1>1, <1>2, <1>3 DEF Command
<1>4. CASE c \in timers
  <2>1. cmds' = Tail(cmds) /\ UNCHANGED <<queue, items, loopVars, cleared, killVars>>
    BY <1>4 DEF Command, DaemonFrame
  <2>2. CASE op = "start" /\ active' = active \ {c} /\ Trigger(c, kind[c] = "interval") /\ UNCHANGED timers
    <3>1. \A r \in BOOLEAN : Trigger(c, r) /\ (r => kind[c] = "interval") => Calls(c)
      BY <1>2, TriggerCalls
    <3>2. (kind[c] = "interval") \in BOOLEAN
      OBVIOUS
    <3>3. Calls(c)
      BY <2>2, <3>1, <3>2, Zenon
    <3> QED BY <1>1, <1>2, <1>4, <2>1, <2>2, <3>3
  <2>3. CASE ~(op = "start" /\ active' = active \ {c} /\ Trigger(c, kind[c] = "interval") /\ UNCHANGED timers)
    <3>1. \/ /\ op = "start" /\ active' = active \cup {c}
             /\ UNCHANGED <<timers, firing, stalled, undefined>>
          \/ /\ op \in {"stop", "delete"} /\ active' = active \ {c}
             /\ timers' = IF op = "delete" THEN timers \ {c} ELSE timers
             /\ UNCHANGED <<firing, stalled, undefined>>
      BY <1>4, <2>3, Zenon DEF Command
    <3> QED BY <1>1, <1>2, <1>4, <2>1, <3>1
  <2> QED BY <2>2, <2>3
<1> QED BY <1>3, <1>4

\* What the daemon does when a timer expires.
LEMMA Expires ==
  ASSUME TypeOK, NEW c \in Ids, Expire(c)
  PROVE  /\ firing = NoFiring /\ cmds = << >> /\ c \in active /\ Calls(c)
         /\ \/ /\ active' = IF kind[c] = "interval" THEN active ELSE active \ {c}
               /\ UNCHANGED cmds
            \/ /\ kind[c] = "interval" /\ active' = active \ {c}
               /\ Queues("start", c)
         /\ UNCHANGED <<timers, queue, items, loopVars, cleared, killVars>>
<1>1. Trigger(c, FALSE)
  BY DEF Expire
<1>2. Calls(c)
  BY <1>1, TriggerCalls
<1> QED BY <1>2 DEF Expire, DaemonFrame

\* The types of what the daemon changes.
LEMMA DaemonTyped ==
  ASSUME TypeOK, ShapeInv, [Next]_vars
  PROVE  DaemonType'
<1> USE DEF DaemonType
<1>. DaemonType /\ LoopType /\ KillType
  BY TypeParts
<1>1. CASE Push
  BY <1>1 DEF Push, HasRoom, Undefined, daemonVars, killVars
<1>2. CASE Command
  <2>1. kills' = kills /\ kills <= kills
    BY <1>2, Executes, ConstantTypes DEF KillType, Undefined, killVars
  <2> QED BY <1>2, <2>1, Executes DEF Calls, Undefined, daemonVars
<1>3. CASE \E c \in Ids : Expire(c)
  <2> PICK c \in Ids : Expire(c)
    BY <1>3
  <2>1. kills' = kills /\ kills <= kills
    BY Expires, ConstantTypes DEF KillType, killVars
  <2> QED BY <2>1, Expires DEF Calls
<1>4. CASE TaskStart
  BY <1>4 DEF TaskStart, killVars
<1>5. CASE Stop
  BY <1>5 DEF Stop, LoopFrame, killVars
<1>6. CASE Cleanup
  BY <1>6 DEF Cleanup, LoopFrame, killVars
<1>7. CASE Destroy
  BY <1>7 DEF Destroy, LoopFrame, killVars
<1>8. CASE Unlink
  BY <1>8 DEF Unlink, LoopFrame, killVars
<1>9. CASE Return
  BY <1>9 DEF Return, LoopFrame, killVars
<1>10. CASE Receive
  BY <1>10 DEF Receive, LoopFrame, Undefined, daemonVars, killVars
<1>11. CASE Lookup
  BY <1>11 DEF Lookup, LoopFrame, killVars
<1>12. CASE Complete
  BY <1>12 DEF Complete, LoopFrame, Undefined, daemonVars, killVars
<1>13. CASE \E what \in Kinds : SetTimer(what)
  <2>1. seq \in Ids
    BY <1>13, ConstantTypes DEF SetTimer, LoopType
  <2> QED BY <1>13, <2>1 DEF SetTimer, LoopFrame, killVars
<1>14. CASE \E c \in Ids : ClearTimer(c)
  BY <1>14 DEF ClearTimer, Undefined, daemonVars, killVars, loopVars
<1>25. CASE SetTimerToZero
  BY <1>25 DEF SetTimerToZero, Undefined, daemonVars, loopVars, killVars
<1>15. CASE Suspend
  BY <1>15 DEF Suspend, daemonVars
<1>16. CASE KillTimer
  BY <1>16 DEF KillTimer
<1>17. CASE ClearEventLoop
  BY <1>17 DEF ClearEventLoop, daemonVars
<1>18. CASE KillReset
  BY <1>18 DEF KillReset, daemonVars
<1>19. CASE KillFinish
  <2>1. firing = NoFiring \/ firing.kills \in Int
    BY DEF ShapeInv, FiringShape
  <2> QED BY <1>19, <2>1, ConstantTypes DEF KillFinish, KillerGoes, daemonVars, loopVars, KillType
<1>20. CASE Start
  BY <1>20 DEF Start, daemonVars
<1>21. CASE UNCHANGED vars
  BY <1>21 DEF vars, daemonVars, killVars
<1> QED BY <1>1, <1>2, <1>3, <1>4, <1>5, <1>6, <1>7, <1>8, <1>9, <1>10, <1>11, <1>12,
     <1>13, <1>14, <1>25, <1>15, <1>16, <1>17, <1>18, <1>19, <1>20, <1>21
  DEF Next, DaemonStep, LoopStep, Script, KillStep

\* The types of what the loop changes.
LEMMA LoopTyped ==
  ASSUME TypeOK, [Next]_vars
  PROVE  LoopType'
<1> USE DEF LoopType
<1>. LoopType
  BY TypeParts
<1>1. CASE Push
  BY <1>1 DEF Push, HasRoom, DaemonFrame, Undefined, loopVars
<1>2. CASE Command
  BY <1>2 DEF Command, Trigger, DaemonFrame, Undefined, loopVars
<1>3. CASE \E c \in Ids : Expire(c)
  BY <1>3 DEF Expire, Trigger, DaemonFrame, loopVars
<1>4. CASE TaskStart
  BY <1>4 DEF TaskStart
<1>5. CASE Stop
  BY <1>5 DEF Stop
<1>6. CASE Cleanup
  BY <1>6 DEF Cleanup
<1>7. CASE Destroy
  BY <1>7 DEF Destroy
<1>8. CASE Unlink
  BY <1>8 DEF Unlink
<1>9. CASE Return
  BY <1>9 DEF Return
<1>10. CASE Receive
  <2>1. received' = received \/ received' \in Copies
    BY <1>10, TakesCopy DEF Receive, Undefined, loopVars
  <2> QED BY <1>10, <2>1 DEF Receive, LoopFrame, Undefined, loopVars
<1>11. CASE Lookup
  BY <1>11 DEF Lookup
<1>12. CASE Complete
  BY <1>12 DEF Complete, Undefined, loopVars
<1>13. CASE \E what \in Kinds : SetTimer(what)
  <2>1. seq \in Ids /\ seq + 1 \in 0 .. MaxTimers
    BY <1>13, ConstantTypes DEF SetTimer
  <2> PICK what \in Kinds : SetTimer(what)
    BY <1>13
  <2>2. kind' \in [Ids -> {"interval", "timeout"}]
    BY <2>1, ConstantTypes DEF SetTimer
  <2> QED BY <2>1, <2>2 DEF SetTimer
<1>14. CASE \E c \in Ids : ClearTimer(c)
  BY <1>14 DEF ClearTimer, Undefined, loopVars, daemonVars, killVars
<1>25. CASE SetTimerToZero
  BY <1>25 DEF SetTimerToZero, Undefined, daemonVars, loopVars, killVars
<1>15. CASE Suspend
  BY <1>15 DEF Suspend, loopVars
<1>16. CASE KillTimer
  BY <1>16 DEF KillTimer
<1>17. CASE ClearEventLoop
  BY <1>17 DEF ClearEventLoop
<1>18. CASE KillReset
  BY <1>18 DEF KillReset, loopVars
<1>19. CASE KillFinish
  BY <1>19 DEF KillFinish
<1>20. CASE Start
  BY <1>20 DEF Start
<1>21. CASE UNCHANGED vars
  BY <1>21 DEF vars, loopVars
<1> QED BY <1>1, <1>2, <1>3, <1>4, <1>5, <1>6, <1>7, <1>8, <1>9, <1>10, <1>11, <1>12,
     <1>13, <1>14, <1>25, <1>15, <1>16, <1>17, <1>18, <1>19, <1>20, <1>21
  DEF Next, DaemonStep, LoopStep, Script, KillStep

\* The types of what a kill changes.
LEMMA KillTyped ==
  ASSUME TypeOK, FlowInv, [Next]_vars
  PROVE  KillType'
<1> USE DEF KillType
<1>. KillType /\ LoopType
  BY TypeParts
<1>1. CASE Push
  BY <1>1 DEF Push, HasRoom, DaemonFrame, Undefined, killVars
<1>2. CASE Command
  BY <1>2 DEF Command, Trigger, DaemonFrame, Undefined, killVars
<1>3. CASE \E c \in Ids : Expire(c)
  BY <1>3 DEF Expire, Trigger, DaemonFrame, killVars
<1>4. CASE TaskStart
  BY <1>4 DEF TaskStart, killVars
<1>5. CASE Stop
  BY <1>5 DEF Stop, LoopFrame, killVars
<1>6. CASE Cleanup
  BY <1>6 DEF Cleanup, LoopFrame, killVars
<1>7. CASE Destroy
  BY <1>7 DEF Destroy, LoopFrame, killVars
<1>8. CASE Unlink
  BY <1>8 DEF Unlink, LoopFrame, killVars
<1>9. CASE Return
  BY <1>9 DEF Return, LoopFrame, killVars
<1>10. CASE Receive
  BY <1>10 DEF Receive, LoopFrame, Undefined, killVars
<1>11. CASE Lookup
  BY <1>11 DEF Lookup, LoopFrame, killVars
<1>12. CASE Complete
  BY <1>12 DEF Complete, LoopFrame, Undefined, killVars
<1>13. CASE \E what \in Kinds : SetTimer(what)
  BY <1>13 DEF SetTimer, LoopFrame, killVars
<1>14. CASE \E c \in Ids : ClearTimer(c)
  BY <1>14 DEF ClearTimer, Undefined, killVars, daemonVars, loopVars
<1>25. CASE SetTimerToZero
  BY <1>25 DEF SetTimerToZero, Undefined, daemonVars, loopVars, killVars
<1>15. CASE Suspend
  BY <1>15 DEF Suspend, KillerGoes
<1>16. CASE KillTimer
  BY <1>16 DEF KillTimer, KillerGoes, LoopType
<1>17. CASE ClearEventLoop
  BY <1>17 DEF ClearEventLoop, KillerGoes
<1>18. CASE KillReset
  BY <1>18 DEF KillReset, KillerGoes
<1>19. CASE KillFinish
  <2>1. kills < MaxKills
    BY <1>19 DEF FlowInv, KillFinish, KillerGoes
  <2> QED BY <1>19, <2>1, ConstantTypes DEF KillFinish, KillerGoes
<1>20. CASE Start
  BY <1>20 DEF Start, KillerGoes
<1>21. CASE UNCHANGED vars
  BY <1>21 DEF vars, killVars
<1> QED BY <1>1, <1>2, <1>3, <1>4, <1>5, <1>6, <1>7, <1>8, <1>9, <1>10, <1>11, <1>12,
     <1>13, <1>14, <1>25, <1>15, <1>16, <1>17, <1>18, <1>19, <1>20, <1>21
  DEF Next, DaemonStep, LoopStep, Script, KillStep

\* Every step keeps the types.
LEMMA TypeInvariant ==
  ASSUME TypeOK, ShapeInv, FlowInv, [Next]_vars
  PROVE  TypeOK'
<1>1. TypeOK' <=> CmdsType' /\ ItemsType' /\ DaemonType' /\ LoopType' /\ KillType'
  BY TypeParts, PTL
<1> QED BY <1>1, CmdsTyped, ItemsTyped, DaemonTyped, LoopTyped, KillTyped

\* The daemon waits only for room in the queue of this incarnation.
LEMMA Idle ==
  ASSUME TypeOK, FlowInv, PromptInv, undefined = "no", Quiet,
         ~stalled \/ queue = "none" \/ kpc = "delete"
  PROVE  firing = NoFiring /\ cmds = << >>
<1>1. CASE firing # NoFiring
  <2>1. queue = "open" /\ firing.kills = kills
    BY <1>1 DEF FlowInv, TypeOK
  <2>2. ~(Len(items) < Length)
    BY <1>1, <2>1 DEF Quiet, HasRoom
  <2>3. ~stalled => Len(items) < Length
    BY <1>1 DEF PromptInv
  <2>4. kpc = "delete" => Len(items) = 0
    BY <1>1, EmptySeq DEF FlowInv
  <2> QED BY <2>1, <2>2, <2>3, <2>4, ConstantTypes
<1> QED BY <1>1 DEF Quiet

\* What starting a timer changes.
LEMMA Starts ==
  ASSUME TypeOK, NEW what \in Kinds, SetTimer(what)
  PROVE  /\ seq \in Ids /\ seq \notin Known /\ Known' = Known \cup {seq}
         /\ \A c \in Known : c \in Ids /\ kind'[c] = kind[c]
         /\ callbacks' = callbacks \cup {seq} /\ listed' = listed \cup {seq}
         /\ timers' = timers \cup {seq}
         /\ lpc = "js"
         /\ \/ Queues("start", seq) /\ handles' = handles \cup {seq} /\ lpc' = lpc
            \/ Full /\ cmds' = cmds /\ handles' = handles /\ lpc' \in {"complete", "hung"}
               /\ (lpc' = "complete" => back = "complete")
         /\ UNCHANGED <<active, firing, stalled, queue, items, received, back, target, after,
                        cleared, undefined, killVars>>
<1>1. seq \in Ids /\ seq \in Nat /\ seq' = seq + 1 /\ seq < MaxTimers
  BY ConstantTypes DEF SetTimer, TypeOK
<1>2. seq \notin Known /\ Known' = Known \cup {seq} /\ \A c \in Known : c \in Ids
  BY <1>1, ConstantTypes DEF Known
<1>3. \A c \in Known : kind'[c] = kind[c]
  BY <1>1, <1>2 DEF SetTimer, TypeOK
<1> QED BY <1>1, <1>2, <1>3 DEF SetTimer, LoopFrame

\* What was given out stays so, and what was said of it stays true.
LEMMA KnownKept ==
  ASSUME TypeOK, [Next]_vars
  PROVE  /\ Known \subseteq Known' /\ Known \subseteq Ids
         /\ \A c \in Known : kind'[c] = kind[c]
         /\ \A copy : Real(copy) => Real(copy)'
<1>1. Known \subseteq Ids
  BY ConstantTypes DEF Known, TypeOK
<1>2. CASE UNCHANGED <<seq, kind>>
  BY <1>1, <1>2 DEF Known, Real
<1>3. ASSUME NEW what \in Kinds, SetTimer(what)
      PROVE  Known \subseteq Known' /\ \A c \in Known : kind'[c] = kind[c]
  BY <1>3, Starts
<1>4. (\E what \in Kinds : SetTimer(what)) \/ UNCHANGED <<seq, kind>>
  <2>1. CASE Push
    BY <2>1 DEF Push, HasRoom, DaemonFrame, Undefined, loopVars
  <2>2. CASE Command
    BY <2>2 DEF Command, Trigger, DaemonFrame, Undefined, loopVars
  <2>3. CASE \E c \in Ids : Expire(c)
    BY <2>3 DEF Expire, Trigger, DaemonFrame, loopVars
  <2>4. CASE TaskStart
    BY <2>4 DEF TaskStart
  <2>5. CASE Stop
    BY <2>5 DEF Stop
  <2>6. CASE Cleanup
    BY <2>6 DEF Cleanup
  <2>7. CASE Destroy
    BY <2>7 DEF Destroy
  <2>8. CASE Unlink
    BY <2>8 DEF Unlink
  <2>9. CASE Return
    BY <2>9 DEF Return
  <2>10. CASE Receive
    BY <2>10 DEF Receive, Undefined, loopVars
  <2>11. CASE Lookup
    BY <2>11 DEF Lookup
  <2>12. CASE Complete
    BY <2>12 DEF Complete, Undefined, loopVars
  <2>13. CASE \E what \in Kinds : SetTimer(what)
    BY <2>13 DEF SetTimer
  <2>14. CASE \E c \in Ids : ClearTimer(c)
    BY <2>14 DEF ClearTimer, Undefined, loopVars, daemonVars, killVars
  <2>25. CASE SetTimerToZero
    BY <2>25 DEF SetTimerToZero, Undefined, daemonVars, loopVars, killVars
  <2>15. CASE Suspend
    BY <2>15 DEF Suspend, loopVars
  <2>16. CASE KillTimer
    BY <2>16 DEF KillTimer
  <2>17. CASE ClearEventLoop
    BY <2>17 DEF ClearEventLoop
  <2>18. CASE KillReset
    BY <2>18 DEF KillReset, loopVars
  <2>19. CASE KillFinish
    BY <2>19 DEF KillFinish
  <2>20. CASE Start
    BY <2>20 DEF Start
  <2>21. CASE UNCHANGED vars
    BY <2>21 DEF vars, loopVars
  <2> QED BY <2>1, <2>2, <2>3, <2>4, <2>5, <2>6, <2>7, <2>8, <2>9, <2>10, <2>11, <2>12,
       <2>13, <2>14, <2>25, <2>15, <2>16, <2>17, <2>18, <2>19, <2>20, <2>21
    DEF Next, DaemonStep, LoopStep, Script, KillStep
<1>5. Known \subseteq Known' /\ \A c \in Known : kind'[c] = kind[c]
  BY <1>2, <1>3, <1>4
<1> QED BY <1>1, <1>5 DEF Real

\* Every step keeps ShapeInv.
LEMMA ShapeInvariant ==
  ASSUME TypeOK, ShapeInv, [Next]_vars
  PROVE  ShapeInv'
<1>1. FiringShape'
  <2> USE DEF ShapeInv, FiringShape
  <2>90. CASE UNCHANGED firing
    BY <2>90, KnownKept
  <2>91. CASE firing' = NoFiring
    BY <2>91 DEF NoFiring
  <2>92. ASSUME NEW c \in Ids, Calls(c)
        PROVE  FiringShape'
    <3>1. CASE UNCHANGED firing
      BY <2>90, <3>1
    <3>2. CASE ~UNCHANGED firing
      <4>1. /\ firing' \in [id : Ids, reload : BOOLEAN, kills : {kills}] /\ firing'.id = c
            /\ (firing'.reload => kind[c] = "interval") /\ c \in Known
        BY <2>92, <3>2 DEF Calls
      <4>2. kills \in Int /\ kind'[c] = kind[c] /\ c \in Known'
        BY <4>1, KnownKept, ConstantTypes DEF TypeOK
      <4> QED BY <4>1, <4>2
    <3> QED BY <3>1, <3>2
  <2>1. CASE Push
    BY <2>1, KnownKept, <2>91 DEF Push, Undefined, daemonVars
  <2>2. CASE Command
    BY <2>2, <2>90, <2>92, Executes DEF Undefined, daemonVars
  <2>3. CASE \E c \in Ids : Expire(c)
    BY <2>3, <2>90, <2>92, Expires
  <2>4. CASE TaskStart
    BY <2>4, KnownKept DEF TaskStart
  <2>5. CASE Stop
    BY <2>5, KnownKept DEF Stop, LoopFrame
  <2>6. CASE Cleanup
    BY <2>6, KnownKept DEF Cleanup, LoopFrame
  <2>7. CASE Destroy
    BY <2>7, KnownKept DEF Destroy, LoopFrame
  <2>8. CASE Unlink
    BY <2>8, KnownKept DEF Unlink, LoopFrame
  <2>9. CASE Return
    BY <2>9, KnownKept DEF Return, LoopFrame
  <2>10. CASE Receive
    BY <2>10, KnownKept DEF Receive, LoopFrame, Undefined, daemonVars
  <2>11. CASE Lookup
    BY <2>11, KnownKept DEF Lookup, LoopFrame
  <2>12. CASE Complete
    BY <2>12, KnownKept DEF Complete, LoopFrame, Undefined, daemonVars
  <2>13. CASE \E what \in Kinds : SetTimer(what)
    BY <2>13, KnownKept DEF SetTimer, LoopFrame
  <2>14. CASE \E c \in Ids : ClearTimer(c)
    BY <2>14, KnownKept DEF ClearTimer, Undefined, daemonVars, loopVars, killVars
  <2>25. CASE SetTimerToZero
    BY <2>25, KnownKept DEF SetTimerToZero, Undefined, daemonVars, loopVars, killVars
  <2>15. CASE Suspend
    BY <2>15, KnownKept DEF Suspend, daemonVars
  <2>16. CASE KillTimer
    BY <2>16, KnownKept DEF KillTimer
  <2>17. CASE ClearEventLoop
    BY <2>17, KnownKept DEF ClearEventLoop, daemonVars
  <2>18. CASE KillReset
    BY <2>18, KnownKept DEF KillReset, daemonVars
  <2>19. CASE KillFinish
    BY <2>19, KnownKept DEF KillFinish, daemonVars
  <2>20. CASE Start
    BY <2>20, KnownKept DEF Start, daemonVars
  <2>21. CASE UNCHANGED vars
    BY <2>21, KnownKept DEF vars, daemonVars
  <2> QED BY <2>1, <2>2, <2>3, <2>4, <2>5, <2>6, <2>7, <2>8, <2>9, <2>10, <2>11, <2>12,
       <2>13, <2>14, <2>25, <2>15, <2>16, <2>17, <2>18, <2>19, <2>20, <2>21
    DEF Next, DaemonStep, LoopStep, Script, KillStep
<1>2. (timers \cup listed \cup callbacks \cup handles \subseteq Known)'
  <2> USE DEF ShapeInv
  <2>1. CASE Push
    BY <2>1, KnownKept DEF Push, HasRoom, DaemonFrame, Undefined, daemonVars, loopVars
  <2>2. CASE Command
    BY <2>2, KnownKept DEF Command, Trigger, DaemonFrame, Undefined, daemonVars, loopVars
  <2>3. CASE \E c \in Ids : Expire(c)
    BY <2>3, KnownKept DEF Expire, Trigger, DaemonFrame, loopVars
  <2>4. CASE TaskStart
    BY <2>4, KnownKept DEF TaskStart
  <2>5. CASE Stop
    BY <2>5, KnownKept DEF Stop
  <2>6. CASE Cleanup
    BY <2>6, KnownKept DEF Cleanup
  <2>7. CASE Destroy
    BY <2>7, KnownKept DEF Destroy
  <2>8. CASE Unlink
    BY <2>8, KnownKept DEF Unlink
  <2>9. CASE Return
    BY <2>9, KnownKept DEF Return
  <2>10. CASE Receive
    BY <2>10, KnownKept DEF Receive, Undefined, daemonVars, loopVars
  <2>11. CASE Lookup
    BY <2>11, KnownKept DEF Lookup
  <2>12. CASE Complete
    BY <2>12, KnownKept DEF Complete, Undefined, daemonVars, loopVars
  <2>13. CASE \E what \in Kinds : SetTimer(what)
    BY <2>13, Starts
  <2>14. CASE \E c \in Ids : ClearTimer(c)
    BY <2>14, KnownKept DEF ClearTimer, Undefined, daemonVars, loopVars, killVars
  <2>25. CASE SetTimerToZero
    BY <2>25, KnownKept DEF SetTimerToZero, Undefined, daemonVars, loopVars, killVars
  <2>15. CASE Suspend
    BY <2>15, KnownKept DEF Suspend, daemonVars, loopVars
  <2>16. CASE KillTimer
    BY <2>16, KnownKept DEF KillTimer
  <2>17. CASE ClearEventLoop
    BY <2>17, KnownKept DEF ClearEventLoop, daemonVars
  <2>18. CASE KillReset
    BY <2>18, KnownKept DEF KillReset, daemonVars, loopVars
  <2>19. CASE KillFinish
    BY <2>19, KnownKept DEF KillFinish, daemonVars
  <2>20. CASE Start
    BY <2>20, KnownKept DEF Start, daemonVars
  <2>21. CASE UNCHANGED vars
    BY <2>21, KnownKept DEF vars, daemonVars, loopVars
  <2> QED BY <2>1, <2>2, <2>3, <2>4, <2>5, <2>6, <2>7, <2>8, <2>9, <2>10, <2>11, <2>12,
       <2>13, <2>14, <2>25, <2>15, <2>16, <2>17, <2>18, <2>19, <2>20, <2>21
    DEF Next, DaemonStep, LoopStep, Script, KillStep
<1>3. (CleansUp => target \in Known)'
  <2> USE DEF ShapeInv, CleansUp
  <2>. back \in {"receive", "complete"} /\ after \in {"js", "receive"}
    BY DEF TypeOK
  <2>1. CASE Push
    BY <2>1, KnownKept DEF Push, HasRoom, DaemonFrame, Undefined, loopVars
  <2>2. CASE Command
    BY <2>2, KnownKept DEF Command, Trigger, DaemonFrame, Undefined, loopVars
  <2>3. CASE \E c \in Ids : Expire(c)
    BY <2>3, KnownKept DEF Expire, Trigger, DaemonFrame, loopVars
  <2>4. CASE TaskStart
    BY <2>4, KnownKept DEF TaskStart
  <2>5. CASE Stop
    BY <2>5, KnownKept DEF Stop
  <2>6. CASE Cleanup
    BY <2>6, KnownKept DEF Cleanup
  <2>7. CASE Destroy
    BY <2>7, KnownKept DEF Destroy
  <2>8. CASE Unlink
    BY <2>8, KnownKept DEF Unlink
  <2>9. CASE Return
    BY <2>9, KnownKept DEF Return
  <2>10. CASE Receive
    BY <2>10, KnownKept DEF Receive, Undefined, loopVars
  <2>11. CASE Lookup
    BY <2>11, KnownKept DEF Lookup
  <2>12. CASE Complete
    BY <2>12, KnownKept DEF Complete, Undefined, loopVars
  <2>13. CASE \E what \in Kinds : SetTimer(what)
    BY <2>13, Starts, KnownKept
  <2>14. CASE \E c \in Ids : ClearTimer(c)
    BY <2>14, KnownKept DEF ClearTimer, Undefined, loopVars, daemonVars, killVars
  <2>25. CASE SetTimerToZero
    BY <2>25, KnownKept DEF SetTimerToZero, Undefined, daemonVars, loopVars, killVars
  <2>15. CASE Suspend
    BY <2>15, KnownKept DEF Suspend, loopVars
  <2>16. CASE KillTimer
    BY <2>16, KnownKept DEF KillTimer
  <2>17. CASE ClearEventLoop
    BY <2>17, KnownKept DEF ClearEventLoop
  <2>18. CASE KillReset
    BY <2>18, KnownKept DEF KillReset, loopVars
  <2>19. CASE KillFinish
    BY <2>19, KnownKept DEF KillFinish
  <2>20. CASE Start
    BY <2>20, KnownKept DEF Start
  <2>21. CASE UNCHANGED vars
    BY <2>21, KnownKept DEF vars, loopVars
  <2> QED BY <2>1, <2>2, <2>3, <2>4, <2>5, <2>6, <2>7, <2>8, <2>9, <2>10, <2>11, <2>12,
       <2>13, <2>14, <2>25, <2>15, <2>16, <2>17, <2>18, <2>19, <2>20, <2>21
    DEF Next, DaemonStep, LoopStep, Script, KillStep
<1>4. (\A i \in DOMAIN items : Real(items[i]))'
  <2> USE DEF ShapeInv
  <2>1. CASE items' = items
    BY <2>1, KnownKept
  <2>2. CASE items' = << >>
    BY <2>2
  <2>3. CASE undefined = "no" /\ Push
    <3>1. CASE undefined' = "no"
      <4> DEFINE c == firing.id
                 e == [id |-> c, oneShot |-> kind[c] = "timeout", whole |-> c \in callbacks]
      <4>1. Real(e) /\ Len(items) \in Nat
        BY <2>3, <3>1, Pushes, LenProperties DEF Real, TypeOK
      <4> HIDE DEF e
      <4>2. \A i \in DOMAIN items' :
              IF i = Len(items) + 1 THEN items'[i] = e
                                    ELSE i \in DOMAIN items /\ items'[i] = items[i]
        BY <2>3, <3>1, Pushes DEF e
      <4> QED BY <4>1, <4>2, KnownKept
    <3> QED BY <2>1, <2>3, <3>1 DEF Push, Undefined
  <2>4. CASE Receive
    <3>1. CASE items' = Tail(items)
      BY <2>4, <3>1, TakesCopy, KnownKept DEF Receive
    <3> QED BY <2>1, <2>4, <3>1 DEF Receive, Undefined
  <2>5. CASE TaskStart \/ KillReset \/ KillFinish
    BY <2>2, <2>5 DEF TaskStart, KillReset, KillFinish
  <2> QED BY <2>1, <2>3, <2>4, <2>5, Frames
          DEF Next, DaemonStep, LoopStep, Script, KillStep
<1>5. (HasReceived => Real(received))'
  <2> USE DEF ShapeInv, HasReceived
  <2>. back \in {"receive", "complete"} /\ after \in {"js", "receive"}
    BY DEF TypeOK
  <2>1. CASE Push
    BY <2>1, KnownKept DEF Push, HasRoom, DaemonFrame, Undefined, loopVars
  <2>2. CASE Command
    BY <2>2, KnownKept DEF Command, Trigger, DaemonFrame, Undefined, loopVars
  <2>3. CASE \E c \in Ids : Expire(c)
    BY <2>3, KnownKept DEF Expire, Trigger, DaemonFrame, loopVars
  <2>4. CASE TaskStart
    BY <2>4, KnownKept DEF TaskStart
  <2>5. CASE Stop
    BY <2>5, KnownKept DEF Stop
  <2>6. CASE Cleanup
    BY <2>6, KnownKept DEF Cleanup
  <2>7. CASE Destroy
    BY <2>7, KnownKept DEF Destroy
  <2>8. CASE Unlink
    BY <2>8, KnownKept DEF Unlink
  <2>9. CASE Return
    BY <2>9, KnownKept DEF Return
  <2>10. CASE Receive
    BY <2>10, KnownKept DEF Receive, LoopRuns, LoopFrame, Undefined, loopVars
  <2>11. CASE Lookup
    BY <2>11, KnownKept DEF Lookup
  <2>12. CASE Complete
    BY <2>12, KnownKept DEF Complete, Undefined, loopVars
  <2>13. CASE \E what \in Kinds : SetTimer(what)
    BY <2>13, Starts, KnownKept
  <2>14. CASE \E c \in Ids : ClearTimer(c)
    BY <2>14, KnownKept DEF ClearTimer, Undefined, loopVars, daemonVars, killVars
  <2>25. CASE SetTimerToZero
    BY <2>25, KnownKept DEF SetTimerToZero, Undefined, daemonVars, loopVars, killVars
  <2>15. CASE Suspend
    BY <2>15, KnownKept DEF Suspend, loopVars
  <2>16. CASE KillTimer
    BY <2>16, KnownKept DEF KillTimer
  <2>17. CASE ClearEventLoop
    BY <2>17, KnownKept DEF ClearEventLoop
  <2>18. CASE KillReset
    BY <2>18, KnownKept DEF KillReset, loopVars
  <2>19. CASE KillFinish
    BY <2>19, KnownKept DEF KillFinish
  <2>20. CASE Start
    BY <2>20, KnownKept DEF Start
  <2>21. CASE UNCHANGED vars
    BY <2>21, KnownKept DEF vars, loopVars
  <2> QED BY <2>1, <2>2, <2>3, <2>4, <2>5, <2>6, <2>7, <2>8, <2>9, <2>10, <2>11, <2>12,
       <2>13, <2>14, <2>25, <2>15, <2>16, <2>17, <2>18, <2>19, <2>20, <2>21
    DEF Next, DaemonStep, LoopStep, Script, KillStep
<1> QED BY <1>1, <1>2, <1>3, <1>4, <1>5 DEF ShapeInv

\* Every step keeps FlowInv.
LEMMA FlowInvariant ==
  ASSUME TypeOK, ShapeInv, FlowInv, PromptInv, [Next]_vars
  PROVE  FlowInv'
<1> USE DEF FlowInv
<1>0. /\ queue \in {"none", "open"} /\ kpc \in {"run", "clear", "reset", "delete", "killed"}
      /\ lpc \in {"none", "born", "js", "receive", "lookup", "complete",
                  "stop", "cleanup", "destroy", "unlink", "hung"}
      /\ back \in {"receive", "complete"} /\ after \in {"js", "receive"}
  BY DEF TypeOK
<1>01. undefined = "no" /\ Quiet /\ (queue = "none" \/ kpc = "delete") => firing = NoFiring /\ cmds = << >>
  BY Idle
<1> USE <1>0, <1>01
<1>1. CASE Push
  BY <1>1 DEF Push, HasRoom, DaemonFrame, Undefined, loopVars, killVars
<1>2. CASE Command
  BY <1>2, Executes DEF Calls, Undefined, loopVars, killVars
<1>3. CASE \E c \in Ids : Expire(c)
  BY <1>3, Expires DEF Calls, loopVars, killVars
<1>4. CASE TaskStart
  BY <1>4 DEF TaskStart, killVars
<1>5. CASE Stop
  BY <1>5 DEF Stop, LoopFrame, killVars
<1>6. CASE Cleanup
  BY <1>6 DEF Cleanup, LoopFrame, killVars
<1>7. CASE Destroy
  BY <1>7 DEF Destroy, LoopFrame, killVars
<1>8. CASE Unlink
  BY <1>8 DEF Unlink, LoopFrame, killVars
<1>9. CASE Return
  BY <1>9 DEF Return, LoopFrame, killVars
<1>10. CASE Receive
  BY <1>10 DEF Receive, LoopFrame, Undefined, killVars
<1>11. CASE Lookup
  BY <1>11 DEF Lookup, LoopFrame, killVars
<1>12. CASE Complete
  BY <1>12 DEF Complete, LoopFrame, Undefined, killVars
<1>13. CASE \E what \in Kinds : SetTimer(what)
  BY <1>13, Starts DEF SetTimer, LoopRuns, killVars
<1>14. CASE \E c \in Ids : ClearTimer(c)
  BY <1>14 DEF ClearTimer, Undefined, killVars, daemonVars, loopVars
<1>25. CASE SetTimerToZero
  BY <1>25 DEF SetTimerToZero, Undefined, daemonVars, loopVars, killVars
<1>15. CASE Suspend
  BY <1>15 DEF Suspend, KillerGoes, daemonVars, loopVars
<1>16. CASE KillTimer
  BY <1>16 DEF KillTimer, KillerGoes
<1>17. CASE ClearEventLoop
  BY <1>17 DEF ClearEventLoop, KillerGoes, daemonVars
<1>18. CASE KillReset
  BY <1>18 DEF KillReset, KillerGoes, daemonVars, loopVars
<1>19. CASE KillFinish
  BY <1>19 DEF KillFinish, KillerGoes, daemonVars
<1>20. CASE Start
  BY <1>20 DEF Start, KillerGoes, daemonVars
<1>21. CASE UNCHANGED vars
  BY <1>21 DEF vars, daemonVars, loopVars, killVars
<1> QED BY <1>1, <1>2, <1>3, <1>4, <1>5, <1>6, <1>7, <1>8, <1>9, <1>10, <1>11, <1>12,
     <1>13, <1>14, <1>25, <1>15, <1>16, <1>17, <1>18, <1>19, <1>20, <1>21
  DEF Next, DaemonStep, LoopStep, Script, KillStep

\* The only command.
LEMMA FirstCommand ==
  ASSUME TypeOK, cmds = << >>,
         NEW op \in {"start", "stop", "delete"}, NEW c \in Ids, Queues(op, c)
  PROVE  \A i \in DOMAIN cmds' : cmds'[i] = [op |-> op, id |-> c]
<1>1. Len(cmds) = 0
  BY EmptySeq
<1>2. DOMAIN cmds = {}
  BY <1>1, LenProperties DEF TypeOK
<1> QED BY <1>1, <1>2, QueuesCommand

\* A command that is queued alone is the next to be executed.
LEMMA LastCommand ==
  ASSUME TypeOK, PromptInv, ~stalled, cmds # << >>, cmds' = Tail(cmds)
  PROVE  /\ cmds' = << >> /\ DOMAIN cmds' = {}
         /\ 1 \in DOMAIN cmds /\ cmds[1] = Head(cmds)
         /\ \A i \in DOMAIN cmds : i = 1
<1>1. Len(cmds) <= 1 /\ cmds \in Seq(Commands)
  BY DEF PromptInv, TypeOK
<1>2. Len(cmds) \in Nat /\ cmds' \in Seq(Commands) /\ Len(cmds') = Len(cmds) - 1
  BY TakesCommand
<1>3. Len(cmds') \in Nat
  BY <1>2, LenProperties
<1>4. Len(cmds') = 0 /\ Len(cmds) = 1
  BY <1>1, <1>2, <1>3
<1>5. cmds' = << >>
  BY <1>2, <1>4, EmptySeq
<1>6. DOMAIN cmds' = {} /\ DOMAIN cmds = {1}
  BY <1>1, <1>2, <1>4, LenProperties
<1> QED BY <1>5, <1>6, TakesCommand

\* Before the daemon meets a full event queue, what is queued after a push
\* starts the interval whose copy was pushed.
LEMMA PushedCommands ==
  ASSUME TypeOK, ShapeInv, PromptInv, Push, undefined = "no", undefined' = "no", ~stalled
  PROVE  /\ firing # NoFiring /\ (cmds = << >> \/ cmds' = cmds)
         /\ \A i \in DOMAIN cmds' : cmds'[i] = [op |-> "start", id |-> firing.id]
         /\ kind[firing.id] = "timeout" => cmds = << >> /\ cmds' = cmds /\ DOMAIN cmds' = {}
<1>1. firing # NoFiring /\ (firing.reload => kind[firing.id] = "interval") /\ firing.id \in Ids
  BY Pushes DEF Push, ShapeInv, FiringShape
<1>2. cmds = << >> \/ LateStart
  BY <1>1 DEF PromptInv
<1>3. (~firing.reload /\ cmds' = cmds) \/ (firing.reload /\ Queues("start", firing.id))
  BY Pushes
<1>4. CASE ~firing.reload /\ cmds' = cmds
  BY <1>1, <1>2, <1>4 DEF LateStart
<1>5. CASE firing.reload /\ Queues("start", firing.id)
  <2>1. cmds = << >>
    BY <1>2, <1>5 DEF LateStart
  <2>2. \A i \in DOMAIN cmds' : cmds'[i] = [op |-> "start", id |-> firing.id]
    BY <1>1, <1>5, <2>1, FirstCommand
  <2> QED BY <1>1, <1>5, <2>1, <2>2
<1> QED BY <1>3, <1>4, <1>5

\* Every step keeps PromptInv.
LEMMA PromptInvariant ==
  ASSUME TypeOK, ShapeInv, FlowInv, PromptInv, [Next]_vars
  PROVE  PromptInv'
<1> USE DEF PromptInv
<1>. SUFFICES ASSUME Next PROVE PromptInv'
  BY DEF vars, daemonVars, loopVars, LateStart
<1>0. /\ cmds \in Seq(Commands) /\ Len(cmds) \in Nat /\ (cmds = << >> => Len(cmds) = 0)
      /\ Len(items) \in Nat /\ Length \in Nat /\ stalled \in BOOLEAN
      /\ target \in Ids /\ listed \subseteq Ids /\ Len(<< >>) = 0
  BY LenProperties, EmptySeq, ConstantTypes DEF TypeOK
<1>01. Quiet /\ (~stalled \/ lpc = "born") => firing = NoFiring /\ cmds = << >>
  BY Idle DEF FlowInv, Next
<1>02. undefined = "no"
  BY DEF Next
<1> USE <1>0, <1>01, <1>02
<1>1. CASE Push
  <2>1. CASE undefined' = "no"
    <3>1. firing # NoFiring /\ Len(items) < Length /\ firing' = NoFiring /\ stalled' = stalled
      BY <1>1, <2>1 DEF Push, HasRoom, Undefined
    <3>2. Len(cmds') = Len(cmds) \/ Len(cmds') = Len(cmds) + 1
      BY <1>1, <2>1, Pushes, QueuesCommand
    <3>3. ~stalled => cmds' = cmds \/ Len(cmds) = 0
      BY <1>1, <2>1, PushedCommands
    <3>4. ~stalled' => Len(cmds') <= 1
      BY <3>1, <3>2, <3>3
    <3> QED BY <3>1, <3>4
  <2> QED BY <1>1, <2>1 DEF Push, Undefined, daemonVars
<1>2. CASE Command
  <2>1. CASE Undefined("timer")
    BY <2>1 DEF Undefined, daemonVars
  <2>2. CASE cmds' = Tail(cmds)
    <3>1. stalled => stalled'
      BY <1>2, <2>2, Executes DEF Calls, Undefined, daemonVars
    <3>2. ~stalled => cmds' = << >>
      BY <1>2, <2>2, Executes, LastCommand
    <3>3. undefined' = "no" /\ firing' # NoFiring /\ ~stalled' => Len(items') < Length
      BY <1>2, <2>2, Executes DEF Calls, Undefined
    <3>4. stalled' \in BOOLEAN
      BY <1>2, <2>2, Executes DEF Calls, Undefined, daemonVars
    <3> QED BY <3>1, <3>2, <3>3, <3>4
  <2> QED BY <1>2, <2>1, <2>2, Executes
<1>3. CASE \E c \in Ids : Expire(c)
  <2> PICK c \in Ids : Expire(c)
    BY <1>3
  <2>1. cmds = << >> /\ Calls(c) /\ items' = items /\ kind' = kind
    BY Expires DEF loopVars
  <2>2. CASE UNCHANGED cmds
    BY <2>1, <2>2 DEF Calls
  <2>3. CASE kind[c] = "interval" /\ Queues("start", c)
    <3>1. Len(cmds') = 1 /\ \A i \in DOMAIN cmds' : cmds'[i] = [op |-> "start", id |-> c]
      BY <2>1, <2>3, FirstCommand, QueuesCommand
    <3>2. CASE firing' = firing
      BY <2>1, <3>1, <3>2, Expires DEF Calls
    <3>3. CASE firing' # firing
      <4>1. firing'.id = c /\ ~firing'.reload
        BY <2>1, <3>3, Expires DEF Calls, Expire, Trigger
      <4> QED BY <2>1, <2>3, <3>1, <4>1 DEF Calls, LateStart
    <3> QED BY <3>2, <3>3
  <2> QED BY <2>2, <2>3, Expires
<1>4. CASE TaskStart
  BY <1>4 DEF TaskStart, LoopRuns
<1>5. CASE Stop
  BY <1>5, QueuesCommand DEF Stop, LoopRuns, LoopFrame
<1>6. CASE Cleanup
  BY <1>6, QueuesCommand DEF Cleanup, LoopRuns, LoopFrame
<1>7. CASE Destroy
  BY <1>7 DEF Destroy, LoopRuns, LoopFrame
<1>8. CASE Unlink
  BY <1>8 DEF Unlink, LoopRuns, LoopFrame
<1>9. CASE Return
  BY <1>9 DEF Return, LoopRuns, LoopFrame
<1>10. CASE Receive
  BY <1>10 DEF Receive, LoopRuns, LoopFrame, Undefined, daemonVars
<1>11. CASE Lookup
  BY <1>11 DEF Lookup, LoopRuns, LoopFrame
<1>12. CASE Complete
  BY <1>12 DEF Complete, LoopRuns, LoopFrame, Undefined, daemonVars
<1>13. CASE \E what \in Kinds : SetTimer(what)
  <2> PICK what \in Kinds : SetTimer(what)
    BY <1>13
  <2>1. Len(cmds') = Len(cmds) \/ Len(cmds') = Len(cmds) + 1
    BY Starts, QueuesCommand
  <2>2. Quiet /\ stalled' = stalled /\ firing' = firing
    BY Starts DEF SetTimer, LoopRuns
  <2>3. Len(cmds') = Len(cmds) \/ Len(cmds') = Len(cmds) + 1 => Len(cmds) # 0 \/ Len(cmds') <= 1
    OBVIOUS
  <2>4. ~stalled' => Len(cmds') <= 1
    BY <2>1, <2>2, <2>3, Zenon
  <2> QED BY <2>2, <2>4
<1>14. CASE \E c \in Ids : ClearTimer(c)
  BY <1>14 DEF ClearTimer, LoopRuns, Undefined, daemonVars, loopVars, killVars
<1>25. CASE SetTimerToZero
  BY <1>25 DEF SetTimerToZero, Undefined, daemonVars, loopVars, killVars
<1>15. CASE Suspend
  BY <1>15 DEF Suspend, KillerGoes, daemonVars
<1>16. CASE KillTimer
  BY <1>16, QueuesCommand DEF KillTimer, KillerGoes
<1>17. CASE ClearEventLoop
  BY <1>17 DEF ClearEventLoop, KillerGoes, daemonVars
<1>18. CASE KillReset
  BY <1>18 DEF KillReset, KillerGoes, daemonVars
<1>19. CASE KillFinish
  BY <1>19 DEF KillFinish, KillerGoes, daemonVars
<1>20. CASE Start
  BY <1>20 DEF Start, KillerGoes, daemonVars
<1> QED BY <1>1, <1>2, <1>3, <1>4, <1>5, <1>6, <1>7, <1>8, <1>9, <1>10, <1>11, <1>12,
     <1>13, <1>14, <1>25, <1>15, <1>16, <1>17, <1>18, <1>19, <1>20
  DEF Next, DaemonStep, LoopStep, Script, KillStep

\* A queued deletion stays until it is executed.
LEMMA DeletionKept ==
  ASSUME TypeOK
  PROVE  /\ cmds' = cmds => \A d : HasDeletion(d) => HasDeletion(d)'
         /\ \A op \in {"start", "stop", "delete"}, c \in Ids : Queues(op, c) =>
              /\ \A d : HasDeletion(d) => HasDeletion(d)'
              /\ op = "delete" => HasDeletion(c)'
         /\ cmds # << >> /\ cmds' = Tail(cmds) =>
              \A d : \/ HasDeletion(d) => HasDeletion(d)'
                     \/ Head(cmds) = [op |-> "delete", id |-> d]
<1>1. cmds' = cmds => \A d : HasDeletion(d) => HasDeletion(d)'
  BY DEF HasDeletion
<1>2. ASSUME NEW op \in {"start", "stop", "delete"}, NEW c \in Ids, Queues(op, c)
      PROVE  /\ \A d : HasDeletion(d) => HasDeletion(d)'
             /\ op = "delete" => HasDeletion(c)'
  <2>1. ASSUME NEW d, HasDeletion(d) PROVE HasDeletion(d)'
    <3> PICK i \in DOMAIN cmds : cmds[i] = [op |-> "delete", id |-> d]
      BY <2>1 DEF HasDeletion
    <3>1. i \in DOMAIN cmds' /\ cmds'[i] = cmds[i]
      BY <1>2, QueuesCommand
    <3> QED BY <3>1 DEF HasDeletion
  <2>2. ASSUME op = "delete" PROVE HasDeletion(c)'
    <3>1. LET n == Len(cmds) + 1 IN n \in DOMAIN cmds' /\ cmds'[n] = [op |-> "delete", id |-> c]
      BY <1>2, <2>2, QueuesCommand
    <3> QED BY <3>1 DEF HasDeletion
  <2> QED BY <2>1, <2>2
<1>3. ASSUME cmds # << >>, cmds' = Tail(cmds), NEW d, HasDeletion(d),
             Head(cmds) # [op |-> "delete", id |-> d]
      PROVE  HasDeletion(d)'
  <2> PICK i \in DOMAIN cmds : cmds[i] = [op |-> "delete", id |-> d]
    BY <1>3 DEF HasDeletion
  <2>1. Head(cmds) = cmds[1] /\ (i = 1 \/ (i - 1 \in DOMAIN cmds' /\ cmds'[i - 1] = cmds[i]))
    BY <1>3, TakesCommand
  <2> QED BY <1>3, <2>1 DEF HasDeletion
<1> QED BY <1>1, <1>2, <1>3

\* An item is only freed once the deletion of its timer is queued.
LEMMA DeletionInvariant ==
  ASSUME TypeOK, ShapeInv, FlowInv, DeletionInv, [Next]_vars
  PROVE  DeletionInv'
<1>01. /\ DeletionInv <=>
            /\ \A c \in timers \ listed : c \in unstopped \/ HasDeletion(c)
            /\ lpc \in {"destroy", "unlink"} => target \notin timers \/ HasDeletion(target)
       /\ DeletionInv' <=>
            /\ \A c \in timers' \ listed' : c \in unstopped' \/ HasDeletion(c)'
            /\ lpc' \in {"destroy", "unlink"} => target' \notin timers' \/ HasDeletion(target)'
  BY DEF DeletionInv, NoTimerOutlivesItem, HasDeletion
<1>02. /\ target \in Ids /\ timers \subseteq Ids /\ listed \subseteq Ids
       /\ back \in {"receive", "complete"} /\ after \in {"js", "receive"}
  BY DEF TypeOK
<1> USE <1>01, <1>02
<1>1. CASE Push
  <2>1. \A d : HasDeletion(d) => HasDeletion(d)'
    BY <1>1, Pushes, DeletionKept DEF Push, Undefined, daemonVars, Next, vars
  <2> QED BY <1>1, <2>1 DEF Push, DaemonFrame, Undefined, daemonVars, loopVars, killVars
<1>2. CASE Command
  <2> DEFINE e == Head(cmds)
  <2>1. CASE cmds' = Tail(cmds)
    <3>1. \A d : HasDeletion(d) => HasDeletion(d)' \/ e = [op |-> "delete", id |-> d]
      BY <1>2, <2>1, Executes, DeletionKept
    <3>2. \A d : e = [op |-> "delete", id |-> d] => d \notin timers'
      BY <1>2, <2>1, Executes DEF Undefined, daemonVars
    <3>3. timers' \subseteq timers /\ UNCHANGED <<listed, lpc, target, unstopped>>
      BY <1>2, Executes DEF Undefined, daemonVars, loopVars, killVars
    <3> QED BY <3>1, <3>2, <3>3
  <2>2. CASE Undefined("timer")
    BY <2>2, DeletionKept DEF Undefined, daemonVars, loopVars, killVars
  <2> QED BY <1>2, <2>1, <2>2, Executes
<1>3. CASE \E c \in Ids : Expire(c)
  <2>1. \A d : HasDeletion(d) => HasDeletion(d)'
    BY <1>3, Expires, DeletionKept
  <2> QED BY <1>3, <2>1, Expires DEF loopVars, killVars
<1>4. CASE TaskStart
  <2>1. listed = {} /\ lpc' = "js"
    BY <1>4 DEF FlowInv, TaskStart, Next, vars, loopVars
  <2> QED BY <1>4, <2>1, DeletionKept DEF TaskStart, killVars
<1>5. CASE Stop
  BY <1>5, DeletionKept DEF Stop, LoopFrame, killVars
<1>6. CASE Cleanup
  BY <1>6, DeletionKept DEF Cleanup, LoopFrame, killVars
<1>7. CASE Destroy
  BY <1>7, DeletionKept DEF Destroy, LoopFrame, killVars
<1>8. CASE Unlink
  BY <1>8, DeletionKept DEF Unlink, LoopFrame, killVars
<1>9. CASE Return
  BY <1>9, DeletionKept DEF Return, LoopFrame, killVars
<1>10. CASE Receive
  BY <1>10, DeletionKept DEF Receive, LoopFrame, Undefined, daemonVars, loopVars, killVars
<1>11. CASE Lookup
  BY <1>11, DeletionKept DEF Lookup, LoopFrame, killVars
<1>12. CASE Complete
  BY <1>12, DeletionKept DEF Complete, LoopFrame, Undefined, daemonVars, loopVars, killVars
<1>13. CASE \E what \in Kinds : SetTimer(what)
  <2> PICK what \in Kinds : SetTimer(what)
    BY <1>13
  <2>1. \A d : HasDeletion(d) => HasDeletion(d)'
    BY Starts, DeletionKept
  <2>2. /\ timers' = timers \cup {seq} /\ listed' = listed \cup {seq} /\ unstopped' = unstopped
        /\ lpc' \notin {"destroy", "unlink"}
    BY Starts DEF killVars
  <2> QED BY <2>1, <2>2
<1>14. CASE \E c \in Ids : ClearTimer(c)
  BY <1>14, DeletionKept DEF ClearTimer, Undefined, daemonVars, loopVars, killVars
<1>25. CASE SetTimerToZero
  BY <1>25, DeletionKept DEF SetTimerToZero, Undefined, daemonVars, loopVars, killVars
<1>15. CASE Suspend
  BY <1>15, DeletionKept DEF Suspend, daemonVars, loopVars
<1>16. CASE KillTimer
  BY <1>16, DeletionKept DEF KillTimer
<1>17. CASE ClearEventLoop
  BY <1>17, DeletionKept DEF ClearEventLoop, daemonVars
<1>18. CASE KillReset
  BY <1>18, DeletionKept DEF KillReset, daemonVars, loopVars
<1>19. CASE KillFinish
  BY <1>19, DeletionKept DEF KillFinish, daemonVars
<1>20. CASE Start
  BY <1>20, DeletionKept DEF Start, daemonVars
<1>21. CASE UNCHANGED vars
  BY <1>21, DeletionKept DEF vars, daemonVars, loopVars, killVars
<1> QED BY <1>1, <1>2, <1>3, <1>4, <1>5, <1>6, <1>7, <1>8, <1>9, <1>10, <1>11, <1>12,
     <1>13, <1>14, <1>25, <1>15, <1>16, <1>17, <1>18, <1>19, <1>20, <1>21
  DEF Next, DaemonStep, LoopStep, Script, KillStep

\* While it is calm nobody is in the way of the daemon.
LEMMA IdleWhenCalm ==
  ASSUME TypeOK, FlowInv, PromptInv, undefined = "no", Calm, Quiet
  PROVE  firing = NoFiring /\ cmds = << >>
BY Idle DEF Calm

\* Calm comes back with the end of a kill, and with a new loop.
LEMMA CalmBefore ==
  ASSUME TypeOK, FlowInv, Next, Calm'
  PROVE  Calm \/ TaskStart \/ KillFinish
<1> USE DEF Calm, Torn
<1>1. CASE Push
  BY <1>1 DEF Push, HasRoom, DaemonFrame, Undefined, daemonVars, loopVars, killVars
<1>2. CASE Command
  BY <1>2, Executes DEF Calls, Undefined, daemonVars, loopVars, killVars
<1>3. CASE \E c \in Ids : Expire(c)
  BY <1>3, Expires DEF Calls, loopVars, killVars
<1>4. CASE TaskStart
  BY <1>4 DEF TaskStart
<1>5. CASE Stop
  BY <1>5 DEF Stop, LoopFrame, killVars
<1>6. CASE Cleanup
  BY <1>6 DEF Cleanup, LoopFrame, killVars
<1>7. CASE Destroy
  BY <1>7 DEF Destroy, LoopFrame, killVars
<1>8. CASE Unlink
  BY <1>8 DEF Unlink, LoopRuns, LoopFrame, killVars
<1>9. CASE Return
  BY <1>9 DEF Return, LoopFrame, killVars
<1>10. CASE Receive
  BY <1>10 DEF Receive, LoopFrame, Undefined, daemonVars, killVars
<1>11. CASE Lookup
  BY <1>11 DEF Lookup, LoopFrame, killVars
<1>12. CASE Complete
  BY <1>12 DEF Complete, LoopFrame, Undefined, daemonVars, killVars
<1>13. CASE \E what \in Kinds : SetTimer(what)
  BY <1>13, Starts DEF killVars, SetTimer
<1>14. CASE \E c \in Ids : ClearTimer(c)
  BY <1>14 DEF ClearTimer, Undefined, daemonVars, killVars, loopVars
<1>25. CASE SetTimerToZero
  BY <1>25 DEF SetTimerToZero, Undefined, daemonVars, loopVars, killVars
<1>15. CASE Suspend
  BY <1>15 DEF Suspend, KillerGoes, daemonVars
<1>16. CASE KillTimer
  BY <1>16 DEF KillTimer, KillerGoes
<1>17. CASE ClearEventLoop
  BY <1>17 DEF ClearEventLoop, KillerGoes, daemonVars
<1>18. CASE KillReset
  BY <1>18 DEF KillReset, KillerGoes, daemonVars, loopVars
<1>19. CASE KillFinish
  BY <1>19 DEF KillFinish
<1>20. CASE Start
  BY <1>20 DEF Start, KillerGoes, FlowInv, Next, daemonVars
<1> QED BY <1>1, <1>2, <1>3, <1>4, <1>5, <1>6, <1>7, <1>8, <1>9, <1>10, <1>11, <1>12,
     <1>13, <1>14, <1>25, <1>15, <1>16, <1>17, <1>18, <1>19, <1>20
  DEF Next, DaemonStep, LoopStep, Script, KillStep

\* The state in which nothing is left.
LEMMA NothingLeft ==
  ASSUME TypeOK, FlowInv, PromptInv, DeletionInv, undefined = "no", unstopped = {},
         Quiet, queue = "none" \/ kpc = "delete"
  PROVE  timers = {} /\ listed = {} /\ handles = {} /\ firing = NoFiring /\ cmds = << >>
<1>1. firing = NoFiring /\ cmds = << >>
  BY Idle
<1>2. listed = {} /\ handles = {}
  BY DEF FlowInv
<1>3. DOMAIN cmds = {}
  BY <1>1
<1> QED BY <1>1, <1>2, <1>3 DEF DeletionInv, NoTimerOutlivesItem

\* While nothing has gone wrong yet.
Orderly ==
  /\ Calm /\ undefined = "no"
  /\ TimersInv
  /\ kpc = "run" => OnceInv

\* In an orderly state no step but a mistake is undefined.
LEMMA FateInvariant ==
  ASSUME TypeOK, ShapeInv, FlowInv, DeletionInv, PromptInv, Orderly, Next
  PROVE  undefined' \in {"no"} \cup Mistakes
<1> USE DEF Orderly, Mistakes
<1>0. /\ Calm /\ undefined = "no" /\ ~stalled /\ unstopped = {}
      /\ \A c \in timers \ listed : HasDeletion(c)
      /\ listed # {} => queue # "none"
      /\ active \subseteq timers /\ MaxCommands \in Nat \ {0}
  BY ConstantTypes DEF Calm, DeletionInv, NoTimerOutlivesItem, HasDeletion, FlowInv, TypeOK
<1> USE <1>0
<1>1. CASE Push
  <2>1. firing.reload => cmds = << >> /\ Len(cmds) = 0
    BY <1>1, EmptySeq DEF Push, PromptInv, LateStart
  <2> QED BY <1>1, <2>1 DEF Push, Undefined
<1>2. CASE Command
  <2> DEFINE c == Head(cmds).id
             op == Head(cmds).op
  <2>1. cmds # << >> /\ Head(cmds) = cmds[1] /\ 1 \in DOMAIN cmds
    <3>1. cmds \in Seq(Commands) /\ cmds # << >>
      BY <1>2 DEF TypeOK, Command
    <3> QED BY <3>1, Shortened
  <2>2. c \in timers
    BY <2>1 DEF TimersInv
  <2>3. CASE cmds' = Tail(cmds) /\ op = "start"
    <3>1. \A i \in DOMAIN cmds : i = 1
      BY <2>1, <2>3, LastCommand
    <3>2. ~HasDeletion(c)
      BY <2>1, <2>3, <3>1 DEF HasDeletion
    <3>3. c \in listed
      BY <2>2, <3>2
    <3> QED BY <1>2, <2>2, <2>3, <3>3, Executes DEF Calls
  <2> QED BY <1>2, <2>2, <2>3, Executes
<1>3. CASE \E c \in Ids : Expire(c)
  <2> PICK c \in Ids : Expire(c)
    BY <1>3
  <2>1. c \in active /\ cmds = << >> /\ Calls(c)
    BY Expires
  <2>2. c \in listed
    BY <2>1 DEF HasDeletion
  <2> QED BY <2>1, <2>2 DEF Calls
<1>4. CASE TaskStart
  BY <1>4 DEF TaskStart
<1>5. CASE Stop
  BY <1>5 DEF Stop
<1>6. CASE Cleanup
  BY <1>6 DEF Cleanup
<1>7. CASE Destroy
  BY <1>7 DEF Destroy
<1>8. CASE Unlink
  BY <1>8 DEF Unlink
<1>9. CASE Return
  BY <1>9 DEF Return
<1>10. CASE Receive
  <2>1. items \in Seq(Copies) /\ items # << >>
    BY <1>10 DEF TypeOK, Copies, Receive
  <2>2. Head(items) = items[1] /\ 1 \in DOMAIN items
    BY <2>1, Shortened
  <2> QED BY <1>10, <2>2 DEF Receive, LoopRuns, OnceInv, QueuedOnce
<1>11. CASE Lookup
  BY <1>11 DEF Lookup
<1>12. CASE Complete
  BY <1>12 DEF Complete, Undefined
<1>13. CASE \E what \in Kinds : SetTimer(what)
  BY <1>13, Starts
<1>14. CASE \E c \in Ids : ClearTimer(c)
  BY <1>14 DEF ClearTimer, LoopRuns, OnceInv, HandlesInv, TimersInv, Undefined, daemonVars, loopVars, killVars
<1>25. CASE SetTimerToZero
  BY <1>25 DEF SetTimerToZero, Undefined, daemonVars, loopVars, killVars
<1>15. CASE Suspend
  BY <1>15 DEF Suspend
<1>16. CASE KillTimer
  BY <1>16 DEF KillTimer
<1>17. CASE ClearEventLoop
  BY <1>17 DEF ClearEventLoop
<1>18. CASE KillReset
  BY <1>18 DEF KillReset
<1>19. CASE KillFinish
  BY <1>19 DEF KillFinish
<1>20. CASE Start
  BY <1>20 DEF Start
<1> QED BY <1>1, <1>2, <1>3, <1>4, <1>5, <1>6, <1>7, <1>8, <1>9, <1>10, <1>11, <1>12,
     <1>13, <1>14, <1>25, <1>15, <1>16, <1>17, <1>18, <1>19, <1>20
  DEF Next, DaemonStep, LoopStep, Script, KillStep

\* While it is orderly, every step keeps TimersInv.
LEMMA TimersInvariant ==
  ASSUME TypeOK, ShapeInv, FlowInv, DeletionInv, PromptInv, Orderly, Next,
         Calm', undefined' = "no"
  PROVE  TimersInv'
<1>0. /\ Calm /\ undefined = "no" /\ ~stalled /\ TimersInv /\ (kpc = "run" => OnceInv)
      /\ target \in Ids /\ active \subseteq timers /\ timers \subseteq Ids /\ listed \subseteq Ids
      /\ back \in {"receive", "complete"} /\ after \in {"js", "receive"}
  BY DEF Orderly, Calm, TypeOK
<1>01. Quiet => firing = NoFiring /\ cmds = << >> /\ DOMAIN cmds = {}
  BY <1>0, IdleWhenCalm
<1> USE <1>0, <1>01 DEF TimersInv
<1>1. CASE Push
  <2>1. firing # NoFiring
    BY <1>1 DEF Push
  <2>2. \A i \in DOMAIN cmds' : cmds'[i] = [op |-> "start", id |-> firing.id]
    BY <1>1, PushedCommands
  <2> QED BY <1>1, <2>1, <2>2, Pushes DEF Push, DaemonFrame, Undefined, daemonVars,
     loopVars, killVars
<1>2. CASE Command
  <2>1. cmds # << >> /\ cmds' = Tail(cmds)
    BY <1>2, Executes DEF Undefined
  <2>2. DOMAIN cmds' = {} /\ 1 \in DOMAIN cmds /\ cmds[1] = Head(cmds)
    BY <2>1, LastCommand
  <2>3. kpc # "run" => lpc \notin {"destroy", "unlink"}
    BY DEF Calm, Torn
  <2> QED BY <1>2, <2>1, <2>2, <2>3, Executes DEF Calls, Undefined, loopVars, killVars
<1>3. CASE \E c \in Ids : Expire(c)
  <2> PICK c \in Ids : Expire(c)
    BY <1>3
  <2>1. c \in active /\ cmds = << >> /\ Calls(c)
    BY Expires
  <2>2. \A i \in DOMAIN cmds' : cmds'[i] = [op |-> "start", id |-> c]
    BY <2>1, Expires, FirstCommand
  <2> QED BY <2>1, <2>2, Expires DEF Calls, loopVars, killVars
<1>4. CASE TaskStart
  <2>1. timers = {} /\ listed = {}
    BY <1>4, NothingLeft DEF TaskStart, LoopRuns, Calm, FlowInv
  <2> QED BY <1>4, <2>1 DEF TaskStart, LoopRuns, killVars
<1>5. CASE Stop
  <2>1. \A i \in DOMAIN cmds' : cmds'[i] = [op |-> "stop", id |-> target]
    BY <1>5, FirstCommand DEF Stop, LoopRuns
  <2> QED BY <1>5, <2>1 DEF Stop, LoopRuns, LoopFrame, killVars
<1>6. CASE Cleanup
  <2>1. \A i \in DOMAIN cmds' : cmds'[i] = [op |-> "delete", id |-> target]
    BY <1>6, FirstCommand DEF Cleanup, LoopRuns
  <2> QED BY <1>6, <2>1 DEF Cleanup, LoopRuns, LoopFrame, killVars
<1>7. CASE Destroy
  <2>1. target \notin timers
    BY <1>7 DEF Destroy, LoopRuns, DeletionInv, HasDeletion
  <2> QED BY <1>7, <2>1 DEF Destroy, LoopRuns, LoopFrame, killVars
<1>8. CASE Unlink
  BY <1>8 DEF Unlink, LoopRuns, LoopFrame
<1>9. CASE Return
  BY <1>9 DEF Return, LoopFrame, killVars
<1>10. CASE Receive
  BY <1>10 DEF Receive, LoopFrame, Undefined, killVars
<1>11. CASE Lookup
  BY <1>11 DEF Lookup, LoopFrame, killVars
<1>12. CASE Complete
  BY <1>12 DEF Complete, LoopFrame, killVars, OnceInv, ReceivedOnce, Serving, Undefined
<1>13. CASE \E what \in Kinds : SetTimer(what)
  <2> PICK what \in Kinds : SetTimer(what)
    BY <1>13
  <2>1. \A i \in DOMAIN cmds' : cmds'[i] = [op |-> "start", id |-> seq]
    BY Starts, FirstCommand DEF SetTimer, LoopRuns
  <2>2. /\ timers' = timers \cup {seq} /\ listed' = listed \cup {seq}
        /\ callbacks' = callbacks \cup {seq} /\ target' = target /\ firing' = firing
        /\ lpc = "js" /\ lpc' \in {"js", "complete", "hung"} /\ Quiet
    BY Starts DEF SetTimer, LoopRuns
  <2> QED BY <2>1, <2>2
<1>14. CASE \E c \in Ids : ClearTimer(c)
  BY <1>14 DEF ClearTimer, LoopRuns, LoopFrame, OnceInv, HandlesInv, Undefined, daemonVars, loopVars, killVars
<1>25. CASE SetTimerToZero
  BY <1>25 DEF SetTimerToZero, Undefined, daemonVars, loopVars, killVars
<1>15. CASE Suspend
  BY <1>15 DEF Suspend, KillerGoes, daemonVars, loopVars
<1>16. CASE KillTimer
  <2> PICK c \in listed :
         /\ listed' = listed \ {c}
         /\ \/ Queues("delete", c)
            \/ UNCHANGED cmds
    BY <1>16 DEF KillTimer
  <2>1. \A i \in DOMAIN cmds' : cmds'[i] = [op |-> "delete", id |-> c]
    BY <1>16, FirstCommand DEF KillTimer, KillerGoes
  <2>2. lpc \notin {"destroy", "unlink"}
    BY <1>16 DEF Calm, Torn, KillTimer, KillerGoes
  <2> QED BY <1>16, <2>1, <2>2 DEF KillTimer, KillerGoes
<1>17. CASE ClearEventLoop
  BY <1>17 DEF ClearEventLoop, KillerGoes, daemonVars
<1>18. CASE KillReset
  BY <1>18 DEF KillReset, KillerGoes, daemonVars, loopVars
<1>19. CASE KillFinish
  <2>1. timers = {} /\ listed = {}
    BY <1>19, NothingLeft DEF KillFinish, KillerGoes, Calm
  <2> QED BY <1>19, <2>1 DEF KillFinish, KillerGoes, daemonVars
<1>20. CASE Start
  <2>1. lpc = "none" /\ lpc' = "born"
    BY <1>20 DEF Start, KillerGoes, FlowInv
  <2> QED BY <1>20, <2>1 DEF Start, KillerGoes, daemonVars
<1> QED BY <1>1, <1>2, <1>3, <1>4, <1>5, <1>6, <1>7, <1>8, <1>9, <1>10, <1>11, <1>12,
     <1>13, <1>14, <1>25, <1>15, <1>16, <1>17, <1>18, <1>19, <1>20
  DEF Next, DaemonStep, LoopStep, Script, KillStep

\* A spent timer is not started again.
LEMMA SpentKept ==
  ASSUME TypeOK, ShapeInv, FlowInv, PromptInv, Orderly, Next, undefined' = "no"
  PROVE  \A c \in Known : c \in Spent => c \in Spent'
<1> SUFFICES ASSUME NEW c \in Known, c \in Spent PROVE c \in Spent'
  OBVIOUS
<1>0. undefined = "no" /\ ~stalled /\ c \in Ids /\ target \in Ids /\ listed \subseteq Ids
  BY ConstantTypes DEF Orderly, Calm, Known, TypeOK
<1>01. Quiet => firing = NoFiring /\ cmds = << >> /\ DOMAIN cmds = {}
  BY <1>0, IdleWhenCalm DEF Orderly
<1> USE <1>0, <1>01 DEF Spent
<1>1. CASE Push
  <2>1. firing # NoFiring
    BY <1>1 DEF Push
  <2>2. \A i \in DOMAIN cmds' : cmds'[i] = [op |-> "start", id |-> firing.id]
    BY <1>1, PushedCommands
  <2>3. firing'.id = -1 /\ c # -1
    BY <1>1, Pushes, ConstantTypes DEF NoFiring
  <2> QED BY <1>1, <2>1, <2>2, <2>3 DEF Push, Undefined
<1>2. CASE Command
  <2>1. cmds # << >> /\ cmds' = Tail(cmds)
    BY <1>2, Executes DEF Undefined
  <2>2. DOMAIN cmds' = {} /\ 1 \in DOMAIN cmds /\ cmds[1] = Head(cmds)
    BY <2>1, LastCommand
  <2>3. Head(cmds) = [op |-> Head(cmds).op, id |-> Head(cmds).id]
    BY <1>2, <2>1, TakesCommand DEF Commands
  <2> QED BY <1>2, <2>1, <2>2, <2>3, Executes DEF Calls, Undefined
<1>3. CASE \E e \in Ids : Expire(e)
  <2> PICK d \in Ids : Expire(d)
    BY <1>3
  <2>1. d \in active /\ cmds = << >> /\ Calls(d)
    BY Expires
  <2>2. DOMAIN cmds' = {} \/ \A i \in DOMAIN cmds' : cmds'[i] = [op |-> "start", id |-> d]
    BY <2>1, Expires, FirstCommand
  <2> QED BY <2>1, <2>2, Expires DEF Calls
<1>4. CASE TaskStart
  BY <1>4 DEF TaskStart
<1>5. CASE Stop
  <2>1. \A i \in DOMAIN cmds' : cmds'[i] = [op |-> "stop", id |-> target]
    BY <1>5, FirstCommand DEF Stop, LoopRuns
  <2> QED BY <1>5, <2>1 DEF Stop, LoopFrame
<1>6. CASE Cleanup
  <2>1. \A i \in DOMAIN cmds' : cmds'[i] = [op |-> "delete", id |-> target]
    BY <1>6, FirstCommand DEF Cleanup, LoopRuns
  <2> QED BY <1>6, <2>1 DEF Cleanup, LoopFrame
<1>7. CASE Destroy
  BY <1>7 DEF Destroy, LoopFrame
<1>8. CASE Unlink
  BY <1>8 DEF Unlink, LoopFrame
<1>9. CASE Return
  BY <1>9 DEF Return, LoopFrame
<1>10. CASE Receive
  BY <1>10 DEF Receive, LoopFrame, Undefined
<1>11. CASE Lookup
  BY <1>11 DEF Lookup, LoopFrame
<1>12. CASE Complete
  BY <1>12 DEF Complete, LoopFrame, Undefined
<1>13. CASE \E what \in Kinds : SetTimer(what)
  <2> PICK what \in Kinds : SetTimer(what)
    BY <1>13
  <2>1. \A i \in DOMAIN cmds' : cmds'[i] = [op |-> "start", id |-> seq]
    BY Starts, FirstCommand DEF SetTimer, LoopRuns
  <2> QED BY <2>1, Starts
<1>14. CASE \E e \in Ids : ClearTimer(e)
  BY <1>14 DEF ClearTimer, Undefined, daemonVars, loopVars, killVars
<1>25. CASE SetTimerToZero
  BY <1>25 DEF SetTimerToZero, Undefined, daemonVars, loopVars, killVars
<1>15. CASE Suspend
  BY <1>15 DEF Suspend, daemonVars
<1>16. CASE KillTimer
  <2> PICK d \in listed : Queues("delete", d) \/ UNCHANGED cmds
    BY <1>16 DEF KillTimer
  <2>1. \A i \in DOMAIN cmds' : cmds'[i] = [op |-> "delete", id |-> d]
    BY <1>16, FirstCommand DEF KillTimer, KillerGoes
  <2> QED BY <1>16, <2>1 DEF KillTimer
<1>17. CASE ClearEventLoop
  BY <1>17 DEF ClearEventLoop, daemonVars
<1>18. CASE KillReset
  BY <1>18 DEF KillReset, daemonVars
<1>19. CASE KillFinish
  BY <1>19 DEF KillFinish, daemonVars
<1>20. CASE Start
  BY <1>20 DEF Start, daemonVars
<1> QED BY <1>1, <1>2, <1>3, <1>4, <1>5, <1>6, <1>7, <1>8, <1>9, <1>10, <1>11, <1>12,
     <1>13, <1>14, <1>25, <1>15, <1>16, <1>17, <1>18, <1>19, <1>20
  DEF Next, DaemonStep, LoopStep, Script, KillStep

\* While the loop runs, a timer and its item go away by its cleaning up only.
LEMMA TimersStay ==
  ASSUME TypeOK, ShapeInv, FlowInv, DeletionInv, PromptInv, Orderly, Next,
         kpc = "run", kpc' = "run", undefined' = "no"
  PROVE  \A c \in timers \cap listed : c \in timers' \cap listed' \/ (CleansUp /\ c = target)
<1>0. undefined = "no" /\ ~stalled /\ unstopped = {} /\ TimersInv
  BY DEF Orderly, Calm
<1> USE <1>0 DEF CleansUp
<1>1. CASE Push
  BY <1>1 DEF Push, HasRoom, DaemonFrame, Undefined, loopVars
<1>2. CASE Command
  <2>1. cmds # << >> /\ cmds' = Tail(cmds)
    BY <1>2, Executes DEF Undefined
  <2>2. 1 \in DOMAIN cmds /\ cmds[1] = Head(cmds)
    BY <2>1, LastCommand
  <2>3. Head(cmds).op = "delete" => lpc = "destroy" /\ Head(cmds).id = target
    BY <2>2 DEF TimersInv
  <2> QED BY <1>2, <2>3, Executes DEF Undefined, daemonVars, loopVars
<1>3. CASE \E c \in Ids : Expire(c)
  BY <1>3, Expires DEF loopVars
<1>4. CASE TaskStart
  <2>1. timers = {}
    BY <1>4, NothingLeft DEF TaskStart, LoopRuns, FlowInv
  <2> QED BY <2>1
<1>5. CASE Stop
  BY <1>5 DEF Stop
<1>6. CASE Cleanup
  BY <1>6 DEF Cleanup
<1>7. CASE Destroy
  BY <1>7 DEF Destroy
<1>8. CASE Unlink
  BY <1>8 DEF Unlink
<1>9. CASE Return
  BY <1>9 DEF Return
<1>10. CASE Receive
  BY <1>10 DEF Receive, Undefined
<1>11. CASE Lookup
  BY <1>11 DEF Lookup
<1>12. CASE Complete
  BY <1>12 DEF Complete, Undefined
<1>13. CASE \E what \in Kinds : SetTimer(what)
  BY <1>13, Starts
<1>14. CASE \E c \in Ids : ClearTimer(c)
  BY <1>14 DEF ClearTimer, Undefined, daemonVars, loopVars, killVars
<1>25. CASE SetTimerToZero
  BY <1>25 DEF SetTimerToZero, Undefined, daemonVars, loopVars, killVars
<1>15. CASE Suspend
  BY <1>15 DEF Suspend, daemonVars, loopVars
<1>16. CASE KillTimer
  BY <1>16 DEF KillTimer, KillerGoes
<1>17. CASE ClearEventLoop
  BY <1>17 DEF ClearEventLoop
<1>18. CASE KillReset
  BY <1>18 DEF KillReset, daemonVars, loopVars
<1>19. CASE KillFinish
  BY <1>19 DEF KillFinish, daemonVars
<1>20. CASE Start
  BY <1>20 DEF Start, daemonVars
<1> QED BY <1>1, <1>2, <1>3, <1>4, <1>5, <1>6, <1>7, <1>8, <1>9, <1>10, <1>11, <1>12,
     <1>13, <1>14, <1>25, <1>15, <1>16, <1>17, <1>18, <1>19, <1>20
  DEF Next, DaemonStep, LoopStep, Script, KillStep

\* How the loop comes to serve a copy, and to clean up.
LEMMA LoopMoves ==
  ASSUME TypeOK, Next, kpc = "run", kpc' = "run", undefined' = "no"
  PROVE  /\ Serving' => (Serving /\ received' = received) \/ Receive
         /\ CleansUp' => \/ CleansUp /\ UNCHANGED <<target, after>>
                         \/ \E c \in Ids : ClearTimer(c)
                         \/ Complete
         /\ handles' \subseteq handles \/ \E what \in Kinds : SetTimer(what)
         /\ CleansUp' => handles' \subseteq handles
         /\ cleared \subseteq cleared'
<1>0. back \in {"receive", "complete"} /\ after \in {"js", "receive"} /\ undefined = "no"
  BY DEF TypeOK, Next
<1> USE <1>0 DEF CleansUp, Serving
<1>1. CASE Push
  BY <1>1 DEF Push, HasRoom, DaemonFrame, Undefined, loopVars
<1>2. CASE Command
  BY <1>2, Executes DEF Undefined, loopVars
<1>3. CASE \E c \in Ids : Expire(c)
  BY <1>3, Expires DEF loopVars
<1>4. CASE TaskStart
  BY <1>4 DEF TaskStart
<1>5. CASE Stop
  BY <1>5 DEF Stop, LoopFrame
<1>6. CASE Cleanup
  BY <1>6 DEF Cleanup, LoopFrame
<1>7. CASE Destroy
  BY <1>7 DEF Destroy, LoopFrame
<1>8. CASE Unlink
  BY <1>8 DEF Unlink, LoopFrame
<1>9. CASE Return
  BY <1>9 DEF Return, LoopFrame
<1>10. CASE Receive
  BY <1>10 DEF Receive, LoopFrame, Undefined
<1>11. CASE Lookup
  BY <1>11 DEF Lookup, LoopFrame
<1>12. CASE Complete
  BY <1>12 DEF Complete, LoopFrame, Undefined
<1>13. CASE \E what \in Kinds : SetTimer(what)
  BY <1>13, Starts
<1>14. CASE \E c \in Ids : ClearTimer(c)
  BY <1>14 DEF ClearTimer, Undefined, daemonVars, loopVars, killVars
<1>25. CASE SetTimerToZero
  BY <1>25 DEF SetTimerToZero, Undefined, daemonVars, loopVars, killVars
<1>15. CASE Suspend
  BY <1>15 DEF Suspend, loopVars
<1>16. CASE KillTimer
  BY <1>16 DEF KillTimer
<1>17. CASE ClearEventLoop
  BY <1>17 DEF ClearEventLoop, KillerGoes
<1>18. CASE KillReset
  BY <1>18 DEF KillReset, loopVars
<1>19. CASE KillFinish
  BY <1>19 DEF KillFinish
<1>20. CASE Start
  BY <1>20 DEF Start
<1> QED BY <1>1, <1>2, <1>3, <1>4, <1>5, <1>6, <1>7, <1>8, <1>9, <1>10, <1>11, <1>12,
     <1>13, <1>14, <1>25, <1>15, <1>16, <1>17, <1>18, <1>19, <1>20
  DEF Next, DaemonStep, LoopStep, Script, KillStep

\* While the loop runs, a callback is freed before its item.
LEMMA CallbacksStay ==
  ASSUME TypeOK, ShapeInv, FlowInv, Next, kpc = "run", kpc' = "run", undefined' = "no",
         callbacks \subseteq listed, lpc = "unlink" => target \notin callbacks
  PROVE  callbacks' \subseteq listed' /\ (lpc' = "unlink" => target' \notin callbacks')
<1>0. /\ undefined = "no" /\ back \in {"receive", "complete"} /\ after \in {"js", "receive"}
      /\ queue = "none" => callbacks = {}
  BY DEF TypeOK, Next, FlowInv
<1> USE <1>0
<1>1. CASE Push
  BY <1>1 DEF Push, HasRoom, DaemonFrame, Undefined, loopVars
<1>2. CASE Command
  BY <1>2, Executes DEF Undefined, loopVars
<1>3. CASE \E c \in Ids : Expire(c)
  BY <1>3, Expires DEF loopVars
<1>4. CASE TaskStart
  BY <1>4 DEF TaskStart, LoopRuns, FlowInv
<1>5. CASE Stop
  BY <1>5 DEF Stop, LoopFrame
<1>6. CASE Cleanup
  BY <1>6 DEF Cleanup, LoopFrame
<1>7. CASE Destroy
  BY <1>7 DEF Destroy, LoopFrame
<1>8. CASE Unlink
  BY <1>8 DEF Unlink, LoopFrame
<1>9. CASE Return
  BY <1>9 DEF Return, LoopFrame
<1>10. CASE Receive
  BY <1>10 DEF Receive, LoopFrame, Undefined
<1>11. CASE Lookup
  BY <1>11 DEF Lookup, LoopFrame
<1>12. CASE Complete
  BY <1>12 DEF Complete, LoopFrame, Undefined
<1>13. CASE \E what \in Kinds : SetTimer(what)
  BY <1>13, Starts
<1>14. CASE \E c \in Ids : ClearTimer(c)
  BY <1>14 DEF ClearTimer, Undefined, daemonVars, loopVars, killVars
<1>25. CASE SetTimerToZero
  BY <1>25 DEF SetTimerToZero, Undefined, daemonVars, loopVars, killVars
<1>15. CASE Suspend
  BY <1>15 DEF Suspend, loopVars
<1>16. CASE KillTimer
  BY <1>16 DEF KillTimer, KillerGoes
<1>17. CASE ClearEventLoop
  BY <1>17 DEF ClearEventLoop, KillerGoes
<1>18. CASE KillReset
  BY <1>18 DEF KillReset, loopVars
<1>19. CASE KillFinish
  BY <1>19 DEF KillFinish
<1>20. CASE Start
  BY <1>20 DEF Start
<1> QED BY <1>1, <1>2, <1>3, <1>4, <1>5, <1>6, <1>7, <1>8, <1>9, <1>10, <1>11, <1>12,
     <1>13, <1>14, <1>25, <1>15, <1>16, <1>17, <1>18, <1>19, <1>20
  DEF Next, DaemonStep, LoopStep, Script, KillStep

\* What the event queue holds after a step.
LEMMA ItemsMove ==
  ASSUME TypeOK, ShapeInv, Next, undefined' = "no"
  PROVE  \/ items' = items \/ items' = << >>
         \/ Receive /\ items' = Tail(items)
         \/ Push
<1>1. undefined = "no"
  BY DEF Next
<1>2. Receive => items' = Tail(items)
  BY DEF Receive, Undefined
<1>3. TaskStart \/ KillReset \/ KillFinish => items' = << >>
  BY DEF TaskStart, KillReset, KillFinish
<1> QED BY <1>1, <1>2, <1>3, Frames DEF Next, DaemonStep, LoopStep, Script, KillStep

\* While it is orderly, every step keeps OnceInv.
LEMMA OnceInvariant ==
  ASSUME TypeOK, ShapeInv, FlowInv, DeletionInv, PromptInv, Orderly, Next,
         kpc = "run", kpc' = "run", undefined' = "no"
  PROVE  OnceInv'
<1>0. /\ undefined = "no" /\ ~stalled /\ TimersInv
      /\ QueuedOnce /\ ReceivedOnce /\ HandlesInv /\ CleaningInv
      /\ timers \subseteq Known /\ listed \subseteq Known /\ handles \subseteq Known
      /\ Known \subseteq Ids
      /\ [Next]_vars
  BY KnownKept DEF Orderly, Calm, OnceInv, ShapeInv
<1>1. /\ \A c \in Known : (c \in Spent => c \in Spent') /\ kind'[c] = kind[c]
      /\ \A copy : Real(copy) => Real(copy)'
  BY <1>0, SpentKept, KnownKept
<1>2. /\ \A c \in timers \cap listed : c \in timers' \cap listed' \/ (CleansUp /\ c = target)
      /\ CleansUp => target \in Known
      /\ \A i \in DOMAIN items : Real(items[i])
  BY TimersStay DEF ShapeInv
<1>3. /\ Serving' => (Serving /\ received' = received) \/ Receive
      /\ CleansUp' => \/ CleansUp /\ UNCHANGED <<target, after>>
                      \/ \E c \in Ids : ClearTimer(c)
                      \/ Complete
      /\ handles' \subseteq handles \/ \E what \in Kinds : SetTimer(what)
      /\ CleansUp' => handles' \subseteq handles
      /\ cleared \subseteq cleared'
  BY <1>0, LoopMoves
<1>4. Quiet => firing = NoFiring /\ cmds = << >>
  BY <1>0, IdleWhenCalm DEF Orderly
\* What a copy in the queue is about is not being cleaned up, unless it was cleared.
<1>5. \A i \in DOMAIN items :
        items[i].oneShot => /\ items[i].id \in Known /\ kind[items[i].id] = "timeout"
                            /\ items[i].id \in (timers' \cap listed') \cup cleared'
                            /\ items[i].id \in Spent'
  <2> SUFFICES ASSUME NEW i \in DOMAIN items, items[i].oneShot
               PROVE  /\ items[i].id \in Known /\ kind[items[i].id] = "timeout"
                      /\ items[i].id \in (timers' \cap listed') \cup cleared'
                      /\ items[i].id \in Spent'
    OBVIOUS
  <2>1. /\ items[i].id \in Known /\ kind[items[i].id] = "timeout"
        /\ items[i].id \in (timers \cap listed) \cup cleared /\ items[i].id \in Spent
    BY <1>0, <1>2 DEF Real, QueuedOnce
  <2>2. CleansUp /\ items[i].id = target => target \in cleared
    BY <1>0, <2>1 DEF CleaningInv, Over, Queued
  <2> QED BY <1>1, <1>2, <1>3, <2>1, <2>2
\* The callback that is pushed has no other copy.
<1>6. firing # NoFiring /\ kind[firing.id] = "timeout" =>
        \A i \in DOMAIN items : items[i].id # firing.id
  BY <1>0, <1>2 DEF Real, QueuedOnce, Spent
\* A timeout that is over stays so.
<1>65. \A c \in Known : Over(c) => Over(c)'
  <2> SUFFICES ASSUME NEW c \in Known, Over(c) PROVE Over(c)'
    OBVIOUS
  <2>1. kind'[c] = "timeout" /\ c \in Spent' /\ \A i \in DOMAIN items : items[i].id # c
    BY <1>1 DEF Over, Queued
  <2>2. \A i \in DOMAIN items' : items'[i].id # c
    <3>1. CASE items' = items \/ items' = << >>
      BY <2>1, <3>1
    <3>2. CASE Receive /\ items' = Tail(items)
      <4>1. items # << >>
        BY <3>2 DEF Receive
      <4> QED BY <2>1, <3>2, <4>1, TakesCopy
    <3>3. CASE Push
      <4>1. c # firing.id
        BY DEF Over, Spent
      <4> QED BY <1>0, <2>1, <3>3, <4>1, Pushes
    <3> QED BY <3>1, <3>2, <3>3, ItemsMove
  <2> QED BY <2>1, <2>2 DEF Over, Queued
<1>7. CASE Push
  <2> DEFINE c == firing.id
             e == [id |-> c, oneShot |-> kind[c] = "timeout", whole |-> c \in callbacks]
  <2>1. /\ c \in Known /\ firing' = NoFiring /\ firing # NoFiring /\ Len(items) \in Nat
        /\ (kind[c] = "timeout" => DOMAIN cmds' = {})
        /\ \A i \in DOMAIN items' :
             IF i = Len(items) + 1 THEN items'[i] = e
                                   ELSE i \in DOMAIN items /\ items'[i] = items[i]
    BY <1>0, <1>7, Pushes, PushedCommands, LenProperties DEF Push, TypeOK
  <2>2. UNCHANGED <<timers, active, listed, callbacks, cleared, handles, kind, lpc, back, target, after, received>>
    BY <1>0, <1>7 DEF Push, DaemonFrame, Undefined, loopVars
  <2>3. c \in timers \cap listed /\ c \in callbacks /\ c # -1
    <3>1. c \in timers \cap listed /\ timers \cap listed \subseteq callbacks
      BY <1>0, <2>1 DEF TimersInv
    <3>2. -1 \notin Ids
      BY ConstantTypes
    <3>3. c \in Ids
      BY <1>0, <2>1
    <3> QED BY <3>1, <3>2, <3>3
  <2>4. kind[c] = "timeout" => c \in Spent'
    BY <1>0, <2>1, <2>2, <2>3 DEF HandlesInv, Spent, NoFiring
  <2>5. QueuedOnce'
    <3> SUFFICES ASSUME NEW i \in DOMAIN items'
                 PROVE  /\ items'[i].whole
                        /\ items'[i].oneShot =>
                             /\ items'[i].id \in (timers' \cap listed') \cup cleared'
                             /\ items'[i].id \in Spent'
                             /\ \A j \in DOMAIN items' : items'[j].id = items'[i].id => j = i
      BY DEF QueuedOnce
    <3>1. CASE i = Len(items) + 1
      <4>1. items'[i] = e /\ e.whole /\ e.id = c /\ (e.oneShot => kind[c] = "timeout")
        BY <2>1, <2>3, <3>1
      <4>2. kind[c] = "timeout" => \A j \in DOMAIN items' : items'[j].id = c => j = i
        BY <1>6, <2>1, <3>1
      <4> HIDE DEF e
      <4> QED BY <2>2, <2>3, <2>4, <4>1, <4>2
    <3>2. CASE i # Len(items) + 1
      <4>1. i \in DOMAIN items /\ items'[i] = items[i]
        BY <2>1, <3>2
      <4>2. items[i].oneShot => \A j \in DOMAIN items' : items'[j].id = items[i].id => j = i
        <5> SUFFICES ASSUME items[i].oneShot, NEW j \in DOMAIN items', items'[j].id = items[i].id
                     PROVE  j = i
          OBVIOUS
        <5>1. kind[items[i].id] = "timeout" /\ items[i].id # c
          BY <1>5, <1>6, <2>1, <4>1
        <5>2. j \in DOMAIN items /\ items'[j] = items[j]
          BY <2>1, <5>1
        <5> QED BY <1>0, <4>1, <5>2 DEF QueuedOnce
      <4> QED BY <1>0, <1>5, <4>1, <4>2 DEF QueuedOnce
    <3> QED BY <3>1, <3>2
  <2>6. ReceivedOnce'
    <3> SUFFICES ASSUME Serving', received'.oneShot
                 PROVE  /\ received'.id \in (timers' \cap listed') \cup cleared'
                        /\ received'.id \in Spent'
                        /\ \A i \in DOMAIN items' : items'[i].id # received'.id
      BY DEF ReceivedOnce
    <3>1. /\ Serving /\ received' = received 
          /\ received.id \in (timers \cap listed) \cup cleared
          /\ received.id \in Spent /\ \A i \in DOMAIN items : items[i].id # received.id
      BY <1>0, <2>2 DEF ReceivedOnce, Serving, CleansUp
    <3>2. received.id # c
      BY <3>1 DEF Spent
    <3>3. \A i \in DOMAIN items' : items'[i].id # received.id
      BY <2>1, <3>1, <3>2
    <3>4. received.id \in Known
      BY <3>1 DEF ShapeInv, HasReceived, Serving, Real
    <3> QED BY <1>1, <2>2, <3>1, <3>3, <3>4
  <2>7. HandlesInv'
    <3>1. \A d \in handles : Over(d) => Over(d)'
      BY <1>0, <1>65
    <3>2. \A d \in handles' : d \in (timers' \cap listed') \cup cleared' \/ Over(d)'
      BY <1>0, <2>2, <3>1 DEF HandlesInv
    <3> QED BY <1>0, <2>1, <2>2, <3>2 DEF HandlesInv
  <2>8. CleaningInv'
    <3>1. \A d : d = target /\ CleansUp /\ Over(d) => Over(d)'
      BY <1>2, <1>65
    <3>2. CleansUp' => CleansUp
      BY <2>2 DEF CleansUp
    <3> QED BY <1>0, <2>2, <3>1, <3>2 DEF CleaningInv, Over, Queued, Spent
  <2> QED BY <2>5, <2>6, <2>7, <2>8 DEF OnceInv
<1>8. CASE ~Push
  <2>1. \/ items' = items \/ items' = << >>
        \/ /\ Receive /\ items' = Tail(items)
           /\ items # << >> /\ Head(items) = items[1] /\ 1 \in DOMAIN items
           /\ \A i \in DOMAIN items' : i + 1 \in DOMAIN items /\ items'[i] = items[i + 1]
    BY <1>0, <1>8, ItemsMove, TakesCopy DEF Receive
  <2>2. DOMAIN items \subseteq Int /\ DOMAIN items' \subseteq Int
    BY <1>0, LenProperties, TypeInvariant DEF TypeOK
  <2>3. QueuedOnce'
    <3>1. CASE items' = items
      BY <1>0, <1>5, <3>1 DEF QueuedOnce
    <3>2. CASE items' = << >>
      BY <3>2 DEF QueuedOnce
    <3>3. CASE items' # items /\ items' # << >>
      BY <1>0, <1>5, <2>1, <2>2, <3>3 DEF QueuedOnce
    <3> QED BY <3>1, <3>2, <3>3
  <2>4. ReceivedOnce'
    <3>1. CASE Receive
      <4>1. received' = items[1] /\ 1 \in DOMAIN items /\ items' = Tail(items)
        BY <1>0, <2>1, <3>1, TakesCopy DEF Receive, Undefined
      <4>2. \A i \in DOMAIN items' : i + 1 \in DOMAIN items /\ items'[i] = items[i + 1] /\ i + 1 # 1
        BY <3>1, <4>1, TakesCopy, LenProperties DEF Receive
      <4> QED BY <1>0, <1>5, <4>1, <4>2 DEF QueuedOnce, ReceivedOnce
    <3>2. CASE ~Receive
      <4> SUFFICES ASSUME Serving, received' = received, received.oneShot
                   PROVE  /\ received.id \in (timers' \cap listed') \cup cleared'
                          /\ received.id \in Spent'
                          /\ \A i \in DOMAIN items' : items'[i].id # received.id
        BY <1>3, <3>2 DEF ReceivedOnce
      <4>1. /\ received.id \in (timers \cap listed) \cup cleared /\ received.id \in Spent
            /\ \A i \in DOMAIN items : items[i].id # received.id
        BY <1>0 DEF ReceivedOnce
      <4>2. received.id \in Known
        BY DEF ShapeInv, HasReceived, Serving, Real
      <4>3. CleansUp /\ received.id = target => target \in cleared
        BY <1>0 DEF CleaningInv, Serving, CleansUp
      <4> QED BY <1>1, <1>2, <1>3, <2>1, <3>2, <4>1, <4>2, <4>3
    <3> QED BY <3>1, <3>2
  <2>5. HandlesInv'
    <3>1. firing' # NoFiring /\ kind'[firing'.id] = "timeout" => firing'.id \notin active'
      <4>1. CASE Command \/ \E c \in Ids : Expire(c)
        BY <1>0, <1>1, <4>1, Executes, Expires DEF Calls, NoFiring, Undefined
      <4>2. CASE firing' = NoFiring
        BY <4>2
      <4>3. firing' = NoFiring \/ Command \/ \E c \in Ids : Expire(c)
        <5>1. DaemonStep => Command
          BY <1>8 DEF DaemonStep
        <5>2. LoopStep \/ Script \/ Suspend \/ KillStep => Quiet /\ firing' = firing
          BY DEF LoopStep, TaskStart, Stop, Cleanup, Destroy, Unlink, Return, Receive, Lookup,
                 Complete, Script, SetTimer, SetTimerToZero, ClearTimer, LoopRuns, LoopFrame, Undefined,
                 Suspend, KillStep, KillTimer, ClearEventLoop, KillReset, KillFinish, Start,
                 KillerGoes, daemonVars
        <5> QED BY <1>4, <5>1, <5>2 DEF Next
      <4> QED BY <4>1, <4>2, <4>3
    <3>2. \A c \in handles' : c \in (timers' \cap listed') \cup cleared' \/ Over(c)'
      <4>1. \A c \in handles : c \in (timers' \cap listed') \cup cleared' \/ Over(c)'
        <5> SUFFICES ASSUME NEW c \in handles
                     PROVE  c \in (timers' \cap listed') \cup cleared' \/ Over(c)'
          OBVIOUS
        <5>1. c \in Known /\ (c \in (timers \cap listed) \cup cleared \/ Over(c))
          BY <1>0 DEF HandlesInv
        <5>2. CleansUp /\ c = target => c \in cleared \/ Over(c)
          BY <1>0 DEF CleaningInv
        <5> QED BY <1>2, <1>3, <1>65, <5>1, <5>2
      <4>2. ASSUME NEW what \in Kinds, SetTimer(what)
            PROVE  \A c \in handles' : c \in handles \/ c \in timers' \cap listed'
        BY <4>2, Starts
      <4> QED BY <1>3, <4>1, <4>2
    <3>3. callbacks' \subseteq listed' /\ (lpc' = "unlink" => target' \notin callbacks')
      BY <1>0, CallbacksStay DEF HandlesInv
    <3> QED BY <3>1, <3>2, <3>3 DEF HandlesInv
  <2>6. CleaningInv'
    <3>1. CASE Complete
      <4> SUFFICES ASSUME CleansUp' PROVE after' = "receive" /\ Over(target)'
        BY DEF CleaningInv
      <4>1. /\ received.oneShot /\ target' = received.id /\ after' = "receive"
            /\ items' = items /\ Serving
        BY <1>0, <3>1 DEF Complete, Undefined, CleansUp, Serving
      <4>2. kind[received.id] = "timeout" /\ received.id \in Known
        BY <4>1 DEF ShapeInv, HasReceived, Serving, Real
      <4>3. Over(received.id)
        BY <1>0, <4>1, <4>2 DEF ReceivedOnce, Over, Queued
      <4> QED BY <1>65, <4>1, <4>2, <4>3 DEF Over, Queued
    <3>2. CASE \E c \in Ids : ClearTimer(c)
      <4> PICK c \in Ids : ClearTimer(c)
        BY <3>2
      <4>1. target' = c /\ after' = "js" /\ cleared' = cleared \cup {c}
        BY DEF ClearTimer, Undefined
      <4> QED BY <4>1 DEF CleaningInv
    <3>3. CASE CleansUp' /\ CleansUp /\ UNCHANGED <<target, after>>
      <4>1. \A d : d = target /\ Over(d) => Over(d)'
        BY <1>2, <1>65, <3>3
      <4>2. target \in cleared => target' \in cleared'
        BY <1>3, <3>3
      <4> QED BY <1>0, <3>3, <4>1, <4>2 DEF CleaningInv, Over, Queued, Spent
    <3>4. CASE ~CleansUp'
      BY <3>4 DEF CleaningInv
    <3> QED BY <1>3, <3>1, <3>2, <3>3, <3>4
  <2> QED BY <2>3, <2>4, <2>5, <2>6 DEF OnceInv
<1> QED BY <1>7, <1>8

\* A loop that is about to run serves nothing.
LEMMA StartsClean ==
  ASSUME TypeOK, FlowInv, PromptInv, Next, Start \/ TaskStart
  PROVE  OnceInv'
<1>1. /\ undefined = "no" /\ queue = "none" /\ Quiet /\ handles = {} /\ callbacks = {}
      /\ items = << >>
  BY DEF Next, Start, TaskStart, KillerGoes, LoopRuns, FlowInv
<1>2. firing = NoFiring
  BY <1>1, Idle
<1>3. /\ items' = << >> /\ firing' = NoFiring /\ handles' = {} /\ callbacks' = {}
      /\ lpc' = "born" \/ (lpc' = "js" /\ back' = "receive")
  BY <1>1, <1>2 DEF Start, TaskStart, daemonVars
<1> QED BY <1>3 DEF OnceInv, QueuedOnce, ReceivedOnce, HandlesInv, CleaningInv, Serving, CleansUp

\* A kill and a start leave nothing behind that could do harm.
LEMMA Renewed ==
  ASSUME TypeOK, FlowInv, PromptInv, DeletionInv, Next, Calm', TaskStart \/ KillFinish
  PROVE  undefined' = "no" /\ TimersInv'
<1>1. /\ undefined = "no" /\ undefined' = "no" /\ unstopped = {} /\ Quiet
      /\ queue = "none" \/ kpc = "delete"
  BY DEF Next, TaskStart, KillFinish, KillerGoes, LoopRuns, FlowInv, Calm, killVars
<1>2. timers = {} /\ listed = {} /\ firing = NoFiring /\ cmds = << >>
  BY <1>1, NothingLeft
<1>3. timers' = {} /\ listed' = {} /\ firing' = NoFiring /\ cmds' = << >> /\ DOMAIN cmds' = {}
      /\ lpc' \in {"js", "none"}
  BY <1>2 DEF TaskStart, KillFinish, daemonVars
<1> QED BY <1>1, <1>3 DEF TimersInv

\* The loop of a new incarnation is started after the old one was killed.
LEMMA KillerStarts ==
  ASSUME TypeOK, Next, kpc # "run", kpc' = "run"
  PROVE  Start
<1>1. CASE Push
  BY <1>1 DEF Push, HasRoom, DaemonFrame, Undefined, killVars
<1>2. CASE Command
  BY <1>2, Executes DEF Undefined, killVars
<1>3. CASE \E c \in Ids : Expire(c)
  BY <1>3, Expires DEF killVars
<1>4. CASE TaskStart
  BY <1>4 DEF TaskStart, killVars
<1>5. CASE Stop
  BY <1>5 DEF Stop, LoopFrame, killVars
<1>6. CASE Cleanup
  BY <1>6 DEF Cleanup, LoopFrame, killVars
<1>7. CASE Destroy
  BY <1>7 DEF Destroy, LoopFrame, killVars
<1>8. CASE Unlink
  BY <1>8 DEF Unlink, LoopFrame, killVars
<1>9. CASE Return
  BY <1>9 DEF Return, LoopFrame, killVars
<1>10. CASE Receive
  BY <1>10 DEF Receive, LoopFrame, Undefined, killVars
<1>11. CASE Lookup
  BY <1>11 DEF Lookup, LoopFrame, killVars
<1>12. CASE Complete
  BY <1>12 DEF Complete, LoopFrame, Undefined, killVars
<1>13. CASE \E what \in Kinds : SetTimer(what)
  BY <1>13, Starts DEF killVars
<1>14. CASE \E c \in Ids : ClearTimer(c)
  BY <1>14 DEF ClearTimer, Undefined, killVars, daemonVars, loopVars
<1>25. CASE SetTimerToZero
  BY <1>25 DEF SetTimerToZero, Undefined, daemonVars, loopVars, killVars
<1>15. CASE Suspend
  BY <1>15 DEF Suspend, KillerGoes
<1>16. CASE KillTimer
  BY <1>16 DEF KillTimer, KillerGoes
<1>17. CASE ClearEventLoop
  BY <1>17 DEF ClearEventLoop, KillerGoes
<1>18. CASE KillReset
  BY <1>18 DEF KillReset, KillerGoes
<1>19. CASE KillFinish
  BY <1>19 DEF KillFinish, KillerGoes
<1>20. CASE Start
  BY <1>20
<1> QED BY <1>1, <1>2, <1>3, <1>4, <1>5, <1>6, <1>7, <1>8, <1>9, <1>10, <1>11, <1>12,
     <1>13, <1>14, <1>25, <1>15, <1>16, <1>17, <1>18, <1>19, <1>20
  DEF Next, DaemonStep, LoopStep, Script, KillStep

\* Every step keeps SafeInv.
LEMMA SafeInvariant ==
  ASSUME IInv, Next
  PROVE  SafeInv'
<1>0. TypeOK /\ ShapeInv /\ FlowInv /\ DeletionInv /\ PromptInv /\ SafeInv /\ undefined = "no"
  BY DEF IInv, Next
<1> SUFFICES ASSUME Calm'
             PROVE  /\ undefined' \in {"no"} \cup Mistakes
                    /\ undefined' = "no" => TimersInv'
                    /\ undefined' = "no" /\ kpc' = "run" => OnceInv'
  BY DEF SafeInv
<1>1. CASE TaskStart \/ KillFinish
  BY <1>0, <1>1, Renewed, StartsClean DEF KillFinish, KillerGoes
<1>2. CASE ~(TaskStart \/ KillFinish)
  <2>1. Orderly
    BY <1>0, <1>2, CalmBefore DEF SafeInv, Orderly
  <2>2. undefined' \in {"no"} \cup Mistakes /\ (undefined' = "no" => TimersInv')
    BY <1>0, <2>1, FateInvariant, TimersInvariant
  <2>3. CASE kpc = "run"
    BY <1>0, <2>1, <2>2, <2>3, OnceInvariant
  <2>4. CASE kpc # "run" /\ kpc' = "run"
    <3>1. Start
      BY <1>0, <2>4, KillerStarts
    <3> QED BY <1>0, <2>2, <3>1, StartsClean
  <2> QED BY <2>2, <2>3, <2>4
<1> QED BY <1>1, <1>2

\* The inductive invariant holds in every reachable state.
LEMMA Invariance == Spec => []IInv
<1>1. IInv /\ [Next]_vars => IInv'
  <2> SUFFICES ASSUME IInv, [Next]_vars PROVE IInv'
    OBVIOUS
  <2>1. TypeOK /\ ShapeInv /\ FlowInv /\ DeletionInv /\ PromptInv /\ SafeInv
    BY DEF IInv
  <2>2. TypeOK' /\ ShapeInv' /\ FlowInv' /\ DeletionInv' /\ PromptInv'
    BY <2>1, TypeInvariant, ShapeInvariant, FlowInvariant, DeletionInvariant, PromptInvariant
  <2>3. SafeInv'
    <3>1. CASE UNCHANGED vars
      BY <2>1, <3>1
         DEF vars, daemonVars, loopVars, killVars, SafeInv, Calm, Torn, TimersInv, OnceInv,
             QueuedOnce, ReceivedOnce, HandlesInv, CleaningInv, Serving, CleansUp, Spent, Over, Queued
    <3> QED BY <3>1, SafeInvariant
  <2> QED BY <2>2, <2>3 DEF IInv
<1> QED BY InitInvariant, <1>1, PTL DEF Spec

------------------------------------------------------------------------------
\* Every variable keeps its type; no queue is ever longer than it may be.
THEOREM TypeCorrect == Spec => []TypeOK
<1>1. IInv => TypeOK
  BY DEF IInv
<1> QED BY <1>1, Invariance, PTL

\* A deletion is queued for every timer whose item was freed, unless a kill
\* could not queue it (stm32 eventloop.c:67 and 109).
THEOREM DeletionsAreQueued == Spec => []NoTimerOutlivesItem
<1>1. IInv => NoTimerOutlivesItem
  BY DEF IInv, DeletionInv
<1> QED BY <1>1, Invariance, PTL

\* Until the timer daemon meets a full event queue nothing but four named
\* mistakes touches what was freed or fails an assertion, and handles and copies
\* are good until the program clears them: as long as the port queues more than
\* one command (stm32 eventloop.c:66-86 and 39-50).
THEOREM FreedByMistakesOnly ==
  ASSUME MaxCommands > 1
  PROVE  Spec => []SafeUntilStalled
<1>1. IInv => SafeUntilStalled
  <2> SUFFICES ASSUME IInv PROVE SafeUntilStalled
    OBVIOUS
  <2>1. Calm => undefined \in {"no", "early", "period", "handle", "completion"}
    BY DEF IInv, SafeInv, Mistakes
  <2>2. Full => stalled
    BY ConstantTypes DEF IInv, PromptInv, Full
  <2>3. ASSUME Calm, undefined = "no", kpc = "run"
        PROVE  /\ \A c \in handles \ (callbacks \cup cleared) :
                    kind[c] = "timeout" /\ c \notin active /\ ~Queued(c)
               /\ lpc = "complete" /\ received.oneShot => received.id \in listed \cup cleared
    <3>1. TimersInv /\ HandlesInv /\ ReceivedOnce
      BY <2>3 DEF IInv, SafeInv, OnceInv
    <3>2. \A c \in handles \ (callbacks \cup cleared) : Over(c)
      BY <3>1 DEF HandlesInv, TimersInv
    <3>3. lpc = "complete" /\ received.oneShot => received.id \in listed \cup cleared
      BY <3>1 DEF ReceivedOnce, Serving
    <3> QED BY <3>2, <3>3 DEF Over, Spent
  <2> QED BY <2>1, <2>2, <2>3 DEF SafeUntilStalled
<1> QED BY <1>1, Invariance, PTL
=============================================================================
