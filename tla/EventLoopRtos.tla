---------------------------- MODULE EventLoopRtos ----------------------------
(***************************************************************************)
(* The event loop of the stm32 port: src/eventloop.c with                  *)
(* platform/stm32f429-core/src/platform/eventloop.c, over the software     *)
(* timers and queues of FreeRTOS.                                          *)
(*                                                                         *)
(* Tasks: the timer daemon, which outranks all others, executes the        *)
(* commands that starting, stopping and deleting a timer only queue, and   *)
(* calls _timer_trigger, where it waits when the event queue is full; the  *)
(* loop; and the killer, the LWM2M client or the downloader.  Loop and     *)
(* killer have the same priority and interleave at any point, but run only *)
(* while the daemon cannot (Quiet).                                        *)
(*                                                                         *)
(* A callback, its timer_item_t and its Timer_t share an id that is never  *)
(* used again.  What touches freed memory, or fails a configASSERT, is     *)
(* named in `undefined` and ends the model; only a copy taken of a freed   *)
(* callback is kept, as one that is not `whole`, until somebody uses it.   *)
(***************************************************************************)
EXTENDS Integers, Sequences, FiniteSets

CONSTANTS Kinds,         \* what the program starts: "interval", "timeout"
          Length,        \* EVENTLOOP_PLATFORM_QUEUE_LENGTH
          MaxCommands,   \* configTIMER_QUEUE_LENGTH
          MaxTimers,     \* bound: timers started
          MaxKills       \* bound: kills

Ids == 0 .. MaxTimers - 1

ASSUME RtosAssumption ==
  /\ Kinds \subseteq {"interval", "timeout"}
  /\ Length \in Nat \ {0} /\ MaxCommands \in Nat \ {0}
  /\ MaxTimers \in Nat \ {0} /\ MaxKills \in Nat

VARIABLES
  \* the daemon
  timers,     \* the allocated Timer_t
  active,     \* those in the active lists
  cmds,       \* xTimerQueue
  firing,     \* the call of _timer_trigger the daemon is in; NoFiring
  \* the event queue and the loop
  queue,      \* "none" or "open"
  items,      \* the queued copies of callbacks
  lpc,        \* where the loop task is
  callbacks,  \* the allocated callbacks
  listed,     \* the allocated timer items, the list from timer_first on
  kind,       \* id -> what started it
  seq,        \* the next id
  handles,    \* the handles setTimeout and setInterval have returned to the program
  received,   \* _received_callback
  back,       \* where the running JavaScript returns to
  target,     \* the timer being cleaned up
  after,      \* where _timer_cleanup returns to
  \* the killer
  kpc, kills,
  \* history
  cleared,    \* the handles the program has passed to clearTimeout or clearInterval
  stalled,    \* the daemon found the event queue full, in this incarnation
  unstopped,  \* the timers whose deletion a kill could not queue
  undefined

daemonVars == <<timers, active, cmds, firing, stalled>>
loopVars == <<lpc, callbacks, listed, kind, seq, handles, received, back, target, after>>
killVars == <<kpc, kills, unstopped>>
vars == <<daemonVars, queue, items, loopVars, cleared, killVars, undefined>>

NoFiring == [id |-> -1, reload |-> FALSE, kills |-> 0]
NoCopy == [id |-> 0, oneShot |-> FALSE, whole |-> TRUE]
Commands == [op : {"start", "stop", "delete"}, id : Ids]

TypeOK ==
  /\ active \subseteq timers /\ timers \subseteq Ids
  /\ cmds \in Seq(Commands) /\ Len(cmds) <= MaxCommands
  /\ firing = NoFiring \/ (firing.id \in Ids /\ firing.kills <= kills)
  /\ queue \in {"none", "open"}
  /\ items \in Seq([id : Ids, oneShot : BOOLEAN, whole : BOOLEAN]) /\ Len(items) <= Length
  /\ lpc \in {"none", "born", "js", "receive", "lookup", "complete",
              "stop", "cleanup", "destroy", "unlink", "hung"}
  /\ callbacks \subseteq Ids /\ listed \subseteq Ids /\ handles \subseteq Ids
  /\ kind \in [Ids -> {"interval", "timeout"}] /\ seq \in 0 .. MaxTimers
  /\ received \in [id : Ids, oneShot : BOOLEAN, whole : BOOLEAN]
  /\ back \in {"receive", "complete"} /\ target \in Ids /\ after \in {"js", "receive"}
  /\ kpc \in {"run", "clear", "reset", "delete", "killed"} /\ kills \in 0 .. MaxKills
  /\ cleared \subseteq Ids /\ stalled \in BOOLEAN /\ unstopped \subseteq Ids

\* entrypoint() is about to start the first loop.
Init ==
  /\ timers = {} /\ active = {} /\ cmds = << >> /\ firing = NoFiring
  /\ queue = "none" /\ items = << >>
  /\ lpc = "none" /\ callbacks = {} /\ listed = {} /\ seq = 0 /\ handles = {}
  /\ kind = [c \in Ids |-> "interval"]
  /\ received = NoCopy /\ back = "receive" /\ target = 0 /\ after = "js"
  /\ kpc = "killed" /\ kills = 0
  /\ cleared = {} /\ stalled = FALSE /\ unstopped = {} /\ undefined = "no"

Undefined(what) ==
  /\ undefined' = what
  /\ UNCHANGED <<daemonVars, queue, items, loopVars, cleared, killVars>>

------------------------------------------------------------------------------
\* The timer daemon: prvTimerTask.

\* MUTANT of Queues: the command queue takes everything.
QueuesAlways(op, c) == cmds' = Append(cmds, [op |-> op, id |-> c])

\* xTimerGenericCommand with no time to wait: xTimerStart, xTimerStop, xTimerDelete.
Queues(op, c) == Len(cmds) < MaxCommands /\ cmds' = Append(cmds, [op |-> op, id |-> c])
Full == Len(cmds) = MaxCommands

HasRoom == queue = "open" /\ firing.kills = kills /\ Len(items) < Length

\* The daemon has nothing to do or waits for room: the others run.
Quiet == IF firing = NoFiring THEN cmds = << >> ELSE ~HasRoom

DaemonFrame == UNCHANGED <<queue, loopVars, cleared, killVars>>

\* _timer_trigger up to xQueueSend: the item is read, and the callback in it.
Trigger(c, reload) ==
  IF c \notin listed \/ queue = "none"
  THEN /\ undefined' = "trigger"
       /\ UNCHANGED <<firing, stalled>>
  ELSE /\ firing' = [id |-> c, reload |-> reload, kills |-> kills]
       /\ stalled' = (stalled \/ Len(items) >= Length)
       /\ UNCHANGED undefined

\* prvProcessExpiredTimer: an interval is reinserted first, or, when its next
\* period has passed already, started again by a command of its own.
Expire(c) ==
  /\ firing = NoFiring /\ cmds = << >>
  /\ c \in active
  /\ Trigger(c, FALSE)
  /\ \/ /\ active' = IF kind[c] = "interval" THEN active ELSE active \ {c}
        /\ UNCHANGED cmds
     \/ /\ kind[c] = "interval"
        /\ active' = active \ {c}
        /\ Queues("start", c)
  /\ UNCHANGED <<timers, items>> /\ DaemonFrame

\* The rest of xQueueSend copies the callback, wherever it is by now.  After a
\* late start an interval is started again, by a command of its own.
Push ==
  /\ firing # NoFiring /\ HasRoom
  /\ IF firing.reload /\ Len(cmds) = MaxCommands THEN Undefined("assert")
     ELSE /\ items' = Append(items, [id |-> firing.id,
                                     oneShot |-> kind[firing.id] = "timeout",
                                     whole |-> firing.id \in callbacks])
          /\ cmds' = IF firing.reload THEN Append(cmds, [op |-> "start", id |-> firing.id])
                     ELSE cmds
          /\ firing' = NoFiring
          /\ UNCHANGED <<timers, active, stalled, undefined>> /\ DaemonFrame

\* prvProcessReceivedCommands takes the timer out of its list first.  A timer
\* whose time has passed when it is started is called at once.
Command ==
  /\ firing = NoFiring /\ cmds # << >>
  /\ LET op == Head(cmds).op
         c == Head(cmds).id
     IN IF c \notin timers THEN Undefined("timer")
        ELSE /\ cmds' = Tail(cmds)
             /\ \/ /\ op = "start"
                   /\ active' = active \cup {c}
                   /\ UNCHANGED <<timers, firing, stalled, undefined>>
                \/ /\ op = "start"
                   /\ active' = active \ {c}
                   /\ Trigger(c, kind[c] = "interval")
                   /\ UNCHANGED timers
                \/ /\ op \in {"stop", "delete"}
                   /\ active' = active \ {c}
                   /\ timers' = IF op = "delete" THEN timers \ {c} ELSE timers
                   /\ UNCHANGED <<firing, stalled, undefined>>
             /\ UNCHANGED items /\ DaemonFrame

DaemonStep == Push \/ Command

------------------------------------------------------------------------------
\* The event loop.

LoopRuns == Quiet /\ kpc = "run"
LoopFrame == UNCHANGED <<active, firing, cleared, stalled, killVars>>

\* eventloop_task and eventloop() up to duk_eval_string.
TaskStart ==
  /\ LoopRuns /\ lpc = "born"
  /\ lpc' = "js" /\ back' = "receive"
  /\ queue' = "open" /\ items' = << >>
  /\ listed' = {} /\ stalled' = FALSE
  /\ UNCHANGED <<timers, active, cmds, firing, callbacks, kind, seq, handles, received,
                 target, after, cleared, killVars, undefined>>

\* setTimeout and setInterval: callback, Timer_t, item and command.  When the
\* command is refused everything else stays and an error is thrown, which ends
\* the running callback, and at top level hangs the task.
SetTimer(what) ==
  /\ LoopRuns /\ lpc = "js" /\ seq < MaxTimers
  /\ callbacks' = callbacks \cup {seq} /\ listed' = listed \cup {seq}
  /\ timers' = timers \cup {seq}
  /\ kind' = [kind EXCEPT ![seq] = what]
  /\ seq' = seq + 1
  /\ \/ /\ Queues("start", seq)
        /\ handles' = handles \cup {seq}
        /\ UNCHANGED lpc
     \/ /\ Full
        /\ lpc' = IF back = "complete" THEN "complete" ELSE "hung"
        /\ UNCHANGED <<cmds, handles>>
  /\ UNCHANGED <<queue, items, received, back, target, after, undefined>> /\ LoopFrame

\* The same with a timeout of 0, which xTimerCreate does not accept.
SetTimerToZero == LoopRuns /\ lpc = "js" /\ Undefined("period")

\* clearTimeout and clearInterval of any handle the program got, cleared or
\* not: timer_stop reads callback->user_data.
ClearTimer(c) ==
  /\ LoopRuns /\ lpc = "js"
  /\ c \in handles
  /\ IF c \in callbacks
     THEN /\ lpc' = "stop" /\ target' = c /\ after' = "js"
          /\ cleared' = cleared \cup {c}
          /\ UNCHANGED <<daemonVars, queue, items, callbacks, listed, kind, seq, handles,
                         received, back, killVars, undefined>>
     ELSE Undefined("handle")

\* eventloop_platform_timer_stop: a refusal is not passed on to the program.
Stop ==
  /\ LoopRuns /\ lpc = "stop"
  /\ \/ Queues("stop", target) /\ lpc' = "cleanup"
     \/ Full /\ lpc' = after /\ UNCHANGED cmds
  /\ UNCHANGED <<timers, queue, items, callbacks, listed, kind, seq, handles, received,
                 back, target, after, undefined>> /\ LoopFrame

\* MUTANT of Cleanup: a refused deletion is not looked at.
CleanupAnyway ==
  /\ LoopRuns /\ lpc = "cleanup"
  /\ lpc' = "destroy"
  /\ Queues("delete", target) \/ (Full /\ UNCHANGED cmds)
  /\ UNCHANGED <<timers, queue, items, callbacks, listed, kind, seq, handles, received,
                 back, target, after, undefined>> /\ LoopFrame

\* _timer_cleanup: nothing is freed when the deletion is refused.
Cleanup ==
  /\ LoopRuns /\ lpc = "cleanup"
  /\ \/ Queues("delete", target) /\ lpc' = "destroy"
     \/ Full /\ lpc' = after /\ UNCHANGED cmds
  /\ UNCHANGED <<timers, queue, items, callbacks, listed, kind, seq, handles, received,
                 back, target, after, undefined>> /\ LoopFrame

\* eventloop_callback_destroy.
Destroy ==
  /\ LoopRuns /\ lpc = "destroy"
  /\ lpc' = "unlink"
  /\ callbacks' = callbacks \ {target}
  /\ UNCHANGED <<timers, cmds, queue, items, listed, kind, seq, handles, received,
                 back, target, after, undefined>> /\ LoopFrame

Unlink ==
  /\ LoopRuns /\ lpc = "unlink"
  /\ lpc' = after
  /\ listed' = listed \ {target}
  /\ UNCHANGED <<timers, cmds, queue, items, callbacks, kind, seq, handles, received,
                 back, target, after, undefined>> /\ LoopFrame

Return ==
  /\ LoopRuns /\ lpc = "js"
  /\ lpc' = back
  /\ UNCHANGED <<timers, cmds, queue, items, callbacks, listed, kind, seq, handles,
                 received, back, target, after, undefined>> /\ LoopFrame

Receive ==
  /\ LoopRuns /\ lpc = "receive"
  /\ items # << >>
  /\ IF Head(items).whole
     THEN /\ received' = Head(items) /\ items' = Tail(items)
          /\ lpc' = "lookup"
          /\ UNCHANGED <<timers, cmds, queue, callbacks, listed, kind, seq, handles, back,
                         target, after, undefined>> /\ LoopFrame
     ELSE Undefined("copy")

\* The function is found, or the callback was destroyed meanwhile.
Lookup ==
  /\ LoopRuns /\ lpc = "lookup"
  /\ IF received.id \in callbacks THEN lpc' = "js" /\ back' = "complete"
                                  ELSE lpc' = "complete" /\ UNCHANGED back
  /\ UNCHANGED <<timers, cmds, queue, items, callbacks, listed, kind, seq, handles,
                 received, target, after, undefined>> /\ LoopFrame

\* The completion handler of a one-shot timer's copy reads the timer item.
Complete ==
  /\ LoopRuns /\ lpc = "complete"
  /\ IF received.oneShot /\ received.id \notin listed THEN Undefined("completion")
     ELSE /\ IF received.oneShot
             THEN lpc' = "cleanup" /\ target' = received.id /\ after' = "receive"
             ELSE lpc' = "receive" /\ UNCHANGED <<target, after>>
          /\ UNCHANGED <<timers, cmds, queue, items, callbacks, listed, kind, seq,
                         handles, received, back, undefined>> /\ LoopFrame

LoopStep == \/ TaskStart \/ Stop \/ Cleanup \/ Destroy \/ Unlink \/ Return
            \/ Receive \/ Lookup \/ Complete

Script == \/ \E what \in Kinds : SetTimer(what)
          \/ SetTimerToZero
          \/ \E c \in Ids : ClearTimer(c)

------------------------------------------------------------------------------
\* The killer: kill_eventloop_thread and start_eventloop_thread.

KillerGoes(from, to) == Quiet /\ kpc = from /\ kpc' = to

\* The loop is suspended wherever it is.  Before it has run the list is not
\* reset and there is no queue yet.
Suspend ==
  /\ KillerGoes("run", "clear")
  /\ kills < MaxKills
  /\ undefined' = IF lpc = "born" THEN "early" ELSE undefined
  /\ UNCHANGED <<daemonVars, queue, items, loopVars, cleared, kills, unstopped>>

\* MUTANT of KillTimer: the items are freed only.
KillItem ==
  /\ KillerGoes("clear", "clear")
  /\ \E c \in listed :
       /\ \A d \in listed : c <= d
       /\ listed' = listed \ {c}
       /\ UNCHANGED <<cmds, unstopped>>
  /\ UNCHANGED <<timers, active, firing, stalled, queue, items, lpc, callbacks, kind, seq,
                 handles, received, back, target, after, cleared, kills, undefined>>

\* eventloop_platform_timers_cleanup: the result of xTimerDelete is ignored.
KillTimer ==
  /\ KillerGoes("clear", "clear")
  /\ \E c \in listed :
       /\ \A d \in listed : c <= d
       /\ listed' = listed \ {c}
       /\ \/ Queues("delete", c) /\ UNCHANGED unstopped
          \/ Full /\ unstopped' = unstopped \cup {c} /\ UNCHANGED cmds
  /\ UNCHANGED <<timers, active, firing, stalled, queue, items, lpc, callbacks, kind, seq,
                 handles, received, back, target, after, cleared, kills, undefined>>

\* The rest of clear_eventloop: callbacks and heap.
ClearEventLoop ==
  /\ KillerGoes("clear", "reset")
  /\ listed = {}
  /\ callbacks' = {} /\ handles' = {} /\ cleared' = {}
  /\ UNCHANGED <<daemonVars, queue, items, lpc, listed, kind, seq, received, back, target,
                 after, kills, unstopped, undefined>>

\* MUTANT of KillReset: xQueueReset is left out.
KillNoReset ==
  /\ KillerGoes("reset", "delete")
  /\ UNCHANGED <<daemonVars, queue, items, loopVars, cleared, kills, unstopped, undefined>>

\* xQueueReset: the daemon, when it waits for room, runs at once.
KillReset ==
  /\ KillerGoes("reset", "delete")
  /\ items' = << >>
  /\ UNCHANGED <<daemonVars, queue, loopVars, cleared, kills, unstopped, undefined>>

\* vTaskDelete, vQueueDelete.
KillFinish ==
  /\ KillerGoes("delete", "killed")
  /\ lpc' = "none" /\ queue' = "none" /\ items' = << >>
  /\ kills' = kills + 1
  /\ UNCHANGED <<daemonVars, callbacks, listed, kind, seq, handles, received, back, target,
                 after, cleared, unstopped, undefined>>

\* start_eventloop_thread.
Start ==
  /\ KillerGoes("killed", "run")
  /\ lpc' = "born"
  /\ UNCHANGED <<daemonVars, queue, items, callbacks, listed, kind, seq, handles, received,
                 back, target, after, cleared, kills, unstopped, undefined>>

KillStep == KillTimer \/ ClearEventLoop \/ KillReset \/ KillFinish \/ Start

Next ==
  /\ undefined = "no"
  /\ \/ DaemonStep \/ \E c \in Ids : Expire(c)
     \/ LoopStep \/ Script
     \/ Suspend \/ KillStep

Spec == Init /\ [][Next]_vars

\* FreeRTOS runs the daemon whenever it can run, and shares the processor
\* between loop and killer; a period is a tick at least, so that an interval
\* leaves time for both.  What the program runs comes to its end, though it may
\* clear a handle over and over while the commands are refused.
Running(A) == undefined = "no" /\ A
FairSpec == /\ Spec
            /\ WF_vars(Running(DaemonStep))
            /\ SF_vars(Running(LoopStep)) /\ SF_vars(Running(Return))
            /\ SF_vars(Running(KillStep))

------------------------------------------------------------------------------
\* A Timer_t whose item was freed has its deletion queued, behind everything
\* else that was asked of it; only a kill that met a full command queue leaves
\* one behind (stm32 eventloop.c:67 and 109).
NoTimerOutlivesItem ==
  \A c \in timers \ listed :
    c \in unstopped \/ \E i \in DOMAIN cmds : cmds[i] = [op |-> "delete", id |-> c]

\* The kill caught the loop inside _timer_cleanup, between two of its frees.
Torn == kpc # "run" /\ lpc \in {"destroy", "unlink"}

\* Nothing has gone wrong that the program cannot help: the daemon has not met a
\* full event queue, no kill met a full command queue or a loop that cleans up.
Calm == ~stalled /\ unstopped = {} /\ ~Torn

Queued(c) == \E i \in DOMAIN items : items[i].id = c
Runs(c) == lpc = "js" /\ back = "complete" /\ received.id = c

\* As long as it is calm the queued commands and the daemon's priority make a
\* deleted timer silent before its item is gone (stm32 eventloop.c:66-86 and
\* 39-50): what goes wrong is a kill before the loop has run, or a mistake of the
\* program, a timeout of 0 (timers.c:396), clearing a handle, or clearing a
\* timeout while its copy is queued.  For a handle stays good until the program
\* clears it or its timeout has fired and its copy has left the queue, and a copy
\* finds its item on completion unless its timeout was cleared.  And before the
\* daemon meets a full event queue no command is refused.
SafeUntilStalled ==
  /\ Full => stalled
  /\ Calm => undefined \in {"no", "early", "period", "handle", "completion"}
  /\ Calm /\ undefined = "no" /\ kpc = "run" =>
       /\ \A c \in handles \ (callbacks \cup cleared) :
            kind[c] = "timeout" /\ c \notin active /\ ~Queued(c)
       /\ lpc = "complete" /\ received.oneShot => received.id \in listed \cup cleared

\* A daemon that waits for room goes on, because the loop receives or because
\* a kill resets the queue, so that no timer of the next incarnation is stuck
\* (stm32 eventloop.c:45 and 53); and what it pushes is executed unless it is
\* cleared or the loop is killed.
DaemonAndLoopGoOn ==
  /\ firing # NoFiring ~> firing = NoFiring \/ lpc = "hung" \/ undefined # "no"
  /\ \A c \in Ids :
       Queued(c) ~> \/ Runs(c)
                    \/ c \notin callbacks \/ kpc # "run" \/ lpc = "hung" \/ undefined # "no"

==============================================================================
