------------------------------- MODULE Observe -------------------------------
(***************************************************************************)
(* Observations of the LWM2M client: src/lwm2m/core/observe.c with the     *)
(* requests that reach it (management.c, packet.c, objects.c).             *)
(*                                                                         *)
(* Servers observe an object instance ("inst") and an integer resource of  *)
(* it ("res"), and attach attributes to either: minimal and maximal period *)
(* and, for numbers, lower and upper threshold and step.  The main loop    *)
(* alternates between lwm2m_step, which calls observe_step, and a select   *)
(* that ends when a message arrives or the timeout of the step is over; a  *)
(* message is handled and the next step follows at once.  A step that      *)
(* returns early, because a server cannot be reached or the bootstrap      *)
(* failed, never comes to observe_step.                                    *)
(*                                                                         *)
(* Time passes in units; lastTime of a watcher appears as the age of its   *)
(* last response or notification.  Message ids are numbers modulo          *)
(* MidSpace.  Tokens, the notification counter and payloads are left out,  *)
(* the value a payload shows is not.                                       *)
(***************************************************************************)
EXTENDS Integers, Sequences, SequencesExt, FiniteSets

CONSTANTS Servers,
          Values,       \* what the resource may be
          NoValue,      \* no value has been sent
          Queries,      \* attribute queries: what they set and what they clear
          MidSpace,     \* number of message ids (2^16)
          Sleep,        \* the main loop's timeout when no period is running
          MaxAge,       \* bound: ages are counted up to here
          MaxRequests   \* bound: requests and resets of the servers

Uris == {"inst", "res"}
Formats == {"tlv", "opaque"}
Attributes == {"pmin", "pmax", "gt", "lt", "st"}
Numeric == {"gt", "lt", "st"}
Mids == 0 .. MidSpace - 1

ASSUME ObserveAssumption ==
  /\ Values \subseteq Int /\ NoValue \notin Values
  /\ MidSpace \in Nat \ {0} /\ Sleep \in Nat \ {0} /\ MaxAge \in Nat /\ MaxRequests \in Nat
  /\ \A q \in Queries :
       /\ DOMAIN q.set \subseteq Attributes /\ q.clear \subseteq Attributes \ DOMAIN q.set
       /\ \A a \in DOMAIN q.set : q.set[a] \in Int
       /\ "pmin" \in DOMAIN q.set => q.set["pmin"] \in 1 .. MaxAge
       /\ "pmax" \in DOMAIN q.set => q.set["pmax"] \in 1 .. MaxAge

VARIABLES
  observedList,  \* the URIs with watchers, newest first
  watcherList,   \* URI -> the servers with a watcher there, newest first
  watcher,       \* URI -> server -> lwm2m_watcher_t
  nextMID,
  value,         \* the resource
  phase,         \* the main loop: about to "step", or in select: "wait"
  timeout,       \* time left in select, 0 outside it
  undefined,     \* a null pointer was followed
  \* history
  requests,
  known,         \* URI -> server -> the value last sent to its watcher
  silent,        \* the value has changed since, and nobody was told
  complete,      \* in select, after a step that came to observe_step
  asked          \* the cancellation just handled: server and message id

codeVars == <<observedList, watcherList, watcher, nextMID, value, phase, timeout, undefined>>
vars == <<codeVars, requests, known, silent, complete, asked>>

NoParameters == [given |-> FALSE, toSet |-> {}, val |-> [a \in Attributes |-> 0]]

\* prv_getWatcher: a new watcher, all zero.
NewWatcher == [active |-> FALSE, update |-> FALSE, format |-> "tlv",
               parameters |-> NoParameters, age |-> 0, lastMid |-> 0, lastValue |-> 0]

NoRequest == [what |-> "none"]

TypeOK ==
  /\ observedList \in Seq(Uris) /\ IsInjective(observedList)
  /\ \A u \in Uris :
       /\ watcherList[u] \in Seq(Servers) /\ IsInjective(watcherList[u])
       /\ watcherList[u] # << >> <=> u \in Range(observedList)
       /\ \A s \in Servers : LET w == watcher[u][s] IN
            /\ w.active \in BOOLEAN /\ w.update \in BOOLEAN /\ w.format \in Formats
            /\ w.parameters.toSet \subseteq Attributes
            /\ ~w.parameters.given => w.parameters = NoParameters
            /\ w.age \in 0 .. MaxAge /\ w.lastMid \in Mids
            /\ s \notin Range(watcherList[u]) => w = NewWatcher
            /\ known[u][s] \in Values \cup {NoValue}
  /\ nextMID \in Mids /\ value \in Values
  /\ phase \in {"step", "wait"} /\ timeout \in 0 .. Sleep
  /\ undefined \in BOOLEAN /\ silent \in BOOLEAN
  /\ complete \in BOOLEAN /\ (complete => phase = "wait")
  /\ requests \in 0 .. MaxRequests

\* nextMID starts at random: ids are only compared, any start is as good.
Init ==
  /\ observedList = << >>
  /\ watcherList = [u \in Uris |-> << >>]
  /\ watcher = [u \in Uris |-> [s \in Servers |-> NewWatcher]]
  /\ nextMID = 0
  /\ value \in Values
  /\ phase = "step" /\ timeout = 0 /\ undefined = FALSE
  /\ requests = 0 /\ silent = FALSE /\ complete = FALSE /\ asked = NoRequest
  /\ known = [u \in Uris |-> [s \in Servers |-> NoValue]]

Watched(u, s) == s \in Range(watcherList[u])

------------------------------------------------------------------------------
\* The requests: dm_handleRequest and handle_reset, between two steps.

Handled ==
  /\ phase = "wait" /\ phase' = "step"
  /\ timeout' = 0 /\ complete' = FALSE
  /\ UNCHANGED undefined

Requested(s) == Handled /\ requests < MaxRequests /\ requests' = requests + 1

\* prv_getWatcher: the lists after it.
GetWatcher(u, s) ==
  /\ observedList' = IF u \in Range(observedList) THEN observedList ELSE <<u>> \o observedList
  /\ watcherList' = IF Watched(u, s) THEN watcherList
                    ELSE [watcherList EXCEPT ![u] = <<s>> \o @]

\* lwm2m_data_serialize: "opaque" is reserved to opaque resources.
Servable(u, f) == ~(u = "res" /\ f = "opaque")

\* The watcher of an observation that begins.  For an instance,
\* lwm2m_data_serialize replaces the opaque format whenever it is used.
Answered(w, u, f, mid) ==
  [w EXCEPT !.active = TRUE, !.age = 0, !.lastMid = mid,
            !.format = IF u = "res" THEN f ELSE "tlv",
            !.lastValue = IF u = "res" THEN value ELSE @]

\* GET with observe 0, observe_handleRequest.  mid is that of the response: the
\* server's own for an acknowledgement, the next of the client's for a NON.
\* The watcher is active even when the response turns out unservable.
Observe(u, s, f) ==
  /\ Requested(s)
  /\ GetWatcher(u, s)
  /\ \E mid \in Mids :
       /\ \/ nextMID' = nextMID
          \/ mid = nextMID /\ nextMID' = (nextMID + 1) % MidSpace
       /\ watcher' = [watcher EXCEPT ![u][s] = Answered(@, u, f, mid)]
  /\ known' = IF Servable(u, f) THEN [known EXCEPT ![u][s] = value] ELSE known
  /\ asked' = NoRequest
  /\ UNCHANGED <<value, silent>>

Least(S) == CHOOSE n \in S : \A m \in S : n <= m

\* The targets where this session has a watcher with this message id, by their
\* place in the list.
Found(mid, s) ==
  {i \in DOMAIN observedList : LET u == observedList[i] IN
     Watched(u, s) /\ watcher[u][s].lastMid = mid}

\* A list from which an element is unlinked.
Unlinked(list, x) == RemoveAt(list, CHOOSE i \in DOMAIN list : list[i] = x)

\* MUTANT of ObserveCancel: an entry stays behind without watchers.
ObserveCancelKeepsEntry(mid, s) ==
  /\ UNCHANGED observedList
  /\ IF Found(mid, s) = {}
     THEN UNCHANGED <<watcherList, watcher, known>>
     ELSE LET u == observedList[Least(Found(mid, s))] IN
          /\ watcherList' = [watcherList EXCEPT ![u] = Unlinked(@, s)]
          /\ watcher' = [watcher EXCEPT ![u][s] = NewWatcher]
          /\ known' = [known EXCEPT ![u][s] = NoValue]

\* MUTANT of ObserveCancel: an entry that still has watchers is unlinked too.
ObserveCancelUnlinks(mid, s) ==
  IF Found(mid, s) = {}
  THEN UNCHANGED <<observedList, watcherList, watcher, known>>
  ELSE LET u == observedList[Least(Found(mid, s))] IN
       /\ observedList' = Unlinked(observedList, u)
       /\ watcherList' = [watcherList EXCEPT ![u] = << >>]
       /\ watcher' = [watcher EXCEPT ![u] = [t \in Servers |-> NewWatcher]]
       /\ known' = [known EXCEPT ![u] = [t \in Servers |-> NoValue]]

\* observe_cancel: unlink and free the first such watcher, in the order of the
\* lists, and the entry with its last.
ObserveCancel(mid, s) ==
  IF Found(mid, s) = {}
  THEN UNCHANGED <<observedList, watcherList, watcher, known>>
  ELSE LET u == observedList[Least(Found(mid, s))]
           rest == Unlinked(watcherList[u], s)
       IN /\ watcherList' = [watcherList EXCEPT ![u] = rest]
          /\ watcher' = [watcher EXCEPT ![u][s] = NewWatcher]
          /\ known' = [known EXCEPT ![u][s] = NoValue]
          /\ observedList' = IF rest = << >> THEN Unlinked(observedList, u)
                             ELSE observedList

\* GET with observe 1.
Cancel(u, s) ==
  /\ Requested(s)
  /\ IF Watched(u, s)
     THEN /\ ObserveCancel(watcher[u][s].lastMid, s)
          /\ asked' = [what |-> "cancel", uri |-> u, server |-> s, mid |-> watcher[u][s].lastMid]
     ELSE /\ asked' = NoRequest
          /\ UNCHANGED <<observedList, watcherList, watcher, known>>
  /\ UNCHANGED <<nextMID, value, silent>>

\* A Reset, to a notification or to anything else the client sent.
Reset(s, mid) ==
  /\ Requested(s)
  /\ ObserveCancel(mid, s)
  /\ asked' = [what |-> "reset", server |-> s, mid |-> mid]
  /\ UNCHANGED <<nextMID, value, silent>>

\* object_delete of the instance, observe_clear.  Another instance takes its
\* place before anyone asks again.
DeleteInstance(s) ==
  /\ Requested(s)
  /\ observedList' = << >>
  /\ watcherList' = [u \in Uris |-> << >>]
  /\ watcher' = [u \in Uris |-> [t \in Servers |-> NewWatcher]]
  /\ known' = [u \in Uris |-> [t \in Servers |-> NoValue]]
  /\ asked' = [what |-> "delete"]
  /\ UNCHANGED <<nextMID, value, silent>>

------------------------------------------------------------------------------
\* PUT with a query: prv_readAttributes, observe_setParameters.

\* Where a check of the rule takes an attribute from.
Proposed(p, q, a) == IF a \in DOMAIN q.set THEN q.set[a] ELSE p.val[a]

\* MUTANT of BreaksRule: only a query that sets all three is looked at.
BreaksRuleOfQuery(p, q) ==
  /\ Numeric \subseteq DOMAIN q.set
  /\ Proposed(p, q, "lt") + 2 * Proposed(p, q, "st") >= Proposed(p, q, "gt")

\* "Check rule lt value + 2*stp values < gt value".
BreaksRule(p, q) ==
  /\ Numeric \subseteq (DOMAIN q.set \cup p.toSet) \ q.clear
  /\ Proposed(p, q, "lt") + 2 * Proposed(p, q, "st") >= Proposed(p, q, "gt")

\* The first query that sets something is copied.  A later one clears flags
\* and overwrites values, but sets no flag.
Updated(p, q) ==
  CASE p.given -> [p EXCEPT !.toSet = @ \ q.clear,
                            !.val = [a \in Attributes |-> Proposed(p, q, a)]]
    [] ~p.given /\ DOMAIN q.set # {} ->
         [given |-> TRUE, toSet |-> DOMAIN q.set,
          val |-> [a \in Attributes |-> Proposed(NoParameters, q, a)]]
    [] OTHER -> p

\* A refused query leaves the watcher it created.
SetParameters(u, s, q) ==
  /\ Requested(s)
  /\ GetWatcher(u, s)
  /\ watcher' = IF BreaksRule(watcher[u][s].parameters, q) THEN watcher
                ELSE [watcher EXCEPT ![u][s].parameters = Updated(@, q)]
  /\ asked' = NoRequest
  /\ UNCHANGED <<nextMID, value, known, silent>>

------------------------------------------------------------------------------
\* The value.

\* lwm2m_resource_value_changed: both URIs match; active watchers are tagged.
Tagged == [u \in Uris |-> [s \in Servers |->
             [watcher[u][s] EXCEPT !.update = @ \/ watcher[u][s].active]]]

\* handle_value_changed: write the value and tell the observers.
ValueChanged(v) ==
  /\ Handled
  /\ value' = v
  /\ watcher' = Tagged
  /\ silent' = FALSE
  /\ asked' = NoRequest
  /\ UNCHANGED <<observedList, watcherList, nextMID, requests, known>>

\* object_write for a server's PUT: it tells nobody.
ServerWrites(s, v) ==
  /\ Requested(s)
  /\ v # value
  /\ value' = v
  /\ silent' = TRUE
  /\ asked' = NoRequest
  /\ UNCHANGED <<observedList, watcherList, watcher, nextMID, known>>

\* update_memory_free, at the start of a turn of the main loop: the free memory
\* has changed since the last, and nobody is told.
UpdateMemoryFree(v) ==
  /\ phase = "step"
  /\ v # value
  /\ value' = v
  /\ silent' = TRUE
  /\ asked' = NoRequest
  /\ UNCHANGED <<observedList, watcherList, watcher, nextMID, phase, timeout, undefined,
                 requests, known, complete>>

------------------------------------------------------------------------------
\* observe_step.

Crosses(a, b, threshold) == \/ a < threshold /\ b > threshold
                            \/ a > threshold /\ b < threshold

Distance(a, b) == IF a < b THEN b - a ELSE a - b

\* The numeric conditions, against the value last notified.
Triggers(p, last) ==
  \/ "lt" \in p.toSet /\ Crosses(value, last, p.val["lt"])
  \/ "gt" \in p.toSet /\ Crosses(value, last, p.val["gt"])
  \/ "st" \in p.toSet /\ Distance(value, last) >= p.val["st"]

\* MUTANT of Due: the maximal period counts only without a minimal one.
DueByMinOnly(w) ==
  LET p == w.parameters IN
    \/ /\ w.update
       /\ IF "pmin" \in p.toSet THEN w.age >= p.val["pmin"]
          ELSE p.toSet = {} \/ Triggers(p, w.lastValue)
    \/ "pmax" \in p.toSet /\ "pmin" \notin p.toSet /\ w.age >= p.val["pmax"]

\* Should an active watcher be notified?  A minimal period overrides the
\* thresholds either way, the maximal period overrides all.
Due(w) ==
  LET p == w.parameters IN
    \/ /\ w.update
       /\ IF "pmin" \in p.toSet THEN w.age >= p.val["pmin"]
          ELSE p.toSet = {} \/ Triggers(p, w.lastValue)
    \/ "pmax" \in p.toSet /\ w.age >= p.val["pmax"]

\* How long until the minimal period of a pending update, or the maximal
\* period, is over.
ToMin(w) == LET p == w.parameters IN
  IF w.update /\ "pmin" \in p.toSet /\ w.age < p.val["pmin"] THEN {p.val["pmin"] - w.age} ELSE {}
ToMax(w) == LET p == w.parameters IN
  IF "pmax" \in p.toSet THEN {p.val["pmax"] - w.age} ELSE {}

\* A notification, with the bookkeeping that follows message_send.
Notified(w, u, mid) == [w EXCEPT !.age = 0, !.lastMid = mid, !.update = FALSE,
                                 !.lastValue = IF u = "res" THEN value ELSE @]

\* One visit.  The first watcher of a URI to be notified decides the format of
\* the buffer; when it cannot be serialized the watchers behind it are left out.
Visit(u, s, st) ==
  LET w == st.watcher[u][s]
      pending == Least({st.timeout} \cup ToMin(w))
      sent == Notified(w, u, st.nextMID)
  IN CASE ~w.active \/ st.failed -> st
       [] w.active /\ ~st.failed /\ ~Due(w) ->
            [st EXCEPT !.timeout = Least({pending} \cup ToMax(w))]
       [] w.active /\ ~st.failed /\ Due(w) /\ ~(st.buffered \/ Servable(u, w.format)) ->
            [st EXCEPT !.failed = TRUE, !.timeout = pending]
       [] w.active /\ ~st.failed /\ Due(w) /\ (st.buffered \/ Servable(u, w.format)) ->
            [st EXCEPT !.watcher[u][s] = sent,
                       !.nextMID = (@ + 1) % MidSpace,
                       !.buffered = TRUE,
                       !.known[u][s] = value,
                       !.timeout = Least({pending} \cup ToMax(sent))]

\* The loop over the watchers of a URI.
AfterWatchers(u, st) ==
  LET after[n \in 0 .. Len(watcherList[u])] ==
        IF n = 0 THEN [st EXCEPT !.buffered = FALSE, !.failed = FALSE]
        ELSE Visit(u, watcherList[u][n], after[n - 1])
  IN after[Len(watcherList[u])]

\* The loop over the observed URIs.
AfterTargets ==
  LET after[n \in 0 .. Len(observedList)] ==
        IF n = 0 THEN [watcher |-> watcher, nextMID |-> nextMID, known |-> known,
                       timeout |-> Sleep, buffered |-> FALSE, failed |-> FALSE]
        ELSE AfterWatchers(observedList[n], after[n - 1])
  IN after[Len(observedList)]

\* The thresholds of an instance: dataP is null where its type is looked at.
FollowsNull ==
  \E s \in Servers : LET w == watcher["inst"][s] IN
    w.active /\ w.update /\ w.parameters.toSet \cap Numeric # {}

ObserveStep ==
  /\ phase = "step"
  /\ asked' = NoRequest
  /\ UNCHANGED <<observedList, watcherList, value, requests, silent>>
  /\ IF FollowsNull
     THEN /\ undefined' = TRUE
          /\ UNCHANGED <<watcher, nextMID, phase, timeout, known, complete>>
     ELSE /\ watcher' = AfterTargets.watcher /\ nextMID' = AfterTargets.nextMID
          /\ known' = AfterTargets.known /\ timeout' = AfterTargets.timeout
          /\ phase' = "wait" /\ complete' = TRUE
          /\ UNCHANGED undefined

\* The step of the state machine of the client failed: the whole timeout of the
\* loop is slept before the next.
EarlyReturn ==
  /\ phase = "step" /\ phase' = "wait"
  /\ timeout' = Sleep
  /\ asked' = NoRequest
  /\ UNCHANGED <<observedList, watcherList, watcher, nextMID, value, undefined, requests,
                 known, silent, complete>>

\* Time passes in select; when it is over the next step follows.
Tick ==
  /\ phase = "wait"
  /\ timeout' = timeout - 1
  /\ phase' = IF timeout = 1 THEN "step" ELSE "wait"
  /\ complete' = (complete /\ timeout # 1)
  /\ watcher' = [u \in Uris |-> [s \in Servers |-> [watcher[u][s] EXCEPT !.age =
                   IF Watched(u, s) /\ watcher[u][s].active THEN Least({@ + 1, MaxAge}) ELSE @]]]
  /\ asked' = NoRequest
  /\ UNCHANGED <<observedList, watcherList, nextMID, value, undefined, requests, known, silent>>

Next ==
  /\ ~undefined
  /\ \/ \E u \in Uris, s \in Servers :
          \/ \E f \in Formats : Observe(u, s, f)
          \/ Cancel(u, s)
          \/ \E q \in Queries : SetParameters(u, s, q)
     \/ \E s \in Servers :
          \/ DeleteInstance(s)
          \/ \E mid \in Mids : Reset(s, mid)
          \/ \E v \in Values : ServerWrites(s, v)
     \/ \E v \in Values : ValueChanged(v) \/ UpdateMemoryFree(v)
     \/ ObserveStep \/ EarlyReturn \/ Tick

Spec == Init /\ [][Next]_vars

------------------------------------------------------------------------------
\* A watcher nobody serves: its own format, or that of an active watcher ahead
\* of it in the list, cannot be serialized (the break of observe.c:697).
Starved(u, s) ==
  \/ ~Servable(u, watcher[u][s].format)
  \/ \E i, j \in DOMAIN watcherList[u] :
       /\ i < j /\ watcherList[u][j] = s
       /\ watcher[u][watcherList[u][i]].active
       /\ ~Servable(u, watcher[u][watcherList[u][i]].format)

\* A reason not to notify a change yet.
Withheld(u, s) ==
  LET w == watcher[u][s]  p == w.parameters IN
    IF "pmin" \in p.toSet THEN w.age < p.val["pmin"]
    ELSE p.toSet # {} /\ ~Triggers(p, known[u][s])

\* While the client sleeps after a step that came to observe_step nothing is
\* overdue, however many steps returned before it: every observer that is not
\* starved has heard from the client within its maximal period, and when the
\* value differs from the one it was sent, the change is still pending and one
\* of its attributes withholds it: the minimal period is running, or no
\* threshold lies between the two values and they differ by less than a step.
\* A value that a server's write or the free memory's refresh has changed since
\* the last report is excepted, the code tells nobody (observe.c:485-755).
NotifiedInTime ==
  complete =>
    \A u \in Uris, s \in Servers : LET w == watcher[u][s] IN
      w.active /\ ~Starved(u, s) =>
        /\ "pmax" \in w.parameters.toSet => w.age < w.parameters.val["pmax"]
        /\ known[u][s] # value /\ ~silent => w.update /\ Withheld(u, s)

\* Attributes in force obey the rule, however the queries that set, changed and
\* cleared them were combined (observe.c:340).
RuleKept ==
  \A u \in Uris, s \in Servers : LET p == watcher[u][s].parameters IN
    Numeric \subseteq p.toSet => p.val["lt"] + 2 * p.val["st"] < p.val["gt"]

\* A cancellation ends the observation it is meant for and no other, as long as
\* no two watchers of a server share a message id; nothing else but the end of
\* the instance removes a watcher, with the attributes it holds
\* (observe.c:215-224 and 233-282).
CancelIsExact ==
  [][ \A u \in Uris, s \in Servers :
        /\ Watched(u, s) /\ ~Watched(u, s)' =>
             \/ asked'.what = "delete"
             \/ /\ asked'.what \in {"cancel", "reset"} /\ asked'.server = s
                /\ watcher[u][s].lastMid = asked'.mid
        /\ asked'.what = "cancel" /\ asked'.uri = u /\ asked'.server = s =>
             \/ ~Watched(u, s)'
             \/ \E v \in Uris \ {u} : Watched(v, s) /\ watcher[v][s].lastMid = asked'.mid
    ]_vars

==============================================================================
