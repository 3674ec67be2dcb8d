--------------------------- MODULE Observe_proofs ---------------------------
(***************************************************************************)
(* Proofs about Observe, for any servers, values, attribute queries and    *)
(* numbers of requests: that attributes in force are consistent, that a    *)
(* cancellation ends the observation it is meant for, and that nothing is  *)
(* overdue while the client sleeps.                                        *)
(***************************************************************************)
EXTENDS Observe, SequenceTheorems, WellFoundedInduction, TLAPS

Parameters == [given : BOOLEAN, toSet : SUBSET Attributes, val : [Attributes -> Int]]

Watchers == [active : BOOLEAN, update : BOOLEAN, format : Formats, parameters : Parameters,
             age : 0 .. MaxAge, lastMid : Mids, lastValue : Int]

\* The two lists, and the entries of the one that is observed.
ListsInv ==
  /\ observedList \in Seq(Uris) /\ IsInjective(observedList)
  /\ watcherList \in [Uris -> Seq(Servers)]
  /\ \A u \in Uris : /\ IsInjective(watcherList[u])
                     /\ watcherList[u] # << >> <=> u \in Range(observedList)

WatchersInv ==
  /\ watcher \in [Uris -> [Servers -> Watchers]]
  /\ \A u \in Uris, s \in Servers :
       /\ ~watcher[u][s].parameters.given => watcher[u][s].parameters = NoParameters
       /\ ~Watched(u, s) => watcher[u][s] = NewWatcher

\* Periods in force are not zero.
PeriodsInv ==
  \A u \in Uris, s \in Servers, a \in {"pmin", "pmax"} :
    a \in watcher[u][s].parameters.toSet => watcher[u][s].parameters.val[a] > 0

\* A change that was told is pending, unless its watcher was not served at all.
PendingInv ==
  \A u \in Uris, s \in Servers : LET w == watcher[u][s] IN
    w.active /\ Servable(u, w.format) /\ known[u][s] # value /\ ~silent => w.update

\* What the thresholds are compared with is what the server was sent.
ShownInv ==
  \A s \in Servers : LET w == watcher["res"][s] IN
    w.active /\ Servable("res", w.format) => w.lastValue = known["res"][s]

\* A watcher that needs no notification before the time is over.
Rests(u, w, time) ==
  LET p == w.parameters IN
    /\ "pmax" \in p.toSet => time <= p.val["pmax"] - w.age
    /\ w.update => /\ IF "pmin" \in p.toSet THEN time <= p.val["pmin"] - w.age
                      ELSE p.toSet # {} /\ ~Triggers(p, w.lastValue)
                   /\ u = "inst" => p.toSet \cap Numeric = {}

\* After observe_step the client sleeps no longer than a watcher that is served
\* may wait.
SleepInv ==
  /\ complete => phase = "wait"
  /\ phase = "wait" => timeout > 0
  /\ complete => \A u \in Uris, s \in Servers :
       watcher[u][s].active /\ ~Starved(u, s) => Rests(u, watcher[u][s], timeout)

OtherTypes ==
  /\ known \in [Uris -> [Servers -> Values \cup {NoValue}]]
  /\ nextMID \in Mids /\ value \in Values
  /\ phase \in {"step", "wait"} /\ timeout \in 0 .. Sleep
  /\ undefined \in BOOLEAN /\ silent \in BOOLEAN /\ complete \in BOOLEAN
  /\ requests \in 0 .. MaxRequests

IInv == /\ ListsInv /\ WatchersInv /\ OtherTypes
        /\ PeriodsInv /\ RuleKept /\ PendingInv /\ ShownInv /\ SleepInv

------------------------------------------------------------------------------
\* The least of a set of numbers is in it.
LEMMA LeastElement ==
  ASSUME NEW T, T \subseteq Nat, T # {}
  PROVE  Least(T) \in T /\ \A y \in T : Least(T) <= y
<1>1. PICK x \in T : \A y \in T : <<y, x>> \notin OpToRel(<, Nat)
  BY NatLessThanWellFounded, WFMin
<1>2. \A y \in T : ~(y < x)
  BY <1>1 DEF OpToRel
<1>3. \E n \in T : \A m \in T : n <= m
  BY <1>2
<1> QED BY <1>3 DEF Least

\* The least of a time and, perhaps, another.
LEMMA LeastOfTwo ==
  ASSUME NEW a \in Int, NEW b \in Int
  PROVE  /\ Least({a} \cup {}) = a
         /\ Least({a} \cup {b}) \in {a, b} /\ Least({a} \cup {b}) <= a /\ Least({a} \cup {b}) <= b
<1>1. Least({a} \cup {}) = a
  BY DEF Least
<1>2. \E n \in {a} \cup {b} : \A m \in {a} \cup {b} : n <= m
  <2>1. CASE a <= b
    BY <2>1
  <2>2. CASE b <= a
    BY <2>2
  <2> QED BY <2>1, <2>2
<1>3. Least({a} \cup {b}) \in {a} \cup {b} /\ \A m \in {a} \cup {b} : Least({a} \cup {b}) <= m
  BY <1>2 DEF Least
<1> QED BY <1>1, <1>3

\* A list in front of which something new is put.
LEMMA Prepended ==
  ASSUME NEW S, NEW list \in Seq(S), IsInjective(list), NEW x \in S, x \notin Range(list)
  PROVE  LET longer == <<x>> \o list IN
         /\ longer \in Seq(S) /\ IsInjective(longer) /\ longer # << >>
         /\ Range(longer) = Range(list) \cup {x}
<1> DEFINE longer == <<x>> \o list
<1>1. longer \in Seq(S) /\ Len(longer) = Len(list) + 1 /\ Len(list) \in Nat
  OBVIOUS
<1>2. /\ longer[1] = x
      /\ \A i \in 2 .. Len(list) + 1 : longer[i] = list[i - 1] /\ i - 1 \in DOMAIN list
  OBVIOUS
<1>3. \A i \in DOMAIN list : longer[i + 1] = list[i] /\ i + 1 \in DOMAIN longer
  OBVIOUS
<1>4. DOMAIN longer = 1 .. Len(list) + 1
  BY <1>1
<1> HIDE DEF longer
<1>5. IsInjective(longer)
  <2> SUFFICES ASSUME NEW i \in DOMAIN longer, NEW j \in DOMAIN longer, longer[i] = longer[j]
               PROVE  i = j
    BY DEF IsInjective
  <2>1. i \in 2 .. Len(list) + 1 => longer[i] # x
    BY <1>2 DEF Range
  <2>2. j \in 2 .. Len(list) + 1 => longer[j] # x
    BY <1>2 DEF Range
  <2>3. CASE i = 1 \/ j = 1
    BY <1>1, <1>2, <1>4, <2>1, <2>2, <2>3
  <2>4. CASE i # 1 /\ j # 1
    <3>1. i \in 2 .. Len(list) + 1 /\ j \in 2 .. Len(list) + 1
      BY <1>1, <1>4, <2>4
    <3>2. list[i - 1] = list[j - 1] /\ i - 1 \in DOMAIN list /\ j - 1 \in DOMAIN list
      BY <1>2, <3>1
    <3>3. i - 1 = j - 1
      BY <3>2 DEF IsInjective
    <3> QED BY <3>1, <3>3
  <2> QED BY <2>3, <2>4
<1>6. Range(longer) = Range(list) \cup {x}
  <2>1. ASSUME NEW i \in DOMAIN longer PROVE longer[i] \in Range(list) \cup {x}
    <3>1. i = 1 \/ i \in 2 .. Len(list) + 1
      BY <1>1, <1>4
    <3> QED BY <1>2, <3>1 DEF Range
  <2>2. Range(list) \subseteq Range(longer)
    BY <1>3 DEF Range
  <2>3. 1 \in DOMAIN longer
    BY <1>1, <1>4
  <2> QED BY <1>2, <2>1, <2>2, <2>3 DEF Range
<1>7. longer # << >>
  BY <1>1
<1> QED BY <1>1, <1>5, <1>6, <1>7 DEF longer

\* A list from which something is unlinked.
LEMMA UnlinkedList ==
  ASSUME NEW S, NEW list \in Seq(S), IsInjective(list), NEW x \in Range(list)
  PROVE  LET rest == Unlinked(list, x) IN
         /\ rest \in Seq(S) /\ IsInjective(rest)
         /\ Range(rest) = Range(list) \ {x} /\ (rest = << >> <=> Range(rest) = {})
<1>1. PICK k \in DOMAIN list : k = (CHOOSE i \in DOMAIN list : list[i] = x) /\ list[k] = x
  BY DEF Range
<1> DEFINE front == SubSeq(list, 1, k - 1)
           back == SubSeq(list, k + 1, Len(list))
           rest == front \o back
<1>2. Unlinked(list, x) = rest
  BY <1>1 DEF Unlinked, RemoveAt
<1>3. k \in 1 .. Len(list) /\ Len(list) \in Nat
  OBVIOUS
<1>4. /\ front \in Seq(S) /\ Len(front) = k - 1
      /\ \A i \in 1 .. k - 1 : front[i] = list[i]
  BY <1>3
<1>5. /\ back \in Seq(S) /\ Len(back) = Len(list) - k
      /\ \A i \in 1 .. Len(list) - k : back[i] = list[k + i]
  BY <1>3
<1> HIDE DEF front, back
<1>6. rest \in Seq(S) /\ Len(rest) = Len(list) - 1
  BY <1>3, <1>4, <1>5
<1>7. \A i \in 1 .. Len(list) - 1 : rest[i] = IF i < k THEN list[i] ELSE list[i + 1]
  <2> TAKE i \in 1 .. Len(list) - 1
  <2>1. CASE i < k
    BY <1>3, <1>4, <1>5, <2>1
  <2>2. CASE ~(i < k)
    <3>1. rest[i] = back[i - Len(front)]
      <4>1. i \in 1 .. Len(front) + Len(back) /\ ~(i <= Len(front))
        BY <1>3, <1>4, <1>5, <2>2
      <4>2. rest[i] = IF i <= Len(front) THEN front[i] ELSE back[i - Len(front)]
        BY <1>4, <1>5, <4>1, ConcatProperties, Zenon
      <4> QED BY <4>1, <4>2
    <3>2. i - (k - 1) \in 1 .. Len(list) - k /\ k + (i - (k - 1)) = i + 1
      BY <1>3, <2>2
    <3>3. back[i - (k - 1)] = list[k + (i - (k - 1))]
      BY <1>5, <3>2
    <3> QED BY <1>4, <2>2, <3>1, <3>2, <3>3
  <2> QED BY <2>1, <2>2
<1> HIDE DEF rest
<1>8. DOMAIN rest = 1 .. Len(list) - 1
  BY <1>6
<1>9. IsInjective(rest)
  BY <1>3, <1>7, <1>8 DEF IsInjective
<1>10. Range(rest) = Range(list) \ {x}
  <2>1. ASSUME NEW i \in DOMAIN rest PROVE rest[i] \in Range(list) \ {x}
    <3>1. \E j \in DOMAIN list : j # k /\ rest[i] = list[j]
      BY <1>3, <1>7, <1>8
    <3> QED BY <1>1, <3>1 DEF Range, IsInjective
  <2>2. ASSUME NEW j \in DOMAIN list, list[j] # x PROVE list[j] \in Range(rest)
    <3>1. CASE j < k
      BY <1>3, <1>7, <1>8, <3>1 DEF Range
    <3>2. CASE j > k
      <4>1. j - 1 \in DOMAIN rest /\ rest[j - 1] = list[j]
        BY <1>3, <1>7, <1>8, <3>2
      <4> QED BY <4>1 DEF Range
    <3>3. j < k \/ j > k
      BY <1>1, <1>3, <2>2
    <3> QED BY <3>1, <3>2, <3>3
  <2> QED BY <2>1, <2>2 DEF Range
<1>11. rest = << >> <=> Range(rest) = {}
  <2>1. rest # << >> => 1 \in DOMAIN rest
    BY <1>6
  <2> QED BY <1>6, <2>1 DEF Range
<1> QED BY <1>2, <1>6, <1>9, <1>10, <1>11

\* What prv_getWatcher does to the lists.
LEMMA GetsWatcher ==
  ASSUME ListsInv, NEW u \in Uris, NEW s \in Servers, GetWatcher(u, s)
  PROVE  /\ ListsInv'
         /\ \A v \in Uris, t \in Servers : Watched(v, t)' <=> Watched(v, t) \/ (v = u /\ t = s)
<1>1. /\ observedList \in Seq(Uris) /\ IsInjective(observedList)
      /\ watcherList[u] \in Seq(Servers) /\ IsInjective(watcherList[u])
  BY DEF ListsInv
<1>2. /\ observedList' \in Seq(Uris) /\ IsInjective(observedList')
      /\ Range(observedList') = Range(observedList) \cup {u}
  <2>1. CASE u \in Range(observedList)
    BY <1>1, <2>1 DEF GetWatcher
  <2>2. CASE u \notin Range(observedList)
    BY <1>1, <2>2, Prepended DEF GetWatcher
  <2> QED BY <2>1, <2>2
<1>3. /\ watcherList' \in [Uris -> Seq(Servers)] /\ IsInjective(watcherList'[u])
      /\ Range(watcherList'[u]) = Range(watcherList[u]) \cup {s} /\ watcherList'[u] # << >>
      /\ \A v \in Uris \ {u} : watcherList'[v] = watcherList[v]
  <2>1. CASE Watched(u, s)
    <3>1. watcherList[u] # << >>
      BY <2>1 DEF Watched, Range
    <3> QED BY <1>1, <2>1, <3>1 DEF GetWatcher, Watched, ListsInv
  <2>2. CASE ~Watched(u, s)
    <3>1. watcherList' = [watcherList EXCEPT ![u] = <<s>> \o watcherList[u]]
      BY <2>2 DEF GetWatcher
    <3>2. LET longer == <<s>> \o watcherList[u] IN
          /\ longer \in Seq(Servers) /\ IsInjective(longer) /\ longer # << >>
          /\ Range(longer) = Range(watcherList[u]) \cup {s}
      BY <1>1, <2>2, Prepended DEF Watched
    <3>3. watcherList'[u] = <<s>> \o watcherList[u]
      BY <3>1 DEF ListsInv
    <3>4. /\ watcherList' \in [Uris -> Seq(Servers)]
          /\ \A v \in Uris \ {u} : watcherList'[v] = watcherList[v]
      BY <3>1, <3>2 DEF ListsInv
    <3> QED BY <3>2, <3>3, <3>4
  <2> QED BY <2>1, <2>2
<1>4. ASSUME NEW v \in Uris
      PROVE  /\ IsInjective(watcherList'[v])
             /\ watcherList'[v] # << >> <=> v \in Range(observedList')
             /\ \A t \in Servers : Watched(v, t)' <=> Watched(v, t) \/ (v = u /\ t = s)
  <2>1. CASE v = u
    BY <1>2, <1>3, <2>1 DEF Watched
  <2>2. CASE v # u
    BY <1>2, <1>3, <2>2 DEF Watched, ListsInv
  <2> QED BY <2>1, <2>2
<1> QED BY <1>2, <1>3, <1>4 DEF ListsInv

\* What observe_cancel does to the lists: one watcher with this message id goes.
LEMMA CancelsOne ==
  ASSUME ListsInv, NEW mid, NEW s \in Servers, ObserveCancel(mid, s), Found(mid, s) # {}
  PROVE  /\ ListsInv'
         /\ \E u \in Uris :
              /\ Watched(u, s) /\ watcher[u][s].lastMid = mid
              /\ watcher' = [watcher EXCEPT ![u][s] = NewWatcher]
              /\ known' = [known EXCEPT ![u][s] = NoValue]
              /\ \A v \in Uris, t \in Servers :
                   Watched(v, t)' <=> Watched(v, t) /\ ~(v = u /\ t = s)
<1> DEFINE first == Least(Found(mid, s))
           u == observedList[first]
           rest == Unlinked(watcherList[u], s)
<1>1. Found(mid, s) \subseteq Nat
  BY DEF Found, ListsInv
<1>2. first \in Found(mid, s)
  BY <1>1, LeastElement
<1>3. /\ watcherList' = [watcherList EXCEPT ![u] = rest]
      /\ watcher' = [watcher EXCEPT ![u][s] = NewWatcher]
      /\ known' = [known EXCEPT ![u][s] = NoValue]
      /\ observedList' = IF rest = << >> THEN Unlinked(observedList, u) ELSE observedList
  BY DEF ObserveCancel
<1> HIDE DEF first
<1>4. u \in Uris /\ u \in Range(observedList) /\ Watched(u, s) /\ watcher[u][s].lastMid = mid
  <2>1. first \in DOMAIN observedList /\ Watched(u, s) /\ watcher[u][s].lastMid = mid
    BY <1>2 DEF Found
  <2> QED BY <2>1 DEF ListsInv, Range
<1> HIDE DEF u, rest
<1>5. /\ rest \in Seq(Servers) /\ IsInjective(rest)
      /\ Range(rest) = Range(watcherList[u]) \ {s} /\ (rest = << >> <=> Range(rest) = {})
  BY <1>4, UnlinkedList DEF Watched, ListsInv, rest
<1>6. /\ watcherList' \in [Uris -> Seq(Servers)] /\ watcherList'[u] = rest
      /\ \A v \in Uris \ {u} : watcherList'[v] = watcherList[v]
  BY <1>4, <1>3, <1>5 DEF ListsInv
<1>7. /\ observedList' \in Seq(Uris) /\ IsInjective(observedList')
      /\ Range(observedList') = IF rest = << >> THEN Range(observedList) \ {u}
                                ELSE Range(observedList)
  <2>1. CASE rest = << >>
    <3>1. observedList \in Seq(Uris) /\ IsInjective(observedList)
      BY DEF ListsInv
    <3>2. LET gone == Unlinked(observedList, u) IN
          gone \in Seq(Uris) /\ IsInjective(gone) /\ Range(gone) = Range(observedList) \ {u}
      BY <1>4, <3>1, UnlinkedList
    <3> QED BY <1>3, <2>1, <3>2
  <2>2. CASE rest # << >>
    BY <1>3, <2>2 DEF ListsInv
  <2> QED BY <2>1, <2>2
<1>8. ASSUME NEW v \in Uris
      PROVE  /\ IsInjective(watcherList'[v])
             /\ watcherList'[v] # << >> <=> v \in Range(observedList')
             /\ \A t \in Servers : Watched(v, t)' <=> Watched(v, t) /\ ~(v = u /\ t = s)
  <2>1. CASE v = u
    BY <1>4, <1>5, <1>6, <1>7, <2>1 DEF Watched
  <2>2. CASE v # u
    BY <1>6, <1>7, <2>2 DEF Watched, ListsInv
  <2> QED BY <2>1, <2>2
<1>9. ListsInv'
  BY <1>6, <1>7, <1>8 DEF ListsInv
<1> QED BY <1>4, <1>3, <1>8, <1>9

\* When observe_cancel finds no watcher, there is none.
LEMMA CancelsNone ==
  ASSUME ListsInv, NEW mid, NEW s \in Servers, Found(mid, s) = {}
  PROVE  \A u \in Uris : Watched(u, s) => watcher[u][s].lastMid # mid
<1> SUFFICES ASSUME NEW u \in Uris, Watched(u, s) PROVE watcher[u][s].lastMid # mid
  OBVIOUS
<1>1. watcherList[u] # << >>
  BY DEF Watched, Range, ListsInv
<1>2. PICK i \in DOMAIN observedList : observedList[i] = u
  BY <1>1 DEF ListsInv, Range
<1> QED BY <1>2 DEF Found

------------------------------------------------------------------------------
\* observe_step.

\* What the loops hand from one visit to the next.
Progresses ==
  [watcher : [Uris -> [Servers -> Watchers]], nextMID : Mids,
   known : [Uris -> [Servers -> Values \cup {NoValue}]], timeout : 1 .. Sleep,
   buffered : BOOLEAN, failed : BOOLEAN]

\* A watcher whose periods are not zero and whose thresholds may be looked at.
Sane(u, w) ==
  /\ \A a \in {"pmin", "pmax"} : a \in w.parameters.toSet => w.parameters.val[a] > 0
  /\ u = "inst" /\ w.active /\ w.update => w.parameters.toSet \cap Numeric = {}

AllSane(st) == \A u \in Uris, s \in Servers : Sane(u, st.watcher[u][s])

\* A notification, and what the server knows by it.
Sends(u, s, st, end) ==
  \E mid \in Mids :
    /\ end.watcher = [st.watcher EXCEPT ![u][s] = Notified(st.watcher[u][s], u, mid)]
    /\ end.known = [st.known EXCEPT ![u][s] = value]

\* A notified watcher.
LEMMA NotifiedTypes ==
  ASSUME value \in Values, NEW w \in Watchers, NEW u \in Uris, NEW mid \in Mids
  PROVE  LET sent == Notified(w, u, mid) IN
         /\ sent \in Watchers /\ sent.parameters = w.parameters /\ sent.age = 0
         /\ sent.update = FALSE /\ sent.active = w.active /\ sent.format = w.format
         /\ sent.lastMid = mid /\ sent.lastValue = IF u = "res" THEN value ELSE w.lastValue
<1> DEFINE sent == [w EXCEPT !.age = 0, !.lastMid = mid, !.update = FALSE,
                             !.lastValue = IF u = "res" THEN value ELSE @]
<1>1. Notified(w, u, mid) = sent
  BY DEF Notified
<1>2. 0 \in 0 .. MaxAge /\ (IF u = "res" THEN value ELSE w.lastValue) \in Int
  BY ObserveAssumption DEF Watchers
<1>3. sent \in Watchers
  BY <1>2 DEF Watchers
<1>4. /\ sent.parameters = w.parameters /\ sent.age = 0
      /\ sent.update = FALSE /\ sent.active = w.active /\ sent.format = w.format
      /\ sent.lastMid = mid /\ sent.lastValue = IF u = "res" THEN value ELSE w.lastValue
  BY DEF Watchers
<1> QED BY <1>1, <1>3, <1>4

\* What is left of the minimal period of a pending update.
LEMMA MinWaits ==
  ASSUME NEW w \in Watchers, NEW time \in 1 .. Sleep
  PROVE  LET pending == Least({time} \cup ToMin(w)) IN
         /\ pending \in 1 .. Sleep /\ pending <= time
         /\ w.update /\ "pmin" \in w.parameters.toSet /\ w.age < w.parameters.val["pmin"] =>
              pending <= w.parameters.val["pmin"] - w.age
<1>0. Sleep \in Nat
  BY ObserveAssumption
<1>1. w.age \in Int /\ w.parameters.val["pmin"] \in Int
  BY DEF Watchers, Parameters, Attributes
<1>2. CASE w.update /\ "pmin" \in w.parameters.toSet /\ w.age < w.parameters.val["pmin"]
  <2> DEFINE rest == w.parameters.val["pmin"] - w.age
           least == Least({time} \cup {rest})
  <2>1. ToMin(w) = {rest}
    BY <1>2 DEF ToMin
  <2>2. rest \in Int /\ rest > 0
    BY <1>1, <1>2
  <2> HIDE DEF rest
  <2>3. least \in {time, rest} /\ least <= time /\ least <= rest
    <3>1. time \in Int
      BY <1>0
    <3> QED BY <2>2, <3>1, LeastOfTwo
  <2> HIDE DEF least
  <2>4. least \in 1 .. Sleep
    BY <1>0, <2>2, <2>3
  <2> QED BY <2>1, <2>3, <2>4 DEF rest, least
<1>3. CASE ~(w.update /\ "pmin" \in w.parameters.toSet /\ w.age < w.parameters.val["pmin"])
  <2>1. ToMin(w) = {}
    BY <1>3 DEF ToMin
  <2> QED BY <1>3, <2>1, LeastOfTwo
<1> QED BY <1>2, <1>3

\* What is left of the maximal period.
LEMMA MaxWaits ==
  ASSUME NEW w \in Watchers, NEW time \in 1 .. Sleep,
         "pmax" \in w.parameters.toSet => w.age < w.parameters.val["pmax"]
  PROVE  LET next == Least({time} \cup ToMax(w)) IN
         /\ next \in 1 .. Sleep /\ next <= time
         /\ "pmax" \in w.parameters.toSet => next <= w.parameters.val["pmax"] - w.age
<1>0. Sleep \in Nat
  BY ObserveAssumption
<1>1. w.age \in Int /\ w.parameters.val["pmax"] \in Int
  BY DEF Watchers, Parameters, Attributes
<1>2. CASE "pmax" \in w.parameters.toSet
  <2> DEFINE rest == w.parameters.val["pmax"] - w.age
           least == Least({time} \cup {rest})
  <2>1. ToMax(w) = {rest}
    BY <1>2 DEF ToMax
  <2>2. rest \in Int /\ rest > 0
    BY <1>1, <1>2
  <2> HIDE DEF rest
  <2>3. least \in {time, rest} /\ least <= time /\ least <= rest
    <3>1. time \in Int
      BY <1>0
    <3> QED BY <2>2, <3>1, LeastOfTwo
  <2> HIDE DEF least
  <2>4. least \in 1 .. Sleep
    BY <1>0, <2>2, <2>3
  <2> QED BY <2>1, <2>3, <2>4 DEF rest, least
<1>3. CASE "pmax" \notin w.parameters.toSet
  <2>1. ToMax(w) = {}
    BY <1>3 DEF ToMax
  <2> QED BY <1>3, <2>1, LeastOfTwo
<1> QED BY <1>2, <1>3

\* One visit: at most a notification, and a watcher that may rest.
LEMMA Visits ==
  ASSUME value \in Values, NEW u \in Uris, NEW s \in Servers,
         NEW st \in Progresses, AllSane(st)
  PROVE  LET end == Visit(u, s, st)  w == st.watcher[u][s] IN
         /\ end \in Progresses /\ end.timeout <= st.timeout
         /\ (end.watcher = st.watcher /\ end.known = st.known) \/ Sends(u, s, st, end)
         /\ end.failed => st.failed \/ (w.active /\ ~Servable(u, w.format))
         /\ w.active /\ ~end.failed => Rests(u, end.watcher[u][s], end.timeout)
<1> DEFINE end == Visit(u, s, st)
           w == st.watcher[u][s]
           p == w.parameters
           pending == Least({st.timeout} \cup ToMin(w))
           sent == Notified(w, u, st.nextMID)
           next == Least({pending} \cup ToMax(w))
           later == Least({pending} \cup ToMax(sent))
<1>1. /\ st.watcher \in [Uris -> [Servers -> Watchers]] /\ w \in Watchers
      /\ st.known \in [Uris -> [Servers -> Values \cup {NoValue}]]
      /\ st.nextMID \in Mids /\ st.timeout \in 1 .. Sleep
      /\ st.buffered \in BOOLEAN /\ st.failed \in BOOLEAN
  BY DEF Progresses
<1>2. /\ w.age \in Nat /\ p.toSet \subseteq Attributes /\ p.val \in [Attributes -> Int]
      /\ w.active \in BOOLEAN /\ w.update \in BOOLEAN
  BY <1>1 DEF Watchers, Parameters
<1>3. Sane(u, w)
  BY DEF AllSane
<1>4. /\ pending \in 1 .. Sleep /\ pending <= st.timeout
      /\ w.update /\ "pmin" \in p.toSet /\ w.age < p.val["pmin"] =>
           pending <= p.val["pmin"] - w.age
  BY <1>1, MinWaits
<1>5. /\ sent \in Watchers /\ sent.parameters = p /\ sent.age = 0
      /\ sent.update = FALSE
  <2>1. w \in Watchers /\ st.nextMID \in Mids
    BY <1>1
  <2> HIDE DEF w
  <2> QED BY <2>1, NotifiedTypes
<1>6. "pmax" \in p.toSet => p.val["pmax"] > 0
  BY <1>3 DEF Sane
<1>7. /\ later \in 1 .. Sleep /\ later <= pending
      /\ "pmax" \in p.toSet => later <= p.val["pmax"] - 0
  BY <1>4, <1>5, <1>6, MaxWaits
<1> DEFINE fails == [st EXCEPT !.failed = TRUE, !.timeout = pending]
           waits == [st EXCEPT !.timeout = next]
           sends == [st EXCEPT !.watcher[u][s] = sent,
                               !.nextMID = (@ + 1) % MidSpace,
                               !.buffered = TRUE,
                               !.known[u][s] = value,
                               !.timeout = later]
<1>8. (st.nextMID + 1) % MidSpace \in Mids
  <2>1. MidSpace \in Nat /\ MidSpace > 0
    BY ObserveAssumption
  <2>2. st.nextMID + 1 \in Nat
    BY <1>1 DEF Mids
  <2>3. \A n \in Nat : n % MidSpace \in 0 .. MidSpace - 1
    BY <2>1
  <2> QED BY <2>2, <2>3 DEF Mids
<1> HIDE DEF w, p, pending, sent, next, later
<1>9. CASE ~w.active \/ st.failed
  <2>1. end = st
    BY <1>9 DEF Visit, w
  <2>2. st.timeout <= st.timeout
    BY <1>1
  <2> HIDE DEF end
  <2> QED BY <1>9, <2>1, <2>2, Zenon DEF end, w
<1>10. CASE w.active /\ ~st.failed /\ ~Due(w)
  <2>1. end = waits
    BY <1>10 DEF Visit, w, pending, next
  <2>2. "pmax" \in p.toSet => w.age < p.val["pmax"]
    BY <1>2, <1>10 DEF Due, p, Attributes
  <2>3. /\ next \in 1 .. Sleep /\ next <= pending
        /\ "pmax" \in p.toSet => next <= p.val["pmax"] - w.age
    BY <1>1, <1>4, <2>2, MaxWaits DEF next, p
  <2>4. /\ waits \in Progresses /\ waits.watcher = st.watcher /\ waits.known = st.known
        /\ waits.timeout = next /\ waits.failed = st.failed
    BY <1>1, <2>3 DEF Progresses
  <2>5. Rests(u, w, next)
    <3>1. w.update => IF "pmin" \in p.toSet THEN w.age < p.val["pmin"]
                      ELSE p.toSet # {} /\ ~Triggers(p, w.lastValue)
      BY <1>2, <1>10 DEF Due, p, Attributes
    <3>2. w.update /\ u = "inst" => p.toSet \cap Numeric = {}
      BY <1>3, <1>10 DEF Sane, p
    <3>3. w.update /\ "pmin" \in p.toSet => next <= p.val["pmin"] - w.age
      BY <1>2, <1>4, <2>3, <3>1 DEF Attributes
    <3> QED BY <2>3, <3>1, <3>2, <3>3 DEF Rests, p
  <2>6. next <= st.timeout
    BY <1>1, <1>4, <2>3
  <2> QED BY <1>10, <2>1, <2>4, <2>5, <2>6 DEF w
<1>11. CASE w.active /\ ~st.failed /\ Due(w) /\ ~(st.buffered \/ Servable(u, w.format))
  <2>1. end = fails
    BY <1>11 DEF Visit, w, pending
  <2>2. /\ fails \in Progresses /\ fails.watcher = st.watcher /\ fails.known = st.known
        /\ fails.timeout = pending /\ fails.failed = TRUE
    BY <1>1, <1>4 DEF Progresses
  <2> QED BY <1>4, <1>11, <2>1, <2>2 DEF w
<1>12. CASE w.active /\ ~st.failed /\ Due(w) /\ (st.buffered \/ Servable(u, w.format))
  <2>1. end = sends
    BY <1>12 DEF Visit, w, pending, sent, later
  <2>2. /\ sends.watcher = [st.watcher EXCEPT ![u][s] = sent]
        /\ sends.known = [st.known EXCEPT ![u][s] = value]
        /\ sends.timeout = later /\ sends.failed = st.failed
        /\ sends.nextMID = (st.nextMID + 1) % MidSpace /\ sends.buffered = TRUE
    BY <1>1 DEF Progresses
  <2>3. sends \in Progresses
    BY <1>1, <1>5, <1>7, <1>8 DEF Progresses
  <2>4. Sends(u, s, st, sends)
    BY <1>1, <2>2 DEF Sends, sent, w
  <2>5. sends.watcher[u][s] = sent
    BY <1>1, <2>2
  <2>6. Rests(u, sent, later)
    BY <1>5, <1>7 DEF Rests
  <2>7. later <= st.timeout
    BY <1>1, <1>4, <1>7
  <2> HIDE DEF sends
  <2> QED BY <1>12, <2>1, <2>2, <2>3, <2>4, <2>5, <2>6, <2>7
<1> QED BY <1>2, <1>9, <1>10, <1>11, <1>12

\* The loop over the watchers of a URI is well defined.
LEMMA WatchersLoop ==
  ASSUME NEW u \in Uris, watcherList[u] \in Seq(Servers), NEW st
  PROVE  \E after :
           /\ \A n \in 0 .. Len(watcherList[u]) :
                after[n] = IF n = 0 THEN [st EXCEPT !.buffered = FALSE, !.failed = FALSE]
                           ELSE Visit(u, watcherList[u][n], after[n - 1])
           /\ AfterWatchers(u, st) = after[Len(watcherList[u])]
<1> DEFINE N == Len(watcherList[u])
           st0 == [st EXCEPT !.buffered = FALSE, !.failed = FALSE]
           Next1(n, x) == Visit(u, watcherList[u][n], x)
           Ok(n, g) == g = [m \in 0 .. n |-> IF m = 0 THEN st0 ELSE Next1(m, g[m - 1])]
<1>0. N \in Nat
  OBVIOUS
<1>1. AfterWatchers(u, st) = (CHOOSE g : Ok(N, g))[N]
  BY DEF AfterWatchers
<1> HIDE DEF N, st0, Next1
<1>2. \A n \in Nat : \E g : Ok(n, g)
  <2> DEFINE T == {n \in Nat : ~ \E g : Ok(n, g)}
  <2>1. SUFFICES ASSUME T # {} PROVE FALSE
    OBVIOUS
  <2> DEFINE n == Least(T)
  <2>2. n \in T /\ \A m \in T : n <= m
    <3> HIDE DEF Ok
    <3>1. T \subseteq Nat
      OBVIOUS
    <3> HIDE DEF T
    <3> QED BY <2>1, <3>1, LeastElement
  <2> HIDE DEF n
  <2>3. n # 0
    <3>1. Ok(0, [m \in 0 .. 0 |-> st0])
      OBVIOUS
    <3> HIDE DEF Ok
    <3> QED BY <2>2, <3>1
  <2>4. n \in Nat /\ n - 1 \in Nat /\ ~(n <= n - 1)
    BY <2>2, <2>3
  <2>5. PICK g : Ok(n - 1, g)
    <3> HIDE DEF Ok
    <3>1. n - 1 \notin T
      BY <2>2, <2>4
    <3> QED BY <2>4, <3>1
  <2> DEFINE h == [m \in 0 .. n |-> IF m = n THEN Next1(n, g[n - 1]) ELSE g[m]]
  <2>6. ASSUME NEW m \in 0 .. n PROVE h[m] = IF m = 0 THEN st0 ELSE Next1(m, h[m - 1])
    <3>1. CASE m = 0
      BY <2>3, <2>4, <2>5, <3>1
    <3>2. CASE m # 0
      <4>1. m - 1 \in 0 .. n - 1 /\ m - 1 \in 0 .. n /\ m - 1 # n
        BY <2>4, <3>2
      <4>2. h[m - 1] = g[m - 1]
        BY <4>1
      <4>3. CASE m = n
        BY <4>2, <4>3, <3>2
      <4>4. CASE m # n
        <5>1. m \in 0 .. n - 1
          BY <2>4, <4>4
        <5>2. g[m] = Next1(m, g[m - 1])
          BY <2>5, <3>2, <5>1
        <5> QED BY <3>2, <4>2, <4>4, <5>2
      <4> QED BY <4>3, <4>4
    <3> QED BY <3>1, <3>2
  <2>7. Ok(n, h)
    <3>1. DOMAIN h = 0 .. n /\ h = [m \in 0 .. n |-> h[m]]
      OBVIOUS
    <3> HIDE DEF h
    <3> QED BY <2>6, <3>1
  <2> HIDE DEF h, Ok
  <2> QED BY <2>2, <2>7
<1> DEFINE after == CHOOSE g : Ok(N, g)
<1>3. Ok(N, after)
  <2> HIDE DEF Ok
  <2> QED BY <1>0, <1>2
<1> HIDE DEF after
<1>4. \A n \in 0 .. N : after[n] = IF n = 0 THEN st0 ELSE Next1(n, after[n - 1])
  BY <1>3
<1>5. AfterWatchers(u, st) = after[N]
  BY <1>1 DEF after
<1> QED BY <1>4, <1>5 DEF N, st0, Next1

\* Where the loops begin.
FirstProgress == [watcher |-> watcher, nextMID |-> nextMID, known |-> known,
                  timeout |-> Sleep, buffered |-> FALSE, failed |-> FALSE]

\* The loop over the observed URIs is well defined.
LEMMA TargetsLoop ==
  ASSUME observedList \in Seq(Uris)
  PROVE  \E after :
           /\ \A n \in 0 .. Len(observedList) :
                after[n] = IF n = 0 THEN FirstProgress
                           ELSE AfterWatchers(observedList[n], after[n - 1])
           /\ AfterTargets = after[Len(observedList)]
<1> DEFINE N == Len(observedList)
           st0 == FirstProgress
           Next1(n, x) == AfterWatchers(observedList[n], x)
           Ok(n, g) == g = [m \in 0 .. n |-> IF m = 0 THEN st0 ELSE Next1(m, g[m - 1])]
<1>0. N \in Nat
  OBVIOUS
<1>1. AfterTargets = (CHOOSE g : Ok(N, g))[N]
  BY DEF AfterTargets, FirstProgress
<1> HIDE DEF N, st0, Next1
<1>2. \A n \in Nat : \E g : Ok(n, g)
  <2> DEFINE T == {n \in Nat : ~ \E g : Ok(n, g)}
  <2>1. SUFFICES ASSUME T # {} PROVE FALSE
    OBVIOUS
  <2> DEFINE n == Least(T)
  <2>2. n \in T /\ \A m \in T : n <= m
    <3> HIDE DEF Ok
    <3>1. T \subseteq Nat
      OBVIOUS
    <3> HIDE DEF T
    <3> QED BY <2>1, <3>1, LeastElement
  <2> HIDE DEF n
  <2>3. n # 0
    <3>1. Ok(0, [m \in 0 .. 0 |-> st0])
      OBVIOUS
    <3> HIDE DEF Ok
    <3> QED BY <2>2, <3>1
  <2>4. n \in Nat /\ n - 1 \in Nat /\ ~(n <= n - 1)
    BY <2>2, <2>3
  <2>5. PICK g : Ok(n - 1, g)
    <3> HIDE DEF Ok
    <3>1. n - 1 \notin T
      BY <2>2, <2>4
    <3> QED BY <2>4, <3>1
  <2> DEFINE h == [m \in 0 .. n |-> IF m = n THEN Next1(n, g[n - 1]) ELSE g[m]]
  <2>6. ASSUME NEW m \in 0 .. n PROVE h[m] = IF m = 0 THEN st0 ELSE Next1(m, h[m - 1])
    <3>1. CASE m = 0
      BY <2>3, <2>4, <2>5, <3>1
    <3>2. CASE m # 0
      <4>1. m - 1 \in 0 .. n - 1 /\ m - 1 \in 0 .. n /\ m - 1 # n
        BY <2>4, <3>2
      <4>2. h[m - 1] = g[m - 1]
        BY <4>1
      <4>3. CASE m = n
        BY <4>2, <4>3, <3>2
      <4>4. CASE m # n
        <5>1. m \in 0 .. n - 1
          BY <2>4, <4>4
        <5>2. g[m] = Next1(m, g[m - 1])
          BY <2>5, <3>2, <5>1
        <5> QED BY <3>2, <4>2, <4>4, <5>2
      <4> QED BY <4>3, <4>4
    <3> QED BY <3>1, <3>2
  <2>7. Ok(n, h)
    <3>1. DOMAIN h = 0 .. n /\ h = [m \in 0 .. n |-> h[m]]
      OBVIOUS
    <3> HIDE DEF h
    <3> QED BY <2>6, <3>1
  <2> HIDE DEF h, Ok
  <2> QED BY <2>2, <2>7
<1> DEFINE after == CHOOSE g : Ok(N, g)
<1>3. Ok(N, after)
  <2> HIDE DEF Ok
  <2> QED BY <1>0, <1>2
<1> HIDE DEF after
<1>4. \A n \in 0 .. N : after[n] = IF n = 0 THEN st0 ELSE Next1(n, after[n - 1])
  BY <1>3
<1>5. AfterTargets = after[N]
  BY <1>1 DEF after
<1> QED BY <1>4, <1>5 DEF N, st0, Next1

\* The state in which the visits begin.
Ready ==
  /\ ListsInv /\ OtherTypes /\ watcher \in [Uris -> [Servers -> Watchers]]
  /\ \A u \in Uris, s \in Servers : Sane(u, watcher[u][s])

\* The visits have left each watcher alone or notified it.
Came(st) ==
  \A u \in Uris, s \in Servers :
    \/ st.watcher[u][s] = watcher[u][s] /\ st.known[u][s] = known[u][s]
    \/ /\ Watched(u, s)
       /\ \E mid \in Mids : st.watcher[u][s] = Notified(watcher[u][s], u, mid)
       /\ st.known[u][s] = value

\* What the visits do not change.
LEMMA CameAlike ==
  ASSUME Ready, NEW st \in Progresses, Came(st)
  PROVE  /\ AllSane(st)
         /\ \A u \in Uris, s \in Servers :
              /\ st.watcher[u][s].active = watcher[u][s].active
              /\ st.watcher[u][s].format = watcher[u][s].format
<1> SUFFICES ASSUME NEW u \in Uris, NEW s \in Servers
             PROVE  /\ Sane(u, st.watcher[u][s])
                    /\ st.watcher[u][s].active = watcher[u][s].active
                    /\ st.watcher[u][s].format = watcher[u][s].format
  BY DEF AllSane
<1>1. watcher[u][s] \in Watchers /\ value \in Values /\ Sane(u, watcher[u][s])
  BY DEF Ready, OtherTypes
<1>2. CASE st.watcher[u][s] = watcher[u][s]
  BY <1>1, <1>2
<1>3. ASSUME NEW mid \in Mids, st.watcher[u][s] = Notified(watcher[u][s], u, mid)
      PROVE  /\ Sane(u, st.watcher[u][s])
             /\ st.watcher[u][s].active = watcher[u][s].active
             /\ st.watcher[u][s].format = watcher[u][s].format
  <2> DEFINE sent == Notified(watcher[u][s], u, mid)
  <2>1. /\ sent.parameters = watcher[u][s].parameters /\ sent.update = FALSE
        /\ sent.active = watcher[u][s].active /\ sent.format = watcher[u][s].format
    <3> DEFINE w == watcher[u][s]
    <3>1. w \in Watchers
      BY <1>1
    <3> HIDE DEF w
    <3>2. /\ Notified(w, u, mid).parameters = w.parameters /\ Notified(w, u, mid).update = FALSE
          /\ Notified(w, u, mid).active = w.active /\ Notified(w, u, mid).format = w.format
      BY <1>1, <3>1, NotifiedTypes
    <3> QED BY <3>2 DEF w
  <2> HIDE DEF sent
  <2>2. Sane(u, sent)
    BY <1>1, <2>1 DEF Sane
  <2> QED BY <1>3, <2>1, <2>2 DEF sent
<1> QED BY <1>2, <1>3 DEF Came

\* A visit keeps Came.
LEMMA CameKept ==
  ASSUME Ready, NEW st \in Progresses, Came(st), NEW u \in Uris, NEW s \in Servers, Watched(u, s),
         NEW end, (end.watcher = st.watcher /\ end.known = st.known) \/ Sends(u, s, st, end)
  PROVE  Came(end)
<1>1. CASE end.watcher = st.watcher /\ end.known = st.known
  BY <1>1 DEF Came
<1>2. ASSUME NEW mid \in Mids,
             end.watcher = [st.watcher EXCEPT ![u][s] = Notified(st.watcher[u][s], u, mid)],
             end.known = [st.known EXCEPT ![u][s] = value]
      PROVE  Came(end)
  <2>1. /\ st.watcher \in [Uris -> [Servers -> Watchers]] /\ value \in Values
        /\ st.known \in [Uris -> [Servers -> Values \cup {NoValue}]]
        /\ watcher[u][s] \in Watchers
    BY DEF Progresses, Ready, OtherTypes
  <2>2. end.watcher[u][s] = Notified(watcher[u][s], u, mid)
    <3>1. CASE st.watcher[u][s] = watcher[u][s]
      BY <1>2, <2>1, <3>1
    <3>2. ASSUME NEW m \in Mids, st.watcher[u][s] = Notified(watcher[u][s], u, m)
          PROVE  end.watcher[u][s] = Notified(watcher[u][s], u, mid)
      <4>1. end.watcher[u][s] = Notified(Notified(watcher[u][s], u, m), u, mid)
        BY <1>2, <2>1, <3>2
      <4>2. \A w \in Watchers : Notified(Notified(w, u, m), u, mid) = Notified(w, u, mid)
        BY DEF Notified, Watchers
      <4> QED BY <2>1, <4>1, <4>2
    <3> QED BY <3>1, <3>2 DEF Came
  <2>3. end.known[u][s] = value
    BY <1>2, <2>1
  <2>4. ASSUME NEW v \in Uris, NEW t \in Servers, v # u \/ t # s
        PROVE  end.watcher[v][t] = st.watcher[v][t] /\ end.known[v][t] = st.known[v][t]
    BY <1>2, <2>1, <2>4
  <2>5. ASSUME NEW v \in Uris, NEW t \in Servers
        PROVE  \/ end.watcher[v][t] = watcher[v][t] /\ end.known[v][t] = known[v][t]
               \/ /\ Watched(v, t)
                  /\ \E m \in Mids : end.watcher[v][t] = Notified(watcher[v][t], v, m)
                  /\ end.known[v][t] = value
    <3>1. CASE v = u /\ t = s
      BY <2>2, <2>3, <3>1
    <3>2. CASE v # u \/ t # s
      BY <2>4, <3>2 DEF Came
    <3> QED BY <3>1, <3>2
  <2> QED BY <2>5 DEF Came
<1> QED BY <1>1, <1>2 DEF Sends

\* A watcher that may rest for a time may rest for less.
LEMMA RestsLess ==
  ASSUME NEW u, NEW w \in Watchers, NEW time \in Int, NEW less \in Int, less <= time,
         Rests(u, w, time)
  PROVE  Rests(u, w, less)
<1> DEFINE p == w.parameters
<1>1. w.age \in Int /\ p.val["pmin"] \in Int /\ p.val["pmax"] \in Int
  BY DEF Watchers, Parameters, Attributes
<1> HIDE DEF p
<1>2. "pmax" \in p.toSet => less <= p.val["pmax"] - w.age
  BY <1>1 DEF Rests, p
<1>3. w.update /\ "pmin" \in p.toSet => less <= p.val["pmin"] - w.age
  BY <1>1 DEF Rests, p
<1> QED BY <1>2, <1>3 DEF Rests, p

\* What the visits to the watchers of a URI achieve.
LEMMA WatchersVisited ==
  ASSUME Ready, NEW u \in Uris, NEW st \in Progresses, Came(st)
  PROVE  LET end == AfterWatchers(u, st) IN
         /\ end \in Progresses /\ end.timeout <= st.timeout /\ Came(end)
         /\ \A v \in Uris \ {u} : end.watcher[v] = st.watcher[v]
         /\ \A s \in Range(watcherList[u]) :
              watcher[u][s].active /\ ~Starved(u, s) => Rests(u, end.watcher[u][s], end.timeout)
<1> DEFINE list == watcherList[u]
           N == Len(list)
<1>1. list \in Seq(Servers) /\ IsInjective(list) /\ N \in Nat /\ DOMAIN list = 1 .. N
  BY DEF Ready, ListsInv
<1>2. PICK after :
        /\ \A n \in 0 .. N :
             after[n] = IF n = 0 THEN [st EXCEPT !.buffered = FALSE, !.failed = FALSE]
                        ELSE Visit(u, list[n], after[n - 1])
        /\ AfterWatchers(u, st) = after[N]
  BY <1>1, WatchersLoop
<1> DEFINE Blocks(k) == watcher[u][list[k]].active /\ ~Servable(u, watcher[u][list[k]].format)
           Serves(k) == watcher[u][list[k]].active /\ ~Starved(u, list[k])
           Fine(n, e) == /\ e \in Progresses /\ e.timeout <= st.timeout /\ Came(e)
                         /\ \A v \in Uris \ {u} : e.watcher[v] = st.watcher[v]
                         /\ e.failed => \E k \in 1 .. n : Blocks(k)
                         /\ \A k \in 1 .. n :
                              Serves(k) => Rests(u, e.watcher[u][list[k]], e.timeout)
           T == {n \in 0 .. N : ~Fine(n, after[n])}
<1>3. \A n \in 1 .. N : \A k \in 1 .. n : Serves(n) => ~Blocks(k)
  <2> SUFFICES ASSUME NEW n \in 1 .. N, NEW k \in 1 .. n, Serves(n), Blocks(k) PROVE FALSE
    OBVIOUS
  <2>1. CASE k = n
    BY <2>1 DEF Starved
  <2>2. CASE k # n
    <3>1. k < n /\ k \in DOMAIN list /\ n \in DOMAIN list
      BY <1>1, <2>2
    <3> QED BY <3>1 DEF Starved
  <2> QED BY <2>1, <2>2
<1> HIDE DEF Blocks, Serves
<1>4. Fine(0, after[0])
  <2>1. after[0] = [st EXCEPT !.buffered = FALSE, !.failed = FALSE]
    BY <1>1, <1>2
  <2>2. /\ after[0] \in Progresses /\ after[0].watcher = st.watcher /\ after[0].known = st.known
        /\ after[0].timeout = st.timeout /\ after[0].failed = FALSE
    BY <2>1 DEF Progresses
  <2>3. st.timeout <= st.timeout
    BY DEF Progresses
  <2>4. Came(after[0])
    BY <2>2 DEF Came
  <2> QED BY <2>2, <2>3, <2>4
<1>5. ASSUME NEW n \in 1 .. N, Fine(n - 1, after[n - 1]) PROVE Fine(n, after[n])
  <2> DEFINE e == after[n - 1]
             f == after[n]
             s == list[n]
             w == e.watcher[u][s]
  <2>1. f = Visit(u, s, e) /\ s \in Servers
    BY <1>1, <1>2
  <2>2. AllSane(e) /\ w.active = watcher[u][s].active /\ w.format = watcher[u][s].format
    BY <1>5, <2>1, CameAlike
  <2>3. value \in Values
    BY DEF Ready, OtherTypes
  <2>4. /\ e \in Progresses /\ e.timeout <= st.timeout /\ Came(e)
        /\ \A v \in Uris \ {u} : e.watcher[v] = st.watcher[v]
        /\ e.failed => \E k \in 1 .. n - 1 : Blocks(k)
        /\ \A k \in 1 .. n - 1 : Serves(k) => Rests(u, e.watcher[u][list[k]], e.timeout)
    BY <1>5
  <2> HIDE DEF e, s, w
  <2>5. /\ f \in Progresses /\ f.timeout <= e.timeout
        /\ (f.watcher = e.watcher /\ f.known = e.known) \/ Sends(u, s, e, f)
        /\ f.failed => e.failed \/ (w.active /\ ~Servable(u, w.format))
        /\ w.active /\ ~f.failed => Rests(u, f.watcher[u][s], f.timeout)
    <3>1. LET end == Visit(u, s, e)  x == e.watcher[u][s] IN
          /\ end \in Progresses /\ end.timeout <= e.timeout
          /\ (end.watcher = e.watcher /\ end.known = e.known) \/ Sends(u, s, e, end)
          /\ end.failed => e.failed \/ (x.active /\ ~Servable(u, x.format))
          /\ x.active /\ ~end.failed => Rests(u, end.watcher[u][s], end.timeout)
      BY <2>1, <2>2, <2>3, <2>4, Visits
    <3> HIDE DEF f
    <3> QED BY <2>1, <3>1 DEF w
  <2> HIDE DEF f
  <2>6. Came(f)
    <3>1. Watched(u, s)
      BY <1>1 DEF Watched, Range, s
    <3> QED BY <2>1, <2>4, <2>5, <3>1, CameKept
  <2>7. e.timeout \in Int /\ f.timeout \in Int /\ st.timeout \in Int
    BY <2>4, <2>5 DEF Progresses
  <2>8. f.timeout <= st.timeout
    BY <2>4, <2>5, <2>7
  <2>9. \A v \in Uris, t \in Servers : v # u \/ t # s => f.watcher[v][t] = e.watcher[v][t]
    BY <2>1, <2>4, <2>5 DEF Sends, Progresses
  <2>10. \A v \in Uris \ {u} : f.watcher[v] = e.watcher[v]
    BY <2>1, <2>4, <2>5 DEF Sends, Progresses
  <2>11. f.failed => \E k \in 1 .. n : Blocks(k)
    <3>1. w.active /\ ~Servable(u, w.format) => Blocks(n)
      BY <2>2 DEF Blocks, s
    <3> QED BY <2>4, <2>5, <3>1
  <2>12. ASSUME NEW k \in 1 .. n, Serves(k)
         PROVE  Rests(u, f.watcher[u][list[k]], f.timeout)
    <3>1. CASE k = n
      <4>1. ~f.failed
        BY <1>3, <2>11, <2>12, <3>1
      <4>2. w.active
        BY <2>2, <2>12, <3>1 DEF Serves, s
      <4> QED BY <2>5, <3>1, <4>1, <4>2 DEF s
    <3>2. CASE k # n
      <4>1. k \in 1 .. n - 1 /\ k \in 1 .. N /\ list[k] \in Servers
        BY <1>1, <3>2
      <4>2. list[k] # s
        BY <1>1, <3>2, <4>1 DEF s, IsInjective
      <4>3. f.watcher[u][list[k]] = e.watcher[u][list[k]]
        BY <2>9, <4>1, <4>2
      <4>4. Rests(u, e.watcher[u][list[k]], e.timeout)
        BY <2>4, <2>12, <4>1
      <4>5. e.watcher[u][list[k]] \in Watchers
        BY <2>4, <4>1 DEF Progresses
      <4> QED BY <2>5, <2>7, <4>3, <4>4, <4>5, RestsLess
    <3> QED BY <3>1, <3>2
  <2>13. \A v \in Uris \ {u} : f.watcher[v] = st.watcher[v]
    BY <2>4, <2>10
  <2> QED BY <2>5, <2>6, <2>8, <2>11, <2>12, <2>13 DEF f
<1> HIDE DEF Fine
<1>6. T = {}
  <2> SUFFICES ASSUME T # {} PROVE FALSE
    OBVIOUS
  <2>1. T \subseteq Nat
    OBVIOUS
  <2> DEFINE n == Least(T)
  <2>2. n \in T /\ \A m \in T : n <= m
    <3> HIDE DEF T
    <3> QED BY <2>1, LeastElement
  <2> HIDE DEF n
  <2>3. n \in 1 .. N /\ n - 1 \in 0 .. N /\ ~(n <= n - 1)
    BY <1>1, <1>4, <2>2
  <2>4. Fine(n - 1, after[n - 1])
    BY <2>2, <2>3
  <2> QED BY <1>5, <2>2, <2>3, <2>4
<1>7. Fine(N, after[N])
  BY <1>1, <1>6
<1> QED
  <2>1. ASSUME NEW s \in Range(list), watcher[u][s].active /\ ~Starved(u, s)
        PROVE  Rests(u, after[N].watcher[u][s], after[N].timeout)
    <3>1. PICK k \in 1 .. N : list[k] = s
      BY <1>1 DEF Range
    <3> QED BY <1>7, <2>1, <3>1 DEF Fine, Serves
  <2> QED BY <1>2, <1>7, <2>1 DEF Fine

\* What all visits achieve: every watcher that is served may rest.
LEMMA TargetsVisited ==
  ASSUME Ready
  PROVE  /\ AfterTargets \in Progresses /\ Came(AfterTargets)
         /\ \A u \in Uris, s \in Servers :
              Watched(u, s) /\ watcher[u][s].active /\ ~Starved(u, s) =>
                Rests(u, AfterTargets.watcher[u][s], AfterTargets.timeout)
<1> DEFINE list == observedList
           N == Len(list)
<1>1. list \in Seq(Uris) /\ IsInjective(list) /\ N \in Nat /\ DOMAIN list = 1 .. N
  BY DEF Ready, ListsInv
<1>2. PICK after :
        /\ \A n \in 0 .. N : after[n] = IF n = 0 THEN FirstProgress
                                        ELSE AfterWatchers(list[n], after[n - 1])
        /\ AfterTargets = after[N]
  BY <1>1, TargetsLoop
<1> DEFINE Rested(u, e) ==
             \A s \in Range(watcherList[u]) :
               watcher[u][s].active /\ ~Starved(u, s) => Rests(u, e.watcher[u][s], e.timeout)
           Fine(n, e) == /\ e \in Progresses /\ Came(e)
                         /\ \A k \in 1 .. n : Rested(list[k], e)
           T == {n \in 0 .. N : ~Fine(n, after[n])}
<1>3. Fine(0, after[0])
  <2>1. after[0] = FirstProgress
    BY <1>1, <1>2
  <2>2. FirstProgress \in Progresses
    BY ObserveAssumption DEF FirstProgress, Progresses, Ready, OtherTypes
  <2>3. Came(FirstProgress)
    BY DEF Came, FirstProgress
  <2> QED BY <2>1, <2>2, <2>3
<1>4. ASSUME NEW n \in 1 .. N, Fine(n - 1, after[n - 1]) PROVE Fine(n, after[n])
  <2> DEFINE e == after[n - 1]
             f == after[n]
             u == list[n]
  <2>1. f = AfterWatchers(u, e) /\ u \in Uris
    BY <1>1, <1>2
  <2>2. e \in Progresses /\ Came(e) /\ \A k \in 1 .. n - 1 : Rested(list[k], e)
    BY <1>4
  <2> HIDE DEF e, u
  <2>3. /\ f \in Progresses /\ f.timeout <= e.timeout /\ Came(f)
        /\ \A v \in Uris \ {u} : f.watcher[v] = e.watcher[v]
        /\ Rested(u, f)
    <3>1. LET end == AfterWatchers(u, e) IN
          /\ end \in Progresses /\ end.timeout <= e.timeout /\ Came(end)
          /\ \A v \in Uris \ {u} : end.watcher[v] = e.watcher[v]
          /\ Rested(u, end)
      BY <2>1, <2>2, WatchersVisited
    <3> HIDE DEF f, Rested
    <3> QED BY <2>1, <3>1
  <2> HIDE DEF f
  <2>4. ASSUME NEW k \in 1 .. n PROVE Rested(list[k], f)
    <3>1. CASE k = n
      BY <2>3, <3>1 DEF u
    <3>2. CASE k # n
      <4>1. k \in 1 .. n - 1 /\ k \in 1 .. N /\ list[k] \in Uris
        BY <1>1, <3>2
      <4>2. list[k] # u
        BY <1>1, <3>2, <4>1 DEF u, IsInjective
      <4>3. f.watcher[list[k]] = e.watcher[list[k]]
        BY <2>3, <4>1, <4>2
      <4>4. e.timeout \in Int /\ f.timeout \in Int
        BY <2>2, <2>3 DEF Progresses
      <4>5. ASSUME NEW s \in Range(watcherList[list[k]]),
                   watcher[list[k]][s].active /\ ~Starved(list[k], s)
            PROVE  Rests(list[k], f.watcher[list[k]][s], f.timeout)
        <5>1. Rests(list[k], e.watcher[list[k]][s], e.timeout)
          BY <2>2, <4>1, <4>5
        <5>2. s \in Servers
          BY <4>1 DEF Ready, ListsInv, Range
        <5>3. e.watcher[list[k]][s] \in Watchers
          BY <2>2, <4>1, <5>2 DEF Progresses
        <5> QED BY <2>3, <4>3, <4>4, <5>1, <5>3, RestsLess
      <4> QED BY <4>5
    <3> QED BY <3>1, <3>2
  <2> QED BY <2>3, <2>4 DEF f
<1> HIDE DEF Fine
<1>5. T = {}
  <2> SUFFICES ASSUME T # {} PROVE FALSE
    OBVIOUS
  <2>1. T \subseteq Nat
    OBVIOUS
  <2> DEFINE n == Least(T)
  <2>2. n \in T /\ \A m \in T : n <= m
    <3> HIDE DEF T
    <3> QED BY <2>1, LeastElement
  <2> HIDE DEF n
  <2>3. n \in 1 .. N /\ n - 1 \in 0 .. N /\ ~(n <= n - 1)
    BY <1>1, <1>3, <2>2
  <2>4. Fine(n - 1, after[n - 1])
    BY <2>2, <2>3
  <2> QED BY <1>4, <2>2, <2>3, <2>4
<1>6. Fine(N, after[N])
  BY <1>1, <1>5
<1>7. ASSUME NEW u \in Uris, NEW s \in Servers, Watched(u, s)
      PROVE  \E k \in 1 .. N : list[k] = u
  <2>1. watcherList[u] # << >>
    BY <1>7 DEF Watched, Range, Ready, ListsInv
  <2> QED BY <1>1, <2>1 DEF Ready, ListsInv, Range
<1> QED BY <1>2, <1>6, <1>7 DEF Fine, Watched

------------------------------------------------------------------------------
\* The invariant, action by action.

\* A new watcher.
LEMMA NewWatcherTypes ==
  /\ NewWatcher \in Watchers /\ NewWatcher.parameters = NoParameters
  /\ NewWatcher.active = FALSE /\ NoParameters.toSet = {} /\ NoParameters.given = FALSE
<1>1. NoParameters \in Parameters /\ NoParameters.toSet = {} /\ NoParameters.given = FALSE
  BY DEF NoParameters, Parameters
<1>2. 0 \in Mids /\ 0 \in 0 .. MaxAge
  BY ObserveAssumption DEF Mids
<1> HIDE DEF NoParameters
<1> QED BY <1>1, <1>2 DEF NewWatcher, Watchers, Formats

\* A watcher is unlinked.
Removes(u, s) ==
  /\ watcher' = [watcher EXCEPT ![u][s] = NewWatcher]
  /\ known' = [known EXCEPT ![u][s] = NoValue]
  /\ \A v \in Uris, t \in Servers : Watched(v, t)' <=> Watched(v, t) /\ ~(v = u /\ t = s)

\* What a cancellation or a reset does.
LEMMA CancelMoves ==
  ASSUME ListsInv, NEW s \in Servers,
         (\E u \in Uris : Cancel(u, s)) \/ (\E mid \in Mids : Reset(s, mid))
  PROVE  /\ ListsInv'
         /\ UNCHANGED <<watcherList, watcher, known>> \/ \E u \in Uris : Removes(u, s)
         /\ UNCHANGED <<nextMID, value, silent, undefined>>
         /\ timeout' = 0 /\ ~complete' /\ complete' \in BOOLEAN
         /\ phase' = "step" /\ requests < MaxRequests /\ requests' = requests + 1
<1>1. ASSUME NEW mid, ObserveCancel(mid, s)
      PROVE  /\ ListsInv'
             /\ UNCHANGED <<watcherList, watcher, known>> \/ \E u \in Uris : Removes(u, s)
  <2>1. CASE Found(mid, s) = {}
    BY <1>1, <2>1 DEF ObserveCancel, ListsInv
  <2>2. CASE Found(mid, s) # {}
    BY <1>1, <2>2, CancelsOne DEF Removes
  <2> QED BY <2>1, <2>2
<1>2. ASSUME NEW u \in Uris, Cancel(u, s)
      PROVE  /\ ListsInv'
             /\ UNCHANGED <<watcherList, watcher, known>> \/ \E v \in Uris : Removes(v, s)
  <2>1. CASE Watched(u, s)
    BY <1>1, <1>2, <2>1 DEF Cancel
  <2>2. CASE ~Watched(u, s)
    BY <1>2, <2>2 DEF Cancel, ListsInv
  <2> QED BY <2>1, <2>2
<1>3. ASSUME NEW mid \in Mids, Reset(s, mid)
      PROVE  /\ ListsInv'
             /\ UNCHANGED <<watcherList, watcher, known>> \/ \E v \in Uris : Removes(v, s)
  BY <1>1, <1>3 DEF Reset
<1>4. /\ UNCHANGED <<nextMID, value, silent, undefined>>
      /\ timeout' = 0 /\ ~complete' /\ complete' \in BOOLEAN
      /\ phase' = "step" /\ requests < MaxRequests /\ requests' = requests + 1
  BY DEF Cancel, Reset, Requested, Handled
<1> QED BY <1>2, <1>3, <1>4

\* What observe_step does.
LEMMA StepMoves ==
  ASSUME IInv, ObserveStep
  PROVE  /\ UNCHANGED <<observedList, watcherList, value, requests, silent>>
         /\ \/ /\ undefined' = TRUE /\ phase' = "step"
               /\ UNCHANGED <<watcher, nextMID, timeout, known, complete>> /\ ~complete'
            \/ /\ UNCHANGED undefined /\ phase' = "wait" /\ complete' = TRUE
               /\ ~FollowsNull /\ Ready
               /\ watcher' = AfterTargets.watcher /\ nextMID' = AfterTargets.nextMID
               /\ known' = AfterTargets.known /\ timeout' = AfterTargets.timeout
<1>1. ASSUME ~FollowsNull PROVE Ready
  <2>1. ASSUME NEW u \in Uris, NEW s \in Servers PROVE Sane(u, watcher[u][s])
    BY <1>1, <2>1 DEF IInv, PeriodsInv, FollowsNull, Sane
  <2> QED BY <2>1 DEF IInv, WatchersInv, Ready
<1>2. ~complete
  BY DEF ObserveStep, IInv, SleepInv
<1> QED BY <1>1, <1>2 DEF ObserveStep

\* The lists stay lists without repetitions.
LEMMA ListsInvariant == IInv /\ [Next]_vars => ListsInv'
<1> SUFFICES ASSUME IInv, [Next]_vars PROVE ListsInv'
  OBVIOUS
<1>0. ListsInv
  BY DEF IInv
<1>1. ASSUME NEW u \in Uris, NEW s \in Servers, GetWatcher(u, s) PROVE ListsInv'
  BY <1>0, <1>1, GetsWatcher
<1>2. ASSUME NEW s \in Servers, DeleteInstance(s) PROVE ListsInv'
  BY <1>2 DEF DeleteInstance, ListsInv, IsInjective, Range
<1>3. CASE UNCHANGED <<observedList, watcherList>>
  BY <1>0, <1>3 DEF ListsInv
<1> QED BY <1>0, <1>1, <1>2, <1>3, CancelMoves
        DEF Next, vars, codeVars, Observe, SetParameters, ServerWrites, ValueChanged,
            UpdateMemoryFree, ObserveStep, EarlyReturn, Tick

\* The parameters a query makes.
LEMMA UpdatedTypes ==
  ASSUME NEW p \in Parameters, NEW q \in Queries, ~p.given => p = NoParameters
  PROVE  LET new == Updated(p, q) IN
         /\ new \in Parameters /\ (~new.given => new = NoParameters)
         /\ \/ new = p
            \/ /\ \/ new.toSet = p.toSet \ q.clear
                  \/ new.toSet = DOMAIN q.set /\ p = NoParameters
               /\ \A a \in Attributes : new.val[a] = Proposed(p, q, a)
<1>1. /\ DOMAIN q.set \subseteq Attributes
      /\ \A a \in DOMAIN q.set : q.set[a] \in Int
  BY ObserveAssumption
<1> DEFINE val == [a \in Attributes |-> Proposed(p, q, a)]
<1>2. val \in [Attributes -> Int]
  BY <1>1 DEF Proposed, Parameters
<1>3. p.given \in BOOLEAN /\ p.toSet \subseteq Attributes
  BY DEF Parameters
<1>4. CASE p.given
  <2> DEFINE new == [p EXCEPT !.toSet = @ \ q.clear, !.val = val]
  <2>1. Updated(p, q) = new
    BY <1>4 DEF Updated
  <2>2. new \in Parameters /\ new.given /\ new.toSet = p.toSet \ q.clear /\ new.val = val
    BY <1>2, <1>3, <1>4 DEF Parameters
  <2> QED BY <2>1, <2>2
<1>5. CASE ~p.given /\ DOMAIN q.set # {}
  <2> DEFINE new == [given |-> TRUE, toSet |-> DOMAIN q.set, val |-> val]
  <2>1. p = NoParameters
    BY <1>5
  <2>2. Updated(p, q) = new
    BY <1>5, <2>1 DEF Updated
  <2>3. new \in Parameters /\ new.given /\ new.toSet = DOMAIN q.set /\ new.val = val
    BY <1>1, <1>2 DEF Parameters
  <2> QED BY <2>1, <2>2, <2>3
<1>6. CASE ~p.given /\ DOMAIN q.set = {}
  <2>1. Updated(p, q) = p
    BY <1>6 DEF Updated
  <2> QED BY <1>6, <2>1
<1> QED BY <1>4, <1>5, <1>6

\* How the parameters of a watcher change: by a query that keeps the rule, or
\* with the watcher.
LEMMA ParametersMove ==
  ASSUME IInv, [Next]_vars, NEW u \in Uris, NEW s \in Servers
  PROVE  LET p == watcher[u][s].parameters  new == watcher'[u][s].parameters IN
         \/ new = p
         \/ new = NoParameters
         \/ \E q \in Queries : ~BreaksRule(p, q) /\ new = Updated(p, q)
<1> DEFINE p == watcher[u][s].parameters
           new == watcher'[u][s].parameters
           Goal == \/ new = p
                   \/ new = NoParameters
                   \/ \E q \in Queries : ~BreaksRule(p, q) /\ new = Updated(p, q)
<1>0. watcher \in [Uris -> [Servers -> Watchers]] /\ NewWatcher.parameters = NoParameters
  BY NewWatcherTypes DEF IInv, WatchersInv
<1>1. ASSUME NEW v \in Uris, NEW t \in Servers, NEW f \in Formats, Observe(v, t, f) PROVE Goal
  <2>1. new = p
    BY <1>0, <1>1 DEF Observe, Answered, Watchers
  <2> QED BY <2>1
<1>2. ASSUME NEW v \in Uris, NEW t \in Servers, Removes(v, t) PROVE Goal
  BY <1>0, <1>2 DEF Removes
<1>3. ASSUME NEW v \in Uris, NEW t \in Servers, NEW q \in Queries, SetParameters(v, t, q)
      PROVE  Goal
  <2>1. CASE BreaksRule(watcher[v][t].parameters, q)
    BY <1>3, <2>1 DEF SetParameters
  <2>2. CASE ~BreaksRule(watcher[v][t].parameters, q)
    <3>1. watcher' = [watcher EXCEPT ![v][t].parameters = Updated(watcher[v][t].parameters, q)]
      BY <1>3, <2>2 DEF SetParameters
    <3>2. CASE u = v /\ s = t
      <4>1. new = Updated(p, q)
        BY <1>0, <3>1, <3>2 DEF Watchers
      <4> QED BY <2>2, <3>2, <4>1
    <3>3. CASE ~(u = v /\ s = t)
      <4>1. new = p
        BY <1>0, <3>1, <3>3
      <4> QED BY <4>1
    <3> QED BY <3>2, <3>3
  <2> QED BY <2>1, <2>2
<1>4. ASSUME NEW t \in Servers, DeleteInstance(t) PROVE Goal
  BY <1>0, <1>4 DEF DeleteInstance
<1>5. ASSUME NEW v \in Values, ValueChanged(v) PROVE Goal
  BY <1>0, <1>5 DEF ValueChanged, Tagged, Watchers
<1>6. ASSUME ObserveStep PROVE Goal
  <2>1. CASE UNCHANGED watcher
    BY <2>1
  <2>2. CASE Ready /\ watcher' = AfterTargets.watcher
    <3>1. Came(AfterTargets) /\ value \in Values
      BY <2>2, TargetsVisited DEF Ready, OtherTypes
    <3>2. ASSUME NEW mid \in Mids, watcher'[u][s] = Notified(watcher[u][s], u, mid) PROVE new = p
      <4> DEFINE w == watcher[u][s]
      <4>1. w \in Watchers
        BY <1>0
      <4> HIDE DEF w
      <4>2. Notified(w, u, mid).parameters = w.parameters
        BY <3>1, <4>1, NotifiedTypes
      <4> QED BY <3>2, <4>2 DEF w
    <3> QED BY <2>2, <3>1, <3>2 DEF Came
  <2> QED BY <1>6, <2>1, <2>2, StepMoves
<1>7. ASSUME Tick PROVE Goal
  BY <1>0, <1>7 DEF Tick, Watchers
<1>8. ASSUME UNCHANGED watcher PROVE Goal
  BY <1>8
<1> HIDE DEF Goal
<1>9. ASSUME NEW t \in Servers, \/ \E v \in Uris : Cancel(v, t)
                               \/ \E mid \in Mids : Reset(t, mid)
      PROVE  Goal
  <2>1. ListsInv
    BY DEF IInv
  <2>2. UNCHANGED watcher \/ \E v \in Uris : Removes(v, t)
    BY <1>9, <2>1, CancelMoves
  <2> QED BY <1>2, <1>8, <2>2
<1>10. ASSUME NEW t \in Servers, NEW v \in Values, ServerWrites(t, v) PROVE Goal
  BY <1>8, <1>10 DEF ServerWrites
<1>11. ASSUME UNCHANGED vars PROVE Goal
  BY <1>8, <1>11 DEF vars, codeVars
<1>12. ASSUME NEW v \in Values, UpdateMemoryFree(v) PROVE Goal
  BY <1>8, <1>12 DEF UpdateMemoryFree
<1>13. ASSUME EarlyReturn PROVE Goal
  BY <1>8, <1>13 DEF EarlyReturn
<1>14. Goal
  BY <1>1, <1>3, <1>4, <1>5, <1>6, <1>7, <1>9, <1>10, <1>11, <1>12, <1>13 DEF Next
<1> QED BY <1>14 DEF Goal

\* Periods in force stay positive.
LEMMA PeriodsInvariant == IInv /\ [Next]_vars => PeriodsInv'
<1> SUFFICES ASSUME IInv, [Next]_vars, NEW u \in Uris, NEW s \in Servers,
                    NEW a \in {"pmin", "pmax"}, a \in watcher'[u][s].parameters.toSet
             PROVE  watcher'[u][s].parameters.val[a] > 0
  BY DEF PeriodsInv
<1> DEFINE p == watcher[u][s].parameters
           new == watcher'[u][s].parameters
<1>1. /\ p \in Parameters /\ (~p.given => p = NoParameters)
      /\ a \in p.toSet => p.val[a] > 0
  BY DEF IInv, WatchersInv, Watchers, PeriodsInv
<1>2. NoParameters.toSet = {} /\ a \in Attributes
  BY NewWatcherTypes DEF Attributes
<1>3. \/ new = p
      \/ new = NoParameters
      \/ \E q \in Queries : ~BreaksRule(p, q) /\ new = Updated(p, q)
  BY ParametersMove
<1>4. a \in new.toSet
  OBVIOUS
<1> HIDE DEF p, new
<1>5. ASSUME NEW q \in Queries, new = Updated(p, q) PROVE new.val[a] > 0
  <2>1. CASE new = p
    BY <1>1, <1>4, <2>1
  <2>2. CASE /\ \/ new.toSet = p.toSet \ q.clear
                \/ new.toSet = DOMAIN q.set /\ p = NoParameters
             /\ \A b \in Attributes : new.val[b] = Proposed(p, q, b)
    <3>1. new.val[a] = Proposed(p, q, a)
      BY <1>2, <2>2
    <3>2. a \in DOMAIN q.set => q.set[a] \in 1 .. MaxAge
      BY ObserveAssumption
    <3>3. a \in DOMAIN q.set => q.set[a] > 0
      BY <3>2, ObserveAssumption
    <3>4. a \notin DOMAIN q.set => a \in p.toSet
      BY <1>4, <2>2
    <3> QED BY <1>1, <3>1, <3>3, <3>4 DEF Proposed
  <2> QED BY <1>1, <1>5, <2>1, <2>2, UpdatedTypes
<1>6. new.val[a] > 0
  BY <1>1, <1>2, <1>3, <1>4, <1>5
<1> QED BY <1>6 DEF new

\* The rule is kept by every query.
LEMMA RuleInvariant == IInv /\ [Next]_vars => RuleKept'
<1> SUFFICES ASSUME IInv, [Next]_vars, NEW u \in Uris, NEW s \in Servers,
                    Numeric \subseteq watcher'[u][s].parameters.toSet
             PROVE  LET p == watcher'[u][s].parameters IN
                      p.val["lt"] + 2 * p.val["st"] < p.val["gt"]
  BY DEF RuleKept
<1> DEFINE p == watcher[u][s].parameters
           new == watcher'[u][s].parameters
<1>1. /\ p \in Parameters /\ (~p.given => p = NoParameters)
      /\ Numeric \subseteq p.toSet => p.val["lt"] + 2 * p.val["st"] < p.val["gt"]
  BY DEF IInv, WatchersInv, Watchers, RuleKept
<1>2. NoParameters.toSet = {} /\ Numeric \subseteq Attributes /\ Numeric # {}
  BY NewWatcherTypes DEF Attributes, Numeric
<1>3. \/ new = p
      \/ new = NoParameters
      \/ \E q \in Queries : ~BreaksRule(p, q) /\ new = Updated(p, q)
  BY ParametersMove
<1>4. Numeric \subseteq new.toSet
  OBVIOUS
<1> HIDE DEF p, new
<1>5. ASSUME NEW q \in Queries, ~BreaksRule(p, q), new = Updated(p, q), new # p
      PROVE  new.val["lt"] + 2 * new.val["st"] < new.val["gt"]
  <2>1. /\ \/ new.toSet = p.toSet \ q.clear
           \/ new.toSet = DOMAIN q.set /\ p = NoParameters
        /\ \A b \in Attributes : new.val[b] = Proposed(p, q, b)
        /\ new \in Parameters
    BY <1>1, <1>5, UpdatedTypes
  <2>2. Numeric \subseteq (DOMAIN q.set \cup p.toSet) \ q.clear
    <3>1. q.clear \cap DOMAIN q.set = {}
      BY ObserveAssumption
    <3> QED BY <1>4, <2>1, <3>1
  <2>3. ~(Proposed(p, q, "lt") + 2 * Proposed(p, q, "st") >= Proposed(p, q, "gt"))
    BY <1>5, <2>2 DEF BreaksRule
  <2>4. \A b \in Numeric : new.val[b] = Proposed(p, q, b) /\ new.val[b] \in Int
    BY <1>2, <2>1 DEF Parameters
  <2> QED BY <2>3, <2>4 DEF Numeric
<1>6. new.val["lt"] + 2 * new.val["st"] < new.val["gt"]
  BY <1>1, <1>2, <1>3, <1>4, <1>5
<1> QED BY <1>6 DEF new

\* A watcher whose observation was asked for.
LEMMA AnsweredTypes ==
  ASSUME value \in Values, NEW w \in Watchers, NEW u \in Uris, NEW f \in Formats, NEW mid \in Mids
  PROVE  LET new == Answered(w, u, f, mid) IN
         /\ new \in Watchers /\ new.parameters = w.parameters
         /\ new.active = TRUE /\ new.update = w.update
         /\ new.format = IF u = "res" THEN f ELSE "tlv"
         /\ new.lastValue = IF u = "res" THEN value ELSE w.lastValue
<1>1. /\ 0 \in 0 .. MaxAge /\ (IF u = "res" THEN value ELSE w.lastValue) \in Int
      /\ (IF u = "res" THEN f ELSE "tlv") \in Formats
  BY ObserveAssumption DEF Watchers, Formats
<1> QED BY <1>1 DEF Answered, Watchers

\* What a cancellation or a reset does to one watcher.
LEMMA CancelKeeps ==
  ASSUME IInv, NEW t \in Servers,
         (\E v \in Uris : Cancel(v, t)) \/ (\E mid \in Mids : Reset(t, mid)),
         NEW u \in Uris, NEW s \in Servers
  PROVE  \/ /\ watcher'[u][s] = watcher[u][s] /\ known'[u][s] = known[u][s]
            /\ Watched(u, s)' <=> Watched(u, s)
         \/ watcher'[u][s] = NewWatcher
<1>1. UNCHANGED <<watcherList, watcher, known>> \/ \E v \in Uris : Removes(v, t)
  BY CancelMoves DEF IInv
<1>2. /\ watcher \in [Uris -> [Servers -> Watchers]]
      /\ known \in [Uris -> [Servers -> Values \cup {NoValue}]]
  BY DEF IInv, WatchersInv, OtherTypes
<1>3. CASE UNCHANGED <<watcherList, watcher, known>>
  BY <1>3 DEF Watched
<1>4. ASSUME NEW v \in Uris, Removes(v, t)
      PROVE  \/ /\ watcher'[u][s] = watcher[u][s] /\ known'[u][s] = known[u][s]
                /\ Watched(u, s)' <=> Watched(u, s)
             \/ watcher'[u][s] = NewWatcher
  BY <1>2, <1>4 DEF Removes
<1> QED BY <1>1, <1>3, <1>4

\* Every watcher stays one, or is new.
LEMMA WatchersInvariant == IInv /\ [Next]_vars => WatchersInv'
<1> SUFFICES ASSUME IInv, [Next]_vars PROVE WatchersInv'
  OBVIOUS
<1> DEFINE Kept(u, s) ==
             /\ watcher'[u][s] \in Watchers
             /\ ~watcher'[u][s].parameters.given => watcher'[u][s].parameters = NoParameters
             /\ ~Watched(u, s)' => watcher'[u][s] = NewWatcher
<1>0. /\ ListsInv /\ value \in Values /\ Values \subseteq Int
      /\ watcher \in [Uris -> [Servers -> Watchers]]
      /\ \A u \in Uris, s \in Servers :
           /\ ~watcher[u][s].parameters.given => watcher[u][s].parameters = NoParameters
           /\ ~Watched(u, s) => watcher[u][s] = NewWatcher
  BY ObserveAssumption DEF IInv, WatchersInv, OtherTypes
<1>1. /\ NewWatcher \in Watchers /\ NewWatcher.parameters = NoParameters
      /\ NewWatcher.active = FALSE
  BY NewWatcherTypes
<1>2. ASSUME watcher' = [u \in Uris |-> watcher'[u]],
             \A u \in Uris : watcher'[u] = [s \in Servers |-> watcher'[u][s]],
             \A u \in Uris, s \in Servers : Kept(u, s)
      PROVE  WatchersInv'
  <2>1. \A u \in Uris : watcher'[u] \in [Servers -> Watchers]
    BY <1>2
  <2>2. watcher' \in [Uris -> [Servers -> Watchers]]
    <3> HIDE DEF Kept
    <3> QED BY <1>2, <2>1
  <2> QED BY <1>2, <2>2 DEF WatchersInv
<1>3. ASSUME NEW v \in Uris, NEW t \in Servers, NEW f \in Formats, Observe(v, t, f)
      PROVE  WatchersInv'
  <2>1. \A u \in Uris, s \in Servers : Watched(u, s)' <=> Watched(u, s) \/ (u = v /\ s = t)
    BY <1>0, <1>3, GetsWatcher DEF Observe
  <2>2. PICK mid \in Mids :
          watcher' = [watcher EXCEPT ![v][t] = Answered(watcher[v][t], v, f, mid)]
    BY <1>3 DEF Observe
  <2> DEFINE w == watcher[v][t]
             new == Answered(w, v, f, mid)
  <2>3. watcher' = [watcher EXCEPT ![v][t] = new]
    BY <2>2
  <2>4. w \in Watchers
    BY <1>0
  <2>5. new \in Watchers /\ new.parameters = w.parameters
    <3> HIDE DEF w
    <3> QED BY <1>0, <2>4, AnsweredTypes
  <2> HIDE DEF new
  <2>6. watcher' \in [Uris -> [Servers -> Watchers]]
    BY <1>0, <2>3, <2>5
  <2>7. ASSUME NEW u \in Uris, NEW s \in Servers PROVE Kept(u, s)
    <3>1. CASE u = v /\ s = t
      BY <1>0, <2>1, <2>3, <2>5, <3>1
    <3>2. CASE ~(u = v /\ s = t)
      <4>1. watcher'[u][s] = watcher[u][s]
        BY <1>0, <2>3, <3>2
      <4> QED BY <1>0, <2>1, <3>2, <4>1
    <3> QED BY <3>1, <3>2
  <2> QED BY <2>6, <2>7 DEF WatchersInv
<1>4. ASSUME NEW t \in Servers, \/ \E v \in Uris : Cancel(v, t)
                               \/ \E mid \in Mids : Reset(t, mid)
      PROVE  WatchersInv'
  <2>1. UNCHANGED watcher \/ \E v \in Uris : watcher' = [watcher EXCEPT ![v][t] = NewWatcher]
    BY <1>0, <1>4, CancelMoves DEF Removes
  <2>2. watcher' \in [Uris -> [Servers -> Watchers]]
    <3>1. ASSUME NEW v \in Uris
          PROVE  [watcher EXCEPT ![v][t] = NewWatcher] \in [Uris -> [Servers -> Watchers]]
      BY <1>0, <1>1
    <3> QED BY <1>0, <2>1, <3>1
  <2>3. ASSUME NEW u \in Uris, NEW s \in Servers PROVE Kept(u, s)
    BY <1>0, <1>1, <1>4, CancelKeeps
  <2> QED BY <2>2, <2>3 DEF WatchersInv
<1>5. ASSUME NEW v \in Uris, NEW t \in Servers, NEW q \in Queries, SetParameters(v, t, q)
      PROVE  WatchersInv'
  <2>1. \A u \in Uris, s \in Servers : Watched(u, s)' <=> Watched(u, s) \/ (u = v /\ s = t)
    BY <1>0, <1>5, GetsWatcher DEF SetParameters
  <2>2. CASE UNCHANGED watcher
    BY <1>0, <2>1, <2>2 DEF WatchersInv
  <2>3. CASE watcher' = [watcher EXCEPT ![v][t].parameters = Updated(watcher[v][t].parameters, q)]
    <3> DEFINE w == watcher[v][t]
               p == Updated(w.parameters, q)
               new == [w EXCEPT !.parameters = p]
    <3>1. w \in Watchers /\ w.parameters \in Parameters
      BY <1>0 DEF Watchers
    <3>2. p \in Parameters /\ (~p.given => p = NoParameters)
      BY <1>0, <3>1, UpdatedTypes
    <3>3. watcher' = [watcher EXCEPT ![v][t] = new]
      BY <1>0, <2>3
    <3> HIDE DEF w, p
    <3>4. new \in Watchers /\ new.parameters = p
      BY <3>1, <3>2 DEF Watchers
    <3> HIDE DEF new
    <3>5. watcher' \in [Uris -> [Servers -> Watchers]]
      BY <1>0, <3>3, <3>4
    <3>6. ASSUME NEW u \in Uris, NEW s \in Servers PROVE Kept(u, s)
      <4>1. CASE u = v /\ s = t
        BY <1>0, <2>1, <3>2, <3>3, <3>4, <4>1
      <4>2. CASE ~(u = v /\ s = t)
        <5>1. watcher'[u][s] = watcher[u][s]
          BY <1>0, <3>3, <4>2
        <5> QED BY <1>0, <2>1, <4>2, <5>1
      <4> QED BY <4>1, <4>2
    <3> QED BY <3>5, <3>6 DEF WatchersInv
  <2> QED BY <1>5, <2>2, <2>3 DEF SetParameters
<1>6. ASSUME NEW t \in Servers, DeleteInstance(t) PROVE WatchersInv'
  BY <1>1, <1>6 DEF DeleteInstance, WatchersInv
<1>7. ASSUME NEW v \in Values, ValueChanged(v) PROVE WatchersInv'
  <2>1. ASSUME NEW u \in Uris, NEW s \in Servers PROVE Kept(u, s)
    <3> DEFINE w == watcher[u][s]
               new == [w EXCEPT !.update = @ \/ w.active]
    <3>1. watcher'[u][s] = new /\ (Watched(u, s)' <=> Watched(u, s))
      BY <1>7 DEF ValueChanged, Tagged, Watched
    <3>2. w \in Watchers
      BY <1>0
    <3>3. ~w.active => w.update \/ w.active = w.update
      BY <3>2 DEF Watchers
    <3> HIDE DEF w
    <3>4. new \in Watchers /\ new.parameters = w.parameters /\ (~w.active => new = w)
      BY <3>2 DEF Watchers
    <3> HIDE DEF new
    <3> QED BY <1>0, <1>1, <3>1, <3>4 DEF w
  <2> HIDE DEF Kept
  <2> QED BY <1>2, <1>7, <2>1 DEF ValueChanged, Tagged
<1>8. CASE ObserveStep
  <2>1. UNCHANGED watcherList
    BY <1>8, StepMoves
  <2>2. CASE UNCHANGED watcher
    BY <1>0, <2>1, <2>2 DEF WatchersInv, Watched
  <2>3. CASE Ready /\ watcher' = AfterTargets.watcher
    <3>1. AfterTargets \in Progresses /\ Came(AfterTargets)
      BY <2>3, TargetsVisited
    <3>2. watcher' \in [Uris -> [Servers -> Watchers]]
      BY <2>3, <3>1 DEF Progresses
    <3>3. ASSUME NEW u \in Uris, NEW s \in Servers PROVE Kept(u, s)
      <4> DEFINE w == watcher[u][s]
      <4>1. w \in Watchers /\ watcher'[u][s] \in Watchers
        BY <1>0, <3>2
      <4>2. CASE watcher'[u][s] = w
        BY <1>0, <2>1, <4>1, <4>2 DEF Watched
      <4>3. ASSUME Watched(u, s), NEW mid \in Mids, watcher'[u][s] = Notified(w, u, mid)
            PROVE  Kept(u, s)
        <5>1. Watched(u, s)'
          BY <2>1, <4>3 DEF Watched
        <5>2. watcher'[u][s].parameters = w.parameters
          <6> HIDE DEF w
          <6>1. Notified(w, u, mid).parameters = w.parameters
            BY <1>0, <4>1, NotifiedTypes
          <6> QED BY <4>3, <6>1
        <5> QED BY <1>0, <4>1, <5>1, <5>2
      <4> HIDE DEF Kept
      <4> QED BY <2>3, <3>1, <4>2, <4>3 DEF Came
    <3> QED BY <3>2, <3>3 DEF WatchersInv
  <2> QED BY <1>8, <2>2, <2>3, StepMoves
<1>9. CASE Tick
  <2>1. ASSUME NEW u \in Uris, NEW s \in Servers PROVE Kept(u, s)
    <3> DEFINE w == watcher[u][s]
               age == IF Watched(u, s) /\ w.active THEN Least({w.age + 1, MaxAge}) ELSE w.age
               new == [w EXCEPT !.age = age]
    <3>1. watcher'[u][s] = new /\ (Watched(u, s)' <=> Watched(u, s))
      BY <1>9 DEF Tick, Watched
    <3>2. w \in Watchers
      BY <1>0
    <3>3. age \in 0 .. MaxAge
      <4>1. w.age \in 0 .. MaxAge /\ MaxAge \in Nat
        BY <3>2, ObserveAssumption DEF Watchers
      <4> DEFINE older == w.age + 1
                 least == Least({older, MaxAge})
      <4>2. older \in Nat
        BY <4>1
      <4> HIDE DEF older
      <4>3. least \in {older, MaxAge} /\ least <= MaxAge
        <5>1. {older, MaxAge} = {older} \cup {MaxAge}
          OBVIOUS
        <5>2. older \in Int /\ MaxAge \in Int
          BY <4>1, <4>2
        <5>3. /\ Least({older} \cup {MaxAge}) \in {older, MaxAge}
              /\ Least({older} \cup {MaxAge}) <= MaxAge
          BY <5>2, LeastOfTwo
        <5> QED BY <5>1, <5>3
      <4> HIDE DEF least
      <4>4. least \in 0 .. MaxAge
        BY <4>1, <4>2, <4>3
      <4> QED BY <4>1, <4>4 DEF least, older
    <3>4. new \in Watchers /\ new.parameters = w.parameters /\ (age = w.age => new = w)
      <4> HIDE DEF w, age
      <4> QED BY <3>2, <3>3 DEF Watchers
    <3>5. ~Watched(u, s) => age = w.age
      OBVIOUS
    <3> HIDE DEF new, age
    <3> QED BY <1>0, <1>1, <3>1, <3>4, <3>5
  <2> HIDE DEF Kept
  <2> QED BY <1>2, <1>9, <2>1 DEF Tick
<1>10. CASE UNCHANGED <<watcher, watcherList>>
  BY <1>0, <1>10 DEF WatchersInv, Watched
<1>11. ASSUME \/ \E t \in Servers, v \in Values : ServerWrites(t, v)
              \/ \E v \in Values : UpdateMemoryFree(v)
              \/ EarlyReturn
       PROVE  WatchersInv'
  BY <1>10, <1>11 DEF ServerWrites, UpdateMemoryFree, EarlyReturn
<1>12. CASE UNCHANGED vars
  BY <1>10, <1>12 DEF vars, codeVars
<1> HIDE DEF Kept
<1> QED BY <1>3, <1>4, <1>5, <1>6, <1>7, <1>8, <1>9, <1>11, <1>12 DEF Next

\* What the visits do to one watcher, and to what its server knows.
LEMMA StepKeeps ==
  ASSUME IInv, ObserveStep, NEW u \in Uris, NEW s \in Servers
  PROVE  \/ watcher'[u][s] = watcher[u][s] /\ known'[u][s] = known[u][s]
         \/ /\ watcher'[u][s].parameters = watcher[u][s].parameters
            /\ watcher'[u][s].active = watcher[u][s].active
            /\ watcher'[u][s].format = watcher[u][s].format
            /\ u = "res" => watcher'[u][s].lastValue = value
            /\ known'[u][s] = value
<1> DEFINE w == watcher[u][s]
           Goal == \/ watcher'[u][s] = w /\ known'[u][s] = known[u][s]
                   \/ /\ watcher'[u][s].parameters = w.parameters
                      /\ watcher'[u][s].active = w.active
                      /\ watcher'[u][s].format = w.format
                      /\ u = "res" => watcher'[u][s].lastValue = value
                      /\ known'[u][s] = value
<1>1. w \in Watchers /\ value \in Values
  BY DEF IInv, WatchersInv, OtherTypes
<1>2. ASSUME UNCHANGED <<watcher, known>> PROVE Goal
  BY <1>2
<1>3. ASSUME Ready, watcher' = AfterTargets.watcher, known' = AfterTargets.known PROVE Goal
  <2>1. Came(AfterTargets)
    BY <1>3, TargetsVisited
  <2>2. \/ watcher'[u][s] = w /\ known'[u][s] = known[u][s]
        \/ /\ \E mid \in Mids : watcher'[u][s] = Notified(w, u, mid)
           /\ known'[u][s] = value
    BY <1>3, <2>1 DEF Came
  <2>3. ASSUME NEW mid \in Mids, watcher'[u][s] = Notified(w, u, mid), known'[u][s] = value
        PROVE  Goal
    <3> HIDE DEF w
    <3>1. /\ Notified(w, u, mid).parameters = w.parameters
          /\ Notified(w, u, mid).active = w.active /\ Notified(w, u, mid).format = w.format
          /\ Notified(w, u, mid).lastValue = IF u = "res" THEN value ELSE w.lastValue
      BY <1>1, NotifiedTypes
    <3> QED BY <2>3, <3>1
  <2> QED BY <2>2, <2>3
<1> HIDE DEF Goal
<1>4. Goal
  BY <1>2, <1>3, StepMoves
<1> QED BY <1>4 DEF Goal

\* The other variables keep their types.
LEMMA TypesInvariant == IInv /\ [Next]_vars => OtherTypes'
<1> SUFFICES ASSUME IInv, [Next]_vars PROVE OtherTypes'
  OBVIOUS
<1>0. OtherTypes /\ ListsInv
  BY DEF IInv
<1>1. requests < MaxRequests => requests + 1 \in 0 .. MaxRequests
  BY <1>0, ObserveAssumption DEF OtherTypes
<1>2. (nextMID + 1) % MidSpace \in Mids
  <2>1. MidSpace \in Nat /\ MidSpace > 0 /\ nextMID + 1 \in Nat
    BY <1>0, ObserveAssumption DEF OtherTypes, Mids
  <2>2. \A n \in Nat : n % MidSpace \in 0 .. MidSpace - 1
    BY <2>1
  <2> QED BY <2>1, <2>2 DEF Mids
<1>3. 0 \in 0 .. Sleep /\ Sleep \in 0 .. Sleep
  BY ObserveAssumption
<1>4. ASSUME NEW u \in Uris, NEW s \in Servers, NEW f \in Formats, Observe(u, s, f)
      PROVE  OtherTypes'
  <2>1. known' \in [Uris -> [Servers -> Values \cup {NoValue}]]
    <3>1. [known EXCEPT ![u][s] = value] \in [Uris -> [Servers -> Values \cup {NoValue}]]
      BY <1>0 DEF OtherTypes
    <3> QED BY <1>0, <1>4, <3>1 DEF Observe, OtherTypes
  <2>2. nextMID' \in Mids
    BY <1>0, <1>2, <1>4 DEF Observe, OtherTypes
  <2> QED BY <1>0, <1>1, <1>4, <2>1, <2>2, <1>3
          DEF Observe, Requested, Handled, OtherTypes
<1>5. ASSUME NEW t \in Servers, \/ \E v \in Uris : Cancel(v, t)
                               \/ \E mid \in Mids : Reset(t, mid)
      PROVE  OtherTypes'
  <2>1. /\ UNCHANGED <<nextMID, value, silent, undefined>>
        /\ timeout' = 0 /\ complete' \in BOOLEAN
        /\ phase' = "step" /\ requests < MaxRequests /\ requests' = requests + 1
        /\ UNCHANGED known \/ \E u \in Uris : Removes(u, t)
    BY <1>0, <1>5, CancelMoves
  <2>2. known' \in [Uris -> [Servers -> Values \cup {NoValue}]]
    BY <1>0, <2>1 DEF OtherTypes, Removes
  <2> QED BY <1>0, <1>1, <2>1, <2>2, <1>3 DEF OtherTypes
<1>6. ASSUME NEW u \in Uris, NEW s \in Servers, NEW q \in Queries, SetParameters(u, s, q)
      PROVE  OtherTypes'
  BY <1>0, <1>1, <1>6, <1>3 DEF SetParameters, Requested, Handled, OtherTypes
<1>7. ASSUME NEW s \in Servers, DeleteInstance(s) PROVE OtherTypes'
  BY <1>0, <1>1, <1>7, <1>3 DEF DeleteInstance, Requested, Handled, OtherTypes
<1>8. ASSUME NEW v \in Values, ValueChanged(v) PROVE OtherTypes'
  BY <1>0, <1>8, <1>3 DEF ValueChanged, Handled, OtherTypes
<1>9. CASE ObserveStep
  <2>1. ASSUME Ready PROVE /\ AfterTargets.known \in [Uris -> [Servers -> Values \cup {NoValue}]]
                           /\ AfterTargets.nextMID \in Mids /\ AfterTargets.timeout \in 0 .. Sleep
    BY <2>1, TargetsVisited, ObserveAssumption DEF Progresses
  <2> QED BY <1>0, <1>9, <2>1, StepMoves DEF OtherTypes
<1>10. CASE Tick
  <2>1. timeout \in 0 .. Sleep /\ timeout > 0
    BY <1>10 DEF IInv, OtherTypes, SleepInv, Tick
  <2>2. timeout - 1 \in 0 .. Sleep
    BY <2>1, ObserveAssumption
  <2>3. complete' \in BOOLEAN
    BY <1>10 DEF Tick
  <2> QED BY <1>0, <1>10, <2>2, <2>3 DEF Tick, OtherTypes
<1>11. ASSUME NEW t \in Servers, NEW v \in Values, ServerWrites(t, v) PROVE OtherTypes'
  BY <1>0, <1>1, <1>11, <1>3 DEF ServerWrites, Requested, Handled, OtherTypes
<1>12. CASE UNCHANGED vars
  BY <1>0, <1>12 DEF vars, codeVars, OtherTypes
<1>13. ASSUME NEW v \in Values, UpdateMemoryFree(v) PROVE OtherTypes'
  BY <1>0, <1>13 DEF UpdateMemoryFree, OtherTypes
<1>14. CASE EarlyReturn
  BY <1>0, <1>14, <1>3 DEF EarlyReturn, OtherTypes
<1> QED BY <1>4, <1>5, <1>6, <1>7, <1>8, <1>9, <1>10, <1>11, <1>12, <1>13, <1>14 DEF Next

\* A change that was told is not lost: it stays pending until it is sent.
LEMMA PendingInvariant == IInv /\ [Next]_vars => PendingInv'
<1> SUFFICES ASSUME IInv, [Next]_vars, NEW u \in Uris, NEW s \in Servers,
                    watcher'[u][s].active, Servable(u, watcher'[u][s].format),
                    known'[u][s] # value', ~silent'
             PROVE  watcher'[u][s].update
  BY DEF PendingInv
<1> DEFINE w == watcher[u][s]
<1>0. /\ w \in Watchers /\ watcher \in [Uris -> [Servers -> Watchers]] /\ value \in Values
      /\ known \in [Uris -> [Servers -> Values \cup {NoValue}]]
      /\ w.active /\ Servable(u, w.format) /\ known[u][s] # value /\ ~silent => w.update
  BY DEF IInv, WatchersInv, OtherTypes, PendingInv
<1>1. CASE watcher'[u][s] = w /\ known'[u][s] = known[u][s] /\ UNCHANGED <<value, silent>>
  BY <1>0, <1>1
<1>2. watcher'[u][s] # NewWatcher
  BY NewWatcherTypes
<1>3. ASSUME NEW v \in Uris, NEW t \in Servers, NEW f \in Formats, Observe(v, t, f)
      PROVE  watcher'[u][s].update
  <2>1. PICK mid \in Mids :
          watcher' = [watcher EXCEPT ![v][t] = Answered(watcher[v][t], v, f, mid)]
    BY <1>3 DEF Observe
  <2>2. /\ known' = IF Servable(v, f) THEN [known EXCEPT ![v][t] = value] ELSE known
        /\ UNCHANGED <<value, silent>>
    BY <1>3 DEF Observe
  <2>3. CASE v = u /\ t = s
    <3>1. watcher'[u][s] = Answered(w, u, f, mid)
      BY <1>0, <2>1, <2>3
    <3>2. watcher'[u][s].format = IF u = "res" THEN f ELSE "tlv"
      <4> HIDE DEF w
      <4>1. Answered(w, u, f, mid).format = IF u = "res" THEN f ELSE "tlv"
        BY <1>0, AnsweredTypes
      <4> QED BY <3>1, <4>1
    <3>3. Servable(u, f)
      BY <3>2 DEF Servable
    <3>4. known'[u][s] = value
      BY <1>0, <2>2, <2>3, <3>3
    <3> QED BY <2>2, <3>4
  <2>4. CASE ~(v = u /\ t = s)
    <3>1. watcher'[u][s] = w /\ known'[u][s] = known[u][s]
      BY <1>0, <2>1, <2>2, <2>4
    <3> QED BY <1>1, <2>2, <3>1
  <2> QED BY <2>3, <2>4
<1>4. ASSUME NEW t \in Servers, \/ \E v \in Uris : Cancel(v, t)
                               \/ \E mid \in Mids : Reset(t, mid)
      PROVE  watcher'[u][s].update
  <2>1. UNCHANGED <<value, silent>>
    BY <1>4, CancelMoves DEF IInv
  <2>2. watcher'[u][s] = w /\ known'[u][s] = known[u][s]
    BY <1>2, <1>4, CancelKeeps
  <2> QED BY <1>1, <2>1, <2>2
<1>5. ASSUME NEW v \in Uris, NEW t \in Servers, NEW q \in Queries, SetParameters(v, t, q)
      PROVE  watcher'[u][s].update
  <2>1. /\ watcher'[u][s].active = w.active /\ watcher'[u][s].format = w.format
        /\ watcher'[u][s].update = w.update
    BY <1>0, <1>5 DEF SetParameters, Watchers
  <2>2. UNCHANGED <<value, known, silent>>
    BY <1>5 DEF SetParameters
  <2> QED BY <1>0, <2>1, <2>2
<1>6. ASSUME NEW t \in Servers, DeleteInstance(t) PROVE FALSE
  BY <1>2, <1>6 DEF DeleteInstance
<1>7. ASSUME NEW v \in Values, ValueChanged(v) PROVE watcher'[u][s].update
  <2>1. watcher'[u][s] = [w EXCEPT !.update = @ \/ w.active]
    BY <1>7 DEF ValueChanged, Tagged
  <2>2. watcher'[u][s].active = w.active /\ watcher'[u][s].update = (w.update \/ w.active)
    <3> HIDE DEF w
    <3> QED BY <1>0, <2>1 DEF Watchers
  <2> QED BY <2>2
<1>8. CASE ObserveStep
  <2>1. UNCHANGED <<value, silent>>
    BY <1>8, StepMoves
  <2> QED BY <1>1, <1>8, <2>1, StepKeeps
<1>9. CASE Tick
  <2>1. /\ watcher'[u][s].active = w.active /\ watcher'[u][s].format = w.format
        /\ watcher'[u][s].update = w.update
    BY <1>0, <1>9 DEF Tick, Watchers
  <2>2. UNCHANGED <<value, known, silent>>
    BY <1>9 DEF Tick
  <2> QED BY <1>0, <2>1, <2>2
<1>10. ASSUME NEW t \in Servers, NEW v \in Values, ServerWrites(t, v) PROVE FALSE
  BY <1>10 DEF ServerWrites
<1>11. CASE UNCHANGED vars
  BY <1>1, <1>11 DEF vars, codeVars
<1>12. ASSUME NEW v \in Values, UpdateMemoryFree(v) PROVE FALSE
  BY <1>12 DEF UpdateMemoryFree
<1>13. CASE EarlyReturn
  BY <1>1, <1>13 DEF EarlyReturn
<1> QED BY <1>3, <1>4, <1>5, <1>6, <1>7, <1>8, <1>9, <1>10, <1>11, <1>12, <1>13 DEF Next

\* What the thresholds are compared with stays what the server was sent.
LEMMA ShownInvariant == IInv /\ [Next]_vars => ShownInv'
<1> DEFINE u == "res"
<1> SUFFICES ASSUME IInv, [Next]_vars, NEW s \in Servers,
                    watcher'[u][s].active, Servable(u, watcher'[u][s].format)
             PROVE  watcher'[u][s].lastValue = known'[u][s]
  BY DEF ShownInv
<1> DEFINE w == watcher[u][s]
<1>0. /\ w \in Watchers /\ watcher \in [Uris -> [Servers -> Watchers]] /\ value \in Values
      /\ known \in [Uris -> [Servers -> Values \cup {NoValue}]] /\ u \in Uris
      /\ w.active /\ Servable(u, w.format) => w.lastValue = known[u][s]
  BY DEF IInv, WatchersInv, OtherTypes, ShownInv, Uris
<1>1. CASE watcher'[u][s] = w /\ known'[u][s] = known[u][s]
  BY <1>0, <1>1
<1>2. watcher'[u][s] # NewWatcher
  BY NewWatcherTypes
<1>3. ASSUME NEW v \in Uris, NEW t \in Servers, NEW f \in Formats, Observe(v, t, f)
      PROVE  watcher'[u][s].lastValue = known'[u][s]
  <2>1. PICK mid \in Mids :
          watcher' = [watcher EXCEPT ![v][t] = Answered(watcher[v][t], v, f, mid)]
    BY <1>3 DEF Observe
  <2>2. known' = IF Servable(v, f) THEN [known EXCEPT ![v][t] = value] ELSE known
    BY <1>3 DEF Observe
  <2>3. CASE v = u /\ t = s
    <3>1. watcher'[u][s] = Answered(w, u, f, mid)
      BY <1>0, <2>1, <2>3
    <3>2. watcher'[u][s].format = f /\ watcher'[u][s].lastValue = value
      <4> HIDE DEF w
      <4>1. Answered(w, u, f, mid).format = f /\ Answered(w, u, f, mid).lastValue = value
        BY <1>0, AnsweredTypes
      <4> QED BY <3>1, <4>1
    <3>3. known'[u][s] = value
      BY <1>0, <2>2, <2>3, <3>2
    <3> QED BY <3>2, <3>3
  <2>4. CASE ~(v = u /\ t = s)
    <3>1. watcher'[u][s] = w /\ known'[u][s] = known[u][s]
      BY <1>0, <2>1, <2>2, <2>4
    <3> QED BY <1>1, <3>1
  <2> QED BY <2>3, <2>4
<1>4. ASSUME NEW t \in Servers, \/ \E v \in Uris : Cancel(v, t)
                               \/ \E mid \in Mids : Reset(t, mid)
      PROVE  watcher'[u][s].lastValue = known'[u][s]
  <2>1. watcher'[u][s] = w /\ known'[u][s] = known[u][s]
    BY <1>0, <1>2, <1>4, CancelKeeps
  <2> QED BY <1>1, <2>1
<1>5. ASSUME NEW v \in Uris, NEW t \in Servers, NEW q \in Queries, SetParameters(v, t, q)
      PROVE  watcher'[u][s].lastValue = known'[u][s]
  <2>1. /\ watcher'[u][s].active = w.active /\ watcher'[u][s].format = w.format
        /\ watcher'[u][s].lastValue = w.lastValue
    BY <1>0, <1>5 DEF SetParameters, Watchers
  <2> QED BY <1>0, <1>5, <2>1 DEF SetParameters
<1>6. ASSUME NEW t \in Servers, DeleteInstance(t) PROVE FALSE
  BY <1>0, <1>2, <1>6 DEF DeleteInstance
<1>7. ASSUME NEW v \in Values, ValueChanged(v) PROVE watcher'[u][s].lastValue = known'[u][s]
  <2>1. watcher'[u][s] = [w EXCEPT !.update = @ \/ w.active]
    BY <1>0, <1>7 DEF ValueChanged, Tagged
  <2>2. /\ watcher'[u][s].active = w.active /\ watcher'[u][s].format = w.format
        /\ watcher'[u][s].lastValue = w.lastValue
    <3> HIDE DEF w
    <3> QED BY <1>0, <2>1 DEF Watchers
  <2> QED BY <1>0, <1>7, <2>2 DEF ValueChanged
<1>8. CASE ObserveStep
  BY <1>0, <1>1, <1>8, StepKeeps
<1>9. CASE Tick
  <2>1. /\ watcher'[u][s].active = w.active /\ watcher'[u][s].format = w.format
        /\ watcher'[u][s].lastValue = w.lastValue
    BY <1>0, <1>9 DEF Tick, Watchers
  <2> QED BY <1>0, <1>9, <2>1 DEF Tick
<1>10. ASSUME NEW t \in Servers, NEW v \in Values, ServerWrites(t, v)
       PROVE  watcher'[u][s].lastValue = known'[u][s]
  BY <1>1, <1>10 DEF ServerWrites
<1>11. CASE UNCHANGED vars
  BY <1>1, <1>11 DEF vars, codeVars
<1>12. ASSUME NEW v \in Values, UpdateMemoryFree(v) PROVE watcher'[u][s].lastValue = known'[u][s]
  BY <1>1, <1>12 DEF UpdateMemoryFree
<1>13. CASE EarlyReturn
  BY <1>1, <1>13 DEF EarlyReturn
<1> QED BY <1>3, <1>4, <1>5, <1>6, <1>7, <1>8, <1>9, <1>10, <1>11, <1>12, <1>13 DEF Next

\* Who is starved depends on the lists, the formats and who is active.
LEMMA StarvedKept ==
  ASSUME watcherList \in [Uris -> Seq(Servers)], UNCHANGED watcherList, NEW u \in Uris,
         \A s \in Servers : /\ watcher'[u][s].active = watcher[u][s].active
                            /\ watcher'[u][s].format = watcher[u][s].format,
         NEW s \in Servers, Starved(u, s)
  PROVE  Starved(u, s)'
<1>1. CASE ~Servable(u, watcher[u][s].format)
  <2>1. ~Servable(u, watcher'[u][s].format)
    BY <1>1
  <2> QED BY <2>1 DEF Starved, Servable
<1>2. CASE \E i, j \in DOMAIN watcherList[u] :
             /\ i < j /\ watcherList[u][j] = s
             /\ watcher[u][watcherList[u][i]].active
             /\ ~Servable(u, watcher[u][watcherList[u][i]].format)
  <2>1. PICK i \in DOMAIN watcherList[u], j \in DOMAIN watcherList[u] :
             /\ i < j /\ watcherList[u][j] = s
             /\ watcher[u][watcherList[u][i]].active
             /\ ~Servable(u, watcher[u][watcherList[u][i]].format)
    BY <1>2
  <2> DEFINE t == watcherList[u][i]
  <2>2. t \in Servers
    OBVIOUS
  <2>3. watcher'[u][t].active /\ ~Servable(u, watcher'[u][t].format)
    BY <2>1, <2>2
  <2>4. watcherList' = watcherList
    OBVIOUS
  <2> QED BY <2>1, <2>3, <2>4 DEF Starved, Servable
<1> QED BY <1>1, <1>2 DEF Starved

\* The client never sleeps past the time of a watcher it serves.
LEMMA SleepInvariant == IInv /\ [Next]_vars => SleepInv'
<1> SUFFICES ASSUME IInv, [Next]_vars PROVE SleepInv'
  OBVIOUS
<1>0. /\ watcher \in [Uris -> [Servers -> Watchers]] /\ watcherList \in [Uris -> Seq(Servers)]
      /\ value \in Values
  BY DEF IInv, WatchersInv, ListsInv, OtherTypes
<1>1. ASSUME phase' = "step", ~complete' PROVE SleepInv'
  BY <1>1 DEF SleepInv
<1>2. ASSUME ObserveStep, complete' PROVE SleepInv'
  <2>1. /\ UNCHANGED <<watcherList, value>> /\ Ready
        /\ watcher' = AfterTargets.watcher /\ timeout' = AfterTargets.timeout
        /\ phase' = "wait"
    BY <1>2, StepMoves
  <2>2. /\ AfterTargets \in Progresses
        /\ \A u \in Uris, s \in Servers :
              Watched(u, s) /\ watcher[u][s].active /\ ~Starved(u, s) =>
                Rests(u, AfterTargets.watcher[u][s], AfterTargets.timeout)
    BY <2>1, TargetsVisited
  <2>3. timeout' > 0
    BY <2>1, <2>2, ObserveAssumption DEF Progresses
  <2>4. \A u \in Uris, s \in Servers : /\ watcher'[u][s].active = watcher[u][s].active
                                       /\ watcher'[u][s].format = watcher[u][s].format
    BY <1>2, StepKeeps
  <2>5. ASSUME NEW u \in Uris, NEW s \in Servers, watcher'[u][s].active, ~Starved(u, s)'
        PROVE  Rests(u, watcher[u][s], timeout)'
    <3>1. watcher[u][s].active
      BY <2>4, <2>5
    <3>2. ~Starved(u, s)
      BY <1>0, <2>1, <2>4, <2>5, StarvedKept
    <3>3. Watched(u, s)
      BY <3>1, NewWatcherTypes DEF IInv, WatchersInv
    <3> DEFINE w == AfterTargets.watcher[u][s]
               time == AfterTargets.timeout
    <3>4. Rests(u, w, time)
      BY <2>2, <3>1, <3>2, <3>3
    <3>5. watcher'[u][s] = w /\ timeout' = time
      BY <2>1
    <3> HIDE DEF w, time
    <3>6. value' = value
      BY <2>1
    <3> QED BY <3>4, <3>5, <3>6 DEF Rests, Triggers, Crosses, Distance
  <2> QED BY <2>1, <2>3, <2>5 DEF SleepInv
<1>4. CASE Tick
  <2>1. /\ phase = "wait" /\ timeout' = timeout - 1 /\ timeout \in Nat /\ timeout > 0
        /\ phase' = IF timeout = 1 THEN "step" ELSE "wait"
        /\ UNCHANGED <<watcherList, value>>
    <3>1. timeout \in Int /\ timeout > 0
      BY <1>4, ObserveAssumption DEF Tick, IInv, OtherTypes, SleepInv
    <3> QED BY <1>4, <3>1 DEF Tick, IInv, OtherTypes
  <2>2. /\ phase' = "wait" => timeout' > 0
        /\ complete' => phase' = "wait" /\ complete
    <3>1. complete' => complete /\ timeout # 1
      BY <1>4 DEF Tick
    <3> QED BY <2>1, <3>1
  <2>3. ASSUME NEW u \in Uris, NEW s \in Servers
        PROVE  LET w == watcher[u][s]  new == watcher'[u][s] IN
               /\ new.active = w.active /\ new.format = w.format /\ new.update = w.update
               /\ new.parameters = w.parameters /\ new.lastValue = w.lastValue
               /\ new.age <= w.age + 1 /\ new.age \in Int
    <3> DEFINE w == watcher[u][s]
               older == w.age + 1
               age == IF Watched(u, s) /\ w.active THEN Least({older, MaxAge}) ELSE w.age
               new == [w EXCEPT !.age = age]
    <3>1. watcher'[u][s] = new
      BY <1>4 DEF Tick
    <3>2. w \in Watchers
      BY <1>0
    <3>3. w.age \in Int /\ older \in Int /\ MaxAge \in Int
      BY <3>2, ObserveAssumption DEF Watchers
    <3>4. Least({older, MaxAge}) \in Int /\ Least({older, MaxAge}) <= older
      <4> HIDE DEF older
      <4>1. {older, MaxAge} = {older} \cup {MaxAge}
        OBVIOUS
      <4>2. /\ Least({older} \cup {MaxAge}) \in {older, MaxAge}
            /\ Least({older} \cup {MaxAge}) <= older
        BY <3>3, LeastOfTwo
      <4> QED BY <3>3, <4>1, <4>2
    <3>5. age \in Int /\ age <= w.age + 1
      BY <3>3, <3>4
    <3> HIDE DEF w, age
    <3>6. /\ new.active = w.active /\ new.format = w.format /\ new.update = w.update
          /\ new.parameters = w.parameters /\ new.lastValue = w.lastValue /\ new.age = age
      BY <3>2 DEF Watchers
    <3> HIDE DEF new
    <3> QED BY <3>1, <3>5, <3>6 DEF w
  <2>4. ASSUME NEW u \in Uris, NEW s \in Servers, watcher'[u][s].active, ~Starved(u, s)',
               complete'
        PROVE  Rests(u, watcher[u][s], timeout)'
    <3>1. watcher[u][s].active
      BY <2>3, <2>4
    <3>2. ~Starved(u, s)
      BY <1>0, <2>1, <2>3, <2>4, StarvedKept
    <3>3. PICK w : w = watcher[u][s]
      OBVIOUS
    <3>4. PICK new : new = watcher'[u][s]
      OBVIOUS
    <3>5. PICK time : time = timeout
      OBVIOUS
    <3>6. Rests(u, w, time)
      BY <2>2, <2>4, <3>1, <3>2, <3>3, <3>5 DEF IInv, SleepInv
    <3>7. /\ new.update = w.update /\ new.parameters = w.parameters /\ new.lastValue = w.lastValue
          /\ new.age <= w.age + 1 /\ new.age \in Int
      BY <2>3, <3>3, <3>4
    <3>8. /\ w.age \in Int /\ time \in Int
          /\ w.parameters.val["pmin"] \in Int /\ w.parameters.val["pmax"] \in Int
      BY <1>0, <2>1, <3>3, <3>5 DEF Watchers, Parameters, Attributes
    <3>9. /\ "pmax" \in w.parameters.toSet => time - 1 <= w.parameters.val["pmax"] - new.age
          /\ w.update /\ "pmin" \in w.parameters.toSet =>
               time - 1 <= w.parameters.val["pmin"] - new.age
      BY <3>6, <3>7, <3>8 DEF Rests
    <3>10. Rests(u, new, time - 1)
      BY <3>6, <3>7, <3>9 DEF Rests
    <3>11. Rests(u, new, time - 1)'
      BY <2>1, <3>10 DEF Rests, Triggers, Crosses, Distance
    <3> QED BY <2>1, <3>4, <3>5, <3>11 DEF Rests, Triggers, Crosses, Distance
  <2> QED BY <2>2, <2>4 DEF SleepInv
<1>5. CASE UNCHANGED vars
  <2>1. UNCHANGED <<watcherList, watcher, value, phase, timeout, complete>>
    BY <1>5 DEF vars, codeVars
  <2> QED BY <2>1 DEF IInv, SleepInv, Starved, Servable, Rests, Triggers, Crosses, Distance
<1>6. CASE EarlyReturn
  <2>1. phase = "step" /\ phase' = "wait" /\ timeout' = Sleep /\ complete' = complete
    BY <1>6 DEF EarlyReturn
  <2> QED BY <2>1, ObserveAssumption DEF IInv, SleepInv
<1>3. ASSUME ObserveStep, ~complete' PROVE SleepInv'
  BY <1>1, <1>3, StepMoves
<1>7. ASSUME NEW v \in Values, UpdateMemoryFree(v) PROVE SleepInv'
  <2>1. phase' = "step" /\ ~complete'
    BY <1>7 DEF UpdateMemoryFree, IInv, SleepInv
  <2> QED BY <1>1, <2>1
<1>8. ASSUME Handled PROVE SleepInv'
  BY <1>1, <1>8 DEF Handled
<1> QED BY <1>2, <1>4, <1>5, <1>6, <1>7, <1>8, <1>3
        DEF Next, Observe, Cancel, Reset, SetParameters, DeleteInstance, ServerWrites,
            ValueChanged, Requested

\* The client starts in the invariant.
LEMMA InitInvariant == Init => IInv
<1> SUFFICES ASSUME Init PROVE IInv
  OBVIOUS
<1>1. ListsInv
  <2>1. << >> \in Seq(Uris) /\ << >> \in Seq(Servers) /\ IsInjective(<< >>) /\ Range(<< >>) = {}
    BY DEF IsInjective, Range
  <2> QED BY <2>1 DEF Init, ListsInv
<1>2. \A u \in Uris, s \in Servers : watcher[u][s] = NewWatcher
  BY DEF Init
<1>3. WatchersInv
  BY <1>2, NewWatcherTypes DEF Init, WatchersInv
<1>4. OtherTypes
  <2>1. 0 \in Mids /\ 0 \in 0 .. Sleep /\ 0 \in 0 .. MaxRequests
    BY ObserveAssumption DEF Mids
  <2>2. known \in [Uris -> [Servers -> Values \cup {NoValue}]]
    BY DEF Init
  <2> QED BY <2>1, <2>2 DEF Init, OtherTypes
<1>5. PeriodsInv /\ PendingInv /\ ShownInv
  BY <1>2, NewWatcherTypes DEF PeriodsInv, PendingInv, ShownInv, Uris
<1>6. RuleKept
  BY <1>2, NewWatcherTypes DEF RuleKept, Numeric
<1>7. SleepInv
  BY DEF Init, SleepInv
<1> QED BY <1>1, <1>3, <1>4, <1>5, <1>6, <1>7 DEF IInv

\* The inductive invariant holds in every reachable state.
LEMMA Invariance == Spec => []IInv
<1>1. IInv /\ [Next]_vars => IInv'
  <2> SUFFICES ASSUME IInv, [Next]_vars PROVE IInv'
    OBVIOUS
  <2> QED BY ListsInvariant, WatchersInvariant, TypesInvariant, PeriodsInvariant, RuleInvariant,
             PendingInvariant, ShownInvariant, SleepInvariant DEF IInv
<1> QED BY InitInvariant, <1>1, PTL DEF Spec

------------------------------------------------------------------------------
\* Every variable keeps its type: the lists hold each URI and each server once,
\* a URI is observed as long as it has a watcher.
THEOREM TypeCorrect == Spec => []TypeOK
<1>1. IInv => TypeOK
  <2> SUFFICES ASSUME IInv PROVE TypeOK
    OBVIOUS
  <2>1. ASSUME NEW u \in Uris, NEW s \in Servers
        PROVE  LET w == watcher[u][s] IN
               /\ w.active \in BOOLEAN /\ w.update \in BOOLEAN /\ w.format \in Formats
               /\ w.parameters.toSet \subseteq Attributes
               /\ ~w.parameters.given => w.parameters = NoParameters
               /\ w.age \in 0 .. MaxAge /\ w.lastMid \in Mids
               /\ s \notin Range(watcherList[u]) => w = NewWatcher
               /\ known[u][s] \in Values \cup {NoValue}
    BY DEF IInv, WatchersInv, OtherTypes, Watchers, Parameters, Watched
  <2> QED BY <2>1 DEF IInv, ListsInv, OtherTypes, SleepInv, TypeOK
<1> QED BY <1>1, Invariance, PTL

\* Attributes in force obey the rule, for any attribute queries (observe.c:340).
THEOREM RuleIsKept == Spec => []RuleKept
<1>1. IInv => RuleKept
  BY DEF IInv
<1> QED BY <1>1, Invariance, PTL

\* Nothing is overdue while the client sleeps after a step that came to
\* observe_step, whatever the values, attributes and numbers of servers and
\* however many steps returned before it (observe.c:485-755).
THEOREM NothingOverdue == Spec => []NotifiedInTime
<1>1. IInv => NotifiedInTime
  <2> SUFFICES ASSUME IInv, complete, NEW u \in Uris, NEW s \in Servers,
                      watcher[u][s].active, ~Starved(u, s)
               PROVE  LET w == watcher[u][s] IN
                      /\ "pmax" \in w.parameters.toSet => w.age < w.parameters.val["pmax"]
                      /\ known[u][s] # value /\ ~silent => w.update /\ Withheld(u, s)
    BY DEF NotifiedInTime
  <2> DEFINE w == watcher[u][s]
             p == w.parameters
  <2>1. /\ Rests(u, w, timeout) /\ timeout > 0
        /\ known[u][s] # value /\ ~silent => w.update
    BY DEF IInv, SleepInv, PendingInv, Starved
  <2>2. /\ w.age \in Int /\ p.val["pmin"] \in Int /\ p.val["pmax"] \in Int
        /\ timeout \in Int
    BY ObserveAssumption DEF IInv, WatchersInv, OtherTypes, Watchers, Parameters, Attributes
  <2>3. u = "res" => w.lastValue = known[u][s]
    BY DEF IInv, ShownInv, Starved
  <2>4. u = "inst" \/ u = "res"
    BY DEF Uris
  <2> HIDE DEF w
  <2>5. "pmax" \in p.toSet => w.age < p.val["pmax"]
    BY <2>1, <2>2 DEF Rests
  <2>6. ASSUME w.update PROVE IF "pmin" \in p.toSet THEN w.age < p.val["pmin"]
                              ELSE p.toSet # {} /\ ~Triggers(p, known[u][s])
    <3>1. CASE "pmin" \in p.toSet
      BY <2>1, <2>2, <2>6, <3>1 DEF Rests
    <3>2. CASE "pmin" \notin p.toSet
      <4>1. p.toSet # {} /\ ~Triggers(p, w.lastValue)
        BY <2>1, <2>6, <3>2 DEF Rests
      <4>2. u = "inst" => p.toSet \cap Numeric = {}
        BY <2>1, <2>6 DEF Rests
      <4>3. p.toSet \cap Numeric = {} => ~Triggers(p, known[u][s])
        BY DEF Triggers, Numeric
      <4> QED BY <2>3, <2>4, <3>2, <4>1, <4>2, <4>3
    <3> QED BY <3>1, <3>2
  <2> QED BY <2>1, <2>5, <2>6 DEF Withheld, w
<1> QED BY <1>1, Invariance, PTL

\* A cancellation ends the observation it is meant for, unless two watchers of a
\* server share a message id, and no other (observe.c:215-224 and 233-282).
THEOREM CancellationsAreExact == Spec => CancelIsExact
<1> DEFINE Exact(u, s) ==
        /\ Watched(u, s) /\ ~Watched(u, s)' =>
             \/ asked'.what = "delete"
             \/ /\ asked'.what \in {"cancel", "reset"} /\ asked'.server = s
                /\ watcher[u][s].lastMid = asked'.mid
        /\ asked'.what = "cancel" /\ asked'.uri = u /\ asked'.server = s =>
             \/ ~Watched(u, s)'
             \/ \E v \in Uris \ {u} : Watched(v, s) /\ watcher[v][s].lastMid = asked'.mid
<1>1. IInv /\ Next => \A u \in Uris, s \in Servers : Exact(u, s)
  <2> SUFFICES ASSUME IInv, Next, NEW u \in Uris, NEW s \in Servers PROVE Exact(u, s)
    OBVIOUS
  <2>0. ListsInv
    BY DEF IInv
  <2>1. ASSUME UNCHANGED watcherList, asked' = NoRequest PROVE Exact(u, s)
    BY <2>1 DEF NoRequest, Watched
  <2>2. ASSUME NEW v \in Uris, NEW t \in Servers, GetWatcher(v, t), asked' = NoRequest
        PROVE  Exact(u, s)
    <3>1. Watched(u, s) => Watched(u, s)'
      BY <2>0, <2>2, GetsWatcher
    <3> QED BY <2>2, <3>1 DEF NoRequest
  <2>3. ASSUME NEW t \in Servers, NEW mid, ObserveCancel(mid, t)
        PROVE  /\ Watched(u, s) /\ ~Watched(u, s)' => t = s /\ watcher[u][s].lastMid = mid
               /\ Watched(u, t) /\ watcher[u][t].lastMid = mid =>
                    \/ ~Watched(u, t)'
                    \/ \E v \in Uris \ {u} : Watched(v, t) /\ watcher[v][t].lastMid = mid
    <3>1. CASE Found(mid, t) = {}
      <4>1. UNCHANGED watcherList
        BY <2>3, <3>1 DEF ObserveCancel
      <4>2. ~(Watched(u, t) /\ watcher[u][t].lastMid = mid)
        BY <2>0, <3>1, CancelsNone
      <4> QED BY <4>1, <4>2 DEF Watched
    <3>2. CASE Found(mid, t) # {}
      <4>1. PICK v \in Uris : /\ Watched(v, t) /\ watcher[v][t].lastMid = mid
                              /\ \A x \in Uris, y \in Servers :
                                   Watched(x, y)' <=> Watched(x, y) /\ ~(x = v /\ y = t)
        BY <2>0, <2>3, <3>2, CancelsOne
      <4> QED BY <4>1
    <3> QED BY <3>1, <3>2
  <2>4. ASSUME NEW v \in Uris, NEW t \in Servers, Cancel(v, t) PROVE Exact(u, s)
    <3>1. CASE Watched(v, t)
      <4> DEFINE mid == watcher[v][t].lastMid
      <4>1. /\ ObserveCancel(mid, t)
            /\ asked' = [what |-> "cancel", uri |-> v, server |-> t, mid |-> mid]
        BY <2>4, <3>1 DEF Cancel
      <4>2. /\ asked'.what = "cancel" /\ asked'.uri = v /\ asked'.server = t /\ asked'.mid = mid
        BY <4>1
      <4>3. Watched(u, s) /\ ~Watched(u, s)' => t = s /\ watcher[u][s].lastMid = mid
        BY <2>3, <4>1
      <4>4. v = u /\ t = s =>
              \/ ~Watched(u, s)'
              \/ \E x \in Uris \ {u} : Watched(x, s) /\ watcher[x][s].lastMid = mid
        BY <2>3, <3>1, <4>1
      <4> HIDE DEF mid
      <4> QED BY <4>2, <4>3, <4>4
    <3>2. CASE ~Watched(v, t)
      BY <2>1, <2>4, <3>2 DEF Cancel
    <3> QED BY <3>1, <3>2
  <2>5. ASSUME NEW t \in Servers, NEW mid \in Mids, Reset(t, mid) PROVE Exact(u, s)
    <3>1. ObserveCancel(mid, t) /\ asked' = [what |-> "reset", server |-> t, mid |-> mid]
      BY <2>5 DEF Reset
    <3>2. asked'.what = "reset" /\ asked'.server = t /\ asked'.mid = mid
      BY <3>1
    <3> QED BY <2>3, <3>1, <3>2
  <2>6. ASSUME NEW t \in Servers, DeleteInstance(t) PROVE Exact(u, s)
    <3>1. asked'.what = "delete"
      BY <2>6 DEF DeleteInstance
    <3> QED BY <3>1
  <2> HIDE DEF Exact
  <2> QED BY <2>1, <2>2, <2>4, <2>5, <2>6
          DEF Next, Observe, SetParameters, ServerWrites, ValueChanged, UpdateMemoryFree,
              ObserveStep, EarlyReturn, Tick
<1>2. IInv /\ [Next]_vars => [\A u \in Uris, s \in Servers : Exact(u, s)]_vars
  BY <1>1
<1> QED BY <1>2, Invariance, PTL DEF Spec, CancelIsExact

==============================================================================
