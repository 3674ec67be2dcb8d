------------------------- MODULE Transaction_proofs -------------------------
(***************************************************************************)
(* Proofs about Transaction, for any transactions, any ResponseTimeout and *)
(* any MaxRetransmit: how often a message is sent and when a transaction   *)
(* that hears nothing ends.                                                *)
(***************************************************************************)
EXTENDS Transaction, WellFoundedInduction, TLAPS

\* The least element of a set of numbers, which is what the proofs by
\* induction below use.
LEMMA LeastElement ==
  ASSUME NEW T, T \subseteq Nat, T # {}
  PROVE  \E x \in T : \A y \in T : x <= y
<1>1. PICK x \in T : \A y \in T : <<y, x>> \notin OpToRel(<, Nat)
  BY NatLessThanWellFounded, WFMin
<1>2. \A y \in T : ~(y < x)
  BY <1>1 DEF OpToRel
<1> QED BY <1>2

\* A function that is defined step by step exists.
LEMMA StepwiseDefined ==
  ASSUME NEW S, NEW s0 \in S, NEW F \in [Nat -> [S -> S]]
  PROVE  \E f \in [Nat -> S] : \A n \in Nat : f[n] = IF n = 0 THEN s0 ELSE F[n][f[n - 1]]
<1> DEFINE Ok(n, g) == /\ g \in [0 .. n -> S] /\ g[0] = s0
                       /\ \A i \in 1 .. n : g[i] = F[i][g[i - 1]]
<1>1. \A n \in Nat : \E g : Ok(n, g)
  <2> DEFINE T == {n \in Nat : ~ \E g : Ok(n, g)}
  <2>1. SUFFICES ASSUME T # {} PROVE FALSE
    OBVIOUS
  <2>2. PICK n \in T : \A m \in T : n <= m
    BY <2>1, LeastElement
  <2>3. n # 0
    <3>1. Ok(0, [i \in 0 .. 0 |-> s0])
      OBVIOUS
    <3> QED BY <3>1
  <2>4. PICK g : Ok(n - 1, g)
    <3>1. n \in Nat /\ n - 1 \in Nat /\ ~(n <= n - 1)
      BY <2>3
    <3>2. n - 1 \notin T
      BY <2>2, <3>1
    <3> QED BY <3>1, <3>2
  <2> DEFINE h == [i \in 0 .. n |-> IF i = n THEN F[n][g[n - 1]] ELSE g[i]]
  <2>5. Ok(n, h)
    <3>0. n \in Nat /\ n - 1 \in Nat
      BY <2>3
    <3>1. g \in [0 .. n - 1 -> S] /\ g[0] = s0 /\ \A i \in 1 .. n - 1 : g[i] = F[i][g[i - 1]]
      BY <2>4
    <3>2. F[n] \in [S -> S] /\ g[n - 1] \in S
      BY <3>0, <3>1
    <3>3. h \in [0 .. n -> S] /\ h[0] = s0
      BY <3>0, <3>1, <3>2, <2>3
    <3>4. ASSUME NEW i \in 1 .. n PROVE h[i] = F[i][h[i - 1]]
      <4>1. i - 1 \in 0 .. n /\ i - 1 # n /\ i \in 0 .. n
        BY <3>0
      <4>2. h[i - 1] = g[i - 1]
        BY <4>1
      <4>3. CASE i = n
        BY <4>1, <4>2, <4>3
      <4>4. CASE i # n
        <5>1. i \in 1 .. n - 1
          BY <3>0, <4>4
        <5> QED BY <3>1, <4>1, <4>2, <4>4, <5>1
      <4> QED BY <4>3, <4>4
    <3> HIDE DEF h
    <3> QED BY <3>3, <3>4
  <2> QED BY <2>5
<1>2. ASSUME NEW n \in Nat, NEW m \in Nat, NEW g, NEW h, Ok(n, g), Ok(m, h), n <= m
      PROVE  \A i \in 0 .. n : g[i] = h[i]
  <2> DEFINE T == {i \in 0 .. n : g[i] # h[i]}
  <2>1. SUFFICES ASSUME T # {} PROVE FALSE
    OBVIOUS
  <2>0. T \subseteq Nat
    OBVIOUS
  <2>2. PICK i \in T : \A j \in T : i <= j
    <3> HIDE DEF T
    <3> QED BY <2>0, <2>1, LeastElement
  <2>3. i # 0
    BY <1>2, <2>2
  <2>4. g[i - 1] = h[i - 1]
    BY <2>2, <2>3
  <2> QED BY <1>2, <2>2, <2>3, <2>4
<1> DEFINE G(n) == CHOOSE g : Ok(n, g)
           f == [n \in Nat |-> G(n)[n]]
<1>3. \A n \in Nat : Ok(n, G(n))
  BY <1>1
<1> HIDE DEF G
<1>4. f \in [Nat -> S]
  BY <1>3
<1>5. ASSUME NEW n \in Nat PROVE f[n] = IF n = 0 THEN s0 ELSE F[n][f[n - 1]]
  <2>1. CASE n = 0
    BY <2>1, <1>3
  <2>2. CASE n # 0
    <3>1. n - 1 \in Nat /\ n - 1 <= n /\ n - 1 \in 0 .. n - 1 /\ n \in 1 .. n
      BY <2>2
    <3>2. G(n)[n] = F[n][G(n)[n - 1]]
      BY <1>3, <3>1
    <3>3. Ok(n - 1, G(n - 1)) /\ Ok(n, G(n))
      BY <1>3, <3>1
    <3>4. G(n - 1)[n - 1] = G(n)[n - 1]
      <4> HIDE DEF Ok
      <4> QED BY <1>2, <3>1, <3>3
    <3> QED BY <3>1, <3>2, <3>4, <2>2
  <2> QED BY <2>1, <2>2
<1> HIDE DEF f
<1> QED BY <1>4, <1>5

\* transaction.c:396: each shift by one more doubles the time.
LEMMA ShiftDoubles ==
  /\ Shift \in [Nat -> Nat] /\ Shift[0] = 1
  /\ \A n \in Nat : Shift[n + 1] = 2 * Shift[n]
<1> DEFINE F == [n \in Nat |-> [v \in Nat |-> 2 * v]]
<1>1. F \in [Nat -> [Nat -> Nat]]
  OBVIOUS
<1>2. PICK f \in [Nat -> Nat] : \A n \in Nat : f[n] = IF n = 0 THEN 1 ELSE F[n][f[n - 1]]
  <2> DEFINE S == Nat
             s0 == 1
  <2>1. F \in [Nat -> [S -> S]] /\ s0 \in S
    BY <1>1
  <2>2. \E f \in [Nat -> S] : \A n \in Nat : f[n] = IF n = 0 THEN s0 ELSE F[n][f[n - 1]]
    <3> HIDE DEF F, S, s0
    <3> QED BY <2>1, StepwiseDefined
  <2> HIDE DEF F
  <2> QED BY <2>2
<1>3. f = [n \in Nat |-> IF n = 0 THEN 1 ELSE 2 * f[n - 1]]
  <2>1. ASSUME NEW n \in Nat PROVE f[n] = IF n = 0 THEN 1 ELSE 2 * f[n - 1]
    <3>1. n # 0 => n - 1 \in Nat /\ f[n - 1] \in Nat
      OBVIOUS
    <3> QED BY <1>2, <3>1
  <2> HIDE DEF F
  <2> QED BY <2>1, <1>2
<1>4. Shift = [n \in Nat |-> IF n = 0 THEN 1 ELSE 2 * Shift[n - 1]]
  BY <1>3 DEF Shift
<1>5. \A n \in Nat : Shift[n] \in Nat
  <2> DEFINE T == {n \in Nat : Shift[n] \notin Nat}
  <2>1. SUFFICES ASSUME T # {} PROVE FALSE
    OBVIOUS
  <2>2. PICK n \in T : \A m \in T : n <= m
    BY <2>1, LeastElement
  <2>3. n # 0
    BY <1>4, <2>2
  <2>4. Shift[n - 1] \in Nat
    BY <2>2, <2>3
  <2> QED BY <1>4, <2>2, <2>3, <2>4
<1> QED BY <1>4, <1>5

\* No shift loses the one.
LEMMA ShiftIsPositive == \A n \in Nat : Shift[n] \in Nat \ {0}
<1> DEFINE T == {n \in Nat : Shift[n] = 0}
<1>1. SUFFICES ASSUME T # {} PROVE FALSE
  BY ShiftDoubles
<1>2. PICK n \in T : \A m \in T : n <= m
  BY <1>1, LeastElement
<1>3. n # 0 /\ n \in Nat /\ Shift[n] = 0
  BY <1>2, ShiftDoubles
<1>4. n - 1 \in Nat /\ ~(n <= n - 1) /\ (n - 1) + 1 = n
  BY <1>3
<1>5. Shift[n - 1] \in Nat /\ Shift[n - 1] # 0
  BY <1>2, <1>4, ShiftDoubles
<1>6. Shift[n] = 2 * Shift[n - 1]
  BY <1>4, ShiftDoubles
<1> QED BY <1>3, <1>5, <1>6

\* The time from the first message to the end of the n-th waiting time.
Until(n) == ResponseTimeout * (Shift[n] - 1)

\* Each waiting time is twice the one before it.
LEMMA UntilGrows ==
  /\ Until(1) = ResponseTimeout
  /\ \A n \in Nat : /\ Shift[n] \in Nat /\ ResponseTimeout * Shift[n] \in Nat
                    /\ Until(n) \in Nat
                    /\ Until(n + 1) = Until(n) + ResponseTimeout * Shift[n]
<1> USE TransactionAssumption
<1>1. \A n \in Nat : Shift[n] \in Nat \ {0}
  BY ShiftIsPositive
<1>2. Shift[1] = 2
  BY ShiftDoubles
<1>3. \A r, s \in Nat : r * s \in Nat /\ r * (2 * s - 1) = r * (s - 1) + r * s
  OBVIOUS
<1>4. ASSUME NEW n \in Nat
      PROVE  /\ Shift[n] \in Nat /\ ResponseTimeout * Shift[n] \in Nat
             /\ Until(n) \in Nat
             /\ Until(n + 1) = Until(n) + ResponseTimeout * Shift[n]
  <2>1. Shift[n] \in Nat /\ Shift[n] - 1 \in Nat
    BY <1>1
  <2>2. Shift[n + 1] = 2 * Shift[n]
    BY ShiftDoubles
  <2> QED BY <2>1, <2>2, <1>3 DEF Until
<1> QED BY <1>2, <1>4 DEF Until

\* Later waiting times end later.
LEMMA UntilIsMonotonic ==
  ASSUME NEW m \in Nat
  PROVE  \A n \in 0 .. m : Until(n) <= Until(m)
<1> DEFINE T == {d \in Nat : d <= m /\ ~(Until(m - d) <= Until(m))}
<1>1. SUFFICES ASSUME T # {} PROVE FALSE
  <2>1. ASSUME NEW n \in 0 .. m PROVE Until(n) <= Until(m)
    <3>1. m - n \in Nat /\ m - n <= m /\ m - (m - n) = n
      OBVIOUS
    <3>2. m - n \notin T
      BY <1>1
    <3> QED BY <3>1, <3>2
  <2> QED BY <2>1
<1>2. PICK d \in T : \A e \in T : d <= e
  BY <1>1, LeastElement
<1>3. d \in Nat /\ d <= m /\ ~(Until(m - d) <= Until(m)) /\ m - d \in Nat /\ Until(m) \in Nat
  BY <1>2, UntilGrows
<1>4. d # 0
  BY <1>3
<1>5. d - 1 \in Nat /\ d - 1 <= m /\ ~(d <= d - 1) /\ m - (d - 1) = (m - d) + 1
  BY <1>3, <1>4
<1>6. Until((m - d) + 1) <= Until(m)
  <2>1. d - 1 \notin T
    BY <1>2, <1>5
  <2> QED BY <2>1, <1>5
<1>7. Until(m - d) <= Until((m - d) + 1) /\ Until(m - d) \in Nat /\ Until((m - d) + 1) \in Nat
  BY <1>3, UntilGrows
<1> QED BY <1>3, <1>6, <1>7

\* retrans_counter is one ahead of the messages sent, and stops in time.
Counted(t) ==
  /\ sent[t] = 0 => t \notin live /\ ~acked[t] /\ age[t] = 0
  /\ sent[t] > 0 => counter[t] = sent[t] + 1
  /\ sent[t] <= MaxRetransmit + 1

\* What is known of t once its caller was told.
Told(t) ==
  /\ acked[t] => answered[t]
  /\ outcome[t] = "timeout" /\ ~answered[t] => sent[t] = MaxRetransmit + 1
  /\ outcome[t] = "denied" => sent[t] >= MaxRetransmit - 1
  /\ outcome[t] # "none" => t \notin live /\ sent[t] > 0

\* The seconds that steps which returned early may have cost.
Held == stalls * Pause

\* As long as t hears nothing, due[t] is the rest of its current waiting time, or
\* what has passed since.
Clocked(t) ==
  ~answered[t] =>
    /\ t \in live => age[t] + due[t] = Until(counter[t] - 1)
    /\ outcome[t] = "timeout" =>
         age[t] \in Until(MaxRetransmit + 1) .. Until(MaxRetransmit + 1) + Held

\* No transaction is overdue by more than the steps that returned early have cost,
\* nor will it be at the end of the sleep.
Awaited(t) == t \in live => due[t] + Held >= sleep

SentInv == TypeOK /\ \A t \in Transactions : Counted(t) /\ Told(t)

IInv == SentInv /\ \A t \in Transactions : Clocked(t) /\ Awaited(t)

\* An early return may cost one sleep more.
LEMMA HeldGrows ==
  ASSUME stalls \in Nat
  PROVE  /\ Held \in Nat
         /\ stalls' = stalls => Held' = Held
         /\ stalls' = stalls + 1 => Held' = Held + Pause
<1>1. \A n, p \in Nat : n * p \in Nat /\ (n + 1) * p = n * p + p
  OBVIOUS
<1>2. Pause \in Nat
  BY TransactionAssumption
<1> QED BY <1>1, <1>2 DEF Held

\* The sleep is a second at least, and does not outlast the time until a
\* transaction is due.
LEMMA NapEnds ==
  ASSUME NEW d \in [Transactions -> Int], live \subseteq Transactions
  PROVE  /\ Nap(d) \in 1 .. Pause
         /\ \A t \in live : Nap(d) <= 1 \/ Nap(d) <= d[t]
<1> DEFINE Allowed(n) == \A t \in live : n <= 1 \/ n <= d[t]
           T == {k \in 0 .. Pause - 1 : Allowed(Pause - k)}
<1>p. Pause \in Nat \ {0}
  BY TransactionAssumption
<1>1. T \subseteq Nat /\ T # {}
  <2>1. Pause - 1 \in 0 .. Pause - 1 /\ Pause - (Pause - 1) = 1
    BY <1>p
  <2>2. Allowed(1)
    OBVIOUS
  <2> QED BY <1>p, <2>1, <2>2
<1>2. PICK k \in T : \A j \in T : k <= j
  <2> HIDE DEF T
  <2> QED BY <1>1, LeastElement
<1>3. ASSUME NEW m \in 1 .. Pause, Allowed(m) PROVE m <= Pause - k
  <2>1. Pause - m \in 0 .. Pause - 1 /\ Pause - (Pause - m) = m
    BY <1>p
  <2>2. Pause - m \in T
    BY <1>3, <2>1
  <2>3. k <= Pause - m /\ k \in 0 .. Pause - 1
    BY <1>2, <2>2
  <2> QED BY <1>p, <2>3
<1>4. Pause - k \in 1 .. Pause /\ Allowed(Pause - k)
  BY <1>p, <1>2
<1>5. \E n \in 1 .. Pause : Allowed(n) /\ \A m \in 1 .. Pause : Allowed(m) => m <= n
  BY <1>3, <1>4
<1>6. Nap(d) = CHOOSE n \in 1 .. Pause :
                 Allowed(n) /\ \A m \in 1 .. Pause : Allowed(m) => m <= n
  BY DEF Nap
<1> HIDE DEF Allowed
<1>7. Nap(d) \in 1 .. Pause /\ Allowed(Nap(d))
  BY <1>5, <1>6
<1> QED BY <1>7 DEF Allowed

\* Nothing was sent, nobody was told.
LEMMA InitInvariant == Init => IInv
<1> USE TransactionAssumption DEF Init, IInv, SentInv, TypeOK, Counted, Told, Clocked, Awaited
<1> QED OBVIOUS

\* The wait that follows a message sent again.
LEMMA BackoffIs ==
  ASSUME SentInv, NEW t \in Resent
  PROVE  /\ t \in live /\ due[t] <= 0 /\ ~acked[t]
         /\ counter[t] = sent[t] + 1 /\ counter[t] - 1 \in Nat /\ counter[t] <= MaxRetransmit + 1
         /\ counter[t] \in Nat /\ Backoff(t) \in Nat \ {0}
         /\ Until(counter[t]) = Until(counter[t] - 1) + Backoff(t)
<1>1. t \in live /\ t \in Transactions /\ due[t] <= 0 /\ MayResend(t)
  BY DEF Resent, GivenUp, Due, SentInv, TypeOK
<1>2. /\ counter[t] = sent[t] + 1 /\ counter[t] - 1 \in Nat /\ counter[t] <= MaxRetransmit + 1
      /\ counter[t] \in Nat
  BY <1>1, TransactionAssumption DEF MayResend, SentInv, TypeOK, Counted
<1>3. (counter[t] - 1) + 1 = counter[t]
  BY <1>2
<1>4. Until(counter[t]) = Until(counter[t] - 1) + Backoff(t) /\ Backoff(t) \in Nat
  BY <1>2, <1>3, UntilGrows DEF Backoff
<1>5. Backoff(t) # 0
  <2>1. Shift[counter[t] - 1] \in Nat \ {0}
    BY <1>2, ShiftIsPositive
  <2>2. \A a, b \in Nat \ {0} : a * b # 0
    OBVIOUS
  <2> QED BY <2>1, <2>2, TransactionAssumption DEF Backoff
<1> QED BY <1>1, <1>2, <1>4, <1>5 DEF MayResend

\* Every step keeps the counts: only New and CompleteStep touch counter and sent,
\* both at once; the steps that tell the caller know why.
LEMMA SentInvariant == SentInv /\ [Next]_vars => SentInv'
<1> SUFFICES ASSUME SentInv, [Next]_vars PROVE SentInv'
  OBVIOUS
<1> USE TransactionAssumption DEF SentInv, TypeOK, Counted, Told, clock, Woken, Heard, Finish
<1>1. ASSUME NEW t \in Transactions, New(t) PROVE SentInv'
  BY <1>1 DEF New
<1>2. ASSUME CompleteStep PROVE SentInv'
  <2>1. ASSUME NEW t \in Resent
        PROVE  /\ t \in live /\ ~acked[t] /\ counter[t] = sent[t] + 1
               /\ counter[t] <= MaxRetransmit + 1 /\ Backoff(t) \in Int
    BY BackoffIs
  <2>2. ASSUME NEW t \in GivenUp PROVE t \in live /\ (~answered[t] => sent[t] = MaxRetransmit + 1)
    BY DEF GivenUp, Due, MayResend
  <2>3. due' \in [Transactions -> Int]
    BY <1>2, <2>1 DEF CompleteStep
  <2>4. sleep' \in 0 .. Pause
    BY <1>2, <2>3, NapEnds DEF CompleteStep
  <2>5. /\ counter' \in [Transactions -> 0 .. MaxRetransmit + 2]
        /\ sent' \in [Transactions -> Nat]
    BY <1>2, <2>1 DEF CompleteStep
  <2>6. TypeOK'
    BY <1>2, <2>3, <2>4, <2>5 DEF CompleteStep
  <2>7. ASSUME NEW t \in Transactions PROVE Counted(t)'
    BY <1>2, <2>1 DEF CompleteStep
  <2>8. ASSUME NEW t \in Transactions PROVE Told(t)'
    <3>1. CASE t \in GivenUp
      <4>1. t \notin Resent /\ t \in live
        BY <2>2, <3>1 DEF Resent
      <4> QED BY <1>2, <2>2, <3>1, <4>1 DEF CompleteStep
    <3>2. CASE t \notin GivenUp
      <4>1. outcome'[t] = outcome[t] /\ (t \in Resent => t \in live)
        BY <1>2, <2>1, <3>2 DEF CompleteStep
      <4> QED BY <1>2, <3>2, <4>1 DEF CompleteStep
    <3> QED BY <3>1, <3>2
  <2> QED BY <2>6, <2>7, <2>8
<1>3. ASSUME EarlyReturn PROVE SentInv'
  BY <1>3 DEF EarlyReturn
<1>4. ASSUME Tick PROVE SentInv'
  BY <1>4 DEF Tick
<1>5. ASSUME NEW t \in Transactions, HandleAck(t) PROVE SentInv'
  <2>1. ResponseTimeout * counter[t] \in Nat
    <3>1. \A r, s \in Nat : r * s \in Nat
      OBVIOUS
    <3> QED BY <3>1
  <2> QED BY <1>5, <2>1 DEF HandleAck
<1>6. ASSUME NEW t \in Transactions, HandleReset(t) PROVE SentInv'
  BY <1>6 DEF HandleReset
<1>7. ASSUME NEW t \in Transactions, HandleDenial(t) PROVE SentInv'
  BY <1>7 DEF HandleDenial, MayBeDenied
<1>8. ASSUME NEW t \in Transactions, NEW type \in Types, HandleLastDenial(t, type)
      PROVE SentInv'
  <2>1. sent[t] >= MaxRetransmit - 1
    BY <1>8 DEF HandleLastDenial, MayBeDenied, Retried
  <2> QED BY <1>8, <2>1 DEF HandleLastDenial, MayBeDenied
<1>9. ASSUME NEW t \in Transactions, NEW type \in Types, HandleResponse(t, type)
      PROVE SentInv'
  BY <1>9 DEF HandleResponse
<1>10. ASSUME UNCHANGED vars PROVE SentInv'
  BY <1>10 DEF vars
<1> QED
  BY <1>1, <1>2, <1>3, <1>4, <1>5, <1>6, <1>7, <1>8, <1>9, <1>10 DEF Next, Turn, Handle

\* Every step keeps the clock of a transaction that hears nothing: a message
\* sent again adds its waiting time, a second moves from due to age.
LEMMA ClockInvariant ==
  ASSUME IInv, [Next]_vars, NEW u \in Transactions
  PROVE  Clocked(u)'
<1> USE TransactionAssumption DEF IInv, SentInv, TypeOK, Clocked, clock, Woken, Heard, Finish
<1>h. Held \in Nat /\ (stalls' = stalls => Held' = Held)
      /\ (stalls' = stalls + 1 => Held' = Held + Pause)
  BY HeldGrows
<1>u. Until(MaxRetransmit + 1) \in Nat
  BY UntilGrows
<1>1. ASSUME NEW t \in Transactions, New(t) PROVE Clocked(u)'
  BY <1>1, <1>h, UntilGrows DEF New, Counted, Told
<1>2. ASSUME CompleteStep PROVE Clocked(u)'
  <2>1. Held' = Held /\ answered' = answered /\ age' = age
    BY <1>2, <1>h DEF CompleteStep
  <2>2. CASE u \in Resent
    <3>1. /\ due'[u] = due[u] + Backoff(u) /\ counter'[u] = counter[u] + 1
          /\ (counter[u] + 1) - 1 = counter[u]
      BY <1>2, <2>2, BackoffIs DEF CompleteStep, Resent
    <3>2. outcome'[u] = outcome[u] /\ outcome[u] = "none" /\ u \in live
      BY <1>2, <2>2, BackoffIs DEF CompleteStep, Resent, Told
    <3>3. /\ Until(counter[u]) = Until(counter[u] - 1) + Backoff(u) /\ Backoff(u) \in Nat
          /\ Until(counter[u] - 1) \in Nat
      BY <2>2, BackoffIs, UntilGrows
    <3> QED BY <2>1, <3>1, <3>2, <3>3
  <2>3. CASE u \in GivenUp
    <3>1. ~answered[u] => counter[u] = MaxRetransmit + 2
      BY <2>3 DEF GivenUp, Due, MayResend, Counted, Told
    <3>2. (MaxRetransmit + 2) - 1 = MaxRetransmit + 1 /\ due[u] <= 0 /\ u \in live
      BY <2>3 DEF GivenUp, Due
    <3>3. due[u] + Held >= 0
      BY <1>h, <3>2 DEF Awaited
    <3>4. ~answered[u] => age[u] + due[u] = Until(MaxRetransmit + 1)
      BY <3>1, <3>2
    <3>5. ~answered[u] => age[u] \in Until(MaxRetransmit + 1) .. Until(MaxRetransmit + 1) + Held
      BY <1>h, <1>u, <3>2, <3>3, <3>4
    <3>6. u \notin live'
      BY <1>2, <2>3 DEF CompleteStep
    <3> QED BY <2>1, <3>5, <3>6
  <2>4. CASE u \notin Resent /\ u \notin GivenUp
    <3>1. UNCHANGED <<due[u], counter[u], outcome[u]>> /\ (u \in live' => u \in live)
      BY <1>2, <2>4 DEF CompleteStep
    <3> QED BY <2>1, <3>1
  <2> QED BY <2>2, <2>3, <2>4
<1>3. ASSUME EarlyReturn PROVE Clocked(u)'
  BY <1>3, <1>h, <1>u DEF EarlyReturn
<1>4. ASSUME Tick PROVE Clocked(u)'
  <2>1. outcome[u] = "timeout" => u \notin live
    BY DEF Told
  <2>2. Held' = Held
    BY <1>4, <1>h DEF Tick
  <2>3. u \in live /\ ~answered[u] => age'[u] + due'[u] = age[u] + due[u]
    BY <1>4 DEF Tick
  <2>4. u \notin live => age'[u] = age[u]
    BY <1>4 DEF Tick
  <2> QED BY <1>4, <2>1, <2>2, <2>3, <2>4 DEF Tick
<1>5. ASSUME NEW t \in Transactions, Handle(t) PROVE Clocked(u)'
  <2>1. Held' = Held
    BY <1>5, <1>h DEF Handle, HandleAck, HandleReset, HandleDenial, HandleLastDenial, HandleResponse
  <2>2. u = t => answered'[u]
    BY <1>5 DEF Handle, HandleAck, HandleReset, HandleDenial, HandleLastDenial, HandleResponse
  <2>3. u # t => /\ UNCHANGED <<answered[u], age[u], due[u], counter[u], outcome[u]>>
                 /\ u \in live' => u \in live
    BY <1>5 DEF Handle, HandleAck, HandleReset, HandleDenial, HandleLastDenial, HandleResponse
  <2> QED BY <2>1, <2>2, <2>3
<1>6. ASSUME UNCHANGED vars PROVE Clocked(u)'
  BY <1>6, <1>h DEF vars
<1> QED BY <1>1, <1>2, <1>3, <1>4, <1>5, <1>6 DEF Next, Turn

\* Nothing is overdue by more than early returns have cost: a complete step puts
\* off what is due by more than the second it sleeps.
LEMMA AwaitedInvariant ==
  ASSUME IInv, [Next]_vars, NEW u \in Transactions
  PROVE  Awaited(u)'
<1> USE TransactionAssumption DEF IInv, SentInv, TypeOK, Awaited, clock, Woken, Heard, Finish
<1>h. Held \in Nat /\ (stalls' = stalls => Held' = Held)
      /\ (stalls' = stalls + 1 => Held' = Held + Pause)
  BY HeldGrows
<1>1. ASSUME NEW t \in Transactions, New(t) PROVE Awaited(u)'
  BY <1>1, <1>h DEF New
<1>2. ASSUME CompleteStep, u \in live' PROVE Awaited(u)'
  <2>1. Held' = Held /\ u \in live /\ u \notin GivenUp
    BY <1>2, <1>h DEF CompleteStep
  <2>2. due' \in [Transactions -> Int]
    BY <1>2, SentInvariant
  <2>3. sleep' \in 1 .. Pause /\ (sleep' <= 1 \/ sleep' <= due'[u])
    BY <1>2, <2>1, <2>2, NapEnds DEF CompleteStep
  <2>4. due'[u] + Held >= 1
    <3>1. CASE u \in Resent
      <4>1. due'[u] = due[u] + Backoff(u) /\ Backoff(u) \in Nat \ {0}
        BY <1>2, <3>1, BackoffIs DEF CompleteStep, Resent
      <4>2. due[u] \in Int /\ sleep \in Nat /\ due[u] + Held >= sleep
        BY <2>1
      <4> QED BY <1>h, <4>1, <4>2
    <3>2. CASE u \notin Resent
      <4>1. due'[u] = due[u] /\ due[u] > 0
        BY <1>2, <2>1, <3>2 DEF CompleteStep, Resent, Due
      <4> QED BY <1>h, <4>1
    <3> QED BY <3>1, <3>2
  <2> QED BY <1>h, <2>1, <2>2, <2>3, <2>4
<1>3. ASSUME EarlyReturn PROVE Awaited(u)'
  BY <1>3, <1>h DEF EarlyReturn
<1>4. ASSUME Tick PROVE Awaited(u)'
  BY <1>4, <1>h DEF Tick
<1>5. ASSUME NEW t \in Transactions, Handle(t) PROVE Awaited(u)'
  <2>0. ResponseTimeout * counter[t] \in Nat
    <3>1. \A r, s \in Nat : r * s \in Nat
      OBVIOUS
    <3> QED BY <3>1
  <2>1. Held' = Held /\ sleep' = 0 /\ (u \in live' => u \in live)
    BY <1>5, <1>h DEF Handle, HandleAck, HandleReset, HandleDenial, HandleLastDenial, HandleResponse
  <2>2. u \in live' => due'[u] \in Int /\ (due'[u] >= due[u] \/ due'[u] >= 0)
    BY <1>5, <2>0 DEF Handle, HandleAck, HandleReset, HandleDenial, HandleLastDenial, HandleResponse
  <2> QED BY <1>h, <2>1, <2>2
<1>6. ASSUME UNCHANGED vars PROVE Awaited(u)'
  BY <1>6, <1>h DEF vars
<1> QED BY <1>1, <1>2, <1>3, <1>4, <1>5, <1>6 DEF Next, Turn

\* IInv holds in every reachable state.
THEOREM Invariance == Spec => []IInv
<1>1. IInv /\ [Next]_vars => IInv'
  BY SentInvariant, ClockInvariant, AwaitedInvariant DEF IInv
<1> QED BY <1>1, InitInvariant, PTL DEF Spec

\* Every variable keeps its type: retrans_counter stops at MaxRetransmit + 2.
THEOREM TypeCorrect == Spec => []TypeOK
<1>1. IInv => TypeOK
  BY DEF IInv, SentInv
<1> QED BY <1>1, Invariance, PTL

\* A transaction that hears nothing is given up when COAP_MAX_TRANSMIT_WAIT is
\* over, later only by the sleeps after steps that returned early, for any
\* ResponseTimeout, MaxRetransmit and Pause and any number of early returns
\* (transaction.c:396-411, liblwm2m.c:382,406,420,431).
THEOREM SilenceIsTimed == Spec => []SilenceEndsInTime
<1>1. IInv => SilenceEndsInTime
  <2> SUFFICES ASSUME IInv, NEW t \in Transactions, ~answered[t]
               PROVE  /\ t \in live => age[t] <= MaxTransmitWait + Held
                      /\ outcome[t] = "timeout" =>
                           age[t] \in MaxTransmitWait .. MaxTransmitWait + Held
    BY DEF SilenceEndsInTime, Held
  <2> USE TransactionAssumption DEF IInv, SentInv, TypeOK
  <2>1. MaxTransmitWait = Until(MaxRetransmit + 1) /\ MaxRetransmit + 1 \in Nat
    BY DEF MaxTransmitWait, Until
  <2>2. ASSUME t \in live PROVE age[t] <= MaxTransmitWait + Held
    <3>1. counter[t] - 1 \in 0 .. MaxRetransmit + 1
      BY <2>2 DEF Counted
    <3>2. Until(counter[t] - 1) <= Until(MaxRetransmit + 1)
      BY <2>1, <3>1, UntilIsMonotonic
    <3>3. age[t] + due[t] = Until(counter[t] - 1) /\ Until(counter[t] - 1) \in Nat
      BY <2>2, <3>1, UntilGrows DEF Clocked
    <3>4. Until(MaxRetransmit + 1) \in Nat
      BY <2>1, UntilGrows
    <3>5. Held \in Nat /\ due[t] + Held >= sleep
      BY <2>2, HeldGrows DEF Awaited
    <3> QED BY <2>1, <3>2, <3>3, <3>4, <3>5
  <2> QED BY <2>1, <2>2 DEF Clocked
<1> QED BY <1>1, Invariance, PTL

\* Whatever replies come and whenever, a message is sent MaxRetransmit + 1
\* times at most, "timeout" without an answer means that many, and "denied"
\* at least MaxRetransmit - 1 (transaction_send's and
\* transaction_handleResponse's checks of retrans_counter).
THEOREM SendsBounded == Spec => []SentAtMost
<1>1. IInv => SentAtMost
  BY DEF IInv, SentInv, Counted, Told, SentAtMost
<1> QED BY <1>1, Invariance, PTL

\* While ack_received is set transaction_send does not send.
THEOREM PatienceKept == Spec => PatientOnceAcked
<1>1. IInv /\ [Next]_vars
        => [\A t \in Transactions : acked[t] => sent'[t] = sent[t]]_vars
  <2> SUFFICES ASSUME IInv, Next, NEW u \in Transactions, acked[u]
               PROVE sent'[u] = sent[u]
    BY Zenon DEF vars
  <2> USE DEF IInv, SentInv, TypeOK, Counted
  <2>1. ASSUME NEW t \in Transactions, New(t) PROVE sent'[u] = sent[u]
    BY <2>1 DEF New
  <2>2. ASSUME CompleteStep PROVE sent'[u] = sent[u]
    <3>1. u \notin Resent
      BY DEF Resent, GivenUp, MayResend
    <3> QED BY <2>2, <3>1 DEF CompleteStep
  <2>3. ASSUME NEW t \in Transactions, Handle(t) PROVE sent'[u] = sent[u]
    BY <2>3 DEF Handle, HandleAck, HandleReset, HandleDenial, HandleLastDenial, HandleResponse
  <2>4. ASSUME EarlyReturn \/ Tick PROVE sent'[u] = sent[u]
    BY <2>4 DEF EarlyReturn, Tick
  <2> QED BY <2>1, <2>2, <2>3, <2>4 DEF Next, Turn
<1> QED BY <1>1, Invariance, PTL DEF Spec, PatientOnceAcked

==============================================================================
