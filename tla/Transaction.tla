----------------------------- MODULE Transaction -----------------------------
(***************************************************************************)
(* CoAP transactions of the LWM2M client: src/lwm2m/core/transaction.c and *)
(* the part of packet.c that hands responses to it.                        *)
(*                                                                         *)
(* A transaction stands for its message, a request with a token: the       *)
(* client gives every one an mID of its own, and the token is made from    *)
(* the mID and the time, so that a reply matches one transaction at most.  *)
(* Server and network are an environment: once the message was sent any    *)
(* reply to it may arrive at any time, any number of times, or never,      *)
(* which is what a server that answers as it likes and a network that      *)
(* loses, duplicates, delays and reorders do.  Replies that match nothing  *)
(* change nothing and are stuttering steps.                                *)
(*                                                                         *)
(* Time is counted in seconds from now: due[t] is retrans_time - now.  The *)
(* client's main loop runs lwm2m_step and then sleeps until a packet comes *)
(* or the time is over that transaction_step allows.  But lwm2m_step may   *)
(* return before it comes to transaction_step, when a server cannot be     *)
(* connected or there is none to bootstrap from: then the loop sleeps as   *)
(* long as it ever does, whatever is due.                                  *)
(***************************************************************************)
EXTENDS Integers, FiniteSets

CONSTANTS Transactions,    \* the messages the client will send
          ResponseTimeout, \* COAP_RESPONSE_TIMEOUT
          MaxRetransmit,   \* COAP_MAX_RETRANSMIT
          Pause,           \* the longest sleep of the main loop, 60 seconds
          MaxDuplicates,   \* bound: denials a transaction gets beyond one per message
          MaxStalls        \* bound: times that lwm2m_step returns early

ASSUME TransactionAssumption ==
  /\ ResponseTimeout \in Nat \ {0} /\ Pause \in Nat \ {0}
  /\ MaxRetransmit \in Nat /\ MaxDuplicates \in Nat /\ MaxStalls \in Nat

VARIABLES
  live,     \* contextP->transactionList
  counter,  \* retrans_counter
  acked,    \* ack_received
  due,      \* retrans_time, in seconds from now
  outcome,  \* what the callback was told: "timeout", "reset", "ok", "denied"
  sleep,    \* the seconds the main loop may sleep before its next turn
  stalls,   \* the times that lwm2m_step returned early
  sent,     \* history: times the message was sent
  denials,  \* history: denials received
  answered, \* history: an acknowledgement or a denial was received
  age       \* history: seconds since the first message, 0 once answered

clock == <<sleep, stalls>>
vars == <<live, counter, acked, due, outcome, clock, sent, denials, answered, age>>

Types == {"ACK", "CON", "NON"}

TypeOK ==
  /\ live \subseteq Transactions
  /\ counter \in [Transactions -> 0 .. MaxRetransmit + 2]
  /\ acked \in [Transactions -> BOOLEAN]
  /\ due \in [Transactions -> Int]
  /\ outcome \in [Transactions -> {"none", "timeout", "reset", "ok", "denied"}]
  /\ sleep \in 0 .. Pause /\ stalls \in 0 .. MaxStalls
  /\ sent \in [Transactions -> Nat]
  /\ denials \in [Transactions -> Nat]
  /\ answered \in [Transactions -> BOOLEAN]
  /\ age \in [Transactions -> Nat]

Init ==
  /\ live = {}
  /\ counter = [t \in Transactions |-> 0]
  /\ acked = [t \in Transactions |-> FALSE]
  /\ due = [t \in Transactions |-> 0]
  /\ outcome = [t \in Transactions |-> "none"]
  /\ sleep = 0 /\ stalls = 0
  /\ sent = [t \in Transactions |-> 0]
  /\ denials = [t \in Transactions |-> 0]
  /\ answered = [t \in Transactions |-> FALSE]
  /\ age = [t \in Transactions |-> 0]

------------------------------------------------------------------------------
\* The callback, and transaction_remove, which frees the transaction's state.
Finish(t, what) ==
  /\ outcome' = [outcome EXCEPT ![t] = what]
  /\ live' = live \ {t}
  /\ due' = [due EXCEPT ![t] = 0]

\* transaction_new, and the first transaction_send, in a step or in the answer to
\* a packet: no sleep before transaction_step, or an early return, comes after it.
New(t) ==
  /\ sent[t] = 0 /\ sleep' = 0
  /\ live' = live \cup {t}
  /\ counter' = [counter EXCEPT ![t] = 2]
  /\ due' = [due EXCEPT ![t] = ResponseTimeout]
  /\ sent' = [sent EXCEPT ![t] = 1]
  /\ UNCHANGED <<acked, outcome, stalls, denials, answered, age>>

\* MUTANT of MayResend: one more time.
MayResendOnceMore(t) == ~acked[t] /\ MaxRetransmit + 2 >= counter[t]

MayResend(t) == ~acked[t] /\ MaxRetransmit + 1 >= counter[t]

\* 1 << n
Shift[n \in Nat] == IF n = 0 THEN 1 ELSE 2 * Shift[n - 1]

\* MUTANT of Backoff: the shift is one too many.
BackoffLate(t) == ResponseTimeout * Shift[counter[t]]

\* How much later than this time the next one is.
Backoff(t) == ResponseTimeout * Shift[counter[t] - 1]

\* transaction_step finds these due.  It sends the message once more, or it gives
\* up: no acknowledgement after the last time, or no response after one.
Due == {t \in live : due[t] <= 0}
GivenUp == {t \in Due : ~MayResend(t)}
Resent == Due \ GivenUp

\* The sleep that transaction_step allows: until the next transaction is due, and
\* a second if one was given up or is still due.
Nap(deadline) ==
  CHOOSE n \in 1 .. Pause :
    /\ \A t \in live : n <= 1 \/ n <= deadline[t]
    /\ \A m \in 1 .. Pause : (\A t \in live : m <= 1 \/ m <= deadline[t]) => m <= n

\* A turn of the main loop, at the end of the sleep or for a packet, whose
\* lwm2m_step comes to transaction_step.
CompleteStep ==
  /\ live' = live \ GivenUp
  /\ outcome' = [t \in Transactions |-> IF t \in GivenUp THEN "timeout" ELSE outcome[t]]
  /\ sent' = [t \in Transactions |-> IF t \in Resent THEN sent[t] + 1 ELSE sent[t]]
  /\ due' = [t \in Transactions |-> CASE t \in Resent -> due[t] + Backoff(t)
                                      [] t \in GivenUp -> 0
                                      [] OTHER -> due[t]]
  /\ counter' = [t \in Transactions |-> IF t \in Resent THEN counter[t] + 1 ELSE counter[t]]
  /\ sleep' = Nap(due')
  /\ UNCHANGED <<acked, stalls, denials, answered, age>>

\* A turn whose lwm2m_step returns early, COAP_503_SERVICE_UNAVAILABLE or another
\* error of registration_start: the sleep keeps its first value.
EarlyReturn ==
  /\ stalls < MaxStalls /\ stalls' = stalls + 1
  /\ sleep' = Pause
  /\ UNCHANGED <<live, counter, acked, due, outcome, sent, denials, answered, age>>

\* A second of the sleep passes.
Tick ==
  /\ live # {}
  /\ sleep > 0 /\ sleep' = sleep - 1
  /\ due' = [t \in Transactions |-> IF t \in live THEN due[t] - 1 ELSE due[t]]
  /\ age' = [t \in Transactions |-> IF t \in live /\ ~answered[t] THEN age[t] + 1 ELSE age[t]]
  /\ UNCHANGED <<live, counter, acked, outcome, stalls, sent, denials, answered>>

------------------------------------------------------------------------------
\* transaction_handleResponse, one action per kind of reply to t.  A packet ends
\* the sleep.

Woken == sleep' = 0 /\ UNCHANGED stalls

Heard(t) == /\ answered' = [answered EXCEPT ![t] = TRUE]
            /\ age' = [age EXCEPT ![t] = 0]

\* MUTANT of HandleAck: a repeated acknowledgement starts the wait again.
HandleAckAgain(t) ==
  /\ t \in live
  /\ acked' = [acked EXCEPT ![t] = TRUE]
  /\ Heard(t)
  /\ due' = [due EXCEPT ![t] = ResponseTimeout * counter[t]]
  /\ UNCHANGED <<live, counter, outcome, sent, denials>> /\ Woken

\* An empty acknowledgement: the response is still to come.
HandleAck(t) ==
  /\ t \in live /\ ~acked[t]
  /\ acked' = [acked EXCEPT ![t] = TRUE]
  /\ Heard(t)
  /\ due' = [due EXCEPT ![t] = ResponseTimeout * counter[t]]
  /\ UNCHANGED <<live, counter, outcome, sent, denials>> /\ Woken

\* A reset; after an acknowledgement it is not looked at.
HandleReset(t) ==
  /\ t \in live /\ ~acked[t]
  /\ acked' = [acked EXCEPT ![t] = TRUE]
  /\ Heard(t)
  /\ Finish(t, "reset")
  /\ UNCHANGED <<counter, sent, denials>> /\ Woken

\* "we resend transaction that were denied for authentication reason".
Retried(t) == MaxRetransmit > counter[t]

\* The network does not make denials out of nothing.
MayBeDenied(t) == t \in live /\ denials[t] < sent[t] + MaxDuplicates

\* A response 4.01, with the token, for which the message is sent again.
HandleDenial(t) ==
  /\ MayBeDenied(t) /\ Retried(t)
  /\ acked' = [acked EXCEPT ![t] = FALSE]
  /\ Heard(t)
  /\ denials' = [denials EXCEPT ![t] = @ + 1]
  /\ due' = [due EXCEPT ![t] = @ + ResponseTimeout]
  /\ UNCHANGED <<live, counter, outcome, sent>> /\ Woken

\* A response 4.01 too many.
HandleLastDenial(t, type) ==
  /\ MayBeDenied(t) /\ ~Retried(t)
  /\ acked' = [acked EXCEPT ![t] = @ \/ type = "ACK"]
  /\ Heard(t)
  /\ denials' = [denials EXCEPT ![t] = @ + 1]
  /\ Finish(t, "denied")
  /\ UNCHANGED <<counter, sent>> /\ Woken

\* Any other response with the token, piggybacked or separate.
HandleResponse(t, type) ==
  /\ t \in live
  /\ acked' = [acked EXCEPT ![t] = @ \/ type = "ACK"]
  /\ Heard(t)
  /\ Finish(t, "ok")
  /\ UNCHANGED <<counter, sent, denials>> /\ Woken

------------------------------------------------------------------------------
Turn == CompleteStep \/ EarlyReturn

Handle(t) ==
  \/ HandleAck(t) \/ HandleReset(t) \/ HandleDenial(t)
  \/ \E type \in Types : HandleLastDenial(t, type) \/ HandleResponse(t, type)

Next == Tick \/ Turn \/ \E t \in Transactions : New(t) \/ Handle(t)

Spec == Init /\ [][Next]_vars

\* The client loop runs and time passes, and lwm2m_step does not return early for
\* ever; server and network owe nothing.
FairSpec == Spec /\ WF_vars(Tick) /\ WF_vars(CompleteStep)

------------------------------------------------------------------------------
\* COAP_MAX_TRANSMIT_WAIT (er-coap-13.h:63), the random factor being one.
MaxTransmitWait == ResponseTimeout * (Shift[MaxRetransmit + 1] - 1)

\* A transaction that hears nothing ends after that time and not before; each
\* time that lwm2m_step returns early (liblwm2m.c:382,406,420,431) makes it later
\* by the longest sleep at most, although a message that is sent late does not
\* move the times of those after it (transaction.c:405).
SilenceEndsInTime ==
  \A t \in Transactions :
    ~answered[t] => /\ t \in live => age[t] <= MaxTransmitWait + stalls * Pause
                    /\ outcome[t] = "timeout" =>
                         age[t] \in MaxTransmitWait .. MaxTransmitWait + stalls * Pause

\* However often the server acknowledges, denies and repeats itself, the
\* message is sent MaxRetransmit + 1 times at most (transaction.c:401), and
\* the caller is told "timeout" without an answer only after that many, and
\* "denied" only after MaxRetransmit - 1 (transaction.c:304-312).
SentAtMost ==
  \A t \in Transactions :
    /\ sent[t] <= MaxRetransmit + 1
    /\ outcome[t] = "timeout" /\ ~answered[t] => sent[t] = MaxRetransmit + 1
    /\ outcome[t] = "denied" => sent[t] >= MaxRetransmit - 1

\* After an acknowledgement the message is not sent again, unless the server
\* denies it (transaction.c:380).
PatientOnceAcked ==
  [][\A t \in Transactions : acked[t] => sent'[t] = sent[t]]_vars

\* Every transaction ends and its caller is told, though every reply may be
\* lost, and though the server may acknowledge again and again without ever
\* sending a response.
EveryTransactionEnds ==
  \A t \in Transactions : t \in live ~> outcome[t] # "none"

==============================================================================
