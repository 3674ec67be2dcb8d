---------------------------- MODULE BlockTransfer ----------------------------
(***************************************************************************)
(* Block-wise requests to the LWM2M client: coap_block1_handler of         *)
(* src/lwm2m/core/block1.c and its caller lwm2m_handle_packet, with a      *)
(* server that sends a body block by block over a network that loses,      *)
(* delays and duplicates.                                                  *)
(*                                                                         *)
(* Bodies are measured in units.  The server starts with blocks of         *)
(* ServerSize units and goes on with the size of the client's answers, no  *)
(* more than Chunk.  A message id is used for one block of one attempt: a  *)
(* message is its own id.                                                  *)
(*                                                                         *)
(* An orderly server begins a transfer when no message of an earlier one   *)
(* can still arrive.  One that is not may also run transfers to several    *)
(* resources at once, and messages of abandoned ones may be delayed.       *)
(***************************************************************************)
EXTENDS Integers, Sequences, SequencesExt

CONSTANTS Transfers, Uris,
          Uri,          \* transfer -> the resource it is for
          Length,       \* transfer -> units of its body
          ServerSize,   \* units of a block as the server would have it
          Chunk,        \* REST_MAX_CHUNK_SIZE
          MaxBlock1Size,\* MAX_BLOCK1_SIZE
          MaxTries,     \* the server begins a body so often
          MaxEarly      \* bound: repetitions sent although an answer is under way

ASSUME BlockAssumption ==
  /\ Uri \in [Transfers -> Uris] /\ Length \in [Transfers -> Nat \ {0}]
  /\ ServerSize \in Nat \ {0} /\ Chunk \in Nat \ {0} /\ ServerSize % Chunk = 0
  /\ MaxBlock1Size \in Nat /\ MaxTries \in Nat \ {0} /\ MaxEarly \in Nat

VARIABLES
  orderly,    \* the kind of server; fixed
  status,     \* transfer -> what the server knows of it
  current,    \* transfer -> the block it waits for an answer to
  blocks,     \* blocks in flight
  answers,    \* answers in flight
  early,      \* repetitions sent early
  block1Data, \* lwm2m_block1_data_t: lastmid and the buffer; NoData is NULL
  handed,     \* resource -> the payload it was handed last
  begun       \* history: the transfers begun, in order

serverVars == <<status, current, early, begun>>
clientVars == <<block1Data, handed>>
vars == <<orderly, serverVars, blocks, answers, clientVars>>

NoData == [lastmid |-> {}, buffer |-> << >>]
Least(m, n) == IF m < n THEN m ELSE n

\* The block of transfer t, in an attempt, at an offset: num is off / size, and
\* more is set on all but the last.
Block(t, try, off, size) ==
  [transfer |-> t, try |-> try, off |-> off, size |-> size,
   last |-> off + size >= Length[t]]

Units(b) == [i \in 1 .. Least(b.size, Length[b.transfer] - b.off) |->
               [transfer |-> b.transfer, off |-> b.off + i - 1]]

Codes == {"continue", "changed", "incomplete", "too large"}
Over == {"done", "refused", "failed", "abandoned"}

TypeOK ==
  /\ orderly \in BOOLEAN
  /\ status \in [Transfers -> {"new", "sending"} \cup Over]
  /\ early \in 0 .. MaxEarly
  /\ \A t \in Transfers : status[t] # "new" =>
       LET b == current[t] IN
         /\ b = Block(t, b.try, b.off, b.size)
         /\ b.try \in 1 .. MaxTries /\ b.off \in 0 .. Length[t] - 1
         /\ b.size \in {ServerSize, Chunk} /\ b.off % b.size = 0
  /\ \A b \in blocks : b.off % b.size = 0 /\ b.off < Length[b.transfer]
  /\ \A a \in answers : a.code \in Codes /\ a.size <= Chunk
  /\ Len(block1Data.buffer) < MaxBlock1Size
  /\ Range(begun) = {t \in Transfers : status[t] # "new"}

Init ==
  /\ orderly \in BOOLEAN
  /\ status = [t \in Transfers |-> "new"]
  /\ current = [t \in Transfers |-> Block(t, 1, 0, ServerSize)]
  /\ blocks = {} /\ answers = {} /\ early = 0
  /\ block1Data = NoData /\ handed = [u \in Uris |-> << >>]
  /\ begun = << >>

------------------------------------------------------------------------------
\* The server.

MayBegin(t) ==
  /\ status[t] = "new"
  /\ \A v \in Transfers : status[v] = "sending" => ~orderly /\ Uri[v] # Uri[t]
  /\ orderly => blocks = {}

Begin(t) ==
  /\ MayBegin(t)
  /\ status' = [status EXCEPT ![t] = "sending"]
  /\ begun' = Append(begun, t)
  /\ UNCHANGED <<orderly, current, early, blocks, answers, clientVars>>

\* Answers nobody waits for any more are ignored: only others are kept.
Awaited(S) == {a \in S : LET t == a.mid.transfer IN status'[t] = "sending" /\ current'[t] = a.mid}

Answered(t) == \E a \in answers : a.mid = current[t]

\* The current block is sent, and again when it or the answer is lost.
Send(t) ==
  /\ status[t] = "sending" /\ current[t] \notin blocks /\ ~Answered(t)
  /\ blocks' = blocks \cup {current[t]}
  /\ UNCHANGED <<orderly, serverVars, answers, clientVars>>

\* It is repeated although the answer is under way.
SendEarly(t) ==
  /\ status[t] = "sending" /\ current[t] \notin blocks /\ Answered(t)
  /\ early < MaxEarly /\ early' = early + 1
  /\ blocks' = blocks \cup {current[t]}
  /\ UNCHANGED <<orderly, status, current, begun, answers, clientVars>>

\* After an answer: the next block in the size the client asks for, again from
\* the start, or the end.
Advance(t, a) ==
  LET b == current[t] IN
    \/ /\ a.code = "continue"
       /\ current' = [current EXCEPT ![t] =
                        Block(t, b.try, b.off + b.size, Least(a.size, b.size))]
       /\ UNCHANGED status
    \/ /\ a.code = "incomplete" /\ b.try < MaxTries
       /\ current' = [current EXCEPT ![t] = Block(t, b.try + 1, 0, b.size)]
       /\ UNCHANGED status
    \/ /\ a.code = "incomplete" /\ b.try = MaxTries
       /\ status' = [status EXCEPT ![t] = "failed"] /\ UNCHANGED current
    \/ /\ a.code = "changed"
       /\ status' = [status EXCEPT ![t] = "done"] /\ UNCHANGED current
    \/ /\ a.code = "too large"
       /\ status' = [status EXCEPT ![t] = "refused"] /\ UNCHANGED current

Hear(a) ==
  /\ a \in answers
  /\ Advance(a.mid.transfer, a)
  /\ answers' = Awaited(answers)
  /\ UNCHANGED <<orderly, early, begun, blocks, clientVars>>

Abandon(t) ==
  /\ status[t] = "sending"
  /\ status' = [status EXCEPT ![t] = "abandoned"]
  /\ UNCHANGED current
  /\ answers' = Awaited(answers)
  /\ UNCHANGED <<orderly, early, begun, blocks, clientVars>>

Lose ==
  /\ \/ \E b \in blocks : blocks' = blocks \ {b} /\ UNCHANGED answers
     \/ \E a \in answers : answers' = answers \ {a} /\ UNCHANGED blocks
  /\ UNCHANGED <<orderly, serverVars, clientVars>>

------------------------------------------------------------------------------
\* The client: coap_block1_handler.

Kept(d) == [data |-> d, code |-> "ok"]
Refused(d, code) == [data |-> d, code |-> code]

\* MUTANT of Accumulate: the place of the block is not checked.
AccumulateAnywhere(d, b) ==
  IF b.off = 0 THEN Kept([lastmid |-> {b}, buffer |-> Units(b)])
  ELSE IF d = NoData THEN Refused(d, "incomplete")
  ELSE IF b \in d.lastmid THEN Kept(d)
  ELSE Kept([lastmid |-> {b}, buffer |-> d.buffer \o Units(b)])

\* MUTANT of Accumulate: a repeated block is not recognised.
AccumulateTwice(d, b) ==
  IF b.off = 0 THEN Kept([lastmid |-> {b}, buffer |-> Units(b)])
  ELSE IF Len(d.buffer) # b.off THEN Refused(d, "incomplete")
  ELSE IF Len(d.buffer) + Len(Units(b)) >= MaxBlock1Size THEN Refused(d, "too large")
  ELSE Kept([lastmid |-> {b}, buffer |-> d.buffer \o Units(b)])

\* MUTANT of Accumulate: a first block is appended to what another transfer left.
AccumulateOn(d, b) ==
  IF d = NoData /\ b.off = 0 THEN Kept([lastmid |-> {b}, buffer |-> Units(b)])
  ELSE IF b \in d.lastmid THEN Kept(d)
  ELSE Kept([lastmid |-> {b}, buffer |-> d.buffer \o Units(b)])

\* A first block starts anew.  A later one is skipped when it is the last one
\* again, and otherwise must fit: in place and in size.
Accumulate(d, b) ==
  IF b.off = 0 THEN Kept([lastmid |-> {b}, buffer |-> Units(b)])
  ELSE IF d = NoData THEN Refused(d, "incomplete")
  ELSE IF b \in d.lastmid THEN Kept(d)
  ELSE IF Len(d.buffer) # b.off THEN Refused(d, "incomplete")
  ELSE IF Len(d.buffer) + Len(Units(b)) >= MaxBlock1Size THEN Refused(d, "too large")
  ELSE Kept([lastmid |-> {b}, buffer |-> d.buffer \o Units(b)])

\* More to come: 2.31 with the size the client wants.  The last block: the
\* request is handled with the whole buffer, which is kept for repetitions.
Receive(b) ==
  /\ b \in blocks
  /\ blocks' = blocks \ {b}
  /\ LET r == Accumulate(block1Data, b)
         code == IF r.code # "ok" THEN r.code ELSE IF b.last THEN "changed" ELSE "continue"
         answer == [mid |-> b, code |-> code, size |-> Least(b.size, Chunk)]
     IN /\ block1Data' = r.data
        /\ handed' = IF code = "changed"
                     THEN [handed EXCEPT ![Uri[b.transfer]] = r.data.buffer] ELSE handed
        /\ UNCHANGED <<orderly, serverVars>>
        /\ answers' = Awaited(answers \cup {answer})

Next ==
  \/ \E t \in Transfers : Begin(t) \/ Send(t) \/ SendEarly(t) \/ Abandon(t)
  \/ \E a \in answers : Hear(a)
  \/ \E b \in blocks : Receive(b)
  \/ Lose

Spec == Init /\ [][Next]_vars

\* The server repeats what is lost; a message that is sent again and again
\* arrives in the end, and so do answers.
FairSpec ==
  /\ Spec
  /\ WF_vars(\E t \in Transfers : Send(t))
  /\ SF_vars(\E t \in Transfers : current[t] \in blocks /\ status[t] = "sending" /\ Receive(current[t]))
  /\ SF_vars(\E a \in answers : Hear(a))

------------------------------------------------------------------------------
\* Whatever the network does and however transfers overlap, a payload handed to
\* a resource has no gap and no repetition, and ends where the body whose last
\* block completed it ends: offsets count up from the start (block1.c:102).
\* That its units are of one body is promised to an orderly server only.
HandedInOrder ==
  /\ \A i \in DOMAIN block1Data.buffer : block1Data.buffer[i].off = i - 1
  /\ \A u \in Uris : handed[u] # << >> =>
       LET p == handed[u] IN
         /\ \A i \in DOMAIN p : p[i].off = i - 1
         /\ Uri[Last(p).transfer] = u /\ Len(p) = Length[Last(p).transfer]

\* To an orderly server the client is a Handover: repeated and delayed blocks
\* of the same transfer restart it at worst, a resource only ever gets a whole
\* body, of the newest transfer.
H == INSTANCE Handover WITH begun <- IF orderly THEN begun ELSE << >>,
                            handed <- IF orderly THEN handed ELSE [u \in Uris |-> << >>]
ImplementsHandover == H!HandoverSpec

\* An orderly server that does not give up gets its body through, though blocks
\* and answers are lost and repeated, and is refused only a body as large as
\* MAX_BLOCK1_SIZE.  Each repetition that comes late costs no more than one
\* attempt (block1.c:65-85 and 97).
Fits(t) == Length[t] < MaxBlock1Size \/ Length[t] <= ServerSize
Sending == {t \in Transfers : status[t] = "sending"}
TransferSucceeds ==
  /\ [](orderly /\ MaxTries > MaxEarly =>
         \A t \in Transfers :
           /\ status[t] # "failed"
           /\ status[t] = "done" => Fits(t)
           /\ status[t] = "refused" => ~Fits(t))
  /\ orderly /\ Sending # {} ~> Sending = {}

==============================================================================
