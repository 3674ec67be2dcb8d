------------------------- MODULE BlockTransfer_proofs -------------------------
(***************************************************************************)
(* Proofs about BlockTransfer, for any transfers, lengths, block sizes and *)
(* limits: what coap_block1_handler keeps in its buffer, what a resource   *)
(* is handed, and that for an orderly server the client is a Handover.     *)
(***************************************************************************)
EXTENDS BlockTransfer, SequenceTheorems, TLAPS

Blocks == [transfer : Transfers, try : Nat, off : Nat, size : Nat \ {0}, last : BOOLEAN]
Unit == [transfer : Transfers, off : Nat]

\* A block as a server forms it.
WellFormed(b) ==
  /\ b \in Blocks
  /\ b.off < Length[b.transfer]
  /\ b.last = (b.off + b.size >= Length[b.transfer])

InPlace(p) == \A i \in 1 .. Len(p) : p[i].off = i - 1

\* The payload p ends with block b.
EndsWith(p, b) ==
  /\ Len(p) = b.off + Least(b.size, Length[b.transfer] - b.off)
  /\ p[Len(p)].transfer = b.transfer

\* All of p belongs to transfer t.
AllOf(p, t) == \A i \in 1 .. Len(p) : p[i].transfer = t

\* A buffer without a gap that ends with the block its lastmid names.
FitData(d) ==
  /\ d \in [lastmid : SUBSET Blocks, buffer : Seq(Unit)]
  /\ InPlace(d.buffer)
  /\ d # NoData => \E b \in d.lastmid : WellFormed(b) /\ d.lastmid = {b} /\ EndsWith(d.buffer, b)

Typed ==
  /\ orderly \in BOOLEAN
  /\ status \in [Transfers -> {"new", "sending"} \cup Over]
  /\ current \in [Transfers -> Blocks]
  /\ handed \in [Uris -> Seq(Unit)]
  /\ begun \in Seq(Transfers)

Formed ==
  /\ \A b \in blocks : WellFormed(b)
  /\ \A t \in Transfers : /\ WellFormed(current[t]) /\ current[t].transfer = t
                          /\ status[t] = "new" => current[t].off = 0

\* An answer in flight is awaited, and asks for more only if there is more.
AnswersFit ==
  \A a \in answers :
    /\ a \in [mid : Blocks, code : Codes, size : Nat \ {0}]
    /\ status[a.mid.transfer] = "sending" /\ current[a.mid.transfer] = a.mid
    /\ a.code = "continue" => ~a.mid.last

\* What a resource was handed: the whole of a body, as far as lengths tell.
HandedFits ==
  \A u \in Uris : handed[u] # << >> =>
    LET p == handed[u] IN
      InPlace(p) /\ Uri[p[Len(p)].transfer] = u /\ Len(p) = Length[p[Len(p)].transfer]

Newest == begun[Len(begun)]

\* With an orderly server everything in flight is about the newest transfer,
\* and once it has got past its first block so is the buffer.
OrderlyInv ==
  orderly =>
    /\ \A t \in Transfers : status[t] = "sending" => begun # << >> /\ t = Newest
    /\ \A b \in blocks : /\ begun # << >> /\ b.transfer = Newest
                         /\ b.off > 0 => AllOf(block1Data.buffer, Newest)
    /\ \A a \in answers : a.code = "continue" => AllOf(block1Data.buffer, Newest)
    /\ \A t \in Transfers : status[t] = "sending" /\ current[t].off > 0
                              => AllOf(block1Data.buffer, Newest)

IInv == Typed /\ Formed /\ AnswersFit /\ FitData(block1Data) /\ HandedFits /\ OrderlyInv

------------------------------------------------------------------------------
\* The payload of a block: a non-empty sequence of its units in order.
LEMMA UnitsOfBlock ==
  ASSUME NEW b, WellFormed(b)
  PROVE  /\ Units(b) \in Seq(Unit)
         /\ Len(Units(b)) = Least(b.size, Length[b.transfer] - b.off)
         /\ Len(Units(b)) \in Nat \ {0}
         /\ \A i \in 1 .. Len(Units(b)) : /\ Units(b)[i].transfer = b.transfer
                                          /\ Units(b)[i].off = b.off + i - 1
<1> DEFINE n == Least(b.size, Length[b.transfer] - b.off)
<1>1. n \in Nat \ {0} /\ b.transfer \in Transfers /\ b.off \in Nat
  BY BlockAssumption DEF WellFormed, Blocks, Least
<1>2. \A i \in 1 .. n : [transfer |-> b.transfer, off |-> b.off + i - 1] \in Unit
  BY <1>1 DEF Unit
<1>3. Units(b) = [i \in 1 .. n |-> [transfer |-> b.transfer, off |-> b.off + i - 1]]
  BY DEF Units
<1> HIDE DEF n
<1>4. Units(b) \in [1 .. n -> Unit] /\ DOMAIN Units(b) = 1 .. n
  BY <1>2, <1>3
<1>5. Units(b) \in Seq(Unit)
  BY <1>1, <1>4, SeqDef
<1>6. Len(Units(b)) = n
  BY <1>1, <1>4, <1>5, LenProperties
<1> QED BY <1>1, <1>3, <1>5, <1>6 DEF n

\* What coap_block1_handler makes of block b with data d: its buffer stays
\* without a gap, a refusal leaves it as it was, and what it accepts ends the
\* buffer; the first block starts it, a later one only adds to it.
Accumulated(d, b, r) ==
  /\ FitData(r.data)
  /\ r.code \in {"ok", "incomplete", "too large"}
  /\ r.code # "ok" => r.data = d
  /\ r.code = "ok" => EndsWith(r.data.buffer, b)
  /\ r.code = "ok" /\ (b.off > 0 => AllOf(d.buffer, b.transfer))
       => AllOf(r.data.buffer, b.transfer)

LEMMA AccumulateFits ==
  ASSUME NEW d, FitData(d), NEW b, WellFormed(b)
  PROVE  Accumulated(d, b, Accumulate(d, b))
<1>1. PICK u : u = Units(b)
  OBVIOUS
<1>2. PICK r : r = Accumulate(d, b)
  OBVIOUS
<1>u. /\ u \in Seq(Unit) /\ Len(u) = Least(b.size, Length[b.transfer] - b.off)
      /\ Len(u) \in Nat \ {0}
      /\ \A i \in 1 .. Len(u) : u[i].transfer = b.transfer /\ u[i].off = b.off + i - 1
  BY <1>1, UnitsOfBlock
<1>d. /\ d \in [lastmid : SUBSET Blocks, buffer : Seq(Unit)] /\ InPlace(d.buffer)
      /\ d.buffer \in Seq(Unit)
  BY DEF FitData
<1>b. b \in Blocks /\ b.off \in Nat
  BY DEF WellFormed, Blocks
<1>3. \/ b.off = 0 /\ r = [data |-> [lastmid |-> {b}, buffer |-> u], code |-> "ok"]
      \/ r.data = d /\ r.code \in {"incomplete", "too large"}
      \/ b.off # 0 /\ d # NoData /\ b \in d.lastmid /\ r = [data |-> d, code |-> "ok"]
      \/ /\ b.off # 0 /\ Len(d.buffer) = b.off
         /\ r = [data |-> [lastmid |-> {b}, buffer |-> d.buffer \o u], code |-> "ok"]
  BY <1>1, <1>2 DEF Accumulate, Kept, Refused
<1>4. CASE b.off = 0 /\ r = [data |-> [lastmid |-> {b}, buffer |-> u], code |-> "ok"]
  <2>1. PICK e : e = [lastmid |-> {b}, buffer |-> u]
    OBVIOUS
  <2>2. e \in [lastmid : SUBSET Blocks, buffer : Seq(Unit)] /\ e.buffer = u /\ e.lastmid = {b}
    BY <2>1, <1>u, <1>b
  <2>3. InPlace(u) /\ EndsWith(u, b) /\ AllOf(u, b.transfer)
    BY <1>4, <1>u, <1>b DEF InPlace, EndsWith, AllOf
  <2>4. FitData(e)
    BY <1>b, <2>2, <2>3 DEF FitData
  <2>5. r.data = e /\ r.code = "ok"
    BY <1>4, <2>1
  <2> QED BY <1>2, <2>2, <2>3, <2>4, <2>5 DEF Accumulated
<1>5. CASE r.data = d /\ r.code \in {"incomplete", "too large"}
  BY <1>5, <1>2 DEF Accumulated
<1>6. CASE b.off # 0 /\ d # NoData /\ b \in d.lastmid /\ r = [data |-> d, code |-> "ok"]
  <2>1. EndsWith(d.buffer, b)
    BY <1>6 DEF FitData
  <2>2. r.data = d /\ r.code = "ok" /\ b.off > 0
    BY <1>6, <1>b
  <2> QED BY <1>2, <2>1, <2>2 DEF Accumulated
<1>7. CASE /\ b.off # 0 /\ Len(d.buffer) = b.off
           /\ r = [data |-> [lastmid |-> {b}, buffer |-> d.buffer \o u], code |-> "ok"]
  <2>1. PICK n \in Nat \ {0} : n = Len(u)
    BY <1>u
  <2>2. PICK w : w = d.buffer \o u
    OBVIOUS
  <2>w. /\ w \in Seq(Unit) /\ Len(w) = b.off + n
        /\ \A i \in 1 .. b.off + n : w[i] = IF i <= b.off THEN d.buffer[i] ELSE u[i - b.off]
    <3>1. Len(d.buffer) = b.off /\ d.buffer \in Seq(Unit) /\ u \in Seq(Unit)
      BY <1>7, <1>d, <1>u
    <3>2. /\ w \in Seq(Unit) /\ Len(w) = Len(d.buffer) + Len(u)
          /\ \A i \in 1 .. Len(d.buffer) + Len(u) :
               w[i] = IF i <= Len(d.buffer) THEN d.buffer[i] ELSE u[i - Len(d.buffer)]
      BY <3>1, <2>2, ConcatProperties
    <3> QED BY <3>1, <3>2, <2>1
  <2>3. ASSUME NEW i \in 1 .. b.off
        PROVE  w[i].off = i - 1 /\ w[i].transfer = d.buffer[i].transfer
    <3>1. i \in 1 .. b.off + n /\ i <= b.off /\ i \in 1 .. Len(d.buffer)
      BY <1>b, <1>7, <2>1
    <3>2. w[i] = d.buffer[i]
      BY <3>1, <2>w
    <3>3. d.buffer[i].off = i - 1
      BY <3>1, <1>d DEF InPlace
    <3> QED BY <3>2, <3>3
  <2>4. ASSUME NEW i \in b.off + 1 .. b.off + n
        PROVE  w[i].off = i - 1 /\ w[i].transfer = b.transfer
    <3>1. i - b.off \in 1 .. n /\ ~(i <= b.off) /\ i \in 1 .. b.off + n
      BY <1>b, <2>1
    <3>2. w[i] = u[i - b.off]
      BY <3>1, <2>w
    <3>3. u[i - b.off].transfer = b.transfer /\ u[i - b.off].off = b.off + (i - b.off) - 1
      BY <3>1, <1>u, <2>1
    <3> QED BY <3>1, <3>2, <3>3, <1>b, <2>1
  <2>5. \A i \in 1 .. b.off + n : i \in 1 .. b.off \/ i \in b.off + 1 .. b.off + n
    BY <1>b, <2>1
  <2>6. InPlace(w)
    BY <2>w, <2>3, <2>4, <2>5 DEF InPlace
  <2>7. EndsWith(w, b)
    <3>1. b.off + n \in b.off + 1 .. b.off + n
      BY <1>b, <2>1
    <3>2. w[Len(w)].transfer = b.transfer
      BY <3>1, <2>w, <2>4
    <3> QED BY <3>2, <2>1, <2>w, <1>u DEF EndsWith
  <2>8. ASSUME AllOf(d.buffer, b.transfer) PROVE AllOf(w, b.transfer)
    BY <1>7, <2>w, <2>3, <2>4, <2>5, <2>8 DEF AllOf
  <2>9. PICK e : e = [lastmid |-> {b}, buffer |-> w]
    OBVIOUS
  <2>10. e \in [lastmid : SUBSET Blocks, buffer : Seq(Unit)] /\ e.buffer = w /\ e.lastmid = {b}
    BY <2>w, <2>9, <1>b
  <2>11. FitData(e)
    BY <2>6, <2>7, <2>10, <1>b DEF FitData
  <2>12. r.data = e /\ r.code = "ok" /\ b.off > 0
    BY <1>7, <2>2, <2>9, <1>b
  <2> QED BY <1>2, <2>7, <2>8, <2>10, <2>11, <2>12 DEF Accumulated
<1> QED BY <1>3, <1>4, <1>5, <1>6, <1>7

\* What Block makes is a well-formed block.
LEMMA BlockFormed ==
  ASSUME NEW t \in Transfers, NEW try \in Nat, NEW off \in Nat, NEW size \in Nat \ {0},
         off < Length[t]
  PROVE  WellFormed(Block(t, try, off, size))
<1>1. Block(t, try, off, size) = [transfer |-> t, try |-> try, off |-> off, size |-> size,
                                  last |-> off + size >= Length[t]]
  BY DEF Block
<1>2. PICK b : b = Block(t, try, off, size)
  OBVIOUS
<1>3. /\ b.transfer = t /\ b.try = try /\ b.off = off /\ b.size = size
      /\ b.last = (off + size >= Length[t])
  BY <1>1, <1>2
<1>4. b \in Blocks
  BY <1>1, <1>2 DEF Blocks
<1> QED BY <1>2, <1>3, <1>4 DEF WellFormed

\* A payload that ends with the last block of a body is as long as the body.
LEMMA LastBlockCompletes ==
  ASSUME NEW b, WellFormed(b), b.last, NEW p, EndsWith(p, b)
  PROVE  Len(p) = Length[b.transfer]
<1>1. /\ b.off \in Nat /\ b.size \in Nat \ {0} /\ b.off + b.size >= Length[b.transfer]
      /\ Length[b.transfer] \in Nat \ {0}
  BY BlockAssumption DEF WellFormed, Blocks
<1>2. PICK n : n = Length[b.transfer]
  OBVIOUS
<1>3. Least(b.size, n - b.off) = n - b.off
  BY <1>1, <1>2 DEF Least
<1> QED BY <1>1, <1>2, <1>3 DEF EndsWith

------------------------------------------------------------------------------
LEMMA InitInvariant == Init => IInv
<1> SUFFICES ASSUME Init PROVE IInv
  OBVIOUS
<1>1. /\ orderly \in BOOLEAN /\ status = [t \in Transfers |-> "new"]
      /\ current = [t \in Transfers |-> Block(t, 1, 0, ServerSize)]
      /\ blocks = {} /\ answers = {}
      /\ block1Data = NoData /\ handed = [u \in Uris |-> << >>]
      /\ begun = << >>
  BY DEF Init
<1>2. \A t \in Transfers : WellFormed(current[t]) /\ current[t].transfer = t /\ current[t].off = 0
  <2> TAKE t \in Transfers
  <2>1. Length[t] \in Nat \ {0} /\ ServerSize \in Nat \ {0}
    BY BlockAssumption
  <2>2. WellFormed(Block(t, 1, 0, ServerSize))
    BY <2>1, BlockFormed
  <2> QED BY <1>1, <2>2 DEF Block
<1>3. Typed
  <2>1. current \in [Transfers -> Blocks]
    BY <1>1, <1>2 DEF WellFormed
  <2>2. << >> \in Seq(Unit) /\ << >> \in Seq(Transfers)
    BY EmptySeq
  <2> QED BY <1>1, <2>1, <2>2 DEF Typed
<1>4. Formed
  BY <1>1, <1>2 DEF Formed
<1>5. AnswersFit /\ HandedFits
  BY <1>1 DEF AnswersFit, HandedFits
<1>6. FitData(block1Data)
  <2>1. NoData \in [lastmid : SUBSET Blocks, buffer : Seq(Unit)] /\ NoData.buffer = << >>
    BY EmptySeq DEF NoData
  <2> QED BY <1>1, <2>1, EmptySeq DEF FitData, InPlace
<1>7. OrderlyInv
  BY <1>1 DEF OrderlyInv
<1> QED BY <1>3, <1>4, <1>5, <1>6, <1>7 DEF IInv

\* The server's side: a transfer begins when an orderly one has nothing in
\* flight.
LEMMA BeginInvariant ==
  ASSUME IInv, NEW t \in Transfers, Begin(t)
  PROVE  IInv'
<1>1. /\ MayBegin(t)
      /\ status' = [status EXCEPT ![t] = "sending"]
      /\ begun' = Append(begun, t)
      /\ UNCHANGED <<orderly, current, blocks, answers, block1Data, handed>>
  BY DEF Begin, clientVars
<1>2. Typed /\ Formed /\ AnswersFit /\ FitData(block1Data) /\ HandedFits /\ OrderlyInv
  BY DEF IInv
<1>3. begun' \in Seq(Transfers) /\ begun' # << >> /\ begun'[Len(begun')] = t
  BY <1>1, <1>2, AppendProperties DEF Typed
<1>4. Typed'
  BY <1>1, <1>2, <1>3 DEF Typed
<1>5. Formed'
  BY <1>1, <1>2 DEF Formed, Typed
<1>6. AnswersFit'
  BY <1>1, <1>2 DEF AnswersFit, Typed, Blocks
<1>7. FitData(block1Data') /\ HandedFits'
  BY <1>1, <1>2 DEF HandedFits
<1>8. OrderlyInv'
  <2> SUFFICES ASSUME orderly PROVE OrderlyInv'
    BY <1>1 DEF OrderlyInv
  <2>1. \A v \in Transfers : status[v] # "sending"
    BY <1>1 DEF MayBegin
  <2>2. answers = {}
    BY <1>2, <2>1 DEF AnswersFit, Blocks
  <2>3. blocks = {} /\ current[t].off = 0
    BY <1>1, <1>2 DEF MayBegin, Formed
  <2>4. \A v \in Transfers : status'[v] = "sending" => v = t
    BY <1>1, <1>2, <2>1 DEF Typed
  <2> QED BY <1>1, <1>3, <2>2, <2>3, <2>4 DEF OrderlyInv, Newest
<1> QED BY <1>4, <1>5, <1>6, <1>7, <1>8 DEF IInv, FitData, InPlace, EndsWith, WellFormed

LEMMA SendInvariant ==
  ASSUME IInv, NEW t \in Transfers, status[t] = "sending",
         blocks' = blocks \cup {current[t]},
         UNCHANGED <<orderly, status, current, begun, answers, clientVars>>
  PROVE  IInv'
<1>2. Typed /\ Formed /\ AnswersFit /\ FitData(block1Data) /\ HandedFits /\ OrderlyInv
  BY DEF IInv
<1>3. UNCHANGED <<orderly, status, current, begun, answers, block1Data, handed>>
  BY DEF clientVars
<1>4. Typed' /\ AnswersFit' /\ FitData(block1Data)' /\ HandedFits'
  BY <1>2, <1>3 DEF Typed, AnswersFit, FitData, HandedFits
<1>5. Formed'
  BY <1>2, <1>3 DEF Formed
<1>6. OrderlyInv'
  BY <1>2, <1>3 DEF OrderlyInv, Newest, Formed
<1> QED BY <1>4, <1>5, <1>6 DEF IInv

\* After an answer the server sends a block that is in the body: it is told to
\* go on only when there is more.
LEMMA HearInvariant ==
  ASSUME IInv, NEW a \in answers, Hear(a)
  PROVE  IInv'
<1> DEFINE t == a.mid.transfer
<1>1. /\ Advance(t, a)
      /\ answers' = Awaited(answers)
      /\ UNCHANGED <<orderly, begun, blocks, block1Data, handed>>
  BY DEF Hear, clientVars
<1>2. Typed /\ Formed /\ AnswersFit /\ FitData(block1Data) /\ HandedFits /\ OrderlyInv
  BY DEF IInv
<1>3. /\ a.mid \in Blocks /\ a.size \in Nat \ {0} /\ t \in Transfers
      /\ status[t] = "sending" /\ current[t] = a.mid
      /\ a.code = "continue" => ~a.mid.last
  BY <1>2 DEF AnswersFit, Blocks
<1>4. \/ /\ UNCHANGED current
         /\ status' \in [Transfers -> {"new", "sending"} \cup Over]
         /\ \A v \in Transfers : /\ status'[v] = "new" => status[v] = "new"
                                 /\ status'[v] = "sending" => status[v] = "sending"
      \/ \E c : /\ UNCHANGED status /\ current' = [current EXCEPT ![t] = c]
                /\ WellFormed(c) /\ c.transfer = t
                /\ c.off > 0 => a.code = "continue"
  <2>1. CASE a.code = "continue"
    <3>1. PICK b : b = current[t]
      OBVIOUS
    <3>2. /\ b \in Blocks /\ b.transfer = t /\ WellFormed(b) /\ ~b.last
      BY <1>2, <1>3, <2>1, <3>1 DEF Formed
    <3>3. /\ b.try \in Nat /\ b.off + b.size \in Nat /\ b.off + b.size < Length[t]
          /\ Least(a.size, b.size) \in Nat \ {0}
      BY <1>3, <3>2, BlockAssumption DEF WellFormed, Blocks, Least
    <3>4. PICK c : c = Block(t, b.try, b.off + b.size, Least(a.size, b.size))
      OBVIOUS
    <3>5. WellFormed(c) /\ c.transfer = t
      BY <1>3, <3>3, <3>4, BlockFormed DEF Block
    <3>6. UNCHANGED status /\ current' = [current EXCEPT ![t] = c]
      BY <1>1, <2>1, <3>1, <3>4 DEF Advance
    <3> QED BY <2>1, <3>5, <3>6
  <2>2. CASE a.code = "incomplete" /\ current[t].try < MaxTries
    <3>1. PICK b : b = current[t]
      OBVIOUS
    <3>2. b.try + 1 \in Nat /\ b.size \in Nat \ {0} /\ 0 < Length[t]
      BY <1>3, <3>1, BlockAssumption DEF Blocks
    <3>3. PICK c : c = Block(t, b.try + 1, 0, b.size)
      OBVIOUS
    <3>4. WellFormed(c) /\ c.transfer = t /\ c.off = 0
      BY <1>3, <3>2, <3>3, BlockFormed DEF Block
    <3>5. b.try # MaxTries /\ ~(c.off > 0)
      BY <1>3, <2>2, <3>1, <3>4, BlockAssumption DEF Blocks
    <3>6. UNCHANGED status /\ current' = [current EXCEPT ![t] = c]
      BY <1>1, <2>2, <3>1, <3>3, <3>5 DEF Advance
    <3> QED BY <3>4, <3>5, <3>6
  <2>3. CASE ~(a.code = "continue" \/ (a.code = "incomplete" /\ current[t].try < MaxTries))
    <3>1. /\ UNCHANGED current
          /\ \E s \in {"failed", "done", "refused"} : status' = [status EXCEPT ![t] = s]
      BY <1>1, <2>3 DEF Advance
    <3>2. PICK s \in {"failed", "done", "refused"} : status' = [status EXCEPT ![t] = s]
      BY <3>1
    <3>3. s \in Over /\ s # "new" /\ s # "sending"
      BY DEF Over
    <3>4. status' \in [Transfers -> {"new", "sending"} \cup Over]
      BY <1>2, <3>2, <3>3 DEF Typed
    <3>5. \A v \in Transfers : status'[v] = IF v = t THEN s ELSE status[v]
      BY <1>2, <3>2 DEF Typed
    <3> QED BY <3>1, <3>3, <3>4, <3>5
  <2> QED BY <2>1, <2>2, <2>3
<1>5. Typed'
  BY <1>1, <1>2, <1>4 DEF Typed, WellFormed
<1>6. Formed'
  BY <1>1, <1>2, <1>3, <1>4 DEF Formed, Typed
<1>7. AnswersFit'
  BY <1>1, <1>2 DEF AnswersFit, Awaited
<1>8. FitData(block1Data)' /\ HandedFits'
  BY <1>1, <1>2 DEF FitData, HandedFits
<1>9. OrderlyInv'
  <2> SUFFICES ASSUME orderly PROVE OrderlyInv'
    BY <1>1 DEF OrderlyInv
  <2>1. answers' \subseteq answers
    BY <1>1 DEF Awaited
  <2>2. a.code = "continue" => AllOf(block1Data.buffer, Newest)
    BY <1>2 DEF OrderlyInv
  <2>3. \A v \in Transfers : status'[v] = "sending" => status[v] = "sending"
    BY <1>4
  <2>4. \A v \in Transfers : status'[v] = "sending" /\ current'[v].off > 0
          => AllOf(block1Data.buffer, Newest)
    BY <1>2, <1>3, <1>4, <2>2 DEF OrderlyInv, Typed
  <2> QED BY <1>1, <1>2, <2>1, <2>3, <2>4 DEF OrderlyInv, Newest
<1> QED BY <1>5, <1>6, <1>7, <1>8, <1>9 DEF IInv

LEMMA AbandonInvariant ==
  ASSUME IInv, NEW t \in Transfers, Abandon(t)
  PROVE  IInv'
<1>1. /\ status[t] = "sending" /\ status' = [status EXCEPT ![t] = "abandoned"]
      /\ answers' = Awaited(answers)
      /\ UNCHANGED <<orderly, current, begun, blocks, block1Data, handed>>
  BY DEF Abandon, clientVars
<1>2. Typed /\ Formed /\ AnswersFit /\ FitData(block1Data) /\ HandedFits /\ OrderlyInv
  BY DEF IInv
<1>3. \A v \in Transfers : /\ status'[v] = "new" => status[v] = "new"
                           /\ status'[v] = "sending" => status[v] = "sending"
  BY <1>1, <1>2 DEF Typed
<1>4. Typed'
  BY <1>1, <1>2 DEF Typed, Over
<1>5. Formed'
  BY <1>1, <1>2, <1>3 DEF Formed
<1>6. AnswersFit' /\ FitData(block1Data)' /\ HandedFits'
  BY <1>1, <1>2 DEF AnswersFit, Awaited, FitData, HandedFits
<1>7. OrderlyInv'
  BY <1>1, <1>2, <1>3 DEF OrderlyInv, Newest, Awaited
<1> QED BY <1>4, <1>5, <1>6, <1>7 DEF IInv

LEMMA LoseInvariant ==
  ASSUME IInv, Lose
  PROVE  IInv'
<1>1. /\ blocks' \subseteq blocks /\ answers' \subseteq answers
      /\ UNCHANGED <<orderly, status, current, begun, block1Data, handed>>
  BY DEF Lose, serverVars, clientVars
<1>2. Typed /\ Formed /\ AnswersFit /\ FitData(block1Data) /\ HandedFits /\ OrderlyInv
  BY DEF IInv
<1>3. Typed' /\ Formed' /\ AnswersFit' /\ FitData(block1Data)' /\ HandedFits'
  BY <1>1, <1>2 DEF Typed, Formed, AnswersFit, FitData, HandedFits
<1>4. OrderlyInv'
  BY <1>1, <1>2 DEF OrderlyInv, Newest
<1> QED BY <1>3, <1>4 DEF IInv

\* What Receive does, named.
LEMMA Received ==
  ASSUME IInv, NEW b \in blocks, Receive(b)
  PROVE  \E r, code :
           /\ r = Accumulate(block1Data, b) /\ WellFormed(b)
           /\ Accumulated(block1Data, b, r)
           /\ code = IF r.code # "ok" THEN r.code ELSE IF b.last THEN "changed" ELSE "continue"
           /\ blocks' = blocks \ {b} /\ block1Data' = r.data
           /\ handed' = IF code = "changed"
                        THEN [handed EXCEPT ![Uri[b.transfer]] = r.data.buffer] ELSE handed
           /\ answers' = Awaited(answers \cup {[mid |-> b, code |-> code,
                                                size |-> Least(b.size, Chunk)]})
           /\ UNCHANGED <<orderly, status, current, begun>>
<1>1. FitData(block1Data) /\ WellFormed(b)
  BY DEF IInv, Formed
<1>2. PICK r : r = Accumulate(block1Data, b)
  OBVIOUS
<1>3. Accumulated(block1Data, b, r)
  BY <1>1, <1>2, AccumulateFits
<1> QED BY <1>1, <1>2, <1>3 DEF Receive, serverVars

LEMMA ReceiveInvariant ==
  ASSUME IInv, NEW b \in blocks, Receive(b)
  PROVE  IInv'
<1>1. PICK r, code :
        /\ r = Accumulate(block1Data, b) /\ WellFormed(b)
        /\ Accumulated(block1Data, b, r)
        /\ code = IF r.code # "ok" THEN r.code ELSE IF b.last THEN "changed" ELSE "continue"
        /\ blocks' = blocks \ {b} /\ block1Data' = r.data
        /\ handed' = IF code = "changed"
                     THEN [handed EXCEPT ![Uri[b.transfer]] = r.data.buffer] ELSE handed
        /\ answers' = Awaited(answers \cup {[mid |-> b, code |-> code,
                                             size |-> Least(b.size, Chunk)]})
        /\ UNCHANGED <<orderly, status, current, begun>>
  BY Received
<1>2. Typed /\ Formed /\ AnswersFit /\ FitData(block1Data) /\ HandedFits /\ OrderlyInv
  BY DEF IInv
<1>3. /\ b \in Blocks /\ b.transfer \in Transfers /\ b.off \in Nat /\ b.size \in Nat \ {0}
      /\ Length[b.transfer] \in Nat \ {0} /\ b.off < Length[b.transfer]
      /\ b.last = (b.off + b.size >= Length[b.transfer])
  BY <1>1, BlockAssumption DEF WellFormed, Blocks
<1>4. FitData(r.data) /\ r.data.buffer \in Seq(Unit) /\ InPlace(r.data.buffer)
  BY <1>1 DEF Accumulated, FitData
<1>5. FitData(block1Data)'
  BY <1>1, <1>4 DEF FitData
<1>6. Typed'
  <2>1. handed' \in [Uris -> Seq(Unit)]
    BY <1>1, <1>2, <1>4 DEF Typed
  <2> QED BY <1>1, <1>2, <2>1 DEF Typed
<1>7. Formed'
  BY <1>1, <1>2 DEF Formed
<1>8. AnswersFit'
  <2> DEFINE new == [mid |-> b, code |-> code, size |-> Least(b.size, Chunk)]
  <2>1. /\ code \in Codes /\ Least(b.size, Chunk) \in Nat \ {0}
        /\ code = "continue" => ~b.last
    BY <1>1, <1>3, BlockAssumption DEF Accumulated, Codes, Least
  <2>2. PICK n : n = new
    OBVIOUS
  <2>3. n \in [mid : Blocks, code : Codes, size : Nat \ {0}] /\ n.mid = b /\ n.code = code
    BY <1>3, <2>1, <2>2
  <2>4. \A a \in answers' : /\ a \in answers \/ a = n
                            /\ status'[a.mid.transfer] = "sending" /\ current'[a.mid.transfer] = a.mid
    BY <1>1, <2>2 DEF Awaited
  <2> QED BY <1>2, <2>1, <2>3, <2>4 DEF AnswersFit
<1>9. HandedFits'
  <2>1. CASE code = "changed"
    <3>1. r.code = "ok" /\ b.last
      BY <1>1, <2>1 DEF Accumulated
    <3>2. PICK p : p = r.data.buffer
      OBVIOUS
    <3>e. EndsWith(p, b)
      BY <1>1, <3>1, <3>2 DEF Accumulated
    <3>3. /\ InPlace(p) /\ Len(p) = Length[b.transfer] /\ p[Len(p)].transfer = b.transfer
      BY <1>1, <1>4, <3>1, <3>2, <3>e, LastBlockCompletes DEF EndsWith
    <3>4. handed' = [handed EXCEPT ![Uri[b.transfer]] = p]
      BY <1>1, <2>1, <3>2
    <3>5. \A u \in Uris : handed'[u] = IF u = Uri[b.transfer] THEN p ELSE handed[u]
      BY <1>2, <3>4 DEF Typed
    <3> QED BY <1>2, <3>3, <3>5 DEF HandedFits
  <2>2. CASE code # "changed"
    BY <1>1, <1>2, <2>2 DEF HandedFits
  <2> QED BY <2>1, <2>2
<1>10. OrderlyInv'
  <2> SUFFICES ASSUME orderly PROVE OrderlyInv'
    BY <1>1 DEF OrderlyInv
  <2>1. /\ begun # << >> /\ b.transfer = Newest
        /\ b.off > 0 => AllOf(block1Data.buffer, Newest)
    BY <1>2 DEF OrderlyInv
  <2>2. r.code = "ok" => AllOf(r.data.buffer, Newest)
    BY <1>1, <2>1 DEF Accumulated
  <2>3. r.code # "ok" => r.data = block1Data /\ code # "continue"
    BY <1>1 DEF Accumulated
  <2>4. AllOf(block1Data.buffer, Newest) => AllOf(r.data.buffer, Newest)
    BY <2>2, <2>3
  <2>5. code = "continue" => AllOf(r.data.buffer, Newest)
    BY <2>2, <2>3
  <2>6. \A a \in answers' : a \in answers \/ a.code = code
    BY <1>1 DEF Awaited
  <2>7. /\ \A a \in answers' : a.code = "continue" => AllOf(r.data.buffer, Newest)
        /\ \A c \in blocks' : begun # << >> /\ c.transfer = Newest
                              /\ (c.off > 0 => AllOf(r.data.buffer, Newest))
        /\ \A t \in Transfers : status[t] = "sending" => begun # << >> /\ t = Newest
        /\ \A t \in Transfers : status[t] = "sending" /\ current[t].off > 0
                                  => AllOf(r.data.buffer, Newest)
    BY <1>1, <1>2, <2>4, <2>5, <2>6 DEF OrderlyInv
  <2> QED BY <1>1, <2>7 DEF OrderlyInv, Newest
<1> QED BY <1>5, <1>6, <1>7, <1>8, <1>9, <1>10 DEF IInv

LEMMA StepInvariant == IInv /\ [Next]_vars => IInv'
<1> SUFFICES ASSUME IInv, [Next]_vars PROVE IInv'
  OBVIOUS
<1>1. ASSUME NEW t \in Transfers, Begin(t) PROVE IInv'
  BY <1>1, BeginInvariant
<1>2. ASSUME NEW t \in Transfers, Send(t) PROVE IInv'
  BY <1>2, SendInvariant DEF Send, serverVars
<1>3. ASSUME NEW t \in Transfers, SendEarly(t) PROVE IInv'
  BY <1>3, SendInvariant DEF SendEarly
<1>4. ASSUME NEW t \in Transfers, Abandon(t) PROVE IInv'
  BY <1>4, AbandonInvariant
<1>5. ASSUME NEW a \in answers, Hear(a) PROVE IInv'
  BY <1>5, HearInvariant
<1>6. ASSUME NEW b \in blocks, Receive(b) PROVE IInv'
  BY <1>6, ReceiveInvariant
<1>7. CASE Lose
  BY <1>7, LoseInvariant
<1>8. CASE UNCHANGED vars
  BY <1>8 DEF vars, serverVars, clientVars, IInv, Typed, Formed, AnswersFit, FitData,
              HandedFits, OrderlyInv, Newest
<1> QED BY <1>1, <1>2, <1>3, <1>4, <1>5, <1>6, <1>7, <1>8 DEF Next

LEMMA Invariance == Spec => []IInv
<1>1. QED
  BY InitInvariant, StepInvariant, PTL DEF Spec

------------------------------------------------------------------------------
\* An offset that is a multiple of the block size stays one after the block,
\* also when the client asks for smaller blocks.
LEMMA BlocksAlign ==
  ASSUME NEW n \in Nat \ {0}, NEW m \in Nat \ {0}, NEW x \in Nat, n % m = 0, x % n = 0
  PROVE  (x + n) % n = 0 /\ (x + n) % m = 0 /\ m <= n
<1>1. \A y, d \in Nat : d # 0 /\ y % d = 0 => y = d * (y \div d) /\ y \div d \in Nat
  OBVIOUS
<1>2. PICK k, j \in Nat : x = n * k /\ n = m * j
  BY <1>1
<1>3. x + n = n * (k + 1) /\ k + 1 \in Nat
  BY <1>2
<1>4. \A a, b, c \in Nat : (a * b) * c = a * (b * c) /\ b * c \in Nat
  OBVIOUS
<1>5. x + n = m * (j * (k + 1)) /\ j * (k + 1) \in Nat
  BY <1>2, <1>3, <1>4
<1>6. \A a, b \in Nat : a # 0 => (a * b) % a = 0
  OBVIOUS
<1>7. m <= n
  BY <1>2
<1> QED BY <1>3, <1>5, <1>6, <1>7

\* A block as the server cuts the body: by its own size, or the client's.
Cut(b) ==
  /\ b = Block(b.transfer, b.try, b.off, b.size)
  /\ b.try \in 1 .. MaxTries
  /\ b.size \in {ServerSize, Chunk} /\ b.off % b.size = 0

SizesFit ==
  /\ early \in 0 .. MaxEarly
  /\ \A t \in Transfers : /\ Cut(current[t])
                          /\ status[t] = "new" <=> \A i \in DOMAIN begun : begun[i] # t
  /\ \A b \in blocks : Cut(b)
  /\ \A a \in answers : a.size = Least(a.mid.size, Chunk)
  /\ Len(block1Data.buffer) < MaxBlock1Size

\* What the assumption says of the sizes.
LEMMA Sizes ==
  /\ ServerSize \in Nat \ {0} /\ Chunk \in Nat \ {0} /\ ServerSize % Chunk = 0
  /\ ServerSize % ServerSize = 0 /\ Chunk % Chunk = 0 /\ Chunk <= ServerSize
  /\ 0 % ServerSize = 0 /\ 0 % Chunk = 0
  /\ MaxTries \in Nat \ {0} /\ MaxEarly \in Nat /\ MaxBlock1Size \in Nat
<1>1. /\ ServerSize \in Nat \ {0} /\ Chunk \in Nat \ {0} /\ ServerSize % Chunk = 0
      /\ MaxTries \in Nat \ {0} /\ MaxEarly \in Nat /\ MaxBlock1Size \in Nat
  BY BlockAssumption
<1>2. \A n \in Nat \ {0} : 0 % n = 0 /\ n % n = 0
  OBVIOUS
<1>3. Chunk <= ServerSize
  BY <1>1, <1>2, BlocksAlign
<1> QED BY <1>1, <1>2, <1>3

\* The blocks stay cut, whatever answer the server hears.
LEMMA HearSizes ==
  ASSUME IInv, SizesFit, NEW a \in answers, Hear(a)
  PROVE  SizesFit'
<1> DEFINE t == a.mid.transfer
           b == current[t]
<1>1. /\ Advance(t, a) /\ answers' \subseteq answers
      /\ UNCHANGED <<begun, blocks, block1Data, early>>
  BY DEF Hear, clientVars, Awaited
<1>2. Typed /\ Formed /\ AnswersFit
  BY DEF IInv
<1>3. /\ a.mid \in Blocks /\ t \in Transfers /\ status[t] = "sending" /\ b = a.mid
      /\ a.size = Least(b.size, Chunk) /\ Cut(b) /\ b.off \in Nat /\ b.try \in Nat
  BY <1>2 DEF AnswersFit, Blocks, SizesFit
<1>4. \A v \in Transfers : status'[v] = "new" <=> status[v] = "new"
  BY <1>1, <1>2, <1>3 DEF Advance, Typed
<1>5. \A v \in Transfers : Cut(current'[v])
  <2>1. CASE a.code = "continue"
    <3>1. PICK size : size = Least(a.size, b.size)
      OBVIOUS
    <3>2. /\ size \in {ServerSize, Chunk} /\ size \in Nat \ {0} /\ b.size % size = 0
          /\ b.size \in Nat \ {0} /\ b.off % b.size = 0
      BY <1>3, <3>1, Sizes DEF Least, Cut
    <3>3. (b.off + b.size) % size = 0
      BY <1>3, <3>2, BlocksAlign
    <3>4. PICK c : c = Block(t, b.try, b.off + b.size, size)
      OBVIOUS
    <3>5. Cut(c)
      BY <1>3, <3>2, <3>3, <3>4 DEF Cut, Block
    <3>6. current' = [current EXCEPT ![t] = c]
      BY <1>1, <2>1, <3>1, <3>4 DEF Advance
    <3> QED BY <1>2, <3>5, <3>6 DEF SizesFit, Typed
  <2>2. CASE a.code = "incomplete" /\ b.try < MaxTries
    <3>1. PICK c : c = Block(t, b.try + 1, 0, b.size)
      OBVIOUS
    <3>2. b.try + 1 \in 1 .. MaxTries /\ b.size \in {ServerSize, Chunk}
      BY <1>3, <2>2, Sizes DEF Cut
    <3>3. Cut(c)
      BY <3>1, <3>2, Sizes DEF Cut, Block
    <3>4. b.try # MaxTries
      BY <1>3, <2>2, Sizes
    <3>5. current' = [current EXCEPT ![t] = c]
      BY <1>1, <2>2, <3>1, <3>4 DEF Advance
    <3> QED BY <1>2, <3>3, <3>5 DEF SizesFit, Typed
  <2>3. CASE ~(a.code = "continue" \/ (a.code = "incomplete" /\ b.try < MaxTries))
    <3>1. UNCHANGED current
      BY <1>1, <2>3 DEF Advance
    <3> QED BY <3>1 DEF SizesFit
  <2> QED BY <2>1, <2>2, <2>3
<1> QED BY <1>1, <1>4, <1>5 DEF SizesFit

\* A first block starts a buffer of one block, a later one is refused unless the
\* buffer stays below MAX_BLOCK1_SIZE.
LEMMA ReceiveSizes ==
  ASSUME ServerSize < MaxBlock1Size, IInv, SizesFit, NEW b \in blocks, Receive(b)
  PROVE  SizesFit'
<1>1. PICK r, code :
        /\ r = Accumulate(block1Data, b) /\ WellFormed(b)
        /\ blocks' = blocks \ {b} /\ block1Data' = r.data
        /\ answers' = Awaited(answers \cup {[mid |-> b, code |-> code,
                                             size |-> Least(b.size, Chunk)]})
        /\ UNCHANGED <<orderly, status, current, begun>>
  BY Received
<1>2. Cut(b) /\ FitData(block1Data) /\ UNCHANGED early
  BY DEF SizesFit, IInv, Receive, serverVars
<1>3. PICK u : u = Units(b)
  OBVIOUS
<1>4. /\ u \in Seq(Unit) /\ Len(u) \in Nat /\ Len(u) < MaxBlock1Size
      /\ block1Data.buffer \in Seq(Unit)
  <2>1. Len(u) = Least(b.size, Length[b.transfer] - b.off) /\ Len(u) \in Nat /\ u \in Seq(Unit)
    BY <1>1, <1>3, UnitsOfBlock
  <2>2. b.size <= ServerSize /\ b.size \in Nat
    BY <1>2, Sizes DEF Cut
  <2>3. Length[b.transfer] - b.off \in Nat
    BY <1>1, BlockAssumption DEF WellFormed, Blocks
  <2> QED BY <1>2, <2>1, <2>2, <2>3, Sizes DEF Least, FitData
<1>5. Len(r.data.buffer) < MaxBlock1Size
  <2>1. \/ r.data = block1Data
        \/ r.data = [lastmid |-> {b}, buffer |-> u]
        \/ /\ ~(Len(block1Data.buffer) + Len(u) >= MaxBlock1Size)
           /\ r.data = [lastmid |-> {b}, buffer |-> block1Data.buffer \o u]
    BY <1>1, <1>3 DEF Accumulate, Kept, Refused
  <2>2. Len(block1Data.buffer \o u) = Len(block1Data.buffer) + Len(u)
    BY <1>4, ConcatProperties
  <2> QED BY <1>4, <2>1, <2>2, Sizes DEF SizesFit
<1>6. \A a \in answers' : a.size = Least(a.mid.size, Chunk)
  BY <1>1 DEF Awaited, SizesFit
<1> QED BY <1>1, <1>2, <1>5, <1>6 DEF SizesFit

\* Every step keeps the sizes.
LEMMA SizesInvariant ==
  ASSUME ServerSize < MaxBlock1Size, IInv, SizesFit, [Next]_vars
  PROVE  SizesFit'
<1> USE DEF SizesFit
<1>1. ASSUME NEW t \in Transfers, Begin(t) PROVE SizesFit'
  <2>1. /\ status' = [status EXCEPT ![t] = "sending"] /\ begun' = Append(begun, t)
        /\ UNCHANGED <<current, early, blocks, answers, block1Data>>
    BY <1>1 DEF Begin, clientVars
  <2>2. Typed
    BY DEF IInv
  <2>3. \A v \in Transfers : (\A i \in DOMAIN begun' : begun'[i] # v)
                             <=> v # t /\ \A i \in DOMAIN begun : begun[i] # v
    <3>1. begun \in Seq(Transfers)
      BY <2>2 DEF Typed
    <3>2. /\ DOMAIN begun = 1 .. Len(begun) /\ DOMAIN begun' = 1 .. Len(begun) + 1
          /\ Len(begun) \in Nat /\ begun'[Len(begun) + 1] = t
          /\ \A i \in DOMAIN begun : begun'[i] = begun[i]
      BY <2>1, <3>1, AppendProperties
    <3> QED BY <3>2
  <2> QED BY <2>1, <2>2, <2>3 DEF Typed
<1>2. ASSUME NEW t \in Transfers, Send(t) \/ SendEarly(t) PROVE SizesFit'
  BY <1>2, Sizes DEF Send, SendEarly, serverVars, clientVars
<1>3. ASSUME NEW t \in Transfers, Abandon(t) PROVE SizesFit'
  BY <1>3 DEF Abandon, clientVars, Awaited, IInv, Typed
<1>4. ASSUME NEW a \in answers, Hear(a) PROVE SizesFit'
  BY <1>4, HearSizes
<1>5. ASSUME NEW b \in blocks, Receive(b) PROVE SizesFit'
  BY <1>5, ReceiveSizes
<1>6. ASSUME Lose PROVE SizesFit'
  BY <1>6 DEF Lose, serverVars, clientVars
<1>7. ASSUME UNCHANGED vars PROVE SizesFit'
  BY <1>7 DEF vars, serverVars, clientVars
<1> QED BY <1>1, <1>2, <1>3, <1>4, <1>5, <1>6, <1>7 DEF Next

\* Every variable keeps its type: blocks lie at multiples of their sizes within
\* their bodies, and the buffer stays below MAX_BLOCK1_SIZE if a single block
\* does (block1.c:78-103).
THEOREM TypeCorrect ==
  ASSUME ServerSize < MaxBlock1Size
  PROVE  Spec => []TypeOK
<1>1. Init => SizesFit
  <2> SUFFICES ASSUME Init PROVE SizesFit
    OBVIOUS
  <2>1. \A t \in Transfers : Cut(current[t])
    BY Sizes DEF Init, Cut, Block
  <2>2. block1Data.buffer = << >> /\ Len(<< >>) = 0
    BY DEF Init, NoData
  <2> QED BY <2>1, <2>2, Sizes DEF Init, SizesFit
<1>2. IInv /\ SizesFit => TypeOK
  <2> SUFFICES ASSUME IInv, SizesFit PROVE TypeOK
    OBVIOUS
  <2>1. Typed /\ Formed /\ AnswersFit
    BY DEF IInv
  <2>2. \A t \in Transfers : LET b == current[t] IN
         /\ b = Block(t, b.try, b.off, b.size)
         /\ b.try \in 1 .. MaxTries /\ b.off \in 0 .. Length[t] - 1
         /\ b.size \in {ServerSize, Chunk} /\ b.off % b.size = 0
    BY <2>1, BlockAssumption DEF SizesFit, Cut, Formed, WellFormed, Blocks
  <2>3. \A b \in blocks : b.off % b.size = 0 /\ b.off < Length[b.transfer]
    BY <2>1 DEF SizesFit, Cut, Formed, WellFormed
  <2>4. \A a \in answers : a.code \in Codes /\ a.size <= Chunk
    <3> SUFFICES ASSUME NEW a \in answers PROVE a.code \in Codes /\ a.size <= Chunk
      OBVIOUS
    <3>1. a.code \in Codes /\ a.mid.size \in Nat /\ a.size = Least(a.mid.size, Chunk)
      BY <2>1 DEF AnswersFit, Blocks, SizesFit
    <3> QED BY <3>1, Sizes DEF Least
  <2>5. Range(begun) = {t \in Transfers : status[t] # "new"}
    <3>1. \A i \in DOMAIN begun : begun[i] \in Transfers
      BY <2>1 DEF Typed
    <3> QED BY <3>1 DEF Range, SizesFit
  <2> QED BY <2>1, <2>2, <2>3, <2>4, <2>5 DEF TypeOK, Typed, SizesFit
<1>3. SizesFit /\ IInv /\ [Next]_vars => SizesFit'
  BY SizesInvariant
<1>4. Spec => [](IInv /\ SizesFit)
  BY <1>1, <1>3, Invariance, PTL DEF Spec
<1> QED BY <1>2, <1>4, PTL

\* Whatever is lost, repeated, delayed or sent at once, what a resource is
\* handed has neither a gap nor a repetition and the length of the body its
\* last unit belongs to (block1.c:36-117, packet.c).
THEOREM PayloadsInOrder == Spec => []HandedInOrder
<1>1. IInv => HandedInOrder
  <2> SUFFICES ASSUME IInv PROVE HandedInOrder
    OBVIOUS
  <2>1. /\ block1Data.buffer \in Seq(Unit) /\ InPlace(block1Data.buffer)
        /\ handed \in [Uris -> Seq(Unit)] /\ HandedFits
    BY DEF IInv, FitData, Typed
  <2>2. \A i \in DOMAIN block1Data.buffer : block1Data.buffer[i].off = i - 1
    BY <2>1 DEF InPlace
  <2>3. ASSUME NEW u \in Uris, handed[u] # << >>
        PROVE  LET p == handed[u] IN
                 /\ \A i \in DOMAIN p : p[i].off = i - 1
                 /\ Uri[Last(p).transfer] = u /\ Len(p) = Length[Last(p).transfer]
    BY <2>1, <2>3 DEF HandedFits, InPlace, Last
  <2> QED BY <2>2, <2>3 DEF HandedInOrder
<1>2. QED
  BY <1>1, Invariance, PTL

------------------------------------------------------------------------------
LEMMA HandoverStart == Init => H!HandoverInit
BY DEF Init, H!HandoverInit

\* A whole body of one transfer is what Handover calls its Body.
LEMMA WholeBody ==
  ASSUME NEW t \in Transfers, NEW p \in Seq(Unit),
         InPlace(p), AllOf(p, t), Len(p) = Length[t]
  PROVE  p = H!Body(t)
<1>1. \A i \in 1 .. Len(p) : p[i] \in Unit /\ p[i].transfer = t /\ p[i].off = i - 1
  BY ElementOfSeq DEF InPlace, AllOf
<1>2. \A i \in 1 .. Len(p) : p[i] = [transfer |-> t, off |-> i - 1]
  BY <1>1 DEF Unit
<1>3. p = [i \in 1 .. Len(p) |-> p[i]]
  OBVIOUS
<1> QED BY <1>2, <1>3 DEF H!Body

LEMMA HandoverStep ==
  IInv /\ [Next]_vars
    => [H!HandoverNext]_<<IF orderly THEN begun ELSE << >>,
                          IF orderly THEN handed ELSE [u \in Uris |-> << >>]>>
<1> SUFFICES ASSUME IInv, [Next]_vars
             PROVE  [H!HandoverNext]_<<IF orderly THEN begun ELSE << >>,
                                       IF orderly THEN handed ELSE [u \in Uris |-> << >>]>>
  OBVIOUS
<1>1. orderly' = orderly
  BY DEF Next, vars, Begin, Send, SendEarly, Hear, Abandon, Lose, Receive
<1>2. CASE ~orderly
  BY <1>1, <1>2
<1>3. CASE orderly /\ UNCHANGED <<begun, handed>>
  BY <1>1, <1>3
<1>4. ASSUME orderly, NEW t \in Transfers, Begin(t)
      PROVE  H!HandoverNext
  BY <1>1, <1>4 DEF Begin, clientVars, H!HandoverNext, H!BeginTransfer
<1>5. ASSUME orderly, NEW b \in blocks, Receive(b), ~UNCHANGED handed
      PROVE  H!HandoverNext
  <2>1. PICK r, code :
          /\ r = Accumulate(block1Data, b) /\ WellFormed(b)
          /\ Accumulated(block1Data, b, r)
          /\ code = IF r.code # "ok" THEN r.code ELSE IF b.last THEN "changed" ELSE "continue"
          /\ blocks' = blocks \ {b} /\ block1Data' = r.data
          /\ handed' = IF code = "changed"
                       THEN [handed EXCEPT ![Uri[b.transfer]] = r.data.buffer] ELSE handed
          /\ answers' = Awaited(answers \cup {[mid |-> b, code |-> code,
                                               size |-> Least(b.size, Chunk)]})
          /\ UNCHANGED <<orderly, status, current, begun>>
    BY <1>5, Received
  <2>2. PICK t : t = b.transfer
    OBVIOUS
  <2>3. /\ t \in Transfers /\ begun # << >> /\ t = begun[Len(begun)]
        /\ b.off > 0 => AllOf(block1Data.buffer, t)
    BY <1>5, <2>1, <2>2 DEF IInv, OrderlyInv, Newest, WellFormed, Blocks
  <2>4. code = "changed" /\ r.code = "ok" /\ b.last
    BY <1>5, <2>1 DEF Accumulated
  <2>5. PICK p : p = r.data.buffer
    OBVIOUS
  <2>6. p \in Seq(Unit) /\ InPlace(p) /\ EndsWith(p, b) /\ AllOf(p, t)
    BY <2>1, <2>2, <2>3, <2>4, <2>5 DEF Accumulated, FitData
  <2>7. Len(p) = Length[t]
    BY <2>1, <2>2, <2>4, <2>6, LastBlockCompletes
  <2>8. p = H!Body(t)
    BY <2>3, <2>6, <2>7, WholeBody
  <2>9. handed' = [handed EXCEPT ![Uri[t]] = H!Body(t)] /\ begun' = begun
    BY <2>1, <2>2, <2>4, <2>5, <2>8
  <2>10. H!HandOver(t)
    BY <1>1, <1>5, <2>3, <2>9 DEF H!HandOver
  <2> QED BY <2>3, <2>10 DEF H!HandoverNext
<1>6. \/ UNCHANGED <<begun, handed>>
      \/ \E t \in Transfers : Begin(t)
      \/ \E b \in blocks : Receive(b) /\ begun' = begun
  BY DEF Next, vars, serverVars, clientVars, Send, SendEarly, Hear, Abandon, Lose, Receive
<1> QED BY <1>2, <1>3, <1>4, <1>5, <1>6

\* To a server that runs one transfer at a time the client is a Handover: a
\* resource gets the whole body of the newest transfer or nothing.
THEOREM ClientImplementsHandover == Spec => ImplementsHandover
<1>1. QED
  BY HandoverStart, HandoverStep, Invariance, PTL DEF Spec, ImplementsHandover, H!HandoverSpec

==============================================================================
