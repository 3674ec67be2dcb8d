------------------------------- MODULE Handover -------------------------------
(***************************************************************************)
(* What a block-wise transfer promises to a server that runs one transfer  *)
(* at a time: a resource is handed the whole body of the transfer begun    *)
(* last, any number of times, and nothing else.                            *)
(***************************************************************************)
EXTENDS Naturals, Sequences

CONSTANTS Transfers, Uris,
          Uri,      \* transfer -> the resource it is for
          Length    \* transfer -> units of its body

VARIABLES begun,    \* the transfers begun, in order
          handed    \* resource -> what it was handed last

Body(t) == [i \in 1 .. Length[t] |-> [transfer |-> t, off |-> i - 1]]

HandoverInit ==
  /\ begun = << >>
  /\ handed = [u \in Uris |-> << >>]

BeginTransfer(t) == begun' = Append(begun, t) /\ UNCHANGED handed

HandOver(t) ==
  /\ begun # << >> /\ t = begun[Len(begun)]
  /\ handed' = [handed EXCEPT ![Uri[t]] = Body(t)]
  /\ UNCHANGED begun

HandoverNext == \E t \in Transfers : BeginTransfer(t) \/ HandOver(t)

HandoverSpec == HandoverInit /\ [][HandoverNext]_<<begun, handed>>

==============================================================================
