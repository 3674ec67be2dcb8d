------------------------ MODULE FirmwareUpdate_proofs ------------------------
(***************************************************************************)
(* Proofs about FirmwareUpdate, for a program and a memory of any size,    *)
(* either port, any number of downloads, resets and restarts, with or      *)
(* without failures: what is committed, installed and run, and when the    *)
(* event loop stands still.                                                *)
(***************************************************************************)
EXTENDS FirmwareUpdate, TLAPS

\* Messages arrive whole, and nobody else moves the server's file position
\* during this download.
Clean == ~split /\ (~mixed \/ served = 1)

\* What the storage holds when the first k chunks have been written: the file
\* from the server's position when writing began.
Filled(k) ==
  \A o \in Offsets : stored[o] = IF o < k THEN origin + o ELSE Erased

\* What it holds when the last one has.
Ended == stored = Rest(origin) /\ (served = 1 => origin = 0)

\* The server is about to send the chunk with number k of a download that began
\* at position b.
At(b, k) == ~endFlag /\ next[conn] = k /\ pos = b + k /\ (k > 0 => pos <= Last)
            /\ (served = 1 => b = 0)

\* Who is connected, and what that means to the server process.
SessionInv ==
  /\ dpc \in {"kill", "connect"} => conn < MaxDownloads
  /\ dpc \in {"describe", "flow", "finish"} => conn >= 1 /\ served >= 1
  /\ served <= conn
  /\ \A c \in Conns : c > conn => next[c] = 0 /\ wire[c].type = "none"
  /\ served = 0 => pos = 0 /\ \A c \in Conns : wire[c].type = "none"
  /\ served = 1 => \A c \in Conns : c # conn => wire[c].type = "none"

DescribeInv ==
  dpc = "describe" /\ Clean =>
    At(pos, 0) /\ wire[conn].type \in {"request", "description"}

FlowInv ==
  dpc = "flow" /\ Clean =>
    LET m == wire[conn] IN
      /\ m.type \in {"flow start", "chunk", "ack", "end"}
      /\ m.type = "flow start" => At(origin, 0) /\ Filled(0)
      /\ m.type = "chunk" => /\ Filled(m.id)
                             /\ m.data \in 0 .. Terminator /\ m.data = origin + m.id
                             /\ m.id > 0 => m.data <= Last
                             /\ served = 1 => origin = 0
                             /\ IF m.data < Last THEN At(origin, m.id + 1) ELSE endFlag
      /\ m.type = "ack" => IF endFlag THEN Ended ELSE At(origin, m.id + 1) /\ Filled(m.id + 1)
      /\ m.type = "end" => Ended

DoneInv ==
  Clean /\ (dpc = "finish" \/ (dpc = "cleanup" /\ res = "success")) => Ended

\* Metadata follows the code it describes.
StoreInv ==
  /\ port = "flash" /\ unfinished => meta # "full"
  /\ meta = "preamble" => unfinished
  /\ dpc \in {"flow", "finish"} => unfinished
  /\ dpc = "cleanup" /\ res = "success" => ~unfinished /\ meta = "full"
  /\ ~unfinished /\ meta = "full" /\ ~mixed /\ ~split => stored = Rest(origin)

QuietInv == dpc \in {"connect", "describe", "flow", "finish"} /\ ~disturbed => ~running

IInv == /\ TypeOK /\ SessionInv /\ DescribeInv /\ FlowInv /\ DoneInv /\ StoreInv
        /\ QuietInv /\ RunsFromOrigin

------------------------------------------------------------------------------
LEMMA ConstantTypes ==
  /\ Blocks \in Nat /\ Last \in Nat /\ Terminator = Last + 1
  /\ Offsets = 0 .. Terminator /\ Values = -2 .. Terminator /\ Conns = 1 .. MaxDownloads
  /\ MaxDownloads \in Nat /\ MaxResets \in Nat
BY FirmwareAssumption DEF Last, Terminator, Offsets, Values, Erased, Conns

\* The messages, taken apart.
LEMMA MessageTypes ==
  ASSUME NEW m \in Messages
  PROVE  /\ m.type \in Plain \cup {"description", "chunk", "ack"}
         /\ m.type = "description" => m.count \in Nat
         /\ m.type = "chunk" => m.id \in Nat /\ m.data \in Values
         /\ m.type = "ack" => m.id \in Nat
BY DEF Messages, Plain

LEMMA MessagesAre ==
  /\ \A t \in Plain : Msg(t) \in Messages /\ Msg(t).type = t
  /\ \A n \in Nat : Desc(n) \in Messages /\ Desc(n).type = "description" /\ Desc(n).count = n
  /\ \A i \in Nat, v \in Values :
       Chunk(i, v) \in Messages /\ Chunk(i, v).type = "chunk"
       /\ Chunk(i, v).id = i /\ Chunk(i, v).data = v
  /\ \A i \in Nat : Ack(i) \in Messages /\ Ack(i).type = "ack" /\ Ack(i).id = i
BY DEF Messages, Plain, Msg, Desc, Chunk, Ack

LEMMA InitInvariant == Init => IInv
<1> SUFFICES ASSUME Init PROVE IInv
  OBVIOUS
<1>1. TypeOK
  <2>1. "none" \in Plain
    BY DEF Plain
  <2>2. Msg("none") \in Messages
    BY <2>1, MessagesAre
  <2>3. Blank \in [Offsets -> Values]
    BY ConstantTypes DEF Blank, Erased
  <2>4. /\ wire \in [Conns -> Messages] /\ next \in [Conns -> Nat]
        /\ program \in [Offsets -> Values] \cup {BuiltIn, Wild} /\ stored \in [Offsets -> Values]
    BY <2>2, <2>3 DEF Init
  <2>5. conn \in 0 .. MaxDownloads /\ served \in 0 .. MaxDownloads /\ resets \in 0 .. MaxResets /\ pos \in 0 .. Terminator
    BY ConstantTypes DEF Init
  <2>6. history \in BOOLEAN \X BOOLEAN \X BOOLEAN
    BY DEF Init, history
  <2> QED BY <2>4, <2>5, <2>6 DEF Init, TypeOK
<1>2. SessionInv
  <2>1. \A c \in Conns : wire[c].type = "none" /\ next[c] = 0
    BY DEF Init, Msg
  <2> QED BY <2>1 DEF Init, SessionInv
<1>3. DescribeInv /\ FlowInv /\ DoneInv /\ QuietInv
  BY DEF Init, DescribeInv, FlowInv, DoneInv, QuietInv
<1>4. StoreInv /\ RunsFromOrigin
  BY DEF Init, StoreInv, RunsFromOrigin
<1> QED BY <1>1, <1>2, <1>3, <1>4 DEF IInv

------------------------------------------------------------------------------
\* A chunk, whatever it holds, leaves the storage well-typed.
LEMMA WriteChunkTyped ==
  ASSUME NEW id, NEW v \in Values, stored \in [Offsets -> Values], WriteChunk(id, v)
  PROVE  stored' \in [Offsets -> Values]
BY DEF WriteChunk

LEMMA TypeInvariant ==
  ASSUME TypeOK, SessionInv, [Next]_vars
  PROVE  TypeOK'
<1>c. /\ Blocks \in Nat /\ Last \in Nat /\ Terminator = Last + 1
      /\ Values = -2 .. Terminator /\ Conns = 1 .. MaxDownloads
      /\ MaxDownloads \in Nat /\ MaxResets \in Nat
  BY ConstantTypes
<1>m. /\ \A t \in Plain : Msg(t) \in Messages
      /\ \A n \in Nat : Desc(n) \in Messages
      /\ \A i \in Nat, v \in Values : Chunk(i, v) \in Messages
      /\ \A i \in Nat : Ack(i) \in Messages
  BY MessagesAre
<1>b. Blank \in [Offsets -> Values] /\ Torn \in Values /\ Load \in [Offsets -> Values] \cup {BuiltIn, Wild}
  BY <1>c DEF Blank, Erased, Torn, Load, TypeOK
<1>w. dpc \in {"describe", "flow", "finish"} => conn \in Conns /\ wire[conn] \in Messages
  BY <1>c DEF SessionInv, TypeOK
<1>i. dpc = "flow" /\ wire[conn].type = "chunk"
        => wire[conn].id \in Nat /\ wire[conn].data \in Values
  BY <1>w, MessageTypes
<1> USE <1>c, <1>m, <1>b, <1>w, <1>i DEF TypeOK, device, storage, server, history, origins, hardware, WritingFrame, DeviceFrame
<1>1. ASSUME UNCHANGED hardware, TaskStart PROVE TypeOK'
  BY <1>1 DEF TaskStart
<1>2. ASSUME UNCHANGED hardware, KillLoop PROVE TypeOK'
  BY <1>2 DEF KillLoop
<1>3. ASSUME UNCHANGED hardware, Connect PROVE TypeOK'
  <2>1. conn + 1 \in Conns /\ conn' = conn + 1 /\ served + 1 \in 0 .. MaxDownloads
    BY <1>3 DEF Connect, SessionInv
  <2>2. Msg("request") \in Messages
    BY DEF Plain
  <2>3. wire' \in [Conns -> Messages]
    BY <1>3, <2>1, <2>2 DEF Connect
  <2>4. endFlag' \in BOOLEAN /\ rest' \in BOOLEAN /\ history' \in BOOLEAN \X BOOLEAN \X BOOLEAN
    BY <1>3 DEF Connect
  <2>5. conn' \in 0 .. MaxDownloads /\ served' \in 0 .. MaxDownloads
    BY <1>3, <2>1 DEF Connect
  <2> QED BY <1>3, <2>3, <2>4, <2>5 DEF Connect
<1>4. ASSUME UNCHANGED hardware, TooLarge PROVE TypeOK'
  BY <1>4 DEF TooLarge, GiveUp
<1>5. ASSUME UNCHANGED hardware, Described PROVE TypeOK'
  BY <1>5 DEF Described, WriteStart, Plain
<1>6. ASSUME UNCHANGED hardware, ReceiveChunk PROVE TypeOK'
  BY <1>6, WriteChunkTyped DEF ReceiveChunk
<1>7. ASSUME UNCHANGED hardware, ReceiveUnknown PROVE TypeOK'
  BY <1>7 DEF ReceiveUnknown, Plain
<1>8. ASSUME UNCHANGED hardware, ReceiveEnd PROVE TypeOK'
  BY <1>8 DEF ReceiveEnd, Plain
<1>9. ASSUME UNCHANGED hardware, WritePreamble PROVE TypeOK'
  BY <1>9 DEF WritePreamble
<1>10. ASSUME UNCHANGED hardware, WriteFinish PROVE TypeOK'
  BY <1>10 DEF WriteFinish
<1>11. ASSUME UNCHANGED hardware, Cleanup PROVE TypeOK'
  BY <1>11 DEF Cleanup
<1>12. ASSUME UNCHANGED hardware, ConnectFails PROVE TypeOK'
  BY <1>12 DEF ConnectFails
<1>13. ASSUME UNCHANGED hardware, ConnectionLost PROVE TypeOK'
  BY <1>13 DEF ConnectionLost, GiveUp
<1>14. ASSUME UNCHANGED hardware, WriteStartFails PROVE TypeOK'
  BY <1>14 DEF WriteStartFails, GiveUp, WriteStart
<1>15. ASSUME UNCHANGED hardware, WriteFails PROVE TypeOK'
  BY <1>15, WriteChunkTyped DEF WriteFails, GiveUp
<1>16. ASSUME UNCHANGED hardware, WriteFinishFails PROVE TypeOK'
  BY <1>16 DEF WriteFinishFails, GiveUp
<1>17. ASSUME UNCHANGED hardware, RestartLoop PROVE TypeOK'
  <2>1. resets' \in 0 .. MaxResets
    BY <1>17 DEF RestartLoop
  <2>2. history' \in BOOLEAN \X BOOLEAN \X BOOLEAN
    BY <1>17 DEF RestartLoop
  <2>3. program' \in [Offsets -> Values] \cup {BuiltIn, Wild}
    BY <1>17 DEF RestartLoop
  <2> QED BY <1>17, <2>1, <2>2, <2>3 DEF RestartLoop
<1>18. ASSUME UNCHANGED hardware, Crash PROVE TypeOK'
  <2>1. resets' \in 0 .. MaxResets
    BY <1>18 DEF Crash
  <2>2. history' \in BOOLEAN \X BOOLEAN \X BOOLEAN
    BY <1>18 DEF Crash
  <2>3. program' \in [Offsets -> Values] \cup {BuiltIn, Wild}
    BY <1>18 DEF Crash
  <2> QED BY <1>18, <2>1, <2>2, <2>3 DEF Crash
<1>19. ASSUME UNCHANGED hardware, ServerRestarts PROVE TypeOK'
  <2>1. Msg("none") \in Messages
    BY DEF Plain
  <2>2. wire' \in [Conns -> Messages] /\ pos' \in 0 .. Terminator /\ served' \in 0 .. MaxDownloads
    BY <1>19, <2>1 DEF ServerRestarts
  <2> QED BY <1>19, <2>2 DEF ServerRestarts
<1>20. ASSUME UNCHANGED hardware, NEW c \in Conns, ServerDescribes(c) PROVE TypeOK'
  <2>1. ChunkCount \in Nat
    BY DEF ChunkCount
  <2> QED BY <1>20, <2>1 DEF ServerDescribes, ServerFrame
<1>21. ASSUME UNCHANGED hardware, NEW c \in Conns, ServerSends(c) PROVE TypeOK'
  <2>1. pos \in Values /\ next[c] \in Nat
    OBVIOUS
  <2>2. Chunk(next[c], pos) \in Messages
    BY <2>1
  <2>3. wire' \in [Conns -> Messages]
    BY <1>21, <2>2 DEF ServerSends
  <2>4. next' \in [Conns -> Nat] /\ pos' \in 0 .. Terminator
    <3>1. /\ next' = [next EXCEPT ![c] = next[c] + 1] /\ next \in [Conns -> Nat]
          /\ pos' = (IF pos < Terminator THEN pos + 1 ELSE pos) /\ pos \in 0 .. Terminator
      BY <1>21 DEF ServerSends
    <3>2. next' \in [Conns -> Nat]
      BY <3>1, <2>1
    <3>3. pos' \in 0 .. Terminator
      BY <3>1, <1>c
    <3> QED BY <3>2, <3>3
  <2>5. endFlag' \in BOOLEAN
    BY <1>21 DEF ServerSends
  <2>6. mixed' \in BOOLEAN
    BY <1>21 DEF ServerSends, ServerFrame
  <2> QED BY <1>21, <2>3, <2>4, <2>5, <2>6 DEF ServerSends, ServerFrame
<1>22. ASSUME UNCHANGED hardware, NEW c \in Conns, ServerEnds(c) PROVE TypeOK'
  BY <1>22 DEF ServerEnds, ServerFrame, Plain
<1>23. CASE UNCHANGED vars
  BY <1>23 DEF vars
<1> QED BY <1>1, <1>2, <1>3, <1>4, <1>5, <1>6, <1>7, <1>8, <1>9, <1>10, <1>11, <1>12, <1>13, <1>14, <1>15, <1>16, <1>17, <1>18, <1>19, <1>20, <1>21, <1>22, <1>23 DEF Next, Downloader, Failure, Server

------------------------------------------------------------------------------
\* What the downloader does between connecting and closing touches no message
\* but its own.
LEMMA SessionFrame ==
  ASSUME TypeOK, SessionInv, UNCHANGED <<conn, served, next, pos>>,
         \/ wire' = wire
         \/ dpc \in {"describe", "flow"} /\ \E m : wire' = [wire EXCEPT ![conn] = m],
         dpc' \in {"kill", "connect"} => conn < MaxDownloads,
         dpc' \in {"describe", "flow", "finish"} => dpc \in {"describe", "flow", "finish"}
  PROVE  SessionInv'
<1>1. conn \in Nat /\ served \in Nat /\ Conns = 1 .. MaxDownloads
  BY ConstantTypes DEF TypeOK
<1>2. CASE wire' = wire
  BY <1>1, <1>2 DEF SessionInv
<1>3. ASSUME dpc \in {"describe", "flow"}, NEW m, wire' = [wire EXCEPT ![conn] = m]
      PROVE  SessionInv'
  <2>1. \A c \in Conns : c # conn => wire'[c] = wire[c]
    BY <1>3 DEF TypeOK
  <2>2. served # 0
    BY <1>1, <1>3 DEF SessionInv
  <2>3. \A c \in Conns : c > conn => c # conn
    BY <1>1
  <2> QED BY <1>1, <2>1, <2>2, <2>3 DEF SessionInv
<1> QED BY <1>2, <1>3

LEMMA SessionInvariant ==
  ASSUME TypeOK, SessionInv, [Next]_vars
  PROVE  SessionInv'
<1> USE DEF device, storage, server, history, origins, hardware, WritingFrame, DeviceFrame
<1>t. conn \in Nat /\ served \in Nat /\ Conns = 1 .. MaxDownloads
  BY ConstantTypes DEF TypeOK
<1>1. ASSUME UNCHANGED hardware, TaskStart PROVE SessionInv'
  <2>1. UNCHANGED <<conn, served, next, pos, wire>>
    BY <1>1 DEF TaskStart
  <2>2. /\ dpc' \in {"kill", "connect"} => conn < MaxDownloads
        /\ dpc' \in {"describe", "flow", "finish"} => dpc \in {"describe", "flow", "finish"}
    BY <1>1 DEF TaskStart, SessionInv
  <2> QED BY <2>1, <2>2, SessionFrame
<1>2. ASSUME UNCHANGED hardware, KillLoop PROVE SessionInv'
  <2>1. UNCHANGED <<conn, served, next, pos, wire>>
    BY <1>2 DEF KillLoop
  <2>2. /\ dpc' \in {"kill", "connect"} => conn < MaxDownloads
        /\ dpc' \in {"describe", "flow", "finish"} => dpc \in {"describe", "flow", "finish"}
    BY <1>2 DEF KillLoop, SessionInv
  <2> QED BY <2>1, <2>2, SessionFrame
<1>3. ASSUME UNCHANGED hardware, Connect PROVE SessionInv'
  <2>1. /\ dpc' = "describe" /\ conn' = conn + 1 /\ served' = served + 1 /\ UNCHANGED <<next, pos>>
        /\ wire' = [wire EXCEPT ![conn + 1] = Msg("request")]
    BY <1>3 DEF Connect
  <2>2. \A c \in Conns : c # conn + 1 => wire'[c] = wire[c]
    BY <2>1 DEF TypeOK
  <2>3. \A c \in Conns : c > conn + 1 => c > conn /\ c # conn + 1
    BY <1>t
  <2>4. served = 0 => \A c \in Conns : c # conn' => wire'[c].type = "none"
    BY <2>1, <2>2 DEF SessionInv
  <2>5. \A c \in Conns : c > conn' => next'[c] = 0 /\ wire'[c].type = "none"
    BY <2>1, <2>2, <2>3 DEF SessionInv
  <2>6. served' <= conn' /\ conn' >= 1 /\ served' >= 1 /\ (served' = 1 => served = 0) /\ served' # 0
    BY <1>t, <2>1 DEF SessionInv
  <2> QED BY <2>1, <2>4, <2>5, <2>6 DEF SessionInv
<1>4. ASSUME UNCHANGED hardware, TooLarge PROVE SessionInv'
  <2>1. UNCHANGED <<conn, served, next, pos, wire>>
    BY <1>4 DEF TooLarge, GiveUp
  <2>2. /\ dpc' \in {"kill", "connect"} => conn < MaxDownloads
        /\ dpc' \in {"describe", "flow", "finish"} => dpc \in {"describe", "flow", "finish"}
    BY <1>4 DEF TooLarge, GiveUp, SessionInv
  <2> QED BY <2>1, <2>2, SessionFrame
<1>5. ASSUME UNCHANGED hardware, Described PROVE SessionInv'
  <2>1. UNCHANGED <<conn, served, next, pos>> /\ dpc \in {"describe", "flow"}
    BY <1>5 DEF Described
  <2>2. dpc' \in {"flow", "finish"}
    BY <1>5 DEF Described
  <2>3. wire' = wire \/ \E m : wire' = [wire EXCEPT ![conn] = m]
    BY <1>5 DEF Described
  <2> QED BY <2>1, <2>2, <2>3, SessionFrame
<1>6. ASSUME UNCHANGED hardware, ReceiveChunk PROVE SessionInv'
  <2>1. UNCHANGED <<conn, served, next, pos>> /\ dpc \in {"describe", "flow"}
    BY <1>6 DEF ReceiveChunk
  <2>2. dpc' \in {"flow", "finish"}
    BY <1>6 DEF ReceiveChunk
  <2>3. wire' = wire \/ \E m : wire' = [wire EXCEPT ![conn] = m]
    BY <1>6 DEF ReceiveChunk
  <2> QED BY <2>1, <2>2, <2>3, SessionFrame
<1>7. ASSUME UNCHANGED hardware, ReceiveUnknown PROVE SessionInv'
  <2>1. UNCHANGED <<conn, served, next, pos>> /\ dpc \in {"describe", "flow"}
    BY <1>7 DEF ReceiveUnknown
  <2>2. dpc' \in {"flow", "finish"}
    BY <1>7 DEF ReceiveUnknown
  <2>3. wire' = wire \/ \E m : wire' = [wire EXCEPT ![conn] = m]
    BY <1>7 DEF ReceiveUnknown
  <2> QED BY <2>1, <2>2, <2>3, SessionFrame
<1>8. ASSUME UNCHANGED hardware, ReceiveEnd PROVE SessionInv'
  <2>1. UNCHANGED <<conn, served, next, pos>> /\ dpc \in {"describe", "flow"}
    BY <1>8 DEF ReceiveEnd
  <2>2. dpc' \in {"flow", "finish"}
    BY <1>8 DEF ReceiveEnd
  <2>3. wire' = wire \/ \E m : wire' = [wire EXCEPT ![conn] = m]
    BY <1>8 DEF ReceiveEnd
  <2> QED BY <2>1, <2>2, <2>3, SessionFrame
<1>9. ASSUME UNCHANGED hardware, WritePreamble PROVE SessionInv'
  <2>1. UNCHANGED <<conn, served, next, pos, wire>>
    BY <1>9 DEF WritePreamble
  <2>2. /\ dpc' \in {"kill", "connect"} => conn < MaxDownloads
        /\ dpc' \in {"describe", "flow", "finish"} => dpc \in {"describe", "flow", "finish"}
    BY <1>9 DEF WritePreamble, SessionInv
  <2> QED BY <2>1, <2>2, SessionFrame
<1>10. ASSUME UNCHANGED hardware, WriteFinish PROVE SessionInv'
  <2>1. UNCHANGED <<conn, served, next, pos, wire>>
    BY <1>10 DEF WriteFinish
  <2>2. /\ dpc' \in {"kill", "connect"} => conn < MaxDownloads
        /\ dpc' \in {"describe", "flow", "finish"} => dpc \in {"describe", "flow", "finish"}
    BY <1>10 DEF WriteFinish, SessionInv
  <2> QED BY <2>1, <2>2, SessionFrame
<1>11. ASSUME UNCHANGED hardware, Cleanup PROVE SessionInv'
  <2>1. UNCHANGED <<conn, served, next, pos, wire>>
    BY <1>11 DEF Cleanup
  <2>2. /\ dpc' \in {"kill", "connect"} => conn < MaxDownloads
        /\ dpc' \in {"describe", "flow", "finish"} => dpc \in {"describe", "flow", "finish"}
    BY <1>11 DEF Cleanup, SessionInv
  <2> QED BY <2>1, <2>2, SessionFrame
<1>12. ASSUME UNCHANGED hardware, ConnectFails PROVE SessionInv'
  <2>1. UNCHANGED <<conn, served, next, pos, wire>>
    BY <1>12 DEF ConnectFails
  <2>2. /\ dpc' \in {"kill", "connect"} => conn < MaxDownloads
        /\ dpc' \in {"describe", "flow", "finish"} => dpc \in {"describe", "flow", "finish"}
    BY <1>12 DEF ConnectFails, SessionInv
  <2> QED BY <2>1, <2>2, SessionFrame
<1>13. ASSUME UNCHANGED hardware, ConnectionLost PROVE SessionInv'
  <2>1. UNCHANGED <<conn, served, next, pos, wire>>
    BY <1>13 DEF ConnectionLost, GiveUp
  <2>2. /\ dpc' \in {"kill", "connect"} => conn < MaxDownloads
        /\ dpc' \in {"describe", "flow", "finish"} => dpc \in {"describe", "flow", "finish"}
    BY <1>13 DEF ConnectionLost, GiveUp, SessionInv
  <2> QED BY <2>1, <2>2, SessionFrame
<1>14. ASSUME UNCHANGED hardware, WriteStartFails PROVE SessionInv'
  <2>1. UNCHANGED <<conn, served, next, pos, wire>>
    BY <1>14 DEF WriteStartFails, GiveUp
  <2>2. /\ dpc' \in {"kill", "connect"} => conn < MaxDownloads
        /\ dpc' \in {"describe", "flow", "finish"} => dpc \in {"describe", "flow", "finish"}
    BY <1>14 DEF WriteStartFails, GiveUp, SessionInv
  <2> QED BY <2>1, <2>2, SessionFrame
<1>15. ASSUME UNCHANGED hardware, WriteFails PROVE SessionInv'
  <2>1. UNCHANGED <<conn, served, next, pos, wire>>
    BY <1>15 DEF WriteFails, GiveUp
  <2>2. /\ dpc' \in {"kill", "connect"} => conn < MaxDownloads
        /\ dpc' \in {"describe", "flow", "finish"} => dpc \in {"describe", "flow", "finish"}
    BY <1>15 DEF WriteFails, GiveUp, SessionInv
  <2> QED BY <2>1, <2>2, SessionFrame
<1>16. ASSUME UNCHANGED hardware, WriteFinishFails PROVE SessionInv'
  <2>1. UNCHANGED <<conn, served, next, pos, wire>>
    BY <1>16 DEF WriteFinishFails, GiveUp
  <2>2. /\ dpc' \in {"kill", "connect"} => conn < MaxDownloads
        /\ dpc' \in {"describe", "flow", "finish"} => dpc \in {"describe", "flow", "finish"}
    BY <1>16 DEF WriteFinishFails, GiveUp, SessionInv
  <2> QED BY <2>1, <2>2, SessionFrame
<1>17. ASSUME UNCHANGED hardware, RestartLoop PROVE SessionInv'
  <2>1. UNCHANGED <<conn, served, next, pos, wire>>
    BY <1>17 DEF RestartLoop
  <2>2. /\ dpc' \in {"kill", "connect"} => conn < MaxDownloads
        /\ dpc' \in {"describe", "flow", "finish"} => dpc \in {"describe", "flow", "finish"}
    BY <1>17 DEF RestartLoop, SessionInv
  <2> QED BY <2>1, <2>2, SessionFrame
<1>18. ASSUME UNCHANGED hardware, Crash PROVE SessionInv'
  <2>1. UNCHANGED <<conn, served, next, pos, wire>>
    BY <1>18 DEF Crash
  <2>2. /\ dpc' \in {"kill", "connect"} => conn < MaxDownloads
        /\ dpc' \in {"describe", "flow", "finish"} => dpc \in {"describe", "flow", "finish"}
    BY <1>18 DEF Crash, SessionInv
  <2> QED BY <2>1, <2>2, SessionFrame
<1>19. ASSUME UNCHANGED hardware, ServerRestarts PROVE SessionInv'
  <2>1. /\ dpc' = "idle" /\ UNCHANGED <<conn, next>> /\ pos' = 0 /\ served' = 0
        /\ wire' = [c \in Conns |-> Msg("none")]
    BY <1>19 DEF ServerRestarts
  <2>2. \A c \in Conns : wire'[c].type = "none"
    BY <2>1 DEF Msg
  <2> QED BY <1>t, <2>1, <2>2 DEF SessionInv
<1>20. ASSUME UNCHANGED hardware, NEW c \in Conns, ServerDescribes(c) PROVE SessionInv'
  <2>1. /\ UNCHANGED <<dpc, conn, served>>
        /\ wire[c].type # "none"
        /\ \A o \in Conns : o # c => wire'[o] = wire[o] /\ next'[o] = next[o]
    BY <1>20 DEF ServerDescribes, ServerFrame, TypeOK
  <2>2. ~(c > conn) /\ served # 0 /\ (served = 1 => c = conn)
    BY <2>1 DEF SessionInv
  <2> QED BY <2>1, <2>2 DEF SessionInv
<1>21. ASSUME UNCHANGED hardware, NEW c \in Conns, ServerSends(c) PROVE SessionInv'
  <2>1. /\ UNCHANGED <<dpc, conn, served>>
        /\ wire[c].type # "none"
        /\ \A o \in Conns : o # c => wire'[o] = wire[o] /\ next'[o] = next[o]
    BY <1>21 DEF ServerSends, ServerFrame, TypeOK
  <2>2. ~(c > conn) /\ served # 0 /\ (served = 1 => c = conn)
    BY <2>1 DEF SessionInv
  <2> QED BY <2>1, <2>2 DEF SessionInv
<1>22. ASSUME UNCHANGED hardware, NEW c \in Conns, ServerEnds(c) PROVE SessionInv'
  <2>1. /\ UNCHANGED <<dpc, conn, served>>
        /\ wire[c].type # "none"
        /\ \A o \in Conns : o # c => wire'[o] = wire[o] /\ next'[o] = next[o]
    BY <1>22 DEF ServerEnds, ServerFrame, TypeOK
  <2>2. ~(c > conn) /\ served # 0 /\ (served = 1 => c = conn)
    BY <2>1 DEF SessionInv
  <2> QED BY <2>1, <2>2 DEF SessionInv
<1>23. CASE UNCHANGED vars
  BY <1>23 DEF vars, SessionInv
<1> QED BY <1>1, <1>2, <1>3, <1>4, <1>5, <1>6, <1>7, <1>8, <1>9, <1>10, <1>11, <1>12, <1>13, <1>14, <1>15, <1>16, <1>17, <1>18, <1>19, <1>20, <1>21, <1>22, <1>23
  DEF Next, Downloader, Failure, Server

------------------------------------------------------------------------------
\* The metadata is complete only while no download is unfinished, and then it
\* is the end of one that wrote everything.
LEMMA StoreInvariant ==
  ASSUME TypeOK, StoreInv, DoneInv, [Next]_vars
  PROVE  StoreInv'
<1> USE DEF device, storage, server, history, origins, hardware, WritingFrame, DeviceFrame
<1>1. ASSUME UNCHANGED hardware, TaskStart PROVE StoreInv'
  BY <1>1 DEF TaskStart, StoreInv, Rest
<1>2. ASSUME UNCHANGED hardware, KillLoop PROVE StoreInv'
  BY <1>2 DEF KillLoop, StoreInv, Rest
<1>3. ASSUME UNCHANGED hardware, Connect PROVE StoreInv'
  BY <1>3 DEF Connect, StoreInv, Rest
<1>4. ASSUME UNCHANGED hardware, TooLarge PROVE StoreInv'
  BY <1>4 DEF TooLarge, GiveUp, StoreInv, Rest
<1>5. ASSUME UNCHANGED hardware, Described PROVE StoreInv'
  BY <1>5 DEF Described, WriteStart, StoreInv, Rest
<1>6. ASSUME UNCHANGED hardware, ReceiveChunk PROVE StoreInv'
  BY <1>6 DEF ReceiveChunk, StoreInv, Rest
<1>7. ASSUME UNCHANGED hardware, ReceiveUnknown PROVE StoreInv'
  BY <1>7 DEF ReceiveUnknown, StoreInv, Rest
<1>8. ASSUME UNCHANGED hardware, ReceiveEnd PROVE StoreInv'
  BY <1>8 DEF ReceiveEnd, StoreInv, Rest
<1>9. ASSUME UNCHANGED hardware, WritePreamble PROVE StoreInv'
  BY <1>9 DEF WritePreamble, StoreInv, Rest
<1>10. ASSUME UNCHANGED hardware, WriteFinish PROVE StoreInv'
  <2>1. ~mixed /\ ~split => stored = Rest(origin)
    BY <1>10 DEF WriteFinish, DoneInv, Clean, Ended
  <2> QED BY <1>10, <2>1 DEF WriteFinish, StoreInv, Rest
<1>11. ASSUME UNCHANGED hardware, Cleanup PROVE StoreInv'
  BY <1>11 DEF Cleanup, StoreInv, Rest
<1>12. ASSUME UNCHANGED hardware, ConnectFails PROVE StoreInv'
  BY <1>12 DEF ConnectFails, StoreInv, Rest
<1>13. ASSUME UNCHANGED hardware, ConnectionLost PROVE StoreInv'
  BY <1>13 DEF ConnectionLost, GiveUp, StoreInv, Rest
<1>14. ASSUME UNCHANGED hardware, WriteStartFails PROVE StoreInv'
  BY <1>14 DEF WriteStartFails, GiveUp, WriteStart, StoreInv, Rest
<1>15. ASSUME UNCHANGED hardware, WriteFails PROVE StoreInv'
  BY <1>15 DEF WriteFails, GiveUp, StoreInv, Rest
<1>16. ASSUME UNCHANGED hardware, WriteFinishFails PROVE StoreInv'
  BY <1>16 DEF WriteFinishFails, GiveUp, StoreInv, Rest
<1>17. ASSUME UNCHANGED hardware, RestartLoop PROVE StoreInv'
  BY <1>17 DEF RestartLoop, StoreInv, Rest
<1>18. ASSUME UNCHANGED hardware, Crash PROVE StoreInv'
  BY <1>18 DEF Crash, StoreInv, Rest
<1>19. ASSUME UNCHANGED hardware, ServerRestarts PROVE StoreInv'
  BY <1>19 DEF ServerRestarts, StoreInv, Rest
<1>20. ASSUME UNCHANGED hardware, NEW c \in Conns, ServerDescribes(c) PROVE StoreInv'
  BY <1>20 DEF ServerDescribes, ServerFrame, StoreInv, Rest
<1>21. ASSUME UNCHANGED hardware, NEW c \in Conns, ServerSends(c) PROVE StoreInv'
  BY <1>21 DEF ServerSends, ServerFrame, StoreInv, Rest
<1>22. ASSUME UNCHANGED hardware, NEW c \in Conns, ServerEnds(c) PROVE StoreInv'
  BY <1>22 DEF ServerEnds, ServerFrame, StoreInv, Rest
<1>23. CASE UNCHANGED vars
  BY <1>23 DEF vars, StoreInv, Rest
<1> QED BY <1>1, <1>2, <1>3, <1>4, <1>5, <1>6, <1>7, <1>8, <1>9, <1>10, <1>11, <1>12, <1>13, <1>14, <1>15, <1>16, <1>17, <1>18, <1>19, <1>20, <1>21, <1>22, <1>23
  DEF Next, Downloader, Failure, Server

\* Only a restart for the LWM2M server sets the loop going during a download.
LEMMA QuietInvariant ==
  ASSUME TypeOK, QuietInv, [Next]_vars
  PROVE  QuietInv'
<1> USE DEF device, storage, server, history, origins, hardware, WritingFrame, DeviceFrame
<1>1. ASSUME UNCHANGED hardware, TaskStart PROVE QuietInv'
  BY <1>1 DEF TaskStart, QuietInv
<1>2. ASSUME UNCHANGED hardware, KillLoop PROVE QuietInv'
  BY <1>2 DEF KillLoop, QuietInv
<1>3. ASSUME UNCHANGED hardware, Connect PROVE QuietInv'
  BY <1>3 DEF Connect, QuietInv
<1>4. ASSUME UNCHANGED hardware, TooLarge PROVE QuietInv'
  BY <1>4 DEF TooLarge, GiveUp, QuietInv
<1>5. ASSUME UNCHANGED hardware, Described PROVE QuietInv'
  BY <1>5 DEF Described, WriteStart, QuietInv
<1>6. ASSUME UNCHANGED hardware, ReceiveChunk PROVE QuietInv'
  BY <1>6 DEF ReceiveChunk, QuietInv
<1>7. ASSUME UNCHANGED hardware, ReceiveUnknown PROVE QuietInv'
  BY <1>7 DEF ReceiveUnknown, QuietInv
<1>8. ASSUME UNCHANGED hardware, ReceiveEnd PROVE QuietInv'
  BY <1>8 DEF ReceiveEnd, QuietInv
<1>9. ASSUME UNCHANGED hardware, WritePreamble PROVE QuietInv'
  BY <1>9 DEF WritePreamble, QuietInv
<1>10. ASSUME UNCHANGED hardware, WriteFinish PROVE QuietInv'
  BY <1>10 DEF WriteFinish, QuietInv
<1>11. ASSUME UNCHANGED hardware, Cleanup PROVE QuietInv'
  BY <1>11 DEF Cleanup, QuietInv
<1>12. ASSUME UNCHANGED hardware, ConnectFails PROVE QuietInv'
  BY <1>12 DEF ConnectFails, QuietInv
<1>13. ASSUME UNCHANGED hardware, ConnectionLost PROVE QuietInv'
  BY <1>13 DEF ConnectionLost, GiveUp, QuietInv
<1>14. ASSUME UNCHANGED hardware, WriteStartFails PROVE QuietInv'
  BY <1>14 DEF WriteStartFails, GiveUp, WriteStart, QuietInv
<1>15. ASSUME UNCHANGED hardware, WriteFails PROVE QuietInv'
  BY <1>15 DEF WriteFails, GiveUp, QuietInv
<1>16. ASSUME UNCHANGED hardware, WriteFinishFails PROVE QuietInv'
  BY <1>16 DEF WriteFinishFails, GiveUp, QuietInv
<1>17. ASSUME UNCHANGED hardware, RestartLoop PROVE QuietInv'
  BY <1>17 DEF RestartLoop, QuietInv
<1>18. ASSUME UNCHANGED hardware, Crash PROVE QuietInv'
  BY <1>18 DEF Crash, QuietInv
<1>19. ASSUME UNCHANGED hardware, ServerRestarts PROVE QuietInv'
  BY <1>19 DEF ServerRestarts, QuietInv
<1>20. ASSUME UNCHANGED hardware, NEW c \in Conns, ServerDescribes(c) PROVE QuietInv'
  BY <1>20 DEF ServerDescribes, ServerFrame, QuietInv
<1>21. ASSUME UNCHANGED hardware, NEW c \in Conns, ServerSends(c) PROVE QuietInv'
  BY <1>21 DEF ServerSends, ServerFrame, QuietInv
<1>22. ASSUME UNCHANGED hardware, NEW c \in Conns, ServerEnds(c) PROVE QuietInv'
  BY <1>22 DEF ServerEnds, ServerFrame, QuietInv
<1>23. CASE UNCHANGED vars
  BY <1>23 DEF vars, QuietInv
<1> QED BY <1>1, <1>2, <1>3, <1>4, <1>5, <1>6, <1>7, <1>8, <1>9, <1>10, <1>11, <1>12, <1>13, <1>14, <1>15, <1>16, <1>17, <1>18, <1>19, <1>20, <1>21, <1>22, <1>23
  DEF Next, Downloader, Failure, Server

\* A program that is loaded was committed, or is what an unfinished download
\* left to a restart or a reset.
LEMMA RunsInvariant ==
  ASSUME TypeOK, StoreInv, RunsFromOrigin, [Next]_vars
  PROVE  RunsFromOrigin'
<1> USE DEF device, storage, server, history, origins, hardware, WritingFrame, DeviceFrame
<1>1. ASSUME UNCHANGED hardware, TaskStart PROVE RunsFromOrigin'
  BY <1>1 DEF TaskStart, RunsFromOrigin, Rest
<1>2. ASSUME UNCHANGED hardware, KillLoop PROVE RunsFromOrigin'
  BY <1>2 DEF KillLoop, RunsFromOrigin, Rest
<1>3. ASSUME UNCHANGED hardware, Connect PROVE RunsFromOrigin'
  BY <1>3 DEF Connect, RunsFromOrigin, Rest
<1>4. ASSUME UNCHANGED hardware, TooLarge PROVE RunsFromOrigin'
  BY <1>4 DEF TooLarge, GiveUp, RunsFromOrigin, Rest
<1>5. ASSUME UNCHANGED hardware, Described PROVE RunsFromOrigin'
  BY <1>5 DEF Described, WriteStart, RunsFromOrigin, Rest
<1>6. ASSUME UNCHANGED hardware, ReceiveChunk PROVE RunsFromOrigin'
  BY <1>6 DEF ReceiveChunk, RunsFromOrigin, Rest
<1>7. ASSUME UNCHANGED hardware, ReceiveUnknown PROVE RunsFromOrigin'
  BY <1>7 DEF ReceiveUnknown, RunsFromOrigin, Rest
<1>8. ASSUME UNCHANGED hardware, ReceiveEnd PROVE RunsFromOrigin'
  BY <1>8 DEF ReceiveEnd, RunsFromOrigin, Rest
<1>9. ASSUME UNCHANGED hardware, WritePreamble PROVE RunsFromOrigin'
  BY <1>9 DEF WritePreamble, RunsFromOrigin, Rest
<1>10. ASSUME UNCHANGED hardware, WriteFinish PROVE RunsFromOrigin'
  BY <1>10 DEF WriteFinish, RunsFromOrigin, Rest
<1>11. ASSUME UNCHANGED hardware, Cleanup PROVE RunsFromOrigin'
  <2>1. CASE res = "success"
    BY <1>11, <2>1 DEF Cleanup, Load, StoreInv, RunsFromOrigin
  <2>2. CASE res # "success"
    BY <1>11, <2>2 DEF Cleanup, RunsFromOrigin, Rest
  <2> QED BY <2>1, <2>2
<1>12. ASSUME UNCHANGED hardware, ConnectFails PROVE RunsFromOrigin'
  BY <1>12 DEF ConnectFails, RunsFromOrigin, Rest
<1>13. ASSUME UNCHANGED hardware, ConnectionLost PROVE RunsFromOrigin'
  BY <1>13 DEF ConnectionLost, GiveUp, RunsFromOrigin, Rest
<1>14. ASSUME UNCHANGED hardware, WriteStartFails PROVE RunsFromOrigin'
  BY <1>14 DEF WriteStartFails, GiveUp, WriteStart, RunsFromOrigin, Rest
<1>15. ASSUME UNCHANGED hardware, WriteFails PROVE RunsFromOrigin'
  BY <1>15 DEF WriteFails, GiveUp, RunsFromOrigin, Rest
<1>16. ASSUME UNCHANGED hardware, WriteFinishFails PROVE RunsFromOrigin'
  BY <1>16 DEF WriteFinishFails, GiveUp, RunsFromOrigin, Rest
<1>17. ASSUME UNCHANGED hardware, RestartLoop PROVE RunsFromOrigin'
  <2>1. port = "flash" /\ unfinished /\ ~(program' = BuiltIn) => program' = Wild
    BY <1>17 DEF RestartLoop, Load, StoreInv, TypeOK
  <2>2. ~unfinished /\ ~mixed /\ ~split /\ ~(program' = BuiltIn) => program' = Rest(loaded')
    BY <1>17 DEF RestartLoop, Load, StoreInv, TypeOK
  <2>3. part' = unfinished /\ mixed' = mixed
    BY <1>17 DEF RestartLoop
  <2> QED BY <1>17, <2>1, <2>2, <2>3 DEF RunsFromOrigin
<1>18. ASSUME UNCHANGED hardware, Crash PROVE RunsFromOrigin'
  <2>1. port = "flash" /\ unfinished /\ ~(program' = BuiltIn) => program' = Wild
    BY <1>18 DEF Crash, Load, StoreInv, TypeOK
  <2>2. ~unfinished /\ ~mixed /\ ~split /\ ~(program' = BuiltIn) => program' = Rest(loaded')
    BY <1>18 DEF Crash, Load, StoreInv, TypeOK
  <2>3. part' = unfinished /\ mixed' = mixed
    BY <1>18 DEF Crash
  <2> QED BY <1>18, <2>1, <2>2, <2>3 DEF RunsFromOrigin
<1>19. ASSUME UNCHANGED hardware, ServerRestarts PROVE RunsFromOrigin'
  BY <1>19 DEF ServerRestarts, RunsFromOrigin, Rest
<1>20. ASSUME UNCHANGED hardware, NEW c \in Conns, ServerDescribes(c) PROVE RunsFromOrigin'
  BY <1>20 DEF ServerDescribes, ServerFrame, RunsFromOrigin, Rest
<1>21. ASSUME UNCHANGED hardware, NEW c \in Conns, ServerSends(c) PROVE RunsFromOrigin'
  BY <1>21 DEF ServerSends, ServerFrame, RunsFromOrigin, Rest
<1>22. ASSUME UNCHANGED hardware, NEW c \in Conns, ServerEnds(c) PROVE RunsFromOrigin'
  BY <1>22 DEF ServerEnds, ServerFrame, RunsFromOrigin, Rest
<1>23. CASE UNCHANGED vars
  BY <1>23 DEF vars, RunsFromOrigin, Rest
<1> QED BY <1>1, <1>2, <1>3, <1>4, <1>5, <1>6, <1>7, <1>8, <1>9, <1>10, <1>11, <1>12, <1>13, <1>14, <1>15, <1>16, <1>17, <1>18, <1>19, <1>20, <1>21, <1>22, <1>23
  DEF Next, Downloader, Failure, Server

------------------------------------------------------------------------------
\* Chunk k, written behind the first k ones, goes to its place on either port:
\* the file's end is there.
LEMMA WriteInOrder ==
  ASSUME TypeOK, NEW k \in Offsets, Filled(k), NEW v \in 0 .. Terminator, WriteChunk(k, v),
         v = origin + k, k > 0 => v <= Last, served = 1 => origin = 0,
         UNCHANGED <<served, origin>>
  PROVE  /\ v < Last => Filled(k + 1)'
         /\ ~(v < Last) => Ended'
<1>c. /\ Last \in Nat /\ Last = Blocks /\ Terminator = Last + 1 /\ Offsets = 0 .. Terminator /\ Erased = -2
      /\ k \in Nat /\ origin \in Nat
  BY ConstantTypes DEF Last, Erased, TypeOK
<1>1. \A o \in Offsets : /\ o < k => stored[o] # Erased
                         /\ ~(o < k) => stored[o] = Erased
  BY <1>c DEF Filled
<1>2. Top = k
  <2> DEFINE P(n) == /\ \A o \in Offsets : o < n => stored[o] # Erased
                     /\ n \in Offsets => stored[n] = Erased
  <2>1. k \in 0 .. Blocks + 2 /\ P(k)
    BY <1>c, <1>1
  <2>2. ASSUME NEW n \in 0 .. Blocks + 2, P(n) PROVE n = k
    <3>1. ~(n < k)
      BY <1>c, <1>1, <2>2
    <3>2. ~(k < n)
      BY <1>c, <1>1, <2>2
    <3> QED BY <1>c, <3>1, <3>2
  <2>3. Top = CHOOSE n \in 0 .. Blocks + 2 : P(n)
    BY DEF Top
  <2> HIDE DEF P
  <2> QED BY <2>1, <2>2, <2>3
<1>3. stored' = [stored EXCEPT ![k] = v]
  BY <1>2 DEF WriteChunk
<1>4. \A o \in Offsets : stored'[o] = IF o = k THEN v ELSE stored[o]
  BY <1>3 DEF TypeOK
<1>5. ASSUME v < Last PROVE Filled(k + 1)'
  <2>1. ASSUME NEW o \in Offsets
        PROVE  stored'[o] = IF o < k + 1 THEN origin' + o ELSE Erased
    BY <1>c, <1>4 DEF Filled
  <2> QED BY <2>1 DEF Filled
<1>6. ASSUME ~(v < Last) PROVE Ended'
  <2>1. ASSUME NEW o \in Offsets
        PROVE  stored'[o] = IF origin + o <= Last \/ (origin = Terminator /\ o = 0)
                            THEN origin + o ELSE Erased
    BY <1>c, <1>4, <1>6 DEF Filled
  <2>2. stored' = [o \in Offsets |-> stored'[o]]
    BY <1>3 DEF TypeOK
  <2>3. stored' = Rest(origin)
    BY <2>1, <2>2 DEF Rest
  <2>4. Rest(origin)' = Rest(origin)
    BY DEF Rest
  <2> QED BY <2>3, <2>4 DEF Ended
<1> QED BY <1>5, <1>6

\* The server's next chunk is the one it is at.
LEMMA NextChunk ==
  ASSUME TypeOK, conn \in Conns, ServerSends(conn), NEW k \in Nat, At(origin, k)
  PROVE  /\ wire'[conn] = Chunk(k, pos) /\ conn' = conn
         /\ pos \in 0 .. Terminator /\ pos = origin + k
         /\ k > 0 => pos <= Last
         /\ served = 1 => origin = 0
         /\ pos < Last => At(origin, k + 1)'
         /\ ~(pos < Last) => endFlag'
<1>c. Last \in Nat /\ Terminator = Last + 1
  BY ConstantTypes
<1>1. /\ ~endFlag /\ next[conn] = k /\ pos = origin + k /\ (k > 0 => pos <= Last)
      /\ served = 1 => origin = 0
      /\ pos \in 0 .. Terminator /\ origin \in Nat
  BY DEF At, TypeOK
<1>2. /\ wire' = [wire EXCEPT ![conn] = Chunk(next[conn], pos)]
      /\ next' = [next EXCEPT ![conn] = next[conn] + 1]
      /\ endFlag' = (endFlag \/ pos >= Last)
      /\ pos' = IF pos < Terminator THEN pos + 1 ELSE pos
      /\ conn' = conn /\ served' = served /\ origin' = origin
  BY DEF ServerSends, ServerFrame, device, origins
<1>3. wire'[conn] = Chunk(k, pos) /\ next'[conn] = k + 1
  BY <1>1, <1>2 DEF TypeOK
<1>4. endFlag' <=> ~(pos < Last)
  <2>1. pos >= Last <=> ~(pos < Last)
    BY <1>1, <1>c
  <2>2. ~endFlag /\ endFlag' = (endFlag \/ pos >= Last)
    BY <1>1, <1>2
  <2> QED BY <2>1, <2>2, Zenon
<1>5. pos < Last => pos' = pos + 1
  BY <1>1, <1>2, <1>c
<1>6. pos < Last => At(origin, k + 1)'
  BY <1>1, <1>2, <1>3, <1>4, <1>5, <1>c DEF At
<1> QED BY <1>1, <1>2, <1>3, <1>4, <1>6

\* Filled, Ended and At stand while what they are about does.
LEMMA StorageKept ==
  ASSUME UNCHANGED <<stored, served, origin>>
  PROVE  (\A k : Filled(k)' <=> Filled(k)) /\ (Ended' <=> Ended)
BY DEF Filled, Ended, Rest

OrderInv == DescribeInv /\ FlowInv /\ DoneInv

\* Where the download is left, or its task's state alone changes, nothing is
\* claimed of the order of chunks.
LEMMA LeftBehind ==
  ASSUME dpc' \in {"idle", "kill", "connect"} \/ (dpc' = "cleanup" /\ res' = "failed")
  PROVE  OrderInv'
BY DEF OrderInv, DescribeInv, FlowInv, DoneInv

LEMMA OrderInvariant ==
  ASSUME TypeOK, SessionInv, OrderInv, [Next]_vars
  PROVE  OrderInv'
<1> USE DEF device, storage, server, history, origins, hardware, WritingFrame, DeviceFrame
<1>w. dpc \in {"describe", "flow", "finish"} => conn \in Conns /\ wire[conn] \in Messages
  BY ConstantTypes DEF SessionInv, TypeOK
<1>m. \A t \in Plain : Msg(t).type = t
  BY MessagesAre
<1>1. ASSUME UNCHANGED hardware,
             \/ TaskStart \/ KillLoop \/ ConnectFails \/ Cleanup \/ Crash \/ ServerRestarts
             \/ ConnectionLost \/ TooLarge \/ WriteStartFails \/ WriteFails \/ WriteFinishFails
      PROVE  OrderInv'
  <2>1. dpc' \in {"idle", "kill", "connect"} \/ (dpc' = "cleanup" /\ res' = "failed")
    BY <1>1 DEF TaskStart, KillLoop, ConnectFails, Cleanup, Crash, ServerRestarts, ConnectionLost,
                TooLarge, WriteStartFails, WriteFails, WriteFinishFails, GiveUp
  <2> QED BY <2>1, LeftBehind
<1>2. ASSUME UNCHANGED <<hardware, dpc, res, conn, storage, wire, server, served, mixed, origin>>
      PROVE  OrderInv'
  BY <1>2, StorageKept DEF OrderInv, DescribeInv, FlowInv, DoneInv, At, Clean
<1>3. ASSUME UNCHANGED hardware, Connect PROVE OrderInv'
  <2>1. /\ conn' = conn + 1 /\ conn + 1 \in Conns /\ ~endFlag' /\ served' = served + 1
        /\ UNCHANGED <<pos, next>> /\ wire' = [wire EXCEPT ![conn + 1] = Msg("request")]
        /\ dpc' = "describe"
    BY <1>3, ConstantTypes DEF Connect, SessionInv, TypeOK
  <2>2. next[conn + 1] = 0 /\ (served + 1 = 1 => pos = 0)
    BY <2>1, ConstantTypes DEF SessionInv, TypeOK
  <2>3. wire'[conn'].type = "request"
    BY <2>1, <1>m DEF TypeOK, Plain
  <2>4. At(pos, 0)'
    BY <2>1, <2>2, ConstantTypes DEF At, TypeOK
  <2> QED BY <2>1, <2>3, <2>4 DEF OrderInv, DescribeInv, FlowInv, DoneInv
<1>4. ASSUME UNCHANGED hardware, Described PROVE OrderInv'
  <2>1. /\ dpc = "describe" /\ dpc' = "flow" /\ stored' = Blank /\ origin' = pos
        /\ wire' = [wire EXCEPT ![conn] = Msg("flow start")]
        /\ UNCHANGED <<conn, served, mixed, split, endFlag, next, pos>>
    BY <1>4 DEF Described, WriteStart
  <2>2. wire'[conn'].type = "flow start"
    BY <2>1, <1>w, <1>m DEF TypeOK, Plain
  <2>3. Clean' => At(origin, 0)'
    BY <2>1 DEF OrderInv, DescribeInv, At, Clean
  <2>4. Filled(0)'
    <3>1. \A o \in Offsets : ~(o < 0)
      BY ConstantTypes
    <3>2. \A o \in Offsets : Blank[o] = Erased
      BY DEF Blank
    <3>3. \A o \in Offsets : ~(o < 0) /\ stored'[o] = Erased
      BY <2>1, <3>1, <3>2, Zenon
    <3>4. ASSUME NEW o \in Offsets
          PROVE  stored'[o] = IF o < 0 THEN origin' + o ELSE Erased
      BY <3>3
    <3> QED BY <3>4 DEF Filled
  <2> QED BY <2>1, <2>2, <2>3, <2>4 DEF OrderInv, DescribeInv, FlowInv, DoneInv
<1>5. ASSUME UNCHANGED hardware, ReceiveChunk PROVE OrderInv'
  <2> SUFFICES ASSUME Clean PROVE OrderInv'
    BY <1>5 DEF ReceiveChunk, OrderInv, DescribeInv, FlowInv, DoneInv, Clean
  <2>1. PICK m : m = wire[conn]
    OBVIOUS
  <2>2. /\ dpc = "flow" /\ dpc' = "flow" /\ m.type = "chunk" /\ WriteChunk(m.id, m.data)
        /\ wire' = [wire EXCEPT ![conn] = Ack(m.id)]
        /\ UNCHANGED <<conn, served, mixed, split, endFlag, next, pos, origin>>
    BY <1>5, <2>1 DEF ReceiveChunk, Clean
  <2>3. m.id \in Nat
    BY <1>w, <2>1, <2>2, MessageTypes
  <2>4. /\ Filled(m.id) /\ m.data \in 0 .. Terminator /\ m.data = origin + m.id
        /\ m.id > 0 => m.data <= Last
        /\ served = 1 => origin = 0
        /\ IF m.data < Last THEN At(origin, m.id + 1) ELSE endFlag
    BY <2>1, <2>2 DEF OrderInv, FlowInv
  <2>5. m.id \in Offsets
    BY <2>3, <2>4, ConstantTypes DEF TypeOK
  <2>6. /\ m.data < Last => Filled(m.id + 1)'
        /\ ~(m.data < Last) => Ended'
    BY <2>2, <2>4, <2>5, WriteInOrder
  <2>7. wire'[conn'].type = "ack" /\ wire'[conn'].id = m.id
    BY <2>2, <2>3, <1>w, MessagesAre DEF TypeOK
  <2>8. m.data < Last => At(origin, m.id + 1)' /\ ~endFlag'
    BY <2>2, <2>4 DEF At
  <2>9. ~(m.data < Last) => endFlag'
    BY <2>2, <2>4
  <2> QED BY <2>2, <2>6, <2>7, <2>8, <2>9 DEF OrderInv, DescribeInv, FlowInv, DoneInv
<1>6. ASSUME UNCHANGED hardware, ReceiveUnknown PROVE OrderInv'
  BY <1>6 DEF ReceiveUnknown, OrderInv, DescribeInv, FlowInv, DoneInv, Clean
<1>7. ASSUME UNCHANGED hardware, ReceiveEnd PROVE OrderInv'
  <2>1. /\ dpc = "flow" /\ dpc' = "finish" /\ wire[conn].type = "end"
        /\ UNCHANGED <<stored, served, origin, mixed, split>>
    BY <1>7 DEF ReceiveEnd
  <2> QED BY <2>1, StorageKept DEF OrderInv, DescribeInv, FlowInv, DoneInv, Clean
<1>8. ASSUME UNCHANGED hardware, WritePreamble \/ WriteFinish PROVE OrderInv'
  <2>1. /\ dpc = "finish" /\ dpc' \in {"finish", "cleanup"}
        /\ UNCHANGED <<stored, served, origin, mixed, split>>
    BY <1>8 DEF WritePreamble, WriteFinish
  <2> QED BY <2>1, StorageKept DEF OrderInv, DescribeInv, FlowInv, DoneInv, Clean
\* The server: its other connections are silent, or spoil the file position.
<1>9. ASSUME UNCHANGED hardware, NEW c \in Conns,
             ServerDescribes(c) \/ ServerSends(c) \/ ServerEnds(c)
      PROVE  OrderInv'
  <2>1. /\ UNCHANGED <<dpc, res, conn, stored, served, origin, split>>
        /\ mixed' = (mixed \/ c # conn) /\ wire[c].type # "none"
    BY <1>9 DEF ServerDescribes, ServerSends, ServerEnds, ServerFrame
  <2>2. Clean' => Clean /\ c = conn
    BY <2>1 DEF Clean, SessionInv
  <2>3. DoneInv'
    BY <2>1, <2>2, StorageKept DEF OrderInv, DoneInv
  <2> SUFFICES ASSUME Clean, c = conn, dpc \in {"describe", "flow"} PROVE DescribeInv' /\ FlowInv'
    BY <2>1, <2>2, <2>3 DEF OrderInv, DescribeInv, FlowInv
  <2>4. CASE ServerDescribes(c)
    <3>1. wire[conn].type = "request" /\ wire'[conn'].type = "description" /\ UNCHANGED <<next, pos, endFlag>>
      BY <2>1, <2>4, MessagesAre DEF ServerDescribes, ServerFrame, TypeOK, Desc
    <3>2. dpc = "describe" /\ At(pos, 0)
      BY <3>1 DEF OrderInv, DescribeInv, FlowInv
    <3> QED BY <2>1, <3>1, <3>2 DEF DescribeInv, FlowInv, At
  <2>5. CASE ServerSends(c)
    <3>1. PICK m : m = wire[conn]
      OBVIOUS
    <3>2. m.type = "flow start" \/ (m.type = "ack" /\ ~endFlag)
      BY <2>5, <3>1 DEF ServerSends
    <3>3. dpc = "flow"
      BY <3>1, <3>2 DEF OrderInv, DescribeInv
    <3>4. m.type = "ack" => m.id \in Nat
      BY <1>w, <3>1, MessageTypes
    <3>5. \E k \in Nat : At(origin, k) /\ Filled(k)
      <4>1. CASE m.type = "flow start"
        <5>1. At(origin, 0) /\ Filled(0)
          BY <3>1, <3>3, <4>1 DEF OrderInv, FlowInv
        <5> QED BY <5>1
      <4>2. CASE m.type = "ack" /\ ~endFlag
        <5>1. At(origin, m.id + 1) /\ Filled(m.id + 1)
          BY <3>1, <3>3, <4>2 DEF OrderInv, FlowInv
        <5>2. m.id + 1 \in Nat
          BY <3>4, <4>2
        <5> HIDE DEF OrderInv
        <5> QED BY <5>1, <5>2
      <4> QED BY <3>2, <4>1, <4>2
    <3>6. PICK k \in Nat : At(origin, k) /\ Filled(k)
      BY <3>5
    <3>7. /\ wire'[conn] = Chunk(k, pos) /\ conn' = conn
          /\ pos \in 0 .. Terminator /\ pos = origin + k
          /\ k > 0 => pos <= Last
          /\ served = 1 => origin = 0
          /\ pos < Last => At(origin, k + 1)'
          /\ ~(pos < Last) => endFlag'
      BY <2>5, <3>6, NextChunk
    <3>8. PICK v \in Values : v = pos
      BY <3>7, ConstantTypes
    <3>9. PICK n : n = wire'[conn']
      OBVIOUS
    <3>10. n.type = "chunk" /\ n.id = k /\ n.data = pos
      BY <3>7, <3>8, <3>9, MessagesAre
    <3>11. Filled(k)'
      BY <2>1, <3>6, StorageKept
    <3> QED BY <2>1, <3>3, <3>7, <3>9, <3>10, <3>11 DEF DescribeInv, FlowInv
  <2>6. CASE ServerEnds(c)
    <3>1. wire[conn].type = "ack" /\ endFlag /\ wire'[conn'].type = "end"
      BY <2>1, <2>6, <1>m DEF ServerEnds, ServerFrame, TypeOK, Plain
    <3>2. dpc = "flow" /\ Ended
      BY <3>1 DEF OrderInv, DescribeInv, FlowInv
    <3> QED BY <2>1, <3>1, <3>2, StorageKept DEF DescribeInv, FlowInv
  <2> QED BY <1>9, <2>4, <2>5, <2>6
<1>10. CASE RestartLoop /\ UNCHANGED hardware
  BY <1>2, <1>10 DEF RestartLoop
<1>11. CASE UNCHANGED vars
  BY <1>2, <1>11 DEF vars
<1> QED BY <1>1, <1>3, <1>4, <1>5, <1>6, <1>7, <1>8, <1>9, <1>10, <1>11
  DEF Next, Downloader, Failure, Server

------------------------------------------------------------------------------
LEMMA Invariance == Spec => []IInv
<1>1. IInv /\ [Next]_vars => IInv'
  <2> SUFFICES ASSUME IInv, [Next]_vars PROVE IInv'
    OBVIOUS
  <2>1. TypeOK' /\ SessionInv'
    BY TypeInvariant, SessionInvariant DEF IInv
  <2>2. DescribeInv' /\ FlowInv' /\ DoneInv'
    BY OrderInvariant DEF IInv, OrderInv
  <2>3. StoreInv' /\ QuietInv' /\ RunsFromOrigin'
    BY StoreInvariant, QuietInvariant, RunsInvariant DEF IInv
  <2> QED BY <2>1, <2>2, <2>3 DEF IInv
<1> QED BY <1>1, InitInvariant, PTL DEF Spec

\* Every variable keeps its type, the server's position within the file and the
\* downloads within their bound.
THEOREM TypeCorrect == Spec => []TypeOK
<1>1. IInv => TypeOK
  BY DEF IInv
<1> QED BY <1>1, Invariance, PTL

\* What is committed and what runs is the file from where the server stood when
\* the download began to its end, through failures, resets and repeated downloads
\* (firmware.c of both ports, firmware_downloader.c, firmware-uploader.js:34).
THEOREM OriginToEndOnly == Spec => []FromOriginToEnd
<1>1. IInv => FromOriginToEnd
  BY DEF IInv, StoreInv, FromOriginToEnd, CommitFromOrigin
<1> QED BY <1>1, Invariance, PTL

\* A first download that succeeds installs exactly the file, although chunks are
\* never counted (firmware_downloader.c:113).
THEOREM ImageInstalled == Spec => []InstalledIsImage
<1>1. IInv => InstalledIsImage
  BY DEF IInv, DoneInv, Ended, Clean, InstalledIsImage
<1> QED BY <1>1, Invariance, PTL

\* The event loop is not running while its program is overwritten
\* (firmware_downloader.c:55), unless the LWM2M server restarts it.
THEOREM LoopStandsStill == Spec => []NoLoopWhileWriting
<1>1. IInv => NoLoopWhileWriting
  BY DEF IInv, QuietInv, NoLoopWhileWriting
<1> QED BY <1>1, Invariance, PTL

==============================================================================
