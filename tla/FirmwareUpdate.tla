---------------------------- MODULE FirmwareUpdate ----------------------------
(***************************************************************************)
(* Replacing the JavaScript program over the network: the downloader task  *)
(* of src/firmware_downloader.c, the storage of the two ports              *)
(* (firmware.c of unix: a file; of stm32: a flash sector), the boot that   *)
(* loads a program, and the upload server utils/firmware-uploader.js.      *)
(*                                                                         *)
(* The program on the server is `Blocks` full chunks, 0 .. Blocks-1, and a *)
(* last chunk: the remaining bytes, if Tail, and a null terminator.  Reading *)
(* past the end of the file gives a chunk with the terminator alone.       *)
(*                                                                         *)
(* A connection is strictly request and response, so at most one message   *)
(* is in flight on it, in either direction.  If `split`, recv may return   *)
(* the first part of a message only, as a stream socket may.               *)
(***************************************************************************)
EXTENDS Integers

CONSTANTS Ports,         \* among "file" (unix) and "flash" (stm32)
          Blocks,        \* full chunks of the program
          Tail,          \* some bytes follow them
          Capacities,    \* firmware_platform_max_memory(), in chunks
          Splits,        \* whether TCP splits messages: a set of Booleans
          Failures,      \* connections and writes may fail
          MaxDownloads,  \* bound: downloads ...
          MaxSplit,      \* ... and when messages are split
          MaxResets      \* bound: resets of the device, restarts of the loop

ASSUME FirmwareAssumption ==
  /\ Ports \subseteq {"file", "flash"}
  /\ Blocks \in Nat /\ Capacities \subseteq Nat
  /\ Tail \in BOOLEAN /\ Splits \subseteq BOOLEAN /\ Failures \in BOOLEAN
  /\ MaxDownloads \in Nat /\ MaxSplit \in Nat /\ MaxResets \in Nat

Last == Blocks             \* the last chunk
Terminator == Blocks + 1   \* the terminator alone, read at the end of file
Torn == -1                 \* a chunk whose end is not what was sent
Erased == -2               \* nothing was written there
Values == Erased .. Terminator

Conns == 1 .. MaxDownloads
Offsets == 0 .. Blocks + 1

VARIABLES
  port,      \* the device: its storage ...
  capacity,  \* ... and its size
  split,     \* its network splits messages; all three are fixed
  dpc,       \* the downloader task
  res,       \* its result
  conn,      \* its connection: the number of connections made
  running,   \* the event loop was started and not killed
  program,   \* the program that loop has loaded
  led,       \* the error LED
  stored,    \* offset -> chunk
  meta,      \* flash metadata: "none", "preamble" or "full"
  wire,      \* connection -> message in flight
  rest,      \* the end of a split message is still to be received
  pos,       \* the server's position in the file, shared by all connections
  endFlag,   \* its end_flag, shared too
  next,      \* connection -> its currChunk
  served,    \* history: connections since the server was started
  mixed,     \* history: it has served an old connection during a new one
  unfinished, \* history: writing has begun and not come to its end
  part,      \* history: the loop was started by a restart or a reset meanwhile
  disturbed, \* history: a restart during a download, and no reset since
  origin,    \* history: the server's position when the writing of `stored` began
  loaded,    \* history: the origin of `program`
  resets

hardware == <<port, capacity, split>>
device  == <<dpc, res, conn, running, program, led>>
storage == <<stored, meta>>
server  == <<pos, endFlag, next>>
history == <<unfinished, part, disturbed>>
origins == <<origin, loaded>>
vars == <<hardware, device, storage, wire, rest, server, served, mixed, history, origins, resets>>

Plain == {"none", "request", "flow start", "end"}
Msg(t)      == [type |-> t]
Desc(n)     == [type |-> "description", count |-> n]
Chunk(i, v) == [type |-> "chunk", id |-> i, data |-> v]
Ack(i)      == [type |-> "ack", id |-> i]
Messages == [type : Plain] \cup [type : {"description"}, count : Nat]
            \cup [type : {"chunk"}, id : Nat, data : Values]
            \cup [type : {"ack"}, id : Nat]

Blank == [o \in Offsets |-> Erased]
BuiltIn == [o \in Offsets |-> -3]  \* no program in storage: test_code runs
Wild == [o \in Offsets |-> -4]     \* valid preamble, pointers never written

TypeOK ==
  /\ port \in Ports /\ capacity \in Capacities /\ split \in Splits
  /\ dpc \in {"idle", "kill", "connect", "describe", "flow", "finish", "cleanup"}
  /\ res \in {"success", "failed"}
  /\ conn \in 0 .. MaxDownloads
  /\ running \in BOOLEAN /\ led \in BOOLEAN /\ rest \in BOOLEAN
  /\ program \in [Offsets -> Values] \cup {BuiltIn, Wild}
  /\ stored \in [Offsets -> Values]
  /\ meta \in {"none", "preamble", "full"}
  /\ wire \in [Conns -> Messages]
  /\ pos \in 0 .. Terminator
  /\ endFlag \in BOOLEAN
  /\ next \in [Conns -> Nat]
  /\ served \in 0 .. MaxDownloads /\ mixed \in BOOLEAN
  /\ history \in BOOLEAN \X BOOLEAN \X BOOLEAN
  /\ origin \in 0 .. Terminator /\ loaded \in 0 .. Terminator
  /\ resets \in 0 .. MaxResets

\* firmware_platform_get_code.
Load == IF meta = "full" THEN stored ELSE IF meta = "preamble" THEN Wild ELSE BuiltIn

\* A freshly flashed device has booted the built-in program.
Init ==
  /\ port \in Ports /\ capacity \in Capacities /\ split \in Splits
  /\ dpc = "idle" /\ res = "success" /\ conn = 0
  /\ running = TRUE /\ program = BuiltIn /\ led = FALSE
  /\ stored = Blank /\ meta = "none"
  /\ wire = [c \in Conns |-> Msg("none")] /\ rest = FALSE
  /\ pos = 0 /\ endFlag = FALSE /\ next = [c \in Conns |-> 0]
  /\ served = 0 /\ mixed = FALSE
  /\ unfinished = FALSE /\ part = FALSE /\ disturbed = FALSE
  /\ origin = 0 /\ loaded = 0 /\ resets = 0

------------------------------------------------------------------------------
\* Storage.

\* MUTANT of WriteStart: the flash sector keeps the metadata of the old program.
WriteStartKeepsMeta ==
  /\ stored' = Blank
  /\ meta' = IF port = "file" THEN "full" ELSE meta

\* firmware_platform_write_start: truncate the file, which can be read at once,
\* or erase the sector.
WriteStart ==
  /\ stored' = Blank
  /\ meta' = IF port = "file" THEN "full" ELSE "none"

\* The length of the file.
Top == CHOOSE n \in 0 .. Blocks + 2 :
         /\ \A o \in Offsets : o < n => stored[o] # Erased
         /\ n \in Offsets => stored[n] = Erased

\* firmware_platform_write_code_chunk: the file port appends.
WriteChunk(id, v) == stored' = [stored EXCEPT ![IF port = "file" THEN Top ELSE id] = v]

------------------------------------------------------------------------------
\* The downloader task: firmware_downloader_start.

WritingFrame == UNCHANGED <<server, served, mixed, part, disturbed, loaded, resets>>
DeviceFrame == UNCHANGED <<unfinished, origin>> /\ WritingFrame

\* firmware_platform_downloader_task_start; refused while a task exists.
TaskStart ==
  /\ dpc = "idle" /\ conn < MaxDownloads /\ (split => conn < MaxSplit)
  /\ dpc' = "kill"
  /\ UNCHANGED <<res, conn, running, program, led, storage, wire, rest>> /\ DeviceFrame

\* MUTANT of KillLoop: the event loop is left running.
KillLoopForgotten ==
  /\ dpc = "kill" /\ dpc' = "connect"
  /\ led' = FALSE /\ res' = "success"
  /\ UNCHANGED <<running, conn, program, storage, wire, rest>> /\ DeviceFrame

\* The old program is killed before anything else.
KillLoop ==
  /\ dpc = "kill" /\ dpc' = "connect"
  /\ running' = FALSE /\ led' = FALSE /\ res' = "success"
  /\ UNCHANGED <<conn, program, storage, wire, rest>> /\ DeviceFrame

\* A bad URI, no socket, or no connection: return at once.
ConnectFails ==
  /\ Failures
  /\ dpc = "connect" /\ dpc' = "idle"
  /\ UNCHANGED <<res, conn, running, program, led, storage, wire, rest>> /\ DeviceFrame

\* Connect and send the request; the server's connection handler.
Connect ==
  /\ dpc = "connect" /\ dpc' = "describe"
  /\ conn' = conn + 1
  /\ wire' = [wire EXCEPT ![conn'] = Msg("request")]
  /\ rest' = FALSE
  /\ endFlag' = FALSE
  /\ served' = served + 1
  /\ UNCHANGED <<res, running, program, led, storage, pos, next, mixed, history, origins, resets>>

\* goto cleanup with an error.
GiveUp(from) ==
  /\ dpc = from /\ dpc' = "cleanup"
  /\ res' = "failed"
  /\ UNCHANGED <<conn, running, program, led, wire, rest>> /\ WritingFrame

\* send or recv fails, or the server closed the connection; malloc fails.
ConnectionLost ==
  /\ Failures
  /\ \E from \in {"describe", "flow"} : GiveUp(from)
  /\ UNCHANGED <<storage, unfinished, origin>>

TooLarge ==
  /\ GiveUp("describe")
  /\ wire[conn].type = "description" /\ wire[conn].count > capacity
  /\ UNCHANGED <<storage, unfinished, origin>>

\* The description arrives: start writing, ask for the flow.
Described ==
  /\ dpc = "describe" /\ dpc' = "flow"
  /\ wire[conn].type = "description" /\ wire[conn].count <= capacity
  /\ WriteStart
  /\ unfinished' = TRUE /\ origin' = pos
  /\ wire' = [wire EXCEPT ![conn] = Msg("flow start")]
  /\ UNCHANGED <<res, conn, running, program, led, rest>> /\ WritingFrame

\* The file cannot be opened, or the sector not be erased or its name written.
WriteStartFails ==
  /\ Failures
  /\ GiveUp("describe")
  /\ wire[conn].type = "description" /\ wire[conn].count <= capacity
  /\ \/ UNCHANGED <<storage, unfinished, origin>>
     \/ port = "flash" /\ WriteStart /\ unfinished' = TRUE /\ origin' = pos

\* MUTANT of ReceiveChunk: a chunk is written and not confirmed.
ReceiveChunkSilently ==
  /\ dpc = "flow" /\ ~rest
  /\ wire[conn].type = "chunk"
  /\ WriteChunk(wire[conn].id, wire[conn].data)
  /\ wire' = [wire EXCEPT ![conn] = Msg("none")]
  /\ UNCHANGED <<device, meta, rest>> /\ DeviceFrame

\* A chunk, or if `split` its first part, is written and confirmed.
ReceiveChunk ==
  /\ dpc = "flow" /\ ~rest
  /\ wire[conn].type = "chunk"
  /\ \/ WriteChunk(wire[conn].id, wire[conn].data) /\ UNCHANGED rest
     \/ split /\ WriteChunk(wire[conn].id, Torn) /\ rest' = TRUE
  /\ wire' = [wire EXCEPT ![conn] = Ack(wire[conn].id)]
  /\ UNCHANGED <<dpc, res, conn, running, program, led, meta>> /\ DeviceFrame

\* Nothing recognisable: the end of a split message, alone or with the next
\* chunk after it in one buffer, or less than three bytes.
ReceiveUnknown ==
  /\ split /\ dpc = "flow"
  /\ \/ rest /\ UNCHANGED wire
     \/ /\ IF rest THEN wire[conn].type # "ack" ELSE wire[conn].type = "chunk"
        /\ wire' = [wire EXCEPT ![conn] = Msg("none")]
  /\ rest' = FALSE
  /\ UNCHANGED <<device, storage>> /\ DeviceFrame

\* A write fails, perhaps half-done.
WriteFails ==
  /\ Failures
  /\ GiveUp("flow")
  /\ wire[conn].type = "chunk"
  /\ UNCHANGED stored \/ WriteChunk(wire[conn].id, Torn)
  /\ UNCHANGED <<meta, unfinished, origin>>

ReceiveEnd ==
  /\ dpc = "flow" /\ ~rest /\ dpc' = "finish"
  /\ wire[conn].type = "end"
  /\ wire' = [wire EXCEPT ![conn] = Msg("none")]
  /\ UNCHANGED <<res, conn, running, program, led, storage, rest>> /\ DeviceFrame

\* firmware_platform_write_finish of the flash port programs the metadata byte
\* by byte, the preamble first and the pointers last.
WritePreamble ==
  /\ port = "flash"
  /\ dpc = "finish" /\ meta = "none"
  /\ meta' = "preamble"
  /\ UNCHANGED <<device, stored, wire, rest>> /\ DeviceFrame

WriteFinish ==
  /\ dpc = "finish" /\ dpc' = "cleanup"
  /\ port = "flash" => meta = "preamble"
  /\ meta' = "full" /\ unfinished' = FALSE
  /\ UNCHANGED <<res, conn, running, program, led, stored, wire, rest, origin>> /\ WritingFrame

WriteFinishFails ==
  /\ Failures /\ port = "flash"
  /\ GiveUp("finish")
  /\ UNCHANGED <<storage, unfinished, origin>>

\* Close, and start the loop, which loads the program, or turn the LED on.
Cleanup ==
  /\ dpc = "cleanup" /\ dpc' = "idle"
  /\ IF res = "success"
     THEN running' = TRUE /\ program' = Load /\ loaded' = origin /\ part' = FALSE /\ UNCHANGED led
     ELSE led' = TRUE /\ UNCHANGED <<running, program, loaded, part>>
  /\ UNCHANGED <<res, conn, storage, wire, rest, server, served, mixed>>
  /\ UNCHANGED <<unfinished, disturbed, origin, resets>>

\* The LWM2M client restarts the loop, for the Reboot of the device object or the
\* Update of the firmware object: nothing holds it back during a download.  The
\* pushed package, which Update sets as the code, is overwritten by eventloop().
RestartLoop ==
  /\ resets < MaxResets /\ resets' = resets + 1
  /\ running' = TRUE /\ program' = Load /\ loaded' = origin
  /\ part' = unfinished
  /\ disturbed' = (disturbed \/ dpc \notin {"idle", "kill"})
  /\ UNCHANGED <<dpc, res, conn, led, storage, wire, rest, server, served, mixed>>
  /\ UNCHANGED <<unfinished, origin>>

\* The device is reset at any moment: entrypoint() starts the loop.
Crash ==
  /\ resets < MaxResets /\ resets' = resets + 1
  /\ dpc' = "idle" /\ res' = "success" /\ rest' = FALSE
  /\ running' = TRUE /\ program' = Load /\ loaded' = origin /\ led' = FALSE
  /\ part' = unfinished /\ disturbed' = FALSE
  /\ UNCHANGED <<conn, storage, wire, server, served, mixed, unfinished, origin>>

------------------------------------------------------------------------------
\* The server.

ServerFrame(c) == /\ mixed' = (mixed \/ c # conn)
                  /\ UNCHANGED <<device, storage, rest, served, history, origins, resets>>

ChunkCount == IF Tail THEN Blocks + 1 ELSE Blocks

ServerDescribes(c) ==
  /\ wire[c].type = "request"
  /\ wire' = [wire EXCEPT ![c] = Desc(ChunkCount)]
  /\ UNCHANGED server /\ ServerFrame(c)

\* MUTANT of ServerSends: the end of the file is noticed one read too early.
ServerSendsShort(c) ==
  /\ wire[c].type = "flow start" \/ (wire[c].type = "ack" /\ ~endFlag)
  /\ wire' = [wire EXCEPT ![c] = Chunk(next[c], pos)]
  /\ next' = [next EXCEPT ![c] = @ + 1]
  /\ endFlag' = (pos + 1 >= Last)
  /\ pos' = IF pos < Terminator THEN pos + 1 ELSE pos
  /\ ServerFrame(c)

\* MUTANT of ServerSends: the position runs past the end of the file.
ServerSendsPast(c) ==
  /\ wire[c].type = "flow start" \/ (wire[c].type = "ack" /\ ~endFlag)
  /\ wire' = [wire EXCEPT ![c] = Chunk(next[c], pos)]
  /\ next' = [next EXCEPT ![c] = @ + 1]
  /\ endFlag' = (endFlag \/ pos >= Last)
  /\ pos' = pos + 1
  /\ ServerFrame(c)

\* sendChunk: the file is read where the last read, of any connection, ended.
ServerSends(c) ==
  /\ wire[c].type = "flow start" \/ (wire[c].type = "ack" /\ ~endFlag)
  /\ wire' = [wire EXCEPT ![c] = Chunk(next[c], pos)]
  /\ next' = [next EXCEPT ![c] = @ + 1]
  /\ endFlag' = (endFlag \/ pos >= Last)
  /\ pos' = IF pos < Terminator THEN pos + 1 ELSE pos
  /\ ServerFrame(c)

ServerEnds(c) ==
  /\ wire[c].type = "ack" /\ endFlag
  /\ wire' = [wire EXCEPT ![c] = Msg("end")]
  /\ UNCHANGED server /\ ServerFrame(c)

\* Somebody restarts the server; its connections are gone.
ServerRestarts ==
  /\ Failures /\ dpc = "idle" /\ served > 0
  /\ wire' = [c \in Conns |-> Msg("none")]
  /\ pos' = 0 /\ endFlag' = FALSE /\ served' = 0
  /\ UNCHANGED <<device, storage, rest, next, mixed, history, origins, resets>>

------------------------------------------------------------------------------
Downloader ==
  \/ KillLoop \/ Connect \/ TooLarge \/ Described
  \/ ReceiveChunk \/ ReceiveUnknown \/ ReceiveEnd
  \/ WritePreamble \/ WriteFinish \/ Cleanup

Failure == \/ ConnectFails \/ ConnectionLost
           \/ WriteStartFails \/ WriteFails \/ WriteFinishFails

Server == \E c \in Conns : ServerDescribes(c) \/ ServerSends(c) \/ ServerEnds(c)

Next ==
  /\ UNCHANGED hardware
  /\ \/ TaskStart \/ Downloader \/ Failure \/ Server
     \/ RestartLoop \/ Crash \/ ServerRestarts

Spec == Init /\ [][Next]_vars

\* Both ends of the connection run; no failure has to happen.
FairSpec == Spec /\ WF_vars(UNCHANGED hardware /\ Downloader) /\ WF_vars(UNCHANGED hardware /\ Server)

------------------------------------------------------------------------------
\* The file on the server from chunk k to its end, without a gap, and nothing
\* after it; Rest(0) is the file, Rest(Terminator) an empty program.
Rest(k) == [o \in Offsets |->
  IF k + o <= Last \/ (k = Terminator /\ o = 0) THEN k + o ELSE Erased]

\* The flash port commits a program by its metadata, which it erases first and
\* writes last: metadata that is complete belongs to all that the server had to
\* send, from where its position in the file stood when the download began to the
\* end, whatever crashed or failed meanwhile (stm32 firmware.c:21-96), unless the
\* server mixed up two connections (firmware-uploader.js:14,34) or a message
\* arrived in parts (AckConfirmsChunk).  That is the whole file for the first
\* download of a server process only (InstalledIsImage): the position outlives
\* the connection, so the next download commits what the last one left of the
\* file, down to the terminator alone.
CommitFromOrigin ==
  port = "flash" /\ meta = "full" /\ ~mixed /\ ~split => stored = Rest(origin)

\* A download that succeeded installed exactly the file, when it is the first
\* one of this server process (the file position and end_flag are the
\* process's, firmware-uploader.js:14,34): every chunk in its place, none lost,
\* none twice, with no count of them ever checked (firmware_downloader.c:113).
InstalledIsImage ==
  dpc = "cleanup" /\ res = "success" /\ served = 1 /\ ~split => stored = Rest(0)

\* The old program is not running while it is overwritten; the stm32 port runs
\* it from the very sector (firmware_downloader.c:55).  Only a restart on behalf
\* of the LWM2M server defeats this (object_device.c:502, object_firmware.c:265),
\* and then until the device is reset: the end of the download starts a second
\* loop, and of two no kill stops the first.
NoLoopWhileWriting == dpc \in {"describe", "flow", "finish"} /\ ~disturbed => ~running

\* The loop runs the built-in program or one that reaches from where the server's
\* position stood to the end of the file, whatever failed.  The exception is a
\* loop that a reset or the LWM2M server started after a download that was not
\* finished: then the file port runs what was written so far, and the flash port
\* the built-in program or, between preamble and pointers, whatever those point
\* to (unix firmware.c:15 and 47; stm32 firmware.c:78-91 and 104-106).
RunsFromOrigin ==
  running => \/ program = BuiltIn \/ program = Rest(loaded) \/ mixed \/ split
             \/ part /\ (port = "flash" => program = Wild)

\* What is committed and what runs is the file from where the server stood to its
\* end (CommitFromOrigin, RunsFromOrigin): through failures, resets and repeated
\* downloads nothing of it is lost on the way, doubled or out of order.
FromOriginToEnd == CommitFromOrigin /\ RunsFromOrigin

\* "confirm receiving and writing of chunk" (firmware_downloader.c:160).
AckConfirmsChunk ==
  dpc = "flow" /\ wire[conn].type = "ack" => stored[wire[conn].id] # Torn

\* "check if firmware will fit into the memory" (firmware_downloader.c:112); a
\* full chunk takes two units, the last one at least one.  The file port's
\* memory is a whole number of chunks (unix firmware.c:8); the flash port's has
\* 448 bytes more than that (stm32 firmware.c:129).
Size(p) == IF \E o \in Offsets : p[o] \in {Last, Terminator}
           THEN 2 * (CHOOSE o \in Offsets : p[o] \in {Last, Terminator}) + 1
           ELSE 0
Room == IF port = "file" THEN 2 * capacity ELSE 2 * capacity + 1
FitsMemory == Size(stored) <= Room

\* A download comes to its end if messages arrive whole, although neither side
\* has a timeout: the server answers each message, whatever connections failed
\* before.
DownloadEnds == dpc = "kill" /\ ~split ~> dpc = "idle"

==============================================================================
