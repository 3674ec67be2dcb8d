# Verification of js-embedded-platform in TLA+

The repository is a firmware for an STM32F429 board (FreeRTOS) and for unix and
Raspberry Pi (pthreads): it runs a JavaScript program in the Duktape interpreter
around an event loop, lets an LWM2M server manage the device, and replaces the
program over the network.  This directory holds TLA+ models of its core logic,
TLC configurations that check them, and proofs checked by TLAPS.

Run `tlc -config X.cfg M` for a row of the table of runs below and
`tlapm M_proofs.tla` for the proofs.

## The system

| Component | Code | State | Operations | Hard behaviour | What makes it correct | Modelled |
|---|---|---|---|---|---|---|
| Event queue (unix) | `platform/unix/src/platform/queue.c` | ring buffer (two pointers, a counter), robust mutex, one condition variable, `locked` | create, send, receive, peek, lock, delete | blocking callers on one condition variable; a caller cancelled at any instruction; a kill that locks without the mutex | it is a bounded FIFO; nobody sleeps on a condition that is true; a half-done update is never seen; what was accepted is delivered | yes, proved |
| Event loop (unix) | `src/eventloop.c`, `platform/unix/.../eventloop.c`, `critical_section.c` | list of callbacks, stash of functions, list of timers, one thread per timer, static copy of the callback last received | set/clear timers, receive and run callbacks, completion, kill, start | three kinds of threads, asynchronous cancellation, a critical section and the queue's mutex, kill at any moment | a freed item is touched only by a mistake that can be named, a cleared callback is silent, a firing is executed, a kill leaves nothing behind and ends | partly, proved |
| Event loop (stm32) | `src/eventloop.c`, `platform/stm32f429-core/.../eventloop.c` | the same over FreeRTOS: software timers, their daemon and its command queue, an event queue | the same | start, stop and delete only queue commands; the daemon outranks everybody and may wait for room in the event queue; a kill suspends the loop at any instruction | a deleted timer is silent before its item is gone; a waiting daemon goes on | partly, proved |
| Firmware download | `src/firmware_downloader.c`, `platform/*/firmware.c`, `utils/firmware-uploader.js` | task, connection, file or flash sector with metadata, the server's file position | start, describe, chunk, acknowledge, finish, boot | reset, restart of the loop, lost connection or failed write between any two steps, repeated downloads to one server process, streams that split messages | the first download of a server process installs the file; metadata commits all that the server sent, the loop runs no part of it | yes, proved |
| CoAP transactions | `src/lwm2m/core/transaction.c`, responses in `packet.c` | list of confirmable messages: counter, deadline, `ack_received` | new, send, step, handle response | lost, late, duplicated, reordered replies; denials that restart | bounded number of sends, in a time bounded by the waits and the naps of the client; the caller is told what happened | yes, proved |
| Registration, bootstrap, client state | `registration.c`, `bootstrap.c`, `liblwm2m.c`, main loop of `client/lwm2mclient.c` | state of the client, status of each server, deadlines | register, update, deregister, bootstrap commands, step | replies after the status has moved on, updates asked for while one is under way, deleted servers | the client always gets back to a registration, and no change is kept from the server | yes, but for deregistration; proved |
| Block-wise transfer | `block1.c`, requests in `packet.c` | buffer per server: last mID, payload so far | handle block | lost, repeated, late blocks, a new transfer inside an old one | what is reassembled is what was sent | yes, proved |
| Observations | `observe.c`, with `management.c`, `packet.c` | observed URIs, watchers with pmin, pmax and thresholds | observe, cancel, reset, attributes, value changed, step | a value that changes again before it is sent, or silently; steps that return before `observe_step`; combinations of attribute queries; message ids as the only name of a notification | changes are reported when they are due, attributes in force are consistent, a cancellation ends one observation | yes, proved |
| Device management, objects | `management.c`, `objects.c`, `client/object_*.c`, `list.c` | instances of the LWM2M objects | read, write, execute, create, delete | firmware and device objects kill and restart the event loop from the client's thread | | where it touches the above |
| Discovery | a thread of `client/lwm2mclient.c`, `lwm2md.c`, `connection.c` | bootstrap address | browse, resolve | two threads share the bootstrap address without a lock | | no |
| GPIO, HTTP status page, start-up | `module/gpio.c`, `c_gpio.c`, `httpd.c`, `main.c` | none of its own | | | | no |
| Codecs | `er-coap-13.c`, `tlv.c`, `json.c`, `data.c`, `uri.c`, `discover.c`, `utils.c` | none | parse, format | | | no |
| Duktape, FreeRTOS, lwIP, mbedTLS, STM32 drivers | vendored | | | | | no |

How they meet: timer threads (unix) or the timer daemon (stm32) push copies of
callbacks into the event queue; the event-loop thread receives and runs them.
The LWM2M client (firmware and device objects) and the downloader kill and
restart the loop through two calls.  The LWM2M client is one thread: it parses
packets, hands responses to transactions, whose callbacks move registration and
bootstrap on, hands block-wise requests to `block1.c` and then to the objects,
and steps transactions, registrations and observations with one clock.

## Modules

| Module | Models | State and actions against the code |
|---|---|---|
| `BoundedFifo` | what the queue promises | a sequence, no longer than `Length`; append, take, peek is a stutter; lock and delete are not part of it |
| `Queue` | `queue.c` | `slots`, `pcWriteTo`, `pcReadFrom`, `uxMessagesWaiting`, `locked` are the struct; `owner`, `dead` and the threads parked are the pthread objects; `pc` is where in its call a thread is.  One action per piece of code between two points where another thread may come in: acquire (also with `EOWNERDEAD`), test and park or refuse or pass, copy, count, broadcast and unlock |
| `EventLoop` | `eventloop.c`, unix `eventloop.c`, `critical_section.c` | `cs` is the critical section, `items` and `qOwner` the queue at the level of `BoundedFifo` with the owner of its mutex, `callbacks` the list, `stash` the functions, `tpc`, `lpc`, `kpc` where timer threads, the loop and the killers are; `SetTimer` links the item and `StartThread` creates its thread, with a kill possible in between; `ClearTimer` takes any handle the program ever got |
| `EventLoopRtos` | `eventloop.c`, stm32 `eventloop.c` | `timers`, `active`, `cmds` are FreeRTOS's `Timer_t`s, its active lists and its command queue; `firing` is the daemon inside `_timer_trigger`; `listed` the timer items, `callbacks` the callbacks; `lpc`, `kpc` where loop and killer are.  The two run only while the daemon has nothing to do (`Quiet`).  `SetTimerToZero` is the assertion of `xTimerCreate`; `ClearTimer` takes any handle the program ever got |
| `FirmwareUpdate` | downloader, both storages, boot, upload server, restarts by the LWM2M objects | `dpc` is the position in `firmware_downloader_start`, `stored` and `meta` the file or the sector, `wire` the message in flight on each connection, `pos`, `endFlag`, `next` the variables of the server script; `Rest(k)` is the file from chunk `k` on, `origin` and `loaded` where the server's position stood when the download, and the program that runs, began |
| `Transaction` | `transaction.c` | `counter`, `acked`, `due` are the fields of the struct, `live` the list; `CompleteStep` is a turn of the main loop whose `lwm2m_step` comes to `transaction_step`, which handles all that is due, `EarlyReturn` one whose step returns before it, `sleep` what is left of `select`; server and network are replaced by "any reply at any time" |
| `Client` | `lwm2mclient.c` (main loop), `liblwm2m.c`, `registration.c`, `bootstrap.c`, creations and deletions of `management.c` | `ctx` is the `lwm2m_context_t`: its state, the ids in its server lists, and of each server the status, session and deadline with the transactions that go to it; an operator `F(c, ...)` is what the C function does to the context, one `F(v, ...)` what it does to one server, and `ForEach` a loop over servers, which touch each other's state nowhere.  `Step` is one turn of the main loop up to `select`, with all of `lwm2m_step`; `Reply`, `Command`, `Finish`, `Manage` are `lwm2m_handle_packet`; `Elapse` and `GetLate` are deadlines that pass.  `security` and `account` are the objects a bootstrap writes |
| `Observe` | `observe.c` and the requests that reach it | `observedList`, `watcherList`, `watcher` are the linked lists and structs; a watcher's `lastTime` appears as the age of its last message; `ObserveStep` is `observe_step`, its two nested loops the functions in `AfterTargets` and `AfterWatchers`, one turn of the inner one `Visit`; `EarlyReturn` is an `lwm2m_step` that returns before it, `UpdateMemoryFree` the free memory read again at the start of a turn; `Tick` is a second in `select` |
| `Handover` | what a block-wise transfer promises a server that runs one at a time | the transfers begun, the body each resource was handed last: the whole one of the newest transfer |
| `BlockTransfer` | `block1.c` with its caller in `packet.c`, a server and a network | `block1Data` is `lwm2m_block1_data_t`; `Accumulate` is `coap_block1_handler`, `Receive` a packet with a Block1 option up to the answer; `Begin`, `Send`, `SendEarly`, `Hear`, `Abandon` are the server, `Lose` the network |
| `MCQueue`, `MCEventLoop`, `MCTransaction`, `MCObserve`, `MCBlockTransfer` | | the model values and small definitions of the configurations |
| `Queue_proofs`, `EventLoop_proofs`, `EventLoopRtos_proofs`, `FirmwareUpdate_proofs`, `BlockTransfer_proofs`, `Transaction_proofs`, `Observe_proofs`, `Client_proofs` | | theorems |

Levels are connected by refinement: `Queue` implements `BoundedFifo`
(`ImplementsFifo`), and `EventLoop` uses the queue as `BoundedFifo` describes
it.  What `EventLoop` adds, the owner of the mutex, is what `Queue` shows to
matter: a cancelled owner loses the queue for good.  `Client` uses a transaction
as `Transaction` describes it: an answer ends it, or its last waiting time does
at the next `transaction_step`.  `BlockTransfer` implements `Handover`
(`ImplementsHandover`).

Undefined behaviour (a freed item that is used, a thread joined that was
never created, two loops over the same statics, a failed `configASSERT`, a null pointer followed) sets `undefined`, and the
model stops there: nothing is claimed of what comes after.

Operators marked `MUTANT of` in the modules are faulty variants of the
definition that follows them.  They are not part of any specification; each shows
that a property would notice such a mistake.

## Runs

| Run | Configuration | Checks | Distinct states | Shows |
|---|---|---|---|---|
| queue | MCQueue.cfg | `TypeOK`, `NoLostWakeup`, `ImplementsFifo`, `AbandonedIsFrozen`, `EveryItemDelivered` | 418 000 | the ring buffer is a bounded FIFO under any interleaving, cancellation and lock; an accepted item is delivered although senders may win the mutex again and again, unless the queue is shut or a thread died with the mutex |
| eventloop_timers | EventLoopTimers.cfg | `TypeOK`, `NoUseAfterFree`, `NoTimerOutlivesItem`, `ClearedStaysSilent`, `FiringsComplete` | 179 000 | timers and callbacks, any of them cleared at any time and again, and a kill and a restart in the middle of them: what is freed is touched by three named mistakes only |
| eventloop_kill | EventLoopKill.cfg | `KillLeavesNothing`, `StaleOnlyAfterFailure`, `KillEnds` | 48 000 | one killer twice or two at once, up to a second loop; each kill ends, except in two named deadlocks and where undefined behaviour comes first |
| eventloop_rtos | EventLoopRtos.cfg | `TypeOK`, `NoTimerOutlivesItem`, `SafeUntilStalled`, `DaemonAndLoopGoOn` | 259 000 | the stm32 port, with any handle cleared again and timeouts of 0: until the daemon has met a full event queue four named mistakes are the only ways to undefined behaviour; the daemon is never stuck |
| firmware | FirmwareUpdate.cfg | `TypeOK`, `FromOriginToEnd`, `InstalledIsImage`, `NoLoopWhileWriting`, `DownloadEnds` | 500 000 | both ports, a memory that is large enough and one that is not, failures, a reset of the device or a restart of the loop, a restarted server, messages whole or in parts; even in parts the chunks come in order, so that appending is enough |
| firmware_ack | FirmwareAck.cfg | `AckConfirmsChunk` (violated) | | finding 1 |
| firmware_fits | FirmwareFits.cfg | `FitsMemory` (violated) | | finding 2 |
| transaction | MCTransaction.cfg | `TypeOK`, `SilenceEndsInTime`, `SentAtMost`, `EveryTransactionEnds` | 357 000 | retransmission whatever server and network do, also while the client's steps return early |
| client | Client.cfg | `TypeOK`, `WaitingHasTransaction`, `BootstrapOnlyWhenAsked`, `ServersAsConfigured`, `NoChangeForgotten`, `Progress` | 111 000 | a bootstrap server and an LWM2M server, commands and replies at any time, refused connections, lost packets, rediscovery; no deadlock |
| client_lost_ack | ClientLostAck.cfg | `LostAckForgiven` (violated) | | finding 3 |
| observe | Observe.cfg | `TypeOK`, `NotifiedInTime`, `RuleKept`, `CancelIsExact` | 1 200 000 | two servers observe an instance and a number of it, with every kind of attribute, through early returns and silent changes |
| blocks | BlockTransfer.cfg | `TypeOK`, `HandedInOrder`, `ImplementsHandover`, `TransferSucceeds` | 465 000 | three writes to two resources, blocks and answers lost, late and repeated, by a server that runs one transfer at a time and by one that does not |

Deadlock is checked in client.  Elsewhere the system really may stop: all
threads of the queue cancelled, undefined behaviour reached, no download left
within the bound, all transactions over, a null pointer followed by
`observe_step`, every body sent.

### Bounds, and why they are enough

* Queue: two senders and a receiver, two slots, two items.  Two slots are the
  least at which the pointers wrap while the queue is neither full nor empty;
  two senders the least at which a wake-up can go to the wrong one.  One thread
  of each kind may be cancelled.
* EventLoop: `MaxCallbacks` 2 timers (one may be cleared while the other fires;
  two fill a queue of two), one killer and a kill with its restart in
  eventloop_timers; one timer, two killers and two kills in eventloop_kill,
  where the kills are what may go wrong.  A handle may be cleared again after
  either.  An incarnation starts from the same
  state each time, except for the static copy `received`, which carries its
  incarnation, so that two see everything.
* EventLoopRtos: two timers fill the event queue of two while a third firing
  waits; a command queue of three is full after one timer was started and
  stopped and another started; of two kills the second meets what the first left.
* FirmwareUpdate: two full chunks and a tail (first, middle and last chunk are
  different), three downloads (an abandoned, a repeated, a clean one), or two when
  messages are split (`MaxSplit`: only the type and `NoLoopWhileWriting` are then
  claimed), one reset or restart (`MaxResets`).  Chunks are numbers that name their content; a
  size is compared in half chunks, so that the terminator can be a chunk of its
  own.  The flash port's memory is 448 bytes more than whole chunks
  (`firmware.c:129`), which the terminator fits into: half a chunk more (`Room`).
* Transaction: `MaxRetransmit` 3 instead of 4 and seconds of
  `ResponseTimeout` 1; denials beyond one for each message sent are bounded by
  `MaxDuplicates`, for the network does not invent them.  `Pause`, the whole
  timeout of the main loop, is 2 instead of 60, longer than the first waiting time
  and shorter than the last; `MaxStalls` bounds the steps that return early to 2,
  so that a deadline may be missed twice in a row or at two different sends.
* Client: one server of each kind.  `MaxFailures` 3 instead of 10: it is only
  counted up to.  `MaxTransactions` 3 to a server: two updates and a
  registration may overlap; `Elapse` and `Manage` leave a slot free for
  what the step after them sends.  What two servers do to each other (one that
  cannot be reached holds back the other's registration) is modelled, and covered
  by the proofs, which are for any number; with two the run would be too long for `Progress`.
* Observe: two servers (one that cancels and one that must not notice), two
  URIs, two values (on both sides of one lower threshold, on one side of the other,
  and a step apart; the upper threshold mirrors the lower and matters to `RuleKept`), two message ids
  (consecutive notifications differ; a coincidence that the 2^16 of the code make
  rare is reached), three requests: observe, attributes, and a second query or a
  cancellation.  Periods are 1, which tells before from after, and `Sleep` is 2,
  so that the timeout has to be shortened for them.  Two attribute queries,
  which set every kind, clear a minimal period, and break the rule together in one
  order and not in the other; the theorems are for any queries.  Early returns and silent
  changes of the free memory are not bounded.
* BlockTransfer: two bodies for one resource and one for another, of 3, 4 and 2
  units, in blocks of 2 that the client asks to make 1 (so that a
  transfer changes its block size on the way), the buffer's limit at 4: one
  body that just fits and one that just does not.  Two attempts, one early
  repetition.

### Fairness

* Threads run (weak fairness of each thread's steps): both operating systems
  schedule preemptively.  pthread mutexes are not fair, so that nothing is
  assumed of who gets a contended mutex, except that the receiver of the queue
  is not passed over for ever (strong fairness of `Receive`).  `FiringsComplete`
  holds without that.  A thread wakes spuriously finitely often only
  (`<>[][QuietNext]_vars`): two threads that keep each other awake for
  nothing would otherwise never park.
* Strong fairness only for threads on their way to death and for killers, which
  wait for a mutex that is free again and again: an interval timer sleeps
  between two pushes, so that the mutex is really free for a time.
* `EventLoopRtos`: the daemon runs; loop and killer run although the daemon
  interrupts them again and again (strong fairness), since a period is a tick at
  least and they run between two.
* Downloader and upload server both run; a failure never has to happen, so
  that no waiting is resolved by a lost connection.
  A JavaScript function that runs returns (`Return`).
* Time passes and the client's main loop runs (`Transaction`): it sleeps no
  longer than the last step says, and `lwm2m_step` does not return early for
  ever.  If it did, no transaction would end, and the code does not exclude it;
  the bound on early returns, `SilenceEndsInTime` and `Progress` say what it
  costs otherwise.  Server and network owe nothing.
* `Client`: the loop comes back to `select`, `select` returns, deadlines pass.
  The servers owe nothing.  `Progress` assumes that from some time on
  names resolve, nobody sends bootstrap commands or announces a new
  bootstrap server, and the Security object is readable (`Settled`): without
  these a client may be kept busy, or out, for ever.
* `BlockTransfer`: the server repeats its current block, and what is sent again
  and again arrives at last (strong fairness of the arrival of the current block
  and of answers).  Nothing makes late messages arrive.
* `Observe` states no liveness: what is due is due at the end of the step that
  looks at it, so that `NotifiedInTime` is an invariant of the client that sleeps
  after such a step.  How many steps return before one looks is not bounded.

## Findings

1. The downloader takes what one `recv` returns for a whole message
   (`firmware_downloader.c:146`) and confirms a chunk, the end of which was
   neither received nor written; the comment there says "confirm receiving and
   writing of chunk".
2. The check that the firmware fits (`firmware_downloader.c:112`) counts the
   announced chunks; the null terminator after a file of whole chunks is one
   more.  It bites on the file port, whose limit is a whole number of chunks; on
   the flash port the limit is not (131 008 bytes) and the terminator fits.
3. A bootstrap command in place of the lost acknowledgement of the bootstrap
   request moves the server to BS_PENDING (`bootstrap.c:308`, "The ACK was
   probably lost") and leaves the deadline that has passed; the next step fails
   the bootstrap.

Other things the models show, about which no document says anything, are
in their properties as exceptions or end the model:

* unix event loop: a handle that is cleared a second time, or after its timeout is
  over, is a freed callback that `clearTimer` reads (`eventloop.c:79-85`); a timeout
  cleared while its copy is queued is completed on a freed timer item; a loop
  that, shut in front of its receive, executes the callback its static copy still
  names, completes a freed item too.  `NoUseAfterFree` says that there is no
  fourth way; `StaleOnlyAfterFailure` that only a dying loop does the last.
* unix event loop, kill: two ways to hang (`GateDeadlock`, `MutexDeadlock`); a kill
  that cancels the loop between the list of timers and `pthread_create`
  (`eventloop.c:184-199`) cancels and joins a `pthread_t` nobody wrote
  (`"no thread"`); two loops when two killers overlap (the model ends there).
* stm32 event loop: a daemon that waits for room in the event queue with a
  pointer to an interval the loop clears meanwhile copies freed memory; a kill
  that finds the command queue full leaks timers that go on firing
  (`unstopped`); a kill before the loop has run fails an assertion (`"early"`);
  a kill between two frees of `_timer_cleanup` deletes a timer twice (`Torn`);
  a program that starts more timers than the command queue holds while the
  daemon waits, or fails at its top level, stops the loop for good (`"hung"`).
  A timeout of 0 fails the assertion of `xTimerCreate` (`"period"`), a handle
  cleared again is a freed callback (`"handle"`).
* firmware: the upload server's file position survives a connection (`mixed`,
  `served`), so that a download after one that was abandoned, or finished, commits
  and runs the rest of the file only (`origin`): `FromOriginToEnd` says that it is
  all of that rest, `InstalledIsImage` that it is the whole file the first time.  Update and Reboot restart the loop in the middle of a download
  (`disturbed`, `part`), for the file port on a half-written program.
* client: transactions that point to deleted servers and closed connections
  (`open`, `owned`), a Security instance that a failed PUT has half rewritten
  (`"spoilt"`) and one that cannot be read and stops the client for good
  (`Stranded`).
* observations: a watcher behind one whose value cannot be serialized is starved
  (`Starved`; the `break` at `observe.c:697`); a write by a server, and the free
  memory that each turn of the main loop reads (`lwm2mclient.c:485`), are reported
  to nobody (`silent`), though the memory can be observed; while one server cannot
  be reached the observers of all are not served (`complete`); two watchers of one server that share a message id are
  cancelled for each other; thresholds on an instance make `observe_step` follow
  a null pointer (`observe.c:557`).
* transactions: each step that returns early may postpone a retransmission and the
  report of a failure by the 60 s the client then sleeps (`stalls`).
* block-wise transfer: the buffer belongs to the server, not to the resource, so
  that a server that runs two transfers at once, or whose abandoned one still has
  blocks on their way, may have a payload mixed of two bodies: in order and of the
  right length, but mixed (`HandedInOrder` against `ImplementsHandover`).  A body
  of exactly `MAX_BLOCK1_SIZE` is refused unless it is one block; the last block
  repeated executes the request again.

## Proofs

`Queue_proofs`: for any senders, receivers, items, length and any set of
cancellable threads, under `QueueAssumption`.

* `Invariance`: `Spec => []IInv`.  None of the properties is inductive by
  itself.  `RingConsistent` says nothing of a thread that is between the copy
  and the counter; `IInv` says exactly where the pointers are for each kind of
  call there (`RingInv`), that such a thread has passed the test and still may
  (`RoomInv`), and that no other thread is inside (`MutexInv`), which for a
  cancelled thread means that the mutex is lost and nobody will be inside again.
* From it: `TypeCorrect`, `RingIsConsistent`, `WakeupsKept`,
  `FrozenOnceAbandoned`, `ShutForGood` (a locked queue accepts and delivers
  nothing that was not under way).
* `QueueImplementsFifo`: the refinement mapping `Content` reads the ring from
  the oldest item on; an item leaves when it is copied out and enters when it is
  counted, and every other step is a stutter.

`EventLoop_proofs`: for any number of timers, killers and kills and any length
of the queue, under `EventLoopAssumption`.

* `Invariance`: `Spec => []IInv`.  `NoTimerOutlivesItem` says nothing of who may
  free an item.  `SectionInv` and `LoopInv` say who is in the critical section
  and that a loop has ended, and been joined, before the killer clears up
  (so that without a queue there is no loop); `ItemInv` that timers and callbacks
  are of this incarnation, and are gone once the queue is.
* Memory is safe only as long as every copy in the queue is taken in its turn.
  `OnceInv` says that a one-shot timer has one copy at a time, in the queue or
  received, that it keeps its item until that is completed unless the program
  clears it, and that a handle is good until then.  A queue that is shut or
  lost (`~Sound`) breaks this, since the loop then goes on with the copy it had:
  `SoundKept` shows that only the next incarnation is sound again, and `CopyInv`
  that no copy reaches it from the one before.
* From it: `TypeCorrect`, `TimersAreJoined`, `KillIsComplete`,
  `StaleCopiesAreLate`, `FreedByThreeMistakes` (`NoUseAfterFree`, for any programs),
  `ClearedAreSilent`.

`FirmwareUpdate_proofs`: for programs and memories of any size, either port, any
number of downloads, resets and restarts, with or without failures, under
`FirmwareAssumption`.

* `WriteInOrder`: the length of the file is the number of chunks written, so that
  appending (unix) and programming at the chunk's address (stm32) agree.
* `Invariance`: `Spec => []IInv`.  `InstalledIsImage` speaks of the end of a
  download only.  `FlowInv` relates, for each kind of message in flight, what
  the storage holds (`Filled`, `Ended`) to where the server is (`At`), as long as
  messages arrive whole and nobody else moves its file position (`Clean`), counted
  from the chunk at which the download began (`origin`);
  `SessionInv` says who is connected at all; `StoreInv` ties the metadata to
  downloads that have begun and not ended, which is what a reset meets.
* From it: `TypeCorrect`, `OriginToEndOnly` (`FromOriginToEnd`), `ImageInstalled`,
  `LoopStandsStill`.

`BlockTransfer_proofs`: for any transfers, resources, lengths, block sizes,
limits and numbers of attempts, under `BlockAssumption`.

* `UnitsOfBlock`, `AccumulateFits`, `LastBlockCompletes`: what
  `coap_block1_handler` does to a buffer without a gap.
* `Invariance`: `Spec => []IInv`.  `HandedInOrder` is not inductive: it says
  nothing of the length of a buffer that is still growing.  `IInv` says that the
  buffer ends with the block `lastmid` names (`FitData`), which gives a
  repeated last block the right length too; that blocks in flight are blocks of
  their bodies (`Formed`); and that an answer in flight is awaited and asks for
  more only where there is more (`AnswersFit`).  For an orderly server
  (`OrderlyInv`) it adds that everything in flight is of the newest transfer,
  and that once any party knows this transfer to be past its first block the
  whole buffer is of it.  That last part is what makes a first block, which
  starts over, the only moment at which the buffer changes hands.
* `PayloadsInOrder` (`HandedInOrder`) and `ClientImplementsHandover`
  (`ImplementsHandover`): a request that is answered "changed" is a `HandOver`,
  a beginning a `BeginTransfer`, everything else a stutter; for a server that is
  not orderly the mapping is constant and nothing is claimed.

  `TypeCorrect` needs one assumption more, that the buffer is longer than a block
  of the server's (`ServerSize < MaxBlock1Size`; the code's limit is 4096 bytes and the
  option names no block beyond 2048): a first block is taken in without being
  compared with the limit.

`EventLoopRtos_proofs`: for any number of timers and kills and any lengths of the
event queue and of the command queue, the latter at least 2
(`configTIMER_QUEUE_LENGTH` is 32), under `RtosAssumption`.

* `TypeCorrect`, and `DeletionsAreQueued` (`NoTimerOutlivesItem`): an item is freed
  after the command that deletes its timer was queued, so that `DeletionInv`
  has to speak of the loop between the two.
* `FreedByMistakesOnly` (`SafeUntilStalled`), for any programs.  The
  argument is one of priorities: the daemon outranks loop and killer, and
  until it has met a full event queue it never waits, so that both find
  its command queue empty whenever they run (`PromptInv`) and a timer
  they delete is gone before they free its item (`TimersInv`).  `OnceInv` is what
  the unix port needs too: a one-shot timer has one copy at a time and keeps its
  item until that is completed, unless it is cleared.  A stalled daemon, a timer left running or a list
  torn by a kill break all this (`~Calm`); only a kill and a start that find nothing
  left bring it back.

`Transaction_proofs`: for any transactions, any `ResponseTimeout` and any
`MaxRetransmit`, under `TransactionAssumption`.

* `TypeCorrect`, `SendsBounded`, `PatienceKept`: the invariant ties
  `retrans_counter` to the number of messages really sent (`Counted`) and every
  report to its reason (`Told`).
* `SilenceIsTimed` (`SilenceEndsInTime`): a silent transaction is no older than the
  waiting times of all its messages, `ResponseTimeout` times 2^(MaxRetransmit + 1) - 1,
  and one `Pause` for each step that returned early, and it is given up no
  sooner than after the former.  `Clocked` says that what has passed and what is
  left of the current waiting time (below 0 when the transaction is overdue) add up
  to the waiting times of the messages sent, `Until`; `Awaited` that by the end of
  the sleep none is overdue by more than one `Pause` for each step that
  returned early (`HeldGrows`, `NapEnds`).  That a shift by one more
  doubles, and that later waits end later, are the lemmas `ShiftDoubles` and
  `UntilIsMonotonic`.

`Observe_proofs`: for any servers, values, attribute queries, numbers of requests
and of message ids, under `ObserveAssumption`.

* `TypeCorrect`, from `ListsInv` and `WatchersInv`: the two levels of lists hold
  everything once and agree on what is observed, through `observe_cancel` and
  `prv_getWatcher`.
* `RuleIsKept` (`RuleKept`): a query is checked against a mixture of itself and of
  what is in force, and what is stored is another mixture; the two agree wherever
  all three attributes are in force afterwards.
* `CancellationsAreExact` (`CancelIsExact`): what `observe_cancel` finds first has the
  message id it looks for, so that a second observation with the same id is the
  only way to miss.
* `NothingOverdue` (`NotifiedInTime`) is far from inductive, since it speaks of
  the end of a step that came to `observe_step` only, and any number of steps may
  return before the next does.  `PendingInv` says that a change which was told is marked until it is
  sent, `ShownInv` that what the thresholds are compared with is what the server
  was sent, and `SleepInv` that the time the client still sleeps after such a step is no more than what
  is left of the periods of every watcher that is served, so that `Tick` keeps it.
  For the step itself the two loops are taken turn by turn: what the turns
  passed have established, the later ones, which only shorten the timeout and
  change other watchers, leave true.

`Client_proofs`: for any bootstrap servers and LWM2M servers, any number of failures
and of transactions to a server, under `ClientAssumption`.

* `Invariance`: `Spec => []IInv`.  `RegServer` and `BootServer` speak of one server:
  who waits has a transaction (`HasTransaction`), who counts as registered was sent
  the objects, and there is room for what the next step sends (`Room`), whose
  point is that an update that fails is followed by a registration while older
  updates may still be outstanding.  They are lemmas about the functions of
  `registration.c` and `bootstrap.c`, one each.
* What holds the servers together is the state of the client.  `Phase` says that a
  client that bootstraps registers nowhere, so that what a bootstrap server tags
  as dirty is not registered, and that one that does not bootstrap has no
  connection to a bootstrap server left; `lwm2m_step` leaves `STATE_BOOTSTRAPPING` only
  when every bootstrap has ended, and ending one closes its connection.
  `Configured` says that what the configuration lost is dirty, and that nobody is
  by the time the client registers, since `prv_refreshServerList` comes first.  The
  states of `lwm2m_step` are a lemma each, from `RequiresBootstrap` to `StepsFrom`;
  that a step which reports 503 leaves no bootstrap server connected (`Left`)
  is what lets the main loop start over at any of them.
* From it: `TypeCorrect`, `WaitersHaveTransactions` (`WaitingHasTransaction`),
  `BootstrapWhenAsked` (`BootstrapOnlyWhenAsked`), `ConfiguredServersOnly`
  (`ServersAsConfigured`), `ChangesKept` (`NoChangeForgotten`).

Induction.  The library's induction theorems cannot be instantiated here, but
`WFMin` (a set of numbers that is not empty has a least element) can: the lemmas
about loops and powers of two take the least number for which the claim fails
and refute it.  A function defined by recursion over a list is reached the same
way, after its existence has been shown (`StepwiseDefined` in
`Transaction_proofs`, `WatchersLoop` and `TargetsLoop` in `Observe_proofs`).

Only model-checked: all liveness (`EveryItemDelivered`, `FiringsComplete`,
`KillEnds`, `DaemonAndLoopGoOn`, `DownloadEnds`, `EveryTransactionEnds`,
`Progress`, `TransferSucceeds`), which is out of the provers' reach.

## Not modelled, and why

* Most of the repository by size is vendored: Duktape, FreeRTOS, lwIP, mbedTLS,
  the STM32 drivers and CMSIS are all but some 22 000 of its 750 000 lines.  The models
  are of the repository's own program, and of the LWM2M library as far as it has
  control worth checking; what they use of the vendored code (pthreads, FreeRTOS
  timers and queues, sockets) is modelled from its use and marked external in
  the map.
* Codecs (`er-coap-13.c`, `tlv.c`, `json.c`, `data.c`, `uri.c`, `discover.c`):
  parsing and formatting, data rather than control.
* GPIO, HTTP status page, start-up: register access, pure output, a sequence of
  calls.
* Of the event loops: loading of JavaScript modules and their `eventloop_func`
  (no module of the repository has one), real time of timers, a second killer on
  the stm32 (nothing excludes it there: both free everything),
  `eventloop_platform_queue_push_isr` (no caller).
* Of the download: a split firmware description; two reads of the server's file
  under way at once; a second URI written while a download runs, whose buffer
  the downloader reads (`object_firmware.c:226`).  A package pushed block by
  block reaches the firmware object, but never runs: `eventloop()` overwrites it
  (`eventloop.c:138`).
* Of the client: deregistration, which only `lwm2m_close` sends; a lifetime
  that the server changes; queue mode; the discovery thread; the server side of
  the library, which is not compiled; the transactions and watchers a
  reconfiguration frees with the whole context (`lwm2m_close`).
* Of observations: values that fail to serialize in a way that depends on the
  value, periods of zero (a `pmax` of zero keeps the main loop from sleeping),
  watchers left behind by a deleted server (`liblwm2m.c:92`), message ids shared
  with transactions.
* Everywhere: failures of `malloc` and of the creation of threads, except where
  the code has a path of its own for them; a cancellation inside `malloc`, inside
  Duktape's heap or inside `pthread_create`.

## Plan

1. Done: `Queue`, `EventLoop`, `EventLoopRtos`, `BlockTransfer`, `FirmwareUpdate`,
   `Transaction`, `Observe`, `Client`: modelled, and every safety property of
   theirs that a run checks proved.
2. The discovery thread beside the client's loop; deregistration and a lifetime
   that the server changes; a second killer on the stm32.
3. `Progress` for two LWM2M servers; `SentAtMost` and `WaitingHasTransaction` as a
   refinement between `Transaction` and `Client`.
