# TLA+ models of RTI nano-agent

nano-agent is an XRCE agent: clients on small devices send it messages over UDP
or a serial line, and it creates DDS entities, writes and reads data for them.
This directory holds TLA+ models of its concurrent core, the TLC runs that check
them, and proofs that hold for every number of clients, transports and messages.

Paths below are relative to the repository: `dds-agent/src/impl_ndds/` is the DDS
side ("D2S2"), `src/service/` the XRCE side.

## 1. Inventory

| component | state | operations | who runs them |
|---|---|---|---|
| Client sessions (`NddsAgent.c`, `NddsAgentIntf.c`, `NddsClientSession.h`, `AgentIntf.c`) | table of sessions, flags `deleted`/`timedout`/`resetting`, semaphores, timeout event, client object, heartbeat event | open, reset, message, delete, timeout, close, finalize | receive threads, event thread, cleanup thread |
| Read requests and data forwarding (`NddsReader.c`, `NddsClientSession.c`, `Agent.c`, `ProxyClient.c`) | `attached->read_req`, list of requests per reader, samples on loan, sample numbers, DDS cache | read, data available, forward, ack / loss / dismiss, complete, cancel | receive threads, event thread, DDS threads, cleanup thread |
| XRCE requests and replies (`Agent.c`, `ProxyClient.c`) | request objects and their pool, reply streams, data forwards | create, delete, write, read, get info, reply | receive threads, event thread |
| Client mappings (`Agent.c`) | list of locator-to-client mappings, its mutex | look up, add automatically | receive threads |
| Resources and attachments (`NddsAgentDb.c`, `NddsAgent.c`, `NddsResource*.c`) | table of resources, `attached_count`, native entities, attachments per session | create, look up, attach, detach, delete, cleanup | receive threads, cleanup thread |
| Writing data (`NddsAgent.c`, `NddsWriter.c`) | none of its own | write | receive threads |
| Agent service and transports (`Agent.c`, `AgentTransport*.c`) | list of transports, flags, receive threads | register, enable, disable, receive, send | main thread, receive threads |
| Message buffer pool (`MessageBufferPool.c`) | free buffers | allocate, release | all |
| Resource factory and XML, infrastructure, daemon, logging | configuration trees, properties | parse, look up, start | main thread |

How they meet. A receive thread hands every message to
`NANO_XRCE_Agent_receive_message`, which finds the client through the mappings,
locks its session record and runs the submessage handlers; those call the D2S2
server interface, which calls back (`on_session_*`, `on_read_*`, `on_resource_*`)
on the same thread with the record still locked. Whatever has to happen later is
an event of the event generator (timeouts, reads, heartbeats), run by one event
thread, or is left to the thread of the AsyncWaitSet through a guard condition
(disposed sessions, completed reads, deleted resources). Threads meet on the
exclusive area of a session record, of the sessions table, of a resource, on the
binary semaphores by which one waits for another, and on `mappings_mutex`.

What is hard: a handler that waits releases its session first, so the state it
read before the wait may be stale after it; the event thread runs handlers which
may wait for the event thread; two threads may finish the same session; events
carry pointers to objects which another thread frees; a step of several may fail
and leave the others done.

What makes each component correct:

* sessions: the record a thread waits for stays its own; a client is freed once;
  every disposed session goes away and every DELETE is answered; a session that
  expired is disposed; a reset ends; heartbeats go on as long as the session is
  active;
* reads: samples are forwarded in order and once, no sample is taken out of the
  cache before every request has passed it, a finite read ends with its maximum,
  no request is freed while an event refers to it;
* requests: each has one reply and goes back to its pool once;
* mappings: the mutex is given back on every path, a locator has one client;
* resources: entries in use are counted, and an entity is deleted when a client
  asked for it and nothing is attached to it any more, and not before;
* service: every transport is closed at the end, no thread outlives the agent.

## 2. Plan

| module | part of the system | proofs | runs |
|---|---|---|---|
| `ClientSessions`, and `ClientLifecycle`, the abstract specification it implements | client sessions | `ClientSessionsProofs`, `SessionReadsProofs`, `ClientLifeProofs` | `Sessions*` |
| `ReadForward`, and `SampleDelivery`, the abstract specification it implements | read requests and data forwarding | `ReadForwardProofs` | `Read*` |
| `ClientMappings`, extended by `AgentService` | look-up of clients; service, transports and daemon | `ServiceProofs` | `Service*` |
| `XrceRequests` | requests, replies and the write path | `RequestsProofs` | `Requests` |
| `Resources` | resources, attachments and their deletion | `ResourcesProofs` | `Resources*` |

Each module keeps what the others do as one abstract step. `ClientSessions` keeps
only whether samples are on loan and lets the session end under the request,
`ReadForward` keeps the session and follows every sample; they share the
cancellation of a request (`Cancel`, `Cancelled`). `AgentService` composes the
receive threads of `ClientMappings` with the main thread and keeps of a session
whether it is open, expired, disposed or cleaned up. `XrceRequests` follows the
buffers of one client and lets the operation succeed or fail; `Resources` follows
the operation.

Left, in this order: a module that composes sessions with requests, so that a
DELETE of the client and its expiry meet the request buffers; the invariants
behind the liveness properties of `AgentService` and `XrceRequests`, as
`SampleNoticed` is one behind `SampleForwarded`; entity names and identifiers as
operators checked against a reference.

## 3. `ClientSessions`

A key stands for a client key and session id. `gen` numbers the sessions of a
key, so that an event or a thread that refers to an earlier one can be told apart.

| variables | code |
|---|---|
| `present`, `deleted`, `timedout`, `resetting`, `semTimeout`, `semCleanup` | the record of the key in `NDDSA_AgentDb`, `NDDSA_ClientSession` |
| `finalized` | how often `finalize_sessionEA` ran to its end for the record |
| `leftover` | the sessions whose list of resources holds an entry that was detached (`Resources` has the lists) |
| `read`, `semEvent` | `attached->read_req` of the session's reader, and its `sem_event`; `loaned`: samples are with the client, `last`: one of them completes a finite request, `cancelling`: `cancel_readEA` waits |
| `proxy`, `disposed`, `request` | `NANO_XRCE_ProxyClient`, its `disposed` and `dispose_request` |
| `timer`, `readEvent`, `heartbeat`, `event` | the queue of the event generator, and the event its thread has taken |
| `cond`, `cleaner`, `ckey`, `visited` | `cond_cleanup_sessions` and the thread of the AsyncWaitSet, which runs `on_cleanup_sessions` with its cursor, or `on_cleanup_reads` |
| `pc`, `after`, `at`, `atGen` | where a receive thread (or the event thread) is: waiting for a read to be cancelled and why, or in `close_session` |

One step is what a thread does from locking a session record to releasing it.
The record is never locked between two steps since every wait of the code
releases it first (`NDDSA_Agent_wait_for_semaphoreEA`). The cleanup thread holds
the lock of the table from `CleanStart` to the end of its pass, except while it
waits for the cancellation of a timer (`CleanTimerResume`); in `on_cleanup_reads` it
releases the table to wait (`ReadsResume`). `open_session` and `close_session` need
that lock (`TableFree`), messages and events do not.

| action | code |
|---|---|
| `OpenNew`, `OpenReset` | `NDDSA_Agent_open_session` with `on_session_opened` / `on_session_reset` |
| `ReceiveOther`, `ReceiveRead`, `ReceiveAck`, `ReceiveDeleteObject`, `ReceiveDelete` | `NDDSA_Agent_receive_message` with the handler of the submessage |
| `ReadCancelled` | `NDDSA_Agent_cancel_readEA` after its wait, and the rest of its caller |
| `Close`, `CloseResume`, `CloseNotify` | `NDDSA_Agent_close_session` up to its wait, to the removal of the record, and its callback |
| `DataArrives` | `NDDSA_Reader_notify_data_available` in a DDS thread |
| `PopTimeout`, `PopRead`, `PopHeartbeat` | the event generator's thread takes an event (library, modelled from its use) |
| `RunTimeoutCancel`, `RunTimeoutIgnored`, `RunTimeout` | `NDDSA_Agent_on_session_timeout` |
| `RunRead` | `NDDSA_Agent_on_data_on_reader` |
| `RunHeartbeat` | `NDDSA_Agent_on_session_event`, `NANO_XRCE_Agent_on_periodic_heartbeat` |
| `CleanStart`, `CleanSkip`, `CleanSession`, `CleanRead`, `CleanFail`, `CleanReadResume`, `CleanReadFail`, `CleanTimerResume`, `CleanEnd` | `NDDSA_Agent_on_cleanup_sessions`, `NDDSA_Agent_finalize_sessionEA` |
| `ReadsCancel`, `ReadsResume` | `NDDSA_Agent_on_cleanup_reads` |
| `CleanResources` | `NDDSA_Agent_on_cleanup_resources`, of which only the entries it leaves behind are kept |

Reading an object that another thread has freed has every outcome the code can
show: `RunTimeoutCancel`, `RunTimeoutIgnored` and `RunHeartbeat` choose.

`finalize_sessionEA` detaches every entry of the session's list and stops at the first
that cannot be detached (`NddsAgent.c:3113-3129`). An entry that was detached before is
such a one: its resource id has been cleared and it was left in the list (1096-1097). A
DELETE of any object, `on_cleanup_resources` on behalf of another client, and a first
finalization of the same record leave them. The pass then ends for all sessions, with
its guard condition reset, and the session stays in the table, with its closer waiting
(`Undetachable`, `CleanFail`, `CleanReadFail`). It may still be finalized if the buffer of
the entry has been given out again for an object that is attached, so `CleanSession`
remains enabled.

Assumed of the libraries: `postEvent` with the same listener and storage replaces
the pending event (this is what the size argument of the calls is for); the event
generator runs one event at a time; the AsyncWaitSet runs one of its three jobs at a
time; only `lockTable` excludes other threads from a
table. Assumed of clients: one that reads uses one transport at a time. Not in
the model: memory exhaustion, failures of DDS calls with valid arguments,
`NDDSA_Agent_stop`, and that `on_cleanup_resources` may cancel the read of a reader whose
native entity another client deleted.

### Runs

| run | instance | result |
|---|---|---|
| `SessionsOneClient` | 1 key, 2 receive threads, DELETE of objects and of the client, finite timeout, 2 sessions, 3 messages; fair | `HeartbeatPending`, `SilentSessionEnds`, `DeleteAnswered` hold |
| `SessionsReader` | 1 reading key, 1 thread, no timeout, 2 sessions, 4 messages; fair | the action property `ResettingIsTransient`, and `DeleteAnswered`, hold |
| `SessionsTwoClients` | 2 keys, 2 threads, one reads, failing sends and messages, finite timeout | `TypeOK`, `CloserOwnsSession`, `SessionHasClient`, `DeletedHasCloser`, `CancelHandshake`, `WaiterOwnsSession`, `DisposedHasNoLoans`, `ClientHasOwner` and the refinement `ClientLife` hold |
| `SessionsExpiryDeadlock` | 1 reading key; fair | `ExpiredSessionDisposed` is violated |

Bounds. Two keys are enough for one session to disturb another through the only
things they share (the table lock, the guard condition, the event thread); two
sessions per key for an event or a thread of the first to meet the second; three
messages for a read, its acknowledgement and a DELETE or a reset. The passing
runs reach every action of `Next` between them. Deadlock is not checked: the
system rests when the clients have sent what they may send.

`SilentSessionEnds`, `DeleteAnswered` and `ExpiredSessionDisposed` have the premise
`[](~Obstructed(k))`: neither does the session have an entry that was detached, nor is
there another session whose failing finalization ends the pass that was to finalize
both. Without it they are false: see below.

Fairness (`LiveSpec`). A thread that can go on does (weak fairness of the closing
threads, of the waits for a cancelled read, of the handlers of the event thread
and of the cleanup thread; nothing obliges `on_cleanup_reads` or
`on_cleanup_resources` to start). An event in the queue is due some day, and is then
taken before the events that are due later, however often heartbeats are posted
again: strong fairness of `PopTimeout` and `PopRead`. Nothing is assumed of
clients or of the arrival of data.

### What does not hold

* `SessionsExpiryDeadlock`. The event thread runs `on_session_timeout`; if the
  client holds the sample that completes a finite read, dismissing it calls
  `cancel_readEA`, which waits for a semaphore the event thread alone gives. The
  manual says the session is disposed; it is not, and no event runs any more.

Some properties hold only in the instances that check them. Nothing in the
repository promises more, so these are hazards and not runs; section 8 says which
premise makes each of them true:

* a session whose client deleted an object is not finalized (see `Undetachable` above):
  it stays in the table, and the DELETE of its client, or main at shutdown, waits for
  good. `Obstructed` excludes it from the liveness properties here, and `AgentService`
  and `XrceRequests` have the same exit; `ResourcesDeletedTwice` (section 7) is the run
  that shows where it comes from;
* with two clients a session can be finalized twice. The cleanup thread wakes
  `close_session` and goes on; until that thread has removed the record, any other
  session that is disposed triggers a pass that finds it again. The second finalization
  meets detached entries and ends the pass, so that the other session is left behind.
  The ownership properties hold all the same (`SessionsTwoClients`);
* with failing sends `ResettingIsTransient` fails: a reset that cannot send its
  reply leaves `resetting` set for good. The property itself names the other case: a
  reset that meets a cancellation in progress returns an error and leaves the mark;
* with a reading client `HeartbeatPending` fails: a heartbeat that is due while a
  reset waits is dropped and not posted again;
* with two clients, finite timeouts and a key that is opened again
  `WaiterOwnsSession` fails. The pass for another session visits the first one once
  more and waits for its timer to be cancelled, with the table unlocked. Its closer,
  woken by the pass before, removes the record, and the key is opened again. The
  cleanup thread goes on with the new record; if that one has timed out meanwhile it
  is removed while a thread waits for its read. `SessionsTwoClients` opens each key
  once; `NotReopened` names the condition;
* with a client that uses two transports `ClientLife` fails. The handler of DELETE
  releases the session before `close_session` looks it up again. It may have timed
  out and be gone by then, and the key be open again over the other transport: the
  session that is closed is the new one, whose client was not disposed
  (`OneRoute` excludes it).

## 4. `ReadForward`

One DataReader and the sessions that read from it. Samples are numbered by the
reader (`reception_sequence_number`).

| variables | code |
|---|---|
| `sn`, `cache` | the DataReader: samples received, samples not taken out yet |
| `dismissed`, `requests`, `listener` | `NDDSA_Reader`: `dismiss_sn`, `requests`, and whether its listener is installed |
| `req`, `last`, `rcvd`, `max`, `elapsed`, `complete`, `samples` | `attached->read_req`: whether it is allocated, being cancelled or returned to its pool too early (`freed`), `last_sample`, `samples_rcvd`, `samples_max`, the clock against `max_elapsed_ts`, status `COMPLETE`, samples on loan |
| `forwarded`, `returned` | `last_sample_forwarded`, `last_sample_returned` of `NDDSA_AttachedResource` |
| `event` | the event of the request in the queue of the event generator |
| `forward`, `stream`, `limit`, `forwards` | `NANO_XRCE_ReaderState` and `client->forwards` |
| `waiter`, `cond`, `todo` | who waits in `cancel_readEA`; `cond_cleanup_reads` and the cursor of `on_cleanup_reads` |
| `reads`, `delivered`, `base` | bound; batches sent to the client; `dismiss_sn` when the request was made (ghosts) |

| action | code |
|---|---|
| `DataArrives` | a sample arrives; `NDDSA_Reader_notify_data_available` |
| `ReceiveRead`, `ReceiveBadRead` | `NANO_XRCE_Agent_on_submsg_read`, `NDDSA_Agent_read`, `NDDSA_Agent_readEA`, `NDDSA_Reader_new_request`, `on_read_created` |
| `Acknowledged` | `on_send_complete` / `on_msg_lost`, `dismiss_forward_request`, `NDDSA_Agent_return_loan` |
| `Drop` | a reset, or the deletion of the reader: loans returned, request cancelled |
| `Cancelled` | `cancel_readEA` after its wait, and the rest of its caller |
| `RunCancel`, `RunComplete`, `RunAll`, `RunAgain`, `RunFail` | `NDDSA_Agent_on_data_on_reader` with `read_from_readerEA`, `process_sampleEA`, `on_data_received` and `NDDSA_Reader_requests_updated`: the event cancels, finds the request complete, sends everything, has to try again, or fails |
| `TimePasses` | the clock passes `max_elapsed_ts` |
| `CleanStart`, `CleanSkip`, `CleanRead`, `CleanFail` | `NDDSA_Agent_on_cleanup_reads` |

A step is what a thread does with its session locked; the reader's list and the
listener change with the resource record of the reader locked as well. An event
that was taken off the queue just before its request was cancelled finds the
request gone from the list and does nothing, so taking and running an event is
one step here (`ClientSessions` separates them). When `readEA` returns a request
to its pool that is still in use, `req` is `freed` and the session's own threads
stop: what other readers do to the memory is not followed.

Assumed: the reader keeps all samples and returns them in order of reception,
every sample has data and fits one message, a session reads the reader with one
request, messages of one stream are acknowledged in order. `Unknown` stands for
an id of no stream: `on_release_read_samples` finds no stream then, and the filter
of `dismiss_client_fwd_data_requests` lets every forward pass.

### Runs

| run | instance | result |
|---|---|---|
| `ReadShared` | 2 sessions, 1 reliable stream, limits 0 and 1, 3 samples, 2 reads each, failing sends and reads; reads start after the last sample forwarded | `TypeOK`, `NoSampleLost`, `RequestsAllocated`, `LoansForwarded` and the refinement `DeliveredInOrder` hold |
| `ReadNotified` | 2 sessions, one with a maximum time, best-effort, 2 samples, 2 reads each; reads start with the first sample cached; fair | `SampleNoticed`, `SampleForwarded`, `CompleteReadEnds` hold |

Bounds. Two sessions are enough for one to be slower than another and for the
list to become empty and not; three samples for one on loan, one in the cache and
one to come; two reads for the second to meet what the first left. The two
sessions of `ReadShared` are interchangeable (`SYMMETRY`). Deadlock is not checked:
the system rests when nothing arrives any more.

Fairness (`LiveSpec`). The event thread runs what is in its queue, and a wait that
is over goes on; the cleanup thread runs its pass. `RunAll` is fair: a sample that
waits for its pace or for room in the stream is sent some day, which assumes that
the client goes on acknowledging. Failing sends are left out of `ReadNotified`: with
them a sample stays until the next one arrives (`RunFail`). `SampleNoticed` is what
`SampleForwarded` rests on besides fairness: where sends do not fail, a request
with a sample to read has its event in the queue in every state.

### What does not hold

* With a reliable and a best-effort stream `RequestsAllocated` fails (with one
  stream, `OneStream`, it is proved).
  `on_submsg_read` returns the loans of the stream the client asks for now. If the
  samples on loan were sent on another stream `cancel_readEA` refuses, and `readEA`
  puts the request back into its pool while the session and the reader go on using
  it. The same exit is taken when the cleanup thread is just cancelling the request.
* When the requests of two sessions can be complete `CompleteReadEnds` fails: a
  pass of `on_cleanup_reads` ends at a completed request that a receive thread is
  cancelling (`CleanFail`), and the completed request of the other session waits for
  the next trigger. In `ReadNotified` only one session limits its requests.

Nothing in the repository promises more; both are listed as hazards.

## 5. `ClientMappings` and `AgentService`

The path of a message to its session, and the process around it.

| variables | code |
|---|---|
| `mutex`, `mappings` | `mappings_mutex`, `client_mappings` of `NANO_XRCE_Agent` |
| `session`, `bind` | the record of a key in the sessions table, in the five states that matter here, and `bind_entry.locator` of its client |
| `pc`, `msg`, `found` | a receive thread, the message it handles, the key its locator is mapped to |
| `obstacle` | what keeps a session from being finalized: an entry that was detached (`entry`), or that the pass ended at another session (`pass`) |
| `latest` | key of the session that the last CREATE_CLIENT from a locator opened, none if that opened no session of its own (ghost) |
| `main`, `ix`, `at` | the main thread: registering, listening, unwinding a failed start, up, closing transports, finalizing sessions, freeing |
| `ready`, `handle`, `active`, `sem`, `wake` | a transport: initialized, its receive thread, `active`, `sem_thread_exit`, the wake-up message in its socket |
| `running` | the event generator and the AsyncWaitSet have not been stopped |

| action | code |
|---|---|
| `Receive`, `Lookup` | `NANO_XRCE_Agent_receive_message` up to and including the look-up of the mapping |
| `CreateRejected`, `CreateNew`, `CreateCached`, `CreateAgain` | `NANO_XRCE_Agent_process_create_client`, `NDDSA_Agent_open_session`, `on_session_opened`, `on_session_reset` |
| `Deliver`, `CloseStart`, `CloseEnd` | `D2S2_Agent_receive_message`; DELETE of the client and `NDDSA_Agent_close_session` |
| `ThreadStart`, `ThreadLoop`, `ThreadWake` | the receive threads of the UDP and serial transports |
| `Register`, `Listen`, `Signal` | `NANO_AgentDaemon_initialize_xrce`, `NANO_XRCE_Agent_enable`, `NANO_AgentDaemon_exit` |
| `Close`, `Join` | `NANO_XRCE_Agent_disable` and the exit of `enable`, with the close functions of the transports |
| `DisposeNext`, `Await`, `AwaitLost`, `StopServer`, `Free` | `NDDSA_Agent_finalize_database_sessions`, `NDDSA_Agent_finalize`, `NANO_XRCE_Agent_finalize` |
| `Expire`, `Clean`, `CleanMissed`, `CleanResources` | the event thread and the cleanup thread of the DDS agent (`ClientSessions` has their detail) |

A semaphore that the cleanup thread deletes while main waits for it may or may
not let it go on (`AwaitLost`). The receive thread of a serial transport polls; a
UDP thread blocks until a message arrives, for which `close` sends one itself. A second
thread of the UDP transport, for discovery, shares its `sem_thread_exit`
(`AgentTransportUdpv4.c:478-513`, `559-574`); `nanoagentd` never enables it and it is not
modelled.

`RoutesToLatest` promises nothing where the last CREATE_CLIENT from a locator opened no
session: a client that resets from one locator the session it opened from another gets
no mapping there (`AgentIntf.c:315`), and one whose reply could not be sent has already
taken the mapping of the client before it (`AgentIntf.c:246`).

| run | instance | result |
|---|---|---|
| `ServiceRouting` | UDP and serial transport, 2 locators, 2 keys, automatic mapping, every fault of start, handling and shutdown, 1 failing wake-up; the keys are interchangeable (`SYMMETRY`) | `TypeOK`, `UniqueLocator`, `RoutesToLatest`, `JoinedThreadEnded` hold |
| `ServiceShutdown` | the same with 1 key; fair | `MessageHandled`, `ShutdownEnds` hold |
| `ServiceMapping` | 1 key, no automatic mapping, no fault; fair | `MessageHandled` is violated |

Bounds. Two transports are enough for one thread to hold what the other waits
for, for main to close one while the other still serves, and for one to fail to
listen after the other has started; two keys for a locator to change hands. One
failing wake-up makes `disable` repeat a close: without a bound it would repeat it
for ever, which is a hazard. Deadlock is not checked: the process ends.

Fairness (`LiveSpec`). Main and the start and the loop of a receive thread go on when
they can. A disposed session is finalized as long as it has no `obstacle`; once it has
one, nothing is owed to it. A receive thread gets the mutex, the record
and its wake-up message some day, however often another thread or message comes
first: strong fairness of `ThreadHandle` and `ThreadWake`. No message, no signal
and no end of a wait for a deleted semaphore is owed.

What does not hold. `ServiceMapping`: with automatic mapping off,
`receive_message` returns without giving `mappings_mutex` back when no mapping is
found, and the other receive thread waits for it for ever.

`MessageHandled` and `ShutdownEnds` name the waits that may not end. A receive thread
that closes a session waits for good if the session cannot be finalized
(`NddsAgent.c:3129`), and so does main, for the session itself or for the receive thread
that closes it. Main also waits for good for the thread of a serial transport that could
not be created, and for a session that expires while main waits for its cleanup. When the
start itself is unwound, a UDP transport that never listened waits for a thread
that does not exist; `ShutdownEnds` speaks of a signal and not of that.

## 6. `XrceRequests`

The request buffers of one client, from `on_submsg` to the reply.

| variables | code |
|---|---|
| `pool`, `req` | `client->requests_pool`; the fields of `NANO_XRCE_ClientRequest`: operation, stream, `reply`, `mbuf`; `answers` and `carried` are ghosts |
| `cur`, `pc`, `rc` | the request, position and return code of `NANO_XRCE_Agent_on_submsg` |
| `reader` | the entry of the client's DataReader and `reader_state->req`; `stale` after the reader was detached |
| `disposed`, `dispose`, `closed` | `client->disposed`, `client->dispose_request`; the session is closed |
| `leftover` | an entry that was detached keeps the session from being finalized |

| action | code |
|---|---|
| `Receive` | `NANO_XRCE_Agent_new_client_request` |
| `Fail`, `Create`, `DeleteMissing`, `Delete` | `on_submsg_create`, `on_submsg_delete`, `create_entity`, `delete_entity` with `on_resource_created`, `on_resource_deleted` |
| `Dispose`, `Expire`, `Close`, `Reconnect` | `NANO_XRCE_Agent_dispose_client_session`, the timeout, `on_session_closed`, a new client object |
| `Write`, `WriteNothing` | `on_submsg_write`, `write_data`, `on_data_written`; the formats without an implementation |
| `ReadRefused`, `ReadFails`, `Read` | `on_submsg_read`, `on_read_created` |
| `Done` | the block after `done` of `on_submsg` |
| `Obstruct` | the session cannot be finalized because of what other clients did (section 3) |

Two handlers of a client do not interleave, since its record is locked while a message
is handled; what interleaves is the end of the session. There is one exception: DELETE
of an object releases the record (`NddsAgentIntf.c:681`) and the rest of `on_submsg`
runs without it (`pc` is `released`), so that the session may expire before `Done`. A
message has one submessage here; those that follow such a DELETE in one message
run unlocked too and are not followed. A submessage that gets no buffer, a GET_INFO and
a reset of the session change nothing here.

Run `Requests`: two buffers, every operation on both kinds of stream, every fault
(a reply that cannot be sent, a reply buffer that cannot be allocated, a reader
state that cannot be made), fair handlers. `ReplyHasBuffer`, `PoolSound`,
`OnlyReadsLeak`, `AnswersTrue`, `ReliableAnswered` hold. Two buffers are enough for a
reader to hold one request while another is handled, for the request of a DELETE
to wait while nothing else is left, and for the pool to run empty; deadlock is
checked. Weak fairness of `Handle` says that a handler runs to its end, that of
`~leftover /\ Close` that a disposed session is closed if it can be finalized
(`DeleteAnswered` and `SilentSessionEnds` of `ClientSessions` are about the latter). A
client that has deleted an object gets no reply to the DELETE of itself:
`ReliableAnswered` makes that exception.

A READ that is refused loses its buffer (`ReadRefused`), and so does a reader that
is deleted: `OnlyReadsLeak` says that nothing else does. The hazards list both.

## 7. `Resources`

The resources table, the lists of the sessions, the buffers they are made of and the
DDS entities.

| variables | code |
|---|---|
| `db` | records with `attached_count`, `pending_delete`, `native_deleted` (`NDDSA_ResourceRecord`), and the entities DDS has |
| `attached`, `links` | `NDDSA_AttachedResource` in each buffer (an object id and a resource); `session.resources`: first and last buffer of each session, next of each buffer |
| `pool`, `given` | `pool_resources`; bound on how often it gives out a buffer |
| `status`, `made` | the record of a session; the entry whose `on_resource_created` is running |
| `job` | the pass that holds the sessions table (finalizing sessions or cleaning resources up), the session it has locked, its cursor and the entry it decided to detach |
| `fill` | `attach_all_resources_to_sessionEA`, which holds the resources table: for which session, and the records its cursor has still to find |
| `triggers` | `cond_cleanup_sessions`, `cond_cleanup_resources` |
| `agent` | up, ending, down or failed |
| `failures` | bound |

| action | code |
|---|---|
| `Open`, `OpenAttach`, `OpenFails` | `NDDSA_Agent_open_session` |
| `FillSkip`, `FillAttach`, `FillNoBuffer`, `FillEnableFails`, `FillCreatedFails`, `FillEnd` | `attach_all_resources_to_sessionEA`, for a new session or at the end of its cleanup |
| `Close`, `Remove` | `NDDSA_Agent_close_session` or a timeout; the removal of the record |
| `CreateByRef`, `CreateTooEarly`, `CreateByXml`, `CreateLeaves`, `CreateReused` | `NDDSA_Agent_create_resource`, the resource factory with `RefResource` and `XmlResource`, `insert_resource_recordEA` |
| `Created`, `CreatedFails` | the callback of `NDDSA_Agent_enable_resourceEA` |
| `Delete` | `NDDSA_Agent_delete_resource`, `detach_resourceEA`, `delete_native_resourceEA` |
| `Start`, `NextSession`, `EndPass` | the frame of `NDDSA_Agent_on_cleanup_sessions` and `NDDSA_Agent_on_cleanup_resources` |
| `CloseEntry`, `CloseEnd` | the loop over resources of `NDDSA_Agent_finalize_sessionEA` |
| `CleanCheck`, `CleanDetach`, `CleanAttach` | the loop over resources of `NDDSA_Agent_on_cleanup_resources` |
| `Finalize`, `FinalizeRecord`, `FinalizeEnd` | `NDDSA_Agent_finalize_database_resources` |

A pass holds the sessions table and the record of the session it visits. Messages of
other sessions need neither, so CREATE and DELETE go on during a pass (`Ready`); what
they wait for is the resources table while `fill` holds it. `on_cleanup_resources`
releases the record it looked at before it detaches the entry (`NddsAgent.c:5440`,
`5451`): two steps.

`detach_resourceEA` returns the buffer of an entry to the pool and leaves it linked
(`NddsAgent.c:1096-1097`). The pool gives any of its buffers out again (1449), so that
a buffer may be in the lists of two sessions, or twice in one, and what one session
detaches the other finds detached. `AddedToBack` is the list of the library: the new
node becomes the last and its `next` is cleared, which also cuts off what followed it in
the list it was still linked to. The order in which the library writes `next` and `last`
is assumed; with the other one a session that gets its own last buffer again would have
a list without end.

Kinds are reduced to participant, group (publisher, subscriber), endpoint (writer,
reader) and topic. The XML of a participant makes the participant alone; the
contents an XML document may bring with it are made by the parser. The cursor of
the table finds records in some fixed order (`NextRecord`). To find an entry and to lock
the resources table is one step. DDS is external: an entity is there or not, and a
participant with a topic cannot be deleted.

| run | instance | result |
|---|---|---|
| `Resources` | participant, publisher, writer and topic; 2 sessions, 3 buffers given out 4 times, automatic attachment, participant and publisher loaded at start, 1 failure | `TypeOK`, `AttachmentCounted`, `PendingDeleted`, `WriteReaches`, `DeletedOnRequest` hold |
| `ResourcesDeletedTwice` | the same resources, 1 session, 3 buffers, nothing loaded, no failure | `EntryAttached` is violated |

Bounds. One resource of each kind is enough for the cascade from a participant to
a writer and its topic; two sessions for one to delete what the other has; three buffers
given out four times for one to be given out again while it is linked, and for the pool
to run empty; one failure anywhere for a step of several to be left undone. Sessions and
buffers are interchangeable (`SYMMETRY`). The run has about 1.4 million states.

`AttachmentCounted` is about buffers, not about lists: the count of a record is the
number of buffers in use for it. A buffer of two lists is counted once, and one that no
list reaches any more is still counted; nothing promises more.

What does not hold. `ResourcesDeletedTwice`: the entry that stays in the list makes
the client's next DELETE or CREATE with that id, and the end of its session, meet
an entry without record, which `detach_resourceEA` says should never happen. And
`DeletedOnRequest` has one exception, `Overtaken`: between the look at an entry and its
detachment by `on_cleanup_resources` another session that has the same buffer in its
list returns it and it is given out for a new object, whose resource the cleanup then
marks for deletion although nobody asked. In the bounds of `Resources` the buffer is
only returned meanwhile, which is harmless: the cleanup fails and ends. Without automatic
attachment and loaded resources TLC finds the other case once buffers are given out five
times; the theorem of section 8 leaves it out for the same reason.

## 8. Proofs

`ClientSessionsProofs` proves, for every value of the constants that satisfies
`SessionsAssumption`:

* `TypeCorrect`: `Spec => []TypeOK`, one step per action, with lemmas for the
  helpers that change typed state (`EventType`, `UpdateType`, `ArmedType`,
  `ClosedType`, `SessionFinalizedType`, `FinalizeTimerType`);
* `CloserKeepsSession`: `Spec => []CloserOwnsSession`;
* `ClientFreedOnce`: `Spec => []SessionHasClient`.

`SessionReadsProofs` adds what concerns reads, cancellation and cleanup, and
`ClientLifeProofs` the life of client objects (both below).

The last two theorems are one induction. `CloserOwnsSession` alone is not inductive: that
`close_session` of one thread does not free the client another is about to free
needs to know that a thread in `notify` has a client of its own, of a session that
is not in the table any more, and that the record the cleanup thread finalizes
with the table locked is still there. `SessionInv` adds just that. Frame lemmas (`OwnerFrame`, `IdleFrame`) settle all the
actions that leave the records and the closing threads alone; the others have a
step each in `OwnerNext`. `SessionInvariant` states that `SessionInv` itself holds.

`SessionReadsProofs`, on top of these:

* `DisposedLoansReturned`: `Spec => []DisposedHasNoLoans`;
* `ResetMarkTransient`: `"send" \notin Faults => (Spec => ResettingIsTransient)`;
* `CancelInvariant`, and from it `CancellationHeldOnce` (`CancelHandshake`),
  `WaiterKeepsSession` (`WaiterOwnsSession`) and `ClosedSessionHasCloser`
  (`DeletedHasCloser`), under `Spec /\ []NotReopened`;
* `NeverReopened` and `OneClientNeverReopens`: `[]NotReopened` follows from `Spec` if
  sessions never time out, if a key is opened once, or if there is one client, with
  any number of transports and sessions;
* `HeartbeatGoesOn`: without readers and failing sends, `[]HeartbeatPending`.

The three properties about cancellation cannot be proved apart. A request that is
being cancelled has one holder: the queue, the event thread or the semaphore
(`HeldOnce`). That a waiter finds its record again needs that a record is removed
only once its read is gone: `close_session` removes one after the cleanup thread
has woken it, the cleanup thread one that has timed out, both after
`cancel_readEA` (`NoReadLeft`), and the one wait of the event thread itself is for a
session that has timed out and is not marked as deleted yet (`WaitsInTimeout`). The
argument breaks where the key is opened again under the cleanup thread, hence the
premise.
`FinalizedInv`, behind `OneClientNeverReopens`, says when a pass is asked for, so that
the pass after a finalization finds nothing. That is true of one client only, and is an
induction which uses `CancelInv` at each step and gives `NotReopened` back (`OneClient`).

`ClientLifeProofs`:

* `LifeRefined`: `OneRoute => (Spec => ClientLife)`. `ClientLifecycle` has the same
  `proxy`, `disposed` and `request`; each step is an `Open`, a `Dispose`, a `Close`
  or a stutter of it;
* `DisposalInvariant`: `Spec => []DisposalInv`, which the refinement rests on: clients
  of a key come in turn, a session times out only with its client disposed, a
  pending DELETE is that of a disposed client not yet freed and, under `OneRoute`,
  whoever is on the way through `close_session` closes a disposed client;
* `NoClientForgotten`: `Spec => []ClientHasOwner`, without a premise: an allocated
  client has its session in the table or a thread about to free it.

`ReadForwardProofs` proves, for every value of the constants that satisfies
`ReadAssumption` (the set of streams is finite; nothing is asked of the set of
sessions):

* `TypeCorrect`: `Spec => []TypeOK`. That a request starts from, and the cache is
  dismissed up to, a sample the reader received rests on `LeastPassed` (what
  `DismissSn` returns) and `MaxSample`, which come from the well-foundedness of
  the naturals;
* `NothingLost`: `Spec => []NoSampleLost`. The invariant is `CacheInv`: the cache is
  the interval after `dismiss_sn`, a live request is in the list, and `dismiss_sn`
  has not overtaken a listed request (`ForwardedCache` is the step of
  `requests_updated`);
* `LoansAgree`: `Spec => []LoansForwarded`. The invariant is `LoanInv`: a request
  that is being cancelled has no forwards, and the forwards of a live one are of
  samples it has passed, so that new loans are new;
* `InOrder`: `StartPoint = "LAST_FORWARDED" => (Spec => DeliveredInOrder)`. The
  refinement mapping is `received <- sn`; with `DeliveryInv` each step is a
  `Receive`, a `Deliver` or a stutter of `SampleDelivery` (`DeliveryStep`);
* `ListedInUse`: `OneStream => (Spec => []RequestsAllocated)`. `ListInvariant` holds
  for any streams: only a request that `readEA` returned to its pool by mistake can
  be listed and not in use, and with one stream the loans are on the stream asked
  for, so that `cancel_readEA` does not refuse;
* `NoNoticeLost`: `Spec => []SampleNoticed`. `NoticeInv` adds that the listener is
  installed exactly while the list is not empty, which `notify_data_available` and
  `new_request` keep between them, and that the event of a live request is never a
  cancellation.

`ReadInvariant` states the first three invariants together (`ReadInv`).

`ServiceProofs` proves, for every list of transports and every set of keys and
locators that satisfies `MappingsAssumption` and `ServiceAssumption`, by one
induction (`Invariance`):

* `TypeCorrect`, `OneEntry` (`UniqueLocator`), `LatestIsRouted` (`RoutesToLatest`),
  `ThreadsEnd` (`JoinedThreadEnded`).

`ServiceInv` adds to the properties what each needs to be inductive. A mapping that
a thread found must still be the mapping of its locator when the thread decides
whether to store one: this holds since a locator belongs to one transport and so
to one thread (`FoundOf`). And a semaphore that was given tells that its thread
has ended: it is at most 1, and 0 as long as the thread lives (`ThreadOf`).
`LatestIsRouted` holds of the sessions that were opened: `latest` is none after a
CREATE_CLIENT that opened none.

`RequestsProofs` proves, for every set of buffers, by one induction:

* `TypeCorrect`, `BufferForReply` (`ReplyHasBuffer`), `PoolKept` (`PoolSound`),
  `LeaksAreReads` (`OnlyReadsLeak`), `RepliesAreTrue` (`AnswersTrue`).

`RequestsInv` says whom a buffer belongs to: `OwnersInv` keeps the handler, the
state of the reader and the client that is to be closed apart, and `RequestOf(r)`
relates the flags of a request to whether it is in the pool and to what was sent.

`ResourcesProofs` proves, for any resources, sessions and ids and any finite pool of
buffers, by one induction:

* `TypeCorrect`, `CountsCover` (`AttachmentCounted`), `DeletionsHappen`
  (`PendingDeleted`), `WritesReach` (`WriteReaches`), `DeletionsAreRequested`
  (`DeletedOnRequest`, but for `Overtaken`).

`ResourcesInv` has four parts: the types; `DataInv`, that a record which is not
marked has its entity (topics apart, which DDS may delete with their last
endpoint), that pending records without attachment are gone, and that the kind of
an id is the kind of its resource; `ShapeInv`, that what is to be attached has a record,
that the session of a pass is in the table and that nothing runs once the agent ends;
and `AttachmentCounted`. The last needs the cardinality of `Entries(r)` before and after
each change of a buffer, which rests on the library's theorems on finite sets. Nothing
is assumed of the lists, which is why buffers that are linked twice do no harm to it.

Every invariant, action property and refinement that a passing run checks is
stated by a theorem. The inductive invariants behind them (`SessionInv`, `CancelInv`,
`FinalizedInv`, `DisposalInv`, `ReadInv`, `ListInv`, `NoticeInv`) are theorems of
their own and so not among the properties of the runs; each is defined beside the
property it supports and can be added to the run of that property to have TLC check
it. The theorems with a premise (`[]NotReopened`, one client, no failing
sends, no readers, `OneRoute`, `OneStream`, `StartPoint`) have it because the
property is not true otherwise: sections 3 and 4 give the behaviour.

Only model-checked: the liveness properties (`SilentSessionEnds`, `DeleteAnswered`, `SampleForwarded`, `CompleteReadEnds`,
`MessageHandled`, `ShutdownEnds`, `ReliableAnswered`), which need fairness and
`ENABLED`, and the properties of the violation runs.

## 9. Not modelled

* Walks over XML trees, the assembly of entity names, QoS and properties, command
  line parsing and logging have no behaviour over time.
* Sockets, serial framing, the XRCE reliability protocol, the event generator,
  the tables and pools of Connext Micro and DDS itself are outside this
  repository's own code (nano-core, Connext, the operating system); the models
  keep of them what the code relies on.
* Content filters, samples without data and fragmentation of a sample in
  `ReadForward`; memory exhaustion except where a fault, or an empty pool, says so.
* The buffer pool has one user, a receive thread that takes one buffer and keeps
  it: `ThreadStart` of `AgentService` is all of it.

Places in the code that the models pass through but no property is about, beyond
the hazards of `PROJECT.json`:

* `NddsAgent.c:3161`: an event already taken off the queue when its cancellation
  is posted; the models give it every outcome (`RunTimeoutCancel`).
* `Agent.c:1478`: when a transport cannot listen `enable` closes every transport,
  also those that never started a thread.
* `AgentIntf.c:382`: the client is never deleted when the reply to DELETE fails.
* `NddsAgentDb.c:784`: a new record can be found before it is locked; opening a
  session is one step of the models.
* `NddsAgentIntf.c:1088`: `return_loan` keeps `dds_sn`, which nothing assigns; the
  model takes any number, so nothing is claimed of a read that starts after the
  last sample returned.
* `NddsClientSession.c:325`: a finite reliable read counts the samples that came
  back, so more than its maximum may be sent.
* `NddsAgent.c:2473`: samples other sessions pass while a repeated read waits for
  its cancellation are gone; `NoSampleLost` counts from the new request.
* `AgentTransportSerial.c:114`: with an infinite receive timeout a serial thread
  notices shutdown only with the next frame (`Polling` leaves it out).
* `Agent.c:2334`: a WRITE in a format that is not implemented is confirmed;
  `AnswersTrue` names it as its exception.
* `NddsAgent.c:3763`: the record of a topic that went with its endpoint keeps its
  pointer.
* `NddsAgent.c:2883`: shutdown depends on the order of the resources table.
* `AgentIntf.c:113`: a heartbeat event of a client that was freed; `RunHeartbeat` gives
  it every outcome.
* `AgentIntf.c:246`: the mapping of a locator is stored before the reply to its
  CREATE_CLIENT fails; `RoutesToLatest` leaves the case out.
* `NddsAgent.c:1318`: automatic attachment does not leave out a record whose deletion is
  pending, and so postpones the deletion (`Skipped`).
* `NddsAgent.c:4813`: a CREATE by XML for which a record is found fails and leaves the
  entity it has just made (`CreateLeaves`).
* `AgentTransportUdpv4.c:478`: the discovery thread, which `nanoagentd` does not enable,
  ends with the same semaphore as the receive thread.
