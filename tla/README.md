# Telegram Desktop: formal models of the client's core protocols

Telegram Desktop (`src/Telegram/SourceFiles`) is a client of a server it cannot
trust the network to reach: pushes are lost, answers are late, sessions are
forgotten, requests are refused by the wrong data centre, files are written
while the process may die, and several threads share the work. This directory
holds TLA+ models of the parts of the client that make up for that, the TLC
runs that check small instances of them, and TLAPS proofs for all instances.
Paths below are relative to `src/Telegram/SourceFiles`.

## 1. Inventory

| Part | State it keeps | Operations | Why it is hard |
|---|---|---|---|
| **PtsWaiter** (`data/data_pts_waiter.*`), one per channel and one for the account | `_good`, `_last`, `_count`, the queue of postponed updates, `_requesting`, two reasons to wait | `init`, `updated`, `updateAndApply`, `check`, `applySkippedUpdates`, `setRequesting`, `setWaitingFor…` | updates arrive reordered; it compares sums, not intervals; `setRequesting` drops what was already counted |
| **Channel updates** (`api/api_updates.*`, `data/data_channel.h`) | the waiter of the channel, entries in `_whenGetDiffByPts` and `_whenGetDiffAfterFail`, `_activeChats` | pushes, pts named by RPC answers, `updateChannelTooLong`, `getChannelDifference` and its answers and errors, two timers, opening and closing a chat | pushes are dropped while a difference is requested; the answer may be older than the pushes dropped; retries; polling |
| **Common updates** (`api/api_updates.*`) | the account's waiter, `_updatesSeq`, `_bySeqUpdates` and its timer, `_byMinChannelTimer`, the failure timer | `applyUpdates`, `feedUpdate`, `setState`, `getState`, `getDifference`, new server session | two numberings in step; a loop over a map that the loop's body may clear; results bypass the drop |
| **Received ids** (`mtproto/details/mtproto_received_ids_manager.*`, `mtproto/session_private.cpp`) | the ids of the last messages, `_needSessionReset` | `registerMsgId`, `shrink`, `clear`, containers | bounded memory against unbounded repetition |
| **MTProto session** (`mtproto/session*.{h,cpp}`) | requests to send, sent, received; acknowledged ids; containers; states to ask for; the connection | send, answer, ack, resend, cancel, delay, reconnect, new session, states of messages | two threads and several locks between which a request is in no map; bounded memory of acks |
| **MTP instance, data centres** (`mtproto/mtp_instance.cpp`) | the registration of requests, delayed and dependent requests, requests waiting for an authorization | send, cancel, migrate, export and import the authorization, flood waits, `MSG_WAIT` | requests that wait for each other; the main data centre may change under them |
| **Histories** (`data/data_histories.*`) | per chat: sent and postponed requests, read positions, entries asked for | `sendRequest`, `finishSentRequest`, `cancelRequest`, `readInboxTill`, `requestDialogEntry`, deletions | requests of several kinds exclude each other; callbacks re-enter; one timer for all chats |
| **Local storage** (`storage/storage_account.*`, `storage/details/storage_file_utilities.*`) | the map of an account, files, `WriteManager` and its queue, the timer of the map | `writeDrafts`, `readDrafts…`, `writeMap`, `start`, `~Account`, `clearLegacyFiles`, `writeNow` | two threads; entries that overtake each other; file operations that fail; a process that dies between them |
| **Streaming reader** (`media/streaming/*`, `storage/streamed_file_downloader.cpp`) | slices, queues between threads, atomic pointers to the semaphore, loader, downloader | `fill`, waiting, sleeping, `stopStreaming`, requests of a downloader | three threads without a common lock; wake-ups; two users of one loader |
| Uploads, downloads (`storage/file_upload.cpp`, `storage/download_manager_mtproto.cpp`) | windows of parts in flight, per-session balances | request, answer, fail, cancel | windows, retries; not modelled |
| Sparse id lists (`storage/storage_sparse_ids_list.cpp`) | slices of known message ids | add slice, add new, remove, query | interval merging; not modelled |
| Calls, data model, interface, crypto, transports | | | not modelled, see section 7 |

How they interact: a caller hands a request to `MTP::Instance`, which registers
it and puts it into the session of a data centre (`RequestRouting`).
`SessionPrivate` (session thread) sends it, repeats it and hands its answer to
the main thread (`SessionRequests`); each message it has not seen is handled
once (`ReceivedIds`). Updates reach `Api::Updates::mtpUpdateReceived`, results
of requests reach their callbacks, many of which call `ApiWrap::applyUpdates`
or name a pts (`ptsReceived`, `applyAffectedMessages`). `Api::Updates` asks the
`PtsWaiter` of the account or of a channel whether an update may be applied
now; the waiter calls back into `Api::Updates` to apply updates and to arm
timers; the timers request differences; their answers reset the waiter.
`Histories` and the loaders send their requests through the same instance. A
streaming `Reader` asks the loader for parts, and may share it with a
downloader. Drafts are written by the main thread through `Storage::Account`
and the thread of `WriteManager`.

What makes the parts correct:

* waiters: the reported pts never passes an event that was not applied; a
  postponed update is applied or fetched some day;
* updates: a gap, a failure, a new session or a silent server never leaves the
  client behind for ever; dropped updates come back with a difference;
* received ids: a message is handled at most once, in bounded memory;
* session: a request is in some map or on its way between two, its handler is
  called at most once, never after a cancellation, and it is answered some day;
* instance: a registered request is in exactly one place, what waits for
  another request comes after it, and every request is answered;
* histories: no history request runs next to a deletion of the same chat, every
  postponed request runs in the end and every entry somebody waits for arrives,
  except in a chat that `channels.deleteChannel` was called for, whose handlers
  never finish the request (`data_histories.cpp:705`); no read position is lost;
* storage: what was written is what a restart finds, whenever the process dies;
* streaming: one thread at a time owns the reader, no wake-up is lost, a read
  that does not fail ends and a downloader gets its parts, except those that an
  earlier downloader had asked for.

## 2. Modules

| Module | What it is |
|---|---|
| `PtsWaiter` | the class as operators: a waiter is a record of its members, a method maps the record before the call to the one after it; separate operators say what is applied and what the call returns |
| `EventLog` | abstract specification of a box of updates: a log, what is known of it, a reported position |
| `ChannelDifference` | state machine of one channel around its waiter; implements `EventLog` |
| `CommonUpdates` | state machine of the account's box with seq and pts; implements `EventLog` |
| `ReceivedIds` | which messages of a session are handled |
| `RpcService` | abstract specification of what `Instance::send` promises |
| `SessionRequests` | a request between the main thread, the session's thread and the server; implements `RpcService` |
| `RequestRouting` | a request between data centres; its sessions are boxes that answer once, as `RpcService` says |
| `Histories` | the requests, entries and read positions of chats |
| `DraftStorage` | drafts, the map and the writing thread over a disk that outlives the process |
| `StreamingReader` | `Reader` between the streaming thread, the main thread and the cache |
| `MC…` | instances for TLC |
| `ChannelDifferenceProofs`, `CommonUpdatesProofs`, `ReceivedIdsProofs`, `SessionRequestsProofs`, `DraftStorageProofs`, `StreamingReaderProofs`, `RequestRoutingProofs`, `HistoriesProofs` | theorems |

Operators and actions have the names of the methods they model. An operator
with a comment "A plausible slip" is a variant of the one that follows it, with
a mistake somebody could make; each property is known to be violated by such a
variant, which shows that the runs reach the situation it is about.

### PtsWaiter

`_good`, `_last`, `_count`, `_requesting`, `_waitingForSkipped` and
`_waitingForShortPoll` are the fields `good`, `last`, `count`, `requesting`,
`skipped`, `shortPoll`. The three maps of postponed updates are the set
`queue`: they are always cleared together and applied together, and their
order does not matter to what is known. `timer` is the entry for this box in
the owner's timer map, which only `ptsWaiterStartTimerFor` changes; an armed
timer may fire at any time. `_applySkippedLevel` only makes calls from inside
`applySkippedUpdates` return early and is zero between handlers.

### ChannelDifference

The events of the channel are 1, 2, 3, …, the values of its pts; an update with
pts `p` and count `c` stands for the events `p-c+1 .. p`. `box` is the waiter,
`diff` the request that is outstanding and what became of it, `net` the
messages in flight. Two history variables record what `_last` and `_count`
cannot show: `known` (events applied) and `counted` (events counted since
`_good` last moved).

| Action | Code |
|---|---|
| `feedChannelUpdate` | the five pts-carrying channel updates in `feedUpdate` |
| `applyAffected`, `ptsReceived` | results that name a pts with and without a count |
| `updateChannelTooLong` | the update of that name |
| `channelDifferenceDone`, `channelDifferenceFail` | callbacks of the request |
| `getDifferenceByPts`, `getDifferenceAfterFail` | the two timers, channel half |
| `openChat`, `closeChat`, `deleteHistory` | `addActiveChat`, `ApiWrap::deleteHistory` |
| `ServerPost`, `ServerMention`, `ServerAnswer`, `Lose` | environment |

A handler runs to its end on the main thread, so it is one action. The answer
is computed (`ServerAnswer`) and handled (`channelDifferenceDone`) in two
steps, and the server may post between them. A `tooLong` answer makes the
history reload, so everything up to its pts counts as known; the kind
`tooLongNoPts` is one whose dialog has no pts, which leaves the waiter as it is.

### CommonUpdates

`st` is the `Updates` object, `net` the messages, `serverPts` and `serverSeq`
the server. A container holds at most one update here, enough to make each
branch of `feedUpdate` happen in the middle of `setState`. The loop of
`setState` over `_bySeqUpdates` is `drain`: one `turn` for every container that
waits, each at the `front` of what is left of the map then, so that one which a
nested `getDifference` has cleared is not seen again.
`via` tells pushes, which `mtpUpdateReceived` drops during a request, from
results, which `ApiWrap::applyUpdates` passes on. `ServerNewSession` loses the
pushes in flight, makes the transport repeat the unanswered request and sends
the notice. `differenceUnhandled` is an answer nobody handles: an error of
`getState`, or `updates.differenceTooLong`, which is only logged.

### ReceivedIds

`ids` is the key set of `_idsNeedAck`. A packet is a message or a container; an
action is one iteration of the loop over the messages of a packet or of the
loop in `shrink`, on the only thread that touches the manager. Any packet may
arrive at any time, so repetition, reordering and regrouping are included. A
handler may fail in the middle of a container and abandon the rest of it.

### RpcService and SessionRequests

`RpcService` is the promise of `Instance::send`: the handler of a request is
called at most once, with an answer of the server to this request, and not
after the request was cancelled. A request may be carried out more than once.

`SessionRequests` keeps what belongs to whom apart: `main` is
`Instance::Private` (delays, the call of `cancel` and the msg_id it has read),
`data` is `SessionData` (`_toSend`, `_haveSent`, `_receivedMessages`), `priv`
is `SessionPrivate` with its timers, containers, acknowledged ids and the steps
in which it has left one lock and not taken the next, `server` is the server
and the connection. `owner` (the request of a msg_id), `status` and `executed`
are what a caller and the server know. A msg_id belongs to one request for
ever, so the maps of the code from msg_ids to requests are sets of msg_ids.

| Actions | Code |
|---|---|
| `send`, `cancel`, `cancelToSend`, `cancelHaveSent`, `processCallback`, `checkDelayedRequests` | `Instance::Private`, `Session` on the main thread |
| `tryToSendNothing`, `sendSingle`, `sentSingle`, `sendContainer`, `sendStates`, `checkSentRequests`, `clearOldContainers`, `resend` | `SessionPrivate::tryToSend` and what it calls, cut where locks change |
| `handleAck`, `rpcResult`, `handleMsgsStates`, `newSessionCreated`, `badMessage`, `fatalMessage`, `resetSession` | `handleReceived` and `handleOneReceived` |
| `connectToServer`, `receivePacket`, `receivePing`, `loseConnection`, `forgetSession`, `refusePacket` | the connection and the server |

A request has two steps in which it is in neither `_toSend` nor `_haveSent`;
the main thread may cancel it there. Messages of the session itself have no
msg_id, `first_msg_id` of a new session is the msg_id of a packet, and the
requests of a container that is cut keep the ids they had.

### RequestRouting

`inst` has the members of `Instance::Private` that say where a request is:
`requestsByDc` (negative for "whichever is the main one"), `delayed`,
`dependent` and `authWaiters`; `sessions` are the sessions of the data centres.
An action is a handler: `sendRequest`, `cancel`, `handled` (the answer), one
per kind of error (`migrate` for `*_MIGRATE_*`, `temporaryError` for flood
waits and the like, `unauthorized` for 401, `msgWait` for `MSG_WAIT_*`),
`checkDelayedRequests`, `exportDone`, `importDone` and their failures. A session
answers a request once (`RpcService`). `orphans` are requests that
`setMainDcId` or `exportFail` gave up: the code keeps them registered and
forgets them, which `OnePlace` and `Answered` except and the hazards list.

Left out: shifts of data centres, the lengths of delays, `FILE_ID_INVALID`,
errors after which a request is sent again unchanged. Only requests of the
program migrate, and a former main data centre does not answer 401.

### Histories

`chat[c]` is the `State` of a chat with what `History` knows: requests `sent`
and `postponed` with their types and ranges, `willReadTill`, `willReadWhen`,
`sentReadTill`, `sentReadDone`, the flags of entries. `posted` is the call of
`sendDialogRequests` that waits on the main loop, `timer` the timer of reads,
`asked` the requests for entries, `server` what the server holds of the chats.
A callback that finishes a request runs everything it sets off in one action:
`finishSentRequest`, `sendReadRequests`, `postponeRequestDialogEntries`.

### DraftStorage

`account` (`_draftsMap`, `_draftsNotReadMap`, the flag, the posted callback and
the timer of the map), `manager` (`inbox`, `_scheduled` and the operation of
`writeNow` that comes next), `disk` (files with the slots `s` and `0`) and
`mode`. Each file operation of `writeNow` is an action and may fail, the
removals of the old plain and safe files included; the removals of `ClearKey`
and `clearLegacyFiles` always succeed here. The process may die between any two
operations, and `start` reads what is there. `kept` is the
history of texts each chat may find after a restart: from the last write that
has reached the disk on. `spoiled` marks the one way in which the code gives up
its guarantee: a plain file that is opened over the only copy or renamed though
it was cut short. Keys come from a bounded pool in which a dead key is used
again, as a random key may be. Cursors, the slot `1` and the other files are
left out: they are written and read by the same functions.

### StreamingReader

`reader` is the data without a lock (`_slices`, `_loadingOffsets`,
`_streamingError`, the downloader's offsets), `mail` the thread-safe queues,
`flags` the atomic members (`_waiting`, `_sleeping`, the cache's `waiting`,
`_stopStreamingAsync`), `sem` the semaphore of `File::Context`. `thread.at`,
`cache` and `main.at` are places between two accesses to something shared;
`main.at = "idle"` means that the main thread may take the next event, of which
`posted` is the queue of `crl::on_main`. The file fits in its header, parts are
numbers and a read is of one part. `downloader.stale` are the parts for which
the reader still remembers a request or an acknowledgement of an earlier
downloader (see the hazards).

## 3. Runs

| Run | Checks | Bounds |
|---|---|---|
| `channel` | `NoSilentLoss`, `PostponedIsKept`, `ImplementsEventLog`, `QueuedIsApplied`, `OpenChatCatchesUp` | 3 events, updates of up to 2, 2 messages in flight, all answers, failures |
| `channel_fail` | finding: `FailedIsRetried` | 2 events |
| `common` | `NoSilentLoss`, `NoSkippedContainer`, `ImplementsEventLog`, `GapIsWatched`, `FailedIsRetried`, `LostIsFetched`, `QueuedIsApplied`, `ContainerIsApplied` | up to 3 events and 3 containers, 4 together, 2 messages in flight, every answer |
| `common_stranded` | finding: `WaitForSkippedEnds` | 1 event, 3 containers, 2 messages in flight, no failures |
| `received_ids` | `HandledOnce`, `ResetIsJustified` | 6 ids, buffer of 3, containers of up to 3 |
| `session` | `NothingIsLost`, `ToSendIsWoken`, `OncePerSession`, `ImplementsRpc`, `Answered` | 2 requests, 12 msg_ids, one fault of any kind |
| `session_lost` | finding: `NothingIsLost` | 2 requests, a buffer of one acknowledged id |
| `routing` | `OnePlace`, `WaitsInOrder`, `Answered` | 3 requests, 2 data centres, 3 errors |
| `histories_requests` | `NoHistoryDuringDeletion`, `EntryIsOnItsWay`, `PostponedRuns`, `EntryArrives` | 3 requests of one chat, entries of two chats in one batch |
| `histories_reads` | `ReadAssertions`, `SentReadIsTracked`, `ReadIsNotLost`, `ReadReachesServer` | 3 messages, 2 requests, another device |
| `storage` | `WrittenIsKept`, `QuitKeepsAll`, `ReadsAreQuiet`, `DraftsReachDisk` | 2 chats, 3 writes, 2 failing operations, 2 ends of the process |
| `streaming` | `PartsAreNew`, `OneOwner`, `BlockedIsWoken`, `ReadEnds`, `DownloadGetsParts` | 2 parts, any 3 of: 2 starts, a pause, 2 downloads, a failure |

Why the bounds suffice to see the interesting cases:

* a gap needs an applied event, a missing one and a later one; closing it in
  two ways (the late update, or the difference) needs two messages in flight;
  an update of two events makes sums agree that a naive count would confuse;
* the account starts with event and container 1. A container that waits behind
  a gap, as a push or as a result, needs container 3, and the loop of `setState`
  finds a gap when an answer brings a seq below it. A result may carry a seq, so
  containers are queued while a difference is requested, too. A second gap
  behind a container that the loop has drained needs container 4, which is
  beyond the run and covered by the proofs;
* the id buffer must overflow inside one container and meet ids older than the
  whole buffer, which six ids and a buffer of three allow;
* in a session one fault at a time is enough for every pair of "where the
  request is" and "what goes wrong"; two requests make a container, and with
  `ContainerSize = 1` one that is cut. 12 msg_ids are more than any behaviour
  with one fault uses up, and `IdsBufferSize = 12` is the case in which the
  buffer is not full (the other one is `session_lost`);
* three requests make a chain of dependent requests, three errors take a
  request through a delay, a migration and an authorization;
* two chats are needed for a batch of entries and for the second key of a map;
  three writes of drafts make an entry replace a waiting one behind a removal;
* two starts let a call of the first thread meet the second one, two
  downloaders let requests of the first meet the second.

The `MC` modules narrow the environment only, never what the program does by
itself: `MCCommonUpdates` counts events and containers together, sends events
inside of containers once these are numbered, and `updatesTooLong` and updates
of unknown channels before everything else, `MCSessionRequests` to one request that may be disturbed or a
second one after it, `MCRequestRouting` to requests in the order of their ids,
`MCHistories` to one active chat beside which the other asks for its entry,
`MCDraftStorage` to a second chat that is written at most once,
`MCStreamingReader` to three events of user and server. Where a proof exists it
removes the bounds.

Deadlock checking is off where the system may rest: all requests answered and
all bounds used up. The liveness properties say that it rests only there.

### Fairness

Each module states what it assumes next to `Fairness`, and why.

* Updates: armed timers fire, the server's answer to a request is eventually
  computed and handled, and, for the account, the notice of a new session is
  delivered: `base::Timer` and the session's retransmission provide this.
  `ServerAnswer` and `differenceDone` of `CommonUpdates` are strongly fair
  because a new session or an error may intervene again and again: a request
  that is made infinitely often is answered some day. Nothing is assumed of
  pushes, of the user or of when the server has news.
* Session: both threads go on, a connection is tried until there is one, the
  server reads what reaches it and answers. Timers that only speed things up,
  cancellations and faults are not forced. Faults are bounded, so the
  connection is good in the end.
* Routing: each session answers or fails each request it has (what `Answered`
  of `SessionRequests` promises) and the delays end.
* Histories: timers fire, posted calls run, requests that are not cancelled are
  answered or failed.
* Storage: the writing thread goes on, the timer or callback of the map fires,
  and `stop` ends. Nothing makes the process die, quit or start.
* Streaming: a thread that has begun something goes on, the main thread comes
  to every event, and the server answers requests. Nothing makes the player
  read, pause, seek or stop.

`OpenChatCatchesUp` is conditional on the chat staying open and polled:
`ApiWrap::deleteHistory` stops the polling of a channel that is being left.
`DownloadGetsParts` is conditional on the streaming thread sleeping or ending
now and then: a thread that reads all the time never looks at the requests.

## 4. Findings

* `channel_fail`: the retry of a failed `getChannelDifference` is swallowed.
  `getDifferenceAfterFail` (`api/api_updates.cpp:657`) calls
  `getChannelDifference`, which returns at line 705 because nobody has cleared
  the channel's `_requesting`; for the account line 645 clears it first
  (`common` shows that this half works). From then on every update of the
  channel is dropped.
* `common_stranded`: the header promises a "1s wait for skipped seq or pts in
  updates" (`data/data_pts_waiter.h:23`). A numbered container that is the
  result of a request is queued although a difference is requested
  (`ApiWrap::applyUpdates` does not drop it). If `_bySeqTimer` fires before the
  answer comes, `getDifference` returns early (`api/api_updates.cpp:671`), and an
  answer with the seq the client already has does not look at the queue (line
  349). Nothing watches the container any more: the run shows it waiting with no
  request out and nothing in flight, until the server happens to send another
  numbered container or something that leads to a difference.
  `ContainerIsApplied` excepts this case, and `GapIsWatched` says that there is
  no other in which a queue loses its timer.
* `session_lost`: `requestsAcked` (`mtproto/session_private.cpp:2177`) puts the
  msg_id of an answered request into `_ackedIds` and then trims that map from
  its lowest ids, before `handleOneReceived` looks the request up in it. If the
  request is older than a full buffer of acknowledged ids, its own entry goes,
  and its answer is dropped. `NoLoss` proves that this is the only way to lose
  one: nothing is lost while the buffer has room for every msg_id.

Other things the models show that no text of the repository speaks of are
listed as hazards, with a note: `updates.differenceTooLong` and an error of
`getState`, after which the account drops every push (`LostIsFetched`,
`QueuedIsApplied` and `ContainerIsApplied` except it as `Deaf`), postponed
requests and entries of a chat whose `channels.deleteChannel` never finishes, a
gap learnt from an RPC answer whose wait is cancelled in the same call, a
failure in the first look of `Reader::fill` that leaves the reading thread
asleep, requests and acknowledgements of one downloader that swallow those of
the next, requests given up by a migration.

## 5. Proofs

`ChannelDifferenceProofs` proves for every value of the constants that the
specification of a channel keeps `TypeOK`, `NoSilentLoss`,
`PostponedIsKept` and `QueuedIsTimed` (while updates wait, the timer is armed;
the only property here that no run repeats), and implements `EventLog`. The
argument is the invariant `Inductive` of `ChannelDifference`, needed because `_last = _count` is a
statement about two sums:

* `Accounting`: `_count` is `_good` plus the number of distinct events counted,
  and all of these lie between `_good` and `_last`. If the sums agree, the
  interval is full (`CheckCounts`, which rests on the cardinality of an
  interval).
* `CarriedOnce`: no message in flight stands for an event that was counted, and
  no two stand for the same one. This is where delivery at most once is used.
* `AtEnds`: every pts the client meets is the end of an update, so no update
  straddles `_good` or the pts of an answer.
* `DiffAgrees`: a request was made from the current `_good`, and its answer
  does not lag behind it; while it is outstanding the queue is empty.
* `Fresh`: before the first pts the waiter is empty.

The lemmas follow the calls: what `check` does to the counts, what
`updateAndApply` applies or keeps, then one lemma for the delivery of a message
(`Deliver`), one for a request, one for an answer, one for each step of the
server, and `InductiveStep` with a case per action. `ImplementsLog` adds that
`known` only grows and maps `ServerPost` to `Append` and every other step to
`Learn`.

`CommonUpdatesProofs` proves, for any number of events, containers and messages
in flight, that neither `_good` nor `_updatesSeq` passes anything that was not
applied (`NothingLostSilently`, `NoContainerSkipped`) and that the account's box
implements `EventLog` as well. Here a handler is a composition of operators on
the object, and an update may be applied in the middle of another call, so the
invariant `Good` speaks of any object `s`, with the events that are on their way
to it outside of `_bySeqUpdates`, and every operator has a lemma which says that
it keeps `s` good and only moves it forward (`Reaches`). There is no history
variable for what `_count` has counted; `Good` says that there is such a set:
`_count` is exact for it (`Exact`), none of it is on its way once more, and while
no difference is requested each of its events is applied or queued. The
containers that wait have events of their own (`Waiting`), the flag of the waiter
stands for a request (`Requesting`), and the answer to it is one to the current
`_good` (`Answering`). The loop `drain` needs no induction theorem: were it not
good after some number of turns, there would be a least such number (`Least`,
from well-foundedness), and the turn before it contradicts it (`TurnsStay`).
`GapWatched` proves `GapIsWatched` with the same two steps: an object whose
waiting containers have a timer (`Watched`) keeps it through every operator
(`StayWatched`, `TimersStayWatched`), the loop included, and `Good` gives the
types this needs.

The assumption made on the environment, at most once delivery, is what
`ReceivedIds` is about: `MessageHandledOnce` proves it for every buffer size,
from the invariant `ForgottenIsOlder` (an id that was handled and forgotten is
older than every remembered one, and the buffer is then full).
`BufferCorrect` bounds the buffer and shows that a session is reset over an old
id only when the buffer is full.

`SessionRequestsProofs` proves, for any requests, container sizes and bounds,
that the session implements `RpcService` (`Implements`), that something is
always about to call `tryToSend` while requests wait (`ToSendWoken`), and that
no request is lost (`NoLoss`) under the assumption `IdsBufferSize >= MaxId`,
without which `session_lost` refutes it. The invariant `Inductive` is
`TypeOK /\ Owned /\ Justified`: a msg_id that is anywhere in the system was
given to a request, and what the server has been told, has answered or the
client has received was asked for. `NoLoss` strengthens it with where each
outstanding request is, one place per lock that the thread has left. `OneMessage` proves
`OncePerSession`, that a request sent again is the same message for the server's
session, from `SameMessage`: before the session's first message the server
knows nothing; a request that may get a msg_id without a look at its old one
has none or is settled; and what the server has, or will get, of a request that
is not settled is the message with the request's current msg_id.

`DraftStorageProofs` proves `ReadsAreQuiet` and that no two chats share a file
in memory, in an entry on its way or in any map a restart may read
(`DistinctKeys`), for any chats and bounds. The invariant `IInv` joins the keys
in memory with those of every map on the way to the disk (`MapOnDisk`), says
that a chat whose drafts were not read has no entry waiting (`Quiet`), and what
is left while the process is down (`Down`).

`NothingWrittenIsLost` proves `WrittenIsKept`. A start combines one map with one
drafts file, each of which may be ahead of the other, so the invariant `KeptInv`
speaks of all of them: `Line` is everything on its way to the disk in the order
in which it will get there (the entry that is written, those that wait, those
that are posted, and at the end the map in memory), and `Places` are the
contents a file has and will have. `Sound` says of a chat that every text that
some map on the line and some content of its file would give is still in the
history (`Held`), that texts under two different keys are separated in the
history by an empty draft (`Separate`), that a key which was given up does not
come back (`NoReturn`) and that the texts of one file come in the order in which
they were given (`Rising`). The last three are what lets `settled()` cut the
history at the text of a write that is over: what the other maps and contents
give lies behind the cut (`CutSound`). `Own` and `Unread` keep the chats apart;
`Staged` says what the file of the entry has between two operations of
`writeNow()`, `Queued` that no two entries wait for one file, `Cleaning` that
`clearLegacyFiles()` spares the files of chats. Steps of the manager and of
`writeMap()` only pass contents on: there is a monotone map from the places
after the step to those before it (`Passes`), and what has one stays sound
(`LaterSound`). `Found` draws the conclusion from the first place of the line.

`OrderlyEndKeepsAll` proves `QuitKeepsAll`, from the other end of the same
queues. `Newest` is the last content a file will get, and `Finished` says that
the newest text of a chat is what was given last, under the key that the newest
map has for it, unless `_mapChanged` says that this map is still to be written;
`Stopped` that `~Account()` leaves nothing to be written. When nothing waits any
more the newest contents are those on the disk (`FinishedIsKept`).

`StreamingReaderProofs` proves the three invariants of `StreamingReader`, for
any number of parts and events. `OneOwner` needs to know who stops a thread:
from the join on, the thread is over and what it had asked for is forgotten
(`Owned`). `PartsAreNew` needs that the cache answers once and that nothing is
loaded before (`Expected`). `BlockedIsWoken` is inductive once it also speaks of
the thread that has said that it will wait and has not looked again, or sleeps
with a look at the requests before it (`Announced`): a flag that is down there
has left a count in the semaphore. `Handled` says what an event may do to the
data on the main thread; each handler is shown to do no more.

`RequestRoutingProofs` proves `OnePlace` and `WaitsInOrder` for any requests,
data centres and errors. `IInv` gives every request its place (`Placed`, or
`Gone` once it is over) and says of an authorization that its export is over
before its import begins and that somebody waits for it (`Authorizing`);
without the latter a failed export could give up a request that is elsewhere.
`waitFor`, a search through chains of dependent requests in the code, is the
least set that is closed under what one request waits for, so that nothing has
to be unrolled; `WaitForWaits` says what it adds to the chains.

`HistoriesProofs` proves the five invariants of `Histories` and that the
numbers of requests stay in their type, although queued reads and answered
entries send requests that nobody asked for. A handler there is a composition
of operators from the state of a chat to the next one, so there is one lemma
for each operator and what it leaves alone, and the handlers follow from these.
`IInv` says, beside the types and the properties themselves, that a number is
left for every request that is still due (`need`), that what is queued lies
above what is sent and that above everything else that is out, all within what
the server has, and that a position which is sent or waits for an entry is
tracked. That a number is free when one is needed is a fact about
cardinalities.

Only the assumptions named in the modules are used (the constants are naturals,
sets of the right kind, a buffer of at least one id), and `IdsBufferSize >=
MaxId` where it is stated.

Only model-checked: all liveness properties and everything that depends on
fairness (the prover does not handle `ENABLED`). Every other property of the
passing runs, the invariants, the action properties and the three refinements,
is a theorem.

## 6. Plan

Done: the update boxes, received ids, the session, routing, histories, drafts,
the streaming reader, the two abstract specifications.

What would come next:

1. `SharedTimers`: two channels over the timer maps of `Api::Updates`, for the
   inline firing of other channels' timers.
2. Slices in `StreamingReader`: files that do not fit in their header, with the
   cache's slices, unloading and `cancelLoadInRange`.
3. `Downloads`: the request windows of `DownloadManagerMtproto`, composed with
   the loader of `StreamingReader`.
4. `SparseIds`: slice merging as recursive functions against the set of ids it
   stands for.
5. `KeyCreation`: the creation of keys shared by the sessions of a data centre.
6. Proofs: the at-most-once assumption of `ChannelDifference` discharged from
   `ReceivedIds`.

## 7. Not modelled, and why

* The content of updates: the models record that an event was applied, not what
  it does to chats and messages.
* Of the unread count of a chat, more than whether it is known: that
  `History::setUnreadCount` also moves the read position when the new count is
  0 or 1 is left out, as are chats whose unread messages are not tracked
  (`trackUnreadMessages`).
* In the session: the mark of a started session when `tryToSend` has nothing to
  send (`session_private.cpp:588`), and what follows a correction of the time:
  a request whose id lies above the last one of the session
  (`session_private.cpp:458`) gets a new one, and most of a packet with a bad
  time is ignored until the clock is set.
* `ptsWaiterStartTimerFor` firing a due timer from inside `check`
  (`api_updates.cpp:553`): what is due then are the timers of other boxes, and
  each model has one.
* `_updatesQts` and `_updatesDate`: they are stored and sent back; no decision
  of the client depends on them.
* Lengths of timers: any order of firing is allowed instead, which includes the
  real ones.
* More than one channel at a time (plan, 1), and
  `requestChannelRangeDifference`, which refreshes history and does not touch
  the waiter.
* The session's keys, salts and the encoding of packets; drafts in the cloud
  (`saveDraftsToCloud`), uploads, the windows of downloads, sparse id lists.
* Settings, stickers, locations and the other files of an account: the same
  functions write them, without the reading that the map needs.
* Calls (their engine is a submodule without sources here), the data model,
  the interface, crypto and sockets: I/O and presentation, which are most of
  the repository's lines, or out of a model checker's reach.
* Widths of integers: pts, seq and ids grow by server events and would take
  years to overflow 31 bits.
