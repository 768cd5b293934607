---------------------------- MODULE StreamingReader ----------------------------
(***************************************************************************)
(* Media::Streaming::Reader (media/streaming/media_streaming_reader.cpp)   *)
(* between three threads: the streaming thread of File::Context            *)
(* (media_streaming_file.cpp), which reads a file part by part and sleeps; *)
(* the main thread, which starts and stops it, runs the loader and a       *)
(* StreamedFileDownloader that wants the same parts; and the thread of the *)
(* cache, which answers once.                                              *)
(*                                                                         *)
(* The file fits in its header (IsFullInHeader), so there is one slice and *)
(* nothing is unloaded.  Offsets are the numbers of parts; a read is of    *)
(* one part.  A step of the streaming thread ends where it has touched     *)
(* something that another thread may change before it goes on.             *)
(***************************************************************************)
EXTENDS Integers, SequencesExt

CONSTANTS
    PartsCount,     \* parts of the file
    RequestsLimit,  \* kRequestPartsCount: parts a downloader asks for at a time
    MaxStarts,      \* bound: how often streaming is started
    MaxPauses,      \* bound: how often the player pauses reading
    MaxDownloads,   \* bound: downloaders, one after the other
    MaxFailures     \* bound: requests that fail

ASSUME StreamingAssumption ==
    /\ PartsCount \in Nat \ {0} /\ RequestsLimit \in Nat \ {0}
    /\ {MaxStarts, MaxPauses, MaxDownloads, MaxFailures} \subseteq Nat

VARIABLES
    reader,      \* what belongs to the streaming thread, or else to the main one
    mail,        \* the queues between them
    flags,       \* the atomic members
    sem,         \* the count of File::Context::_semaphore
    thread,      \* the streaming thread
    cache,       \* the thread of the cache
    main,        \* the main thread and the player on it
    posted,      \* crl::on_main()
    loader,      \* LoaderMtproto
    downloader   \* StreamedFileDownloader

vars == <<reader, mail, flags, sem, thread, cache, main, posted, loader, downloader>>

Parts == 0 .. PartsCount - 1
Failed == -1      \* LoadedPart::kFailedOffset
NoThread == {"none", "ended"}

Init ==
    /\ \E useCache \in BOOLEAN :
         /\ reader = [ cached |-> ~useCache, parts |-> {}, loading |-> {},
                       current |-> {}, error |-> FALSE, offsets |-> << >>, requested |-> {} ]
         /\ cache = IF useCache THEN "reading" ELSE "done"
    /\ mail = [ results |-> {}, loaded |-> {}, requests |-> << >>, acks |-> {} ]
    /\ flags = [ waiting |-> FALSE, cacheWaiting |-> FALSE,
                 sleeping |-> FALSE, stopAsync |-> FALSE ]
    /\ sem = 0
    /\ thread = [ at |-> "none", part |-> 0, interrupted |-> FALSE ]
    /\ main = [ at |-> "idle", next |-> "idle", part |-> 0, active |-> FALSE,
                readMore |-> TRUE, starts |-> 0, pauses |-> 0 ]
    /\ posted = << >>
    /\ loader = [ wanted |-> {}, dead |-> {} ]
    /\ downloader = [ attached |-> FALSE, saved |-> {}, next |-> 0,
                      count |-> 0, stale |-> {} ]

-----------------------------------------------------------------------------
(* What the reader does with its own data, on either thread.               *)

mutexFree == cache # "found"
goTo(place) == thread' = [thread EXCEPT !.at = place]
leaves(place) == thread' = [thread EXCEPT !.at = place, !.part = 0]
ascending(parts) == SetToSortSeq(parts, <)
loads(parts) == [i \in 1 .. Len(parts) |-> <<"load", parts[i]>>]

\* processCacheResults().
withCache(r) ==
    IF mail.results = {} \/ r.error THEN r
    ELSE [r EXCEPT !.cached = TRUE, !.parts = @ \cup UNION mail.results]

\* processLoadedParts(): those that come after a failure are dropped, with
\* those nobody waits for.
withParts(r) ==
    IF r.error THEN {r}
    ELSE {[r EXCEPT !.parts = @ \cup (got \cap r.loading),
                    !.loading = @ \ got,
                    !.current = @ \ got,
                    !.error = Failed \in mail.loaded] :
             got \in IF Failed \in mail.loaded
                     THEN SUBSET (mail.loaded \ {Failed}) ELSE {mail.loaded}}

taken(r) == [mail EXCEPT !.results = {}, !.loaded = IF r.error THEN @ ELSE {}]

\* checkForSomethingMoreReceived(), and what it returns.  A plausible slip is
\* to trust in the first check and wait.
neverMore == FALSE
somethingMore ==
    /\ ~reader.error
    /\ mail.results # {} \/ mail.loaded # {}
    /\ mail.results = {} => Failed \notin mail.loaded
checked == withParts(withCache(reader))

\* Slices::fill(): nothing before the cache has answered.  A plausible slip is
\* to load at once.
missingAtOnce(r, k) == {p \in Parts : p >= k /\ p \notin r.parts}
missing(r, k) == {p \in Parts : r.cached /\ p >= k /\ p \notin r.parts}

\* fillFromSlices(): checkLoadWillBeFirst(), and loadAtOffset() for each part
\* that is missing, which loads what is new or has an older priority.
sameOrder(r, parts) == r.current # {} /\ parts # {} /\ Min(r.current) = Min(parts)
fillFromSlices(r, k) ==
    \E parts \in {missing(r, k)} :
    \E kept \in {IF sameOrder(r, parts) THEN r.current ELSE {}} :
        /\ posted' = posted \o loads(ascending(parts \ kept))
        /\ reader' = [r EXCEPT !.loading = @ \cup parts,
                               !.current = IF parts = {} THEN @ ELSE kept \cup parts]
        /\ thread' = [thread EXCEPT
               !.part = k, !.at = IF r.cached /\ k \in r.parts THEN "clear" ELSE "arm"]

\* enqueueDownloaderOffsets(), checkForDownloaderChange(): only what comes
\* after an offset that was there before is compared.
changedAt(offsets, n) ==
    {i \in 1 .. Len(offsets) - 1 : i >= n /\ offsets[i + 1] <= offsets[i]}
enqueued(r, m) ==
    LET all == r.offsets \o m.requests
        changed == changedAt(all, Len(r.offsets))
    IN  [offsets |-> IF changed = {} THEN all
                     ELSE SubSeq(all, Min(changed) + 1, Len(all)),
         acks |-> IF changed = {} THEN m.acks ELSE {}]

\* checkForDownloaderReadyOffsets(): how many of the first ones are loaded.
readyCount(r, offsets) ==
    Max({n \in 0 .. Len(offsets) : \A i \in 1 .. n : offsets[i] \in r.parts})

\* The first half of processDownloaderRequests().
requestsTaken(r, offsets) ==
    [r EXCEPT !.offsets = SubSeq(offsets, readyCount(r, offsets) + 1, Len(offsets))]
readyPosted(r, offsets) ==
    [i \in 1 .. readyCount(r, offsets) |-> <<"part", offsets[i]>>]

\* The second half: pruneDoneDownloaderRequests(), sendDownloaderRequests().
kDownloaderRequestsLimit == 4
acksTaken(r, acks) ==
    [r EXCEPT !.requested = @ \ acks,
              !.offsets = FoldSet(LAMBDA p, s : IF Contains(s, p) THEN RemoveFirst(s, p) ELSE s,
                                  r.offsets, acks)]
toSend(r) ==
    {r.offsets[i] : i \in {i \in 1 .. Len(r.offsets) :
                              r.cached /\ i <= kDownloaderRequestsLimit}} \ r.requested
requestsSent(r) == [r EXCEPT !.requested = @ \cup toSend(r)]

-----------------------------------------------------------------------------
(* The streaming thread: File::Context.                                    *)

released(n) == IF thread.at = "none" THEN 0 ELSE n + 1
reading == thread.at \in {"arm", "recheck", "failed", "acquire", "clear"}

\* The beginning of Reader::fill().  A failure that is found here does not
\* release the semaphore that read() acquires next.
fill(k) ==
    /\ mutexFree
    /\ \E r \in checked :
         /\ mail' = taken(withCache(reader))
         /\ IF r.error
            THEN /\ reader' = r /\ thread' = [thread EXCEPT !.at = "acquire", !.part = k]
                 /\ UNCHANGED posted
            ELSE fillFromSlices(r, k)

\* File::Context::read(), after a seek to anywhere, and the loop in it.
read(k) ==
    /\ thread.at = "run" /\ ~thread.interrupted
    /\ fill(k)
    /\ UNCHANGED <<flags, sem, cache, main, loader, downloader>>

acquire ==
    /\ thread.at = "acquire" /\ sem > 0
    /\ sem' = sem - 1
    /\ IF thread.interrupted \/ reader.error
       THEN leaves("over") /\ UNCHANGED <<reader, mail, posted>>
       ELSE fill(thread.part)
    /\ UNCHANGED <<flags, cache, main, loader, downloader>>

\* startWaiting(): both sources of data may wake the thread.  A plausible
\* slip is to wait for the loader alone.
armedForLoader == [flags EXCEPT !.waiting = TRUE]
armed == [flags EXCEPT !.waiting = TRUE, !.cacheWaiting = TRUE]
startWaiting ==
    /\ thread.at = "arm"
    /\ flags' = armed
    /\ goTo("recheck")
    /\ UNCHANGED <<reader, mail, sem, cache, main, posted, loader, downloader>>

\* The condition of the loop in fill().
checkAgain ==
    /\ thread.at = "recheck" /\ mutexFree
    /\ \E r \in checked :
         /\ mail' = taken(withCache(reader))
         /\ IF somethingMore
            THEN fillFromSlices(r, thread.part)
            ELSE /\ reader' = r /\ goTo(IF r.error THEN "failed" ELSE "acquire")
                 /\ UNCHANGED posted
    /\ UNCHANGED <<flags, sem, cache, main, loader, downloader>>

\* done() and failed() in fill().
done ==
    /\ thread.at = "clear"
    /\ flags' = [flags EXCEPT !.waiting = FALSE, !.cacheWaiting = FALSE]
    /\ leaves("run")
    /\ UNCHANGED <<reader, mail, sem, cache, main, posted, loader, downloader>>
fillFailed ==
    /\ thread.at = "failed"
    /\ flags' = [flags EXCEPT !.waiting = FALSE, !.cacheWaiting = FALSE]
    /\ sem' = sem + 1
    /\ goTo("acquire")
    /\ UNCHANGED <<reader, mail, cache, main, posted, loader, downloader>>

\* processQueuedPackets() when the player has enough: startSleep(), which
\* calls processDownloaderRequests(), and the loop around it.
startSleep ==
    /\ \/ thread.at = "run" /\ ~thread.interrupted /\ ~main.readMore
       \/ thread.at = "sleep"
    /\ flags' = [flags EXCEPT !.sleeping = TRUE]
    /\ goTo("take")
    /\ UNCHANGED <<reader, mail, sem, cache, main, posted, loader, downloader>>

takeRequests ==
    /\ thread.at = "take" /\ mutexFree
    /\ \E r \in {withCache(reader)} : \E all \in {enqueued(r, mail)} :
         /\ reader' = requestsTaken(r, all.offsets)
         /\ posted' = posted \o readyPosted(r, all.offsets)
         /\ mail' = [mail EXCEPT !.results = {}, !.requests = << >>, !.acks = all.acks]
    /\ goTo("prune")
    /\ UNCHANGED <<flags, sem, cache, main, loader, downloader>>

pruneRequests ==
    /\ thread.at = "prune"
    /\ \E r \in {acksTaken(reader, mail.acks)} :
         /\ reader' = requestsSent(r)
         /\ posted' = posted \o loads(ascending(toSend(r)))
    /\ mail' = [mail EXCEPT !.acks = {}]
    /\ goTo("asleep")
    /\ UNCHANGED <<flags, sem, cache, main, loader, downloader>>

stopSleep ==
    /\ thread.at = "asleep" /\ sem > 0
    /\ sem' = sem - 1
    /\ flags' = [flags EXCEPT !.sleeping = FALSE]
    /\ goTo(IF thread.interrupted THEN "over"
            ELSE IF main.readMore THEN "run" ELSE "sleep")
    /\ UNCHANGED <<reader, mail, cache, main, posted, loader, downloader>>

\* The thread's function ends: all is read, it is interrupted or has failed.
ends ==
    /\ thread.at \in {"run", "over"}
    /\ goTo("ended")
    /\ IF thread.interrupted
       THEN UNCHANGED <<flags, posted>>
       ELSE /\ flags' = [flags EXCEPT !.stopAsync = TRUE]
            /\ posted' = Append(posted, <<"stop", 0>>)
    /\ UNCHANGED <<reader, mail, sem, cache, main, loader, downloader>>

-----------------------------------------------------------------------------
(* The thread of the cache: the callback of readFromCache(0).              *)

cacheRead ==
    /\ cache = "reading"
    /\ \E parts \in SUBSET Parts : mail' = [mail EXCEPT !.results = {parts}]
    /\ IF flags.cacheWaiting
       THEN cache' = "found" /\ UNCHANGED posted
       ELSE cache' = "done" /\ posted' = Append(posted, <<"cacheResults", 0>>)
    /\ UNCHANGED <<reader, flags, sem, thread, main, loader, downloader>>

cacheRelease ==
    /\ cache = "found"
    /\ flags' = [flags EXCEPT !.cacheWaiting = FALSE]
    /\ sem' = released(sem)
    /\ cache' = "done"
    /\ UNCHANGED <<reader, mail, thread, main, posted, loader, downloader>>

-----------------------------------------------------------------------------
(* The main thread.                                                        *)

at(place) == [main EXCEPT !.at = place]
backTo(place) == [main EXCEPT !.at = place, !.next = "idle"]
onMain == main.at = "idle"

\* processDownloaderRequests() on the main thread, whose queue is q.
processDownloaderRequests(r, m, q) ==
    /\ mutexFree
    /\ \E old \in {withCache(r)} : \E all \in {enqueued(old, m)} :
         \E new \in {acksTaken(requestsTaken(old, all.offsets), all.acks)} :
            /\ reader' = requestsSent(new)
            /\ posted' = q \o readyPosted(old, all.offsets) \o loads(ascending(toSend(new)))
    /\ mail' = [m EXCEPT !.results = {}, !.requests = << >>, !.acks = {}]

\* continueDownloaderFromMainThread(), after which the main thread is at next.
\* A plausible slip is to leave the requests to a streaming thread that sleeps.
leaveToThread(m, q, next) ==
    /\ main' = next
    /\ IF main.active THEN mail' = m /\ posted' = q /\ UNCHANGED reader
       ELSE processDownloaderRequests(reader, m, q)
continueDownloader(m, q, next) ==
    IF main.active
    THEN /\ main' = [next EXCEPT !.at = "wake", !.next = next.at]
         /\ mail' = m /\ posted' = q /\ UNCHANGED reader
    ELSE main' = next /\ processDownloaderRequests(reader, m, q)

\* wakeFromSleep().
wakeFromSleep ==
    /\ main.at = "wake"
    /\ main' = IF flags.sleeping THEN at("wakeSleeping") ELSE backTo(main.next)
    /\ UNCHANGED <<reader, mail, flags, sem, thread, cache, posted, loader, downloader>>
releaseSleeping ==
    /\ main.at = "wakeSleeping"
    /\ flags' = [flags EXCEPT !.sleeping = FALSE]
    /\ sem' = released(sem)
    /\ main' = backTo(main.next)
    /\ UNCHANGED <<reader, mail, thread, cache, posted, loader, downloader>>

\* StreamedFileDownloader::requestParts(): the next parts it has not saved.
asked(d) == {p \in Parts : p < d.next /\ p \notin d.saved}
nextParts(d) ==
    LET rest == ascending({p \in Parts : p >= d.next /\ p \notin d.saved})
        free == RequestsLimit - Cardinality(asked(d))
    IN  SubSeq(rest, 1, IF free < Len(rest) THEN free ELSE Len(rest))
requestParts(d) ==
    LET parts == nextParts(d)
        room == RequestsLimit > Cardinality(asked(d)) + Len(parts)
    IN  [d EXCEPT !.next = IF room THEN PartsCount
                           ELSE IF parts = << >> THEN @ ELSE Last(parts) + 1]

requestMore(d, m, q, next) ==
    /\ downloader' = requestParts(d)
    /\ \E new \in {[m EXCEPT !.requests = @ \o nextParts(d)]} : continueDownloader(new, q, next)

\* cancelForDownloader(), which also the destructor of a finished one calls.
detached(d, m) ==
    [d EXCEPT !.attached = FALSE, !.next = 0,
              !.stale = @ \cup reader.requested \cup Range(reader.offsets) \cup m.acks]

\* What partsForDownloader() fires comes to the downloader: savePart().
feed(p, q, next) ==
    IF ~downloader.attached \/ p \in downloader.saved
    THEN main' = next /\ posted' = q /\ UNCHANGED <<reader, mail, downloader>>
    ELSE \E d \in {IF p = Failed THEN downloader ELSE [downloader EXCEPT !.saved = @ \cup {p}]},
            m \in {IF p = Failed THEN mail ELSE [mail EXCEPT !.acks = @ \cup {p}]} :
            IF p = Failed \/ d.saved = Parts
            THEN /\ downloader' = detached(d, m)
                 /\ mail' = [m EXCEPT !.requests = << >>]
                 /\ main' = next /\ posted' = q /\ UNCHANGED reader
            ELSE requestMore(d, m, q, next)

\* The handler of Loader::parts() in the constructor: first the downloader,
\* then _loadedParts, then _waiting.
fired(p, q) == feed(p, q, [main EXCEPT !.at = "emplace", !.part = p])

emplace ==
    /\ main.at = "emplace"
    /\ mail' = [mail EXCEPT !.loaded = IF main.active THEN @ \cup {main.part} ELSE @]
    /\ main' = [main EXCEPT !.at = "signal", !.part = 0]
    /\ UNCHANGED <<reader, flags, sem, thread, cache, posted, loader, downloader>>
signal ==
    /\ main.at = "signal"
    /\ main' = at(IF flags.waiting THEN "signalled" ELSE "idle")
    /\ UNCHANGED <<reader, mail, flags, sem, thread, cache, posted, loader, downloader>>
releaseWaiting ==
    /\ main.at = "signalled"
    /\ flags' = [flags EXCEPT !.waiting = FALSE]
    /\ sem' = released(sem)
    /\ main' = at("idle")
    /\ UNCHANGED <<reader, mail, thread, cache, posted, loader, downloader>>

\* Answers of the server to the requests of the loader.  A request that fails
\* is never finished (partFailed()), so no other one is made for its part.
arrived(p) ==
    /\ onMain /\ p \in loader.wanted \ loader.dead
    /\ loader' = [loader EXCEPT !.wanted = @ \ {p}]
    /\ fired(p, posted)
    /\ UNCHANGED <<flags, sem, thread, cache>>
failed(p) ==
    /\ onMain /\ p \in loader.wanted \ loader.dead
    /\ Cardinality(loader.dead) < MaxFailures
    /\ loader' = [loader EXCEPT !.dead = @ \cup {p}]
    /\ fired(Failed, posted)
    /\ UNCHANGED <<flags, sem, thread, cache>>

\* LoaderMtproto::load(), on the main thread.
load(p, q) ==
    IF downloader.attached /\ p \in downloader.saved
    THEN /\ loader' = [wanted |-> loader.wanted \ {p}, dead |-> loader.dead \ {p}]
         /\ fired(p, q)
    ELSE /\ loader' = [loader EXCEPT !.wanted = @ \cup {p}]
         /\ posted' = q /\ UNCHANGED <<reader, mail, main, downloader>>

\* Reader::stopStreaming(): its first part, and the last one.  A plausible
\* slip is to forget that a thread had asked for it.
keptStopAsync == flags.stopAsync
clearedStopAsync == FALSE
stopWaiting(next) ==
    /\ flags' = [flags EXCEPT !.stopAsync = clearedStopAsync, !.waiting = FALSE]
    /\ main' = [main EXCEPT !.at = IF flags.cacheWaiting THEN "stopCache" ELSE "stopped",
                            !.next = next]
stopCacheWaiting ==
    /\ main.at = "stopCache" /\ mutexFree
    /\ flags' = [flags EXCEPT !.cacheWaiting = FALSE]
    /\ main' = at("stopped")
    /\ UNCHANGED <<reader, mail, sem, thread, cache, posted, loader, downloader>>
stopped ==
    /\ main.at = "stopped" /\ main.next \in {"stop", "async"}
    /\ main' = [main EXCEPT !.at = "idle", !.next = "idle", !.active = FALSE]
    /\ processDownloaderRequests([reader EXCEPT !.loading = {}, !.current = {}], mail, posted)
    /\ IF main.next = "stop"
       THEN goTo("none") /\ sem' = 0
       ELSE UNCHANGED <<thread, sem>>
    /\ UNCHANGED <<flags, cache, loader, downloader>>

\* The queue of the main thread.
runPosted ==
    /\ onMain /\ posted # << >>
    /\ LET kind == Head(posted)[1]
           p == Head(posted)[2]
           q == Tail(posted)
       IN  \/ /\ kind = "load" /\ load(p, q) /\ UNCHANGED flags
           \/ /\ kind = "part" /\ feed(p, q, main)
              /\ UNCHANGED <<flags, loader>>
           \/ /\ kind = "cacheResults" /\ continueDownloader(mail, q, main)
              /\ UNCHANGED <<flags, loader, downloader>>
           \/ /\ kind = "stop" /\ posted' = q
              /\ IF flags.stopAsync THEN stopWaiting("async") ELSE UNCHANGED <<flags, main>>
              /\ UNCHANGED <<reader, mail, loader, downloader>>
    /\ UNCHANGED <<sem, thread, cache>>

\* File::stop() up to the join, as such or at the beginning of File::start().
interrupt(next) ==
    /\ onMain
    /\ thread' = [thread EXCEPT !.interrupted = TRUE]
    /\ sem' = released(sem)
    /\ UNCHANGED <<reader, mail, flags, cache, posted, loader, downloader>>
    /\ main' = [main EXCEPT !.at = "join", !.next = next,
                            !.starts = IF next = "start" THEN @ + 1 ELSE @]
stop == thread.at # "none" /\ interrupt("stop")
restart == main.starts < MaxStarts /\ interrupt("start")
join ==
    /\ main.at = "join" /\ thread.at \in NoThread
    /\ stopWaiting(main.next)
    /\ UNCHANGED <<reader, mail, sem, thread, cache, posted, loader, downloader>>

\* The rest of File::start(): startStreaming(), a new Context and its thread.
started ==
    /\ main.at = "stopped" /\ main.next = "start"
    /\ main' = [main EXCEPT !.at = "idle", !.next = "idle", !.active = TRUE, !.readMore = TRUE]
    /\ thread' = [at |-> "run", part |-> 0, interrupted |-> FALSE]
    /\ sem' = 0
    /\ UNCHANGED <<reader, mail, flags, cache, posted, loader, downloader>>

\* The player sets _pauseReading, and unsets it with File::wake().
pauseReading ==
    /\ onMain /\ thread.at # "none" /\ main.readMore /\ main.pauses < MaxPauses
    /\ main' = [main EXCEPT !.readMore = FALSE, !.pauses = @ + 1]
    /\ UNCHANGED <<reader, mail, flags, sem, thread, cache, posted, loader, downloader>>
wake ==
    /\ onMain /\ thread.at # "none" /\ ~main.readMore
    /\ main' = [main EXCEPT !.readMore = TRUE]
    /\ sem' = released(sem)
    /\ UNCHANGED <<reader, mail, flags, thread, cache, posted, loader, downloader>>

\* StreamedFileDownloader::startLoading(), and its destructor before the end.
startLoading ==
    /\ onMain /\ ~downloader.attached /\ downloader.count < MaxDownloads
    /\ requestMore([downloader EXCEPT !.attached = TRUE, !.saved = {}, !.count = @ + 1],
                   mail, posted, main)
    /\ UNCHANGED <<flags, sem, thread, cache, loader>>
cancelDownload ==
    /\ onMain /\ downloader.attached
    /\ downloader' = detached(downloader, mail)
    /\ mail' = [mail EXCEPT !.requests = << >>]
    /\ UNCHANGED <<reader, flags, sem, thread, cache, main, posted, loader>>

-----------------------------------------------------------------------------

Thread ==
    \/ \E k \in Parts : read(k)
    \/ startWaiting \/ checkAgain \/ done \/ fillFailed \/ acquire
    \/ startSleep \/ takeRequests \/ pruneRequests \/ stopSleep \/ ends
Cache == cacheRead \/ cacheRelease
Loader == \E p \in Parts : arrived(p) \/ failed(p)
Handlers ==
    \/ wakeFromSleep \/ releaseSleeping \/ emplace \/ signal \/ releaseWaiting
    \/ join \/ stopCacheWaiting \/ stopped \/ started
User ==
    \/ stop \/ restart \/ pauseReading \/ wake \/ startLoading \/ cancelDownload
Next == Thread \/ Cache \/ Loader \/ Handlers \/ runPosted \/ User

Spec == Init /\ [][Next]_vars

\* The threads run, the main thread comes to every event, and the server
\* answers.  Nothing makes the thread begin to read, pause or stop.
Fairness ==
    /\ WF_vars(Thread /\ (thread.at # "run" \/ thread.interrupted))
    /\ WF_vars(Cache)
    /\ WF_vars(Handlers \/ runPosted)
    /\ \A p \in Parts : WF_vars(arrived(p))

FairSpec == Spec /\ Fairness

-----------------------------------------------------------------------------
(* Properties.                                                             *)

\* A part that comes is new: addPart() expects it, although parts are asked
\* for by two, again after a change of order, and again after a restart.
PartsAreNew ==
    /\ reader.loading \cap reader.parts = {}
    /\ ~reader.cached => reader.loading = {} /\ reader.parts = {}

\* "In case only downloader is active, all work is done on main thread": the
\* main thread takes the data of the streaming thread only when there is none,
\* and no late stopStreamingAsync() of one thread stops the next one.  Such a
\* thread does not sleep, as stopStreaming() expects.
OneOwner ==
    /\ ~main.active \/ flags.stopAsync => thread.at \in NoThread
    /\ thread.at \in NoThread => ~flags.sleeping

\* No wakeup is lost: a thread that waits for parts, or sleeps, is found by
\* whoever has something for it, and what has come since is being signalled.
BlockedIsWoken ==
    sem = 0 =>
        /\ thread.at = "acquire" /\ ~reader.error =>
               /\ flags.waiting /\ (cache = "reading" => flags.cacheWaiting)
               /\ mail.loaded # {} => main.at \in {"signal", "signalled"}
               /\ mail.results # {} => cache = "found"
        /\ thread.at = "asleep" =>
               /\ flags.sleeping
               /\ mail.requests # << >> => main.at \in {"wake", "wakeSleeping"}

\* A read ends, unless a request has failed.
ReadEnds == reading ~> (~reading \/ reader.error \/ thread.part \in loader.dead)

\* A downloader gets the parts it has asked for, from whichever thread, if
\* the streaming thread sleeps or ends now and then.  Not those whose request
\* has failed, and not those that an earlier downloader had asked for.
DownloadGetsParts ==
    []<>(thread.at \in NoThread \cup {"asleep"}) =>
        \A p \in Parts :
            (downloader.attached /\ p \in asked(downloader))
                ~> \/ ~downloader.attached \/ p \in downloader.saved
                   \/ p \in loader.dead \cup downloader.stale
=============================================================================
