------------------------- MODULE StreamingReaderProofs -------------------------
(***************************************************************************)
(* What is proved about StreamingReader, for any number of parts and of    *)
(* events: its three safety invariants.                                    *)
(***************************************************************************)
EXTENDS StreamingReader, TLAPS

-----------------------------------------------------------------------------
(* The inductive invariant.                                                *)

Shape ==
    /\ DOMAIN reader = {"cached", "parts", "loading", "current", "error",
                        "offsets", "requested"}
    /\ DOMAIN mail = {"results", "loaded", "requests", "acks"}
    /\ DOMAIN main = {"at", "next", "part", "active", "readMore", "starts", "pauses"}
    /\ DOMAIN flags = {"waiting", "cacheWaiting", "sleeping", "stopAsync"}
    /\ DOMAIN thread = {"at", "part", "interrupted"}
    /\ sem \in Nat

\* Who is stopping the streaming thread has seen it end and has forgotten what
\* it had asked for; the main thread comes back from a wakeup to what it was
\* doing; and only a thread that sleeps says that it does.
Owned ==
    /\ OneOwner
    /\ main.at \in {"stopCache", "stopped"} => thread.at \in NoThread /\ ~flags.stopAsync
    /\ main.at \in {"wake", "wakeSleeping"} => main.next \in {"idle", "emplace"}
    /\ flags.sleeping => thread.at \in {"take", "prune", "asleep"}

\* Nothing is loaded before the cache has answered, which it does once.
Expected ==
    /\ PartsAreNew
    /\ cache = "reading" => mail.results = {}
    /\ cache = "reading" \/ mail.results # {} => ~reader.cached

\* BlockedIsWoken from where the thread says that it will wait.
announced ==
    flags.waiting /\ (cache = "reading" => flags.cacheWaiting)
Announced ==
    sem = 0 =>
        /\ thread.at = "recheck" => announced
        /\ thread.at = "take" => flags.sleeping
        /\ thread.at = "prune" =>
               /\ flags.sleeping
               /\ mail.requests # << >> => main.at \in {"wake", "wakeSleeping"}

IInv == Shape /\ Owned /\ Expected /\ BlockedIsWoken /\ Announced
-----------------------------------------------------------------------------
(* The steps of the streaming thread that touch no data.                   *)

LEMMA WaitingSteps ==
    ASSUME IInv
    PROVE  /\ startWaiting => IInv'
           /\ done => IInv'
           /\ fillFailed => IInv'
           /\ startSleep => IInv'
           /\ stopSleep => IInv'
           /\ ends => IInv'
<1>. USE DEF IInv, Shape, Owned, Expected, Announced, announced, OneOwner, PartsAreNew,
            BlockedIsWoken, NoThread
<1>1. startWaiting => IInv'
  BY DEF startWaiting, armed, goTo
<1>2. done => IInv'
  BY DEF done, leaves
<1>3. fillFailed => IInv'
  BY DEF fillFailed, goTo
<1>4. startSleep => IInv'
  BY DEF startSleep, goTo
<1>5. stopSleep => IInv'
  BY DEF stopSleep, goTo
<1>6. ends => IInv'
  BY DEF ends, goTo
<1>. QED BY <1>1, <1>2, <1>3, <1>4, <1>5, <1>6
-----------------------------------------------------------------------------
(* What becomes of the reader's data.                                      *)

ReaderFields == {"cached", "parts", "loading", "current", "error", "offsets", "requested"}
MailFields == {"results", "loaded", "requests", "acks"}
MainFields == {"at", "next", "part", "active", "readMore", "starts", "pauses"}

\* What PartsAreNew says of the reader, said of any stage of its data.
Sound(r) ==
    /\ DOMAIN r = ReaderFields
    /\ r.loading \cap r.parts = {}
    /\ ~r.cached => r.loading = {} /\ r.parts = {}

\* The parts that the cache had are not being loaded, since nothing is.
LEMMA CacheIsSound ==
    ASSUME NEW r, Sound(r), mail.results # {} => ~r.cached
    PROVE  Sound(withCache(r)) /\ (mail.results = {} => withCache(r) = r)
BY DEF Sound, ReaderFields, withCache

\* A part that has come is not loading any more, and a part that was not
\* loading is dropped.
LEMMA PartsAreSound ==
    ASSUME NEW r, Sound(r), NEW s \in withParts(r)
    PROVE  Sound(s) /\ (s.cached <=> r.cached) /\ (r.error => s = r)
<1>1. CASE r.error
  BY <1>1 DEF withParts, Sound
<1>2. CASE ~r.error
  <2>1. PICK got : s = [r EXCEPT !.parts = @ \cup (got \cap r.loading),
                                !.loading = @ \ got,
                                !.current = @ \ got,
                                !.error = Failed \in mail.loaded]
    BY <1>2 DEF withParts
  <2>2. /\ DOMAIN s = ReaderFields /\ s.cached = r.cached
        /\ s.parts = r.parts \cup (got \cap r.loading)
        /\ s.loading = r.loading \ got
    BY <2>1 DEF Sound, ReaderFields
  <2>. QED BY <1>2, <2>2 DEF Sound
<1>. QED BY <1>1, <1>2

\* Only what is missing is loaded.
LEMMA FillIsSound ==
    ASSUME NEW r, Sound(r), NEW k, fillFromSlices(r, k)
    PROVE  /\ Sound(reader') /\ (reader'.cached <=> r.cached)
           /\ DOMAIN thread = {"at", "part", "interrupted"} =>
                  /\ DOMAIN thread' = DOMAIN thread
                  /\ thread'.at \in {"clear", "arm"}
<1>1. PICK parts \in {missing(r, k)} :
      \E kept \in {IF sameOrder(r, parts) THEN r.current ELSE {}} :
        /\ reader' = [r EXCEPT !.loading = @ \cup parts,
                               !.current = IF parts = {} THEN @ ELSE kept \cup parts]
        /\ thread' = [thread EXCEPT
               !.part = k, !.at = IF r.cached /\ k \in r.parts THEN "clear" ELSE "arm"]
  BY DEF fillFromSlices
<1>2. parts \cap r.parts = {} /\ (~r.cached => parts = {})
  BY <1>1 DEF missing
<1>. QED BY <1>1, <1>2 DEF Sound, ReaderFields

-----------------------------------------------------------------------------
(* The other steps of the streaming thread.                                *)

LEMMA Checking ==
    ASSUME IInv, NEW r \in checked
    PROVE  /\ Sound(r)
           /\ cache = "reading" => ~r.cached
           /\ reader.error => r = reader \/ r.error
<1>1. Sound(reader) /\ (mail.results # {} => ~reader.cached)
  BY DEF IInv, Shape, Expected, PartsAreNew, Sound, ReaderFields
<1>2. Sound(withCache(reader)) /\ (mail.results = {} => withCache(reader) = reader)
  BY <1>1, CacheIsSound
<1>3. Sound(r) /\ (r.cached <=> withCache(reader).cached)
               /\ (withCache(reader).error => r = withCache(reader))
  BY <1>2, PartsAreSound DEF checked
<1>4. cache = "reading" => mail.results = {} /\ ~reader.cached
  BY DEF IInv, Expected
<1>5. reader.error => withCache(reader) = reader
  BY DEF withCache
<1>. QED BY <1>2, <1>3, <1>4, <1>5

LEMMA Taking ==
    ASSUME IInv, NEW r, mail' = taken(r)
    PROVE  /\ DOMAIN mail' = MailFields
           /\ mail'.results = {} /\ mail'.requests = mail.requests
           /\ mail'.loaded = IF r.error THEN mail.loaded ELSE {}
BY DEF IInv, Shape, MailFields, taken

LEMMA Filling ==
    ASSUME IInv, NEW k, fill(k)
    PROVE  /\ mutexFree
           /\ Sound(reader') /\ (cache = "reading" => ~reader'.cached)
           /\ DOMAIN mail' = MailFields
           /\ mail'.results = {} /\ mail'.requests = mail.requests
           /\ DOMAIN thread' = DOMAIN thread
           /\ \/ thread'.at \in {"clear", "arm"}
              \/ thread'.at = "acquire" /\ reader'.error
<1>1. PICK r \in checked :
         /\ mail' = taken(withCache(reader))
         /\ IF r.error
            THEN reader' = r /\ thread' = [thread EXCEPT !.at = "acquire", !.part = k]
            ELSE fillFromSlices(r, k)
  BY DEF fill
<1>2. Sound(r) /\ (cache = "reading" => ~r.cached)
  BY <1>1, Checking
<1>3. DOMAIN thread = {"at", "part", "interrupted"}
  BY DEF IInv, Shape
<1>4. mutexFree
  BY DEF fill
<1>5. CASE r.error
  BY <1>1, <1>2, <1>3, <1>4, <1>5, Taking
<1>6. CASE ~r.error
  <2>1. fillFromSlices(r, k)
    BY <1>1, <1>6
  <2>. QED BY <1>1, <1>2, <1>3, <1>4, <2>1, FillIsSound, Taking
<1>. QED BY <1>5, <1>6

LEMMA ReadingSteps ==
    ASSUME IInv
    PROVE  /\ \A k \in Parts : read(k) => IInv'
           /\ acquire => IInv'
           /\ checkAgain => IInv'
<1>. USE DEF IInv, Shape, Owned, Expected, Announced, announced, OneOwner, PartsAreNew,
            BlockedIsWoken, NoThread, Sound, ReaderFields, MailFields
<1>1. ASSUME NEW k \in Parts, read(k) PROVE IInv'
  <2>1. fill(k) BY <1>1 DEF read
  <2>. QED BY <1>1, <2>1, Filling DEF read
<1>2. ASSUME acquire PROVE IInv'
  <2>1. CASE thread.interrupted \/ reader.error
    <3>1. /\ thread.at = "acquire" /\ sem' \in Nat
          /\ thread' = [thread EXCEPT !.at = "over", !.part = 0]
          /\ UNCHANGED <<reader, mail, flags, cache, main>>
      BY <1>2, <2>1 DEF acquire, leaves
    <3>. QED BY <3>1
  <2>2. CASE ~(thread.interrupted \/ reader.error)
    <3>1. fill(thread.part) BY <1>2, <2>2 DEF acquire
    <3>. QED BY <1>2, <2>2, <3>1, Filling DEF acquire
  <2>. QED BY <2>1, <2>2
<1>3. ASSUME checkAgain PROVE IInv'
  <2>1. PICK r \in checked :
          /\ mail' = taken(withCache(reader))
          /\ IF somethingMore
             THEN fillFromSlices(r, thread.part)
             ELSE reader' = r /\ goTo(IF r.error THEN "failed" ELSE "acquire")
    BY <1>3 DEF checkAgain
  <2>2. Sound(r) /\ (cache = "reading" => ~r.cached)
    BY <2>1, Checking
  <2>3. /\ DOMAIN mail' = MailFields
        /\ mail'.results = {} /\ mail'.requests = mail.requests
        /\ mail'.loaded = IF withCache(reader).error THEN mail.loaded ELSE {}
    BY <2>1, Taking
  <2>4. CASE somethingMore
    <3>1. fillFromSlices(r, thread.part)
      BY <2>1, <2>4
    <3>. QED BY <1>3, <2>2, <2>3, <3>1, FillIsSound DEF checkAgain
  <2>5. CASE ~somethingMore
    <3>1. withCache(reader).error <=> reader.error
      BY DEF withCache
    <3>2. withCache(reader).error => r = withCache(reader)
      BY <2>1 DEF checked, withParts
    <3>3. ~r.error => mail'.loaded = {}
      BY <2>3, <3>2
    <3>. QED BY <1>3, <2>1, <2>2, <2>3, <2>5, <3>3 DEF checkAgain, goTo
  <2>. QED BY <2>4, <2>5
<1>. QED BY <1>1, <1>2, <1>3
LEMMA SleepingSteps ==
    ASSUME IInv
    PROVE  /\ takeRequests => IInv'
           /\ pruneRequests => IInv'
<1>. USE DEF IInv, Shape, Owned, Expected, Announced, announced, OneOwner, PartsAreNew,
            BlockedIsWoken, NoThread, Sound, ReaderFields, MailFields
<1>1. ASSUME takeRequests PROVE IInv'
  <2>1. /\ thread.at = "take" /\ thread' = [thread EXCEPT !.at = "prune"]
        /\ UNCHANGED <<flags, sem, cache, main>>
    BY <1>1 DEF takeRequests, goTo
  <2>2. PICK all : /\ reader' = requestsTaken(withCache(reader), all.offsets)
                   /\ mail' = [mail EXCEPT !.results = {}, !.requests = << >>,
                                           !.acks = all.acks]
    BY <1>1 DEF takeRequests
  <2>3. /\ Sound(withCache(reader))
        /\ mail.results = {} => withCache(reader) = reader
    BY CacheIsSound
  <2>4. DOMAIN mail' = MailFields /\ mail'.results = {} /\ mail'.requests = << >>
    BY <2>2
  <2>5. Sound(reader') /\ (cache = "reading" => ~reader'.cached)
    BY <2>2, <2>3 DEF requestsTaken
  <2>. QED BY <2>1, <2>4, <2>5
<1>2. ASSUME pruneRequests PROVE IInv'
  <2>1. /\ thread.at = "prune" /\ thread' = [thread EXCEPT !.at = "asleep"]
        /\ mail' = [mail EXCEPT !.acks = {}]
        /\ UNCHANGED <<flags, sem, cache, main>>
    BY <1>2 DEF pruneRequests, goTo
  <2>2. reader' = requestsSent(acksTaken(reader, mail.acks))
    BY <1>2 DEF pruneRequests
  <2>3. Sound(reader') /\ (reader'.cached <=> reader.cached)
    BY <2>2 DEF requestsSent, acksTaken
  <2>. QED BY <2>1, <2>3
<1>. QED BY <1>1, <1>2

-----------------------------------------------------------------------------
(* The thread of the cache, and what the main thread does besides its queue. *)

LEMMA SignalSteps ==
    ASSUME IInv
    PROVE  /\ cacheRead => IInv'
           /\ cacheRelease => IInv'
           /\ wakeFromSleep => IInv'
           /\ releaseSleeping => IInv'
           /\ emplace => IInv'
           /\ signal => IInv'
           /\ releaseWaiting => IInv'
<1>. USE DEF IInv, Shape, Owned, Expected, Announced, announced, OneOwner, PartsAreNew,
            BlockedIsWoken, NoThread, released
<1>1. cacheRead => IInv'
  BY DEF cacheRead
<1>2. cacheRelease => IInv'
  BY DEF cacheRelease
<1>3. wakeFromSleep => IInv'
  BY DEF wakeFromSleep, at, backTo
<1>4. releaseSleeping => IInv'
  BY DEF releaseSleeping, backTo
<1>5. emplace => IInv'
  BY DEF emplace
<1>6. signal => IInv'
  BY DEF signal, at
<1>7. releaseWaiting => IInv'
  BY DEF releaseWaiting, at
<1>. QED BY <1>1, <1>2, <1>3, <1>4, <1>5, <1>6, <1>7

LEMMA PlayerSteps ==
    ASSUME IInv
    PROVE  /\ stop => IInv'
           /\ restart => IInv'
           /\ pauseReading => IInv'
           /\ wake => IInv'
           /\ join => IInv'
           /\ stopCacheWaiting => IInv'
           /\ started => IInv'
           /\ cancelDownload => IInv'
<1>. USE DEF IInv, Shape, Owned, Expected, Announced, announced, OneOwner, PartsAreNew,
            BlockedIsWoken, NoThread, released, onMain
<1>1. stop => IInv'
  BY DEF stop, interrupt
<1>2. restart => IInv'
  BY DEF restart, interrupt
<1>3. pauseReading => IInv'
  BY DEF pauseReading
<1>4. wake => IInv'
  BY DEF wake
<1>5. join => IInv'
  BY DEF join, stopWaiting, clearedStopAsync
<1>6. stopCacheWaiting => IInv'
  BY DEF stopCacheWaiting, at
<1>7. started => IInv'
  BY DEF started
<1>8. cancelDownload => IInv'
  BY DEF cancelDownload
<1>. QED BY <1>1, <1>2, <1>3, <1>4, <1>5, <1>6, <1>7, <1>8
-----------------------------------------------------------------------------
(* The queue of the main thread.                                           *)

\* What the main thread may do to the data while it handles one event: with a
\* streaming thread it leaves the reader alone, and if it leaves requests
\* behind it goes on to wake that thread.
Handled ==
    /\ DOMAIN mail' = MailFields /\ DOMAIN main' = MainFields
    /\ Sound(reader')
    /\ \/ reader' = reader /\ mail'.results = mail.results
       \/ /\ ~main.active
          /\ mail'.results = {} /\ (cache = "reading" => ~reader'.cached)
    /\ main'.active = main.active
    /\ \/ main'.at \in {"idle", "emplace"}
       \/ main'.at = "wake" /\ main'.next \in {"idle", "emplace"}
    /\ main.active =>
           /\ mail'.loaded = mail.loaded
           /\ mail'.requests \in {mail.requests, << >>} \/ main'.at = "wake"

LEMMA HandledIsFine ==
    ASSUME IInv, onMain, Handled, UNCHANGED <<flags, sem, thread, cache>>
    PROVE  IInv'
BY DEF IInv, Shape, Owned, Expected, Announced, announced, OneOwner, PartsAreNew,
       BlockedIsWoken, NoThread, onMain, Handled, Sound, ReaderFields, MailFields, MainFields

LEMMA Processing ==
    ASSUME NEW r, NEW m, NEW q, Sound(r), DOMAIN m = MailFields,
           mail.results # {} => ~r.cached,
           cache = "reading" => mail.results = {} /\ ~r.cached,
           processDownloaderRequests(r, m, q)
    PROVE  /\ Sound(reader') /\ (cache = "reading" => ~reader'.cached)
           /\ DOMAIN mail' = MailFields /\ mail'.results = {}
           /\ mail'.loaded = m.loaded
<1>1. PICK all :
        /\ reader' = requestsSent(acksTaken(requestsTaken(withCache(r), all.offsets),
                                            all.acks))
        /\ mail' = [m EXCEPT !.results = {}, !.requests = << >>, !.acks = {}]
  BY DEF processDownloaderRequests
<1>2. Sound(withCache(r)) /\ (mail.results = {} => withCache(r) = r)
  BY CacheIsSound
<1>3. Sound(reader') /\ (reader'.cached <=> withCache(r).cached)
  BY <1>1, <1>2 DEF requestsSent, acksTaken, requestsTaken, Sound, ReaderFields
<1>. QED BY <1>1, <1>2, <1>3 DEF MailFields

\* The reader of a state, as the lemmas above need it.
LEMMA SoundReader ==
    ASSUME IInv
    PROVE  /\ Sound(reader) /\ DOMAIN mail = MailFields /\ DOMAIN main = MainFields
           /\ mail.results # {} => ~reader.cached
           /\ cache = "reading" => mail.results = {} /\ ~reader.cached
BY DEF IInv, Shape, Expected, PartsAreNew, Sound, ReaderFields, MailFields, MainFields

LEMMA Continuing ==
    ASSUME IInv, NEW m, NEW q, NEW next,
           DOMAIN m = MailFields, m.results = mail.results, m.loaded = mail.loaded,
           DOMAIN next = MainFields, next.active = main.active,
           next.at \in {"idle", "emplace"},
           continueDownloader(m, q, next)
    PROVE  Handled
<1>1. CASE main.active
  BY <1>1, SoundReader DEF continueDownloader, Handled, MainFields
<1>2. CASE ~main.active
  <2>1. main' = next /\ processDownloaderRequests(reader, m, q)
    BY <1>2 DEF continueDownloader
  <2>2. /\ Sound(reader') /\ (cache = "reading" => ~reader'.cached)
        /\ DOMAIN mail' = MailFields /\ mail'.results = {}
    BY <2>1, SoundReader, Processing
  <2>. QED BY <1>2, <2>1, <2>2 DEF Handled
<1>. QED BY <1>1, <1>2

LEMMA Requesting ==
    ASSUME IInv, NEW d, NEW m, NEW q, NEW next,
           DOMAIN m = MailFields, m.results = mail.results, m.loaded = mail.loaded,
           DOMAIN next = MainFields, next.active = main.active,
           next.at \in {"idle", "emplace"},
           requestMore(d, m, q, next)
    PROVE  Handled
<1>. DEFINE new == [m EXCEPT !.requests = m.requests \o nextParts(d)]
<1>1. continueDownloader(new, q, next)
  BY DEF requestMore
<1>2. DOMAIN new = MailFields /\ new.results = mail.results /\ new.loaded = mail.loaded
  BY DEF MailFields
<1>. HIDE DEF new
<1>. QED BY <1>1, <1>2, Continuing

LEMMA Feeding ==
    ASSUME IInv, NEW p, NEW q, NEW next,
           DOMAIN next = MainFields, next.active = main.active,
           next.at \in {"idle", "emplace"},
           feed(p, q, next)
    PROVE  Handled
<1>1. CASE ~downloader.attached \/ p \in downloader.saved
  BY <1>1, SoundReader DEF feed, Handled
<1>2. CASE ~(~downloader.attached \/ p \in downloader.saved)
  <2>1. PICK d \in {IF p = Failed THEN downloader
                    ELSE [downloader EXCEPT !.saved = @ \cup {p}]},
             m \in {IF p = Failed THEN mail ELSE [mail EXCEPT !.acks = @ \cup {p}]} :
            IF p = Failed \/ d.saved = Parts
            THEN /\ mail' = [m EXCEPT !.requests = << >>]
                 /\ main' = next /\ UNCHANGED reader
            ELSE requestMore(d, m, q, next)
    BY <1>2 DEF feed
  <2>2. /\ DOMAIN m = MailFields
        /\ m.results = mail.results /\ m.loaded = mail.loaded
    BY SoundReader DEF MailFields
  <2>3. CASE p = Failed \/ d.saved = Parts
    BY <2>1, <2>2, <2>3, SoundReader DEF Handled, MailFields
  <2>4. CASE ~(p = Failed \/ d.saved = Parts)
    BY <2>1, <2>2, <2>4, Requesting
  <2>. QED BY <2>3, <2>4
<1>. QED BY <1>1, <1>2

\* What the loader has is given to the downloader and then to the thread.
LEMMA Firing ==
    ASSUME IInv, NEW p, NEW q, fired(p, q)
    PROVE  Handled
<1>. DEFINE next == [main EXCEPT !.at = "emplace", !.part = p]
<1>1. feed(p, q, next)
  BY DEF fired
<1>2. DOMAIN next = MainFields /\ next.active = main.active /\ next.at = "emplace"
  BY SoundReader DEF MainFields
<1>. HIDE DEF next
<1>. QED BY <1>1, <1>2, Feeding

LEMMA LoaderSteps ==
    ASSUME IInv
    PROVE  /\ \A p \in Parts : arrived(p) \/ failed(p) => IInv'
           /\ startLoading => IInv'
<1>1. ASSUME NEW p \in Parts, arrived(p) PROVE IInv'
  BY <1>1, Firing, HandledIsFine DEF arrived
<1>2. ASSUME NEW p \in Parts, failed(p) PROVE IInv'
  BY <1>2, Firing, HandledIsFine DEF failed
<1>3. ASSUME startLoading PROVE IInv'
  <2>1. onMain /\ UNCHANGED <<flags, sem, thread, cache>>
    BY <1>3 DEF startLoading
  <2>2. \E d : requestMore(d, mail, posted, main)
    BY <1>3 DEF startLoading
  <2>. QED BY <2>1, <2>2, SoundReader, Requesting, HandledIsFine DEF onMain
<1>. QED BY <1>1, <1>2, <1>3

LEMMA QueueSteps ==
    ASSUME IInv
    PROVE  runPosted => IInv'
<1>. SUFFICES ASSUME runPosted PROVE IInv'
  OBVIOUS
<1>. DEFINE p == Head(posted)[2]
            q == Tail(posted)
<1>1. onMain /\ UNCHANGED <<sem, thread, cache>>
  BY DEF runPosted
<1>2. \/ load(p, q) /\ UNCHANGED flags
      \/ feed(p, q, main) /\ UNCHANGED flags
      \/ continueDownloader(mail, q, main) /\ UNCHANGED flags
      \/ /\ IF flags.stopAsync THEN stopWaiting("async") ELSE UNCHANGED <<flags, main>>
         /\ UNCHANGED <<reader, mail>>
  BY DEF runPosted
<1>. HIDE DEF p, q
<1>3. CASE load(p, q) /\ UNCHANGED flags
  <2>1. CASE fired(p, q)
    BY <1>1, <1>3, <2>1, Firing, HandledIsFine
  <2>2. CASE UNCHANGED <<reader, mail, main>>
    BY <1>1, <1>3, <2>2, SoundReader, HandledIsFine DEF Handled, onMain
  <2>. QED BY <1>3, <2>1, <2>2 DEF load
<1>4. CASE feed(p, q, main) /\ UNCHANGED flags
  BY <1>1, <1>4, SoundReader, Feeding, HandledIsFine DEF onMain
<1>5. CASE continueDownloader(mail, q, main) /\ UNCHANGED flags
  BY <1>1, <1>5, SoundReader, Continuing, HandledIsFine DEF onMain
<1>6. CASE flags.stopAsync /\ stopWaiting("async") /\ UNCHANGED <<reader, mail>>
  BY <1>1, <1>6 DEF IInv, Shape, Owned, Expected, Announced, announced, OneOwner,
     PartsAreNew, BlockedIsWoken, NoThread, stopWaiting, clearedStopAsync
<1>7. CASE UNCHANGED <<flags, main, reader, mail>>
  BY <1>1, <1>7, SoundReader, HandledIsFine DEF Handled, onMain
<1>. QED BY <1>2, <1>3, <1>4, <1>5, <1>6, <1>7
\* stopStreaming() gives the reader to the main thread, without what loads.
LEMMA StoppedStep ==
    ASSUME IInv
    PROVE  stopped => IInv'
<1>. SUFFICES ASSUME stopped PROVE IInv'
  OBVIOUS
<1>. DEFINE r == [reader EXCEPT !.loading = {}, !.current = {}]
<1>1. Sound(r) /\ (r.cached <=> reader.cached)
  BY SoundReader DEF Sound, ReaderFields
<1>2. processDownloaderRequests(r, mail, posted)
  BY DEF stopped
<1>. HIDE DEF r
<1>3. /\ Sound(reader') /\ (cache = "reading" => ~reader'.cached)
      /\ DOMAIN mail' = MailFields /\ mail'.results = {}
  BY <1>1, <1>2, SoundReader, Processing
<1>4. /\ main.at = "stopped"
      /\ main' = [main EXCEPT !.at = "idle", !.next = "idle", !.active = FALSE]
      /\ UNCHANGED <<flags, cache>>
      /\ \/ thread' = [thread EXCEPT !.at = "none"] /\ sem' = 0
         \/ UNCHANGED <<thread, sem>>
  BY DEF stopped, goTo
<1>5. /\ DOMAIN main' = MainFields /\ main'.at = "idle"
      /\ DOMAIN thread' = DOMAIN thread /\ thread'.at \in NoThread /\ sem' \in Nat
  BY <1>4, SoundReader DEF IInv, Shape, Owned, NoThread, MainFields
<1>. QED
  BY <1>3, <1>4, <1>5 DEF IInv, Shape, Owned, Expected, Announced, announced, OneOwner,
     PartsAreNew, BlockedIsWoken, NoThread, Sound, ReaderFields, MailFields, MainFields

-----------------------------------------------------------------------------

LEMMA InitIsFine == Init => IInv
<1>. SUFFICES ASSUME Init PROVE IInv
  OBVIOUS
<1>1. PICK useCache \in BOOLEAN :
        /\ reader = [ cached |-> ~useCache, parts |-> {}, loading |-> {}, current |-> {},
                      error |-> FALSE, offsets |-> << >>, requested |-> {} ]
        /\ cache = IF useCache THEN "reading" ELSE "done"
  BY DEF Init
<1>2. /\ DOMAIN reader = ReaderFields /\ reader.parts = {} /\ reader.loading = {}
      /\ cache = "reading" => ~reader.cached
  BY <1>1, Zenon DEF ReaderFields
<1>. QED
  BY <1>2 DEF Init, ReaderFields, IInv, Shape, Owned, Expected, Announced, announced,
     OneOwner, PartsAreNew, BlockedIsWoken, NoThread

LEMMA NextIsFine ==
    ASSUME IInv, [Next]_vars
    PROVE  IInv'
<1>1. CASE Thread
  <2>1. CASE \E k \in Parts : read(k)
    BY <2>1, ReadingSteps
  <2>2. CASE startWaiting \/ done \/ fillFailed \/ startSleep \/ stopSleep \/ ends
    BY <2>2, WaitingSteps
  <2>3. CASE checkAgain \/ acquire
    BY <2>3, ReadingSteps
  <2>4. CASE takeRequests \/ pruneRequests
    BY <2>4, SleepingSteps
  <2>. QED BY <1>1, <2>1, <2>2, <2>3, <2>4 DEF Thread
<1>2. CASE Cache
  BY <1>2, SignalSteps DEF Cache
<1>3. CASE Loader
  BY <1>3, LoaderSteps DEF Loader
<1>4. CASE Handlers
  BY <1>4, SignalSteps, PlayerSteps, StoppedStep DEF Handlers
<1>5. CASE runPosted
  BY <1>5, QueueSteps
<1>6. CASE User
  BY <1>6, PlayerSteps, LoaderSteps DEF User
<1>7. CASE UNCHANGED vars
  BY <1>7 DEF vars, IInv, Shape, Owned, Expected, Announced, announced, OneOwner,
     PartsAreNew, BlockedIsWoken, NoThread
<1>. QED BY <1>1, <1>2, <1>3, <1>4, <1>5, <1>6, <1>7 DEF Next

LEMMA Invariance == Spec => []IInv
<1>1. Init => IInv
  BY InitIsFine
<1>2. IInv /\ [Next]_vars => IInv'
  BY NextIsFine
<1>. QED BY <1>1, <1>2, PTL DEF Spec

\* addPart() is never given a part that the slice already has, nor anything
\* before the cache has answered.
THEOREM PartsAlwaysNew == Spec => []PartsAreNew
<1>1. IInv => PartsAreNew
  BY DEF IInv, Expected
<1>. QED BY <1>1, Invariance, PTL

\* The main thread and the streaming thread never share the reader's data,
\* whatever the order in which threads end, are stopped and start again.
THEOREM AlwaysOneOwner == Spec => []OneOwner
<1>1. IInv => OneOwner
  BY DEF IInv, Owned
<1>. QED BY <1>1, Invariance, PTL

\* The protocol of the pointers to the semaphore loses no wakeup: one that was
\* not needed leaves a count behind, one that is needed is on its way.
THEOREM BlockedAlwaysWoken == Spec => []BlockedIsWoken
<1>1. IInv => BlockedIsWoken
  BY DEF IInv
<1>. QED BY <1>1, Invariance, PTL

=============================================================================
