---------------------------- MODULE DraftStorage ----------------------------
(* How the drafts of an account reach the disk and come back.              *)
(*                                                                          *)
(* Storage::Account (main thread) keeps for every chat the key of its       *)
(* drafts file and writes these keys into the file "map", at once through a *)
(* posted callback or later through a timer. Files are written by           *)
(* WriteManager on a thread of its own: first as a QSaveFile 's' that       *)
(* replaces the old one at once, else as a plain file '0' that is renamed.  *)
(* The process may die between any two steps, and file operations may fail. *)
(*                                                                          *)
(* The removals of ClearKey() and clearLegacyFiles() always succeed.         *)
(*                                                                          *)
(* Left out: cursors (kept in files of their own by the same code), the     *)
(* other files of an account, chats that were migrated, and the slot '1',   *)
(* which only versions without 's' have written.                            *)
EXTENDS Integers, SequencesExt

CONSTANTS
  Peers,      \* the chats
  KeyCount,   \* bound: how many file keys are in use at a time
  MaxVersion, \* bound: how often writeDrafts() is called
  MaxFaults,  \* bound: how many file operations fail
  MaxStops    \* bound: how often the process ends

ASSUME DraftAssumption ==
  /\ KeyCount \in Nat /\ MaxVersion \in Nat
  /\ MaxFaults \in Nat /\ MaxStops \in Nat

VARIABLES
  mode,       \* "running", "quitting" or "down"
  keys,       \* Account::_draftsMap: the key of a chat's drafts, 0 for none
  notRead,    \* _draftsNotReadMap: chats whose drafts were not read yet
  mapChanged, \* _mapChanged
  mapPosted,  \* writeMapQueued() has posted writeMap()
  mapTimer,   \* _writeMapTimer is active
  inbox,      \* WriteManager::write() calls posted to the manager's thread
  scheduled,  \* WriteManager::_scheduled
  writing,    \* the entry in writeNow(), with the operation that comes next
  disk,       \* the files: base -> slot -> content
  cleanup,    \* how far clearLegacyFiles() has come
  listed,     \* the files it found, then those it removes
  version,    \* counts the calls of writeDrafts()
  kept,       \* history: for each chat the texts a restart may still find
  dropped,    \* history: an entry was given up
  spoiled,    \* history: the only copy of a file was written over or cut short
  faults, stops, orderly

account == << keys, notRead, mapChanged, mapPosted, mapTimer >>
manager == << inbox, scheduled, writing >>
clearing == << cleanup, listed >>
history == << kept, dropped, spoiled, orderly >>
vars == << mode, account, manager, disk, clearing, version, history, faults, stops >>

----------------------------------------------------------------------------
(* Files. The content of the map gives every chat its key, that of a drafts *)
(* file gives the chat it belongs to the version of its text; 0 for none.   *)

Map == 0
Keys == 1 .. KeyCount
Bases == {Map} \cup Keys

Empty == [p \in Peers |-> 0]
NoFile == [p \in Peers |-> -1]
Torn == [p \in Peers |-> -2]    \* a file whose signature does not match
Missing == [s |-> NoFile, plain |-> NoFile]

Draft(p, v) == [Empty EXCEPT ![p] = v]
NoEntry == [base |-> -1, data |-> NoFile, stage |-> "none"]
Entry(base, data) == [base |-> base, data |-> data, stage |-> "save"]

\* The file that ReadFile() tries.
Tried(files, b) == IF files[b].s # NoFile THEN files[b].s ELSE files[b].plain
Readable(files, b) == Tried(files, b) \notin {NoFile, Torn}

\* What readMapWith() makes of the map: nothing when it cannot be read.
ReadMap(files) == IF Readable(files, Map) THEN Tried(files, Map) ELSE Empty

\* What readDraftsWithCursors() would give for p after a start with these
\* files.
ReadBack(files, p) ==
  LET k == ReadMap(files)[p] IN
  IF k # 0 /\ Readable(files, k) THEN Tried(files, k)[p] ELSE 0

ClearKey(k) == [disk EXCEPT ![k] = Missing]

\* GenerateKey(): random and not the name of a file; 64 bits do not repeat.
Used ==
  {k \in Keys : disk[k] # Missing} \cup Range(keys)
    \cup Range(ReadMap(disk)) \cup listed
    \cup {e.base : e \in Range(inbox) \cup Range(scheduled) \cup {writing}}
    \cup UNION {Range(e.data) : e \in
           {f \in Range(inbox) \cup Range(scheduled) \cup {writing} : f.base = Map}}
FreeKeys == Keys \ Used

----------------------------------------------------------------------------
(* The main thread.                                                         *)

Init ==
  /\ mode = "running" /\ disk = [b \in Bases |-> Missing]
  /\ keys = Empty /\ notRead = {}
  /\ mapChanged = FALSE /\ mapPosted = FALSE /\ mapTimer = FALSE
  /\ inbox = << >> /\ scheduled = << >> /\ writing = NoEntry
  /\ cleanup = "list" /\ listed = {}
  /\ version = 0 /\ faults = 0 /\ stops = 0
  /\ kept = [p \in Peers |-> <<0>>]
  /\ dropped = FALSE /\ spoiled = FALSE /\ orderly = FALSE

writeMapDelayed == mapChanged' = TRUE /\ mapTimer' = TRUE

\* A plausible slip: the map is posted and found unchanged.
postedUnchanged == mapPosted' = TRUE /\ UNCHANGED mapChanged

writeMapQueued == mapChanged' = TRUE /\ mapPosted' = TRUE

\* A plausible slip: a chat whose drafts were written may still be read.
stillNotRead(p) == UNCHANGED notRead

isRead(p) == notRead' = notRead \ {p}

\* writeDrafts(): an empty text takes the file away at once and the key from
\* the map later, another text is sent to the manager.
writeDrafts(p) ==
  /\ mode = "running" /\ version < MaxVersion
  /\ version' = version + 1
  /\ isRead(p)
  /\ \/ /\ kept' = [kept EXCEPT ![p] = Append(@, 0)]
        /\ \/ /\ keys[p] = 0
              /\ UNCHANGED << keys, disk, mapChanged, mapTimer >>
           \/ /\ keys[p] # 0
              /\ disk' = ClearKey(keys[p])
              /\ keys' = [keys EXCEPT ![p] = 0]
              /\ writeMapDelayed
        /\ UNCHANGED << inbox, mapPosted >>
     \/ /\ kept' = [kept EXCEPT ![p] = Append(@, version')]
        /\ \/ /\ keys[p] # 0
              /\ UNCHANGED << keys, mapChanged, mapPosted >>
           \/ /\ keys[p] = 0 /\ FreeKeys # {}
              /\ keys' = [keys EXCEPT ![p] = CHOOSE k \in FreeKeys : TRUE]
              /\ writeMapQueued
        /\ inbox' = Append(inbox, Entry(keys'[p], Draft(p, version')))
        /\ UNCHANGED << disk, mapTimer >>
  /\ UNCHANGED << mode, scheduled, writing, clearing, dropped, spoiled, orderly, faults, stops >>

\* readDraftsWithCursors(): the first time a chat is opened. A file that
\* cannot be read is removed with its key; the map is not written for it.
readDrafts(p) ==
  /\ mode = "running" /\ p \in notRead
  /\ isRead(p)
  /\ IF keys[p] # 0 /\ (~Readable(disk, keys[p]) \/ Tried(disk, keys[p])[p] = 0)
       THEN disk' = ClearKey(keys[p]) /\ keys' = [keys EXCEPT ![p] = 0]
       ELSE UNCHANGED << disk, keys >>
  /\ UNCHANGED << mode, mapChanged, mapPosted, mapTimer, manager, clearing,
                  version, history, faults, stops >>

\* writeMap()
mapWritten ==
  /\ mapTimer' = FALSE
  /\ mapChanged' = FALSE
  /\ inbox' = IF mapChanged THEN Append(inbox, Entry(Map, keys)) ELSE inbox

writeMapFired ==
  /\ mode = "running"
  /\ \/ mapTimer /\ UNCHANGED mapPosted
     \/ mapPosted /\ mapPosted' = FALSE
  /\ mapWritten
  /\ UNCHANGED << mode, keys, notRead, scheduled, writing, disk, clearing,
                  version, history, faults, stops >>

\* A plausible slip: the callback and the timer are cancelled at the end.
quitAtOnce ==
  /\ mode = "running" /\ stops < MaxStops
  /\ mode' = "quitting"
  /\ mapTimer' = FALSE /\ mapPosted' = FALSE /\ mapChanged' = FALSE
  /\ UNCHANGED << inbox, keys, notRead, scheduled, writing, disk, clearing,
                  version, history, faults, stops >>

\* ~Account() writes what was to be written later.
quit ==
  /\ mode = "running" /\ stops < MaxStops
  /\ mode' = "quitting"
  /\ mapWritten
  /\ mapPosted' = FALSE
  /\ UNCHANGED << keys, notRead, scheduled, writing, disk, clearing, version,
                  history, faults, stops >>

\* Nothing of the process is left.
gone ==
  /\ mode' = "down"
  /\ stops' = stops + 1
  /\ keys' = Empty /\ notRead' = {}
  /\ mapChanged' = FALSE /\ mapPosted' = FALSE /\ mapTimer' = FALSE
  /\ inbox' = << >> /\ scheduled' = << >> /\ writing' = NoEntry
  /\ cleanup' = "list" /\ listed' = {}

\* AsyncWriteManager::stop() waits until everything is written.
finish ==
  /\ mode = "quitting"
  /\ inbox = << >> /\ scheduled = << >> /\ writing = NoEntry
  /\ gone
  /\ orderly' = TRUE
  /\ UNCHANGED << disk, version, kept, dropped, spoiled, faults >>

crash ==
  /\ mode # "down" /\ stops < MaxStops
  /\ gone
  /\ orderly' = FALSE
  /\ UNCHANGED << disk, version, kept, dropped, spoiled, faults >>

\* Account::start()
start ==
  /\ mode = "down"
  /\ mode' = "running"
  /\ keys' = ReadMap(disk)
  /\ notRead' = {p \in Peers : keys'[p] # 0}
  /\ kept' = [p \in Peers |-> << ReadBack(disk, p) >>]
  /\ dropped' = FALSE /\ spoiled' = FALSE
  /\ UNCHANGED << mapChanged, mapPosted, mapTimer, manager, disk, clearing,
                  version, orderly, faults, stops >>

\* clearLegacyFiles(): another thread lists the files, the main thread then
\* collects the good names, and what was listed and is not good is removed.
found == {k \in Keys : disk[k] # Missing}

listFiles ==
  /\ mode = "running" /\ cleanup = "list"
  /\ cleanup' = "collect"
  /\ listed' = found
  /\ UNCHANGED << mode, account, manager, disk, version, history, faults, stops >>

collectGoodNames ==
  /\ mode = "running" /\ cleanup = "collect"
  /\ cleanup' = "remove"
  /\ listed' = listed \ Range(keys)
  /\ UNCHANGED << mode, account, manager, disk, version, history, faults, stops >>

clearFiles ==
  /\ mode # "down" /\ cleanup = "remove"
  /\ cleanup' = "done"
  /\ disk' = [b \in Bases |-> IF b \in listed THEN Missing ELSE disk[b]]
  /\ listed' = {}
  /\ UNCHANGED << mode, account, manager, version, history, faults, stops >>

----------------------------------------------------------------------------
(* The manager's thread.                                                    *)

\* WriteManager::write(): a newer entry takes the place of the one that
\* waits for the same file.
replaced(queue, e) ==
  IF \E i \in DOMAIN queue : queue[i].base = e.base
    THEN [i \in DOMAIN queue |-> IF queue[i].base = e.base THEN e ELSE queue[i]]
    ELSE Append(queue, e)

write ==
  /\ writing = NoEntry /\ inbox # << >>
  /\ scheduled' = replaced(scheduled, Head(inbox))
  /\ inbox' = Tail(inbox)
  /\ UNCHANGED << mode, account, writing, disk, clearing, version, history, faults, stops >>

\* writeOneScheduledNow(), from writeScheduled() or writeSyncAll()
writeOneScheduledNow ==
  /\ writing = NoEntry /\ scheduled # << >>
  /\ writing' = Head(scheduled)
  /\ scheduled' = Tail(scheduled)
  /\ UNCHANGED << mode, account, inbox, disk, clearing, version, history, faults, stops >>

\* What a restart may find once a write is over: nothing older than what it
\* would read back now, as soon as that is a text or the map has no key.
settled(files) ==
  [p \in Peers |->
     LET r == ReadBack(files, p) IN
     IF (r # 0 \/ ReadMap(files)[p] = 0) /\ r \in Range(kept[p])
       THEN SubSeq(kept[p], CHOOSE i \in DOMAIN kept[p] :
                              /\ kept[p][i] = r
                              /\ \A j \in 1 .. i - 1 : kept[p][j] # r, Len(kept[p]))
       ELSE kept[p]]

slot(name, content) == disk' = [disk EXCEPT ![writing.base][name] = content]
next(stage) == writing' = [writing EXCEPT !.stage = stage]
over == writing' = NoEntry /\ kept' = settled(disk')
works == UNCHANGED faults
fails == faults < MaxFaults /\ faults' = faults + 1

\* A plausible slip: the safe file is removed before it is replaced.
removedFirst ==
  /\ writing.stage = "save"
  /\ \/ works /\ slot("s", writing.data) /\ next("clean")
     \/ fails /\ slot("s", NoFile) /\ next("open")
  /\ UNCHANGED << kept, dropped, spoiled >>

\* QSaveFile: the file is replaced at once, or stays as it was.
commit ==
  /\ writing.stage = "save"
  /\ \/ works /\ slot("s", writing.data) /\ next("clean")
     \/ fails /\ next("open") /\ UNCHANGED disk
  /\ UNCHANGED << kept, dropped, spoiled >>

\* The results of the removals are not looked at.
removeSimple ==
  /\ writing.stage = "clean"
  /\ \/ works /\ slot("plain", NoFile)
     \/ fails /\ UNCHANGED disk
  /\ over
  /\ UNCHANGED << dropped, spoiled >>

onlyPlain(b) == disk[b].s = NoFile /\ disk[b].plain # NoFile

\* Opening the plain file empties it, also when it is the only copy because
\* an earlier one was not renamed; if that fails the entry is given up.
openPlain ==
  /\ writing.stage = "open"
  /\ \/ /\ works /\ slot("plain", Torn) /\ next("flush")
        /\ spoiled' = (spoiled \/ onlyPlain(writing.base))
        /\ UNCHANGED << kept, dropped >>
     \/ /\ fails /\ UNCHANGED disk /\ over
        /\ dropped' = TRUE
        /\ UNCHANGED spoiled

\* The results of write() and FlushFileData() are not looked at. A file that
\* ClearKey() removed meanwhile is back.
flushPlain ==
  /\ writing.stage = "flush"
  /\ \/ works /\ slot("plain", writing.data) /\ UNCHANGED spoiled
     \/ fails /\ spoiled' = TRUE /\ UNCHANGED disk
  /\ next("rename")
  /\ UNCHANGED << kept, dropped >>

rename ==
  /\ writing.stage = "rename"
  /\ \/ /\ works
        /\ disk' = [disk EXCEPT ![writing.base] = [s |-> @.plain, plain |-> NoFile]]
        /\ over
     \/ fails /\ next("unsafe") /\ UNCHANGED << disk, kept >>
  /\ UNCHANGED << dropped, spoiled >>

\* If the old file stays, it is the one that is read, and the new one is lost.
removeSafe ==
  /\ writing.stage = "unsafe"
  /\ \/ works /\ slot("s", NoFile) /\ UNCHANGED dropped
     \/ fails /\ UNCHANGED disk /\ dropped' = TRUE
  /\ over
  /\ UNCHANGED spoiled

writeNow ==
  /\ commit \/ removeSimple \/ openPlain \/ flushPlain \/ rename \/ removeSafe
  /\ UNCHANGED << mode, account, inbox, scheduled, clearing, version, orderly, stops >>

----------------------------------------------------------------------------

Main == \/ \E p \in Peers : writeDrafts(p) \/ readDrafts(p)
        \/ writeMapFired \/ quit \/ finish \/ start \/ collectGoodNames
Manager == write \/ writeOneScheduledNow \/ writeNow
Next == Main \/ Manager \/ listFiles \/ clearFiles \/ crash

Spec == Init /\ [][Next]_vars

\* Callbacks, timers and threads run; nothing makes the user write, open or
\* quit, and nothing makes the process die.
Fairness == WF_vars(writeMapFired) /\ WF_vars(Manager) /\ WF_vars(finish)

FairSpec == Spec /\ Fairness

----------------------------------------------------------------------------

TypeOK ==
  /\ mode \in {"running", "quitting", "down"}
  /\ keys \in [Peers -> {0} \cup Keys] /\ notRead \subseteq Peers
  /\ {mapChanged, mapPosted, mapTimer, dropped, spoiled, orderly} \subseteq BOOLEAN
  /\ \A e \in Range(inbox) \cup Range(scheduled) :
       e.base \in Bases /\ e.stage = "save"
  /\ writing.base \in Bases \cup {-1}
  /\ DOMAIN disk = Bases
  /\ cleanup \in {"list", "collect", "remove", "done"} /\ listed \subseteq Keys
  /\ version \in 0 .. MaxVersion /\ faults \in 0 .. MaxFaults /\ stops \in 0 .. MaxStops

\* If the process died now, the next start would find for every chat the text
\* of the last finished write or a newer one, never an older or a lost one:
\* the order of the map and the files, the replacing of waiting entries, the
\* removal of files and the plain file that is written when the safe one
\* fails never leave a moment in which the only copy is gone. The exception is
\* the plain file: it is written over when it is the only copy, and is renamed
\* over the safe file even if it was cut short.
WrittenIsKept == ~spoiled => \A p \in Peers : ReadBack(disk, p) \in Range(kept[p])

\* A process that ends in order (~Account(), then AsyncWriteManager::stop())
\* leaves exactly the texts that writeDrafts() was given last, unless an entry
\* was given up.
QuitKeepsAll ==
  (mode = "down" /\ orderly /\ ~dropped /\ ~spoiled) =>
    \A p \in Peers : ReadBack(disk, p) = Last(kept[p])

\* The drafts of a chat are read by the main thread while nothing is being
\* written to their file by the manager's thread.
ReadsAreQuiet ==
  \A p \in notRead : \A e \in Range(inbox) \cup Range(scheduled) \cup {writing} :
    e.base # keys[p]

\* What writeDrafts() was given last reaches the disk while the process lives:
\* the timer and the callback for the map and the manager's queue never leave
\* a change behind.
DraftsReachDisk ==
  \A p \in Peers :
    []<>(mode = "down" \/ dropped \/ spoiled \/ ReadBack(disk, p) = Last(kept[p]))

============================================================================
