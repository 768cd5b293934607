------------------------- MODULE DraftStorageProofs -------------------------
(***************************************************************************)
(* What is proved about DraftStorage, for any chats, keys, versions,       *)
(* failures and restarts: two chats never share a file, the drafts of a    *)
(* chat are never read while they are being written, nothing that was      *)
(* written is lost when the process dies, and an orderly end keeps all.    *)
(***************************************************************************)
EXTENDS DraftStorage, WellFoundedInduction, TLAPS

-----------------------------------------------------------------------------
(* The invariant. A map, in memory, on its way to the disk or on it, gives *)
(* different chats different keys.                                         *)

Contents == [Peers -> Int]

Maps == {m \in [Peers -> {0} \cup Keys] :
           \A p, q \in Peers : m[p] = m[q] /\ m[p] # 0 => p = q}

Stages == {"save", "clean", "open", "flush", "rename", "unsafe"}

Entries == {e \in [base : Bases, data : Contents, stage : Stages] :
              e.base = Map => e.data \in Maps}

Types ==
    /\ keys \in Maps
    /\ notRead \subseteq Peers
    /\ inbox \in Seq(Entries) /\ scheduled \in Seq(Entries)
    /\ writing \in Entries \cup {NoEntry}
    /\ disk \in [Bases -> [s : Contents, plain : Contents]]
    /\ version \in Nat

MapOnDisk ==
    /\ disk[Map].s \in Maps \cup {NoFile, Torn}
    /\ disk[Map].plain \in Maps \cup {NoFile, Torn}

\* Nothing waits for a file that is still to be read.
Waiting == Range(inbox) \cup Range(scheduled) \cup {writing}

Quiet ==
    \A p \in notRead : keys[p] # 0 /\ \A e \in Waiting : e.base # keys[p]

Inv == Types /\ MapOnDisk /\ Quiet

-----------------------------------------------------------------------------

\* Numbers, names of files and the contents that stand for none.
LEMMA Constants ==
    /\ Map \in Bases /\ Keys \subseteq Bases /\ Map = 0
    /\ \A k \in Keys : k # 0 /\ k # -1
    /\ Keys \subseteq Int
    /\ Empty \in Maps /\ Maps \subseteq Contents
    /\ NoFile \in Contents /\ Torn \in Contents
    /\ NoEntry.base = -1
BY DraftAssumption DEF Map, Keys, Bases, Empty, Maps, Contents, NoFile, Torn, NoEntry

\* What readMapWith() returns is a map, also when the file cannot be read.
LEMMA ReadMapIsMap == ASSUME Inv PROVE ReadMap(disk) \in Maps
BY Constants DEF Inv, Types, MapOnDisk, ReadMap, Readable, Tried

\* The queue after write() holds what it held and the new entry.
LEMMA Replaced ==
    ASSUME NEW S, NEW queue \in Seq(S), NEW e \in S
    PROVE  /\ replaced(queue, e) \in Seq(S)
           /\ Range(replaced(queue, e)) \subseteq Range(queue) \cup {e}
<1>1. CASE \E i \in DOMAIN queue : queue[i].base = e.base
  <2>. DEFINE r == [i \in DOMAIN queue |-> IF queue[i].base = e.base THEN e ELSE queue[i]]
  <2>1. replaced(queue, e) = r
    BY <1>1 DEF replaced
  <2>2. DOMAIN queue = 1 .. Len(queue) /\ Len(queue) \in Nat
    OBVIOUS
  <2>3. \A i \in DOMAIN queue : queue[i] \in S
    OBVIOUS
  <2>4. r \in [1 .. Len(queue) -> S]
    BY <2>2, <2>3
  <2>5. r \in Seq(S)
    BY <2>2, <2>4
  <2>6. Range(r) \subseteq Range(queue) \cup {e}
    BY DEF Range
  <2>. QED BY <2>1, <2>5, <2>6
<1>2. CASE ~ \E i \in DOMAIN queue : queue[i].base = e.base
  <2>1. replaced(queue, e) = Append(queue, e)
    BY <1>2 DEF replaced
  <2>2. Range(Append(queue, e)) \subseteq Range(queue) \cup {e}
    BY DEF Range
  <2>. QED BY <2>1, <2>2
<1>. QED BY <1>1, <1>2

\* A queue with one more entry.
LEMMA Appended ==
    ASSUME NEW S, NEW queue \in Seq(S), NEW e \in S
    PROVE  /\ Append(queue, e) \in Seq(S)
           /\ Range(Append(queue, e)) \subseteq Range(queue) \cup {e}
BY DEF Range

\* A queue without its first entry.
LEMMA Popped ==
    ASSUME NEW S, NEW queue \in Seq(S), queue # << >>
    PROVE  /\ Tail(queue) \in Seq(S) /\ Head(queue) \in S
           /\ Head(queue) \in Range(queue)
           /\ Range(Tail(queue)) \subseteq Range(queue)
<1>1. 1 \in DOMAIN queue /\ Head(queue) = queue[1]
  OBVIOUS
<1>2. \A i \in DOMAIN Tail(queue) : i + 1 \in DOMAIN queue /\ Tail(queue)[i] = queue[i + 1]
  OBVIOUS
<1>. QED BY <1>1, <1>2 DEF Range

-----------------------------------------------------------------------------
(* Every step keeps the invariant.                                         *)

\* The first process starts with no files.
LEMMA InitInv == Init => Inv
<1>. SUFFICES ASSUME Init PROVE Inv
  OBVIOUS
<1>1. Types
  BY Constants DEF Init, Types, Missing
<1>2. MapOnDisk
  BY Constants DEF Init, MapOnDisk, Missing
<1>3. Quiet
  BY DEF Init, Quiet
<1>. QED BY <1>1, <1>2, <1>3 DEF Inv

\* A file is removed.
LEMMA Cleared ==
    ASSUME Inv, NEW k \in Keys, disk' = ClearKey(k)
    PROVE  /\ disk' \in [Bases -> [s : Contents, plain : Contents]]
           /\ disk'[Map] = disk[Map]
<1>1. Missing \in [s : Contents, plain : Contents]
  BY Constants DEF Missing
<1>. QED BY <1>1, Constants DEF Inv, Types, ClearKey

\* writeDrafts(): a new key is nowhere, so the keys stay different.
LEMMA WriteDraftsInv ==
    ASSUME Inv, NEW q \in Peers, writeDrafts(q)
    PROVE  Inv'
<1>. USE DEF Inv
<1>1. scheduled' = scheduled /\ writing' = writing /\ version' \in Nat /\ notRead' = notRead \ {q}
  BY DEF writeDrafts, isRead, Types
<1>2. CASE keys' = [keys EXCEPT ![q] = 0] /\ keys[q] # 0 /\ disk' = ClearKey(keys[q]) /\ inbox' = inbox
  <2>1. keys[q] \in Keys
    BY <1>2 DEF Types, Maps
  <2>2. disk' \in [Bases -> [s : Contents, plain : Contents]] /\ disk'[Map] = disk[Map]
    BY <1>2, <2>1, Cleared
  <2>3. keys' \in Maps
    BY <1>2 DEF Types, Maps
  <2>4. Types'
    BY <1>1, <1>2, <2>2, <2>3 DEF Types
  <2>5. MapOnDisk'
    BY <2>2 DEF MapOnDisk
  <2>6. Quiet'
    BY <1>1, <1>2 DEF Quiet, Waiting, Types, Maps
  <2>. QED BY <2>4, <2>5, <2>6
<1>3. CASE UNCHANGED << keys, disk, inbox >>
  <2>1. Types'
    BY <1>1, <1>3 DEF Types
  <2>2. MapOnDisk'
    BY <1>3 DEF MapOnDisk
  <2>3. Quiet'
    BY <1>1, <1>3 DEF Quiet, Waiting
  <2>. QED BY <2>1, <2>2, <2>3
<1>4. CASE /\ disk' = disk
           /\ inbox' = Append(inbox, Entry(keys'[q], Draft(q, version')))
           /\ \/ keys[q] # 0 /\ keys' = keys
              \/ \E k \in FreeKeys : keys' = [keys EXCEPT ![q] = k]
  <2>1. /\ keys' \in Maps /\ keys'[q] \in Keys
        /\ \A p \in Peers \ {q} : keys'[p] = keys[p] /\ (keys[p] # 0 => keys[p] # keys'[q])
    <3>1. CASE keys[q] # 0 /\ keys' = keys
      BY <3>1 DEF Types, Maps
    <3>2. ASSUME NEW k \in FreeKeys, keys' = [keys EXCEPT ![q] = k]
          PROVE  /\ keys' \in Maps /\ keys'[q] \in Keys
                 /\ \A p \in Peers \ {q} : keys'[p] = keys[p] /\ (keys[p] # 0 => keys[p] # keys'[q])
      <4>1. k \in Keys /\ k \notin Range(keys)
        BY <3>2 DEF FreeKeys, Used
      <4>2. \A p \in Peers : keys[p] # k
        BY <4>1 DEF Range, Types, Maps
      <4>. QED BY <3>2, <4>1, <4>2, Constants DEF Types, Maps
    <3>. QED BY <1>4, <3>1, <3>2
  <2>. DEFINE e == Entry(keys'[q], Draft(q, version'))
  <2>2. Draft(q, version') \in Contents
    BY <1>1, Constants DEF Draft, Contents, Empty
  <2>3. e \in Entries /\ e.base = keys'[q]
    BY <2>1, <2>2, Constants DEF Entry, Entries, Stages
  <2>. HIDE DEF e
  <2>4. inbox' = Append(inbox, e)
    BY <1>4 DEF e
  <2>5. inbox' \in Seq(Entries) /\ Range(inbox') \subseteq Range(inbox) \cup {e}
    BY <2>3, <2>4, Appended DEF Types
  <2>6. Types'
    BY <1>1, <1>4, <2>1, <2>5 DEF Types
  <2>7. MapOnDisk'
    BY <1>4 DEF MapOnDisk
  <2>8. Quiet'
    BY <1>1, <2>1, <2>3, <2>5 DEF Quiet, Waiting, Types
  <2>. QED BY <2>6, <2>7, <2>8
<1>5. \/ keys' = [keys EXCEPT ![q] = 0] /\ keys[q] # 0 /\ disk' = ClearKey(keys[q]) /\ inbox' = inbox
      \/ UNCHANGED << keys, disk, inbox >>
      \/ /\ disk' = disk
         /\ inbox' = Append(inbox, Entry(keys'[q], Draft(q, version')))
         /\ \/ keys[q] # 0 /\ keys' = keys
            \/ \E k \in FreeKeys : keys' = [keys EXCEPT ![q] = k]
  <2>1. FreeKeys # {} => (CHOOSE k \in FreeKeys : TRUE) \in FreeKeys
    OBVIOUS
  <2>. QED BY <2>1 DEF writeDrafts
<1>. QED BY <1>2, <1>3, <1>4, <1>5

\* readDraftsWithCursors(): a key goes away with its file.
LEMMA ReadDraftsInv ==
    ASSUME Inv, NEW q \in Peers, readDrafts(q)
    PROVE  Inv'
<1>. USE DEF Inv
<1>1. /\ notRead' = notRead \ {q}
      /\ UNCHANGED << inbox, scheduled, writing, version >>
  BY DEF readDrafts, isRead, manager
<1>2. CASE UNCHANGED << disk, keys >>
  BY <1>1, <1>2 DEF Types, MapOnDisk, Quiet, Waiting
<1>3. CASE keys[q] # 0 /\ disk' = ClearKey(keys[q]) /\ keys' = [keys EXCEPT ![q] = 0]
  <2>1. keys[q] \in Keys
    BY <1>3 DEF Types, Maps
  <2>2. disk' \in [Bases -> [s : Contents, plain : Contents]] /\ disk'[Map] = disk[Map]
    BY <1>3, <2>1, Cleared
  <2>3. keys' \in Maps
    BY <1>3 DEF Types, Maps
  <2>4. Types'
    BY <1>1, <2>2, <2>3 DEF Types
  <2>5. MapOnDisk'
    BY <2>2 DEF MapOnDisk
  <2>6. Quiet'
    BY <1>1, <1>3 DEF Quiet, Waiting, Types, Maps
  <2>. QED BY <2>4, <2>5, <2>6
<1>. QED BY <1>2, <1>3 DEF readDrafts

\* writeMap(), from a callback, the timer or the destructor.
LEMMA MapWrittenInv ==
    ASSUME Inv, mapWritten,
           UNCHANGED << keys, notRead, scheduled, writing, disk, version >>
    PROVE  Inv'
<1>. USE DEF Inv
<1>. DEFINE e == Entry(Map, keys)
<1>1. e \in Entries /\ e.base = Map
  BY Constants DEF Entry, Entries, Stages, Types
<1>. HIDE DEF e
<1>2. inbox' \in Seq(Entries) /\ Range(inbox') \subseteq Range(inbox) \cup {e}
  <2>1. inbox' = Append(inbox, e) \/ inbox' = inbox
    BY DEF mapWritten, e
  <2>2. inbox \in Seq(Entries)
    BY DEF Types
  <2>3. /\ Append(inbox, e) \in Seq(Entries)
        /\ Range(Append(inbox, e)) \subseteq Range(inbox) \cup {e}
    BY <1>1, <2>2, Appended
  <2>. QED BY <2>1, <2>2, <2>3
<1>3. Types' /\ MapOnDisk'
  BY <1>2 DEF Types, MapOnDisk
<1>4. Quiet'
  BY <1>1, <1>2, Constants DEF Quiet, Waiting
<1>. QED BY <1>3, <1>4

\* The process ends, and starts again with what the map gives it.
LEMMA StopInv ==
    ASSUME Inv, gone, UNCHANGED << disk, version >>
    PROVE  Inv'
<1>1. inbox' = << >> /\ scheduled' = << >> /\ writing' = NoEntry /\ keys' = Empty /\ notRead' = {}
  BY DEF gone
<1>. QED BY <1>1, Constants DEF Inv, Types, MapOnDisk, Quiet

\* The process that has ended has nothing to write.
Down == mode = "down" => inbox = << >> /\ scheduled = << >> /\ writing = NoEntry

\* Account::start(): the keys are those of the map that was found.
LEMMA StartInv ==
    ASSUME Inv, Down, start
    PROVE  Inv'
<1>1. /\ inbox = << >> /\ scheduled = << >> /\ writing = NoEntry
      /\ UNCHANGED << inbox, scheduled, writing, disk, version >>
      /\ keys' = ReadMap(disk)
      /\ notRead' = {p \in Peers : keys'[p] # 0}
  BY DEF Down, start, manager
<1>2. keys' \in Maps
  BY <1>1, ReadMapIsMap
<1>3. Types'
  BY <1>1, <1>2 DEF Inv, Types
<1>4. MapOnDisk'
  BY <1>1 DEF Inv, MapOnDisk
<1>5. Quiet'
  <2>1. Waiting' = {NoEntry}
    BY <1>1 DEF Waiting, Range
  <2>2. \A p \in notRead' : keys'[p] \in Keys
    BY <1>1, <1>2 DEF Maps
  <2>. QED BY <2>1, <2>2, Constants DEF Quiet
<1>. QED BY <1>3, <1>4, <1>5 DEF Inv

\* Files are removed that are neither the map nor in it.
LEMMA ClearFilesInv ==
    ASSUME Inv, listed \subseteq Keys, clearFiles
    PROVE  Inv'
<1>1. /\ UNCHANGED << keys, notRead, inbox, scheduled, writing, version >>
      /\ disk' = [b \in Bases |-> IF b \in listed THEN Missing ELSE disk[b]]
  BY DEF clearFiles, account, manager
<1>2. Missing \in [s : Contents, plain : Contents]
  BY Constants DEF Missing
<1>3. disk' \in [Bases -> [s : Contents, plain : Contents]] /\ disk'[Map] = disk[Map]
  BY <1>1, <1>2, Constants DEF Inv, Types
<1>. QED BY <1>1, <1>3 DEF Inv, Types, MapOnDisk, Quiet, Waiting

\* WriteManager::write()
LEMMA WriteInv ==
    ASSUME Inv, write
    PROVE  Inv'
<1>1. /\ inbox # << >>
      /\ scheduled' = replaced(scheduled, Head(inbox)) /\ inbox' = Tail(inbox)
      /\ UNCHANGED << keys, notRead, writing, disk, version >>
  BY DEF write, account
<1>2. inbox \in Seq(Entries) /\ scheduled \in Seq(Entries)
  BY DEF Inv, Types
<1>. DEFINE e == Head(inbox)
<1>3. /\ Tail(inbox) \in Seq(Entries) /\ e \in Entries /\ e \in Range(inbox)
      /\ Range(Tail(inbox)) \subseteq Range(inbox)
  BY <1>1, <1>2, Popped
<1>4. /\ replaced(scheduled, e) \in Seq(Entries)
      /\ Range(replaced(scheduled, e)) \subseteq Range(scheduled) \cup {e}
  BY <1>2, <1>3, Replaced
<1>. HIDE DEF e
<1>5. scheduled' = replaced(scheduled, e)
  BY <1>1 DEF e
<1>6. Types' /\ MapOnDisk'
  BY <1>1, <1>3, <1>4, <1>5 DEF Inv, Types, MapOnDisk
<1>7. Waiting' \subseteq Waiting
  BY <1>1, <1>3, <1>4, <1>5 DEF Waiting
<1>. QED BY <1>1, <1>6, <1>7 DEF Inv, Quiet

\* writeOneScheduledNow()
LEMMA WriteOneInv ==
    ASSUME Inv, writeOneScheduledNow
    PROVE  Inv'
<1>1. /\ scheduled # << >>
      /\ writing' = Head(scheduled) /\ scheduled' = Tail(scheduled)
      /\ UNCHANGED << keys, notRead, inbox, disk, version >>
  BY DEF writeOneScheduledNow, account
<1>2. scheduled \in Seq(Entries)
  BY DEF Inv, Types
<1>3. /\ Tail(scheduled) \in Seq(Entries) /\ Head(scheduled) \in Entries
      /\ Head(scheduled) \in Range(scheduled)
      /\ Range(Tail(scheduled)) \subseteq Range(scheduled)
  BY <1>1, <1>2, Popped
<1>4. Types' /\ MapOnDisk'
  BY <1>1, <1>3 DEF Inv, Types, MapOnDisk
<1>5. Waiting' \subseteq Waiting
  BY <1>1, <1>3 DEF Waiting
<1>. QED BY <1>1, <1>4, <1>5 DEF Inv, Quiet

\* One operation of writeNow(): a file of the entry gets the entry's content,
\* that of its other file, or none.
LEMMA OperationInv ==
    ASSUME Inv, writing \in Entries,
           UNCHANGED << keys, notRead, inbox, scheduled, version >>,
           \/ writing' = NoEntry
           \/ \E st \in Stages : writing' = [writing EXCEPT !.stage = st],
           \/ disk' = disk
           \/ \E f \in [s : {writing.data, disk[writing.base].s, disk[writing.base].plain, NoFile},
                        plain : {writing.data, disk[writing.base].plain, NoFile, Torn}] :
                disk' = [disk EXCEPT ![writing.base] = f]
    PROVE  Inv'
<1>. USE DEF Inv
<1>1. /\ writing' \in Entries \cup {NoEntry}
      /\ writing'.base \in {writing.base, -1}
  BY Constants DEF Entries
<1>2. writing.base \in Bases /\ writing.data \in Contents
      /\ (writing.base = Map => writing.data \in Maps)
  BY DEF Entries
<1>3. disk' \in [Bases -> [s : Contents, plain : Contents]]
  BY <1>2, Constants DEF Types
<1>4. MapOnDisk'
  BY <1>2, Constants DEF Types, MapOnDisk
<1>5. Types'
  BY <1>1, <1>3 DEF Types
<1>6. Quiet'
  <2>1. SUFFICES ASSUME NEW p \in notRead PROVE keys[p] # 0 /\ \A e \in Waiting' : e.base # keys[p]
    BY DEF Quiet
  <2>2. keys[p] # 0 /\ keys[p] # -1
    BY Constants DEF Quiet, Types, Maps
  <2>. QED BY <1>1, <2>2 DEF Quiet, Waiting
<1>. QED BY <1>4, <1>5, <1>6

\* writeNow() writes contents of their types into the file of its entry.
LEMMA WriteNowInv ==
    ASSUME Inv, writeNow
    PROVE  Inv'
<1>1. UNCHANGED << keys, notRead, inbox, scheduled, version >>
  BY DEF writeNow, account
<1>2. writing # NoEntry /\ writing \in Entries
  BY DEF Inv, Types, writeNow, commit, removeSimple, openPlain, flushPlain, rename,
         removeSafe, NoEntry
<1>. DEFINE b == writing.base
<1>3. b \in Bases /\ disk \in [Bases -> [s : Contents, plain : Contents]]
  BY <1>2 DEF Inv, Types, Entries
<1>4. \A c : /\ slot("s", c) =>
                  disk' = [disk EXCEPT ![b] = [s |-> c, plain |-> disk[b].plain]]
             /\ slot("plain", c) =>
                  disk' = [disk EXCEPT ![b] = [s |-> disk[b].s, plain |-> c]]
  <2>1. disk[b] = [s |-> disk[b].s, plain |-> disk[b].plain]
    BY <1>3
  <2>2. \A c : /\ [disk[b] EXCEPT !.s = c] = [s |-> c, plain |-> disk[b].plain]
               /\ [disk[b] EXCEPT !.plain = c] = [s |-> disk[b].s, plain |-> c]
    BY <2>1
  <2>. QED BY <2>2 DEF slot
<1>5. ASSUME commit PROVE Inv'
  <2>1. \/ writing' = NoEntry
        \/ \E st \in Stages : writing' = [writing EXCEPT !.stage = st]
    BY <1>5 DEF commit, next, Stages
  <2>2. \/ disk' = disk
        \/ \E f \in [s : {writing.data, disk[b].s, disk[b].plain, NoFile},
                     plain : {writing.data, disk[b].plain, NoFile, Torn}] :
             disk' = [disk EXCEPT ![b] = f]
    BY <1>5, <1>4 DEF commit
  <2>. QED BY <1>1, <1>2, <2>1, <2>2, OperationInv
<1>6. removeSimple => Inv'
  <2>1. ASSUME removeSimple PROVE writing' = NoEntry /\ (disk' = disk \/ slot("plain", NoFile))
    BY <2>1 DEF removeSimple, over
  <2>. QED BY <1>1, <1>2, <1>4, <2>1, OperationInv
<1>7. ASSUME openPlain PROVE Inv'
  <2>1. \/ writing' = NoEntry
        \/ \E st \in Stages : writing' = [writing EXCEPT !.stage = st]
    BY <1>7 DEF openPlain, over, next, Stages
  <2>2. \/ disk' = disk
        \/ \E f \in [s : {writing.data, disk[b].s, disk[b].plain, NoFile},
                     plain : {writing.data, disk[b].plain, NoFile, Torn}] :
             disk' = [disk EXCEPT ![b] = f]
    <3>1. slot("plain", Torn) \/ disk' = disk
      BY <1>7 DEF openPlain
    <3>. QED BY <1>4, <3>1
  <2>. QED BY <1>1, <1>2, <2>1, <2>2, OperationInv
<1>8. ASSUME flushPlain PROVE Inv'
  <2>1. \/ writing' = NoEntry
        \/ \E st \in Stages : writing' = [writing EXCEPT !.stage = st]
    BY <1>8 DEF flushPlain, next, Stages
  <2>2. \/ disk' = disk
        \/ \E f \in [s : {writing.data, disk[b].s, disk[b].plain, NoFile},
                     plain : {writing.data, disk[b].plain, NoFile, Torn}] :
             disk' = [disk EXCEPT ![b] = f]
    BY <1>8, <1>4 DEF flushPlain
  <2>. QED BY <1>1, <1>2, <2>1, <2>2, OperationInv
<1>9. ASSUME rename PROVE Inv'
  <2>1. \/ writing' = NoEntry
        \/ \E st \in Stages : writing' = [writing EXCEPT !.stage = st]
    BY <1>9 DEF rename, over, next, Stages
  <2>2. \/ disk' = disk
        \/ \E f \in [s : {writing.data, disk[b].s, disk[b].plain, NoFile},
                     plain : {writing.data, disk[b].plain, NoFile, Torn}] :
             disk' = [disk EXCEPT ![b] = f]
    BY <1>9, <1>3 DEF rename
  <2>. QED BY <1>1, <1>2, <2>1, <2>2, OperationInv
<1>10. removeSafe => Inv'
  BY <1>1, <1>2, <1>4, OperationInv DEF removeSafe, over
<1>. QED BY <1>5, <1>6, <1>7, <1>8, <1>9, <1>10 DEF writeNow

-----------------------------------------------------------------------------

IInv == Inv /\ Down /\ listed \subseteq Keys

LEMMA NextInv == IInv /\ [Next]_vars => IInv'
<1>. SUFFICES ASSUME IInv, [Next]_vars PROVE IInv'
  OBVIOUS
<1>. USE DEF IInv
<1>1. ASSUME NEW p \in Peers, writeDrafts(p) PROVE IInv'
  BY <1>1, WriteDraftsInv DEF writeDrafts, clearing, Down
<1>2. ASSUME NEW p \in Peers, readDrafts(p) PROVE IInv'
  BY <1>2, ReadDraftsInv DEF readDrafts, clearing, manager, Down
<1>3. CASE writeMapFired
  BY <1>3, MapWrittenInv DEF writeMapFired, clearing, Down
<1>4. CASE quit
  BY <1>4, MapWrittenInv DEF quit, clearing, Down
<1>5. CASE finish \/ crash
  BY <1>5, StopInv DEF finish, crash, gone, Down
<1>6. CASE start
  BY <1>6, StartInv DEF start, clearing, Down
<1>7. CASE listFiles \/ collectGoodNames
  BY <1>7 DEF listFiles, collectGoodNames, found, account, manager, Inv, Types, MapOnDisk,
              Quiet, Waiting, Down
<1>8. CASE clearFiles
  BY <1>8, ClearFilesInv DEF clearFiles, manager, Down
<1>9. CASE write
  <2>1. Inv'
    BY <1>9, WriteInv
  <2>2. Down' /\ listed' = listed
    BY <1>9 DEF write, clearing, Down
  <2>. QED BY <2>1, <2>2
<1>10. CASE writeOneScheduledNow
  <2>1. Inv'
    BY <1>10, WriteOneInv
  <2>2. Down' /\ listed' = listed
    BY <1>10 DEF writeOneScheduledNow, clearing, Down
  <2>. QED BY <2>1, <2>2
<1>11. CASE writeNow
  <2>1. Inv'
    BY <1>11, WriteNowInv
  <2>2. Down' /\ listed' = listed
    BY <1>11 DEF writeNow, commit, removeSimple, openPlain, flushPlain, rename, removeSafe,
                 clearing, Down, NoEntry
  <2>. QED BY <2>1, <2>2
<1>12. CASE UNCHANGED vars
  BY <1>12 DEF vars, account, manager, clearing, Inv, Types, MapOnDisk, Quiet, Waiting, Down
<1>. QED BY <1>1, <1>2, <1>3, <1>4, <1>5, <1>6, <1>7, <1>8, <1>9, <1>10, <1>11, <1>12
         DEF Next, Main, Manager

\* The invariant of the writing thread and the files: maps are maps wherever
\* they are, and the manager has nothing once the process is gone.
THEOREM Invariant == Spec => []IInv
<1>1. Init => IInv
  BY InitInv DEF Init, IInv, Down
<1>. QED BY <1>1, NextInv, PTL DEF Spec

\* No two chats share a drafts file (GenerateKey(), _draftsMap, writeMap(),
\* readMapWith()), in memory or after a start from any map on the disk.
KeysAreDistinct ==
    \A p, q \in Peers :
      /\ keys[p] = keys[q] /\ keys[p] # 0 => p = q
      /\ ReadMap(disk)[p] = ReadMap(disk)[q] /\ ReadMap(disk)[p] # 0 => p = q

\* GenerateKey() never gives a chat the file of another, and no start finds a
\* map that does.
THEOREM DistinctKeys == Spec => []KeysAreDistinct
<1>1. IInv => KeysAreDistinct
  BY ReadMapIsMap DEF IInv, Inv, Types, Maps, KeysAreDistinct
<1>. QED BY <1>1, Invariant, PTL

\* readDraftsWithCursors() on the main thread never meets writeNow() of the
\* same file on the manager's thread.
THEOREM QuietReads == Spec => []ReadsAreQuiet
<1>1. IInv => ReadsAreQuiet
  BY DEF IInv, Inv, Quiet, Waiting, ReadsAreQuiet
<1>. QED BY <1>1, Invariant, PTL

-----------------------------------------------------------------------------
(* What was written is kept.  A restart combines the map it finds with the *)
(* file whose key the map gives, and each may be older or newer than the   *)
(* other, so the invariant speaks of every map and every text of a chat    *)
(* that is on the disk or on its way there, in the order of each file.     *)

\* What a start makes of each file; of one it cannot read, nothing.
View(files) == [b \in Bases |-> IF Readable(files, b) THEN Tried(files, b) ELSE Empty]

\* What is on its way to the disk.  At the end is the map in memory, which
\* may be sent at any time.
LineOf(e, queue, calls, m) == <<e>> \o queue \o calls \o <<Entry(Map, m)>>
Line == LineOf(writing, scheduled, inbox, keys)

\* The contents of file b in the order in which it gets them, when w is on the
\* disk and q on its way: that on the disk is at place 0.
For(q, b) == {i \in DOMAIN q : q[i].base = b}
Places(q, b) == {0} \cup For(q, b)
At(w, q, b, i) == IF i = 0 THEN w[b] ELSE q[i].data

\* The key of chat p in the map at place i, and the texts of p that a start
\* may read under the key k.
Key(w, q, p, i) == At(w, q, Map, i)[p]
Texts(w, q, k, p) == IF k = 0 THEN {0} ELSE {At(w, q, k, i)[p] : i \in Places(q, k)}

\* In a history h: v, v before u, and 0 between v and u.
Has(h, v) == \E i \in DOMAIN h : h[i] = v
Before(h, v, u) == \E i, j \in DOMAIN h : i < j /\ h[i] = v /\ h[j] = u
Between(h, v, u) ==
    \E i, j, l \in DOMAIN h : i < j /\ j < l /\ h[i] = v /\ h[j] = 0 /\ h[l] = u

\* v and u were given under different keys: the draft was empty in between.
Parted(h, v, u) ==
    /\ v # 0 /\ u # 0 => Between(h, v, u)
    /\ v # 0 /\ u = 0 => Before(h, v, 0)
    /\ v = 0 /\ u # 0 => Before(h, 0, u)

Sorted(h) == \A i, j \in DOMAIN h : i < j /\ h[i] # 0 /\ h[j] # 0 => h[i] < h[j]

\* Whatever a start may read is still in the history.
Held(w, q, p, h) ==
    \A i \in Places(q, Map) : \A v \in Texts(w, q, Key(w, q, p, i), p) : Has(h, v)

Separate(w, q, p, h) ==
    \A i, j \in Places(q, Map) :
        i < j /\ Key(w, q, p, i) # Key(w, q, p, j) =>
            \A v \in Texts(w, q, Key(w, q, p, i), p), u \in Texts(w, q, Key(w, q, p, j), p) :
                Parted(h, v, u)

\* A key that was given up does not come back.
NoReturn(w, q, p) ==
    \A i, j, l \in Places(q, Map) :
        i < j /\ j < l /\ Key(w, q, p, i) # 0 /\ Key(w, q, p, i) # Key(w, q, p, j) =>
            Key(w, q, p, i) # Key(w, q, p, l)

\* The texts of one file come in the order in which they were given.
Rising(w, q, p) ==
    \A i \in Places(q, Map) : Key(w, q, p, i) # 0 =>
        \A a, b \in Places(q, Key(w, q, p, i)) :
            /\ a < b => At(w, q, Key(w, q, p, i), a)[p] <= At(w, q, Key(w, q, p, i), b)[p]
            /\ a # 0 => At(w, q, Key(w, q, p, i), a)[p] # 0

Sound(w, q, p, h) ==
    Held(w, q, p, h) /\ Separate(w, q, p, h) /\ NoReturn(w, q, p) /\ Rising(w, q, p)

\* No two chats have the same key, in whichever maps.
Own(w, q) ==
    \A i, j \in Places(q, Map) : \A p, o \in Peers :
        Key(w, q, p, i) # 0 /\ Key(w, q, p, i) = Key(w, q, o, j) => p = o

\* The types of w and q, when n texts were given.
Way(w, q, n) ==
    /\ n \in Nat
    /\ w \in [Bases -> Contents] /\ w[Map] \in Maps
    /\ \A k \in Keys : w[k] \in [Peers -> 0 .. n]
    /\ q \in Seq(Entries \cup {NoEntry})
    /\ \A i \in DOMAIN q : q[i].base \in Keys => q[i].data \in [Peers -> 0 .. n]
    /\ q # << >> /\ q[Len(q)].base = Map

\* What the types of w and q say of places, keys and texts.
LEMMA WayTypes ==
    ASSUME NEW w, NEW q, NEW n, Way(w, q, n), NEW p \in Peers
    PROVE  /\ DOMAIN q = 1 .. Len(q) /\ Len(q) \in Nat \ {0}
           /\ \A b : Places(q, b) \subseteq 0 .. Len(q)
           /\ Len(q) \in Places(q, Map) /\ 0 \in Places(q, Map)
           /\ \A k \in Keys : Len(q) \notin Places(q, k) /\ 0 \in Places(q, k)
           /\ \A i \in Places(q, Map) : Key(w, q, p, i) \in {0} \cup Keys
           /\ \A k \in Keys : \A i \in Places(q, k) : At(w, q, k, i)[p] \in 0 .. n
           /\ \A k \in {0} \cup Keys : Texts(w, q, k, p) \in SUBSET (0 .. n)
<1>1. DOMAIN q = 1 .. Len(q) /\ Len(q) \in Nat \ {0}
  BY DEF Way
<1>2. \A b : Places(q, b) \subseteq 0 .. Len(q)
  BY <1>1 DEF Places, For
<1>3. Len(q) \in Places(q, Map) /\ 0 \in Places(q, Map)
  BY <1>1 DEF Way, Places, For
<1>4. \A k \in Keys : Len(q) \notin Places(q, k) /\ 0 \in Places(q, k)
  BY <1>1, Constants DEF Way, Places, For
<1>5. ASSUME NEW i \in Places(q, Map)
      PROVE  Key(w, q, p, i) \in {0} \cup Keys
  <2>1. CASE i = 0
    BY <2>1 DEF Way, Key, At, Maps
  <2>2. CASE i # 0
    <3>1. i \in DOMAIN q /\ q[i].base = Map
      BY <2>2 DEF Places, For
    <3>2. q[i] \in Entries
      BY <1>1, <3>1, Constants DEF Way
    <3>3. q[i].data \in Maps
      BY <3>1, <3>2 DEF Entries
    <3> QED
      BY <2>2, <3>3 DEF Key, At, Maps
  <2> QED
    BY <2>1, <2>2
<1>6. ASSUME NEW k \in Keys, NEW i \in Places(q, k)
      PROVE  At(w, q, k, i)[p] \in 0 .. n
  BY <1>1 DEF Way, Places, For, At
<1>7. \A k \in {0} \cup Keys : Texts(w, q, k, p) \in SUBSET (0 .. n)
  BY <1>6 DEF Texts, Way
<1> QED
  BY <1>1, <1>2, <1>3, <1>4, <1>5, <1>6, <1>7

-----------------------------------------------------------------------------
(* Steps that give nothing new to the disk.                                *)

\* x and r have, for each file of p, what w and q have or less, in the same
\* order.
Shift(w, q, x, r, p, b, G) ==
    /\ G \in [Places(r, b) -> Places(q, b)]
    /\ \A i \in Places(r, b) :
          /\ At(x, r, b, i)[p] = At(w, q, b, G[i])[p]
          /\ i # 0 => G[i] # 0
          /\ \A j \in Places(r, b) : i <= j => G[i] <= G[j]

Later(w, q, x, r, p) ==
    \A b \in Bases :
        b = Map \/ (\E i \in Places(r, Map) : Key(x, r, p, i) = b) =>
            \E G : Shift(w, q, x, r, p, b, G)

\* p then has no text or map that it did not have.
LEMMA LaterSound ==
    ASSUME NEW w, NEW q, NEW x, NEW r, NEW n, NEW p \in Peers, NEW h,
           Way(w, q, n), Way(x, r, n), Later(w, q, x, r, p), Sound(w, q, p, h)
    PROVE  Sound(x, r, p, h)
<1>1. PICK G : Shift(w, q, x, r, p, Map, G)
  BY Constants DEF Later
<1>2. \A i \in Places(r, Map) : /\ G[i] \in Places(q, Map)
                                /\ Key(x, r, p, i) = Key(w, q, p, G[i])
                                /\ \A j \in Places(r, Map) : i <= j => G[i] <= G[j]
  BY <1>1 DEF Shift, Key
<1>3. /\ \A i \in Places(r, Map) : i \in Nat /\ Key(x, r, p, i) \in {0} \cup Keys
      /\ \A i \in Places(q, Map) : i \in Nat
  BY WayTypes
<1>4. \A i, j \in Places(r, Map) :
        i < j /\ Key(x, r, p, i) # Key(x, r, p, j) => G[i] < G[j]
  BY <1>2, <1>3
<1> HIDE <1>1
<1>5. ASSUME NEW i \in Places(r, Map), NEW k, k = Key(x, r, p, i)
      PROVE  Texts(x, r, k, p) \subseteq Texts(w, q, k, p)
  <2>1. CASE k = 0
    BY <2>1 DEF Texts
  <2>2. CASE k # 0
    <3>1. k \in Bases
      BY <1>3, <1>5, <2>2, Constants
    <3>2. PICK F : Shift(w, q, x, r, p, k, F)
      BY <1>5, <3>1 DEF Later
    <3> QED
      BY <2>2, <3>2 DEF Texts, Shift
  <2> QED
    BY <2>1, <2>2
<1>6. Held(x, r, p, h)
  BY <1>2, <1>5 DEF Sound, Held
<1>7. Separate(x, r, p, h)
  <2> SUFFICES ASSUME NEW i \in Places(r, Map), NEW j \in Places(r, Map), i < j,
                      Key(x, r, p, i) # Key(x, r, p, j),
                      NEW v \in Texts(x, r, Key(x, r, p, i), p),
                      NEW u \in Texts(x, r, Key(x, r, p, j), p)
               PROVE  Parted(h, v, u)
    BY DEF Separate
  <2>1. v \in Texts(w, q, Key(w, q, p, G[i]), p) /\ u \in Texts(w, q, Key(w, q, p, G[j]), p)
    BY <1>2, <1>5
  <2> QED
    BY <1>2, <1>4, <2>1 DEF Sound, Separate
<1>8. NoReturn(x, r, p)
  <2> SUFFICES ASSUME NEW i \in Places(r, Map), NEW j \in Places(r, Map),
                      NEW l \in Places(r, Map), i < j, j < l, Key(x, r, p, i) # 0,
                      Key(x, r, p, i) # Key(x, r, p, j)
               PROVE  Key(x, r, p, i) # Key(x, r, p, l)
    BY DEF NoReturn
  <2>1. CASE Key(x, r, p, j) = Key(x, r, p, l)
    BY <2>1
  <2>2. CASE Key(x, r, p, j) # Key(x, r, p, l)
    <3>1. G[i] < G[j] /\ G[j] < G[l]
      BY <1>4, <2>2
    <3> QED
      BY <1>2, <3>1 DEF Sound, NoReturn
  <2> QED
    BY <2>1, <2>2
<1>9. Rising(x, r, p)
  <2> SUFFICES ASSUME NEW i \in Places(r, Map), NEW k, k = Key(x, r, p, i), k # 0,
                      NEW a \in Places(r, k), NEW b \in Places(r, k)
               PROVE  /\ a < b => At(x, r, k, a)[p] <= At(x, r, k, b)[p]
                      /\ a # 0 => At(x, r, k, a)[p] # 0
    BY DEF Rising
  <2>1. k \in Keys /\ k \in Bases
    BY <1>3, Constants
  <2>2. PICK F : Shift(w, q, x, r, p, k, F)
    BY <2>1 DEF Later
  <2>3. /\ F[a] \in Places(q, k) /\ F[b] \in Places(q, k)
        /\ At(x, r, k, a)[p] = At(w, q, k, F[a])[p]
        /\ At(x, r, k, b)[p] = At(w, q, k, F[b])[p]
        /\ a # 0 => F[a] # 0
        /\ a <= b => F[a] <= F[b]
    BY <2>2 DEF Shift
  <2> HIDE <2>2
  <2>4. a \in Int /\ b \in Int /\ F[a] \in Int /\ F[b] \in Int
    BY <2>3, WayTypes
  <2>5. At(w, q, k, F[a])[p] \in Int
    BY <2>1, <2>3, WayTypes
  <2>6. /\ F[a] < F[b] => At(w, q, k, F[a])[p] <= At(w, q, k, F[b])[p]
        /\ F[a] # 0 => At(w, q, k, F[a])[p] # 0
    BY <1>2, <2>3 DEF Sound, Rising
  <2> QED
    BY <2>3, <2>4, <2>5, <2>6
<1> QED
  BY <1>6, <1>7, <1>8, <1>9 DEF Sound

\* Keys stay with their chats if no map has a key that the maps before did
\* not have.
LEMMA OwnKept ==
    ASSUME NEW w, NEW q, NEW x, NEW r, Own(w, q),
           \A i \in Places(r, Map), p \in Peers :
              \/ Key(x, r, p, i) = 0
              \/ \E j \in Places(q, Map) : Key(x, r, p, i) = Key(w, q, p, j)
    PROVE  Own(x, r)
BY DEF Own

-----------------------------------------------------------------------------
(* Histories.                                                              *)

\* What was in a history is in a longer one, and before what is added.
LEMMA Longer ==
    ASSUME NEW h \in Seq(Nat), NEW e \in Nat, NEW v, NEW u
    PROVE  LET c == Append(h, e) IN
           /\ c \in Seq(Nat) /\ Has(c, e)
           /\ Has(h, v) => Has(c, v) /\ Before(c, v, e)
           /\ Before(h, v, u) => Before(c, v, u)
           /\ Before(h, v, 0) => Between(c, v, e)
           /\ Parted(h, v, u) => Parted(c, v, u)
<1> DEFINE c == Append(h, e)
<1>1. /\ c \in Seq(Nat) /\ Len(c) = Len(h) + 1 /\ Len(h) \in Nat
      /\ DOMAIN h = 1 .. Len(h) /\ DOMAIN c = 1 .. Len(c)
      /\ \A i \in DOMAIN h : i \in DOMAIN c /\ c[i] = h[i] /\ i < Len(c)
      /\ Len(c) \in DOMAIN c /\ c[Len(c)] = e
  OBVIOUS
<1> HIDE DEF c
<1>2. Has(c, e)
  BY <1>1 DEF Has
<1>3. Has(h, v) => Has(c, v) /\ Before(c, v, e)
  BY <1>1 DEF Has, Before
<1>4. Before(h, v, u) => Before(c, v, u)
  BY <1>1 DEF Before
<1>5. Before(h, v, 0) => Between(c, v, e)
  BY <1>1 DEF Before, Between
<1>6. Parted(h, v, u) => Parted(c, v, u)
  <2>1. Between(h, v, u) => Between(c, v, u)
    BY <1>1 DEF Between
  <2>2. /\ Before(h, v, 0) => Before(c, v, 0)
        /\ Before(h, 0, u) => Before(c, 0, u)
    BY <1>1 DEF Before
  <2> QED
    BY <2>1, <2>2 DEF Parted
<1> QED
  BY <1>1, <1>2, <1>3, <1>4, <1>5, <1>6 DEF c

\* A newer text at the end keeps a history sorted.
LEMMA LongerSorted ==
    ASSUME NEW h \in Seq(Nat), NEW e \in Nat, Sorted(h),
           e = 0 \/ \A i \in DOMAIN h : h[i] < e
    PROVE  Sorted(Append(h, e))
<1> DEFINE c == Append(h, e)
<1>1. /\ c \in Seq(Nat) /\ Len(c) = Len(h) + 1 /\ Len(h) \in Nat
      /\ DOMAIN h = 1 .. Len(h) /\ DOMAIN c = 1 .. Len(c)
      /\ \A i \in DOMAIN h : c[i] = h[i] /\ h[i] \in Nat
      /\ c[Len(c)] = e
  OBVIOUS
<1> HIDE DEF c
<1>2. Sorted(c)
  <2> SUFFICES ASSUME NEW i \in DOMAIN c, NEW j \in DOMAIN c, i < j, c[i] # 0, c[j] # 0
               PROVE  c[i] < c[j]
    BY DEF Sorted
  <2>1. i \in DOMAIN h /\ c[i] = h[i]
    BY <1>1
  <2>2. CASE j \in DOMAIN h
    BY <1>1, <2>1, <2>2 DEF Sorted
  <2>3. CASE j \notin DOMAIN h
    <3>1. c[j] = e
      BY <1>1, <2>3
    <3> QED
      BY <1>1, <2>1, <3>1
  <2> QED
    BY <2>2, <2>3
<1> QED
  BY <1>2 DEF c

-----------------------------------------------------------------------------
(* The map in memory changes.                                              *)

\* r is q with another map in memory.
Remembers(q, r) ==
    /\ Len(r) = Len(q)
    /\ \A i \in DOMAIN q : i # Len(q) => r[i] = q[i]

\* Places and keys when only the map in memory differs.
LEMMA RemembersTypes ==
    ASSUME NEW w, NEW q, NEW r, NEW n, Way(w, q, n), Way(w, r, n), Remembers(q, r),
           NEW p \in Peers
    PROVE  /\ \A b : Places(r, b) = Places(q, b)
           /\ \A k \in Keys : \A i \in Places(q, k) : At(w, r, k, i) = At(w, q, k, i)
           /\ \A i \in Places(q, Map) : i # Len(q) => Key(w, r, p, i) = Key(w, q, p, i)
           /\ \A k \in {0} \cup Keys : Texts(w, r, k, p) = Texts(w, q, k, p)
<1>1. /\ DOMAIN q = 1 .. Len(q) /\ DOMAIN r = DOMAIN q /\ Len(q) \in DOMAIN q
      /\ q[Len(q)].base = Map /\ r[Len(q)].base = Map
      /\ \A i \in DOMAIN q : i # Len(q) => r[i] = q[i]
  BY DEF Way, Remembers
<1>2. \A b : Places(r, b) = Places(q, b)
  BY <1>1 DEF Places, For
<1>3. \A k \in Keys : \A i \in Places(q, k) : At(w, r, k, i) = At(w, q, k, i)
  BY <1>1, Constants DEF Places, For, At
<1>4. \A i \in Places(q, Map) : i # Len(q) => Key(w, r, p, i) = Key(w, q, p, i)
  BY <1>1 DEF Places, For, Key, At
<1>5. \A k \in {0} \cup Keys : Texts(w, r, k, p) = Texts(w, q, k, p)
  BY <1>2, <1>3 DEF Texts
<1> QED
  BY <1>2, <1>3, <1>4, <1>5

\* Chat p loses its key, and 0 is added to its history.
LEMMA EmptiedSound ==
    ASSUME NEW w, NEW q, NEW r, NEW n, NEW p \in Peers, NEW h \in Seq(Nat),
           Way(w, q, n), Way(w, r, n), Remembers(q, r), Key(w, r, p, Len(q)) = 0,
           Sound(w, q, p, h)
    PROVE  Sound(w, r, p, Append(h, 0))
<1> DEFINE c == Append(h, 0)
           N == Len(q)
<1>1. /\ \A b : Places(r, b) = Places(q, b)
      /\ \A k \in Keys : \A i \in Places(q, k) : At(w, r, k, i) = At(w, q, k, i)
      /\ \A i \in Places(q, Map) : i # N => Key(w, r, p, i) = Key(w, q, p, i)
      /\ \A k \in {0} \cup Keys : Texts(w, r, k, p) = Texts(w, q, k, p)
  BY RemembersTypes
<1>2. /\ \A v : Has(h, v) => Has(c, v) /\ Before(c, v, 0)
      /\ \A v, u : Parted(h, v, u) => Parted(c, v, u)
      /\ Has(c, 0)
  BY Longer
<1>3. /\ N \in Nat /\ \A i \in Places(q, Map) : i \in Nat /\ i <= N
      /\ \A i \in Places(q, Map) : Key(w, q, p, i) \in {0} \cup Keys
  BY WayTypes
<1> HIDE DEF c, N
<1>4. Key(w, r, p, N) = 0
  BY DEF N
<1>5. Held(w, r, p, c)
  <2> SUFFICES ASSUME NEW i \in Places(q, Map), NEW v \in Texts(w, r, Key(w, r, p, i), p)
               PROVE  Has(c, v)
    BY <1>1 DEF Held
  <2>1. CASE i = N
    BY <1>2, <1>4, <2>1 DEF Texts
  <2>2. CASE i # N
    BY <1>1, <1>2, <1>3, <2>2 DEF Sound, Held
  <2> QED
    BY <2>1, <2>2
<1>6. Separate(w, r, p, c)
  <2> SUFFICES ASSUME NEW i \in Places(q, Map), NEW j \in Places(q, Map), i < j,
                      Key(w, r, p, i) # Key(w, r, p, j),
                      NEW v \in Texts(w, r, Key(w, r, p, i), p),
                      NEW u \in Texts(w, r, Key(w, r, p, j), p)
               PROVE  Parted(c, v, u)
    BY <1>1 DEF Separate
  <2>1. i # N /\ Key(w, r, p, i) = Key(w, q, p, i) /\ v \in Texts(w, q, Key(w, q, p, i), p)
    <3>1. i # N
      BY <1>3
    <3>2. Key(w, r, p, i) = Key(w, q, p, i) /\ Key(w, q, p, i) \in {0} \cup Keys
      BY <1>1, <1>3, <3>1
    <3> QED
      BY <1>1, <3>1, <3>2
  <2>2. CASE j = N
    <3>1. u = 0
      BY <1>4, <2>2 DEF Texts
    <3>2. Has(h, v)
      BY <2>1 DEF Sound, Held
    <3> QED
      BY <1>2, <3>1, <3>2 DEF Parted
  <2>3. CASE j # N
    <3>1. Key(w, r, p, j) = Key(w, q, p, j) /\ u \in Texts(w, q, Key(w, q, p, j), p)
      BY <1>1, <1>3, <2>3
    <3>2. Parted(h, v, u)
      BY <2>1, <3>1 DEF Sound, Separate
    <3> QED
      BY <1>2, <3>2
  <2> QED
    BY <2>2, <2>3
<1>7. NoReturn(w, r, p)
  <2> SUFFICES ASSUME NEW i \in Places(q, Map), NEW j \in Places(q, Map),
                      NEW l \in Places(q, Map), i < j, j < l, Key(w, r, p, i) # 0,
                      Key(w, r, p, i) # Key(w, r, p, j)
               PROVE  Key(w, r, p, i) # Key(w, r, p, l)
    BY <1>1 DEF NoReturn
  <2>1. Key(w, r, p, i) = Key(w, q, p, i) /\ Key(w, r, p, j) = Key(w, q, p, j)
    BY <1>1, <1>3
  <2>2. CASE l = N
    BY <1>4, <2>2
  <2>3. CASE l # N
    BY <1>1, <2>1, <2>3 DEF Sound, NoReturn
  <2> QED
    BY <2>2, <2>3
<1>8. Rising(w, r, p)
  <2> SUFFICES ASSUME NEW i \in Places(q, Map), NEW k, k = Key(w, r, p, i), k # 0,
                      NEW a \in Places(q, k), NEW b \in Places(q, k)
               PROVE  /\ a < b => At(w, r, k, a)[p] <= At(w, r, k, b)[p]
                      /\ a # 0 => At(w, r, k, a)[p] # 0
    BY <1>1 DEF Rising
  <2>1. k = Key(w, q, p, i) /\ k \in Keys
    BY <1>1, <1>3, <1>4
  <2> QED
    BY <1>1, <2>1 DEF Sound, Rising
<1> QED
  BY <1>5, <1>6, <1>7, <1>8 DEF Sound, c

\* Chat p, without a key, gets one that is nowhere yet.
LEMMA FreshSound ==
    ASSUME NEW w, NEW q, NEW r, NEW n, NEW p \in Peers, NEW h, NEW k \in Keys,
           Way(w, q, n), Way(w, r, n), Remembers(q, r),
           Key(w, q, p, Len(q)) = 0, Key(w, r, p, Len(q)) = k,
           \A i \in Places(q, Map) : Key(w, q, p, i) # k,
           For(q, k) = {}, w[k][p] = 0,
           Sound(w, q, p, h)
    PROVE  Sound(w, r, p, h)
<1> DEFINE N == Len(q)
<1>1. /\ \A b : Places(r, b) = Places(q, b)
      /\ \A b \in Keys : \A i \in Places(q, b) : At(w, r, b, i) = At(w, q, b, i)
      /\ \A i \in Places(q, Map) : i # N => Key(w, r, p, i) = Key(w, q, p, i)
      /\ \A b \in {0} \cup Keys : Texts(w, r, b, p) = Texts(w, q, b, p)
  BY RemembersTypes
<1>2. /\ N \in Nat /\ N \in Places(q, Map)
      /\ \A i \in Places(q, Map) : i \in Nat /\ i <= N
      /\ \A i \in Places(q, Map) : Key(w, q, p, i) \in {0} \cup Keys
  BY WayTypes
<1>3. Places(q, k) = {0} /\ Texts(w, r, k, p) = {0} /\ At(w, r, k, 0)[p] = 0
  BY <1>1, Constants DEF Places, Texts, At
<1>4. k # 0
  BY Constants
<1> HIDE DEF N
<1>5. Key(w, q, p, N) = 0 /\ Key(w, r, p, N) = k
  BY DEF N
<1>6. Held(w, r, p, h)
  <2> SUFFICES ASSUME NEW i \in Places(q, Map), NEW v \in Texts(w, r, Key(w, r, p, i), p)
               PROVE  Has(h, v)
    BY <1>1 DEF Held
  <2>1. CASE i = N
    <3>1. v = 0 /\ 0 \in Texts(w, q, Key(w, q, p, N), p)
      BY <1>3, <1>5, <2>1 DEF Texts
    <3> QED
      BY <1>2, <3>1 DEF Sound, Held
  <2>2. CASE i # N
    BY <1>1, <1>2, <2>2 DEF Sound, Held
  <2> QED
    BY <2>1, <2>2
<1>7. Separate(w, r, p, h)
  <2> SUFFICES ASSUME NEW i \in Places(q, Map), NEW j \in Places(q, Map), i < j,
                      Key(w, r, p, i) # Key(w, r, p, j),
                      NEW v \in Texts(w, r, Key(w, r, p, i), p),
                      NEW u \in Texts(w, r, Key(w, r, p, j), p)
               PROVE  Parted(h, v, u)
    BY <1>1 DEF Separate
  <2>1. i # N /\ Key(w, r, p, i) = Key(w, q, p, i) /\ v \in Texts(w, q, Key(w, q, p, i), p)
    <3>1. i # N
      BY <1>2
    <3>2. Key(w, r, p, i) = Key(w, q, p, i) /\ Key(w, q, p, i) \in {0} \cup Keys
      BY <1>1, <1>2, <3>1
    <3> QED
      BY <1>1, <3>1, <3>2
  <2>2. CASE j = N
    <3>1. u = 0 /\ 0 \in Texts(w, q, Key(w, q, p, N), p)
      BY <1>3, <1>5, <2>2 DEF Texts
    <3>2. CASE Key(w, q, p, i) = 0
      BY <2>1, <3>1, <3>2 DEF Texts, Parted
    <3>3. CASE Key(w, q, p, i) # 0
      BY <1>5, <2>1, <2>2, <3>1, <3>3 DEF Sound, Separate
    <3> QED
      BY <3>2, <3>3
  <2>3. CASE j # N
    <3>1. Key(w, r, p, j) = Key(w, q, p, j) /\ u \in Texts(w, q, Key(w, q, p, j), p)
      BY <1>1, <1>2, <2>3
    <3> QED
      BY <2>1, <3>1 DEF Sound, Separate
  <2> QED
    BY <2>2, <2>3
<1>8. NoReturn(w, r, p)
  <2> SUFFICES ASSUME NEW i \in Places(q, Map), NEW j \in Places(q, Map),
                      NEW l \in Places(q, Map), i < j, j < l, Key(w, r, p, i) # 0,
                      Key(w, r, p, i) # Key(w, r, p, j)
               PROVE  Key(w, r, p, i) # Key(w, r, p, l)
    BY <1>1 DEF NoReturn
  <2>1. Key(w, r, p, i) = Key(w, q, p, i) /\ Key(w, r, p, j) = Key(w, q, p, j)
    BY <1>1, <1>2
  <2>2. CASE l = N
    BY <1>5, <2>1, <2>2
  <2>3. CASE l # N
    BY <1>1, <2>1, <2>3 DEF Sound, NoReturn
  <2> QED
    BY <2>2, <2>3
<1>9. Rising(w, r, p)
  <2> SUFFICES ASSUME NEW i \in Places(q, Map), NEW b, b = Key(w, r, p, i), b # 0,
                      NEW a \in Places(q, b), NEW d \in Places(q, b)
               PROVE  /\ a < d => At(w, r, b, a)[p] <= At(w, r, b, d)[p]
                      /\ a # 0 => At(w, r, b, a)[p] # 0
    BY <1>1 DEF Rising
  <2>1. CASE i = N
    <3>1. a = 0 /\ d = 0
      BY <1>3, <1>5, <2>1
    <3> QED
      BY <3>1
  <2>2. CASE i # N
    <3>1. b = Key(w, q, p, i) /\ b \in Keys
      BY <1>1, <1>2, <2>2
    <3> QED
      BY <1>1, <3>1 DEF Sound, Rising
  <2> QED
    BY <2>1, <2>2
<1> QED
  BY <1>6, <1>7, <1>8, <1>9 DEF Sound

\* Chat p loses a key under which there is nothing, before its drafts were
\* written.
LEMMA UnreadSound ==
    ASSUME NEW w, NEW q, NEW r, NEW n, NEW p \in Peers, NEW h, NEW k \in Keys,
           Way(w, q, n), Way(w, r, n), Remembers(q, r),
           Key(w, r, p, Len(q)) = 0,
           \A i \in Places(q, Map) : Key(w, q, p, i) = k,
           For(q, k) = {}, w[k][p] = 0,
           Sound(w, q, p, h)
    PROVE  Sound(w, r, p, h)
<1> DEFINE N == Len(q)
<1>1. /\ \A b : Places(r, b) = Places(q, b)
      /\ \A b \in Keys : \A i \in Places(q, b) : At(w, r, b, i) = At(w, q, b, i)
      /\ \A i \in Places(q, Map) : i # N => Key(w, r, p, i) = Key(w, q, p, i)
      /\ \A b \in {0} \cup Keys : Texts(w, r, b, p) = Texts(w, q, b, p)
  BY RemembersTypes
<1>2. /\ N \in Nat /\ N \in Places(q, Map)
      /\ \A i \in Places(q, Map) : i \in Nat /\ i <= N
  BY WayTypes
<1>3. k # 0 /\ Texts(w, q, k, p) = {0} /\ Texts(w, q, 0, p) = {0} /\ Places(q, k) = {0}
  BY Constants DEF Places, Texts, At
<1>4. \A i \in Places(q, Map) : Key(w, r, p, i) \in {0, k} /\ (i < N => Key(w, r, p, i) = k)
  BY <1>1, <1>2
<1>5. \A i \in Places(q, Map) : Texts(w, r, Key(w, r, p, i), p) = {0}
  BY <1>1, <1>3, <1>4
<1>6. Has(h, 0)
  BY <1>2, <1>3 DEF Sound, Held
<1> HIDE DEF N
<1>7. Held(w, r, p, h)
  BY <1>1, <1>5, <1>6 DEF Held
<1>8. Separate(w, r, p, h)
  BY <1>1, <1>5 DEF Separate, Parted
<1>9. NoReturn(w, r, p)
  <2> SUFFICES ASSUME NEW i \in Places(q, Map), NEW j \in Places(q, Map),
                      NEW l \in Places(q, Map), i < j, j < l
               PROVE  Key(w, r, p, i) = Key(w, r, p, j)
    BY <1>1 DEF NoReturn
  <2> QED
    BY <1>2, <1>4
<1>10. Rising(w, r, p)
  <2> SUFFICES ASSUME NEW i \in Places(q, Map), NEW b, b = Key(w, r, p, i), b # 0,
                      NEW a \in Places(q, b), NEW d \in Places(q, b)
               PROVE  /\ a < d => At(w, r, b, a)[p] <= At(w, r, b, d)[p]
                      /\ a # 0 => At(w, r, b, a)[p] # 0
    BY <1>1 DEF Rising
  <2> QED
    BY <1>3, <1>4
<1> QED
  BY <1>7, <1>8, <1>9, <1>10 DEF Sound

-----------------------------------------------------------------------------
(* A text is sent to the manager.                                          *)

\* r is q with e, the last entry but for the map in memory.
Enters(q, r, e) ==
    /\ Len(r) = Len(q) + 1
    /\ \A i \in DOMAIN q : i # Len(q) => r[i] = q[i]
    /\ r[Len(q)] = e /\ r[Len(r)] = q[Len(q)]

\* The place in q of the map at place i in r.
Was(q, i) == IF i = Len(q) + 1 THEN Len(q) ELSE i

\* Places and keys when an entry comes before the map in memory.
LEMMA EntersTypes ==
    ASSUME NEW w, NEW q, NEW r, NEW n, NEW n2, NEW e, Way(w, q, n), Way(w, r, n2),
           e.base \in Keys, Enters(q, r, e), NEW p \in Peers
    PROVE  /\ \A i \in Places(r, Map) : /\ Was(q, i) \in Places(q, Map)
                                        /\ Key(w, r, p, i) = Key(w, q, p, Was(q, i))
                                        /\ \A j \in Places(r, Map) :
                                              i < j => Was(q, i) < Was(q, j)
           /\ \A k \in Keys : Places(r, k) = Places(q, k) \cup
                                 (IF k = e.base THEN {Len(q)} ELSE {})
           /\ \A k \in Keys : \A i \in Places(q, k) : At(w, r, k, i) = At(w, q, k, i)
           /\ At(w, r, e.base, Len(q)) = e.data
<1> DEFINE N == Len(q)
<1>1. /\ DOMAIN q = 1 .. N /\ N \in Nat \ {0} /\ DOMAIN r = 1 .. N + 1
      /\ q[N].base = Map /\ r[N + 1] = q[N] /\ r[N] = e /\ e.base # Map
      /\ \A i \in 1 .. N - 1 : r[i] = q[i]
  <2>1. /\ DOMAIN q = 1 .. N /\ N \in Nat \ {0} /\ q[N].base = Map
        /\ DOMAIN r = 1 .. Len(r)
    BY DEF Way
  <2>2. Len(r) = N + 1 /\ r[N] = e /\ r[N + 1] = q[N] /\ \A i \in DOMAIN q : i # N => r[i] = q[i]
    BY DEF Enters
  <2>3. e.base # Map
    BY Constants
  <2> HIDE DEF N
  <2> QED
    BY <2>1, <2>2, <2>3
<1> HIDE DEF N
<1>2. /\ 0 \in Places(q, Map) /\ N \in Places(q, Map)
      /\ \A i \in 1 .. N - 1 : i \in Places(q, Map) <=> i \in Places(r, Map)
      /\ \A i \in Places(r, Map) : i \in 0 .. N - 1 \/ i = N + 1
  BY <1>1 DEF Places, For
<1>3. \A i \in Places(r, Map) : /\ Was(q, i) \in Places(q, Map)
                                /\ \A j \in Places(r, Map) :
                                      i < j => Was(q, i) < Was(q, j)
  BY <1>1, <1>2 DEF Was, N
<1>4. \A i \in Places(r, Map) : Key(w, r, p, i) = Key(w, q, p, Was(q, i))
  <2> SUFFICES ASSUME NEW i \in Places(r, Map)
               PROVE  At(w, r, Map, i) = At(w, q, Map, Was(q, i))
    BY DEF Key
  <2>1. CASE i = N + 1
    BY <1>1, <2>1 DEF At, Was, N
  <2>2. CASE i = 0
    BY <1>1, <2>2 DEF At, Was, N
  <2>3. CASE i \in 1 .. N - 1
    BY <1>1, <2>3 DEF At, Was, N
  <2> QED
    BY <1>1, <1>2, <2>1, <2>2, <2>3
<1>5. ASSUME NEW k \in Keys
      PROVE  /\ Places(r, k) = Places(q, k) \cup (IF k = e.base THEN {N} ELSE {})
             /\ \A i \in Places(q, k) : At(w, r, k, i) = At(w, q, k, i)
  <2>1. k # Map
    BY Constants
  <2>2. \A i \in Places(q, k) : i \in 0 .. N - 1
    BY <1>1, <2>1 DEF Places, For
  <2>3. \A i : i \in For(r, k) <=> i \in For(q, k) \/ (k = e.base /\ i = N)
    <3>1. \A i \in 1 .. N - 1 : i \in For(r, k) <=> i \in For(q, k)
      BY <1>1 DEF For
    <3>2. \A i : i \in For(r, k) \/ i \in For(q, k) => i \in 1 .. N + 1
      BY <1>1 DEF For
    <3>3. N \notin For(q, k) /\ N + 1 \notin For(q, k) /\ N + 1 \notin For(r, k)
      BY <1>1, <2>1 DEF For
    <3>4. N \in For(r, k) <=> k = e.base
      BY <1>1 DEF For
    <3> QED
      BY <1>1, <3>1, <3>2, <3>3, <3>4
  <2>4. Places(r, k) = Places(q, k) \cup (IF k = e.base THEN {N} ELSE {})
    BY <2>3 DEF Places
  <2> QED
    BY <1>1, <2>2, <2>4 DEF At
<1>6. At(w, r, e.base, N) = e.data
  BY <1>1 DEF At
<1> QED
  BY <1>3, <1>4, <1>5, <1>6 DEF N

\* A new text is given under the key of p.
LEMMA EntersSound ==
    ASSUME NEW w, NEW q, NEW r, NEW n, NEW e, NEW p \in Peers, NEW h \in Seq(Nat),
           Way(w, q, n), Way(w, r, n + 1), Enters(q, r, e),
           e.base \in Keys, e.base = Key(w, q, p, Len(q)), e.data[p] = n + 1,
           Sound(w, q, p, h)
    PROVE  Sound(w, r, p, Append(h, n + 1))
<1> DEFINE N == Len(q)
           c == Append(h, n + 1)
           k == e.base
<1>1. /\ \A i \in Places(r, Map) : /\ Was(q, i) \in Places(q, Map)
                                   /\ Key(w, r, p, i) = Key(w, q, p, Was(q, i))
                                   /\ \A j \in Places(r, Map) : i < j => Was(q, i) < Was(q, j)
      /\ \A b \in Keys : Places(r, b) = Places(q, b) \cup (IF b = k THEN {N} ELSE {})
      /\ \A b \in Keys : \A i \in Places(q, b) : At(w, r, b, i) = At(w, q, b, i)
      /\ At(w, r, k, N) = e.data
  BY EntersTypes
<1>2. /\ N \in Nat /\ N \in Places(q, Map)
      /\ \A i \in Places(q, Map) : i \in Nat /\ i <= N
      /\ \A i \in Places(q, Map) : Key(w, q, p, i) \in {0} \cup Keys
      /\ \A b \in Keys : \A i \in Places(q, b) : i \in 0 .. N /\ i # N
      /\ \A b \in Keys : \A i \in Places(q, b) : At(w, q, b, i)[p] \in 0 .. n
      /\ n \in Nat /\ k # 0
  BY WayTypes, Constants DEF Way
<1>3. \A b \in {0} \cup Keys : \A v \in Texts(w, r, b, p) :
         v \in Texts(w, q, b, p) \/ (b = k /\ v = n + 1)
  <2> SUFFICES ASSUME NEW b \in Keys, NEW i \in Places(r, b)
               PROVE  \/ At(w, r, b, i)[p] \in Texts(w, q, b, p)
                      \/ b = k /\ At(w, r, b, i)[p] = n + 1
    BY Constants DEF Texts
  <2>1. CASE i \in Places(q, b)
    BY <1>1, <2>1, Constants DEF Texts
  <2>2. CASE i \notin Places(q, b)
    BY <1>1, <2>2
  <2> QED
    BY <2>1, <2>2
<1>4. /\ \A v : Has(h, v) => Has(c, v) /\ Before(c, v, n + 1)
      /\ \A v : Before(h, v, 0) => Between(c, v, n + 1)
      /\ \A v, u : Parted(h, v, u) => Parted(c, v, u)
      /\ Has(c, n + 1)
  <2>1. n + 1 \in Nat
    BY <1>2
  <2> QED
    BY <2>1, Longer
<1> HIDE DEF c, N, k
<1>5. k = Key(w, q, p, N)
  BY DEF k, N
<1>6. Held(w, r, p, c)
  <2> SUFFICES ASSUME NEW i \in Places(r, Map), NEW v \in Texts(w, r, Key(w, r, p, i), p)
               PROVE  Has(c, v)
    BY DEF Held
  <2>1. Was(q, i) \in Places(q, Map) /\ Key(w, r, p, i) = Key(w, q, p, Was(q, i))
        /\ Key(w, r, p, i) \in {0} \cup Keys
    BY <1>1, <1>2
  <2>2. v \in Texts(w, q, Key(w, q, p, Was(q, i)), p) \/ v = n + 1
    BY <1>3, <2>1
  <2>3. v \in Texts(w, q, Key(w, q, p, Was(q, i)), p) => Has(h, v)
    BY <2>1 DEF Sound, Held
  <2> QED
    BY <1>4, <2>2, <2>3
<1>7. \A i, j \in Places(q, Map) :
         i < j /\ Key(w, q, p, i) = k => Key(w, q, p, j) = k
  <2> SUFFICES ASSUME NEW i \in Places(q, Map), NEW j \in Places(q, Map), i < j,
                      Key(w, q, p, i) = k, Key(w, q, p, j) # k
               PROVE  FALSE
    OBVIOUS
  <2>1. j < N
    BY <1>2, <1>5
  <2> QED
    BY <1>2, <1>5, <2>1 DEF Sound, NoReturn
<1>8. Separate(w, r, p, c)
  <2> SUFFICES ASSUME NEW a \in Places(r, Map), NEW b \in Places(r, Map), a < b,
                      Key(w, r, p, a) # Key(w, r, p, b),
                      NEW v \in Texts(w, r, Key(w, r, p, a), p),
                      NEW u \in Texts(w, r, Key(w, r, p, b), p)
               PROVE  Parted(c, v, u)
    BY DEF Separate
  <2> DEFINE i == Was(q, a)
             j == Was(q, b)
  <2>1. /\ i \in Places(q, Map) /\ j \in Places(q, Map) /\ i < j
        /\ Key(w, r, p, a) = Key(w, q, p, i) /\ Key(w, r, p, b) = Key(w, q, p, j)
        /\ Key(w, r, p, a) \in {0} \cup Keys /\ Key(w, r, p, b) \in {0} \cup Keys
    BY <1>1, <1>2
  <2> HIDE DEF i, j
  <2>2. Key(w, q, p, i) # k
    BY <1>7, <2>1
  <2>3. v \in Texts(w, q, Key(w, q, p, i), p)
    BY <1>3, <2>1, <2>2
  <2>4. CASE u \in Texts(w, q, Key(w, q, p, j), p)
    BY <1>4, <2>1, <2>3, <2>4 DEF Sound, Separate
  <2>5. CASE Key(w, q, p, j) = k /\ u = n + 1
    <3>1. Has(h, v)
      BY <2>1, <2>3 DEF Sound, Held
    <3>2. CASE v = 0
      BY <1>2, <1>4, <2>5, <3>1, <3>2 DEF Parted
    <3>3. CASE v # 0
      <4>1. Before(h, v, 0)
        <5>1. PICK z : z \in Texts(w, q, Key(w, q, p, j), p)
          <6>1. At(w, q, k, 0)[p] \in Texts(w, q, Key(w, q, p, j), p)
            BY <1>2, <2>5 DEF Texts, Places
          <6> QED
            BY <6>1
        <5>2. Parted(h, v, z)
          BY <2>1, <2>3, <5>1 DEF Sound, Separate
        <5> QED
          BY <3>3, <5>2 DEF Parted, Between, Before
      <4> QED
        BY <1>2, <1>4, <2>5, <3>3, <4>1 DEF Parted
    <3> QED
      BY <3>2, <3>3
  <2> QED
    BY <1>3, <2>1, <2>4, <2>5
<1>9. NoReturn(w, r, p)
  <2> SUFFICES ASSUME NEW i \in Places(r, Map), NEW j \in Places(r, Map),
                      NEW l \in Places(r, Map), i < j, j < l, Key(w, r, p, i) # 0,
                      Key(w, r, p, i) # Key(w, r, p, j)
               PROVE  Key(w, r, p, i) # Key(w, r, p, l)
    BY DEF NoReturn
  <2> QED
    BY <1>1 DEF Sound, NoReturn
<1>10. Rising(w, r, p)
  <2> SUFFICES ASSUME NEW i \in Places(r, Map), NEW b, b = Key(w, r, p, i), b # 0,
                      NEW a \in Places(r, b), NEW d \in Places(r, b)
               PROVE  /\ a < d => At(w, r, b, a)[p] <= At(w, r, b, d)[p]
                      /\ a # 0 => At(w, r, b, a)[p] # 0
    BY DEF Rising
  <2>1. b = Key(w, q, p, Was(q, i)) /\ Was(q, i) \in Places(q, Map) /\ b \in Keys
    BY <1>1, <1>2
  <2>2. \A z \in Places(r, b) : \/ z \in Places(q, b) /\ At(w, r, b, z) = At(w, q, b, z)
                                \/ b = k /\ z = N /\ At(w, r, b, z)[p] = n + 1
    BY <1>1, <2>1 DEF k
  <2>3. CASE a \in Places(q, b) /\ d \in Places(q, b)
    BY <1>1, <2>1, <2>3 DEF Sound, Rising
  <2>4. CASE a \in Places(q, b) /\ d \notin Places(q, b)
    <3>1. At(w, r, b, d)[p] = n + 1 /\ At(w, r, b, a) = At(w, q, b, a)
          /\ At(w, q, b, a)[p] \in 0 .. n
      BY <1>1, <1>2, <2>1, <2>2, <2>4
    <3>2. a # 0 => At(w, q, b, a)[p] # 0
      BY <2>1, <2>4 DEF Sound, Rising
    <3> QED
      BY <1>2, <3>1, <3>2
  <2>5. CASE a \notin Places(q, b)
    <3>1. a = N /\ At(w, r, b, a)[p] = n + 1
      BY <2>2, <2>5
    <3>2. d <= N
      BY <1>2, <2>1, <2>2
    <3>3. d \in Int
      BY <1>2, <2>1, <2>2
    <3> QED
      BY <1>2, <3>1, <3>2, <3>3
  <2> QED
    BY <2>3, <2>4, <2>5
<1> QED
  BY <1>6, <1>8, <1>9, <1>10 DEF Sound, c

-----------------------------------------------------------------------------
(* Files are removed.                                                      *)

\* Nothing is lost with files whose keys are not in memory.
LEMMA ClearedSound ==
    ASSUME NEW w, NEW q, NEW x, NEW n, NEW p \in Peers, NEW h,
           Way(w, q, n), Way(x, q, n), x[Map] = w[Map],
           \A k \in Keys : x[k] = w[k] \/ (x[k] = Empty /\ k # Key(w, q, p, Len(q))),
           Sound(w, q, p, h)
    PROVE  Sound(x, q, p, h)
<1> DEFINE N == Len(q)
<1>1. /\ N \in Nat /\ N \in Places(q, Map)
      /\ \A i \in Places(q, Map) : i \in Nat /\ i <= N
      /\ \A i \in Places(q, Map) : Key(w, q, p, i) \in {0} \cup Keys
      /\ \A k \in Keys : \A i \in Places(q, k) : At(w, q, k, i)[p] \in 0 .. n
      /\ \A k \in Keys : 0 \in Places(q, k)
      /\ n \in Nat
  <2>1. n \in Nat
    BY DEF Way
  <2> QED
    BY <2>1, WayTypes
<1>2. \A i \in Places(q, Map) : Key(x, q, p, i) = Key(w, q, p, i)
  BY DEF Key, At
<1>3. Empty[p] = 0
  BY DEF Empty
<1>4. \A k \in Keys : \A i \in Places(q, k) :
         \/ At(x, q, k, i)[p] = At(w, q, k, i)[p]
         \/ i = 0 /\ At(x, q, k, i)[p] = 0 /\ k # Key(w, q, p, N)
  BY <1>3 DEF At
<1> HIDE DEF N
<1>5. \A k \in {0} \cup Keys : \A v \in Texts(x, q, k, p) :
         v \in Texts(w, q, k, p) \/ (v = 0 /\ k \in Keys /\ k # Key(w, q, p, N))
  BY <1>4, Constants DEF Texts
<1>6. \A i \in Places(q, Map) : Texts(w, q, Key(w, q, p, i), p) # {}
  <2> SUFFICES ASSUME NEW k \in {0} \cup Keys PROVE Texts(w, q, k, p) # {}
    BY <1>1
  <2>1. CASE k = 0
    BY <2>1 DEF Texts
  <2>2. CASE k # 0
    BY <1>1, <2>2 DEF Texts
  <2> QED
    BY <2>1, <2>2
<1>7. Held(x, q, p, h)
  <2> SUFFICES ASSUME NEW i \in Places(q, Map), NEW v \in Texts(x, q, Key(w, q, p, i), p)
               PROVE  Has(h, v)
    BY <1>2 DEF Held
  <2>1. CASE v \in Texts(w, q, Key(w, q, p, i), p)
    BY <2>1 DEF Sound, Held
  <2>2. CASE v = 0 /\ Key(w, q, p, i) # Key(w, q, p, N)
    <3>1. PICK z : z \in Texts(w, q, Key(w, q, p, i), p)
      BY <1>6
    <3>2. PICK y : y \in Texts(w, q, Key(w, q, p, N), p)
      BY <1>1, <1>6
    <3>3. Has(h, z) /\ Has(h, y)
      BY <1>1, <3>1, <3>2 DEF Sound, Held
    <3>4. i < N
      BY <1>1, <2>2
    <3>5. Parted(h, z, y)
      BY <1>1, <2>2, <3>1, <3>2, <3>4 DEF Sound, Separate
    <3> QED
      BY <2>2, <3>3, <3>5 DEF Parted, Between, Before, Has
  <2> QED
    BY <1>1, <1>5, <2>1, <2>2
<1>8. Separate(x, q, p, h)
  <2> SUFFICES ASSUME NEW i \in Places(q, Map), NEW j \in Places(q, Map), i < j,
                      Key(w, q, p, i) # Key(w, q, p, j),
                      NEW v \in Texts(x, q, Key(w, q, p, i), p),
                      NEW u \in Texts(x, q, Key(w, q, p, j), p)
               PROVE  Parted(h, v, u)
    BY <1>2 DEF Separate
  <2>1. /\ v \in Texts(w, q, Key(w, q, p, i), p) \/ v = 0
        /\ u \in Texts(w, q, Key(w, q, p, j), p) \/ u = 0
    BY <1>1, <1>5
  <2>2. PICK z : z \in Texts(w, q, Key(w, q, p, i), p) /\ (v # 0 => z = v)
    BY <1>6, <2>1
  <2>3. PICK y : y \in Texts(w, q, Key(w, q, p, j), p) /\ (u # 0 => y = u)
    BY <1>6, <2>1
  <2>4. Parted(h, z, y)
    BY <2>2, <2>3 DEF Sound, Separate
  <2> QED
    BY <2>2, <2>3, <2>4 DEF Parted, Between, Before
<1>9. NoReturn(x, q, p)
  BY <1>2 DEF Sound, NoReturn
<1>10. Rising(x, q, p)
  <2> SUFFICES ASSUME NEW i \in Places(q, Map), NEW k, k = Key(w, q, p, i), k # 0,
                      NEW a \in Places(q, k), NEW b \in Places(q, k)
               PROVE  /\ a < b => At(x, q, k, a)[p] <= At(x, q, k, b)[p]
                      /\ a # 0 => At(x, q, k, a)[p] # 0
    BY <1>2 DEF Rising
  <2>1. k \in Keys /\ a \in Nat /\ b \in Nat
    BY <1>1, WayTypes
  <2>2. /\ a < b => At(w, q, k, a)[p] <= At(w, q, k, b)[p]
        /\ a # 0 => At(w, q, k, a)[p] # 0
        /\ At(w, q, k, a)[p] \in 0 .. n /\ At(w, q, k, b)[p] \in 0 .. n
    BY <1>1, <2>1 DEF Sound, Rising
  <2>3. /\ At(x, q, k, a)[p] = At(w, q, k, a)[p] \/ (a = 0 /\ At(x, q, k, a)[p] = 0)
        /\ At(x, q, k, b)[p] = At(w, q, k, b)[p] \/ b = 0
    BY <1>4, <2>1
  <2> QED
    BY <1>1, <2>1, <2>2, <2>3
<1> QED
  BY <1>7, <1>8, <1>9, <1>10 DEF Sound

-----------------------------------------------------------------------------
(* A write is over: the history begins with what a start would read.       *)

\* c is the history h from f on.
IsCut(h, f, c) ==
    /\ DOMAIN h = 1 .. Len(h) /\ Len(h) \in Nat /\ f \in 1 .. Len(h)
    /\ \A i \in DOMAIN h : h[i] \in Nat
    /\ c \in Seq(Nat) /\ Len(c) = Len(h) - f + 1
    /\ DOMAIN c = 1 .. Len(h) - f + 1
    /\ \A i \in DOMAIN c : c[i] = h[i + f - 1]

LEMMA CutIs ==
    ASSUME NEW h \in Seq(Nat), NEW f \in DOMAIN h
    PROVE  IsCut(h, f, SubSeq(h, f, Len(h)))
<1> DEFINE c == SubSeq(h, f, Len(h))
<1>1. DOMAIN h = 1 .. Len(h) /\ Len(h) \in Nat /\ f \in 1 .. Len(h)
  OBVIOUS
<1>2. \A i \in DOMAIN h : h[i] \in Nat
  OBVIOUS
<1>3. c \in Seq(Nat) /\ Len(c) = Len(h) - f + 1
  BY <1>1
<1>4. DOMAIN c = 1 .. Len(h) - f + 1
  BY <1>3
<1>5. \A i \in 1 .. Len(h) - f + 1 : c[i] = h[i + f - 1]
  BY <1>1, SMTT(30)
<1> HIDE DEF c
<1> QED
  BY <1>1, <1>2, <1>3, <1>4, <1>5 DEF IsCut, c

\* settled(): what a start may read stays in the history that is cut at what a
\* start would read now.
LEMMA CutSound ==
    ASSUME NEW w, NEW q, NEW n, NEW p \in Peers, NEW h \in Seq(Nat), NEW f \in DOMAIN h,
           Way(w, q, n), Sorted(h), Sound(w, q, p, h),
           LET k == w[Map][p] IN
           /\ h[f] = IF k # 0 THEN w[k][p] ELSE 0
           /\ h[f] # 0 \/ k = 0,
           \A i \in 1 .. f - 1 : h[i] # h[f]
    PROVE  LET c == SubSeq(h, f, Len(h))
           IN  c \in Seq(Nat) /\ c # << >> /\ Sorted(c) /\ Sound(w, q, p, c)
<1> DEFINE c == SubSeq(h, f, Len(h))
           k == w[Map][p]
<1>1. /\ DOMAIN h = 1 .. Len(h) /\ Len(h) \in Nat /\ f \in 1 .. Len(h)
      /\ \A i \in DOMAIN h : h[i] \in Nat
      /\ c \in Seq(Nat) /\ Len(c) = Len(h) - f + 1
      /\ DOMAIN c = 1 .. Len(h) - f + 1
      /\ \A i \in DOMAIN c : c[i] = h[i + f - 1]
  BY CutIs DEF IsCut
<1>0. f \in Nat /\ \A i \in DOMAIN h : i \in Nat /\ h[i] \in Nat /\ (i < f => i \in 1 .. f - 1)
  <2>1. f \in Nat /\ \A i \in DOMAIN h : h[i] \in Nat
    BY <1>1
  <2>2. \A i \in 1 .. Len(h) : i \in Nat /\ (i < f => i \in 1 .. f - 1)
    BY <2>1
  <2> QED
    BY <1>1, <2>1, <2>2
<1>2. /\ k = Key(w, q, p, 0) /\ 0 \in Places(q, Map) /\ k \in {0} \cup Keys
      /\ \A i \in Places(q, Map) : i \in Nat
      /\ \A i \in Places(q, Map) : Key(w, q, p, i) \in {0} \cup Keys
      /\ \A b \in Keys : 0 \in Places(q, b)
      /\ \A b \in Keys : \A i \in Places(q, b) : i \in Nat /\ At(w, q, b, i)[p] \in Nat
  <2>1. k = Key(w, q, p, 0)
    BY DEF Key, At
  <2>2. n \in Nat
    BY DEF Way
  <2> HIDE DEF k
  <2> QED
    BY <2>1, <2>2, WayTypes
<1>3. h[f] \in Texts(w, q, k, p)
  BY <1>2 DEF Texts, At
<1> HIDE DEF c
<1>4. \A i \in DOMAIN h : i >= f => i - f + 1 \in DOMAIN c /\ c[i - f + 1] = h[i]
  <2> SUFFICES ASSUME NEW i \in DOMAIN h, i >= f
               PROVE  i - f + 1 \in DOMAIN c /\ c[i - f + 1] = h[i]
    OBVIOUS
  <2> DEFINE j == i - f + 1
  <2>1. j \in DOMAIN c /\ j + f - 1 = i
    <3>1. i \in Int /\ f \in Int /\ Len(h) \in Int /\ f <= i /\ i <= Len(h)
      BY <1>1
    <3>2. j \in 1 .. Len(h) - f + 1 /\ j + f - 1 = i
      BY <3>1
    <3> QED
      BY <1>1, <3>2
  <2>2. c[j] = h[j + f - 1]
    BY <1>1, <2>1
  <2> QED
    BY <2>1, <2>2
<1>5. /\ h[f] = IF k # 0 THEN w[k][p] ELSE 0
      /\ h[f] # 0 \/ k = 0
  OBVIOUS
<1> HIDE DEF k
<1>6. \A v : (\E i \in DOMAIN h : i >= f /\ h[i] = v) => Has(c, v)
  BY <1>4 DEF Has
<1>7. \A i, j \in DOMAIN h : h[i] = h[j] /\ h[i] # 0 => i = j
  <2> SUFFICES ASSUME NEW i \in DOMAIN h, NEW j \in DOMAIN h, h[i] = h[j], h[i] # 0
               PROVE  i = j
    OBVIOUS
  <2>1. h[i] \in Nat /\ h[j] \in Nat /\ i \in Nat /\ j \in Nat
    BY <1>0
  <2>2. ~(i < j) /\ ~(j < i)
    BY <2>1 DEF Sorted
  <2> QED
    BY <2>1, <2>2
<1>8. \A i \in DOMAIN h : h[i] = h[f] => i >= f
  BY <1>0
<1>9. ASSUME NEW i \in Places(q, Map), NEW v \in Texts(w, q, Key(w, q, p, i), p)
      PROVE  \E j \in DOMAIN h : j >= f /\ h[j] = v
  <2>1. Has(h, v)
    BY DEF Sound, Held
  <2>2. CASE v = h[f]
    BY <1>0, <2>2
  <2>3. CASE v # h[f] /\ Key(w, q, p, i) # k
    <3>1. 0 < i
      BY <1>2, <2>3
    <3>2. Parted(h, h[f], v)
      BY <1>2, <1>3, <2>3, <3>1 DEF Sound, Separate
    <3>3. CASE h[f] = 0
      <4>1. Before(h, h[f], v)
        BY <2>3, <3>2, <3>3 DEF Parted
      <4>2. PICK a \in DOMAIN h, b \in DOMAIN h : a < b /\ h[a] = h[f] /\ h[b] = v
        BY <4>1 DEF Before
      <4>3. a >= f /\ a \in Nat /\ b \in Nat
        BY <1>0, <1>8, <4>2
      <4>4. b >= f
        BY <1>0, <4>2, <4>3
      <4> QED
        BY <4>2, <4>4
    <3>4. CASE h[f] # 0
      <4>1. \E a, b \in DOMAIN h : a < b /\ h[a] = h[f] /\ h[b] = v
        <5>1. CASE v = 0
          BY <3>2, <3>4, <5>1 DEF Parted, Before
        <5>2. CASE v # 0
          <6>1. Between(h, h[f], v)
            BY <3>2, <3>4, <5>2 DEF Parted
          <6>2. PICK a \in DOMAIN h, b \in DOMAIN h, d \in DOMAIN h :
                   a < b /\ b < d /\ h[a] = h[f] /\ h[d] = v
            BY <6>1 DEF Between
          <6>3. a < d
            BY <1>0, <6>2
          <6> QED
            BY <6>2, <6>3
        <5> QED
          BY <5>1, <5>2
      <4>2. PICK a \in DOMAIN h, b \in DOMAIN h : a < b /\ h[a] = h[f] /\ h[b] = v
        BY <4>1
      <4>3. a >= f /\ a \in Nat /\ b \in Nat
        BY <1>0, <1>8, <4>2
      <4>4. b >= f
        BY <1>0, <4>2, <4>3
      <4> QED
        BY <4>2, <4>4
    <3> QED
      BY <3>3, <3>4
  <2>4. CASE v # h[f] /\ Key(w, q, p, i) = k
    <3>1. k # 0
      BY <1>5, <2>4 DEF Texts
    <3>2. k \in Keys /\ h[f] = At(w, q, k, 0)[p] /\ h[f] # 0
      BY <1>2, <1>5, <3>1, Constants DEF At
    <3>3. PICK a \in Places(q, k) : v = At(w, q, k, a)[p]
      BY <2>4, <3>1 DEF Texts
    <3>4. a # 0 /\ a \in Nat /\ v \in Nat /\ h[f] \in Nat
      BY <1>2, <2>4, <3>2, <3>3
    <3>5. v # 0 /\ h[f] <= v
      BY <1>2, <2>4, <3>1, <3>2, <3>3, <3>4 DEF Sound, Rising
    <3>6. PICK j \in DOMAIN h : h[j] = v
      BY <2>1 DEF Has
    <3>7. ~(j < f)
      <4>1. j < f => h[j] < h[f]
        BY <3>2, <3>5, <3>6 DEF Sorted
      <4> QED
        BY <3>4, <3>5, <3>6, <4>1
    <3> QED
      BY <1>0, <3>6, <3>7
  <2> QED
    BY <2>2, <2>3, <2>4
<1>10. Held(w, q, p, c)
  BY <1>6, <1>9 DEF Held
<1>11. \A v, u : (\E i, j \in DOMAIN h : i >= f /\ i < j /\ h[i] = v /\ h[j] = u)
                    => Before(c, v, u)
  <2> SUFFICES ASSUME NEW i \in DOMAIN h, NEW j \in DOMAIN h, i >= f, i < j
               PROVE  Before(c, h[i], h[j])
    OBVIOUS
  <2>1. i \in Nat /\ j \in Nat /\ f \in Nat
    BY <1>0
  <2>2. i - f + 1 < j - f + 1 /\ j >= f
    BY <2>1
  <2> QED
    BY <1>4, <2>2 DEF Before
<1>12. \A v, u : (\E i, j, l \in DOMAIN h : i >= f /\ i < j /\ j < l /\ h[i] = v
                                           /\ h[j] = 0 /\ h[l] = u)
                    => Between(c, v, u)
  <2> SUFFICES ASSUME NEW i \in DOMAIN h, NEW j \in DOMAIN h, NEW l \in DOMAIN h,
                      i >= f, i < j, j < l, h[j] = 0
               PROVE  Between(c, h[i], h[l])
    OBVIOUS
  <2>1. i \in Nat /\ j \in Nat /\ l \in Nat /\ f \in Nat
    BY <1>0
  <2>2. i - f + 1 < j - f + 1 /\ j - f + 1 < l - f + 1
    BY <2>1
  <2>3. j >= f /\ l >= f
    BY <2>1
  <2> QED
    BY <1>4, <2>2, <2>3 DEF Between
<1>13. Separate(w, q, p, c)
  <2> SUFFICES ASSUME NEW i \in Places(q, Map), NEW j \in Places(q, Map), i < j,
                      Key(w, q, p, i) # Key(w, q, p, j),
                      NEW v \in Texts(w, q, Key(w, q, p, i), p),
                      NEW u \in Texts(w, q, Key(w, q, p, j), p)
               PROVE  Parted(c, v, u)
    BY DEF Separate
  <2>1. Parted(h, v, u)
    BY DEF Sound, Separate
  <2>2. v # 0 => \A a \in DOMAIN h : h[a] = v => a >= f
    BY <1>7, <1>9
  <2>3. v # 0 /\ u # 0 => Between(c, v, u)
    <3> SUFFICES ASSUME v # 0, u # 0 PROVE Between(c, v, u)
      OBVIOUS
    <3>1. PICK a \in DOMAIN h, b \in DOMAIN h, d \in DOMAIN h :
             a < b /\ b < d /\ h[a] = v /\ h[b] = 0 /\ h[d] = u
      BY <2>1 DEF Parted, Between
    <3>2. a >= f
      BY <2>2, <3>1
    <3> QED
      BY <1>12, <3>1, <3>2
  <2>4. v # 0 /\ u = 0 => Before(c, v, 0)
    <3> SUFFICES ASSUME v # 0, u = 0 PROVE Before(c, v, 0)
      OBVIOUS
    <3>1. PICK a \in DOMAIN h, b \in DOMAIN h : a < b /\ h[a] = v /\ h[b] = 0
      BY <2>1 DEF Parted, Before
    <3>2. a >= f
      BY <2>2, <3>1
    <3> QED
      BY <1>11, <3>1, <3>2
  <2>5. ASSUME v = 0, u # 0
        PROVE  \E a, b \in DOMAIN h : a >= f /\ a < b /\ h[a] = 0 /\ h[b] = u
    <3>1. CASE h[f] = 0
      BY <1>8, <2>1, <2>5, <3>1 DEF Parted, Before
    <3>2. CASE h[f] # 0
      <4>1. Key(w, q, p, j) # k /\ 0 < j
        BY <1>2, <1>5, <3>2 DEF Sound, NoReturn
      <4>2. Parted(h, h[f], u)
        BY <1>2, <1>3, <4>1 DEF Sound, Separate
      <4>3. PICK a \in DOMAIN h, b \in DOMAIN h, d \in DOMAIN h :
               a < b /\ b < d /\ h[a] = h[f] /\ h[b] = 0 /\ h[d] = u
        BY <2>5, <3>2, <4>2 DEF Parted, Between
      <4> QED
        BY <1>1, <1>8, <4>3
    <3> QED
      BY <3>1, <3>2
  <2> QED
    BY <1>11, <2>3, <2>4, <2>5 DEF Parted
<1>14. Sorted(c)
  <2> SUFFICES ASSUME NEW i \in DOMAIN c, NEW j \in DOMAIN c, i < j, c[i] # 0, c[j] # 0
               PROVE  c[i] < c[j]
    BY DEF Sorted
  <2>1. /\ i + f - 1 \in DOMAIN h /\ j + f - 1 \in DOMAIN h /\ i + f - 1 < j + f - 1
        /\ c[i] = h[i + f - 1] /\ c[j] = h[j + f - 1]
    <3>1. i \in 1 .. Len(h) - f + 1 /\ j \in 1 .. Len(h) - f + 1
      BY <1>1
    <3>2. i + f - 1 \in 1 .. Len(h) /\ j + f - 1 \in 1 .. Len(h) /\ i + f - 1 < j + f - 1
      <4>1. f \in Int /\ Len(h) \in Int /\ 1 <= f
        BY <1>1
      <4>2. i \in Int /\ 1 <= i /\ i <= Len(h) - f + 1
        BY <3>1, <4>1
      <4>3. j \in Int /\ 1 <= j /\ j <= Len(h) - f + 1
        BY <3>1, <4>1
      <4>4. i + f - 1 \in 1 .. Len(h)
        BY <4>1, <4>2
      <4>5. j + f - 1 \in 1 .. Len(h)
        BY <4>1, <4>3
      <4>6. i + f - 1 < j + f - 1
        BY <4>1, <4>2, <4>3
      <4> QED
        BY <4>4, <4>5, <4>6
    <3> QED
      BY <1>1, <3>2
  <2> QED
    BY <2>1 DEF Sorted
<1>15. Sound(w, q, p, c)
  BY <1>10, <1>13 DEF Sound
<1>16. c # << >>
  BY <1>1
<1> QED
  BY <1>1, <1>14, <1>15, <1>16 DEF c

-----------------------------------------------------------------------------
(* The invariant of the storage.                                           *)

\* Files and entries of drafts hold texts that were given.
Drafts(n) == [Peers -> 0 .. n]

Dated ==
    /\ \A k \in Keys : /\ disk[k].s \in Drafts(version) \cup {NoFile, Torn}
                       /\ disk[k].plain \in Drafts(version) \cup {NoFile, Torn}
    /\ \A e \in Waiting : e.base \in Keys => e.data \in Drafts(version)

Recorded ==
    /\ kept \in [Peers -> Seq(Nat)]
    /\ \A p \in Peers : /\ kept[p] # << >> /\ Sorted(kept[p])
                        /\ \A i \in DOMAIN kept[p] : kept[p][i] <= version

\* A file that was written has its content, unless it was removed meanwhile.
Removed(b) == disk[b] = Missing /\ b # Map /\ \A p \in Peers : keys[p] # b

Staged ==
    /\ writing.stage = "clean" => disk[writing.base].s = writing.data \/ Removed(writing.base)
    /\ writing.stage \in {"rename", "unsafe"} /\ ~spoiled =>
          disk[writing.base].plain = writing.data \/ Removed(writing.base)

Queued ==
    /\ \A i, j \in DOMAIN scheduled : scheduled[i].base = scheduled[j].base => i = j
    /\ \A e \in Range(inbox) \cup Range(scheduled) : e.stage = "save"

Cleaning ==
    /\ cleanup = "remove" => \A p \in Peers : keys[p] \notin listed
    /\ mode = "down" => cleanup = "list"

\* The drafts of a chat that were not read are under the key that the map on
\* the disk gave.
Unread ==
    \A p \in notRead : \A i \in Places(Line, Map) : Key(View(disk), Line, p, i) = keys[p]

Current ==
    mode # "down" /\ ~spoiled =>
        /\ \A p \in Peers : Sound(View(disk), Line, p, kept[p])
        /\ Own(View(disk), Line)
        /\ Unread

AtRest == mode = "down" /\ ~spoiled => \A p \in Peers : Has(kept[p], ReadBack(disk, p))

Regular == Dated /\ Recorded /\ Staged /\ Queued /\ Cleaning

KeptInv == IInv /\ Regular /\ Current /\ AtRest

\* The line, entry by entry.
LEMMA LineIs ==
    ASSUME NEW e, NEW queue \in Seq(Entries), NEW calls \in Seq(Entries), NEW m
    PROVE  LET q == LineOf(e, queue, calls, m)
               s == Len(queue)
               t == Len(calls)
           IN  /\ s \in Nat /\ t \in Nat
               /\ Len(q) = s + t + 2 /\ DOMAIN q = 1 .. s + t + 2
               /\ q = [i \in 1 .. s + t + 2 |->
                          IF i = 1 THEN e
                          ELSE IF i <= s + 1 THEN queue[i - 1]
                          ELSE IF i <= s + t + 1 THEN calls[i - s - 1]
                          ELSE Entry(Map, m)]
<1> DEFINE q == LineOf(e, queue, calls, m)
           s == Len(queue)
           t == Len(calls)
           T == Entries \cup {e, Entry(Map, m)}
<1>1. /\ s \in Nat /\ t \in Nat /\ queue \in Seq(T) /\ calls \in Seq(T)
      /\ <<e>> \in Seq(T) /\ <<Entry(Map, m)>> \in Seq(T)
  OBVIOUS
<1> HIDE DEF T
<1>2. <<e>> \o queue \in Seq(T) /\ Len(<<e>> \o queue) = s + 1
  BY <1>1
<1>3. \A i \in 1 .. s + 1 : (<<e>> \o queue)[i] = IF i = 1 THEN e ELSE queue[i - 1]
  BY <1>1
<1> DEFINE a == <<e>> \o queue
<1>4. a \o calls \in Seq(T) /\ Len(a \o calls) = s + t + 1
  BY <1>1, <1>2
<1>5. \A i \in 1 .. s + t + 1 :
         (a \o calls)[i] = IF i <= s + 1 THEN a[i] ELSE calls[i - s - 1]
  <2> HIDE DEF a
  <2> QED
    BY <1>1, <1>2 DEF a
<1> DEFINE b == a \o calls
<1>6. /\ b \o <<Entry(Map, m)>> \in Seq(T)
      /\ Len(b \o <<Entry(Map, m)>>) = s + t + 2
  BY <1>1, <1>4
<1>7. \A i \in 1 .. s + t + 2 :
         (b \o <<Entry(Map, m)>>)[i] = IF i <= s + t + 1 THEN b[i] ELSE Entry(Map, m)
  <2> HIDE DEF b
  <2> QED
    BY <1>1, <1>4 DEF b
<1> DEFINE z == b \o <<Entry(Map, m)>>
<1>8. q = z
  BY DEF LineOf
<1> HIDE DEF z, b, a, s, t, q
<1>9. \A i \in 1 .. s + t + 2 :
         z[i] = IF i = 1 THEN e
                ELSE IF i <= s + 1 THEN queue[i - 1]
                ELSE IF i <= s + t + 1 THEN calls[i - s - 1]
                ELSE Entry(Map, m)
  <2> SUFFICES ASSUME NEW i \in 1 .. s + t + 2
               PROVE  z[i] = IF i = 1 THEN e
                             ELSE IF i <= s + 1 THEN queue[i - 1]
                             ELSE IF i <= s + t + 1 THEN calls[i - s - 1]
                             ELSE Entry(Map, m)
    OBVIOUS
  <2>1. z[i] = IF i <= s + t + 1 THEN b[i] ELSE Entry(Map, m)
    BY <1>7 DEF z
  <2>2. i <= s + t + 1 => b[i] = IF i <= s + 1 THEN a[i] ELSE calls[i - s - 1]
    <3>1. i <= s + t + 1 => i \in 1 .. s + t + 1
      BY <1>1
    <3>2. \A j \in 1 .. s + t + 1 : b[j] = IF j <= s + 1 THEN a[j] ELSE calls[j - s - 1]
      BY <1>5 DEF b
    <3> QED
      BY <3>1, <3>2
  <2>3. i <= s + 1 => a[i] = IF i = 1 THEN e ELSE queue[i - 1]
    <3>1. i <= s + 1 => i \in 1 .. s + 1
      BY <1>1
    <3>2. \A j \in 1 .. s + 1 : a[j] = IF j = 1 THEN e ELSE queue[j - 1]
      BY <1>3 DEF a
    <3> QED
      BY <3>1, <3>2
  <2> QED
    BY <1>1, <2>1, <2>2, <2>3
<1>10. z \in Seq(T) /\ Len(z) = s + t + 2
  BY <1>6 DEF z
<1>11. z = [i \in 1 .. s + t + 2 |-> z[i]]
  BY <1>1, <1>10
<1> QED
  BY <1>1, <1>8, <1>9, <1>10, <1>11 DEF q, s, t

\* The content of a file, as a start sees it.
LEMMA Seen ==
    ASSUME NEW files, NEW b \in Bases
    PROVE  View(files)[b] =
             IF files[b].s # NoFile
               THEN IF files[b].s = Torn THEN Empty ELSE files[b].s
               ELSE IF files[b].plain \in {NoFile, Torn} THEN Empty ELSE files[b].plain
BY DEF View, Readable, Tried

\* The map, as a start sees it.
LEMMA SeenMap == View(disk)[Map] = ReadMap(disk)
BY Constants DEF View, ReadMap

\* The text of a chat, as a start sees it.
LEMMA SeenText ==
    ASSUME NEW p \in Peers, View(disk)[Map][p] \in {0} \cup Keys
    PROVE  ReadBack(disk, p) =
              IF View(disk)[Map][p] # 0 THEN View(disk)[View(disk)[Map][p]][p] ELSE 0
<1>1. View(disk)[Map][p] = ReadMap(disk)[p]
  BY SeenMap
<1>2. CASE ReadMap(disk)[p] = 0
  BY <1>1, <1>2 DEF ReadBack
<1>3. CASE ReadMap(disk)[p] # 0
  <2>1. ReadMap(disk)[p] \in Bases
    BY <1>1, <1>3, Constants
  <2> QED
    BY <1>1, <1>3, <2>1 DEF ReadBack, View, Empty
<1> QED
  BY <1>2, <1>3

\* The types of the disk and the line, with any map in memory.
LEMMA WayWith ==
    ASSUME IInv, Dated, NEW m \in Maps
    PROVE  Way(View(disk), LineOf(writing, scheduled, inbox, m), version)
<1> DEFINE w == View(disk)
           q == LineOf(writing, scheduled, inbox, m)
<1>1. /\ version \in Nat
      /\ inbox \in Seq(Entries) /\ scheduled \in Seq(Entries)
      /\ writing \in Entries \cup {NoEntry}
      /\ disk \in [Bases -> [s : Contents, plain : Contents]]
  BY DEF IInv, Inv, Types
<1>2. w \in [Bases -> Contents]
  BY <1>1, Constants, Seen DEF View, Readable, Tried
<1>3. w[Map] \in Maps
  BY SeenMap, ReadMapIsMap DEF IInv
<1>4. \A k \in Keys : w[k] \in Drafts(version)
  <2> SUFFICES ASSUME NEW k \in Keys PROVE w[k] \in Drafts(version)
    OBVIOUS
  <2>1. Empty \in Drafts(version)
    BY <1>1 DEF Empty, Drafts
  <2>2. k \in Bases
    BY Constants
  <2> QED
    BY <2>1, <2>2, Seen DEF Dated
<1>5. Entry(Map, m) \in Entries /\ Entry(Map, m).base = Map
  BY <1>1, Constants DEF Entry, Entries, Stages
<1> DEFINE s == Len(scheduled)
           t == Len(inbox)
<1>6. /\ s \in Nat /\ t \in Nat
      /\ Len(q) = s + t + 2 /\ DOMAIN q = 1 .. s + t + 2
      /\ q = [i \in 1 .. s + t + 2 |->
                 IF i = 1 THEN writing
                 ELSE IF i <= s + 1 THEN scheduled[i - 1]
                 ELSE IF i <= s + t + 1 THEN inbox[i - s - 1]
                 ELSE Entry(Map, m)]
  BY <1>1, LineIs
<1>7. /\ \A i \in 1 .. s : scheduled[i] \in Entries /\ scheduled[i] \in Waiting
      /\ \A i \in 1 .. t : inbox[i] \in Entries /\ inbox[i] \in Waiting
      /\ writing \in Waiting
  BY <1>1 DEF Waiting, Range
<1> HIDE DEF s, t, q, w
<1>8. \A i \in 1 .. s + t + 2 : /\ q[i] \in Entries \cup {NoEntry}
                                /\ q[i] \in Waiting \cup {Entry(Map, m)}
  <2> SUFFICES ASSUME NEW i \in 1 .. s + t + 2
               PROVE  q[i] \in Entries \cup {NoEntry} /\ q[i] \in Waiting \cup {Entry(Map, m)}
    OBVIOUS
  <2>1. CASE i = 1
    BY <1>1, <1>6, <1>7, <2>1
  <2>2. CASE i > 1 /\ i <= s + 1
    <3>1. i - 1 \in 1 .. s /\ q[i] = scheduled[i - 1]
      BY <1>6, <2>2
    <3> QED
      BY <1>7, <3>1
  <2>3. CASE i > s + 1 /\ i <= s + t + 1
    <3>1. i - s - 1 \in 1 .. t /\ q[i] = inbox[i - s - 1]
      BY <1>6, <2>3
    <3> QED
      BY <1>7, <3>1
  <2>4. CASE i = s + t + 2
    <3>1. q[i] = Entry(Map, m)
      BY <1>6, <2>4
    <3> QED
      BY <1>5, <3>1
  <2> QED
    BY <1>6, <2>1, <2>2, <2>3, <2>4
<1>9. q \in Seq(Entries \cup {NoEntry})
  <2>1. q = [i \in 1 .. s + t + 2 |-> q[i]] /\ s + t + 2 \in Nat
    BY <1>6
  <2>2. q \in [1 .. s + t + 2 -> Entries \cup {NoEntry}]
    BY <1>8, <2>1
  <2> QED
    BY <2>1, <2>2
<1>10. \A i \in DOMAIN q : q[i].base \in Keys => q[i].data \in Drafts(version)
  BY <1>5, <1>6, <1>8, Constants DEF Dated
<1>11. q # << >> /\ q[Len(q)].base = Map
  <2>1. q[Len(q)] = Entry(Map, m)
    BY <1>6
  <2> QED
    BY <1>5, <1>6, <2>1
<1> QED
  BY <1>1, <1>2, <1>3, <1>4, <1>9, <1>10, <1>11 DEF Way, Drafts, q, w

\* The types of the disk and the line.
LEMMA WayNow == IInv /\ Dated => Way(View(disk), Line, version)
<1>1. IInv => keys \in Maps
  BY DEF IInv, Inv, Types
<1> QED
  BY <1>1, WayWith DEF Line

-----------------------------------------------------------------------------
(* Steps in which what is on its way only comes nearer to the disk.        *)

\* Nothing in r, with x on the disk, is new, and no file gets older contents
\* after newer ones.
Pass(w, q, x, r, b, G) ==
    /\ G \in [Places(r, b) -> Places(q, b)]
    /\ \A i \in Places(r, b) :
          /\ At(x, r, b, i) = At(w, q, b, G[i])
          /\ i # 0 => G[i] # 0
          /\ \A j \in Places(r, b) : i <= j => G[i] <= G[j]

Passes(w, q, x, r) == \A b \in Bases : \E G : Pass(w, q, x, r, b, G)

\* Steps that only pass contents on give every chat what it had, or less.
LEMMA PassesLater ==
    ASSUME NEW w, NEW q, NEW x, NEW r, Passes(w, q, x, r), NEW p
    PROVE  Later(w, q, x, r, p)
<1> SUFFICES ASSUME NEW b \in Bases
             PROVE  \E G : Shift(w, q, x, r, p, b, G)
  BY DEF Later
<1>1. PICK G : Pass(w, q, x, r, b, G)
  BY DEF Passes
<1>2. Shift(w, q, x, r, p, b, G)
  BY <1>1 DEF Pass, Shift
<1> QED
  BY <1>2

\* Then every chat stays sound.
LEMMA PassesCurrent ==
    ASSUME IInv, Dated, Current, mode # "down", ~spoiled,
           Way(View(disk'), Line', version), Passes(View(disk), Line, View(disk'), Line'),
           keys' = keys, notRead' \subseteq notRead
    PROVE  /\ \A p \in Peers : Sound(View(disk'), Line', p, kept[p])
           /\ Own(View(disk'), Line')
           /\ Unread'
<1> DEFINE w == View(disk)
           q == Line
           x == View(disk')
           r == Line'
<1>1. Way(w, q, version)
  BY WayNow
<1>2. /\ \A p \in Peers : Sound(w, q, p, kept[p])
      /\ Own(w, q)
      /\ \A p \in notRead : \A i \in Places(q, Map) : Key(w, q, p, i) = keys[p]
  BY DEF Current, Unread
<1>3. PICK G : Pass(w, q, x, r, Map, G)
  BY Constants DEF Passes
<1>4. /\ Way(x, r, version) /\ Passes(w, q, x, r)
      /\ Unread' <=> \A p \in notRead' : \A i \in Places(r, Map) : Key(x, r, p, i) = keys'[p]
  BY DEF Unread
<1> HIDE DEF w, q, x, r
<1>5. \A i \in Places(r, Map) : \A p :
         G[i] \in Places(q, Map) /\ Key(x, r, p, i) = Key(w, q, p, G[i])
  BY <1>3 DEF Pass, Key
<1>6. \A p \in Peers : Sound(x, r, p, kept[p])
  BY <1>1, <1>2, <1>4, PassesLater, LaterSound
<1>7. Own(x, r)
  BY <1>2, <1>5, OwnKept
<1>8. Unread'
  BY <1>2, <1>4, <1>5
<1> QED
  BY <1>6, <1>7, <1>8 DEF x, r

\* A call of write().
Sent(calls, y) == Append(calls, y)

\* The map in memory becomes m2, then y is sent.
Grows(e, queue, calls, m, m2, y) ==
    LET q == LineOf(e, queue, calls, m)
        z == LineOf(e, queue, calls, m2)
        r == LineOf(e, queue, Sent(calls, y), m2)
    IN  /\ Remembers(q, z) /\ Enters(z, r, y)
        /\ q[Len(q)] = Entry(Map, m) /\ z[Len(z)] = Entry(Map, m2)

\* The line when the map in memory changes and then an entry is sent.
LEMMA LineAppended ==
    ASSUME NEW e, NEW queue \in Seq(Entries), NEW calls \in Seq(Entries), NEW m, NEW m2,
           NEW y \in Entries
    PROVE  Grows(e, queue, calls, m, m2, y)
<1> DEFINE s == Len(queue)
           t == Len(calls)
           c == Sent(calls, y)
           q == LineOf(e, queue, calls, m)
           z == LineOf(e, queue, calls, m2)
           r == LineOf(e, queue, c, m2)
<1>1. /\ c \in Seq(Entries) /\ Len(c) = t + 1 /\ c[t + 1] = y
      /\ \A i \in 1 .. t : c[i] = calls[i]
  BY DEF Sent
<1> HIDE DEF c
<1>2. /\ s \in Nat /\ t \in Nat
      /\ Len(q) = s + t + 2 /\ DOMAIN q = 1 .. s + t + 2
      /\ q = [i \in 1 .. s + t + 2 |->
                 IF i = 1 THEN e
                 ELSE IF i <= s + 1 THEN queue[i - 1]
                 ELSE IF i <= s + t + 1 THEN calls[i - s - 1]
                 ELSE Entry(Map, m)]
  BY LineIs
<1>3. /\ Len(z) = s + t + 2 /\ DOMAIN z = 1 .. s + t + 2
      /\ z = [i \in 1 .. s + t + 2 |->
                 IF i = 1 THEN e
                 ELSE IF i <= s + 1 THEN queue[i - 1]
                 ELSE IF i <= s + t + 1 THEN calls[i - s - 1]
                 ELSE Entry(Map, m2)]
  BY LineIs
<1>4. /\ Len(r) = s + (t + 1) + 2
      /\ r = [i \in 1 .. s + (t + 1) + 2 |->
                 IF i = 1 THEN e
                 ELSE IF i <= s + 1 THEN queue[i - 1]
                 ELSE IF i <= s + (t + 1) + 1 THEN c[i - s - 1]
                 ELSE Entry(Map, m2)]
  <2>0. c \in Seq(Entries)
    BY <1>1
  <2>1. /\ Len(r) = s + Len(c) + 2
        /\ r = [i \in 1 .. s + Len(c) + 2 |->
                   IF i = 1 THEN e
                   ELSE IF i <= s + 1 THEN queue[i - 1]
                   ELSE IF i <= s + Len(c) + 1 THEN c[i - s - 1]
                   ELSE Entry(Map, m2)]
    BY <2>0, LineIs
  <2>2. Len(c) = t + 1
    BY <1>1
  <2> HIDE DEF r, s, t
  <2> QED
    BY <2>1, <2>2
<1> HIDE DEF q, z, r, s, t
<1>5. Remembers(q, z)
  <2>1. \A i \in 1 .. s + t + 2 : i # s + t + 2 => z[i] = q[i]
    BY <1>2, <1>3
  <2> QED
    BY <1>2, <1>3, <2>1 DEF Remembers
<1>6. q[Len(q)] = Entry(Map, m) /\ z[Len(z)] = Entry(Map, m2)
  BY <1>2, <1>3
<1>7. Enters(z, r, y)
  <2>1. ASSUME NEW i \in 1 .. s + t + 2, i # s + t + 2
        PROVE  r[i] = z[i]
    <3>1. i > s + 1 => i - s - 1 \in 1 .. t
      BY <1>2, <2>1
    <3>2. i \in 1 .. s + (t + 1) + 2
      BY <1>2
    <3> QED
      BY <1>1, <1>2, <1>3, <1>4, <2>1, <3>1, <3>2
  <2>2. r[s + t + 2] = y
    <3>1. s + t + 2 \in 1 .. s + (t + 1) + 2 /\ s + t + 2 - s - 1 = t + 1
      BY <1>2
    <3> QED
      BY <1>1, <1>2, <1>4, <3>1
  <2>3. r[s + t + 3] = Entry(Map, m2)
    <3>1. s + t + 3 \in 1 .. s + (t + 1) + 2
      BY <1>2
    <3> QED
      BY <1>2, <1>4, <3>1
  <2>4. Len(r) = Len(z) + 1 /\ Len(r) = s + t + 3
    BY <1>2, <1>3, <1>4
  <2> QED
    BY <1>3, <1>6, <2>1, <2>2, <2>3, <2>4 DEF Enters
<1> QED
  BY <1>5, <1>6, <1>7 DEF q, z, r, c, Grows

\* writeMap() puts a copy of the map in memory before it.
LEMMA MapPasses ==
    ASSUME NEW w, NEW q, NEW r, NEW n, Way(w, q, n), Way(w, r, n),
           Enters(q, r, q[Len(q)])
    PROVE  Passes(w, q, w, r)
<1> DEFINE N == Len(q)
<1>1. /\ DOMAIN q = 1 .. N /\ N \in Nat \ {0}
      /\ DOMAIN r = 1 .. N + 1 /\ r[N] = q[N] /\ r[N + 1] = q[N]
      /\ \A i \in 1 .. N - 1 : r[i] = q[i]
  <2>1. /\ DOMAIN q = 1 .. N /\ N \in Nat \ {0} /\ DOMAIN r = 1 .. Len(r)
    BY DEF Way
  <2>2. /\ Len(r) = N + 1 /\ r[N] = q[N] /\ r[N + 1] = q[N]
        /\ \A i \in DOMAIN q : i # N => r[i] = q[i]
    BY DEF Enters
  <2> HIDE DEF N
  <2> QED
    BY <2>1, <2>2
<1> HIDE DEF N
<1> SUFFICES ASSUME NEW b \in Bases PROVE \E G : Pass(w, q, w, r, b, G)
  BY DEF Passes
<1> DEFINE G == [i \in Places(r, b) |-> IF i = N + 1 THEN N ELSE i]
<1>2. \A i \in Places(r, b) : i \in 0 .. N + 1 /\ (i # 0 => r[i].base = b)
  BY <1>1 DEF Places, For
<1>3. \A i \in 1 .. N + 1 : r[i] = q[IF i = N + 1 THEN N ELSE i]
  BY <1>1
<1>4. \A i \in Places(r, b) :
         /\ G[i] \in Places(q, b) /\ At(w, r, b, i) = At(w, q, b, G[i])
         /\ i # 0 => G[i] # 0
  <2> SUFFICES ASSUME NEW i \in Places(r, b)
               PROVE  /\ G[i] \in Places(q, b) /\ At(w, r, b, i) = At(w, q, b, G[i])
                      /\ i # 0 => G[i] # 0
    OBVIOUS
  <2>1. CASE i = 0
    BY <1>1, <2>1 DEF Places, At
  <2>2. CASE i # 0
    <3>1. G[i] \in 1 .. N /\ r[i] = q[G[i]] /\ i \in 1 .. N + 1
      BY <1>1, <1>2, <1>3, <2>2
    <3> QED
      BY <1>1, <1>2, <2>2, <3>1 DEF Places, For, At
  <2> QED
    BY <2>1, <2>2
<1>5. \A i, j \in Places(r, b) : i <= j => G[i] <= G[j]
  <2> SUFFICES ASSUME NEW i \in Places(r, b), NEW j \in Places(r, b), i <= j
               PROVE  G[i] <= G[j]
    OBVIOUS
  <2>1. i \in 0 .. N + 1 /\ j \in 0 .. N + 1
    BY <1>2
  <2>2. /\ G[i] = (IF i = N + 1 THEN N ELSE i)
        /\ G[j] = (IF j = N + 1 THEN N ELSE j)
    OBVIOUS
  <2> HIDE DEF G
  <2> QED
    BY <1>1, <2>1, <2>2
<1>6. Pass(w, q, w, r, b, G)
  BY <1>4, <1>5 DEF Pass
<1> QED
  BY <1>6

\* An identical line passes.
LEMMA SamePasses == ASSUME NEW w, NEW q PROVE Passes(w, q, w, q)
<1> SUFFICES ASSUME NEW b \in Bases PROVE \E G : Pass(w, q, w, q, b, G)
  BY DEF Passes
<1>1. Pass(w, q, w, q, b, [i \in Places(q, b) |-> i])
  BY DEF Pass
<1> QED
  BY <1>1

\* write() takes a call and puts its entry at the end of the queue, or in the
\* place of the one for the same file.
LEMMA WritePasses ==
    ASSUME NEW w, NEW e, NEW queue \in Seq(Entries), NEW calls \in Seq(Entries), NEW m,
           calls # << >>,
           \A i, j \in DOMAIN queue : queue[i].base = queue[j].base => i = j
    PROVE  Passes(w, LineOf(e, queue, calls, m),
                  w, LineOf(e, replaced(queue, Head(calls)), Tail(calls), m))
<1> DEFINE s == Len(queue)
           t == Len(calls)
           y == Head(calls)
           d == replaced(queue, y)
           c == Tail(calls)
           q == LineOf(e, queue, calls, m)
           r == LineOf(e, d, c, m)
<1>1. /\ c \in Seq(Entries) /\ Len(c) = t - 1 /\ t \in Nat \ {0} /\ s \in Nat
      /\ y = calls[1] /\ y \in Entries
      /\ \A i \in 1 .. t - 1 : c[i] = calls[i + 1]
      /\ DOMAIN queue = 1 .. s
  OBVIOUS
<1>2. d \in Seq(Entries)
  BY <1>1, Replaced
<1>3. /\ Len(q) = s + t + 2 /\ DOMAIN q = 1 .. s + t + 2
      /\ q = [i \in 1 .. s + t + 2 |->
                 IF i = 1 THEN e
                 ELSE IF i <= s + 1 THEN queue[i - 1]
                 ELSE IF i <= s + t + 1 THEN calls[i - s - 1]
                 ELSE Entry(Map, m)]
  BY LineIs
<1> HIDE DEF c, d
<1>4. /\ Len(d) \in Nat /\ Len(c) \in Nat
      /\ DOMAIN r = 1 .. Len(d) + Len(c) + 2
      /\ r = [i \in 1 .. Len(d) + Len(c) + 2 |->
                 IF i = 1 THEN e
                 ELSE IF i <= Len(d) + 1 THEN d[i - 1]
                 ELSE IF i <= Len(d) + Len(c) + 1 THEN c[i - Len(d) - 1]
                 ELSE Entry(Map, m)]
  <2>1. c \in Seq(Entries)
    BY <1>1
  <2> QED
    BY <1>2, <2>1, LineIs
<1> HIDE DEF q, r, s, t, y
<1>5. CASE ~ \E i \in DOMAIN queue : queue[i].base = y.base
  <2>1. d = Append(queue, y)
    BY <1>5 DEF d, replaced
  <2>2. Len(d) = s + 1 /\ d[s + 1] = y /\ \A i \in 1 .. s : d[i] = queue[i]
    BY <1>1, <2>1 DEF s
  <2>3. Len(d) + Len(c) + 2 = s + t + 2
    BY <1>1, <2>2
  <2>4. \A i \in 1 .. s + t + 2 : r[i] = q[i]
    <3> SUFFICES ASSUME NEW i \in 1 .. s + t + 2 PROVE r[i] = q[i]
      OBVIOUS
    <3>1. r[i] = IF i = 1 THEN e
                 ELSE IF i <= s + 2 THEN d[i - 1]
                 ELSE IF i <= s + t + 1 THEN c[i - s - 2]
                 ELSE Entry(Map, m)
      <4>1. Len(d) + 1 = s + 2 /\ Len(d) + Len(c) + 1 = s + t + 1 /\ i - Len(d) - 1 = i - s - 2
        BY <1>1, <2>2
      <4> QED
        BY <1>4, <2>3, <4>1
    <3>2. CASE i = 1
      BY <1>3, <3>1, <3>2
    <3>3. CASE i > 1 /\ i <= s + 1
      <4>1. i - 1 \in 1 .. s
        BY <1>1, <3>3
      <4> QED
        BY <1>1, <1>3, <2>2, <3>1, <3>3, <4>1
    <3>4. CASE i = s + 2
      <4>1. d[i - 1] = y /\ q[i] = calls[1] /\ i # 1 /\ i <= s + 2
        BY <1>1, <1>3, <2>2, <3>4
      <4> QED
        BY <1>1, <3>1, <4>1
    <3>5. CASE i > s + 2 /\ i <= s + t + 1
      <4>1. i - s - 2 \in 1 .. t - 1 /\ (i - s - 2) + 1 = i - s - 1
        BY <1>1, <3>5
      <4>2. c[i - s - 2] = calls[i - s - 1]
        BY <1>1, <4>1
      <4> QED
        BY <1>1, <1>3, <3>1, <3>5, <4>2
    <3>6. CASE i = s + t + 2
      BY <1>1, <1>3, <3>1, <3>6
    <3> QED
      BY <1>1, <3>2, <3>3, <3>4, <3>5, <3>6
  <2>5. r = q
    <3>1. r = [i \in 1 .. s + t + 2 |-> r[i]] /\ q = [i \in 1 .. s + t + 2 |-> q[i]]
      BY <1>3, <1>4, <2>3
    <3> QED
      BY <2>4, <3>1
  <2> QED
    BY <2>5, SamePasses DEF q, r, d, c, y
<1>6. CASE \E i \in DOMAIN queue : queue[i].base = y.base
  <2>1. d = [i \in 1 .. s |-> IF queue[i].base = y.base THEN y ELSE queue[i]]
    BY <1>1, <1>6 DEF d, replaced
  <2>2. Len(d) = s
    BY <1>1, <1>2, <2>1
  <2>3. /\ DOMAIN r = 1 .. s + t + 1
        /\ r = [i \in 1 .. s + t + 1 |->
                   IF i = 1 THEN e
                   ELSE IF i <= s + 1 THEN d[i - 1]
                   ELSE IF i <= s + t THEN c[i - s - 1]
                   ELSE Entry(Map, m)]
    <3>1. Len(d) + Len(c) + 2 = s + t + 1 /\ Len(d) + Len(c) + 1 = s + t
      BY <1>1, <2>2
    <3> QED
      BY <1>4, <2>2, <3>1
  <2> DEFINE From(i) == IF i \in 2 .. s + 1 /\ queue[i - 1].base = y.base THEN s + 2
                        ELSE IF i <= s + 1 THEN i ELSE i + 1
  <2>4. \A i \in 1 .. s + t + 1 : From(i) \in 1 .. s + t + 2 /\ r[i] = q[From(i)] /\ i <= From(i)
    <3> SUFFICES ASSUME NEW i \in 1 .. s + t + 1
                 PROVE  From(i) \in 1 .. s + t + 2 /\ r[i] = q[From(i)] /\ i <= From(i)
      OBVIOUS
    <3>1. CASE i = 1
      BY <1>1, <1>3, <2>3, <3>1
    <3>2. CASE i > 1 /\ i <= s + 1
      <4>1. i - 1 \in 1 .. s /\ i \in 2 .. s + 1
        BY <1>1, <3>2
      <4>2. r[i] = IF queue[i - 1].base = y.base THEN y ELSE queue[i - 1]
        BY <1>1, <2>1, <2>3, <3>2, <4>1
      <4>3. q[s + 2] = y
        BY <1>1, <1>3
      <4>4. q[i] = queue[i - 1]
        BY <1>1, <1>3, <3>2
      <4>5. From(i) = IF queue[i - 1].base = y.base THEN s + 2 ELSE i
        BY <3>2, <4>1
      <4>6. r[i] = q[From(i)]
        BY <4>2, <4>3, <4>4, <4>5
      <4> HIDE DEF From
      <4> QED
        BY <1>1, <3>2, <4>5, <4>6
    <3>3. CASE i > s + 1 /\ i <= s + t
      <4>1. i - s - 1 \in 1 .. t - 1 /\ (i - s - 1) + 1 = (i + 1) - s - 1
        BY <1>1, <3>3
      <4>2. c[i - s - 1] = calls[(i + 1) - s - 1]
        BY <1>1, <4>1
      <4>3. r[i] = c[i - s - 1]
        BY <1>1, <2>3, <3>3
      <4>4. i + 1 \in 1 .. s + t + 2 /\ q[i + 1] = calls[(i + 1) - s - 1]
        BY <1>1, <1>3, <3>3
      <4>5. From(i) = i + 1
        BY <1>1, <3>3
      <4> HIDE DEF From
      <4> QED
        BY <4>2, <4>3, <4>4, <4>5
    <3>4. CASE i = s + t + 1
      <4>1. r[i] = Entry(Map, m)
        BY <1>1, <2>3, <3>4
      <4>2. i + 1 \in 1 .. s + t + 2 /\ q[i + 1] = Entry(Map, m)
        BY <1>1, <1>3, <3>4
      <4>3. From(i) = i + 1
        BY <1>1, <3>4
      <4> HIDE DEF From
      <4> QED
        BY <4>1, <4>2, <4>3
    <3> QED
      BY <1>1, <3>1, <3>2, <3>3, <3>4
  <2> SUFFICES ASSUME NEW b \in Bases PROVE \E G : Pass(w, q, w, r, b, G)
    BY DEF Passes, q, r, d, c, y
  <2>5. \A i \in Places(r, b) : i \in 0 .. s + t + 1 /\ (i # 0 => r[i].base = b)
    BY <1>1, <2>3 DEF Places, For
  <2>6. \A i \in Places(r, b), j \in Places(r, b) :
          i # 0 /\ i < j => From(i) <= From(j)
    <3> SUFFICES ASSUME NEW i \in Places(r, b), NEW j \in Places(r, b), i # 0, i < j
                 PROVE  From(i) <= From(j)
      OBVIOUS
    <3>1. i \in 1 .. s + t + 1 /\ j \in 1 .. s + t + 1 /\ r[i].base = b /\ r[j].base = b
      BY <1>1, <2>5
    <3>2. CASE i \in 2 .. s + 1 /\ queue[i - 1].base = y.base
      <4>1. i - 1 \in 1 .. s /\ From(i) = s + 2
        BY <1>1, <3>2
      <4>2. r[i] = y
        BY <1>1, <2>1, <2>3, <3>1, <3>2, <4>1
      <4>3. ASSUME j <= s + 1 PROVE FALSE
        <5>1. j - 1 \in 1 .. s /\ j # 1
          BY <1>1, <3>1, <3>2, <4>3
        <5>2. r[j] = d[j - 1]
          BY <2>3, <3>1, <4>3, <5>1
        <5>3. queue[j - 1].base = y.base
          BY <2>1, <3>1, <4>2, <5>1, <5>2
        <5>4. i - 1 = j - 1
          BY <1>1, <3>2, <4>1, <5>1, <5>3
        <5> QED
          BY <3>1, <5>4
      <4>4. From(j) = j + 1 /\ j > s + 1
        BY <1>1, <3>1, <4>3
      <4> HIDE DEF From
      <4> QED
        BY <1>1, <3>1, <4>1, <4>4
    <3>3. CASE ~(i \in 2 .. s + 1 /\ queue[i - 1].base = y.base)
      <4>1. From(i) = i \/ (From(i) = i + 1 /\ i > s + 1)
        BY <1>1, <3>1, <3>3
      <4>2. From(j) >= j /\ (j > s + 1 => From(j) = j + 1)
        BY <1>1, <3>1
      <4>3. From(j) \in Nat
        BY <1>1, <3>1
      <4> HIDE DEF From
      <4> QED
        BY <1>1, <3>1, <4>1, <4>2, <4>3
    <3> QED
      BY <3>2, <3>3
  <2> HIDE DEF From
  <2> DEFINE G == [i \in Places(r, b) |-> IF i = 0 THEN 0 ELSE From(i)]
  <2>7. \A i \in Places(r, b) : /\ G[i] \in Places(q, b)
                                /\ At(w, r, b, i) = At(w, q, b, G[i])
                                /\ i # 0 => G[i] # 0
    <3> SUFFICES ASSUME NEW i \in Places(r, b)
                 PROVE  /\ G[i] \in Places(q, b)
                        /\ At(w, r, b, i) = At(w, q, b, G[i])
                        /\ i # 0 => G[i] # 0
      OBVIOUS
    <3>1. CASE i = 0
      BY <3>1 DEF Places, At
    <3>2. CASE i # 0
      <4>1. i \in 1 .. s + t + 1 /\ r[i].base = b
        BY <1>1, <2>5, <3>2
      <4>2. From(i) \in DOMAIN q /\ r[i] = q[From(i)] /\ From(i) # 0
        <5>1. From(i) \in 1 .. s + t + 2 /\ r[i] = q[From(i)]
          BY <2>4, <4>1
        <5> QED
          BY <1>1, <1>3, <5>1
      <4> QED
        BY <3>2, <4>1, <4>2 DEF Places, For, At
    <3> QED
      BY <3>1, <3>2
  <2>8. \A i, j \in Places(r, b) : i <= j => G[i] <= G[j]
    <3> SUFFICES ASSUME NEW i \in Places(r, b), NEW j \in Places(r, b), i <= j
                 PROVE  G[i] <= G[j]
      OBVIOUS
    <3>1. i \in 0 .. s + t + 1 /\ j \in 0 .. s + t + 1
      BY <2>5
    <3>2. i # 0 => From(i) \in 1 .. s + t + 2
      BY <1>1, <2>4, <3>1
    <3>3. j # 0 => From(j) \in 1 .. s + t + 2
      BY <1>1, <2>4, <3>1
    <3> QED
      BY <1>1, <2>6, <3>1, <3>2, <3>3
  <2>9. Pass(w, q, w, r, b, G)
    BY <2>7, <2>8 DEF Pass
  <2> QED
    BY <2>9
<1> QED
  BY <1>5, <1>6

\* The first entry of the queue is taken to be written.
LEMMA TakePasses ==
    ASSUME NEW w, NEW queue \in Seq(Entries), NEW calls \in Seq(Entries), NEW m,
           queue # << >>
    PROVE  Passes(w, LineOf(NoEntry, queue, calls, m),
                  w, LineOf(Head(queue), Tail(queue), calls, m))
<1> DEFINE s == Len(queue)
           t == Len(calls)
           y == Head(queue)
           d == Tail(queue)
           q == LineOf(NoEntry, queue, calls, m)
           r == LineOf(y, d, calls, m)
<1>1. /\ d \in Seq(Entries) /\ Len(d) = s - 1 /\ s \in Nat \ {0} /\ t \in Nat
      /\ y = queue[1]
      /\ \A i \in 1 .. s - 1 : d[i] = queue[i + 1]
  OBVIOUS
<1>2. /\ DOMAIN q = 1 .. s + t + 2
      /\ q = [i \in 1 .. s + t + 2 |->
                 IF i = 1 THEN NoEntry
                 ELSE IF i <= s + 1 THEN queue[i - 1]
                 ELSE IF i <= s + t + 1 THEN calls[i - s - 1]
                 ELSE Entry(Map, m)]
  BY LineIs
<1> HIDE DEF d
<1>3. /\ DOMAIN r = 1 .. Len(d) + t + 2
      /\ r = [i \in 1 .. Len(d) + t + 2 |->
                 IF i = 1 THEN y
                 ELSE IF i <= Len(d) + 1 THEN d[i - 1]
                 ELSE IF i <= Len(d) + t + 1 THEN calls[i - Len(d) - 1]
                 ELSE Entry(Map, m)]
  <2>1. d \in Seq(Entries)
    BY <1>1
  <2> QED
    BY <2>1, LineIs
<1> HIDE DEF q, r, s, t, y
<1>4. /\ DOMAIN r = 1 .. s + t + 1
      /\ r = [i \in 1 .. s + t + 1 |->
                 IF i = 1 THEN y
                 ELSE IF i <= s THEN d[i - 1]
                 ELSE IF i <= s + t THEN calls[i - s]
                 ELSE Entry(Map, m)]
  <2>1. Len(d) + t + 2 = s + t + 1 /\ Len(d) + 1 = s /\ Len(d) + t + 1 = s + t
    BY <1>1
  <2>2. \A i \in Int : i - Len(d) - 1 = i - s
    BY <1>1
  <2> QED
    BY <1>1, <1>3, <2>1, <2>2
<1>5. \A i \in 1 .. s + t + 1 : i + 1 \in 1 .. s + t + 2 /\ r[i] = q[i + 1]
  <2> SUFFICES ASSUME NEW i \in 1 .. s + t + 1 PROVE i + 1 \in 1 .. s + t + 2 /\ r[i] = q[i + 1]
    OBVIOUS
  <2>1. i + 1 \in 1 .. s + t + 2 /\ i + 1 # 1 /\ (i + 1) - 1 = i /\ (i + 1) - s - 1 = i - s
    BY <1>1
  <2>2. q[i + 1] = IF i <= s THEN queue[i]
                   ELSE IF i <= s + t THEN calls[i - s] ELSE Entry(Map, m)
    BY <1>1, <1>2, <2>1
  <2>3. CASE i = 1
    BY <1>1, <1>4, <2>1, <2>2, <2>3
  <2>4. CASE i > 1 /\ i <= s
    <3>1. i - 1 \in 1 .. s - 1 /\ (i - 1) + 1 = i
      BY <1>1, <2>4
    <3>2. d[i - 1] = queue[i]
      BY <1>1, <3>1
    <3> QED
      BY <1>1, <1>4, <2>1, <2>2, <2>4, <3>2
  <2>5. CASE i > s
    BY <1>1, <1>4, <2>1, <2>2, <2>5
  <2> QED
    BY <1>1, <2>3, <2>4, <2>5
<1> SUFFICES ASSUME NEW b \in Bases PROVE \E G : Pass(w, q, w, r, b, G)
  BY DEF Passes, q, r, d, y
<1> DEFINE G == [i \in Places(r, b) |-> IF i = 0 THEN 0 ELSE i + 1]
<1>6. \A i \in Places(r, b) : i \in 0 .. s + t + 1 /\ (i # 0 => r[i].base = b)
  BY <1>1, <1>4 DEF Places, For
<1>7. \A i \in Places(r, b) : /\ G[i] \in Places(q, b)
                              /\ At(w, r, b, i) = At(w, q, b, G[i])
                              /\ i # 0 => G[i] # 0
  <2> SUFFICES ASSUME NEW i \in Places(r, b)
               PROVE  /\ G[i] \in Places(q, b)
                      /\ At(w, r, b, i) = At(w, q, b, G[i])
                      /\ i # 0 => G[i] # 0
    OBVIOUS
  <2>1. CASE i = 0
    BY <2>1 DEF Places, At
  <2>2. CASE i # 0
    <3>1. i \in 1 .. s + t + 1 /\ r[i].base = b
      BY <1>1, <1>6, <2>2
    <3>2. i + 1 \in DOMAIN q /\ r[i] = q[i + 1]
      BY <1>2, <1>5, <3>1
    <3>3. i + 1 # 0
      BY <3>1
    <3> QED
      BY <2>2, <3>1, <3>2, <3>3 DEF Places, For, At
  <2> QED
    BY <2>1, <2>2
<1>8. \A i, j \in Places(r, b) : i <= j => G[i] <= G[j]
  <2> SUFFICES ASSUME NEW i \in Places(r, b), NEW j \in Places(r, b), i <= j
               PROVE  G[i] <= G[j]
    OBVIOUS
  <2>1. i \in 0 .. s + t + 1 /\ j \in 0 .. s + t + 1
    BY <1>6
  <2> QED
    BY <1>1, <2>1
<1>9. Pass(w, q, w, r, b, G)
  BY <1>7, <1>8 DEF Pass
<1> QED
  BY <1>9

\* An operation of writeNow(): the first entry may reach the disk, and may
\* be over.
LEMMA WrittenPasses ==
    ASSUME NEW w, NEW x, NEW e \in Entries, NEW e2, NEW queue \in Seq(Entries),
           NEW calls \in Seq(Entries), NEW m,
           x = w \/ (\A b \in Bases : x[b] = IF b = e.base THEN e.data ELSE w[b]),
           e2 = NoEntry \/ (e2.base = e.base /\ e2.data = e.data)
    PROVE  Passes(w, LineOf(e, queue, calls, m), x, LineOf(e2, queue, calls, m))
<1> DEFINE s == Len(queue)
           t == Len(calls)
           q == LineOf(e, queue, calls, m)
           r == LineOf(e2, queue, calls, m)
<1>1. /\ s \in Nat /\ t \in Nat
      /\ DOMAIN q = 1 .. s + t + 2
      /\ q = [i \in 1 .. s + t + 2 |->
                 IF i = 1 THEN e
                 ELSE IF i <= s + 1 THEN queue[i - 1]
                 ELSE IF i <= s + t + 1 THEN calls[i - s - 1]
                 ELSE Entry(Map, m)]
  BY LineIs
<1>2. /\ DOMAIN r = 1 .. s + t + 2
      /\ r = [i \in 1 .. s + t + 2 |->
                 IF i = 1 THEN e2
                 ELSE IF i <= s + 1 THEN queue[i - 1]
                 ELSE IF i <= s + t + 1 THEN calls[i - s - 1]
                 ELSE Entry(Map, m)]
  BY LineIs
<1> HIDE DEF q, r, s, t
<1>3. /\ 1 \in DOMAIN q /\ q[1] = e /\ r[1] = e2 /\ DOMAIN r = DOMAIN q
      /\ \A i \in DOMAIN q : i # 1 => r[i] = q[i]
      /\ \A i \in DOMAIN q : i \in Nat \ {0}
  BY <1>1, <1>2
<1> HIDE <1>1, <1>2
<1> SUFFICES ASSUME NEW b \in Bases PROVE \E G : Pass(w, q, x, r, b, G)
  BY DEF Passes, q, r
<1>4. \A i \in Places(r, b) : i \in Places(q, b) /\ (i # 0 => At(x, r, b, i) = At(w, q, b, i))
  <2> SUFFICES ASSUME NEW i \in Places(r, b), i # 0
               PROVE  i \in Places(q, b) /\ At(x, r, b, i) = At(w, q, b, i)
    BY DEF Places
  <2>1. i \in DOMAIN q /\ r[i].base = b
    BY <1>3 DEF Places, For
  <2>2. CASE i # 1
    BY <1>3, <2>1, <2>2 DEF Places, For, At
  <2>3. CASE i = 1
    <3>2. b # -1
      BY Constants DEF Bases
    <3>1. e2 # NoEntry
      BY <1>3, <2>1, <2>3, <3>2, Constants
    <3> QED
      BY <1>3, <2>1, <2>3, <3>1 DEF Places, For, At
  <2> QED
    BY <2>2, <2>3
<1>5. \A i \in Places(r, b) : i \in Nat
  BY <1>3 DEF Places, For
<1>6. CASE x[b] = w[b]
  <2> DEFINE G == [i \in Places(r, b) |-> i]
  <2>1. Pass(w, q, x, r, b, G)
    BY <1>4, <1>6 DEF Pass, At
  <2> QED
    BY <2>1
<1>7. CASE b = e.base /\ x[b] = e.data
  <2> DEFINE G == [i \in Places(r, b) |-> IF i = 0 THEN 1 ELSE i]
  <2>1. 1 \in Places(q, b) /\ At(w, q, b, 1) = e.data /\ At(x, r, b, 0) = e.data
    BY <1>3, <1>7 DEF Places, For, At
  <2>2. \A i \in Places(r, b) : /\ G[i] \in Places(q, b)
                                /\ At(x, r, b, i) = At(w, q, b, G[i])
                                /\ G[i] # 0
    BY <1>4, <2>1
  <2>3. \A i, j \in Places(r, b) : i <= j => G[i] <= G[j]
    <3> SUFFICES ASSUME NEW i \in Places(r, b), NEW j \in Places(r, b), i <= j
                 PROVE  G[i] <= G[j]
      OBVIOUS
    <3>1. i \in Nat /\ j \in Nat
      BY <1>5
    <3>2. G[i] = (IF i = 0 THEN 1 ELSE i) /\ G[j] = (IF j = 0 THEN 1 ELSE j)
      OBVIOUS
    <3> HIDE DEF G
    <3>3. (IF i = 0 THEN 1 ELSE i) <= (IF j = 0 THEN 1 ELSE j)
      BY <3>1
    <3> QED
      BY <3>2, <3>3
  <2>4. Pass(w, q, x, r, b, G)
    BY <2>2, <2>3 DEF Pass
  <2> QED
    BY <2>4
<1> QED
  BY <1>6, <1>7

-----------------------------------------------------------------------------
(* The conjuncts of the invariant that do not speak of the line.           *)

\* A set of naturals has a least element.
LEMMA Least ==
    ASSUME NEW T \in SUBSET Nat, T # {}
    PROVE  \E n \in T : \A k \in T : n <= k
<1> DEFINE R == OpToRel(<, Nat)
<1>1. IsWellFoundedOn(R, Nat)
  BY NatLessThanWellFounded
<1> HIDE DEF R
<1>2. PICK n \in T : \A k \in T : ~(<<k, n>> \in R)
  BY <1>1, WFMin
<1>3. \A k \in Nat : k < n => <<k, n>> \in R
  BY DEF R, OpToRel
<1>4. \A k \in T : ~(k < n)
  BY <1>2, <1>3
<1> HIDE <1>2, <1>3
<1> QED
  BY ONLY <1>4, T \in SUBSET Nat, n \in T

\* settled() cuts a history at the first place of what a start would read.
LEMMA SettledIs ==
    ASSUME NEW files, NEW p \in Peers, kept[p] \in Seq(Nat)
    PROVE  \/ settled(files)[p] = kept[p]
           \/ \E f \in DOMAIN kept[p] :
                 /\ kept[p][f] = ReadBack(files, p)
                 /\ kept[p][f] # 0 \/ ReadMap(files)[p] = 0
                 /\ \A i \in 1 .. f - 1 : kept[p][i] # kept[p][f]
                 /\ settled(files)[p] = SubSeq(kept[p], f, Len(kept[p]))
<1> DEFINE h == kept[p]
           r == ReadBack(files, p)
           First(i) == h[i] = r /\ \A j \in 1 .. i - 1 : h[j] # r
           f == CHOOSE i \in DOMAIN h : First(i)
<1>1. settled(files)[p] = IF (r # 0 \/ ReadMap(files)[p] = 0) /\ r \in Range(h)
                            THEN SubSeq(h, f, Len(h)) ELSE h
  BY DEF settled
<1>2. CASE ~((r # 0 \/ ReadMap(files)[p] = 0) /\ r \in Range(h))
  BY <1>1, <1>2
<1>3. CASE (r # 0 \/ ReadMap(files)[p] = 0) /\ r \in Range(h)
  <2> DEFINE T == {i \in DOMAIN h : h[i] = r}
  <2>1. T \in SUBSET Nat /\ T # {}
    BY <1>3 DEF Range
  <2>2. PICK n \in T : \A k \in T : n <= k
    BY <2>1, Least
  <2>3. n \in DOMAIN h /\ h[n] = r /\ n \in 1 .. Len(h) /\ Len(h) \in Nat
    OBVIOUS
  <2>4. \A j \in 1 .. n - 1 : h[j] # r
    <3> SUFFICES ASSUME NEW j \in 1 .. n - 1, h[j] = r PROVE FALSE
      OBVIOUS
    <3>1. j \in 1 .. Len(h) /\ j < n
      BY <2>3
    <3>2. j \in T
      BY <2>3, <3>1
    <3> QED
      BY <2>2, <2>3, <3>1, <3>2
  <2>5. First(n)
    BY <2>3, <2>4
  <2> HIDE DEF First
  <2>6. f \in DOMAIN h /\ First(f)
    BY <2>3, <2>5
  <2> HIDE DEF f, h, r, T
  <2>7. h[f] = r /\ \A j \in 1 .. f - 1 : h[j] # r
    BY <2>6 DEF First
  <2>8. /\ h[f] = r
        /\ h[f] # 0 \/ ReadMap(files)[p] = 0
        /\ \A i \in 1 .. f - 1 : h[i] # h[f]
        /\ settled(files)[p] = SubSeq(h, f, Len(h))
    BY <1>1, <1>3, <2>7
  <2> QED
    BY <2>6, <2>8 DEF h, r
<1> QED
  BY <1>2, <1>3

\* A history that was cut is a history.
LEMMA CutRecorded ==
    ASSUME NEW h \in Seq(Nat), NEW n \in Nat, NEW f \in DOMAIN h, Sorted(h),
           \A i \in DOMAIN h : h[i] <= n
    PROVE  LET c == SubSeq(h, f, Len(h))
           IN  /\ c \in Seq(Nat) /\ c # << >> /\ Sorted(c)
               /\ \A i \in DOMAIN c : c[i] <= n
<1> DEFINE c == SubSeq(h, f, Len(h))
<1>1. /\ DOMAIN h = 1 .. Len(h) /\ Len(h) \in Nat /\ f \in 1 .. Len(h)
      /\ c \in Seq(Nat) /\ Len(c) = Len(h) - f + 1
      /\ DOMAIN c = 1 .. Len(h) - f + 1
      /\ \A i \in DOMAIN c : c[i] = h[i + f - 1]
  BY CutIs DEF IsCut
<1> HIDE DEF c
<1>2. \A i \in DOMAIN c : i \in Int /\ i + f - 1 \in DOMAIN h
  <2>1. \A i \in 1 .. Len(h) - f + 1 : i \in Int /\ i + f - 1 \in 1 .. Len(h)
    <3>1. Len(h) \in Nat /\ f \in 1 .. Len(h)
      BY <1>1
    <3> QED
      BY <3>1
  <2> QED
    BY <1>1, <2>1
<1>3. c # << >>
  BY <1>1
<1>4. \A i \in DOMAIN c : c[i] <= n
  BY <1>1, <1>2
<1>5. Sorted(c)
  <2> SUFFICES ASSUME NEW i \in DOMAIN c, NEW j \in DOMAIN c, i < j, c[i] # 0, c[j] # 0
               PROVE  c[i] < c[j]
    BY DEF Sorted
  <2>1. /\ i + f - 1 \in DOMAIN h /\ j + f - 1 \in DOMAIN h
        /\ c[i] = h[i + f - 1] /\ c[j] = h[j + f - 1]
    BY <1>1, <1>2
  <2>2. i + f - 1 < j + f - 1
    BY <1>1, <1>2
  <2> QED
    BY <2>1, <2>2 DEF Sorted
<1> QED
  BY <1>1, <1>3, <1>4, <1>5 DEF c

\* What settled() leaves of the histories are histories.
LEMMA SettledRecorded ==
    ASSUME Recorded, version \in Nat, UNCHANGED version, NEW files, kept' = settled(files)
    PROVE  Recorded'
<1>1. DOMAIN kept' = Peers /\ kept' = [p \in Peers |-> kept'[p]]
  BY DEF settled
<1>2. ASSUME NEW p \in Peers
      PROVE  /\ kept'[p] \in Seq(Nat) /\ kept'[p] # << >> /\ Sorted(kept'[p])
             /\ \A i \in DOMAIN kept'[p] : kept'[p][i] <= version
  <2>1. /\ kept[p] \in Seq(Nat) /\ kept[p] # << >> /\ Sorted(kept[p])
        /\ \A i \in DOMAIN kept[p] : kept[p][i] <= version
    BY DEF Recorded
  <2>2. CASE kept'[p] = kept[p]
    BY <2>1, <2>2
  <2>3. CASE \E f \in DOMAIN kept[p] : kept'[p] = SubSeq(kept[p], f, Len(kept[p]))
    BY <2>1, <2>3, CutRecorded
  <2> QED
    BY <2>1, <2>2, <2>3, SettledIs
<1> QED
  BY <1>1, <1>2 DEF Recorded

\* A history with one more text is a history.
LEMMA AppendRecorded ==
    ASSUME NEW h \in Seq(Nat), NEW n \in Nat, NEW v \in Nat, Sorted(h),
           v = 0 \/ v = n + 1,
           \A i \in DOMAIN h : h[i] <= n
    PROVE  /\ Append(h, v) \in Seq(Nat) /\ Append(h, v) # << >> /\ Sorted(Append(h, v))
           /\ \A i \in DOMAIN Append(h, v) : Append(h, v)[i] <= n + 1
<1> DEFINE c == Append(h, v)
<1>1. /\ c \in Seq(Nat) /\ Len(c) = Len(h) + 1 /\ Len(h) \in Nat
      /\ DOMAIN h = 1 .. Len(h) /\ DOMAIN c = 1 .. Len(c)
      /\ \A i \in DOMAIN h : c[i] = h[i] /\ h[i] \in Nat
      /\ c[Len(c)] = v
  OBVIOUS
<1>2. Sorted(c)
  <2>1. v = 0 \/ \A i \in DOMAIN h : h[i] < v
    BY <1>1
  <2> QED
    BY <2>1, LongerSorted
<1> HIDE DEF c
<1>3. \A i \in DOMAIN c : c[i] <= n + 1
  <2>1. \A i \in DOMAIN c : i \in DOMAIN h \/ i = Len(c)
    BY <1>1
  <2>2. \A i \in DOMAIN h : c[i] \in Nat /\ c[i] <= n
    BY <1>1
  <2>3. \A k \in Nat : k <= n => k <= n + 1
    OBVIOUS
  <2>4. c[Len(c)] <= n + 1
    BY <1>1
  <2> QED
    BY <2>1, <2>2, <2>3, <2>4
<1>4. c # << >>
  BY <1>1
<1> QED
  BY <1>1, <1>2, <1>3, <1>4 DEF c

\* Every step keeps them.
LEMMA RecordedText ==
    ASSUME Recorded, version \in Nat, version' = version + 1, NEW p \in Peers,
           NEW v \in {0, version'}, kept' = [kept EXCEPT ![p] = Append(@, v)]
    PROVE  Recorded'
<1>1. /\ kept \in [Peers -> Seq(Nat)] /\ v \in Nat
      /\ \A o \in Peers : kept'[o] = IF o = p THEN Append(kept[o], v) ELSE kept[o]
      /\ kept' \in [Peers -> Seq(Nat)]
  BY DEF Recorded
<1>2. ASSUME NEW o \in Peers
      PROVE  /\ kept'[o] # << >> /\ Sorted(kept'[o])
             /\ \A i \in DOMAIN kept'[o] : kept'[o][i] <= version'
  <2>1. /\ kept[o] \in Seq(Nat) /\ kept[o] # << >> /\ Sorted(kept[o])
        /\ \A i \in DOMAIN kept[o] : kept[o][i] <= version
    BY DEF Recorded
  <2>2. CASE o # p
    <3> DEFINE h == kept[o]
    <3>1. /\ kept'[o] = h /\ h # << >> /\ Sorted(h)
          /\ \A i \in DOMAIN h : h[i] \in Nat /\ h[i] <= version
      BY <1>1, <2>1, <2>2
    <3> HIDE DEF h
    <3>2. \A i \in DOMAIN h : h[i] <= version'
      BY <3>1
    <3> QED
      BY <3>1, <3>2
  <2>3. CASE o = p
    BY <1>1, <2>1, <2>3, AppendRecorded
  <2> QED
    BY <2>2, <2>3
<1> QED
  BY <1>1, <1>2 DEF Recorded

\* A file is removed with its key.
LEMMA ClearedRegular ==
    ASSUME IInv, Dated, Staged, NEW p \in Peers, keys[p] # 0,
           disk' = ClearKey(keys[p]), keys' = [keys EXCEPT ![p] = 0],
           UNCHANGED << writing, spoiled >>
    PROVE  /\ Staged'
           /\ \A k \in Keys : /\ disk'[k].s \in {disk[k].s, NoFile}
                              /\ disk'[k].plain \in {disk[k].plain, NoFile}
<1> DEFINE k == keys[p]
<1>1. /\ keys \in Maps /\ k \in Keys /\ k \in Bases /\ k # Map
      /\ DOMAIN disk = Bases
      /\ \A o \in Peers : keys[o] = k => o = p
  BY Constants DEF IInv, Inv, Types, Maps
<1>2. disk' = [disk EXCEPT ![k] = Missing]
  BY DEF ClearKey
<1>3. \A o \in Peers : keys'[o] = IF o = p THEN 0 ELSE keys[o]
  BY <1>1 DEF Maps
<1> HIDE DEF k
<1>4. disk'[k] = Missing /\ \A b \in Bases : b # k => disk'[b] = disk[b]
  BY <1>1, <1>2
<1>5. ASSUME NEW b \in Bases
      PROVE  /\ Removed(b) => Removed(b)'
             /\ Removed(b)' \/ disk'[b] = disk[b]
  <2>1. CASE b = k
    <3>1. \A o \in Peers : keys'[o] # b
      BY <1>1, <1>3, <2>1, Constants
    <3> QED
      BY <1>1, <1>4, <2>1, <3>1 DEF Removed
  <2>2. CASE b # k
    <3>1. b # Map => \A o \in Peers : keys[o] # b => keys'[o] # b
      BY <1>3, Constants
    <3> QED
      BY <1>4, <2>2, <3>1 DEF Removed
  <2> QED
    BY <2>1, <2>2
<1>6. writing.stage # "none" => writing.base \in Bases
  BY DEF IInv, Inv, Types, Entries, NoEntry
<1>7. Staged'
  BY <1>5, <1>6 DEF Staged
<1>8. \A c \in Keys : /\ disk'[c].s \in {disk[c].s, NoFile}
                      /\ disk'[c].plain \in {disk[c].plain, NoFile}
  <2>1. Missing.s = NoFile /\ Missing.plain = NoFile
    BY DEF Missing
  <2> QED
    BY <1>4, <2>1, Constants
<1> QED
  BY <1>7, <1>8

\* The content of a drafts file.
LEMMA TextIs ==
    ASSUME NEW n \in Nat, NEW p \in Peers
    PROVE  Draft(p, n) \in Drafts(n) /\ Draft(p, n)[p] = n
BY DEF Draft, Empty, Drafts

\* A key is given that is nowhere.
LEMMA FreshIs ==
    ASSUME NEW k \in FreeKeys
    PROVE  /\ k \in Keys /\ disk[k] = Missing /\ k \notin listed
           /\ k \notin Range(keys) /\ k \notin Range(ReadMap(disk))
           /\ \A e \in Waiting : e.base # k
           /\ \A e \in Waiting : e.base = Map => k \notin Range(e.data)
BY DEF FreeKeys, Used, Waiting

\* writeDrafts() gives the chat such a key, and leaves the others theirs.
LEMMA FreshChosen ==
    ASSUME NEW p \in Peers, FreeKeys # {},
           keys' = [keys EXCEPT ![p] = CHOOSE k \in FreeKeys : TRUE], keys \in Maps
    PROVE  keys'[p] \in FreeKeys /\ \A o \in Peers : o # p => keys'[o] = keys[o]
BY DEF Maps

\* writeDrafts()
LEMMA WriteDraftsRegular ==
    ASSUME IInv, Regular, NEW p \in Peers, writeDrafts(p)
    PROVE  Regular'
<1>1. /\ version \in Nat /\ version' = version + 1
      /\ keys \in Maps /\ inbox \in Seq(Entries) /\ listed \subseteq Keys
      /\ UNCHANGED << mode, scheduled, writing, cleanup, listed, spoiled >>
  BY DEF writeDrafts, IInv, Inv, Types, clearing
<1>2. Recorded'
  <2>1. \E v \in {0, version'} : kept' = [kept EXCEPT ![p] = Append(@, v)]
    BY DEF writeDrafts
  <2> QED
    BY <1>1, <2>1, RecordedText DEF Regular
<1>3. \/ /\ keys[p] # 0 /\ disk' = ClearKey(keys[p]) /\ keys' = [keys EXCEPT ![p] = 0]
      \/ UNCHANGED << disk, keys >>
      \/ /\ UNCHANGED disk /\ FreeKeys # {}
         /\ keys' = [keys EXCEPT ![p] = CHOOSE k \in FreeKeys : TRUE]
  BY DEF writeDrafts
<1>4. \/ UNCHANGED inbox
      \/ inbox' = Append(inbox, Entry(keys'[p], Draft(p, version')))
  BY DEF writeDrafts
<1>5. /\ \A e \in Range(inbox') : e \in Range(inbox) \/ e = Entry(keys'[p], Draft(p, version'))
      /\ Entry(keys'[p], Draft(p, version')).stage = "save"
      /\ Entry(keys'[p], Draft(p, version')).data = Draft(p, version')
  <2>1. \A y : \A e \in Range(Append(inbox, y)) : e \in Range(inbox) \/ e = y
    BY <1>1 DEF Range
  <2> QED
    BY <1>4, <2>1 DEF Entry
<1>6. /\ \A k \in Keys : /\ disk'[k].s \in {disk[k].s, NoFile}
                         /\ disk'[k].plain \in {disk[k].plain, NoFile}
      /\ Staged'
  <2>1. CASE keys[p] # 0 /\ disk' = ClearKey(keys[p]) /\ keys' = [keys EXCEPT ![p] = 0]
    BY <1>1, <2>1, ClearedRegular DEF Regular
  <2>2. CASE UNCHANGED << disk, keys >>
    BY <1>1, <2>2 DEF Regular, Staged, Removed
  <2>3. CASE /\ UNCHANGED disk /\ FreeKeys # {}
             /\ keys' = [keys EXCEPT ![p] = CHOOSE k \in FreeKeys : TRUE]
    <3>1. keys'[p] \in FreeKeys /\ \A o \in Peers : o # p => keys'[o] = keys[o]
      BY <1>1, <2>3, FreshChosen
    <3>2. keys'[p] # writing.base
      BY <3>1, FreshIs DEF Waiting
    <3>3. Removed(writing.base) => Removed(writing.base)'
      BY <1>1, <2>3, <3>1, <3>2 DEF Removed
    <3> QED
      BY <1>1, <2>3, <3>3 DEF Regular, Staged
  <2> QED
    BY <1>3, <2>1, <2>2, <2>3
<1>7. Dated'
  <2>1. /\ Drafts(version) \subseteq Drafts(version')
        /\ Draft(p, version') \in Drafts(version')
    BY <1>1, TextIs DEF Drafts
  <2>2. \A e \in Waiting' : e \in Waiting \/ e = Entry(keys'[p], Draft(p, version'))
    BY <1>1, <1>5 DEF Waiting
  <2> QED
    BY <1>5, <1>6, <2>1, <2>2 DEF Dated, Regular
<1>8. Queued'
  BY <1>1, <1>5 DEF Queued, Regular
<1>9. Cleaning'
  <2>1. CASE keys' = [keys EXCEPT ![p] = 0]
    BY <1>1, <2>1, Constants DEF Regular, Cleaning, Maps
  <2>2. CASE UNCHANGED keys
    BY <1>1, <2>2 DEF Regular, Cleaning
  <2>3. CASE FreeKeys # {} /\ keys' = [keys EXCEPT ![p] = CHOOSE k \in FreeKeys : TRUE]
    <3>1. keys'[p] \in FreeKeys /\ \A o \in Peers : o # p => keys'[o] = keys[o]
      BY <1>1, <2>3, FreshChosen
    <3>2. keys'[p] \notin listed
      BY <3>1, FreshIs
    <3> QED
      BY <1>1, <3>1, <3>2 DEF Regular, Cleaning
  <2> QED
    BY <1>3, <2>1, <2>2, <2>3
<1> QED
  BY <1>2, <1>6, <1>7, <1>8, <1>9 DEF Regular

\* readDraftsWithCursors()
LEMMA ReadDraftsRegular ==
    ASSUME IInv, Regular, NEW p \in Peers, readDrafts(p)
    PROVE  Regular'
<1>1. /\ UNCHANGED << mode, version, inbox, scheduled, writing, cleanup, listed, kept, spoiled >>
      /\ keys \in Maps /\ listed \subseteq Keys
  BY DEF readDrafts, IInv, Inv, Types, clearing, manager, history
<1>2. CASE UNCHANGED << disk, keys >>
  BY <1>1, <1>2 DEF Regular, Dated, Recorded, Staged, Queued, Cleaning, Removed, Waiting
<1>3. CASE keys[p] # 0 /\ disk' = ClearKey(keys[p]) /\ keys' = [keys EXCEPT ![p] = 0]
  <2>1. /\ Staged'
        /\ \A k \in Keys : /\ disk'[k].s \in {disk[k].s, NoFile}
                           /\ disk'[k].plain \in {disk[k].plain, NoFile}
    BY <1>1, <1>3, ClearedRegular DEF Regular
  <2>2. Dated' /\ Recorded' /\ Queued'
    BY <1>1, <2>1 DEF Regular, Dated, Recorded, Queued, Waiting
  <2>3. Cleaning'
    BY <1>1, <1>3, Constants DEF Regular, Cleaning, Maps
  <2> QED
    BY <2>1, <2>2, <2>3 DEF Regular
<1> QED
  BY <1>2, <1>3 DEF readDrafts

\* writeMap()
LEMMA MapWrittenRegular ==
    ASSUME IInv, Regular, mapWritten, mode # "down", mode' # "down",
           UNCHANGED << keys, scheduled, writing, disk, cleanup, listed, version, kept, spoiled >>
    PROVE  Regular'
<1>1. \A e \in Range(inbox') : e \in Range(inbox) \/ e = Entry(Map, keys)
  <2>1. inbox \in Seq(Entries)
    BY DEF IInv, Inv, Types
  <2>2. \A y : \A e \in Range(Append(inbox, y)) : e \in Range(inbox) \/ e = y
    BY <2>1 DEF Range
  <2> QED
    BY <2>2 DEF mapWritten
<1>2. Entry(Map, keys).base \notin Keys /\ Entry(Map, keys).stage = "save"
  BY Constants DEF Entry
<1>3. Dated'
  BY <1>1, <1>2 DEF Regular, Dated, Waiting
<1>4. Queued'
  BY <1>1, <1>2 DEF Regular, Queued
<1> QED
  BY <1>3, <1>4 DEF Regular, Recorded, Staged, Cleaning, Removed

\* The process ends.
LEMMA GoneRegular ==
    ASSUME Regular, gone, UNCHANGED << disk, version, kept >>
    PROVE  Regular'
<1>1. inbox' = << >> /\ scheduled' = << >> /\ writing' = NoEntry /\ cleanup' = "list"
  BY DEF gone
<1>2. Range(<< >>) = {}
  BY DEF Range
<1>3. NoEntry.base \notin Keys /\ NoEntry.stage = "none"
  BY Constants DEF NoEntry
<1> QED
  BY <1>1, <1>2, <1>3 DEF Regular, Dated, Recorded, Staged, Queued, Cleaning, Waiting

\* What a start reads is a text that was given.
LEMMA ReadBackIs ==
    ASSUME IInv, Dated, NEW p \in Peers
    PROVE  /\ ReadBack(disk, p) \in 0 .. version
           /\ View(disk)[Map][p] \in {0} \cup Keys
           /\ ReadBack(disk, p) =
                IF View(disk)[Map][p] # 0 THEN View(disk)[View(disk)[Map][p]][p] ELSE 0
<1>1. Way(View(disk), Line, version)
  BY WayNow
<1>2. View(disk)[Map][p] \in {0} \cup Keys
  BY <1>1 DEF Way, Maps
<1> QED
  BY <1>1, <1>2, SeenText DEF Way

\* Account::start()
LEMMA StartRegular ==
    ASSUME IInv, Regular, start
    PROVE  Regular'
<1>1. /\ UNCHANGED << version, inbox, scheduled, writing, disk, cleanup, listed >>
      /\ inbox = << >> /\ scheduled = << >> /\ writing = NoEntry /\ version \in Nat
      /\ mode = "down" /\ mode' = "running" /\ cleanup = "list"
      /\ kept' = [p \in Peers |-> << ReadBack(disk, p) >>]
  BY DEF start, manager, clearing, IInv, Inv, Types, Down, Regular, Cleaning
<1>2. ASSUME NEW p \in Peers
      PROVE  /\ kept'[p] \in Seq(Nat) /\ kept'[p] # << >> /\ Sorted(kept'[p])
             /\ \A i \in DOMAIN kept'[p] : kept'[p][i] <= version
  <2> DEFINE v == ReadBack(disk, p)
  <2>1. v \in Nat /\ v <= version
    BY <1>1, ReadBackIs DEF Regular
  <2> HIDE DEF v
  <2>2. << v >> \in Seq(Nat) /\ << v >> # << >> /\ DOMAIN << v >> = {1} /\ << v >>[1] = v
    BY <2>1
  <2>3. Sorted(<< v >>)
    BY <2>2 DEF Sorted
  <2>4. kept'[p] = << v >>
    BY <1>1 DEF v
  <2> QED
    BY <2>1, <2>2, <2>3, <2>4
<1>3. Recorded'
  BY <1>1, <1>2 DEF Recorded
<1>4. writing.stage = "none"
  BY <1>1 DEF NoEntry
<1> QED
  BY <1>1, <1>3, <1>4 DEF Regular, Dated, Staged, Queued, Cleaning, Waiting

\* clearLegacyFiles(), before it removes anything.
LEMMA ListRegular ==
    ASSUME Regular, listFiles \/ collectGoodNames, keys \in Maps
    PROVE  Regular'
<1>1. UNCHANGED << mode, keys, inbox, scheduled, writing, disk, version, kept, spoiled >>
  BY DEF listFiles, collectGoodNames, account, manager, history
<1>2. Dated' /\ Recorded' /\ Staged' /\ Queued'
  BY <1>1 DEF Regular, Dated, Recorded, Staged, Queued, Waiting, Removed
<1>3. \A p \in Peers : keys[p] \in Range(keys)
  BY DEF Range, Maps
<1>4. Cleaning'
  BY <1>1, <1>3 DEF listFiles, collectGoodNames, Cleaning
<1> QED
  BY <1>2, <1>4 DEF Regular

\* clearLegacyFiles() removes only files without a chat.
LEMMA ClearFilesRegular ==
    ASSUME IInv, Regular, clearFiles
    PROVE  Regular'
<1>1. /\ UNCHANGED << mode, keys, inbox, scheduled, writing, version, kept, spoiled >>
      /\ mode # "down"
      /\ disk' = [b \in Bases |-> IF b \in listed THEN Missing ELSE disk[b]]
      /\ cleanup = "remove" /\ cleanup' = "done" /\ listed \subseteq Keys
  BY DEF clearFiles, account, manager, history, IInv
<1>2. Missing.s = NoFile /\ Missing.plain = NoFile
  BY DEF Missing
<1>3. Dated'
  BY <1>1, <1>2, Constants DEF Regular, Dated, Waiting
<1>4. \A b \in Bases : /\ Removed(b) => Removed(b)'
                       /\ Removed(b)' \/ disk'[b] = disk[b]
  BY <1>1, Constants DEF Removed, Regular, Cleaning
<1>5. writing.stage # "none" => writing.base \in Bases
  BY DEF IInv, Inv, Types, Entries, NoEntry
<1>6. Staged'
  BY <1>1, <1>4, <1>5 DEF Regular, Staged
<1> QED
  BY <1>1, <1>3, <1>6 DEF Regular, Recorded, Queued, Cleaning

\* WriteManager::write()
LEMMA WriteRegular ==
    ASSUME IInv, Regular, write
    PROVE  Regular'
<1>1. /\ UNCHANGED << mode, keys, writing, disk, cleanup, listed, version, kept, spoiled >>
      /\ inbox \in Seq(Entries) /\ scheduled \in Seq(Entries) /\ inbox # << >>
      /\ inbox' = Tail(inbox) /\ scheduled' = replaced(scheduled, Head(inbox))
  BY DEF write, account, clearing, history, IInv, Inv, Types
<1> DEFINE y == Head(inbox)
           d == replaced(scheduled, y)
<1>2. /\ y \in Entries /\ y \in Range(inbox) /\ Range(Tail(inbox)) \subseteq Range(inbox)
      /\ Range(d) \subseteq Range(scheduled) \cup {y}
  <2>1. y \in Entries /\ y \in Range(inbox) /\ Range(Tail(inbox)) \subseteq Range(inbox)
    BY <1>1, Popped
  <2> QED
    BY <1>1, <2>1, Replaced
<1>3. \A i, j \in DOMAIN d : d[i].base = d[j].base => i = j
  <2>1. \A i, j \in DOMAIN scheduled : scheduled[i].base = scheduled[j].base => i = j
    BY DEF Regular, Queued
  <2>2. CASE \E i \in DOMAIN scheduled : scheduled[i].base = y.base
    <3>1. d = [i \in DOMAIN scheduled |->
                  IF scheduled[i].base = y.base THEN y ELSE scheduled[i]]
      BY <2>2 DEF replaced
    <3>2. \A i \in DOMAIN scheduled : d[i].base = scheduled[i].base
      BY <3>1
    <3> QED
      BY <2>1, <3>1, <3>2
  <2>3. CASE ~ \E i \in DOMAIN scheduled : scheduled[i].base = y.base
    <3>1. d = Append(scheduled, y)
      BY <2>3 DEF replaced
    <3> HIDE DEF d, y
    <3>2. /\ DOMAIN scheduled = 1 .. Len(scheduled) /\ Len(scheduled) \in Nat
          /\ DOMAIN d = 1 .. Len(scheduled) + 1 /\ d[Len(scheduled) + 1] = y
          /\ \A i \in DOMAIN scheduled : d[i] = scheduled[i]
      BY <1>1, <1>2, <3>1
    <3>3. \A i \in DOMAIN d : i \in DOMAIN scheduled \/ i = Len(scheduled) + 1
      BY <3>2
    <3> QED
      BY <2>1, <2>3, <3>2, <3>3
  <2> QED
    BY <2>2, <2>3
<1> HIDE DEF d, y
<1>4. inbox' = Tail(inbox) /\ scheduled' = d
  BY <1>1 DEF d, y
<1>5. Queued'
  BY <1>2, <1>3, <1>4 DEF Regular, Queued
<1>6. Waiting' \subseteq Waiting
  BY <1>1, <1>2, <1>4 DEF Waiting
<1> QED
  BY <1>1, <1>5, <1>6 DEF Regular, Dated, Recorded, Staged, Cleaning, Removed

\* writeOneScheduledNow()
LEMMA WriteOneRegular ==
    ASSUME IInv, Regular, writeOneScheduledNow
    PROVE  Regular'
<1>1. /\ UNCHANGED << mode, keys, inbox, disk, cleanup, listed, version, kept, spoiled >>
      /\ scheduled \in Seq(Entries) /\ scheduled # << >>
      /\ writing' = Head(scheduled) /\ scheduled' = Tail(scheduled)
  BY DEF writeOneScheduledNow, account, clearing, history, IInv, Inv, Types
<1>2. /\ Head(scheduled) \in Range(scheduled)
      /\ Range(Tail(scheduled)) \subseteq Range(scheduled)
  BY <1>1, Popped
<1>3. writing'.stage = "save"
  BY <1>1, <1>2 DEF Regular, Queued
<1>4. Queued'
  <2>1. \A i \in DOMAIN Tail(scheduled) :
           i + 1 \in DOMAIN scheduled /\ Tail(scheduled)[i] = scheduled[i + 1] /\ i \in Int
    BY <1>1
  <2>2. \A i, j \in DOMAIN Tail(scheduled) : i + 1 = j + 1 => i = j
    BY <2>1
  <2> QED
    BY <1>1, <1>2, <2>1, <2>2 DEF Regular, Queued
<1>5. Waiting' \subseteq Waiting
  BY <1>1, <1>2 DEF Waiting
<1> QED
  BY <1>1, <1>3, <1>4, <1>5 DEF Regular, Dated, Recorded, Staged, Cleaning, Removed

\* What an operation of writeNow() does to the file of its entry.
LEMMA Operations ==
    ASSUME IInv, writeNow
    PROVE  LET b == writing.base
               s == disk[b].s
               z == disk[b].plain
           IN
           /\ UNCHANGED << mode, keys, notRead, inbox, scheduled, cleanup, listed, version >>
           /\ writing \in Entries /\ b \in Bases /\ disk' \in [Bases -> [s : Contents, plain : Contents]]
           /\ \A c \in Bases : c # b => disk'[c] = disk[c]
           /\ kept' = kept \/ kept' = settled(disk')
           /\ writing' = NoEntry
                \/ (writing'.base = b /\ writing'.data = writing.data /\ writing' \in Entries)
           /\ spoiled => spoiled'
           /\ dropped => dropped'
           /\ \/ disk' = disk /\ writing'.stage = "open"
              \/ disk' = disk /\ writing'.stage = "none" /\ dropped'
              \/ /\ disk'[b] = [s |-> writing.data, plain |-> z] /\ writing'.stage = "clean"
              \/ /\ writing.stage = "clean" /\ writing'.stage = "none"
                 /\ disk' = disk \/ disk'[b] = [s |-> s, plain |-> NoFile]
              \/ /\ disk'[b] = [s |-> s, plain |-> Torn] /\ writing'.stage = "flush"
                 /\ spoiled' = (spoiled \/ onlyPlain(b))
              \/ /\ disk'[b] = [s |-> s, plain |-> writing.data] /\ writing'.stage = "rename"
              \/ disk' = disk /\ writing'.stage = "rename" /\ spoiled'
              \/ /\ writing.stage = "rename"
                 /\ disk'[b] = [s |-> z, plain |-> NoFile] /\ writing'.stage = "none"
              \/ /\ writing.stage = "rename" /\ disk' = disk /\ writing'.stage = "unsafe"
              \/ /\ writing.stage = "unsafe"
                 /\ disk'[b] = [s |-> NoFile, plain |-> z] /\ writing'.stage = "none"
<1> DEFINE b == writing.base
<1>1. UNCHANGED << mode, keys, notRead, inbox, scheduled, cleanup, listed, version >>
  BY DEF writeNow, account, clearing
<1>2. writing # NoEntry /\ writing \in Entries
  BY DEF IInv, Inv, Types, writeNow, commit, removeSimple, openPlain, flushPlain, rename,
         removeSafe, NoEntry
<1>3. /\ b \in Bases /\ disk \in [Bases -> [s : Contents, plain : Contents]]
      /\ writing.data \in Contents
  BY <1>2 DEF IInv, Inv, Types, Entries
<1>4. IInv'
  BY NextInv DEF Next, Manager
<1>5. /\ disk' \in [Bases -> [s : Contents, plain : Contents]]
      /\ writing' \in Entries \cup {NoEntry}
  BY <1>4 DEF IInv, Inv, Types
<1>6. disk[b] = [s |-> disk[b].s, plain |-> disk[b].plain]
  BY <1>3
<1>7. ASSUME NEW c
      PROVE  /\ slot("s", c) =>
                  /\ disk'[b] = [s |-> c, plain |-> disk[b].plain]
                  /\ \A a \in Bases : a # b => disk'[a] = disk[a]
             /\ slot("plain", c) =>
                  /\ disk'[b] = [s |-> disk[b].s, plain |-> c]
                  /\ \A a \in Bases : a # b => disk'[a] = disk[a]
  <2>1. /\ [disk[b] EXCEPT !.s = c] = [s |-> c, plain |-> disk[b].plain]
        /\ [disk[b] EXCEPT !.plain = c] = [s |-> disk[b].s, plain |-> c]
    BY <1>6
  <2>2. /\ slot("s", c) => disk' = [disk EXCEPT ![b] = [disk[b] EXCEPT !.s = c]]
        /\ slot("plain", c) => disk' = [disk EXCEPT ![b] = [disk[b] EXCEPT !.plain = c]]
    BY DEF slot
  <2> QED
    BY <1>3, <2>1, <2>2
<1>8. ASSUME NEW st, next(st)
      PROVE  writing'.base = b /\ writing'.data = writing.data /\ writing'.stage = st
             /\ (st # "none" => writing' # NoEntry)
  <2>1. writing' = [writing EXCEPT !.stage = st]
    BY <1>8 DEF next
  <2>2. writing'.base = b /\ writing'.data = writing.data /\ writing'.stage = st
    BY <1>2, <2>1 DEF Entries
  <2> QED
    BY <2>2 DEF NoEntry
<1>9. over => writing' = NoEntry /\ writing'.stage = "none" /\ kept' = settled(disk')
  BY DEF over, NoEntry
<1> HIDE DEF b
<1>10. CASE commit
  BY <1>1, <1>2, <1>3, <1>5, <1>7, <1>8, <1>10 DEF commit, b
<1>11. CASE removeSimple
  BY <1>1, <1>2, <1>3, <1>5, <1>7, <1>9, <1>11 DEF removeSimple, b
<1>12. CASE openPlain
  <2>2. CASE /\ slot("plain", Torn) /\ next("flush") /\ UNCHANGED kept
             /\ spoiled' = (spoiled \/ onlyPlain(b)) /\ dropped' = dropped
    <3>1. /\ disk'[b] = [s |-> disk[b].s, plain |-> Torn]
          /\ \A a \in Bases : a # b => disk'[a] = disk[a]
      BY <1>7, <2>2
    <3>2. writing'.base = b /\ writing'.data = writing.data /\ writing'.stage = "flush"
          /\ writing' # NoEntry
      BY <1>8, <2>2
    <3>3. spoiled => spoiled'
      BY <2>2
    <3> QED
      BY <1>1, <1>2, <1>3, <1>5, <2>2, <3>1, <3>2, <3>3 DEF b
  <2>3. CASE disk' = disk /\ over /\ UNCHANGED spoiled /\ dropped' = TRUE
    BY <1>1, <1>2, <1>3, <1>5, <1>9, <2>3 DEF b
  <2> QED
    BY <1>12, <2>2, <2>3 DEF openPlain, b
<1>13. CASE flushPlain
  BY <1>1, <1>2, <1>3, <1>5, <1>7, <1>8, <1>13 DEF flushPlain, b
<1>14. CASE rename
  <2>1. \/ /\ disk' = [disk EXCEPT ![b] = [s |-> disk[b].plain, plain |-> NoFile]]
           /\ over
        \/ next("unsafe") /\ disk' = disk /\ kept' = kept
    BY <1>14 DEF rename, b
  <2>2. writing.stage = "rename" /\ spoiled' = spoiled /\ dropped' = dropped
    BY <1>14 DEF rename
  <2> QED
    BY <1>1, <1>2, <1>3, <1>5, <1>8, <1>9, <2>1, <2>2 DEF b
<1>15. CASE removeSafe
  <2>1. CASE slot("s", NoFile) /\ UNCHANGED dropped
    BY <1>1, <1>2, <1>3, <1>5, <1>7, <1>9, <1>15, <2>1 DEF removeSafe, b
  <2>2. CASE disk' = disk /\ dropped' = TRUE
    BY <1>1, <1>2, <1>3, <1>5, <1>9, <1>15, <2>2 DEF removeSafe, b
  <2> QED
    BY <1>15, <2>1, <2>2 DEF removeSafe
<1> QED
  BY <1>10, <1>11, <1>12, <1>13, <1>14, <1>15 DEF writeNow

\* writeNow()
LEMMA WriteNowRegular ==
    ASSUME IInv, Regular, writeNow
    PROVE  Regular'
<1> DEFINE b == writing.base
<1>1. /\ UNCHANGED << mode, keys, inbox, scheduled, cleanup, listed, version >>
      /\ writing \in Entries /\ b \in Bases /\ writing \in Waiting /\ version \in Nat
      /\ \A c \in Bases : c # b => disk'[c] = disk[c]
      /\ kept' = kept \/ kept' = settled(disk')
      /\ writing' = NoEntry \/ (writing'.base = b /\ writing'.data = writing.data)
      /\ spoiled => spoiled'
  BY Operations DEF Waiting, IInv, Inv, Types
<1>2. /\ disk'[b].s \in {disk[b].s, disk[b].plain, writing.data, NoFile}
      /\ disk'[b].plain \in {disk[b].plain, writing.data, NoFile, Torn}
  BY Operations
<1>3. Dated'
  <2>1. ASSUME NEW k \in Keys
        PROVE  /\ disk'[k].s \in Drafts(version) \cup {NoFile, Torn}
               /\ disk'[k].plain \in Drafts(version) \cup {NoFile, Torn}
    <3>1. k \in Bases
      BY Constants
    <3>2. /\ disk[k].s \in Drafts(version) \cup {NoFile, Torn}
          /\ disk[k].plain \in Drafts(version) \cup {NoFile, Torn}
          /\ k = b => writing.data \in Drafts(version)
      BY <1>1 DEF Regular, Dated
    <3> QED
      BY <1>1, <1>2, <3>1, <3>2
  <2>2. ASSUME NEW e \in Waiting', e.base \in Keys
        PROVE  e.data \in Drafts(version)
    <3>1. CASE e \in Waiting
      BY <2>2, <3>1 DEF Regular, Dated
    <3>2. CASE e = writing'
      <4>1. writing' # NoEntry
        BY <2>2, <3>2, Constants
      <4> QED
        BY <1>1, <2>2, <3>2, <4>1 DEF Regular, Dated
    <3> QED
      BY <1>1, <3>1, <3>2 DEF Waiting
  <2> QED
    BY <1>1, <2>1, <2>2 DEF Dated
<1>4. Recorded'
  BY <1>1, SettledRecorded DEF Regular, Recorded
<1>5. Staged'
  <2>1. \/ writing'.stage \notin {"clean", "rename", "unsafe"}
        \/ /\ disk'[b] = [s |-> writing.data, plain |-> disk[b].plain]
           /\ writing'.stage = "clean"
        \/ /\ disk'[b] = [s |-> disk[b].s, plain |-> writing.data]
           /\ writing'.stage = "rename"
        \/ spoiled' /\ writing'.stage = "rename"
        \/ writing.stage = "rename" /\ disk' = disk /\ writing'.stage = "unsafe"
    BY Operations
  <2>2. writing'.stage \in {"clean", "rename", "unsafe"} =>
           writing'.base = b /\ writing'.data = writing.data
    BY <1>1 DEF NoEntry
  <2> QED
    BY <1>1, <2>1, <2>2 DEF Regular, Staged, Removed
<1>6. Queued' /\ Cleaning'
  BY <1>1 DEF Regular, Queued, Cleaning
<1> QED
  BY <1>3, <1>4, <1>5, <1>6 DEF Regular

-----------------------------------------------------------------------------
(* Every step keeps what a start may read.                                 *)

\* The types of the disk and the line after a step.
LEMMA WayThen == IInv' /\ Dated' => Way(View(disk'), Line', version')
<1>1. (IInv /\ Dated => Way(View(disk), Line, version))'
  BY WayNow, PTL
<1> QED
  BY <1>1

\* A start from the files, for every chat.
ReadBacks(files) ==
    /\ View(files)[Map] = ReadMap(files)
    /\ \A o \in Peers :
          ReadBack(files, o) = IF View(files)[Map][o] # 0
                                 THEN View(files)[View(files)[Map][o]][o] ELSE 0

\* What a start would read after a step.
LEMMA ReadBackThen == IInv' /\ Dated' => ReadBacks(disk')
<1>1. IInv /\ Dated => ReadBacks(disk)
  BY SeenMap, ReadBackIs DEF ReadBacks
<1>2. (IInv /\ Dated => ReadBacks(disk))'
  BY <1>1, PTL
<1> QED
  BY <1>2

\* Steps of the manager, and writeMap().
LEMMA PassedCurrent ==
    ASSUME IInv, Dated, IInv', Dated', Current, mode # "down", spoiled => spoiled',
           UNCHANGED << keys, version, kept >>, notRead' \subseteq notRead,
           ~spoiled' => Passes(View(disk), Line, View(disk'), Line')
    PROVE  Current'
<1> SUFFICES ASSUME ~spoiled', mode' # "down"
             PROVE  /\ \A p \in Peers : Sound(View(disk'), Line', p, kept'[p])
                    /\ Own(View(disk'), Line')
                    /\ Unread'
  BY DEF Current
<1>1. Way(View(disk'), Line', version)
  BY WayThen
<1>2. /\ \A p \in Peers : Sound(View(disk'), Line', p, kept[p])
      /\ Own(View(disk'), Line')
      /\ Unread'
  BY <1>1, PassesCurrent
<1> QED
  BY <1>2

\* writeMap(): the map that is sent is the one in memory.
LEMMA MapWrittenCurrent ==
    ASSUME IInv, Dated, IInv', Dated', Current, mode # "down", mapWritten,
           UNCHANGED << keys, notRead, scheduled, writing, disk, version, kept, spoiled >>
    PROVE  Current'
<1>1. /\ inbox \in Seq(Entries) /\ scheduled \in Seq(Entries) /\ keys \in Maps
  BY DEF IInv, Inv, Types
<1>2. CASE inbox' = inbox
  <2>1. Line' = Line
    BY <1>2 DEF Line
  <2> QED
    BY <2>1, SamePasses, PassedCurrent
<1>3. CASE inbox' = Append(inbox, Entry(Map, keys))
  <2> DEFINE y == Entry(Map, keys)
  <2>1. y \in Entries
    BY <1>1, Constants DEF Entry, Entries, Stages
  <2>2. Line' = LineOf(writing, scheduled, Sent(inbox, y), keys)
    BY <1>3 DEF Line, Sent
  <2>3. Enters(Line, Line', y) /\ Line[Len(Line)] = y
    <3> DEFINE q == LineOf(writing, scheduled, inbox, keys)
               r == LineOf(writing, scheduled, Sent(inbox, y), keys)
    <3>1. Enters(q, r, y) /\ q[Len(q)] = Entry(Map, keys)
      <4> HIDE DEF y
      <4>1. Grows(writing, scheduled, inbox, keys, keys, y)
        BY <1>1, <2>1, LineAppended
      <4> QED
        BY <4>1 DEF Grows
    <3> QED
      BY <2>2, <3>1 DEF Line
  <2>4. Way(View(disk), Line, version) /\ Way(View(disk), Line', version)
    BY WayNow, WayThen
  <2>5. Passes(View(disk), Line, View(disk), Line')
    BY <2>3, <2>4, MapPasses
  <2> QED
    BY <2>5, PassedCurrent
<1> QED
  BY <1>2, <1>3 DEF mapWritten

\* WriteManager::write(): an entry that is replaced is passed over.
LEMMA WriteCurrent ==
    ASSUME IInv, Regular, IInv', Regular', Current, write
    PROVE  Current'
<1>1. /\ UNCHANGED << mode, keys, notRead, writing, disk, version, kept, spoiled >>
      /\ inbox \in Seq(Entries) /\ scheduled \in Seq(Entries) /\ inbox # << >>
      /\ inbox' = Tail(inbox) /\ scheduled' = replaced(scheduled, Head(inbox))
  BY DEF write, account, history, IInv, Inv, Types
<1>2. mode # "down"
  BY <1>1 DEF IInv, Down
<1>3. Line' = LineOf(writing, replaced(scheduled, Head(inbox)), Tail(inbox), keys)
  BY <1>1 DEF Line
<1>4. Passes(View(disk), Line, View(disk), Line')
  BY <1>1, <1>3, WritePasses DEF Line, Regular, Queued
<1> QED
  BY <1>1, <1>2, <1>4, PassedCurrent DEF Regular

\* writeOneScheduledNow(): the order in which the files are written.
LEMMA WriteOneCurrent ==
    ASSUME IInv, Regular, IInv', Regular', Current, writeOneScheduledNow
    PROVE  Current'
<1>1. /\ UNCHANGED << mode, keys, notRead, inbox, disk, version, kept, spoiled >>
      /\ inbox \in Seq(Entries) /\ scheduled \in Seq(Entries) /\ scheduled # << >>
      /\ writing = NoEntry /\ writing' = Head(scheduled) /\ scheduled' = Tail(scheduled)
  BY DEF writeOneScheduledNow, account, history, IInv, Inv, Types
<1>2. mode # "down"
  BY <1>1 DEF IInv, Down
<1>3. Line' = LineOf(Head(scheduled), Tail(scheduled), inbox, keys)
  BY <1>1 DEF Line
<1>4. Passes(View(disk), Line, View(disk), Line')
  BY <1>1, <1>3, TakePasses DEF Line
<1> QED
  BY <1>1, <1>2, <1>4, PassedCurrent DEF Regular

\* What is written is not what stands for no file or a torn one.
LEMMA Real ==
    ASSUME NEW p \in Peers, NEW n \in Nat, NEW d \in Maps \cup Drafts(n)
    PROVE  d # NoFile /\ d # Torn
<1>1. d[p] >= 0
  <2>1. CASE d \in Maps
    <3>1. d[p] \in {0} \cup Keys
      BY <2>1 DEF Maps
    <3> QED
      BY <3>1, DraftAssumption DEF Keys
  <2>2. CASE d \in Drafts(n)
    BY <2>2 DEF Drafts
  <2> QED
    BY <2>1, <2>2
<1>2. NoFile[p] = -1 /\ Torn[p] = -2
  BY DEF NoFile, Torn
<1> QED
  BY <1>1, <1>2

\* An operation leaves the file as a start sees it, or makes it the content of
\* the entry.
LEMMA OperationView ==
    ASSUME IInv, Regular, writeNow, ~spoiled', NEW o \in Peers
    PROVE  \/ View(disk') = View(disk)
           \/ \A c \in Bases : View(disk')[c] = IF c = writing.base THEN writing.data
                                               ELSE View(disk)[c]
<1> DEFINE b == writing.base
           d == writing.data
           s == disk[b].s
           z == disk[b].plain
<1>1. /\ writing \in Entries /\ b \in Bases /\ writing \in Waiting /\ version \in Nat
      /\ \A c \in Bases : c # b => disk'[c] = disk[c]
      /\ ~spoiled
  BY Operations DEF Waiting, IInv, Inv, Types
<1>2. d # NoFile /\ d # Torn
  <2>1. d \in Maps \cup Drafts(version)
    <3>1. CASE b = Map
      BY <1>1, <3>1 DEF Entries
    <3>2. CASE b \in Keys
      BY <1>1, <3>2 DEF Regular, Dated
    <3> QED
      BY <1>1, <3>1, <3>2 DEF Bases
  <2> QED
    BY <1>1, <2>1, Real
<1>3. NoFile # Torn
  BY DEF NoFile, Torn
<1>4. /\ \A c \in Bases : c # b => View(disk')[c] = View(disk)[c]
      /\ DOMAIN View(disk) = Bases /\ DOMAIN View(disk') = Bases
      /\ View(disk) = [c \in Bases |-> View(disk)[c]]
      /\ View(disk') = [c \in Bases |-> View(disk')[c]]
  BY <1>1 DEF View, Readable, Tried
<1>5. /\ View(disk)[b] = IF s # NoFile
                           THEN IF s = Torn THEN Empty ELSE s
                           ELSE IF z \in {NoFile, Torn} THEN Empty ELSE z
      /\ View(disk')[b] = IF disk'[b].s # NoFile
                            THEN IF disk'[b].s = Torn THEN Empty ELSE disk'[b].s
                            ELSE IF disk'[b].plain \in {NoFile, Torn} THEN Empty
                                 ELSE disk'[b].plain
  BY <1>1, Seen
<1>6. disk' = disk => View(disk') = View(disk)
  OBVIOUS
<1>7. View(disk')[b] \in {View(disk)[b], d} => 
           \/ View(disk') = View(disk)
           \/ \A c \in Bases : View(disk')[c] = IF c = b THEN d ELSE View(disk)[c]
  <2>1. CASE View(disk')[b] = View(disk)[b]
    <3>1. \A c \in Bases : View(disk')[c] = View(disk)[c]
      BY <1>4, <2>1
    <3> QED
      BY <1>4, <3>1
  <2>2. CASE View(disk')[b] = d
    BY <1>4, <2>2
  <2> QED
    BY <2>1, <2>2
<1>8. /\ writing.stage = "clean" => s = d \/ (s = NoFile /\ z = NoFile)
      /\ writing.stage \in {"rename", "unsafe"} => z = d \/ (s = NoFile /\ z = NoFile)
  BY <1>1 DEF Regular, Staged, Removed, Missing
<1>9. \/ disk' = disk
      \/ disk'[b] = [s |-> d, plain |-> z]
      \/ writing.stage = "clean" /\ disk'[b] = [s |-> s, plain |-> NoFile]
      \/ disk'[b] = [s |-> s, plain |-> Torn] /\ ~onlyPlain(b)
      \/ disk'[b] = [s |-> s, plain |-> d]
      \/ writing.stage = "rename" /\ disk'[b] = [s |-> z, plain |-> NoFile]
      \/ writing.stage = "unsafe" /\ disk'[b] = [s |-> NoFile, plain |-> z]
  BY Operations
<1>10. ~onlyPlain(b) <=> s # NoFile \/ z = NoFile
  BY DEF onlyPlain
<1> HIDE DEF b, d, s, z
<1>11. disk' # disk => View(disk')[b] \in {View(disk)[b], d}
  BY <1>2, <1>3, <1>5, <1>8, <1>9, <1>10
<1> QED
  BY <1>6, <1>7, <1>11 DEF b, d

\* writeNow(): the entry takes the place of the file, then the history is cut.
LEMMA WriteNowCurrent ==
    ASSUME IInv, Regular, IInv', Regular', Current, writeNow
    PROVE  Current'
<1> SUFFICES ASSUME ~spoiled', mode' # "down", NEW o \in Peers
             PROVE  /\ \A p \in Peers : Sound(View(disk'), Line', p, kept'[p])
                    /\ Own(View(disk'), Line')
                    /\ Unread'
  <2>1. notRead' \subseteq Peers
    BY DEF IInv, Inv, Types
  <2> QED
    BY <2>1 DEF Current, Own, Unread
<1>1. /\ UNCHANGED << mode, keys, notRead, inbox, scheduled, version >>
      /\ writing \in Entries /\ ~spoiled
      /\ inbox \in Seq(Entries) /\ scheduled \in Seq(Entries) /\ version \in Nat
      /\ kept' = kept \/ kept' = settled(disk')
      /\ writing' = NoEntry \/ (writing'.base = writing.base /\ writing'.data = writing.data)
  BY Operations DEF IInv, Inv, Types
<1>2. Line' = LineOf(writing', scheduled, inbox, keys)
  BY <1>1 DEF Line
<1>3. Passes(View(disk), Line, View(disk'), Line')
  BY <1>1, <1>2, OperationView, WrittenPasses DEF Line
<1>4. Way(View(disk'), Line', version)
  BY <1>1, WayThen DEF Regular
<1>5. /\ \A p \in Peers : Sound(View(disk'), Line', p, kept[p])
      /\ Own(View(disk'), Line')
      /\ Unread'
  BY <1>1, <1>3, <1>4, PassesCurrent DEF Regular
<1>6. ASSUME NEW p \in Peers
      PROVE  Sound(View(disk'), Line', p, kept'[p])
  <2>1. CASE kept'[p] = kept[p]
    BY <1>5, <2>1
  <2>2. CASE \E f \in DOMAIN kept[p] :
                 /\ kept[p][f] = ReadBack(disk', p)
                 /\ kept[p][f] # 0 \/ ReadMap(disk')[p] = 0
                 /\ \A i \in 1 .. f - 1 : kept[p][i] # kept[p][f]
                 /\ kept'[p] = SubSeq(kept[p], f, Len(kept[p]))
    <3>1. PICK f \in DOMAIN kept[p] :
                 /\ kept[p][f] = ReadBack(disk', p)
                 /\ kept[p][f] # 0 \/ ReadMap(disk')[p] = 0
                 /\ \A i \in 1 .. f - 1 : kept[p][i] # kept[p][f]
                 /\ kept'[p] = SubSeq(kept[p], f, Len(kept[p]))
      BY <2>2
    <3>2. /\ View(disk')[Map] = ReadMap(disk')
          /\ ReadBack(disk', p) = IF View(disk')[Map][p] # 0
                                    THEN View(disk')[View(disk')[Map][p]][p] ELSE 0
      BY ReadBackThen DEF Regular, ReadBacks
    <3>3. kept[p] \in Seq(Nat) /\ Sorted(kept[p])
      BY DEF Regular, Recorded
    <3>4. Sound(View(disk'), Line', p, SubSeq(kept[p], f, Len(kept[p])))
      <4>1. LET k == View(disk')[Map][p] IN
            /\ kept[p][f] = IF k # 0 THEN View(disk')[k][p] ELSE 0
            /\ kept[p][f] # 0 \/ k = 0
        BY <3>1, <3>2
      <4> DEFINE h == kept[p]
                 w == View(disk')
                 q == Line'
      <4>2. /\ h \in Seq(Nat) /\ f \in DOMAIN h /\ Way(w, q, version) /\ Sorted(h)
            /\ Sound(w, q, p, h) /\ \A i \in 1 .. f - 1 : h[i] # h[f]
            /\ LET k == w[Map][p] IN
               /\ h[f] = IF k # 0 THEN w[k][p] ELSE 0
               /\ h[f] # 0 \/ k = 0
        BY <1>4, <1>5, <3>1, <3>3, <4>1
      <4> HIDE DEF h, w, q
      <4>3. Sound(w, q, p, SubSeq(h, f, Len(h)))
        BY <4>2, CutSound
      <4> QED
        BY <4>3 DEF h, w, q
    <3> QED
      BY <3>1, <3>4
  <2>3. kept[p] \in Seq(Nat)
    BY DEF Regular, Recorded
  <2>4. CASE kept' = settled(disk')
    <3> DEFINE files == disk'
    <3>1. \/ settled(files)[p] = kept[p]
          \/ \E f \in DOMAIN kept[p] :
                 /\ kept[p][f] = ReadBack(files, p)
                 /\ kept[p][f] # 0 \/ ReadMap(files)[p] = 0
                 /\ \A i \in 1 .. f - 1 : kept[p][i] # kept[p][f]
                 /\ settled(files)[p] = SubSeq(kept[p], f, Len(kept[p]))
      <4> HIDE DEF files
      <4> QED
        BY <2>3, SettledIs
    <3>2. kept'[p] = settled(files)[p]
      BY <2>4
    <3> QED
      BY <2>1, <2>2, <3>1, <3>2
  <2> QED
    BY <1>1, <2>1, <2>4
<1> QED
  BY <1>5, <1>6

\* A sequence and nothing more.
LEMMA NothingAdded == ASSUME NEW S, NEW a \in Seq(S) PROVE a \o << >> = a
OBVIOUS

\* The line when nothing waits.
LEMMA EmptyLine ==
    ASSUME NEW e, NEW m
    PROVE  LET q == LineOf(e, << >>, << >>, m)
           IN  /\ Len(q) = 2 /\ DOMAIN q = 1 .. 2
               /\ q[1] = e /\ q[2] = Entry(Map, m)
<1> DEFINE S == {e, Entry(Map, m)}
           a == << e >>
           b == << Entry(Map, m) >>
<1>1. /\ a \in Seq(S) /\ Len(a) = 1 /\ a[1] = e
      /\ b \in Seq(S) /\ Len(b) = 1 /\ b[1] = Entry(Map, m)
  OBVIOUS
<1>2. LineOf(e, << >>, << >>, m) = (a \o << >> \o << >>) \o b
  BY DEF LineOf
<1> HIDE DEF a, b, S
<1>3. a \o << >> = a
  BY <1>1, NothingAdded
<1>4. a \o b \in Seq(S) /\ Len(a \o b) = 2
  BY <1>1
<1>5. DOMAIN (a \o b) = 1 .. 2 /\ (a \o b)[1] = e /\ (a \o b)[2] = Entry(Map, m)
  BY <1>1, <1>4
<1> QED
  BY <1>2, <1>3, <1>4, <1>5

\* After a start only one map can be read, and nothing is on its way.
LEMMA StartCurrent ==
    ASSUME IInv, Regular, IInv', Regular', start
    PROVE  Current'
<1> DEFINE w == View(disk)
           q == Line'
           m == ReadMap(disk)
<1>1. /\ UNCHANGED << inbox, scheduled, writing, disk, version >>
      /\ inbox = << >> /\ scheduled = << >> /\ writing = NoEntry
      /\ keys' = m /\ m \in Maps
      /\ kept' = [p \in Peers |-> << ReadBack(disk, p) >>]
      /\ notRead' = {p \in Peers : keys'[p] # 0}
  BY ReadMapIsMap DEF start, manager, IInv, Inv, Types, Down
<1>2. /\ Len(q) = 2 /\ DOMAIN q = 1 .. 2 /\ q[1] = NoEntry /\ q[2] = Entry(Map, m)
  <2>1. q = LineOf(NoEntry, << >>, << >>, m)
    BY <1>1 DEF Line
  <2> HIDE DEF q, m
  <2> QED
    BY <2>1, EmptyLine
<1>3. /\ NoEntry.base = -1 /\ Entry(Map, m).base = Map /\ Entry(Map, m).data = m
      /\ Map = 0 /\ \A k \in Keys : k # Map
  BY Constants DEF Entry
<1>4. w[Map] = m
  BY SeenMap
<1> HIDE DEF q, m, w
<1>5. Places(q, Map) = {0, 2}
  BY <1>2, <1>3 DEF Places, For
<1>6. \A k \in Keys : Places(q, k) = {0}
  <2>1. \A k \in Keys : k # -1
    BY Constants
  <2> QED
    BY <1>2, <1>3, <2>1 DEF Places, For
<1>7. \A p : \A i \in Places(q, Map) : Key(w, q, p, i) = m[p]
  BY <1>2, <1>3, <1>4, <1>5 DEF Key, At
<1>8. \A p \in Peers : m[p] \in {0} \cup Keys
  BY <1>1 DEF Maps
<1>9. ASSUME NEW p \in Peers
      PROVE  Sound(w, q, p, kept'[p])
  <2> DEFINE v == ReadBack(disk, p)
  <2>1. v = IF m[p] # 0 THEN w[m[p]][p] ELSE 0
    BY <1>4, ReadBackIs DEF w, Regular
  <2>2. kept'[p] = << v >>
    BY <1>1
  <2> HIDE DEF v
  <2>3. Has(<< v >>, v)
    BY DEF Has
  <2>4. Texts(w, q, m[p], p) = {v}
    BY <1>6, <1>8, <2>1 DEF Texts, At
  <2>5. Held(w, q, p, << v >>)
    BY <1>7, <2>3, <2>4 DEF Held
  <2>6. Separate(w, q, p, << v >>) /\ NoReturn(w, q, p)
    BY <1>7 DEF Separate, NoReturn
  <2>7. Rising(w, q, p)
    <3> SUFFICES ASSUME NEW i \in Places(q, Map), Key(w, q, p, i) # 0,
                        NEW a \in Places(q, Key(w, q, p, i)),
                        NEW b \in Places(q, Key(w, q, p, i))
                 PROVE  ~(a < b) /\ a = 0
      BY DEF Rising
    <3> QED
      BY <1>6, <1>7, <1>8
  <2> QED
    BY <2>2, <2>5, <2>6, <2>7 DEF Sound
<1>10. Own(w, q)
  BY <1>1, <1>7 DEF Own, Maps
<1>11. \A p \in notRead' : \A i \in Places(q, Map) : Key(w, q, p, i) = keys'[p]
  BY <1>1, <1>7
<1> QED
  BY <1>1, <1>9, <1>10, <1>11 DEF Current, Unread, w, q

\* The process may end at any time: the map on the disk is at the first place.
LEMMA Found ==
    ASSUME IInv, Regular, Current, AtRest, ~spoiled, NEW p \in Peers
    PROVE  Has(kept[p], ReadBack(disk, p))
<1>1. CASE mode = "down"
  BY <1>1 DEF AtRest
<1>2. CASE mode # "down"
  <2> DEFINE w == View(disk)
             q == Line
             k == w[Map][p]
  <2>1. Sound(w, q, p, kept[p])
    BY <1>2 DEF Current
  <2>2. k \in {0} \cup Keys /\ ReadBack(disk, p) = IF k # 0 THEN w[k][p] ELSE 0
    BY ReadBackIs DEF Regular
  <2>3. 0 \in Places(q, Map) /\ Key(w, q, p, 0) = k /\ 0 \in Places(q, k)
    BY DEF Places, Key, At
  <2> HIDE DEF w, q, k
  <2>4. ReadBack(disk, p) \in Texts(w, q, k, p)
    BY <2>2, <2>3 DEF Texts, At
  <2> QED
    BY <2>1, <2>3, <2>4 DEF Sound, Held
<1> QED
  BY <1>1, <1>2

\* finish and crash leave the files as they are.
LEMMA StoppedAtRest ==
    ASSUME IInv, Regular, Current, AtRest, gone, UNCHANGED << disk, kept, spoiled >>
    PROVE  AtRest'
BY Found DEF AtRest

\* The map in memory is at the last place.
LEMMA Memory ==
    ASSUME IInv
    PROVE  /\ Line[Len(Line)] = Entry(Map, keys) /\ Len(Line) \in Nat \ {0}
           /\ \A w, p : Key(w, Line, p, Len(Line)) = keys[p]
<1>1. inbox \in Seq(Entries) /\ scheduled \in Seq(Entries) /\ keys \in Maps
  BY DEF IInv, Inv, Types
<1> DEFINE y == Entry(Map, keys)
<1>2. y \in Entries
  BY <1>1, Constants DEF Entry, Entries, Stages
<1> HIDE DEF y
<1>3. Grows(writing, scheduled, inbox, keys, keys, y)
  BY <1>1, <1>2, LineAppended
<1>4. Line[Len(Line)] = Entry(Map, keys)
  BY <1>3 DEF Grows, Line
<1>5. Len(Line) \in Nat \ {0}
  <2>1. /\ Len(Line) = Len(scheduled) + Len(inbox) + 2
        /\ Len(scheduled) \in Nat /\ Len(inbox) \in Nat
    BY <1>1, LineIs DEF Line
  <2> QED
    BY <2>1
<1>6. Entry(Map, keys).data = keys
  BY DEF Entry
<1> QED
  BY <1>4, <1>5, <1>6 DEF Key, At

\* clearLegacyFiles(): only files that no key in memory names are gone.
LEMMA ClearFilesCurrent ==
    ASSUME IInv, Regular, IInv', Regular', Current, clearFiles
    PROVE  Current'
<1> DEFINE w == View(disk)
           x == View(disk')
           q == Line
<1>1. /\ UNCHANGED << mode, keys, notRead, inbox, scheduled, writing, version, kept, spoiled >>
      /\ disk' = [b \in Bases |-> IF b \in listed THEN Missing ELSE disk[b]]
      /\ cleanup = "remove" /\ listed \subseteq Keys /\ notRead \subseteq Peers
  BY DEF clearFiles, account, manager, history, IInv, Inv, Types
<1>2. Line' = q
  BY <1>1 DEF Line
<1>3. Way(w, q, version) /\ Way(x, q, version)
  BY <1>1, <1>2, WayNow, WayThen DEF Regular
<1>4. \A b \in Bases : x[b] = IF b \in listed THEN Empty ELSE w[b]
  <2>1. Missing.s = NoFile /\ Missing.plain = NoFile
    BY DEF Missing
  <2> QED
    BY <1>1, <2>1, Seen
<1>5. q[Len(q)] = Entry(Map, keys)
  BY Memory
<1> HIDE DEF w, x, q
<1>6. /\ x[Map] = w[Map]
      /\ \A k \in Keys : x[k] = w[k] \/ (x[k] = Empty /\ k \in listed)
  BY <1>1, <1>4, Constants
<1>7. \A p : Key(w, q, p, Len(q)) = keys[p]
  BY Memory DEF q
<1>8. \A p \in Peers : keys[p] \notin listed
  BY <1>1 DEF Regular, Cleaning
<1>9. \A p : \A i \in Places(q, Map) : Key(x, q, p, i) = Key(w, q, p, i)
  BY <1>6 DEF Key, At
<1> SUFFICES ASSUME ~spoiled, mode # "down"
             PROVE  /\ \A p \in Peers : Sound(x, q, p, kept[p])
                    /\ Own(x, q)
                    /\ \A p \in notRead : \A i \in Places(q, Map) : Key(x, q, p, i) = keys[p]
  BY <1>1, <1>2 DEF Current, Unread, x
<1>10. /\ \A p \in Peers : Sound(w, q, p, kept[p])
       /\ Own(w, q)
       /\ \A p \in notRead : \A i \in Places(q, Map) : Key(w, q, p, i) = keys[p]
  BY DEF Current, Unread, w, q
<1>11. ASSUME NEW p \in Peers
       PROVE  Sound(x, q, p, kept[p])
  <2>1. \A k \in Keys : x[k] = w[k] \/ (x[k] = Empty /\ k # Key(w, q, p, Len(q)))
    BY <1>6, <1>7, <1>8
  <2> QED
    BY <1>3, <1>6, <1>10, <2>1, ClearedSound
<1> QED
  BY <1>9, <1>10, <1>11 DEF Own

-----------------------------------------------------------------------------
(* The drafts of one chat change; the others keep theirs.                  *)

\* More texts were given.
LEMMA WayMore ==
    ASSUME NEW w, NEW q, NEW n, NEW n2 \in Nat, Way(w, q, n), n <= n2
    PROVE  Way(w, q, n2)
<1>1. [Peers -> 0 .. n] \subseteq [Peers -> 0 .. n2]
  BY DEF Way
<1> QED
  BY <1>1 DEF Way

\* The line with another map in memory.
LEMMA Remembered ==
    ASSUME IInv, Dated, NEW m \in Maps
    PROVE  LET z == LineOf(writing, scheduled, inbox, m)
           IN  /\ Way(View(disk), z, version) /\ Remembers(Line, z)
               /\ Len(z) = Len(Line) /\ z[Len(z)] = Entry(Map, m)
               /\ \A x, p : Key(x, z, p, Len(Line)) = m[p]
<1> DEFINE z == LineOf(writing, scheduled, inbox, m)
           y == Entry(Map, m)
<1>1. inbox \in Seq(Entries) /\ scheduled \in Seq(Entries)
  BY DEF IInv, Inv, Types
<1>2. y \in Entries /\ y.data = m /\ y = Entry(Map, m)
  BY Constants DEF Entry, Entries, Stages
<1>3. Way(View(disk), z, version)
  BY WayWith
<1> HIDE DEF y
<1>4. Grows(writing, scheduled, inbox, keys, m, y)
  BY <1>1, <1>2, LineAppended
<1>5. Remembers(Line, z) /\ z[Len(z)] = y
  BY <1>2, <1>4 DEF Grows, Line
<1> HIDE DEF z
<1>6. Len(z) = Len(Line) /\ Len(Line) # 0
  BY <1>5, Memory DEF Remembers
<1>7. \A x, p : Key(x, z, p, Len(Line)) = m[p]
  BY <1>2, <1>5, <1>6 DEF Key, At
<1> QED
  BY <1>2, <1>3, <1>5, <1>6, <1>7 DEF z

\* A chat whose key in memory stays, and whose files stay.
LEMMA OthersKept ==
    ASSUME NEW w, NEW q, NEW x, NEW r, NEW n, NEW o \in Peers, NEW h,
           Way(w, q, n), Way(w, r, n), Way(x, r, n), Remembers(q, r),
           Key(w, r, o, Len(q)) = Key(w, q, o, Len(q)), x[Map] = w[Map],
           \A k \in Keys : x[k] = w[k] \/ \A i \in Places(q, Map) : Key(w, q, o, i) # k,
           Sound(w, q, o, h)
    PROVE  /\ Sound(x, r, o, h)
           /\ \A i \in Places(r, Map) : i \in Places(q, Map) /\ Key(x, r, o, i) = Key(w, q, o, i)
<1>1. /\ \A b : Places(r, b) = Places(q, b)
      /\ \A k \in Keys : \A i \in Places(q, k) : At(w, r, k, i) = At(w, q, k, i)
      /\ \A i \in Places(q, Map) : i # Len(q) => Key(w, r, o, i) = Key(w, q, o, i)
  BY RemembersTypes
<1>2. \A b : \A i \in Places(q, b) : i \in Nat
  BY WayTypes
<1>3. \A i \in Places(q, Map) : Key(x, r, o, i) = Key(w, q, o, i)
  <2>1. \A i : Key(x, r, o, i) = Key(w, r, o, i)
    BY DEF Key, At
  <2> QED
    BY <1>1, <2>1
<1>4. Later(w, q, x, r, o)
  <2> SUFFICES ASSUME NEW b \in Bases,
                      b = Map \/ \E i \in Places(r, Map) : Key(x, r, o, i) = b
               PROVE  \E G : Shift(w, q, x, r, o, b, G)
    BY DEF Later
  <2> DEFINE G == [i \in Places(r, b) |-> i]
  <2>1. \A i \in Places(r, b) : At(x, r, b, i)[o] = At(w, q, b, i)[o]
    <3>1. CASE b = Map
      BY <1>1, <1>3, <3>1 DEF Key
    <3>2. CASE b # Map
      <4>1. b \in Keys /\ x[b] = w[b]
        BY <1>1, <1>3, <3>2 DEF Bases
      <4>2. \A i : At(x, r, b, i) = At(w, r, b, i)
        BY <4>1 DEF At
      <4> QED
        BY <1>1, <4>1, <4>2
    <3> QED
      BY <3>1, <3>2
  <2>2. Shift(w, q, x, r, o, b, G)
    BY <1>1, <2>1 DEF Shift
  <2> QED
    BY <2>2
<1>5. Sound(x, r, o, h)
  BY <1>4, LaterSound
<1> QED
  BY <1>1, <1>3, <1>5

\* A chat under whose keys nothing is sent.
LEMMA OthersWait ==
    ASSUME NEW w, NEW q, NEW r, NEW n, NEW e, NEW o \in Peers, NEW h,
           Way(w, q, n), Way(w, r, n), Enters(q, r, e), e.base \in Keys,
           \A i \in Places(q, Map) : Key(w, q, o, i) # e.base,
           Sound(w, q, o, h)
    PROVE  Sound(w, r, o, h)
<1>1. /\ \A i \in Places(r, Map) : /\ Was(q, i) \in Places(q, Map)
                                   /\ Key(w, r, o, i) = Key(w, q, o, Was(q, i))
                                   /\ \A j \in Places(r, Map) :
                                         i < j => Was(q, i) < Was(q, j)
      /\ \A k \in Keys : Places(r, k) = Places(q, k) \cup
                            (IF k = e.base THEN {Len(q)} ELSE {})
      /\ \A k \in Keys : \A i \in Places(q, k) : At(w, r, k, i) = At(w, q, k, i)
  BY EntersTypes
<1>2. /\ \A i \in Places(r, Map) : i \in Nat
      /\ Len(q) \in Nat \ {0}
  BY WayTypes
<1>3. Later(w, q, w, r, o)
  <2> SUFFICES ASSUME NEW b \in Bases,
                      b = Map \/ \E i \in Places(r, Map) : Key(w, r, o, i) = b
               PROVE  \E G : Shift(w, q, w, r, o, b, G)
    BY DEF Later
  <2>1. CASE b = Map
    <3> DEFINE G == [i \in Places(r, b) |-> Was(q, i)]
    <3>1. \A i, j \in Places(r, b) : i <= j => G[i] <= G[j]
      <4> SUFFICES ASSUME NEW i \in Places(r, b), NEW j \in Places(r, b), i <= j
                   PROVE  Was(q, i) <= Was(q, j)
        OBVIOUS
      <4>1. i \in Nat /\ j \in Nat /\ Was(q, i) \in Nat /\ Was(q, j) \in Nat
        BY <1>2, <2>1 DEF Was
      <4> QED
        BY <1>1, <2>1, <4>1
    <3>2. \A i \in Places(r, b) : i # 0 => Was(q, i) # 0
      BY <1>2 DEF Was
    <3>3. \A i \in Places(r, b) : /\ Was(q, i) \in Places(q, b)
                                  /\ At(w, r, b, i)[o] = At(w, q, b, Was(q, i))[o]
      BY <1>1, <2>1 DEF Key
    <3>4. Shift(w, q, w, r, o, b, G)
      BY <3>1, <3>2, <3>3 DEF Shift
    <3> QED
      BY <3>4
  <2>2. CASE b # Map
    <3> DEFINE G == [i \in Places(r, b) |-> i]
    <3>1. b \in Keys /\ b # e.base
      BY <1>1, <2>2 DEF Bases
    <3>2. Shift(w, q, w, r, o, b, G)
      BY <1>1, <3>1 DEF Shift
    <3> QED
      BY <3>2
  <2> QED
    BY <2>1, <2>2
<1> QED
  BY <1>3, LaterSound

\* A chat loses its file and its key: nothing changes for the others.
LEMMA KeyRemoved ==
    ASSUME IInv, Dated, IInv', Dated', Current, mode # "down", ~spoiled,
           NEW p \in Peers, keys[p] # 0, disk' = ClearKey(keys[p]),
           keys' = [keys EXCEPT ![p] = 0], UNCHANGED << inbox, scheduled, writing >>,
           version <= version'
    PROVE  LET w == View(disk)
               q == Line
               x == View(disk')
               r == Line'
           IN  /\ Way(w, q, version') /\ Way(w, r, version') /\ Way(x, r, version')
               /\ Remembers(q, r) /\ Len(r) = Len(q) /\ Key(w, r, p, Len(q)) = 0
               /\ x[Map] = w[Map]
               /\ \A k \in Keys : x[k] = w[k] \/ (x[k] = Empty /\ k # Key(w, r, p, Len(r)))
               /\ Own(x, r)
               /\ \A o \in Peers : o # p =>
                     /\ Sound(x, r, o, kept[o])
                     /\ \A i \in Places(r, Map) :
                           i \in Places(q, Map) /\ Key(x, r, o, i) = Key(w, q, o, i)
<1> DEFINE w == View(disk)
           q == Line
           x == View(disk')
           r == Line'
           k == keys[p]
<1>1. /\ keys \in Maps /\ keys' \in Maps /\ k \in Keys /\ k \in Bases /\ k # Map /\ DOMAIN disk = Bases
      /\ version \in Nat /\ version' \in Nat
  BY Constants DEF IInv, Inv, Types, Maps
<1>2. /\ keys'[p] = 0 /\ \A o \in Peers : o # p => keys'[o] = keys[o]
  BY <1>1 DEF Maps
<1>3. /\ x[k] = Empty /\ \A b \in Bases : b # k => x[b] = w[b]
  <2>1. disk' = [disk EXCEPT ![k] = Missing] /\ Missing.s = NoFile /\ Missing.plain = NoFile
    BY DEF ClearKey, Missing
  <2>2. disk'[k] = Missing /\ \A b \in Bases : b # k => disk'[b] = disk[b]
    BY <1>1, <2>1
  <2>3. View(disk')[k] = Empty
    <3>1. disk'[k].s = NoFile /\ disk'[k].plain = NoFile
      BY <2>1, <2>2
    <3> QED
      BY <1>1, <3>1, Seen
  <2>4. \A b \in Bases : b # k => View(disk')[b] = View(disk)[b]
    BY <2>2 DEF View, Readable, Tried
  <2> QED
    BY <2>3, <2>4
<1>4. r = LineOf(writing, scheduled, inbox, keys')
  BY DEF Line
<1>5. /\ Way(w, r, version) /\ Remembers(q, r) /\ Len(r) = Len(q)
      /\ \A y, o : Key(y, r, o, Len(q)) = keys'[o]
      /\ \A y, o : Key(y, q, o, Len(q)) = keys[o]
      /\ Len(q) \in Places(q, Map)
  <2>1. Way(w, q, version)
    BY WayNow
  <2>2. Len(q) \in Places(q, Map)
    BY <2>1, WayTypes
  <2> DEFINE m == keys'
  <2>3. m \in Maps /\ r = LineOf(writing, scheduled, inbox, m)
    BY <1>1, <1>4
  <2> HIDE DEF m, r
  <2>4. /\ Way(w, r, version) /\ Remembers(q, r) /\ Len(r) = Len(q)
        /\ \A y, o : Key(y, r, o, Len(q)) = m[o]
    BY <2>3, Remembered
  <2> QED
    BY <2>2, <2>4, Memory DEF m, r
<1>6. /\ Way(w, q, version') /\ Way(w, r, version') /\ Way(x, r, version')
  <2>1. Way(w, q, version)
    BY WayNow
  <2> HIDE DEF w, q, x, r
  <2>2. Way(w, q, version') /\ Way(w, r, version')
    BY <1>1, <1>5, <2>1, WayMore
  <2> QED
    BY <2>2, WayThen DEF x, r
<1>7. /\ \A o \in Peers : Sound(w, q, o, kept[o])
      /\ Own(w, q)
  BY DEF Current
<1> HIDE DEF w, q, x, r
<1>8. x[Map] = w[Map]
  BY <1>1, <1>3, Constants
<1>9. \A b \in Keys : x[b] = w[b] \/ (x[b] = Empty /\ b # Key(w, r, p, Len(r)))
  BY <1>2, <1>3, <1>5, Constants
<1>10. ASSUME NEW o \in Peers, o # p
       PROVE  /\ Sound(x, r, o, kept[o])
              /\ \A i \in Places(r, Map) :
                    i \in Places(q, Map) /\ Key(x, r, o, i) = Key(w, q, o, i)
  <2>1. \A i \in Places(q, Map) : Key(w, q, o, i) # k
    <3>1. Key(w, q, p, Len(q)) = k /\ k # 0
      BY <1>1, <1>5, Constants
    <3> QED
      BY <1>5, <1>7, <1>10, <3>1 DEF Own
  <2>2. \A b \in Keys : x[b] = w[b] \/ \A i \in Places(q, Map) : Key(w, q, o, i) # b
    BY <1>3, <2>1, Constants
  <2>3. Key(w, r, o, Len(q)) = Key(w, q, o, Len(q))
    BY <1>2, <1>5, <1>10
  <2> QED
    BY <1>5, <1>6, <1>7, <1>8, <2>2, <2>3, OthersKept
<1>11. ASSUME NEW i \in Places(r, Map)
       PROVE  /\ i \in Places(q, Map)
              /\ \/ Key(x, r, p, i) = 0
                 \/ Key(x, r, p, i) = Key(w, q, p, i)
  <2>1. /\ \A b : Places(r, b) = Places(q, b)
        /\ \A j \in Places(q, Map) : j # Len(q) => Key(w, r, p, j) = Key(w, q, p, j)
    BY <1>5, <1>6, RemembersTypes
  <2>2. Key(x, r, p, i) = Key(w, r, p, i)
    BY <1>8 DEF Key, At
  <2> QED
    BY <1>2, <1>5, <2>1, <2>2
<1>12. Own(x, r)
  <2>1. \A i \in Places(r, Map), o \in Peers :
           \/ Key(x, r, o, i) = 0
           \/ \E j \in Places(q, Map) : Key(x, r, o, i) = Key(w, q, o, j)
    <3> SUFFICES ASSUME NEW i \in Places(r, Map), NEW o \in Peers, Key(x, r, o, i) # 0
                 PROVE  i \in Places(q, Map) /\ Key(x, r, o, i) = Key(w, q, o, i)
      OBVIOUS
    <3>1. CASE o = p
      BY <1>11, <3>1
    <3>2. CASE o # p
      BY <1>10, <3>2
    <3> QED
      BY <3>1, <3>2
  <2> QED
    BY <1>7, <2>1, OwnKept
<1> QED
  BY <1>2, <1>5, <1>6, <1>8, <1>9, <1>10, <1>12 DEF w, q, x, r

\* An empty text for a chat without a key changes only its history.
LEMMA NothingWrittenCurrent ==
    ASSUME IInv, Regular, Current, NEW p \in Peers, mode = "running",
           keys[p] = 0, UNCHANGED << keys, disk, inbox, scheduled, writing, spoiled >>,
           notRead' = notRead \ {p}, kept' = [kept EXCEPT ![p] = Append(@, 0)]
    PROVE  Current'
<1> DEFINE w == View(disk)
           q == Line
<1>1. Line' = q
  BY DEF Line
<1>2. Way(w, q, version) /\ Key(w, q, p, Len(q)) = 0
  BY WayNow, Memory DEF Regular
<1>3. kept \in [Peers -> Seq(Nat)]
  BY DEF Regular, Recorded
<1>4. Remembers(q, q)
  BY DEF Remembers
<1> SUFFICES ASSUME ~spoiled
             PROVE  /\ \A o \in Peers : Sound(w, q, o, kept'[o])
                    /\ Own(w, q)
                    /\ \A o \in notRead' : \A i \in Places(q, Map) : Key(w, q, o, i) = keys[o]
  BY <1>1 DEF Current, Unread
<1>5. /\ \A o \in Peers : Sound(w, q, o, kept[o])
      /\ Own(w, q)
      /\ \A o \in notRead : \A i \in Places(q, Map) : Key(w, q, o, i) = keys[o]
  BY DEF Current, Unread
<1> HIDE DEF w, q
<1>6. kept'[p] = Append(kept[p], 0) /\ \A o \in Peers : o # p => kept'[o] = kept[o]
  BY <1>3
<1>7. Sound(w, q, p, Append(kept[p], 0))
  <2>1. kept[p] \in Seq(Nat)
    BY <1>3
  <2> QED
    BY <1>2, <1>4, <1>5, <2>1, EmptiedSound
<1> QED
  BY <1>5, <1>6, <1>7

\* writeDrafts() with an empty text: the file is removed at once, its key later.
LEMMA TextRemovedCurrent ==
    ASSUME IInv, Regular, IInv', Regular', Current, NEW p \in Peers, mode = "running",
           keys[p] # 0, disk' = ClearKey(keys[p]), keys' = [keys EXCEPT ![p] = 0],
           UNCHANGED << inbox, scheduled, writing, spoiled >>, version' = version + 1,
           notRead' = notRead \ {p}, kept' = [kept EXCEPT ![p] = Append(@, 0)]
    PROVE  Current'
<1> DEFINE w == View(disk)
           q == Line
           x == View(disk')
           r == Line'
<1> SUFFICES ASSUME ~spoiled
             PROVE  /\ \A o \in Peers : Sound(x, r, o, kept'[o])
                    /\ Own(x, r)
                    /\ \A o \in notRead' : \A i \in Places(r, Map) : Key(x, r, o, i) = keys'[o]
  BY DEF Current, Unread
<1>1. kept \in [Peers -> Seq(Nat)] /\ version \in Nat /\ keys \in Maps /\ notRead \subseteq Peers
  BY DEF Regular, Recorded, IInv, Inv, Types
<1>2. /\ \A o \in Peers : Sound(w, q, o, kept[o])
      /\ \A o \in notRead : \A i \in Places(q, Map) : Key(w, q, o, i) = keys[o]
  BY DEF Current, Unread
<1>3. /\ Way(w, q, version') /\ Way(w, r, version') /\ Way(x, r, version')
      /\ Remembers(q, r) /\ Len(r) = Len(q) /\ Key(w, r, p, Len(q)) = 0
      /\ x[Map] = w[Map]
      /\ \A k \in Keys : x[k] = w[k] \/ (x[k] = Empty /\ k # Key(w, r, p, Len(r)))
      /\ Own(x, r)
      /\ \A o \in Peers : o # p =>
            /\ Sound(x, r, o, kept[o])
            /\ \A i \in Places(r, Map) :
                  i \in Places(q, Map) /\ Key(x, r, o, i) = Key(w, q, o, i)
  <2>1. version <= version' /\ mode # "down"
    BY <1>1
  <2> QED
    BY <2>1, KeyRemoved DEF Regular
<1> HIDE DEF w, q, x, r
<1>4. kept'[p] = Append(kept[p], 0) /\ \A o \in Peers : o # p => kept'[o] = kept[o]
  BY <1>1
<1>5. Sound(x, r, p, Append(kept[p], 0))
  <2> DEFINE h == kept[p]
             c == Append(h, 0)
  <2>1. h \in Seq(Nat) /\ Sound(w, q, p, h)
    BY <1>1, <1>2
  <2> HIDE DEF h
  <2>2. Sound(w, r, p, Append(h, 0))
    BY <1>3, <2>1, EmptiedSound
  <2>3. Sound(w, r, p, c)
    BY <2>2
  <2> HIDE DEF c
  <2>4. Sound(x, r, p, c)
    BY <1>3, <2>3, ClearedSound
  <2> QED
    BY <2>4 DEF c, h
<1>6. \A o \in Peers : o # p => keys'[o] = keys[o]
  BY <1>1 DEF Maps
<1> QED
  BY <1>1, <1>2, <1>3, <1>4, <1>5, <1>6

\* What is in the line.
LEMMA InLine ==
    ASSUME IInv, NEW i \in DOMAIN Line
    PROVE  Line[i] \in Waiting \/ Line[i] = Entry(Map, keys)
<1>1. inbox \in Seq(Entries) /\ scheduled \in Seq(Entries)
  BY DEF IInv, Inv, Types
<1> DEFINE s == Len(scheduled)
           t == Len(inbox)
           q == LineOf(writing, scheduled, inbox, keys)
<1>2. /\ s \in Nat /\ t \in Nat
      /\ DOMAIN q = 1 .. s + t + 2
      /\ q = [j \in 1 .. s + t + 2 |->
                 IF j = 1 THEN writing
                 ELSE IF j <= s + 1 THEN scheduled[j - 1]
                 ELSE IF j <= s + t + 1 THEN inbox[j - s - 1]
                 ELSE Entry(Map, keys)]
  BY <1>1, LineIs
<1>3. /\ \A j \in 1 .. s : scheduled[j] \in Waiting
      /\ \A j \in 1 .. t : inbox[j] \in Waiting
      /\ writing \in Waiting
  BY <1>1 DEF Waiting, Range
<1>4. i \in DOMAIN q /\ q = Line
  BY DEF Line
<1> HIDE DEF s, t, q
<1>5. CASE i = 1
  BY <1>2, <1>3, <1>5, <1>4
<1>6. CASE i > 1 /\ i <= s + 1
  <2>1. i - 1 \in 1 .. s /\ q[i] = scheduled[i - 1]
    BY <1>2, <1>4, <1>6
  <2> QED
    BY <1>3, <2>1, <1>4
<1>7. CASE i > s + 1 /\ i <= s + t + 1
  <2>1. i - s - 1 \in 1 .. t /\ q[i] = inbox[i - s - 1]
    BY <1>2, <1>4, <1>7
  <2> QED
    BY <1>3, <2>1, <1>4
<1>8. CASE i = s + t + 2
  <2>1. q[i] = Entry(Map, keys)
    BY <1>2, <1>4, <1>8
  <2> QED
    BY <2>1, <1>4
<1>9. i = 1 \/ (i > 1 /\ i <= s + 1) \/ (i > s + 1 /\ i <= s + t + 1) \/ i = s + t + 2
  <2>1. i \in 1 .. s + t + 2
    BY <1>2, <1>4
  <2> QED
    BY <1>2, <2>1
<1> QED
  BY <1>5, <1>6, <1>7, <1>8, <1>9

\* No entry for a file is in the line when none waits.
LEMMA NothingFor ==
    ASSUME IInv, NEW k \in Keys, \A e \in Waiting : e.base # k
    PROVE  For(Line, k) = {}
<1>1. Entry(Map, keys).base # k
  BY Constants DEF Entry
<1> QED
  BY <1>1, InLine DEF For

\* readDraftsWithCursors(): a file that is removed had no text for a start.
LEMMA ReadDraftsCurrent ==
    ASSUME IInv, Regular, IInv', Regular', Current, NEW p \in Peers, readDrafts(p)
    PROVE  Current'
<1> DEFINE w == View(disk)
           q == Line
           x == View(disk')
           r == Line'
<1>1. /\ UNCHANGED << mode, inbox, scheduled, writing, version, kept, spoiled >>
      /\ mode = "running" /\ p \in notRead /\ notRead' = notRead \ {p}
      /\ notRead \subseteq Peers /\ keys \in Maps /\ version \in Nat
  BY DEF readDrafts, isRead, manager, history, IInv, Inv, Types
<1>2. CASE UNCHANGED << disk, keys >>
  <2>1. Line' = Line
    BY <1>1, <1>2 DEF Line
  <2> QED
    BY <1>1, <1>2, <2>1 DEF Current, Unread
<1>3. CASE /\ keys[p] # 0 /\ (~Readable(disk, keys[p]) \/ Tried(disk, keys[p])[p] = 0)
           /\ disk' = ClearKey(keys[p]) /\ keys' = [keys EXCEPT ![p] = 0]
  <2> SUFFICES ASSUME ~spoiled
               PROVE  /\ \A o \in Peers : Sound(x, r, o, kept[o])
                      /\ Own(x, r)
                      /\ \A o \in notRead' : \A i \in Places(r, Map) : Key(x, r, o, i) = keys'[o]
    BY <1>1 DEF Current, Unread
  <2> DEFINE k == keys[p]
  <2>1. k \in Keys /\ k \in Bases
    BY <1>1, <1>3, Constants DEF Maps
  <2>2. w[k][p] = 0
    BY <1>3, <2>1 DEF View, Empty
  <2>3. For(q, k) = {}
    <3>1. \A e \in Waiting : e.base # k
      BY <1>1 DEF IInv, Inv, Quiet
    <3> QED
      BY <2>1, <3>1, NothingFor
  <2>4. /\ \A o \in Peers : Sound(w, q, o, kept[o])
        /\ \A o \in notRead : \A i \in Places(q, Map) : Key(w, q, o, i) = keys[o]
    BY <1>1 DEF Current, Unread
  <2>5. /\ Way(w, q, version') /\ Way(w, r, version') /\ Way(x, r, version')
        /\ Remembers(q, r) /\ Len(r) = Len(q) /\ Key(w, r, p, Len(q)) = 0
        /\ x[Map] = w[Map]
        /\ \A b \in Keys : x[b] = w[b] \/ (x[b] = Empty /\ b # Key(w, r, p, Len(r)))
        /\ Own(x, r)
        /\ \A o \in Peers : o # p =>
              /\ Sound(x, r, o, kept[o])
              /\ \A i \in Places(r, Map) :
                    i \in Places(q, Map) /\ Key(x, r, o, i) = Key(w, q, o, i)
    <3>1. version <= version' /\ mode # "down"
      BY <1>1
    <3> QED
      BY <1>1, <1>3, <3>1, KeyRemoved DEF Regular
  <2>6. \A i \in Places(q, Map) : Key(w, q, p, i) = k
    BY <1>1, <2>4
  <2> DEFINE h == kept[p]
  <2>7. Sound(w, q, p, h)
    BY <2>4
  <2>8. \A o \in Peers : o # p => keys'[o] = keys[o]
    BY <1>1, <1>3 DEF Maps
  <2> HIDE DEF w, q, x, r, k, h
  <2>9. Sound(w, r, p, h)
    BY <2>1, <2>2, <2>3, <2>5, <2>6, <2>7, UnreadSound
  <2>10. Sound(x, r, p, h)
    BY <2>5, <2>9, ClearedSound
  <2> QED
    BY <1>1, <2>4, <2>5, <2>8, <2>10 DEF h
<1> QED
  BY <1>2, <1>3 DEF readDrafts

\* A fresh key is in no map that is on the disk or on its way.
LEMMA FreshNowhere ==
    ASSUME IInv, Dated, NEW k \in FreeKeys, NEW o \in Peers
    PROVE  \A i \in Places(Line, Map) : Key(View(disk), Line, o, i) # k
<1> SUFFICES ASSUME NEW i \in Places(Line, Map)
             PROVE  At(View(disk), Line, Map, i)[o] # k
  BY DEF Key
<1>1. /\ k \notin Range(keys) /\ k \notin Range(ReadMap(disk))
      /\ \A e \in Waiting : e.base = Map => k \notin Range(e.data)
  BY FreshIs
<1>2. \A m \in Maps : m[o] \in Range(m)
  BY DEF Maps, Range
<1>3. CASE i = 0
  <2>1. At(View(disk), Line, Map, i) = ReadMap(disk)
    BY <1>3, SeenMap DEF At
  <2> QED
    BY <1>1, <1>2, <2>1, ReadMapIsMap DEF IInv
<1>4. CASE i # 0
  <2>1. i \in DOMAIN Line /\ Line[i].base = Map
    BY <1>4 DEF Places, For
  <2>2. CASE Line[i] = Entry(Map, keys)
    <3>1. Line[i].data = keys /\ keys \in Maps
      BY <2>2 DEF Entry, IInv, Inv, Types
    <3> QED
      BY <1>1, <1>2, <1>4, <3>1 DEF At
  <2>3. CASE Line[i] \in Waiting
    <3>1. Waiting \subseteq Entries \cup {NoEntry}
      BY DEF Waiting, IInv, Inv, Types, Range
    <3>2. Line[i].data \in Maps
      BY <2>1, <2>3, <3>1, Constants DEF Entries
    <3> QED
      BY <1>1, <1>2, <1>4, <2>1, <2>3, <3>2 DEF At
  <2> QED
    BY <2>1, <2>2, <2>3, InLine
<1> QED
  BY <1>3, <1>4

\* A chat without a key gets one; the map in memory is not sent yet.
LEMMA FreshCurrent ==
    ASSUME IInv, Regular, Current, mode # "down", ~spoiled, NEW p \in Peers, keys[p] = 0,
           NEW k \in FreeKeys, NEW m \in Maps, m[p] = k,
           \A o \in Peers : o # p => m[o] = keys[o]
    PROVE  LET w == View(disk)
               z == LineOf(writing, scheduled, inbox, m)
           IN  /\ \A o \in Peers : Sound(w, z, o, kept[o])
               /\ Own(w, z)
               /\ \A o \in notRead : o # p =>
                     \A i \in Places(z, Map) : Key(w, z, o, i) = keys[o]
               /\ \A o \in Peers : o # p => \A i \in Places(z, Map) : Key(w, z, o, i) # k
<1> DEFINE w == View(disk)
           q == Line
           z == LineOf(writing, scheduled, inbox, m)
<1>1. /\ k \in Keys /\ k \in Bases /\ k # 0 /\ disk[k] = Missing /\ keys \in Maps
      /\ \A e \in Waiting : e.base # k
      /\ notRead \subseteq Peers
  BY FreshIs, Constants DEF IInv, Inv, Types
<1>2. /\ m[p] = k /\ \A o \in Peers : o # p => m[o] = keys[o]
  OBVIOUS
<1>3. /\ Way(w, q, version) /\ Way(w, z, version) /\ Remembers(q, z) /\ Len(z) = Len(q)
      /\ \A o : Key(w, z, o, Len(q)) = m[o]
      /\ \A o : Key(w, q, o, Len(q)) = keys[o]
  BY WayNow, Memory, Remembered DEF Regular
<1>4. \A o \in Peers : \A i \in Places(q, Map) : Key(w, q, o, i) # k
  BY FreshNowhere DEF Regular
<1>5. For(q, k) = {} /\ w[k][p] = 0
  <2>1. w[k] = Empty
    BY <1>1, Seen DEF Missing
  <2> QED
    BY <1>1, <2>1, NothingFor DEF Empty
<1>6. /\ \A o \in Peers : Sound(w, q, o, kept[o])
      /\ Own(w, q)
      /\ \A o \in notRead : \A i \in Places(q, Map) : Key(w, q, o, i) = keys[o]
  BY DEF Current, Unread
<1> HIDE DEF w, q, z
<1>7. ASSUME NEW o \in Peers, o # p
      PROVE  /\ Sound(w, z, o, kept[o])
             /\ \A i \in Places(z, Map) :
                   i \in Places(q, Map) /\ Key(w, z, o, i) = Key(w, q, o, i)
  <2>1. Key(w, z, o, Len(q)) = Key(w, q, o, Len(q))
    BY <1>2, <1>3, <1>7
  <2> QED
    BY <1>3, <1>6, <2>1, OthersKept
<1>8. Sound(w, z, p, kept[p])
  <2>1. Key(w, q, p, Len(q)) = 0 /\ Key(w, z, p, Len(q)) = k
    BY <1>2, <1>3
  <2> QED
    BY <1>1, <1>3, <1>4, <1>5, <1>6, <2>1, FreshSound
<1>9. \A i \in Places(z, Map) :
         i \in Places(q, Map) /\ Key(w, z, p, i) \in {k, Key(w, q, p, i)}
  <2>1. /\ \A b : Places(z, b) = Places(q, b)
        /\ \A i \in Places(q, Map) : i # Len(q) => Key(w, z, p, i) = Key(w, q, p, i)
    BY <1>3, RemembersTypes
  <2> QED
    BY <1>2, <1>3, <2>1
<1>10. Own(w, z)
  <2> SUFFICES ASSUME NEW i \in Places(z, Map), NEW j \in Places(z, Map),
                      NEW a \in Peers, NEW o \in Peers, Key(w, z, a, i) # 0,
                      Key(w, z, a, i) = Key(w, z, o, j), a # o
               PROVE  FALSE
    BY DEF Own
  <2>1. CASE a # p /\ o # p
    BY <1>6, <1>7, <2>1 DEF Own
  <2>2. CASE a = p
    BY <1>4, <1>6, <1>7, <1>9, <2>2 DEF Own
  <2>3. CASE o = p
    BY <1>4, <1>6, <1>7, <1>9, <2>3 DEF Own
  <2> QED
    BY <2>1, <2>2, <2>3
<1>11. \A o \in notRead : o # p => \A i \in Places(z, Map) : Key(w, z, o, i) = keys[o]
  BY <1>1, <1>6, <1>7
<1>12. \A o \in Peers : o # p => \A i \in Places(z, Map) : Key(w, z, o, i) # k
  BY <1>4, <1>7
<1> QED
  BY <1>7, <1>8, <1>10, <1>11, <1>12 DEF w, z

\* writeDrafts() with a text, under the old key or a new one.
LEMMA TextGivenCurrent ==
    ASSUME IInv, Regular, IInv', Regular', Current, NEW p \in Peers, mode = "running",
           \/ keys[p] # 0 /\ UNCHANGED keys
           \/ /\ keys[p] = 0 /\ FreeKeys # {}
              /\ keys' = [keys EXCEPT ![p] = CHOOSE k \in FreeKeys : TRUE],
           inbox' = Append(inbox, Entry(keys'[p], Draft(p, version'))),
           UNCHANGED << disk, scheduled, writing, spoiled >>, version' = version + 1,
           notRead' = notRead \ {p}, kept' = [kept EXCEPT ![p] = Append(@, version')]
    PROVE  Current'
<1> DEFINE w == View(disk)
           q == Line
           m == keys'
           k == m[p]
           y == Entry(k, Draft(p, version'))
           z == LineOf(writing, scheduled, inbox, m)
           r == Line'
<1> SUFFICES ASSUME ~spoiled
             PROVE  /\ \A o \in Peers : Sound(w, r, o, kept'[o])
                    /\ Own(w, r)
                    /\ \A o \in notRead' : \A i \in Places(r, Map) : Key(w, r, o, i) = m[o]
  BY DEF Current, Unread
<1>1. /\ kept \in [Peers -> Seq(Nat)] /\ version \in Nat /\ keys \in Maps /\ m \in Maps
      /\ notRead \subseteq Peers
      /\ inbox \in Seq(Entries) /\ scheduled \in Seq(Entries)
  BY DEF Regular, Recorded, IInv, Inv, Types
<1>2. k \in Keys /\ \A o \in Peers : o # p => m[o] = keys[o]
  <2>1. CASE keys[p] # 0 /\ UNCHANGED keys
    BY <1>1, <2>1 DEF Maps
  <2>2. CASE /\ keys[p] = 0 /\ FreeKeys # {}
             /\ keys' = [keys EXCEPT ![p] = CHOOSE a \in FreeKeys : TRUE]
    BY <1>1, <2>2, FreshChosen, FreshIs
  <2> QED
    BY <2>1, <2>2
<1>3. /\ \A o \in Peers : Sound(w, z, o, kept[o])
      /\ Own(w, z)
      /\ \A o \in notRead : o # p => \A i \in Places(z, Map) : Key(w, z, o, i) = keys[o]
      /\ \A o \in Peers : o # p => \A i \in Places(z, Map) : Key(w, z, o, i) # k
  <2>1. CASE keys[p] # 0 /\ UNCHANGED keys
    <3>1. z = q /\ k = keys[p]
      BY <2>1 DEF Line
    <3>2. /\ \A o \in Peers : Sound(w, q, o, kept[o])
          /\ Own(w, q)
          /\ \A o \in notRead : \A i \in Places(q, Map) : Key(w, q, o, i) = keys[o]
      BY DEF Current, Unread
    <3>3. Key(w, q, p, Len(q)) = k /\ Len(q) \in Places(q, Map)
      <4>1. Way(w, q, version)
        BY WayNow DEF Regular
      <4> QED
        BY <3>1, <4>1, Memory, WayTypes
    <3>4. k # 0
      BY <1>2, Constants
    <3> HIDE DEF w, q, z, k
    <3>5. \A o \in Peers : o # p => \A i \in Places(q, Map) : Key(w, q, o, i) # k
      BY <3>2, <3>3, <3>4 DEF Own
    <3> QED
      BY <3>1, <3>2, <3>5
  <2>2. CASE /\ keys[p] = 0 /\ FreeKeys # {}
             /\ keys' = [keys EXCEPT ![p] = CHOOSE a \in FreeKeys : TRUE]
    <3>1. k \in FreeKeys /\ m[p] = k /\ mode # "down"
      BY <1>1, <2>2, FreshChosen
    <3> HIDE DEF k, m
    <3>2. m \in Maps /\ keys[p] = 0 /\ \A o \in Peers : o # p => m[o] = keys[o]
      BY <1>1, <1>2, <2>2
    <3> QED
      BY <3>1, <3>2, FreshCurrent
  <2> QED
    BY <2>1, <2>2
<1>4. /\ y \in Entries /\ y.base = k /\ y.data[p] = version + 1
  <2>1. Draft(p, version') \in Contents /\ Draft(p, version')[p] = version'
    BY <1>1 DEF Contents, Draft, Empty
  <2>2. k \in Bases /\ k # Map
    BY <1>2, Constants
  <2> QED
    BY <2>1, <2>2 DEF Entry, Entries, Stages
<1>5. /\ Way(w, z, version) /\ Len(z) = Len(q)
      /\ \A x, o : Key(x, z, o, Len(q)) = m[o]
  <2> HIDE DEF m
  <2> QED
    BY <1>1, Remembered DEF Regular
<1>6. Enters(z, r, y)
  <2>1. r = LineOf(writing, scheduled, Sent(inbox, y), m)
    BY DEF Line, Sent
  <2> HIDE DEF y, r, m
  <2>2. Grows(writing, scheduled, inbox, keys, m, y)
    BY <1>1, <1>4, LineAppended
  <2> QED
    BY <2>1, <2>2 DEF Grows
<1>7. Way(w, r, version + 1)
  <2>1. Way(View(disk'), Line', version')
    BY WayThen DEF Regular
  <2> QED
    BY <2>1
<1>8. kept'[p] = Append(kept[p], version + 1) /\ \A o \in Peers : o # p => kept'[o] = kept[o]
  BY <1>1
<1> HIDE DEF w, q, m, k, y, z, r
<1>9. Sound(w, r, p, Append(kept[p], version + 1))
  <2>1. y.base \in Keys /\ y.base = Key(w, z, p, Len(z))
    BY <1>2, <1>4, <1>5 DEF k
  <2> DEFINE h == kept[p]
  <2>2. h \in Seq(Nat) /\ Sound(w, z, p, h)
    BY <1>1, <1>3
  <2> HIDE DEF h
  <2>3. Sound(w, r, p, Append(h, version + 1))
    BY <1>4, <1>5, <1>6, <1>7, <2>1, <2>2, EntersSound
  <2> QED
    BY <2>3 DEF h
<1>10. Way(w, z, version + 1)
  <2>1. version + 1 \in Nat /\ version <= version + 1
    BY <1>1
  <2> QED
    BY <1>5, <2>1, WayMore
<1>11. ASSUME NEW o \in Peers, o # p PROVE Sound(w, r, o, kept[o])
  <2>1. y.base \in Keys /\ \A i \in Places(z, Map) : Key(w, z, o, i) # y.base
    BY <1>2, <1>3, <1>4, <1>11
  <2> QED
    BY <1>3, <1>6, <1>7, <1>10, <2>1, OthersWait
<1>12. ASSUME NEW o \in Peers, NEW i \in Places(r, Map)
       PROVE  Was(z, i) \in Places(z, Map) /\ Key(w, r, o, i) = Key(w, z, o, Was(z, i))
  <2>1. y.base \in Keys
    BY <1>2, <1>4
  <2> QED
    BY <1>6, <1>7, <1>10, <2>1, EntersTypes
<1>13. Own(w, r)
  BY <1>3, <1>12 DEF Own
<1>14. \A o \in notRead' : \A i \in Places(r, Map) : Key(w, r, o, i) = m[o]
  <2> SUFFICES ASSUME NEW o \in notRead', NEW i \in Places(r, Map)
               PROVE  Key(w, r, o, i) = m[o]
    OBVIOUS
  <2>1. o \in notRead /\ o \in Peers /\ o # p
    BY <1>1
  <2>2. Was(z, i) \in Places(z, Map) /\ Key(w, r, o, i) = Key(w, z, o, Was(z, i))
    BY <1>12, <2>1
  <2>3. Key(w, z, o, Was(z, i)) = keys[o] /\ m[o] = keys[o]
    BY <1>2, <1>3, <2>1, <2>2
  <2> QED
    BY <2>2, <2>3
<1> QED
  BY <1>8, <1>9, <1>11, <1>13, <1>14

\* writeDrafts()
LEMMA WriteDraftsCurrent ==
    ASSUME IInv, Regular, IInv', Regular', Current, NEW p \in Peers, writeDrafts(p)
    PROVE  Current'
<1>1. /\ mode = "running" /\ UNCHANGED << scheduled, writing, spoiled >>
      /\ version' = version + 1 /\ notRead' = notRead \ {p}
  BY DEF writeDrafts, isRead
<1>2. CASE /\ kept' = [kept EXCEPT ![p] = Append(@, 0)]
           /\ keys[p] = 0 /\ UNCHANGED << keys, disk, inbox >>
  BY <1>1, <1>2, NothingWrittenCurrent
<1>3. CASE /\ kept' = [kept EXCEPT ![p] = Append(@, 0)]
           /\ keys[p] # 0 /\ disk' = ClearKey(keys[p])
           /\ keys' = [keys EXCEPT ![p] = 0] /\ UNCHANGED inbox
  BY <1>1, <1>3, TextRemovedCurrent
<1>4. CASE /\ kept' = [kept EXCEPT ![p] = Append(@, version')]
           /\ \/ keys[p] # 0 /\ UNCHANGED keys
              \/ /\ keys[p] = 0 /\ FreeKeys # {}
                 /\ keys' = [keys EXCEPT ![p] = CHOOSE k \in FreeKeys : TRUE]
           /\ inbox' = Append(inbox, Entry(keys'[p], Draft(p, version')))
           /\ UNCHANGED disk
  BY <1>1, <1>4, TextGivenCurrent
<1> QED
  BY <1>2, <1>3, <1>4 DEF writeDrafts

-----------------------------------------------------------------------------

\* The first process starts with no files.
LEMMA InitKept == Init => KeptInv
<1> SUFFICES ASSUME Init PROVE KeptInv
  OBVIOUS
<1>1. IInv
  BY InitInv DEF Init, IInv, Down
<1>2. /\ disk = [b \in Bases |-> Missing] /\ keys = Empty /\ notRead = {}
      /\ inbox = << >> /\ scheduled = << >> /\ writing = NoEntry /\ version = 0
      /\ cleanup = "list" /\ mode = "running" /\ kept = [p \in Peers |-> <<0>>]
  BY DEF Init
<1>3. \A b \in Bases : View(disk)[b] = Empty
  BY <1>2, Seen DEF Missing
<1>4. Recorded
  <2> DEFINE h == <<0>>
  <2>1. h \in Seq(Nat) /\ h # << >> /\ DOMAIN h = {1} /\ h[1] = 0
    OBVIOUS
  <2> HIDE DEF h
  <2>2. Sorted(h)
    BY <2>1 DEF Sorted
  <2>3. \A p \in Peers : kept[p] = h
    BY <1>2 DEF h
  <2>4. kept \in [Peers -> Seq(Nat)]
    BY <1>2, <2>1 DEF h
  <2> QED
    BY <1>2, <2>1, <2>2, <2>3, <2>4 DEF Recorded
<1>5. Regular
  <2>1. NoEntry.base \notin Keys /\ NoEntry.stage = "none"
    BY Constants DEF NoEntry
  <2>2. Waiting = {NoEntry} /\ Range(<< >>) = {}
    BY <1>2 DEF Waiting, Range
  <2>3. \A k \in Keys : disk[k] = Missing /\ Missing.s = NoFile /\ Missing.plain = NoFile
    BY <1>2, Constants DEF Missing
  <2>4. Dated
    BY <2>1, <2>2, <2>3 DEF Dated
  <2>5. Staged /\ Cleaning
    BY <1>2, <2>1 DEF Staged, Cleaning
  <2>6. Queued
    BY <1>2, <2>2 DEF Queued
  <2> QED
    BY <1>4, <2>4, <2>5, <2>6 DEF Regular
<1> DEFINE w == View(disk)
           q == Line
<1>6. Way(w, q, version)
  BY <1>1, <1>5, WayNow DEF Regular
<1>7. /\ DOMAIN q = 1 .. 2 /\ q[1] = NoEntry /\ q[2] = Entry(Map, Empty)
  BY <1>2, EmptyLine DEF Line
<1>8. /\ NoEntry.base = -1 /\ Entry(Map, Empty).base = Map /\ Entry(Map, Empty).data = Empty
      /\ Map = 0 /\ w[Map] = Empty
  BY <1>3, Constants DEF Entry
<1> HIDE DEF w, q
<1>9. \A p \in Peers : \A i \in Places(q, Map) : Key(w, q, p, i) = 0
  <2>1. Places(q, Map) \subseteq {0, 2}
    BY <1>7, <1>8 DEF Places, For
  <2> QED
    BY <1>7, <1>8, <2>1 DEF Key, At, Empty
<1>10. ASSUME NEW p \in Peers
       PROVE  Sound(w, q, p, kept[p])
  <2>1. kept[p] = <<0>>
    BY <1>2
  <2>2. Has(<<0>>, 0)
    BY DEF Has
  <2>3. Texts(w, q, 0, p) = {0}
    BY DEF Texts
  <2> QED
    BY <1>9, <2>1, <2>2, <2>3 DEF Sound, Held, Separate, NoReturn, Rising
<1>11. Current
  <2>1. Own(w, q)
    BY <1>9 DEF Own
  <2> QED
    BY <1>2, <1>10, <2>1 DEF Current, Unread, w, q
<1>12. AtRest
  BY <1>2 DEF AtRest
<1> QED
  BY <1>1, <1>5, <1>11, <1>12 DEF KeptInv

\* Every step keeps the invariant: what a chat may lose when the process dies
\* is only what was not written yet.
LEMMA NextKept == KeptInv /\ [Next]_vars => KeptInv'
<1> SUFFICES ASSUME KeptInv, [Next]_vars PROVE KeptInv'
  OBVIOUS
<1>1. IInv /\ Regular /\ Current /\ AtRest /\ IInv'
  BY NextInv DEF KeptInv
<1>2. keys \in Maps
  BY <1>1 DEF IInv, Inv, Types
<1>3. ASSUME Regular', Current', mode' # "down" PROVE KeptInv'
  BY <1>1, <1>3 DEF KeptInv, AtRest
<1>4. ASSUME NEW p \in Peers, writeDrafts(p) PROVE KeptInv'
  <2>1. Regular'
    BY <1>1, <1>4, WriteDraftsRegular
  <2>2. Current' /\ mode' # "down"
    BY <1>1, <1>4, <2>1, WriteDraftsCurrent DEF writeDrafts
  <2> QED
    BY <1>3, <2>1, <2>2
<1>5. ASSUME NEW p \in Peers, readDrafts(p) PROVE KeptInv'
  <2>1. Regular'
    BY <1>1, <1>5, ReadDraftsRegular
  <2>2. Current' /\ mode' # "down"
    BY <1>1, <1>5, <2>1, ReadDraftsCurrent DEF readDrafts
  <2> QED
    BY <1>3, <2>1, <2>2
<1>6. CASE writeMapFired \/ quit
  <2>1. /\ mapWritten /\ mode # "down" /\ mode' # "down"
        /\ UNCHANGED << keys, notRead, scheduled, writing, disk, cleanup, listed,
                        version, kept, spoiled >>
    BY <1>6 DEF writeMapFired, quit, clearing, history
  <2>2. Regular'
    BY <1>1, <2>1, MapWrittenRegular
  <2>3. Current'
    BY <1>1, <2>1, <2>2, MapWrittenCurrent DEF Regular
  <2> QED
    BY <1>3, <2>1, <2>2, <2>3
<1>7. CASE finish \/ crash
  <2>1. gone /\ UNCHANGED << disk, version, kept, spoiled >> /\ mode' = "down"
    BY <1>7 DEF finish, crash, gone
  <2>2. Regular'
    BY <1>1, <2>1, GoneRegular
  <2>3. AtRest'
    BY <1>1, <2>1, StoppedAtRest
  <2>4. Current'
    BY <2>1 DEF Current
  <2> QED
    BY <1>1, <2>2, <2>3, <2>4 DEF KeptInv
<1>8. CASE start
  <2>1. Regular'
    BY <1>1, <1>8, StartRegular
  <2>2. Current' /\ mode' # "down"
    BY <1>1, <1>8, <2>1, StartCurrent DEF start
  <2> QED
    BY <1>3, <2>1, <2>2
<1>9. CASE listFiles \/ collectGoodNames
  <2>1. Regular'
    BY <1>1, <1>2, <1>9, ListRegular
  <2>2. /\ UNCHANGED << mode, keys, notRead, inbox, scheduled, writing, disk, version,
                        kept, spoiled >>
        /\ mode = "running"
    BY <1>9 DEF listFiles, collectGoodNames, account, manager, history
  <2>3. Current'
    BY <1>1, <2>2 DEF Current, Unread, Line
  <2> QED
    BY <1>3, <2>1, <2>2, <2>3
<1>10. CASE clearFiles
  <2>1. Regular'
    BY <1>1, <1>10, ClearFilesRegular
  <2>2. Current' /\ mode' # "down"
    BY <1>1, <1>10, <2>1, ClearFilesCurrent DEF clearFiles
  <2> QED
    BY <1>3, <2>1, <2>2
<1>11. CASE Manager
  <2>1. Regular'
    BY <1>1, <1>11, WriteRegular, WriteOneRegular, WriteNowRegular DEF Manager
  <2>2. Current'
    BY <1>1, <1>11, <2>1, WriteCurrent, WriteOneCurrent, WriteNowCurrent DEF Manager
  <2>3. mode' # "down"
    <3>1. mode # "down"
      <4>1. writing # NoEntry \/ inbox # << >> \/ scheduled # << >>
        BY <1>11 DEF Manager, write, writeOneScheduledNow, writeNow, commit, removeSimple,
                     openPlain, flushPlain, rename, removeSafe, NoEntry
      <4> QED
        BY <1>1, <4>1 DEF IInv, Down
    <3>2. mode' = mode
      BY <1>11 DEF Manager, write, writeOneScheduledNow, writeNow
    <3> QED
      BY <3>1, <3>2
  <2> QED
    BY <1>3, <2>1, <2>2, <2>3
<1>12. CASE UNCHANGED vars
  BY <1>1, <1>12 DEF KeptInv, vars, account, manager, clearing, history, Regular, Dated,
       Recorded, Staged, Queued, Cleaning, Removed, Waiting, Current, Unread, Line, AtRest
<1> QED
  BY <1>4, <1>5, <1>6, <1>7, <1>8, <1>9, <1>10, <1>11, <1>12 DEF Next, Main, KeptInv

\* If the process died now, the next start would find for every chat the text
\* of the last finished write or a newer one (writeDrafts(), writeMap(),
\* WriteManager::writeNow(), clearLegacyFiles()), never a lost or an older one,
\* unless the only copy of a file was a plain file that was written over.
THEOREM NothingWrittenIsLost == Spec => []WrittenIsKept
<1>1. KeptInv => WrittenIsKept
  <2> SUFFICES ASSUME KeptInv, ~spoiled, NEW p \in Peers
               PROVE  ReadBack(disk, p) \in Range(kept[p])
    BY DEF WrittenIsKept
  <2>1. Has(kept[p], ReadBack(disk, p))
    BY Found DEF KeptInv
  <2> QED
    BY <2>1 DEF Has, Range
<1> QED
  BY <1>1, InitKept, NextKept, PTL DEF Spec

-----------------------------------------------------------------------------
(* What an orderly end leaves.  Of the contents that a file still gets,    *)
(* only the newest matters: that of the last call of write(), else of the  *)
(* entry that waits, else of the one that is written, else the file's own. *)

Awaited(queue, b) == \E i \in DOMAIN queue : queue[i].base = b

LastSent(calls, b, c) ==
    \E i \in DOMAIN calls : /\ calls[i].base = b /\ calls[i].data = c
                            /\ \A j \in DOMAIN calls : i < j => calls[j].base # b

Newest(w, e, queue, calls, b, c) ==
    IF Awaited(calls, b) THEN LastSent(calls, b, c)
    ELSE IF Awaited(queue, b) THEN \E i \in DOMAIN queue : queue[i].base = b /\ queue[i].data = c
    ELSE c = IF e.base = b THEN e.data ELSE w[b]

Now(b, c) == Newest(View(disk), writing, scheduled, inbox, b, c)

\* The newest text of a chat is what was given last, and it is under the key
\* of the chat in the newest map, unless that map is still to be written.
Finished ==
    mode # "down" /\ ~dropped /\ ~spoiled =>
        \A p \in Peers :
            /\ keys[p] = 0 => Last(kept[p]) = 0
            /\ keys[p] # 0 => \A c : Now(keys[p], c) => c[p] = Last(kept[p])
            /\ ~mapChanged => \A m : Now(Map, m) =>
                  \/ m[p] = keys[p]
                  \/ keys[p] = 0 /\ \A c : Now(m[p], c) => c[p] = 0

\* ~Account() has written the map, and nothing changes it after that.
Stopped == mode = "quitting" => ~mapChanged

\* What write() does to the queues changes nothing of it.
LEMMA WriteNewest ==
    ASSUME NEW w, NEW e, NEW queue \in Seq(Entries), NEW calls \in Seq(Entries), calls # << >>,
           NEW b, NEW c, Newest(w, e, replaced(queue, Head(calls)), Tail(calls), b, c)
    PROVE  Newest(w, e, queue, calls, b, c)
<1> DEFINE y == Head(calls)
           t == Tail(calls)
           d == replaced(queue, y)
<1>1. /\ DOMAIN calls = 1 .. Len(calls) /\ Len(calls) \in Nat \ {0} /\ calls[1] = y
      /\ DOMAIN t = 1 .. Len(calls) - 1
      /\ \A i \in 1 .. Len(calls) - 1 : t[i] = calls[i + 1]
  OBVIOUS
<1>2. \A i \in DOMAIN t : i \in Int /\ i + 1 \in DOMAIN calls /\ t[i] = calls[i + 1]
  BY <1>1
<1>3. \A i \in DOMAIN calls : i \in Int /\ (i = 1 \/ (i - 1 \in DOMAIN t /\ calls[i] = t[i - 1]))
  <2> SUFFICES ASSUME NEW i \in DOMAIN calls, i # 1
               PROVE  i - 1 \in DOMAIN t /\ calls[i] = t[i - 1]
    BY <1>1
  <2>1. i - 1 \in 1 .. Len(calls) - 1 /\ (i - 1) + 1 = i
    BY <1>1
  <2> QED
    BY <1>1, <2>1
<1>4. /\ \A i \in DOMAIN d : \/ d[i] = y
                             \/ i \in DOMAIN queue /\ d[i] = queue[i] /\ queue[i].base # y.base
      /\ \A i \in DOMAIN queue : i \in DOMAIN d /\ (queue[i].base # y.base => d[i] = queue[i])
      /\ \E i \in DOMAIN d : d[i] = y
  <2>1. CASE \E i \in DOMAIN queue : queue[i].base = y.base
    <3>1. d = [i \in DOMAIN queue |-> IF queue[i].base = y.base THEN y ELSE queue[i]]
      BY <2>1 DEF replaced
    <3> HIDE DEF d, y
    <3> QED
      BY <2>1, <3>1
  <2>2. CASE ~ \E i \in DOMAIN queue : queue[i].base = y.base
    <3>1. d = Append(queue, y) /\ y \in Entries
      BY <1>1, <2>2 DEF replaced
    <3> HIDE DEF d, y
    <3>2. /\ DOMAIN queue = 1 .. Len(queue) /\ Len(queue) \in Nat
          /\ DOMAIN d = 1 .. Len(queue) + 1 /\ d[Len(queue) + 1] = y
          /\ \A i \in DOMAIN queue : d[i] = queue[i]
      BY <3>1
    <3>3. /\ \A i \in DOMAIN d : i \in DOMAIN queue \/ i = Len(queue) + 1
          /\ \A i \in DOMAIN queue : i \in DOMAIN d
          /\ Len(queue) + 1 \in DOMAIN d
      BY <3>2
    <3> QED
      BY <2>2, <3>2, <3>3
  <2> QED
    BY <2>1, <2>2
<1> HIDE DEF y, t, d
<1>5. Newest(w, e, d, t, b, c)
  BY DEF d, t, y
<1>6. CASE Awaited(t, b)
  <2>1. PICK i \in DOMAIN t : /\ t[i].base = b /\ t[i].data = c
                              /\ \A j \in DOMAIN t : i < j => t[j].base # b
    BY <1>5, <1>6 DEF Newest, LastSent
  <2>2. i + 1 \in DOMAIN calls /\ calls[i + 1].base = b /\ calls[i + 1].data = c
    BY <1>2, <2>1
  <2>3. ASSUME NEW j \in DOMAIN calls, i + 1 < j
        PROVE  calls[j].base # b
    <3>1. j # 1 /\ i < j - 1
      <4>1. i \in 1 .. Len(calls) - 1 /\ j \in 1 .. Len(calls)
        BY <1>1
      <4> QED
        BY <2>3, <4>1
    <3>2. j - 1 \in DOMAIN t /\ calls[j] = t[j - 1]
      BY <1>3, <3>1
    <3> QED
      BY <2>1, <3>1, <3>2
  <2> QED
    BY <2>2, <2>3 DEF Newest, Awaited, LastSent
<1>7. CASE ~Awaited(t, b) /\ y.base = b
  <2>1. Awaited(d, b) /\ c = y.data
    BY <1>4, <1>5, <1>7 DEF Newest, Awaited
  <2>2. \A j \in DOMAIN calls : 1 < j => calls[j].base # b
    BY <1>3, <1>7 DEF Awaited
  <2>3. 1 \in DOMAIN calls /\ calls[1].base = b /\ calls[1].data = c
    BY <1>1, <1>7, <2>1
  <2> QED
    BY <2>2, <2>3 DEF Newest, Awaited, LastSent
<1>8. CASE ~Awaited(t, b) /\ y.base # b
  <2>1. ~Awaited(calls, b)
    BY <1>1, <1>3, <1>8 DEF Awaited
  <2>2. CASE Awaited(d, b)
    <3>1. PICK i \in DOMAIN d : d[i].base = b /\ d[i].data = c
      BY <1>5, <1>8, <2>2 DEF Newest
    <3>2. i \in DOMAIN queue /\ queue[i].base = b /\ queue[i].data = c
      BY <1>4, <1>8, <3>1
    <3> QED
      BY <2>1, <3>2 DEF Newest, Awaited
  <2>3. CASE ~Awaited(d, b)
    <3>1. ~Awaited(queue, b)
      BY <1>4, <1>8, <2>3 DEF Awaited
    <3> QED
      BY <1>5, <1>8, <2>1, <2>3, <3>1 DEF Newest
  <2> QED
    BY <2>2, <2>3
<1> QED
  BY <1>6, <1>7, <1>8

\* Nor does writeOneScheduledNow().
LEMMA TakeNewest ==
    ASSUME NEW w, NEW queue \in Seq(Entries), NEW calls, queue # << >>,
           NEW b \in Bases, NEW c, Newest(w, Head(queue), Tail(queue), calls, b, c)
    PROVE  Newest(w, NoEntry, queue, calls, b, c)
<1> DEFINE y == Head(queue)
           t == Tail(queue)
<1>1. /\ DOMAIN queue = 1 .. Len(queue) /\ Len(queue) \in Nat \ {0} /\ queue[1] = y
      /\ DOMAIN t = 1 .. Len(queue) - 1
      /\ \A i \in 1 .. Len(queue) - 1 : t[i] = queue[i + 1]
  OBVIOUS
<1>2. \A i \in DOMAIN t : i + 1 \in DOMAIN queue /\ t[i] = queue[i + 1]
  BY <1>1
<1>3. \A i \in DOMAIN queue : i = 1 \/ (i - 1 \in DOMAIN t /\ queue[i] = t[i - 1])
  <2> SUFFICES ASSUME NEW i \in DOMAIN queue, i # 1
               PROVE  i - 1 \in DOMAIN t /\ queue[i] = t[i - 1]
    BY <1>1
  <2>1. i - 1 \in 1 .. Len(queue) - 1 /\ (i - 1) + 1 = i
    BY <1>1
  <2> QED
    BY <1>1, <2>1
<1>4. 1 \in DOMAIN queue /\ NoEntry.base # b
  BY <1>1, Constants DEF Bases
<1> HIDE DEF y, t
<1>5. Newest(w, y, t, calls, b, c)
  BY DEF y, t
<1>6. CASE Awaited(calls, b)
  BY <1>5, <1>6 DEF Newest
<1>7. CASE ~Awaited(calls, b) /\ Awaited(t, b)
  BY <1>2, <1>5, <1>7 DEF Newest, Awaited
<1>8. CASE ~Awaited(calls, b) /\ ~Awaited(t, b) /\ y.base = b
  BY <1>1, <1>4, <1>5, <1>8 DEF Newest, Awaited
<1>9. CASE ~Awaited(calls, b) /\ ~Awaited(t, b) /\ y.base # b
  <2>1. ~Awaited(queue, b)
    BY <1>1, <1>3, <1>9 DEF Awaited
  <2> QED
    BY <1>4, <1>5, <1>9, <2>1 DEF Newest
<1> QED
  BY <1>6, <1>7, <1>8, <1>9

\* A call of write() is the newest for its file.
LEMMA SendNewest ==
    ASSUME NEW w, NEW e, NEW queue, NEW calls \in Seq(Entries), NEW y \in Entries,
           NEW b, NEW c, Newest(w, e, queue, Sent(calls, y), b, c)
    PROVE  IF y.base = b THEN c = y.data ELSE Newest(w, e, queue, calls, b, c)
<1> DEFINE r == Sent(calls, y)
           n == Len(calls)
<1>1. /\ DOMAIN calls = 1 .. n /\ n \in Nat
      /\ DOMAIN r = 1 .. n + 1 /\ r[n + 1] = y
      /\ \A i \in 1 .. n : r[i] = calls[i]
  BY DEF Sent
<1>2. Newest(w, e, queue, r, b, c)
  OBVIOUS
<1> HIDE DEF r, n
<1>3. /\ \A i \in DOMAIN r : i = n + 1 \/ (i \in DOMAIN calls /\ r[i] = calls[i] /\ i < n + 1)
      /\ \A i \in DOMAIN calls : i \in DOMAIN r /\ r[i] = calls[i]
      /\ n + 1 \in DOMAIN r
  BY <1>1
<1>4. CASE y.base = b
  <2>1. Awaited(r, b)
    BY <1>1, <1>3, <1>4 DEF Awaited
  <2>2. LastSent(r, b, c)
    BY <1>2, <2>1 DEF Newest
  <2>3. PICK i \in DOMAIN r : /\ r[i].data = c
                              /\ \A j \in DOMAIN r : i < j => r[j].base # b
    BY <2>2 DEF LastSent
  <2>4. i = n + 1
    BY <1>1, <1>3, <1>4, <2>3
  <2> QED
    BY <1>1, <1>4, <2>3, <2>4
<1>5. CASE y.base # b
  <2>1. Awaited(r, b) <=> Awaited(calls, b)
    BY <1>1, <1>3, <1>5 DEF Awaited
  <2>2. LastSent(r, b, c) => LastSent(calls, b, c)
    BY <1>1, <1>3, <1>5 DEF LastSent
  <2>3. Newest(w, e, queue, calls, b, c)
    BY <1>2, <2>1, <2>2 DEF Newest
  <2> QED
    BY <1>5, <2>3
<1> QED
  BY <1>4, <1>5

\* The newest map is a map.
LEMMA NewestMap ==
    ASSUME IInv, NEW m, Now(Map, m)
    PROVE  m \in Maps
<1>1. /\ inbox \in Seq(Entries) /\ scheduled \in Seq(Entries)
      /\ writing \in Entries \cup {NoEntry} /\ View(disk)[Map] \in Maps
  BY SeenMap, ReadMapIsMap DEF IInv, Inv, Types
<1>2. \A e \in Entries : e.base = Map => e.data \in Maps
  BY DEF Entries
<1>3. \A i \in DOMAIN inbox : inbox[i] \in Entries
  BY <1>1
<1>4. \A i \in DOMAIN scheduled : scheduled[i] \in Entries
  BY <1>1
<1>5. writing.base = Map => writing.data \in Maps
  BY <1>1, <1>2, Constants
<1> QED
  BY <1>1, <1>2, <1>3, <1>4, <1>5 DEF Now, Newest, LastSent

\* A file without a chat was removed.
Faded(b, c) == b # Map /\ c = Empty /\ \A p \in Peers : keys[p] # b

\* Steps that give nothing new, and lose nothing.
LEMMA NewestKept ==
    ASSUME IInv, Finished, mode # "down", UNCHANGED keys,
           mapChanged => mapChanged',
           dropped => dropped', spoiled => spoiled',
           \A p \in Peers : Last(kept'[p]) = Last(kept[p]),
           Peers # {} /\ ~dropped' /\ ~spoiled' => \A b \in Bases : \A c :
              Newest(View(disk'), writing', scheduled', inbox', b, c) => Now(b, c) \/ Faded(b, c)
    PROVE  Finished'
<1> SUFFICES ASSUME ~dropped', ~spoiled', NEW p \in Peers
             PROVE  /\ keys[p] = 0 => Last(kept[p]) = 0
                    /\ keys[p] # 0 => \A c : Now(keys[p], c)' => c[p] = Last(kept[p])
                    /\ ~mapChanged' => \A m : Now(Map, m)' =>
                          \/ m[p] = keys[p]
                          \/ keys[p] = 0 /\ \A c : Now(m[p], c)' => c[p] = 0
  BY DEF Finished, Now
<1>1. /\ keys[p] = 0 => Last(kept[p]) = 0
      /\ keys[p] # 0 => \A c : Now(keys[p], c) => c[p] = Last(kept[p])
      /\ ~mapChanged => \A m : Now(Map, m) =>
            \/ m[p] = keys[p]
            \/ keys[p] = 0 /\ \A c : Now(m[p], c) => c[p] = 0
  BY DEF Finished
<1>2. \A b \in Bases : \A c : Now(b, c)' => Now(b, c) \/ Faded(b, c)
  BY DEF Now
<1>3. /\ \A m \in Maps : m[p] \in Bases
      /\ keys \in Maps /\ Map \in Bases /\ Empty[p] = 0
  BY Constants DEF Maps, IInv, Inv, Types, Bases, Empty
<1>4. ASSUME keys[p] # 0, NEW c, Now(keys[p], c)'
      PROVE  c[p] = Last(kept[p])
  <2>1. ~Faded(keys[p], c)
    BY DEF Faded
  <2> QED
    BY <1>1, <1>2, <1>3, <1>4, <2>1
<1>5. ASSUME ~mapChanged, NEW m, Now(Map, m)', m[p] # keys[p]
      PROVE  keys[p] = 0 /\ \A c : Now(m[p], c)' => c[p] = 0
  <2>1. Now(Map, m)
    BY <1>2, <1>3, <1>5 DEF Faded
  <2>2. keys[p] = 0 /\ \A c : Now(m[p], c) => c[p] = 0
    BY <1>1, <1>5, <2>1
  <2>3. m[p] \in Bases
    BY <1>3, <2>1, NewestMap
  <2>4. \A c : Faded(m[p], c) => c[p] = 0
    BY <1>3 DEF Faded
  <2> QED
    BY <1>2, <2>2, <2>3, <2>4
<1> QED
  BY <1>1, <1>4, <1>5

\* The last text of a history stays when settled() cuts it.
LEMMA CutLast ==
    ASSUME NEW h \in Seq(Nat), NEW f \in DOMAIN h
    PROVE  Last(SubSeq(h, f, Len(h))) = Last(h)
<1> DEFINE c == SubSeq(h, f, Len(h))
<1>1. /\ Len(h) \in Nat /\ f \in 1 .. Len(h) /\ Len(c) = Len(h) - f + 1
      /\ DOMAIN c = 1 .. Len(h) - f + 1
      /\ \A i \in DOMAIN c : c[i] = h[i + f - 1]
  BY CutIs DEF IsCut
<1> HIDE DEF c
<1>2. Len(c) \in DOMAIN c /\ Len(c) + f - 1 = Len(h)
  <2>1. Len(h) - f + 1 \in 1 .. Len(h) - f + 1
    BY <1>1
  <2>2. (Len(h) - f + 1) + f - 1 = Len(h)
    BY <1>1
  <2> QED
    BY <1>1, <2>1, <2>2
<1>3. c[Len(c)] = h[Len(h)]
  BY <1>1, <1>2
<1> QED
  BY <1>3 DEF Last, c

\* settled() leaves the last text of a history.
LEMMA SettledLast ==
    ASSUME NEW files, NEW p \in Peers, kept[p] \in Seq(Nat)
    PROVE  Last(settled(files)[p]) = Last(kept[p])
<1>1. CASE settled(files)[p] = kept[p]
  BY <1>1
<1>2. CASE \E f \in DOMAIN kept[p] : settled(files)[p] = SubSeq(kept[p], f, Len(kept[p]))
  <2>1. PICK f \in DOMAIN kept[p] : settled(files)[p] = SubSeq(kept[p], f, Len(kept[p]))
    BY <1>2
  <2>2. Last(SubSeq(kept[p], f, Len(kept[p]))) = Last(kept[p])
    BY CutLast
  <2> QED
    BY <2>1, <2>2
<1>3. \/ settled(files)[p] = kept[p]
      \/ \E f \in DOMAIN kept[p] : settled(files)[p] = SubSeq(kept[p], f, Len(kept[p]))
  BY SettledIs
<1> QED
  BY <1>1, <1>2, <1>3

\* When writeNow() is done with an entry, its content is in the file, unless
\* the entry was given up or the file was removed.
LEMMA DoneNewest ==
    ASSUME IInv, Regular, writeNow, ~dropped', ~spoiled', NEW o \in Peers, NEW b \in Bases, NEW c,
           Newest(View(disk'), writing', scheduled', inbox', b, c)
    PROVE  Now(b, c) \/ Faded(b, c)
<1> DEFINE d == writing.data
           s == disk[b].s
           z == disk[b].plain
<1>1. /\ UNCHANGED << inbox, scheduled >>
      /\ writing \in Entries /\ writing \in Waiting /\ version \in Nat
      /\ \A a \in Bases : a # writing.base => disk'[a] = disk[a]
      /\ writing' = NoEntry \/ (writing'.base = writing.base /\ writing'.data = d)
      /\ ~spoiled
  BY Operations DEF Waiting, IInv, Inv, Types
<1>2. b # writing.base => View(disk')[b] = View(disk)[b]
  BY <1>1, Seen
<1>3. CASE Awaited(inbox, b) \/ Awaited(scheduled, b)
  BY <1>1, <1>3 DEF Now, Newest
<1>4. CASE ~Awaited(inbox, b) /\ ~Awaited(scheduled, b) /\ writing' # NoEntry
  BY <1>1, <1>2, <1>4 DEF Now, Newest
<1>5. CASE ~Awaited(inbox, b) /\ ~Awaited(scheduled, b) /\ writing' = NoEntry
  <2>1. c = View(disk')[b]
    <3>1. writing'.base # b
      BY <1>5, Constants DEF Bases
    <3> QED
      BY <1>1, <1>5, <3>1 DEF Newest
  <2>2. CASE b # writing.base
    BY <1>2, <1>5, <2>1, <2>2 DEF Now, Newest
  <2>3. CASE b = writing.base
    <3>1. writing'.stage = "none"
      BY <1>5 DEF NoEntry
    <3>2. \/ /\ writing.stage = "clean"
             /\ disk'[b] = [s |-> s, plain |-> z] \/ disk'[b] = [s |-> s, plain |-> NoFile]
          \/ writing.stage = "rename" /\ disk'[b] = [s |-> z, plain |-> NoFile]
          \/ writing.stage = "unsafe" /\ disk'[b] = [s |-> NoFile, plain |-> z]
      <4>1. disk[b] = [s |-> s, plain |-> z]
        BY DEF IInv, Inv, Types
      <4> QED
        BY <2>3, <3>1, <4>1, Operations
    <3>3. /\ writing.stage = "clean" => s = d \/ Removed(b)
          /\ writing.stage \in {"rename", "unsafe"} => z = d \/ Removed(b)
      BY <1>1, <2>3 DEF Regular, Staged
    <3>4. Removed(b) => /\ s = NoFile /\ z = NoFile
                        /\ b # Map /\ \A p \in Peers : keys[p] # b
      BY DEF Removed, Missing
    <3>5. d # NoFile /\ d # Torn
      <4>1. d \in Maps \cup Drafts(version)
        <5>1. CASE b = Map
          BY <1>1, <2>3, <5>1 DEF Entries
        <5>2. CASE b \in Keys
          BY <1>1, <2>3, <5>2 DEF Regular, Dated
        <5> QED
          BY <5>1, <5>2 DEF Bases
      <4> QED
        BY <1>1, <4>1, Real
    <3>6. View(disk')[b] = IF disk'[b].s # NoFile
                             THEN IF disk'[b].s = Torn THEN Empty ELSE disk'[b].s
                             ELSE IF disk'[b].plain \in {NoFile, Torn} THEN Empty
                                  ELSE disk'[b].plain
      BY Seen
    <3> HIDE DEF d, s, z
    <3>7. CASE ~Removed(b)
      <4>1. c = d
        BY <2>1, <3>2, <3>3, <3>5, <3>6, <3>7
      <4> QED
        BY <1>5, <2>3, <4>1 DEF Now, Newest, d
    <3>8. CASE Removed(b)
      <4>1. c = Empty
        BY <2>1, <3>2, <3>4, <3>6, <3>8
      <4> QED
        BY <3>4, <3>8, <4>1 DEF Faded
    <3> QED
      BY <3>7, <3>8
  <2> QED
    BY <2>2, <2>3
<1> QED
  BY <1>3, <1>4, <1>5

\* The manager's thread: what it replaces, takes and writes is passed on.
LEMMA ManagerFinished ==
    ASSUME IInv, Regular, Finished, Manager
    PROVE  Finished'
<1>1. /\ inbox \in Seq(Entries) /\ scheduled \in Seq(Entries) /\ mode # "down"
  <2>1. writing # NoEntry \/ inbox # << >> \/ scheduled # << >>
    BY DEF Manager, write, writeOneScheduledNow, writeNow, commit, removeSimple,
           openPlain, flushPlain, rename, removeSafe, NoEntry
  <2> QED
    BY <2>1 DEF IInv, Down, Inv, Types
<1>2. UNCHANGED << keys, mapChanged >>
  BY DEF Manager, write, writeOneScheduledNow, writeNow, account
<1>3. CASE write
  <2>1. UNCHANGED << kept, dropped, spoiled, disk, writing >>
    BY <1>3 DEF write, history
  <2>2. inbox # << >> /\ inbox' = Tail(inbox) /\ scheduled' = replaced(scheduled, Head(inbox))
    BY <1>3 DEF write
  <2>3. \A b \in Bases : \A c :
           Newest(View(disk'), writing', scheduled', inbox', b, c) => Now(b, c)
    BY <1>1, <2>1, <2>2, WriteNewest DEF Now
  <2> QED
    BY <1>1, <1>2, <2>1, <2>3, NewestKept
<1>4. CASE writeOneScheduledNow
  <2>1. UNCHANGED << kept, dropped, spoiled, disk, inbox >>
    BY <1>4 DEF writeOneScheduledNow, history
  <2>2. /\ writing = NoEntry /\ scheduled # << >>
        /\ writing' = Head(scheduled) /\ scheduled' = Tail(scheduled)
    BY <1>4 DEF writeOneScheduledNow
  <2>3. \A b \in Bases : \A c :
           Newest(View(disk'), writing', scheduled', inbox', b, c) => Now(b, c)
    BY <1>1, <2>1, <2>2, TakeNewest DEF Now
  <2> QED
    BY <1>1, <1>2, <2>1, <2>3, NewestKept
<1>5. CASE writeNow
  <2>1. /\ kept' = kept \/ kept' = settled(disk')
        /\ dropped => dropped'
        /\ spoiled => spoiled'
    BY <1>5, Operations
  <2>2. \A p \in Peers : Last(kept'[p]) = Last(kept[p])
    <3>1. \A p \in Peers : kept[p] \in Seq(Nat)
      BY DEF Regular, Recorded
    <3> QED
      BY <2>1, <3>1, SettledLast
  <2>3. Peers # {} /\ ~dropped' /\ ~spoiled' => \A b \in Bases : \A c :
           Newest(View(disk'), writing', scheduled', inbox', b, c) => Now(b, c) \/ Faded(b, c)
    BY <1>5, DoneNewest
  <2> QED
    BY <1>1, <1>2, <2>1, <2>2, <2>3, NewestKept
<1> QED
  BY <1>3, <1>4, <1>5 DEF Manager

\* clearLegacyFiles(): the files that are removed are of no chat.
LEMMA ClearFilesFinished ==
    ASSUME IInv, Regular, Finished, clearFiles
    PROVE  Finished'
<1>1. /\ UNCHANGED << mode, keys, mapChanged, inbox, scheduled, writing, kept, dropped, spoiled >>
      /\ disk' = [b \in Bases |-> IF b \in listed THEN Missing ELSE disk[b]]
      /\ cleanup = "remove" /\ listed \subseteq Keys /\ mode # "down"
  BY DEF clearFiles, account, manager, history, IInv, Inv, Types
<1>2. \A b \in Bases : View(disk')[b] = IF b \in listed THEN Empty ELSE View(disk)[b]
  BY <1>1, Seen DEF Missing
<1>3. \A b \in listed : b # Map /\ \A p \in Peers : keys[p] # b
  BY <1>1, Constants DEF Regular, Cleaning
<1>4. \A b \in Bases : \A c :
         Newest(View(disk'), writing', scheduled', inbox', b, c) => Now(b, c) \/ Faded(b, c)
  BY <1>1, <1>2, <1>3 DEF Now, Newest, Faded
<1> QED
  BY <1>1, <1>4, NewestKept

\* writeMap(): the map that is sent is the newest.
LEMMA MapWrittenFinished ==
    ASSUME IInv, Finished, mapWritten, mode # "down",
           UNCHANGED << keys, scheduled, writing, disk, kept, dropped, spoiled >>
    PROVE  Finished'
<1>1. /\ inbox \in Seq(Entries) /\ scheduled \in Seq(Entries) /\ keys \in Maps
  BY DEF IInv, Inv, Types
<1>2. CASE ~mapChanged
  <2>1. UNCHANGED inbox
    BY <1>2 DEF mapWritten
  <2> QED
    BY <1>2, <2>1, NewestKept DEF Now
<1>3. CASE mapChanged
  <2> DEFINE y == Entry(Map, keys)
  <2>1. y \in Entries /\ y.base = Map /\ y.data = keys
    BY <1>1, Constants DEF Entry, Entries, Stages
  <2>2. inbox' = Sent(inbox, y)
    BY <1>3 DEF mapWritten, Sent
  <2> HIDE DEF y
  <2>3. \A b, c : Now(b, c)' => IF b = Map THEN c = keys ELSE Now(b, c)
    BY <1>1, <2>1, <2>2, SendNewest DEF Now
  <2> SUFFICES ASSUME ~dropped, ~spoiled, NEW p \in Peers
               PROVE  /\ keys[p] = 0 => Last(kept[p]) = 0
                      /\ keys[p] # 0 => \A c : Now(keys[p], c)' => c[p] = Last(kept[p])
                      /\ \A m : Now(Map, m)' => m[p] = keys[p]
    BY DEF Finished, Now
  <2>4. /\ keys[p] = 0 => Last(kept[p]) = 0
        /\ keys[p] # 0 => \A c : Now(keys[p], c) => c[p] = Last(kept[p])
    BY DEF Finished
  <2>5. keys[p] # 0 => keys[p] # Map
    BY Constants
  <2> QED
    BY <2>3, <2>4, <2>5
<1> QED
  BY <1>2, <1>3

\* The history of p ends with the text that was given.
Given(p, v) == kept' = [kept EXCEPT ![p] = Append(@, v)]

LEMMA LastGiven ==
    ASSUME Recorded, NEW p \in Peers, NEW v \in Nat, Given(p, v)
    PROVE  Last(kept'[p]) = v /\ \A o \in Peers : o # p => kept'[o] = kept[o]
<1>1. kept \in [Peers -> Seq(Nat)]
  BY DEF Recorded
<1>2. kept'[p] = Append(kept[p], v) /\ \A o \in Peers : o # p => kept'[o] = kept[o]
  BY <1>1 DEF Given
<1>3. Append(kept[p], v)[Len(Append(kept[p], v))] = v
  BY <1>1
<1> QED
  BY <1>2, <1>3 DEF Last

\* An empty text for a chat without a key.
LEMMA NothingGivenFinished ==
    ASSUME IInv, Regular, Finished, NEW p \in Peers, mode = "running", keys[p] = 0, Given(p, 0),
           UNCHANGED << keys, disk, mapChanged, inbox, scheduled, writing, dropped, spoiled >>
    PROVE  Finished'
<1>1. Last(kept'[p]) = 0 /\ \A o \in Peers : o # p => kept'[o] = kept[o]
  BY LastGiven DEF Regular
<1> SUFFICES ASSUME ~dropped, ~spoiled, NEW o \in Peers
             PROVE  /\ keys[o] = 0 => Last(kept'[o]) = 0
                    /\ keys[o] # 0 => \A c : Now(keys[o], c) => c[o] = Last(kept'[o])
                    /\ ~mapChanged => \A m : Now(Map, m) =>
                          \/ m[o] = keys[o]
                          \/ keys[o] = 0 /\ \A c : Now(m[o], c) => c[o] = 0
  BY DEF Finished, Now
<1> QED
  BY <1>1 DEF Finished

\* An empty text for a chat with a key.
LEMMA TextRemovedFinished ==
    ASSUME IInv, Regular, Finished, NEW p \in Peers, mode = "running", keys[p] # 0, Given(p, 0),
           disk' = ClearKey(keys[p]), keys' = [keys EXCEPT ![p] = 0], mapChanged' = TRUE,
           UNCHANGED << inbox, scheduled, writing, dropped, spoiled >>
    PROVE  Finished'
<1> DEFINE N(b, c) == Newest(View(disk'), writing, scheduled, inbox, b, c)
<1>1. Last(kept'[p]) = 0 /\ \A o \in Peers : o # p => kept'[o] = kept[o]
  BY LastGiven DEF Regular
<1>2. keys \in Maps /\ keys'[p] = 0 /\ \A o \in Peers : o # p => keys'[o] = keys[o]
  BY DEF IInv, Inv, Types, Maps
<1>3. \A o \in Peers : keys[o] # 0 => keys[o] \in Bases /\ (o # p => keys[o] # keys[p])
  BY <1>2, Constants DEF Maps
<1>4. \A b \in Bases : b # keys[p] => View(disk')[b] = View(disk)[b]
  <2>1. \A b \in Bases : b # keys[p] => disk'[b] = disk[b]
    BY DEF ClearKey, IInv, Inv, Types
  <2> QED
    BY <2>1, Seen
<1>5. \A b \in Bases : \A c : b # keys[p] /\ N(b, c) => Now(b, c)
  BY <1>4 DEF Now, Newest
<1> SUFFICES ASSUME ~dropped, ~spoiled, NEW o \in Peers
             PROVE  /\ keys'[o] = 0 => Last(kept'[o]) = 0
                    /\ keys'[o] # 0 => \A c : N(keys'[o], c) => c[o] = Last(kept'[o])
  BY DEF Finished, Now
<1> HIDE DEF N
<1>6. /\ keys[o] = 0 => Last(kept[o]) = 0
      /\ keys[o] # 0 => \A c : Now(keys[o], c) => c[o] = Last(kept[o])
  BY DEF Finished
<1> QED
  BY <1>1, <1>2, <1>3, <1>5, <1>6

\* A text.
LEMMA TextGivenFinished ==
    ASSUME IInv, Regular, Finished, NEW p \in Peers, mode = "running",
           \/ keys[p] # 0 /\ UNCHANGED << keys, mapChanged >>
           \/ /\ keys[p] = 0 /\ FreeKeys # {}
              /\ keys' = [keys EXCEPT ![p] = CHOOSE k \in FreeKeys : TRUE]
              /\ mapChanged' = TRUE,
           keys' \in Maps, version' = version + 1, Given(p, version'),
           inbox' = Append(inbox, Entry(keys'[p], Draft(p, version'))),
           UNCHANGED << disk, scheduled, writing, dropped, spoiled >>
    PROVE  Finished'
<1> DEFINE N(b, c) == Newest(View(disk), writing, scheduled, inbox', b, c)
           k == keys'[p]
           d == Draft(p, version')
           y == Entry(k, d)
<1>1. /\ version \in Nat /\ version' \in Nat /\ keys \in Maps
      /\ inbox \in Seq(Entries)
  BY DEF IInv, Inv, Types
<1>2. Last(kept'[p]) = version' /\ \A o \in Peers : o # p => kept'[o] = kept[o]
  BY <1>1, LastGiven DEF Regular
<1>3. k \in Keys /\ \A o \in Peers : o # p => keys'[o] = keys[o] /\ keys[o] # k
  <2>1. CASE keys[p] # 0 /\ UNCHANGED keys
    BY <1>1, <2>1 DEF Maps
  <2>2. CASE /\ keys[p] = 0 /\ FreeKeys # {}
             /\ keys' = [keys EXCEPT ![p] = CHOOSE a \in FreeKeys : TRUE]
    <3>1. k \in FreeKeys /\ \A o \in Peers : o # p => keys'[o] = keys[o]
      BY <1>1, <2>2, FreshChosen
    <3>2. k \in Keys /\ k \notin Range(keys)
      BY <3>1, FreshIs
    <3>3. \A o \in Peers : keys[o] \in Range(keys)
      BY <1>1 DEF Range, Maps
    <3> HIDE DEF k
    <3> QED
      BY <3>1, <3>2, <3>3
  <2> QED
    BY <2>1, <2>2
<1>4. d[p] = version' /\ \A o \in Peers : o # p => d[o] = 0
  BY DEF Draft, Empty
<1>5. y \in Entries /\ y.base = k /\ y.data = d
  <2>1. d \in Contents
    BY <1>1, TextIs DEF Drafts, Contents
  <2>2. k \in Bases /\ k # Map
    BY <1>3, Constants
  <2> HIDE DEF d, k
  <2> QED
    BY <2>1, <2>2 DEF Entry, Entries, Stages
<1>6. inbox' = Sent(inbox, y)
  BY DEF Sent
<1> HIDE DEF y, d, k
<1>7. \A b, c : N(b, c) => IF b = k THEN c = d ELSE Now(b, c)
  <2> SUFFICES ASSUME NEW b, NEW c, N(b, c)
               PROVE  IF b = k THEN c = d ELSE Now(b, c)
    OBVIOUS
  <2>1. Newest(View(disk), writing, scheduled, Sent(inbox, y), b, c)
    BY <1>6
  <2>2. IF y.base = b THEN c = y.data
        ELSE Newest(View(disk), writing, scheduled, inbox, b, c)
    BY <1>1, <1>5, <2>1, SendNewest
  <2> QED
    BY <1>5, <2>2 DEF Now
<1> SUFFICES ASSUME ~dropped, ~spoiled, NEW o \in Peers
             PROVE  /\ keys'[o] = 0 => Last(kept'[o]) = 0
                    /\ keys'[o] # 0 => \A c : N(keys'[o], c) => c[o] = Last(kept'[o])
                    /\ ~mapChanged' => \A m : N(Map, m) =>
                          \/ m[o] = keys'[o]
                          \/ keys'[o] = 0 /\ \A c : N(m[o], c) => c[o] = 0
  BY DEF Finished, Now, k
<1> HIDE DEF N
<1>8. /\ keys[o] = 0 => Last(kept[o]) = 0
      /\ keys[o] # 0 => \A c : Now(keys[o], c) => c[o] = Last(kept[o])
      /\ ~mapChanged => \A m : Now(Map, m) =>
            \/ m[o] = keys[o]
            \/ keys[o] = 0 /\ \A c : Now(m[o], c) => c[o] = 0
  BY DEF Finished
<1>9. k # 0 /\ k # Map /\ keys'[p] = k
  BY <1>3, Constants DEF k
<1>10. CASE o = p
  <2>1. ~mapChanged' => keys[p] = k /\ ~mapChanged
    BY <1>9
  <2>2. ~mapChanged' => \A m : N(Map, m) => m[p] = k
    BY <1>7, <1>8, <1>9, <1>10, <2>1
  <2> QED
    BY <1>2, <1>4, <1>7, <1>9, <1>10, <2>2
<1>11. CASE o # p
  <2>1. kept'[o] = kept[o] /\ keys'[o] = keys[o] /\ keys[o] # k /\ d[o] = 0
    BY <1>2, <1>3, <1>4, <1>11
  <2>2. ~mapChanged' => ~mapChanged
    OBVIOUS
  <2>3. \A m : N(Map, m) => Now(Map, m)
    BY <1>7, <1>9
  <2>4. \A m : (\A c : Now(m[o], c) => c[o] = 0) => \A c : N(m[o], c) => c[o] = 0
    BY <1>7, <2>1
  <2>5. keys[o] # 0 => \A c : N(keys[o], c) => Now(keys[o], c)
    BY <1>7, <2>1
  <2> QED
    BY <1>8, <2>1, <2>2, <2>3, <2>4, <2>5
<1> QED
  BY <1>10, <1>11

\* writeDrafts()
LEMMA WriteDraftsFinished ==
    ASSUME IInv, Regular, IInv', Finished, NEW p \in Peers, writeDrafts(p)
    PROVE  Finished'
<1>1. /\ mode = "running" /\ UNCHANGED << scheduled, writing, dropped, spoiled >>
      /\ version' = version + 1 /\ keys' \in Maps
  BY DEF writeDrafts, IInv, Inv, Types
<1>2. CASE /\ Given(p, 0) /\ keys[p] = 0
           /\ UNCHANGED << keys, disk, mapChanged, inbox >>
  BY <1>1, <1>2, NothingGivenFinished
<1>3. CASE /\ Given(p, 0) /\ keys[p] # 0 /\ disk' = ClearKey(keys[p])
           /\ keys' = [keys EXCEPT ![p] = 0] /\ mapChanged' = TRUE /\ UNCHANGED inbox
  BY <1>1, <1>3, TextRemovedFinished
<1>4. CASE /\ Given(p, version')
           /\ \/ keys[p] # 0 /\ UNCHANGED << keys, mapChanged >>
              \/ /\ keys[p] = 0 /\ FreeKeys # {}
                 /\ keys' = [keys EXCEPT ![p] = CHOOSE k \in FreeKeys : TRUE]
                 /\ mapChanged' = TRUE
           /\ inbox' = Append(inbox, Entry(keys'[p], Draft(p, version')))
           /\ UNCHANGED disk
  BY <1>1, <1>4, TextGivenFinished
<1> QED
  BY <1>2, <1>3, <1>4 DEF writeDrafts, Given, writeMapDelayed, writeMapQueued

\* readDraftsWithCursors(): nothing is on its way for a chat that was not
\* read, so a file it cannot read was the last.
LEMMA ReadDraftsFinished ==
    ASSUME IInv, Finished, NEW p \in Peers, readDrafts(p)
    PROVE  Finished'
<1>1. /\ UNCHANGED << mapChanged, inbox, scheduled, writing, kept, dropped, spoiled >>
      /\ mode = "running" /\ p \in notRead /\ keys \in Maps
      /\ inbox \in Seq(Entries) /\ scheduled \in Seq(Entries)
  BY DEF readDrafts, manager, history, IInv, Inv, Types
<1>2. CASE UNCHANGED << disk, keys >>
  BY <1>1, <1>2, NewestKept DEF Now
<1>3. CASE /\ keys[p] # 0 /\ (~Readable(disk, keys[p]) \/ Tried(disk, keys[p])[p] = 0)
           /\ disk' = ClearKey(keys[p]) /\ keys' = [keys EXCEPT ![p] = 0]
  <2> DEFINE k == keys[p]
             N(b, c) == Newest(View(disk'), writing, scheduled, inbox, b, c)
  <2>1. k \in Keys /\ k \in Bases /\ k # Map
    BY <1>1, <1>3, Constants DEF Maps
  <2>2. View(disk)[k][p] = 0
    BY <1>3, <2>1 DEF View, Empty
  <2>3. ~Awaited(inbox, k) /\ ~Awaited(scheduled, k) /\ writing.base # k
    <3>1. \A e \in Waiting : e.base # k
      BY <1>1 DEF IInv, Inv, Quiet
    <3> QED
      BY <3>1 DEF Awaited, Waiting, Range
  <2>4. /\ \A c : N(k, c) => c = Empty
        /\ \A b \in Bases : b # k => \A c : N(b, c) => Now(b, c)
        /\ Now(k, View(disk)[k])
    <3>1. disk'[k] = Missing /\ \A b \in Bases : b # k => disk'[b] = disk[b]
      BY <1>3, <2>1 DEF ClearKey, IInv, Inv, Types
    <3>2. View(disk')[k] = Empty /\ \A b \in Bases : b # k => View(disk')[b] = View(disk)[b]
      BY <2>1, <3>1, Seen DEF Missing
    <3> QED
      BY <2>3, <3>2 DEF Now, Newest
  <2>5. /\ keys'[p] = 0 /\ \A o \in Peers : o # p => keys'[o] = keys[o] /\ keys[o] # k
        /\ \A o \in Peers : keys[o] # 0 => keys[o] \in Bases
        /\ \A m \in Maps : \A o \in Peers : m[o] \in Bases
        /\ \A o \in Peers : Empty[o] = 0
    BY <1>1, <1>3, Constants DEF Maps, Bases, Empty
  <2> SUFFICES ASSUME ~dropped, ~spoiled, NEW o \in Peers
               PROVE  /\ keys'[o] = 0 => Last(kept[o]) = 0
                      /\ keys'[o] # 0 => \A c : N(keys'[o], c) => c[o] = Last(kept[o])
                      /\ ~mapChanged => \A m : N(Map, m) =>
                            \/ m[o] = keys'[o]
                            \/ keys'[o] = 0 /\ \A c : N(m[o], c) => c[o] = 0
    BY <1>1 DEF Finished, Now
  <2> HIDE DEF k, N
  <2>6. /\ keys[o] = 0 => Last(kept[o]) = 0
        /\ keys[o] # 0 => \A c : Now(keys[o], c) => c[o] = Last(kept[o])
        /\ ~mapChanged => \A m : Now(Map, m) =>
              \/ m[o] = keys[o]
              \/ keys[o] = 0 /\ \A c : Now(m[o], c) => c[o] = 0
    BY <1>1 DEF Finished
  <2>7. ASSUME NEW m, N(Map, m)
        PROVE  Now(Map, m) /\ m[o] \in Bases
    <3>1. Now(Map, m)
      BY <2>1, <2>4, <2>7, Constants
    <3> QED
      BY <2>5, <3>1, NewestMap
  <2>8. CASE o = p
    <3>1. keys[o] = k /\ k # 0
      BY <1>3, <2>8 DEF k
    <3>2. Last(kept[o]) = 0
      BY <2>2, <2>4, <2>6, <2>8, <3>1
    <3>3. ~mapChanged => \A m : N(Map, m) => m[o] = k
      BY <2>6, <2>7, <3>1
    <3> QED
      BY <2>4, <2>5, <2>8, <3>2, <3>3
  <2>9. CASE o # p
    <3>1. keys'[o] = keys[o] /\ keys[o] # k
      BY <2>5, <2>9
    <3>2. \A m : N(Map, m) /\ (\A c : Now(m[o], c) => c[o] = 0)
             => \A c : N(m[o], c) => c[o] = 0
      BY <2>4, <2>5, <2>7
    <3> QED
      BY <2>4, <2>5, <2>6, <2>7, <3>1, <3>2
  <2> QED
    BY <2>8, <2>9
<1> QED
  BY <1>2, <1>3 DEF readDrafts

\* After a start nothing waits, and each history is what was read.
LEMMA StartFinished ==
    ASSUME IInv, Regular, start
    PROVE  Finished'
<1>1. /\ UNCHANGED << inbox, scheduled, writing, disk, version >>
      /\ inbox = << >> /\ scheduled = << >> /\ writing = NoEntry
      /\ keys' = ReadMap(disk) /\ ReadMap(disk) \in Maps
      /\ kept' = [p \in Peers |-> << ReadBack(disk, p) >>]
  BY ReadMapIsMap DEF start, manager, IInv, Inv, Types, Down
<1>2. \A b \in Bases : \A c : Newest(View(disk), NoEntry, << >>, << >>, b, c) => c = View(disk)[b]
  <2>1. \A b \in Bases : NoEntry.base # b
    BY Constants DEF Bases
  <2>2. DOMAIN << >> = {}
    OBVIOUS
  <2> QED
    BY <2>1, <2>2 DEF Newest, Awaited
<1>3. \A p \in Peers : Last(kept'[p]) = ReadBack(disk, p)
  BY <1>1 DEF Last
<1>4. /\ View(disk)[Map] = keys' /\ Map \in Bases
      /\ \A p \in Peers : /\ keys'[p] # 0 => keys'[p] \in Bases
                          /\ ReadBack(disk, p) =
                                IF keys'[p] # 0 THEN View(disk)[keys'[p]][p] ELSE 0
  <2>1. \A p \in Peers : keys'[p] # 0 => keys'[p] \in Bases
    BY <1>1, Constants DEF Maps
  <2>2. View(disk)[Map] = keys'
    BY <1>1, SeenMap
  <2>3. \A p \in Peers : ReadBack(disk, p) =
            IF View(disk)[Map][p] # 0 THEN View(disk)[View(disk)[Map][p]][p] ELSE 0
    BY ReadBackIs DEF Regular
  <2> QED
    BY <2>1, <2>2, <2>3, Constants
<1> DEFINE N(b, c) == Newest(View(disk), NoEntry, << >>, << >>, b, c)
<1> SUFFICES ASSUME NEW p \in Peers
             PROVE  /\ keys'[p] = 0 => Last(kept'[p]) = 0
                    /\ keys'[p] # 0 => \A c : N(keys'[p], c) => c[p] = Last(kept'[p])
                    /\ \A m : N(Map, m) => m[p] = keys'[p]
  BY <1>1 DEF Finished, Now
<1>5. \A b \in Bases : \A c : N(b, c) => c = View(disk)[b]
  BY <1>2
<1> HIDE DEF N
<1> QED
  BY <1>3, <1>4, <1>5

\* An orderly end: nothing is on its way any more.
LEMMA FinishedIsKept ==
    ASSUME IInv, Regular, Finished, Stopped, finish
    PROVE  QuitKeepsAll'
<1>1. /\ mode = "quitting" /\ inbox = << >> /\ scheduled = << >> /\ writing = NoEntry
      /\ UNCHANGED << disk, kept, dropped, spoiled >>
  BY DEF finish
<1> SUFFICES ASSUME ~dropped, ~spoiled, NEW p \in Peers
             PROVE  ReadBack(disk, p) = Last(kept[p])
  BY <1>1 DEF QuitKeepsAll
<1> DEFINE w == View(disk)
           k == w[Map][p]
<1>2. \A b \in Bases : Now(b, w[b])
  <2>1. \A b \in Bases : writing.base # b
    BY <1>1, Constants DEF Bases
  <2>2. inbox = << >> /\ scheduled = << >> /\ DOMAIN << >> = {}
    BY <1>1
  <2> QED
    BY <2>1, <2>2 DEF Now, Newest, Awaited
<1>3. /\ keys[p] = 0 => Last(kept[p]) = 0
      /\ keys[p] # 0 => \A c : Now(keys[p], c) => c[p] = Last(kept[p])
      /\ \A m : Now(Map, m) => \/ m[p] = keys[p]
                               \/ keys[p] = 0 /\ \A c : Now(m[p], c) => c[p] = 0
  BY <1>1 DEF Finished, Stopped
<1>4. k \in {0} \cup Keys /\ ReadBack(disk, p) = IF k # 0 THEN w[k][p] ELSE 0
  BY ReadBackIs DEF Regular
<1>5. Map \in Bases /\ (k # 0 => k \in Bases)
  BY <1>4, Constants
<1>6. Now(Map, w[Map]) /\ (k # 0 => Now(k, w[k]))
  BY <1>2, <1>5
<1>7. k = keys[p] \/ (keys[p] = 0 /\ \A c : Now(k, c) => c[p] = 0)
  BY <1>3, <1>6
<1> HIDE DEF k, w
<1> QED
  BY <1>3, <1>4, <1>6, <1>7

\* The first process starts with no files.
LEMMA InitFinished == Init => Finished /\ Stopped /\ QuitKeepsAll
<1> SUFFICES ASSUME Init PROVE Finished /\ Stopped /\ QuitKeepsAll
  OBVIOUS
<1>1. /\ disk = [b \in Bases |-> Missing] /\ keys = Empty
      /\ inbox = << >> /\ scheduled = << >> /\ writing = NoEntry
      /\ mode = "running" /\ kept = [p \in Peers |-> <<0>>]
  BY DEF Init
<1>2. View(disk)[Map] = Empty
  BY <1>1, Seen, Constants DEF Missing
<1>3. \A m : Now(Map, m) => m = Empty
  <2>1. writing.base # Map /\ inbox = << >> /\ scheduled = << >> /\ DOMAIN << >> = {}
    BY <1>1, Constants
  <2> QED
    BY <1>2, <2>1 DEF Now, Newest, Awaited
<1>4. \A p \in Peers : keys[p] = 0 /\ Last(kept[p]) = 0 /\ Empty[p] = 0
  BY <1>1 DEF Empty, Last
<1>5. Finished
  BY <1>3, <1>4 DEF Finished
<1> QED
  BY <1>1, <1>5 DEF Stopped, QuitKeepsAll

\* What an orderly end needs to know of every moment before it.
QuitInv == IInv /\ Regular /\ Finished /\ Stopped /\ QuitKeepsAll

\* Every step keeps the invariant.
LEMMA NextQuit == QuitInv /\ KeptInv' /\ [Next]_vars => QuitInv'
<1> SUFFICES ASSUME QuitInv, KeptInv', [Next]_vars PROVE QuitInv'
  OBVIOUS
<1>1. IInv /\ Regular /\ Finished /\ Stopped /\ QuitKeepsAll /\ IInv' /\ Regular'
  BY DEF QuitInv, KeptInv
<1>2. ASSUME Finished', Stopped', mode' # "down" PROVE QuitInv'
  BY <1>1, <1>2 DEF QuitInv, QuitKeepsAll
<1>3. ASSUME NEW p \in Peers, writeDrafts(p) PROVE QuitInv'
  <2>1. Finished'
    BY <1>1, <1>3, WriteDraftsFinished
  <2> QED
    BY <1>2, <1>3, <2>1 DEF writeDrafts, Stopped
<1>4. ASSUME NEW p \in Peers, readDrafts(p) PROVE QuitInv'
  <2>1. Finished'
    BY <1>1, <1>4, ReadDraftsFinished
  <2> QED
    BY <1>2, <1>4, <2>1 DEF readDrafts, Stopped
<1>5. CASE writeMapFired \/ quit
  <2>1. /\ mapWritten /\ mode # "down" /\ mode' # "down"
        /\ UNCHANGED << keys, scheduled, writing, disk, kept, dropped, spoiled >>
    BY <1>5 DEF writeMapFired, quit, clearing, history
  <2>2. Finished'
    BY <1>1, <2>1, MapWrittenFinished
  <2>3. Stopped'
    BY <2>1 DEF mapWritten, Stopped
  <2> QED
    BY <1>2, <2>1, <2>2, <2>3
<1>6. CASE finish \/ crash
  <2>1. mode' = "down" /\ (crash => orderly' = FALSE)
    BY <1>6 DEF finish, crash, gone
  <2>2. Finished' /\ Stopped'
    BY <2>1 DEF Finished, Stopped
  <2>3. QuitKeepsAll'
    <3>1. CASE finish
      BY <1>1, <3>1, FinishedIsKept
    <3>2. CASE crash
      BY <2>1, <3>2 DEF QuitKeepsAll
    <3> QED
      BY <1>6, <3>1, <3>2
  <2> QED
    BY <1>1, <2>2, <2>3 DEF QuitInv
<1>7. CASE start
  <2>1. Finished'
    BY <1>1, <1>7, StartFinished
  <2> QED
    BY <1>2, <1>7, <2>1 DEF start, Stopped
<1>8. CASE listFiles \/ collectGoodNames
  <2>1. /\ UNCHANGED << mode, keys, mapChanged, inbox, scheduled, writing, disk, kept,
                        dropped, spoiled >>
        /\ mode = "running"
    BY <1>8 DEF listFiles, collectGoodNames, account, manager, history
  <2>2. Finished'
    BY <1>1, <2>1 DEF Finished, Now
  <2> QED
    BY <1>2, <2>1, <2>2 DEF Stopped
<1>9. CASE clearFiles
  <2>1. Finished'
    BY <1>1, <1>9, ClearFilesFinished
  <2>2. UNCHANGED << mode, mapChanged >> /\ mode # "down"
    BY <1>9 DEF clearFiles, account
  <2> QED
    BY <1>1, <1>2, <2>1, <2>2 DEF Stopped
<1>10. CASE Manager
  <2>1. Finished'
    BY <1>1, <1>10, ManagerFinished
  <2>2. UNCHANGED << mode, mapChanged >> /\ mode # "down"
    <3>1. writing # NoEntry \/ inbox # << >> \/ scheduled # << >>
      BY <1>10 DEF Manager, write, writeOneScheduledNow, writeNow, commit, removeSimple,
                   openPlain, flushPlain, rename, removeSafe, NoEntry
    <3>2. mode # "down"
      BY <1>1, <3>1 DEF IInv, Down
    <3> QED
      BY <1>10, <3>2 DEF Manager, write, writeOneScheduledNow, writeNow, account
  <2> QED
    BY <1>1, <1>2, <2>1, <2>2 DEF Stopped
<1>11. CASE UNCHANGED vars
  <2>1. /\ UNCHANGED << mode, keys, mapChanged, inbox, scheduled, writing, disk, kept,
                        dropped, spoiled, orderly >>
    BY <1>11 DEF vars, account, manager, history
  <2>2. Finished' /\ Stopped' /\ QuitKeepsAll'
    BY <1>1, <2>1 DEF Finished, Now, Stopped, QuitKeepsAll
  <2> QED
    BY <1>1, <2>2 DEF QuitInv
<1> QED
  BY <1>3, <1>4, <1>5, <1>6, <1>7, <1>8, <1>9, <1>10, <1>11 DEF Next, Main

\* A process that ends in order leaves exactly the texts that writeDrafts()
\* was given last: ~Account() sends the map behind everything that was sent
\* before, and AsyncWriteManager::stop() waits for all of it.
THEOREM OrderlyEndKeepsAll == Spec => []QuitKeepsAll
<1>1. Init => KeptInv /\ QuitInv
  BY InitKept, InitFinished DEF KeptInv, QuitInv
<1>2. KeptInv /\ QuitInv /\ [Next]_vars => (KeptInv /\ QuitInv)'
  BY NextKept, NextQuit
<1>3. KeptInv /\ QuitInv => QuitKeepsAll
  BY DEF QuitInv
<1> QED
  BY <1>1, <1>2, <1>3, PTL DEF Spec

=============================================================================
