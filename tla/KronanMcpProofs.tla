-------------------------- MODULE KronanMcpProofs --------------------------
(***************************************************************************)
(* Proofs about the three parts of kronan-mcp, one after the other.        *)
(*                                                                         *)
(* SecretStore, for every number of generations, keys and writes.  The     *)
(* inductive invariant says which pairs of files each point of a hold can  *)
(* meet: the files are settled while a handle is usable, the marker        *)
(* announces exactly the draft while a write is under way, and every       *)
(* record of this epoch is older than the one in place.                    *)
(***************************************************************************)
EXTENDS KronanMcp, TLAPS

\* The files that a load leaves behind.
Settled(m, r) ==
    IF m = NoMarker THEN r = NoRecord
    ELSE Plausible(m) /\ m.pending = NoWrite /\ Kept(m, r)

\* A usable handle holds the marker on disk, and the files are settled.
HandleInv ==
    /\ cache # NoState /\ ~ended /\ pc \notin {"pending", "landed"} =>
           cache.marker = marker /\ Settled(marker, record)
    /\ pc \in {"updating", "writing"} => cache # NoState /\ ~ended
    /\ pc \in {"resetting", "discarding"} => cache = NoState
    /\ pc = "free" => cache = NoState

\* During a write the marker announces the draft, and nothing else landed.
WriteInv ==
    pc \in {"pending", "landed"} =>
        /\ cache # NoState /\ ~ended
        /\ draft \in Record /\ draft.key = cache.key
        /\ marker \in Marker /\ Plausible(marker)
        /\ marker.pending = [generation |-> draft.generation, nonce |-> draft.nonce]
        /\ IF pc = "pending" THEN Kept(marker, record) ELSE record = draft

ResetInv == pc = "discarding" => marker = Fresh /\ landed = {}

\* Generations of the records put in place since the last reset only grow.
HistoryInv ==
    \A r \in landed :
        /\ record # NoRecord
        /\ r.generation <= record.generation
        /\ r.generation = record.generation => r = record

IInv ==
    /\ TypeOK
    /\ NeverStuck
    /\ HandleInv
    /\ WriteInv
    /\ ResetInv
    /\ HistoryInv

-----------------------------------------------------------------------------
(* Pairs of files                                                          *)

MarkerFile == Marker \cup {NoMarker}
RecordFile == Record \cup {NoRecord}

\* The two markers without a pending write, by their fields.
LEMMA PlainMarkers ==
    /\ Fresh \in Marker /\ Plausible(Fresh) /\ Settled(Fresh, NoRecord)
    /\ \A r \in Record : Committed(r.generation) \in Marker
                       /\ Settled(Committed(r.generation), r)
<1>1. Fresh \in Marker /\ \A r \in Record : Committed(r.generation) \in Marker
  BY StoreAssumption DEF Fresh, Committed, Marker, Record, Generation
<1>2. Fresh.migrated = FALSE /\ Fresh.generation = 0 /\ Fresh.pending = NoWrite
  BY DEF Fresh
<1>3. Plausible(Fresh)
  BY (0 > 0) = FALSE DEF Plausible, Fresh
<1>4. Settled(Fresh, NoRecord)
  BY <1>1, <1>2, <1>3, StoreAssumption DEF Settled, Kept
<1>5. ASSUME NEW r \in Record PROVE Settled(Committed(r.generation), r)
  <2> DEFINE c == Committed(r.generation)
  <2>1. r.generation \in Nat \ {0}
    BY StoreAssumption DEF Record, Generation
  <2>2. c.migrated = TRUE /\ c.generation = r.generation /\ c.pending = NoWrite
    BY DEF Committed
  <2>3. Plausible(c)
    <3>1. (r.generation > 0) = TRUE
      BY <2>1
    <3> QED BY <3>1 DEF Plausible, Committed
  <2>4. c # NoMarker /\ r # NoRecord
    BY <1>1, StoreAssumption
  <2> QED BY <2>2, <2>3, <2>4 DEF Settled, Kept
<1> QED BY <1>1, <1>3, <1>4, <1>5

\* A load of files it can be certain of leaves settled files, and the value
\* they hold is the one it returns, before and after.
LEMMA LoadSettles ==
    ASSUME NEW m \in MarkerFile, NEW r \in RecordFile, Certain(m, r)
    PROVE  /\ Settle(m, r) \in MarkerFile
           /\ Settled(Settle(m, r), r)
           /\ ContentOf(m, r) = Plain(r)
           /\ ContentOf(Settle(m, r), r) = Plain(r)
<1> USE StoreAssumption DEF MarkerFile, RecordFile, Generation
<1>1. CASE m = NoMarker
  BY <1>1 DEF Certain, Settle, Settled, ContentOf, Plain
<1>2. CASE m # NoMarker /\ Landed(m, r)
  <2>1. m \in Marker /\ r \in Record
    BY <1>2 DEF Landed
  <2>2. Settle(m, r) = Committed(r.generation) /\ Committed(r.generation) \in Marker
    BY <1>2, <2>1 DEF Settle, Committed, Marker, Record
  <2>3. Settled(Committed(r.generation), r)
    BY <2>1, PlainMarkers
  <2>4. ContentOf(m, r) = Plain(r) /\ ContentOf(Committed(r.generation), r) = Plain(r)
    BY <1>2, <2>1, <2>2 DEF ContentOf, Plain, Kept, Committed
  <2> QED BY <2>2, <2>3, <2>4
<1>3. CASE m # NoMarker /\ ~Landed(m, r)
  <2> DEFINE s == [m EXCEPT !.pending = NoWrite]
  <2>1. m \in Marker /\ Plausible(m) /\ Kept(m, r) /\ Settle(m, r) = s
    BY <1>3 DEF Certain, Settle
  <2>2. s \in Marker /\ s.migrated = m.migrated /\ s.generation = m.generation
            /\ s.pending = NoWrite
    BY <2>1 DEF Marker
  <2>3. Settled(s, r)
    BY <2>1, <2>2 DEF Settled, Plausible, Kept
  <2>4. ContentOf(m, r) = Plain(r) /\ ContentOf(s, r) = Plain(r)
    BY <1>3, <2>1, <2>2 DEF ContentOf, Plain, Kept
  <2> QED BY <2>1, <2>2, <2>3, <2>4
<1> QED BY <1>1, <1>2, <1>3

\* Settled files can be loaded.
LEMMA SettledLoads ==
    ASSUME NEW m \in MarkerFile, NEW r \in RecordFile, Settled(m, r)
    PROVE  Certain(m, r) /\ ContentOf(m, r) = Plain(r)
BY DEF Settled, Certain, Plausible, ContentOf, Plain, Kept, MarkerFile, RecordFile

\* Announcing the next generation changes nothing that a load would return.
LEMMA AnnounceKeeps ==
    ASSUME NEW m \in MarkerFile, NEW r \in RecordFile, NEW n \in Nat,
           Settled(m, r), ~Exhausted(m)
    PROVE  /\ Announce(m, n) \in Marker
           /\ Plausible(Announce(m, n))
           /\ Announce(m, n).pending = [generation |-> Base(m) + 1, nonce |-> n]
           /\ Base(m) + 1 \in Generation \ {0}
           /\ Kept(Announce(m, n), r)
           /\ ContentOf(Announce(m, n), r) = Plain(r)
<1> USE StoreAssumption DEF MarkerFile, RecordFile, Generation
<1>1. Base(m) \in Generation /\ Base(m) + 1 \in Generation \ {0}
  BY DEF Base, Exhausted, Marker
<1>2. [generation |-> Base(m) + 1, nonce |-> n] \in Pending
  BY <1>1 DEF Pending
<1>3. Announce(m, n) \in Marker
  BY <1>1, <1>2 DEF Announce, Marker
<1>4. Announce(m, n).generation = Base(m)
      /\ Announce(m, n).pending = [generation |-> Base(m) + 1, nonce |-> n]
  BY DEF Announce
<1>5. Announce(m, n).migrated = (Base(m) > 0)
  BY DEF Announce, Base, Settled, Plausible, Marker
<1>6. Plausible(Announce(m, n))
  BY <1>4, <1>5 DEF Plausible
<1>7. Kept(Announce(m, n), r)
  BY <1>4 DEF Kept, Base, Settled
<1>8. ContentOf(Announce(m, n), r) = Plain(r)
  BY <1>3, <1>7 DEF ContentOf, Plain
<1> QED BY <1>1, <1>3, <1>4, <1>6, <1>7, <1>8

\* Once the announced record is in place a load returns it, and the marker
\* that commits it settles the files.
LEMMA LandedCommits ==
    ASSUME NEW m \in Marker, NEW r \in Record, Plausible(m),
           m.pending = [generation |-> r.generation, nonce |-> r.nonce]
    PROVE  /\ Landed(m, r) /\ Certain(m, r)
           /\ ContentOf(m, r) = r.value
           /\ Committed(r.generation) \in Marker
           /\ Settled(Committed(r.generation), r)
           /\ ContentOf(Committed(r.generation), r) = r.value
<1> USE StoreAssumption DEF Generation
<1>1. r # NoRecord /\ m # NoMarker
  OBVIOUS
<1>2. m.pending \in Pending
  BY DEF Pending, Record
<1>3. Landed(m, r) /\ Certain(m, r)
  BY <1>1, <1>2 DEF Landed, Certain
<1>4. Committed(r.generation) \in Marker
  BY PlainMarkers
<1>5. Settled(Committed(r.generation), r)
  BY PlainMarkers
<1>6. Kept(Committed(r.generation), r)
  BY <1>1 DEF Kept, Committed
<1> QED BY <1>1, <1>3, <1>4, <1>5, <1>6 DEF ContentOf

\* A fresh marker hides whatever record it finds.
LEMMA FreshHides ==
    /\ \A r \in RecordFile : ContentOf(Fresh, r) = NoValue
    /\ \A r \in Record : ~Certain(Fresh, r)
<1> USE StoreAssumption DEF Generation, RecordFile
<1>1. Fresh \in Marker
  BY PlainMarkers
<1>2. \A r \in Record : ~Landed(Fresh, r) /\ ~Kept(Fresh, r)
  BY DEF Fresh, Landed, Kept, Record
<1> QED BY <1>1, <1>2 DEF ContentOf, Certain

-----------------------------------------------------------------------------
(* What a step does to the files and the hold                              *)

\* open() succeeds: the files are settled and the handle holds their marker.
LoadStep ==
    /\ pc = "held" /\ ~ended
    /\ pc' \in {"held", "updating", "writing"}
    /\ OpenSucceeds
    /\ UNCHANGED <<record, keyVars, ended, draft, drawn, landed>>

\* Neither file changes, and a handle is dropped, ended, or kept as it was.
QuietStep ==
    /\ UNCHANGED <<fileVars, landed>>
    /\ cache' \in {cache, NoState} /\ draft' \in {draft, NoRecord}
    /\ \/ UNCHANGED <<pc, cache, ended, draft>>
       \/ pc' \in {"free", "resetting"} /\ cache' = NoState
       \/ pc' = "held" /\ (cache' = NoState \/ ended')
       \/ /\ pc' = "held" /\ pc \notin {"pending", "landed"}
          /\ UNCHANGED <<cache, ended>>

\* Which actions touch the files, the handle and the history.
LEMMA Steps ==
    ASSUME HandleInv, [Next]_vars
    PROVE  \/ LoadStep \/ WritePending \/ WriteRecord \/ CommitMarker
           \/ ResetMarker \/ ResetRemoves \/ QuietStep
<1> USE DEF Goto, fileVars, keyVars, holdVars
<1>1. CASE Read \/ UpdateOpens \/ WriteOpens
  BY <1>1 DEF Read, UpdateOpens, WriteOpens, LoadStep
<1>2. CASE Acquire \/ Release \/ Crash
  BY <1>2 DEF Acquire, Release, Crash, LeaveHold, QuietStep, HandleInv
<1>3. CASE ReadFails \/ UpdateStops \/ UpdateKeeps \/ WriteRefused \/ WriteUncertain
  BY <1>3 DEF ReadFails, UpdateStops, UpdateKeeps, WriteRefused, WriteUncertain,
              OpenFails, QuietStep
<1>4. CASE CreateKey \/ CreateKeyRefused \/ ResetAsks \/ ResetFails
  BY <1>4 DEF CreateKey, CreateKeyRefused, ResetAsks, ResetFails, QuietStep
<1>5. CASE LoseKey \/ RestoreKey
  BY <1>5 DEF LoseKey, RestoreKey, QuietStep
<1>6. CASE UNCHANGED vars
  BY <1>6 DEF vars, QuietStep
<1> QED BY <1>1, <1>2, <1>3, <1>4, <1>5, <1>6 DEF Next

\* A load that succeeds settles the files and remembers the marker it left.
LEMMA LoadEffect ==
    ASSUME TypeOK, LoadStep
    PROVE  /\ marker' \in MarkerFile /\ cache' \in State
           /\ cache'.marker = marker'
           /\ Settled(marker', record)
           /\ ContentOf(marker, record) = Plain(record)
           /\ ContentOf(marker', record) = Plain(record)
<1>1. marker \in MarkerFile /\ record \in RecordFile /\ Certain(marker, record)
  BY DEF TypeOK, LoadStep, OpenSucceeds, MarkerFile, RecordFile
<1>2. marker' = Settle(marker, record) /\ cache' = [key |-> HeldKey, marker |-> marker']
  BY DEF LoadStep, OpenSucceeds
<1>3. HeldKey \in Nat \ {0}
  BY DEF TypeOK, LoadStep, OpenSucceeds, HeldKey, State
<1> QED BY <1>1, <1>2, <1>3, LoadSettles DEF State, MarkerFile

\* What the announced write is, from the handle that makes it.
LEMMA AnnounceEffect ==
    ASSUME TypeOK, HandleInv, WritePending
    PROVE  /\ draft' \in Record /\ draft'.key = cache.key
           /\ marker' \in Marker /\ Plausible(marker')
           /\ marker'.pending = [generation |-> draft'.generation, nonce |-> draft'.nonce]
           /\ Kept(marker', record)
           /\ ContentOf(marker, record) = Plain(record)
           /\ ContentOf(marker', record) = Plain(record)
           /\ Settled(marker, record)
<1>1. marker \in MarkerFile /\ record \in RecordFile /\ cache \in State /\ drawn + 1 \in Nat
  BY DEF TypeOK, WritePending, MarkerFile, RecordFile
<1>2. cache.marker = marker /\ Settled(marker, record) /\ ~Exhausted(marker)
  BY DEF HandleInv, WritePending, Goto
<1>3. marker' = Announce(marker, drawn + 1)
  BY <1>2 DEF WritePending
<1>4. PICK v \in Value :
          draft' = [key |-> cache.key, generation |-> Base(marker) + 1,
                    nonce |-> drawn + 1, value |-> v]
  BY <1>2 DEF WritePending
<1>5. cache.key \in Nat \ {0}
  BY <1>1 DEF State
<1>6. Base(marker) + 1 \in Generation \ {0}
  BY <1>1, <1>2, AnnounceKeeps
<1>7. draft' \in Record /\ draft'.key = cache.key
          /\ draft'.generation = Base(marker) + 1 /\ draft'.nonce = drawn + 1
  BY <1>1, <1>4, <1>5, <1>6 DEF Record
<1> QED BY <1>1, <1>2, <1>3, <1>7, AnnounceKeeps, SettledLoads

-----------------------------------------------------------------------------
(* The invariant is inductive                                              *)

\* An empty store satisfies the invariant.
LEMMA InitInv == Init => IInv
<1> SUFFICES ASSUME Init PROVE IInv
  OBVIOUS
<1> USE StoreAssumption DEF Init
<1>1. TypeOK
  BY DEF TypeOK, PC, Kind
<1>2. NeverStuck
  BY DEF NeverStuck, Certain
<1>3. HandleInv /\ WriteInv /\ ResetInv /\ HistoryInv
  BY DEF HandleInv, WriteInv, ResetInv, HistoryInv
<1> QED BY <1>1, <1>2, <1>3 DEF IInv

\* No step writes a marker or a record that is not well formed.
LEMMA FilesTyped ==
    ASSUME TypeOK, HandleInv, WriteInv, [Next]_vars
    PROVE  /\ marker' \in MarkerFile /\ record' \in RecordFile
           /\ draft' \in RecordFile /\ cache' \in State \cup {NoState}
           /\ landed' \subseteq Record
<1>0. marker \in MarkerFile /\ record \in RecordFile /\ draft \in RecordFile
      /\ cache \in State \cup {NoState} /\ landed \subseteq Record
  BY DEF TypeOK, MarkerFile, RecordFile
<1>1. CASE LoadStep
  BY <1>0, <1>1, LoadEffect DEF LoadStep, MarkerFile
<1>2. CASE WritePending
  BY <1>0, <1>2, AnnounceEffect DEF WritePending, MarkerFile, RecordFile
<1>3. CASE WriteRecord
  <2>1. draft \in Record
    BY <1>3 DEF WriteRecord, Goto, WriteInv
  <2> QED BY <1>0, <1>3, <2>1 DEF WriteRecord, MarkerFile, RecordFile, holdVars
<1>4. CASE CommitMarker
  <2>1. Committed(draft.generation) \in Marker /\ cache \in State
    BY <1>0, <1>4, PlainMarkers DEF CommitMarker, Goto, WriteInv
  <2>2. cache' \in State
    BY <1>4, <2>1 DEF CommitMarker, State
  <2> QED BY <1>0, <1>4, <2>1, <2>2 DEF CommitMarker, MarkerFile, RecordFile
<1>5. CASE ResetMarker
  BY <1>0, <1>5, PlainMarkers DEF ResetMarker, MarkerFile, holdVars
<1>6. CASE ResetRemoves
  BY <1>0, <1>6 DEF ResetRemoves, RecordFile, holdVars
<1>7. CASE QuietStep
  <2>1. marker' = marker /\ record' = record /\ landed' = landed
    BY <1>7 DEF QuietStep, fileVars
  <2>2. cache' \in {cache, NoState} /\ draft' \in {draft, NoRecord}
    BY <1>7 DEF QuietStep
  <2> QED BY <1>0, <2>1, <2>2 DEF RecordFile
<1> QED BY <1>1, <1>2, <1>3, <1>4, <1>5, <1>6, <1>7, Steps

\* Keys and nonces are counted upwards.
LEMMA CountersTyped ==
    ASSUME TypeOK, [Next]_vars
    PROVE  key' \in Nat /\ made' \in Nat /\ drawn' \in Nat
<1> USE DEF TypeOK, keyVars
<1>1. CASE CreateKey \/ LoseKey \/ RestoreKey \/ WritePending
  BY <1>1 DEF CreateKey, LoseKey, RestoreKey, WritePending
<1>2. CASE Acquire \/ Release \/ Crash \/ Read \/ ReadFails \/ UpdateOpens
           \/ UpdateStops \/ UpdateKeeps \/ WriteOpens \/ WriteRefused
  BY <1>2 DEF Acquire, Release, Crash, LeaveHold, Read, ReadFails, UpdateOpens,
              UpdateStops, UpdateKeeps, WriteOpens, WriteRefused
<1>3. CASE WriteRecord \/ CommitMarker \/ WriteUncertain \/ CreateKeyRefused
           \/ ResetAsks \/ ResetMarker \/ ResetRemoves \/ ResetFails
  BY <1>3 DEF WriteRecord, CommitMarker, WriteUncertain, CreateKeyRefused,
              ResetAsks, ResetMarker, ResetRemoves, ResetFails
<1>4. CASE UNCHANGED vars
  BY <1>4 DEF vars
<1> QED BY <1>1, <1>2, <1>3, <1>4 DEF Next

\* No step leaves the control points of a hold.
LEMMA ControlTyped ==
    ASSUME TypeOK, [Next]_vars
    PROVE  pc' \in PC /\ ended' \in BOOLEAN
<1> USE DEF TypeOK, PC, Busy, Goto, holdVars
<1>1. CASE Acquire \/ Release \/ Crash \/ LoseKey \/ RestoreKey \/ CreateKey
  BY <1>1 DEF Acquire, Release, Crash, LeaveHold, LoseKey, RestoreKey, CreateKey
<1>2. CASE Read \/ ReadFails \/ UpdateOpens \/ UpdateStops \/ UpdateKeeps
           \/ WriteOpens \/ WriteRefused \/ WritePending
  BY <1>2 DEF Read, ReadFails, UpdateOpens, UpdateStops, UpdateKeeps, WriteOpens,
              WriteRefused, WritePending
<1>3. CASE WriteRecord \/ CommitMarker \/ WriteUncertain \/ CreateKeyRefused
           \/ ResetAsks \/ ResetMarker \/ ResetRemoves \/ ResetFails
  BY <1>3 DEF WriteRecord, CommitMarker, WriteUncertain, CreateKeyRefused,
              ResetAsks, ResetMarker, ResetRemoves, ResetFails
<1>4. CASE UNCHANGED vars
  BY <1>4 DEF vars
<1> QED BY <1>1, <1>2, <1>3, <1>4 DEF Next

\* Every call is answered by one of the kinds.
LEMMA AnswerTyped ==
    ASSUME TypeOK, [Next]_vars
    PROVE  answer' \in [kind: Kind, value: Value \cup {NoValue}]
<1>0. Plain(record) \in Value \cup {NoValue}
  BY DEF TypeOK, Plain, Record
<1>1. CASE \E k \in Kind : Told(k)
  BY <1>1 DEF Told
<1>2. CASE answer' = [kind |-> "read", value |-> Plain(record)]
  BY <1>0, <1>2 DEF Kind
<1>3. CASE answer' = answer
  BY <1>3 DEF TypeOK
<1> USE <1>1, <1>2, <1>3 DEF Kind
<1>4. CASE Acquire \/ Release \/ Crash \/ LoseKey \/ RestoreKey \/ CreateKey
  BY <1>4 DEF Acquire, Release, Crash, LoseKey, RestoreKey, CreateKey
<1>5. CASE Read \/ ReadFails \/ UpdateOpens \/ UpdateStops \/ UpdateKeeps
           \/ WriteOpens \/ WriteRefused \/ WritePending
  BY <1>5 DEF Read, ReadFails, UpdateOpens, UpdateStops, UpdateKeeps, WriteOpens,
              WriteRefused, WritePending, OpenFails
<1>6. CASE WriteRecord \/ CommitMarker \/ WriteUncertain \/ CreateKeyRefused
           \/ ResetAsks \/ ResetMarker \/ ResetRemoves \/ ResetFails
  BY <1>6 DEF WriteRecord, CommitMarker, WriteUncertain, CreateKeyRefused,
              ResetAsks, ResetMarker, ResetRemoves, ResetFails
<1>7. CASE UNCHANGED vars
  BY <1>7 DEF vars
<1> QED BY <1>4, <1>5, <1>6, <1>7 DEF Next

\* No step leaves the types of the store's state.
LEMMA TypeStep ==
    ASSUME TypeOK, HandleInv, WriteInv, [Next]_vars
    PROVE  TypeOK'
BY FilesTyped, CountersTyped, ControlTyped, AnswerTyped
   DEF TypeOK, MarkerFile, RecordFile

\* After every step the files are certain, or a reset was interrupted.
LEMMA StuckStep ==
    ASSUME IInv, [Next]_vars
    PROVE  NeverStuck'
<1> USE DEF IInv
<1>0. marker \in MarkerFile /\ record \in RecordFile
  BY DEF TypeOK, MarkerFile, RecordFile
<1>1. CASE LoadStep
  <2>1. Settled(marker', record) /\ marker' \in MarkerFile /\ record' = record
    BY <1>1, LoadEffect DEF LoadStep
  <2> QED BY <1>0, <2>1, SettledLoads DEF NeverStuck
<1>2. CASE WritePending
  <2>1. marker' \in Marker /\ Plausible(marker') /\ Kept(marker', record)
        /\ record' = record
    BY <1>2, AnnounceEffect DEF WritePending
  <2> QED BY <2>1, StoreAssumption DEF NeverStuck, Certain
<1>3. CASE WriteRecord
  BY <1>3, LandedCommits DEF WriteRecord, Goto, WriteInv, NeverStuck
<1>4. CASE CommitMarker
  <2>1. record \in Record /\ marker' = Committed(record.generation) /\ record' = record
    BY <1>4 DEF CommitMarker, Goto, WriteInv
  <2>2. Settled(marker', record) /\ marker' \in MarkerFile
    BY <2>1, PlainMarkers DEF MarkerFile
  <2> QED BY <1>0, <2>1, <2>2, SettledLoads DEF NeverStuck
<1>5. CASE ResetMarker
  <2>1. marker' = Fresh /\ record' = record
    BY <1>5 DEF ResetMarker
  <2>2. Settled(Fresh, NoRecord) /\ Fresh \in MarkerFile /\ NoRecord \in RecordFile
    BY PlainMarkers DEF MarkerFile, RecordFile
  <2>3. Certain(Fresh, NoRecord)
    BY <2>2, SettledLoads
  <2> QED BY <2>1, <2>3 DEF NeverStuck, ResetInterrupted
<1>6. CASE ResetRemoves
  <2>1. marker' = Fresh /\ record' = NoRecord
    BY <1>6 DEF ResetRemoves, ResetInv, Goto
  <2>2. Settled(Fresh, NoRecord) /\ Fresh \in MarkerFile /\ NoRecord \in RecordFile
    BY PlainMarkers DEF MarkerFile, RecordFile
  <2> QED BY <2>1, <2>2, SettledLoads DEF NeverStuck
<1>7. CASE QuietStep
  BY <1>7 DEF QuietStep, fileVars, NeverStuck, ResetInterrupted
<1> QED BY <1>1, <1>2, <1>3, <1>4, <1>5, <1>6, <1>7, Steps

\* A usable handle keeps remembering the marker on disk.
LEMMA HandleStep ==
    ASSUME IInv, [Next]_vars
    PROVE  HandleInv'
<1> USE DEF IInv, HandleInv, Goto, holdVars
<1>1. CASE LoadStep
  <2>1. Settled(marker', record) /\ record' = record /\ cache'.marker = marker'
        /\ cache' # NoState
    BY <1>1, LoadEffect, StoreAssumption DEF LoadStep
  <2> QED BY <1>1, <2>1 DEF LoadStep
<1>2. CASE WritePending
  BY <1>2 DEF WritePending
<1>3. CASE WriteRecord
  BY <1>3 DEF WriteRecord
<1>4. CASE CommitMarker
  <2>1. record \in Record /\ marker' = Committed(record.generation) /\ record' = record
        /\ cache \in State /\ pc' = "held"
    BY <1>4 DEF CommitMarker, WriteInv, TypeOK
  <2>2. cache'.marker = marker' /\ Settled(marker', record)
    BY <1>4, <2>1, PlainMarkers DEF CommitMarker, State
  <2> QED BY <2>1, <2>2
<1>5. CASE ResetMarker
  BY <1>5 DEF ResetMarker
<1>6. CASE ResetRemoves
  BY <1>6 DEF ResetRemoves
<1>7. CASE QuietStep
  <2>1. marker' = marker /\ record' = record
    BY <1>7 DEF QuietStep, fileVars
  <2> QED BY <1>7, <2>1 DEF QuietStep
<1> QED BY <1>1, <1>2, <1>3, <1>4, <1>5, <1>6, <1>7, Steps

\* Between announcement and commit the marker announces exactly the draft.
LEMMA WriteStep ==
    ASSUME IInv, [Next]_vars
    PROVE  WriteInv'
<1> USE DEF IInv, WriteInv, Goto, holdVars
<1>1. CASE LoadStep
  BY <1>1 DEF LoadStep
<1>2. CASE WritePending
  <2>1. cache' = cache /\ cache # NoState /\ ~ended' /\ pc' = "pending" /\ record' = record
    BY <1>2 DEF WritePending
  <2> QED BY <1>2, <2>1, AnnounceEffect
<1>3. CASE WriteRecord
  BY <1>3 DEF WriteRecord
<1>4. CASE CommitMarker
  BY <1>4 DEF CommitMarker
<1>5. CASE ResetMarker
  BY <1>5 DEF ResetMarker
<1>6. CASE ResetRemoves
  BY <1>6 DEF ResetRemoves
<1>7. CASE QuietStep
  <2>1. marker' = marker /\ record' = record
    BY <1>7 DEF QuietStep, fileVars
  <2> QED BY <1>7, <2>1 DEF QuietStep
<1> QED BY <1>1, <1>2, <1>3, <1>4, <1>5, <1>6, <1>7, Steps

\* A reset that has written its marker has only the removal left.
LEMMA ResetStep ==
    ASSUME IInv, [Next]_vars
    PROVE  ResetInv'
<1> USE DEF IInv, ResetInv, Goto
<1>1. CASE LoadStep \/ WritePending \/ WriteRecord \/ CommitMarker \/ ResetMarker
           \/ ResetRemoves
  BY <1>1 DEF LoadStep, WritePending, WriteRecord, CommitMarker, ResetMarker, ResetRemoves
<1>2. CASE QuietStep
  BY <1>2 DEF QuietStep, fileVars
<1> QED BY <1>1, <1>2, Steps

\* The record in place stays the newest of its epoch.
LEMMA HistoryStep ==
    ASSUME IInv, [Next]_vars
    PROVE  HistoryInv'
<1> USE DEF IInv, HistoryInv, Goto, fileVars
<1>1. CASE LoadStep \/ WritePending \/ CommitMarker \/ QuietStep
  BY <1>1 DEF LoadStep, WritePending, CommitMarker, QuietStep
<1>2. CASE WriteRecord
  <2>0. record' = draft /\ landed' = landed \cup {draft} /\ draft \in Record
        /\ Kept(marker, record) /\ marker \in Marker /\ Plausible(marker)
        /\ marker.pending = [generation |-> draft.generation, nonce |-> draft.nonce]
    BY <1>2 DEF WriteRecord, WriteInv
  <2>1. draft.generation = marker.generation + 1 /\ marker.generation \in Nat
    <3>1. marker.pending # NoWrite
      BY <2>0, StoreAssumption DEF Pending, Record
    <3> QED BY <2>0, <3>1, StoreAssumption DEF Plausible, Marker, Generation
  <2>2. \A r \in landed : r.generation \in Nat /\ r.generation < draft.generation
    <3> TAKE r \in landed
    <3>1. r.generation \in Nat
      BY StoreAssumption DEF TypeOK, Record, Generation
    <3>2. r.generation <= marker.generation
      BY <2>0 DEF Kept
    <3> QED BY <2>1, <3>1, <3>2
  <2>3. draft.generation \in Nat /\ draft # NoRecord
    BY <2>0, <2>1, StoreAssumption
  <2> QED BY <2>0, <2>1, <2>2, <2>3
<1>3. CASE ResetMarker
  BY <1>3 DEF ResetMarker
<1>4. CASE ResetRemoves
  BY <1>4 DEF ResetRemoves, ResetInv
<1> QED BY <1>1, <1>2, <1>3, <1>4, Steps

\* The inductive invariant holds in every behaviour.
THEOREM Inductive == Spec => []IInv
<1>1. IInv /\ [Next]_vars => IInv'
  <2> SUFFICES ASSUME IInv, [Next]_vars PROVE IInv'
    OBVIOUS
  <2>1. TypeOK'
    BY TypeStep DEF IInv
  <2> QED BY <2>1, StuckStep, HandleStep, WriteStep, ResetStep, HistoryStep DEF IInv
<1> QED BY <1>1, InitInv, PTL DEF Spec

-----------------------------------------------------------------------------
(* The theorems                                                            *)

\* The files, the handle and their generations keep their types: a write that
\* has no generation left is refused before anything is announced.
THEOREM TypeCorrect == Spec => []TypeOK
BY Inductive, PTL DEF IInv

\* Whatever crashed or failed, the next load knows which write is committed.
THEOREM LoadsAreCertain == Spec => []NeverStuck
BY Inductive, PTL DEF IInv

\* A usable handle never writes from a stale marker.
THEOREM CacheFollowsDisk == Spec => []CacheIsCurrent
<1>1. IInv => CacheIsCurrent
  BY DEF IInv, HandleInv, CacheIsCurrent
<1> QED BY <1>1, Inductive, PTL

\* An earlier record of this epoch put in place of the current one is refused.
THEOREM RollbacksAreDetected == Spec => []RollbackDetected
<1>1. IInv => RollbackDetected
  <2> SUFFICES ASSUME IInv, NEW r \in landed \ {record}, Certain(marker, r)
               PROVE  Landed(marker, record)
    BY DEF RollbackDetected
  <2>1. record \in Record /\ r \in Record /\ marker \in MarkerFile /\ r # NoRecord
    BY StoreAssumption DEF IInv, TypeOK, HistoryInv, MarkerFile
  <2>2. r.generation \in Nat /\ record.generation \in Nat
        /\ r.generation < record.generation
    BY <2>1, StoreAssumption DEF IInv, HistoryInv, Record, Generation
  <2>3. marker \in Marker /\ Certain(marker, record)
    BY <2>1, FreshHides DEF IInv, NeverStuck, ResetInterrupted, Certain, MarkerFile
  <2>4. marker.generation \in Nat
    BY <2>3, StoreAssumption DEF Marker, Generation
  <2>5. CASE Landed(marker, record)
    BY <2>5
  <2>6. CASE Kept(marker, record)
    <3>1. r.generation < marker.generation
      BY <2>1, <2>2, <2>6, StoreAssumption DEF Kept
    <3>2. ~Kept(marker, r)
      BY <2>1, <2>2, <2>4, <3>1 DEF Kept
    <3>3. ~Landed(marker, r)
      BY <2>2, <2>3, <2>4, <3>1, StoreAssumption DEF Landed, Certain, Plausible
    <3> QED BY <2>3, <3>2, <3>3, StoreAssumption DEF Certain
  <2> QED BY <2>3, <2>5, <2>6, StoreAssumption DEF Certain
<1> QED BY <1>1, Inductive, PTL

-----------------------------------------------------------------------------
(* Refinement                                                              *)

\* The value a load returns changes in three steps only.
LEMMA ContentStep ==
    ASSUME IInv, [Next]_vars
    PROVE  \/ WriteRecord /\ Content' = draft.value
           \/ ResetMarker /\ Content' = NoValue
           \/ Content' = Content /\ ~WriteRecord /\ ~ResetMarker
<1> USE DEF IInv, Goto, Content
<1>0. marker \in MarkerFile /\ record \in RecordFile
  BY DEF TypeOK, MarkerFile, RecordFile
<1>1. CASE WriteRecord
  BY <1>1, LandedCommits DEF WriteRecord, WriteInv
<1>2. CASE ResetMarker
  BY <1>0, <1>2, FreshHides DEF ResetMarker
<1>3. CASE LoadStep
  BY <1>3, LoadEffect DEF LoadStep, WriteRecord, ResetMarker
<1>4. CASE WritePending
  BY <1>4, AnnounceEffect DEF WritePending, WriteRecord, ResetMarker
<1>5. CASE CommitMarker
  <2>1. record = draft /\ marker' = Committed(record.generation) /\ record' = record
        /\ record \in Record /\ marker \in Marker /\ Plausible(marker)
        /\ marker.pending = [generation |-> record.generation, nonce |-> record.nonce]
    BY <1>5 DEF CommitMarker, WriteInv
  <2> QED BY <1>5, <2>1, LandedCommits DEF CommitMarker, WriteRecord, ResetMarker
<1>6. CASE ResetRemoves
  <2>1. marker = Fresh /\ marker' = Fresh /\ record' = NoRecord
    BY <1>6 DEF ResetRemoves, ResetInv
  <2>2. NoRecord \in RecordFile
    BY DEF RecordFile
  <2> QED BY <1>0, <1>6, <2>1, <2>2, FreshHides DEF ResetRemoves, WriteRecord, ResetMarker
<1>7. CASE QuietStep
  <2>1. Content' = Content
    BY <1>7 DEF QuietStep, fileVars
  <2>2. pc \in {"pending", "resetting"} => pc' \notin {"landed", "discarding"}
    BY <1>7 DEF QuietStep
  <2> QED BY <2>1, <2>2 DEF WriteRecord, ResetMarker
<1> QED BY <1>1, <1>2, <1>3, <1>4, <1>5, <1>6, <1>7, Steps

\* A usable handle returns what the store holds.
LEMMA ReadsContent ==
    ASSUME IInv, cache # NoState, ~ended, pc \notin {"pending", "landed"}
    PROVE  Plain(record) = Content
<1>1. marker \in MarkerFile /\ record \in RecordFile /\ Settled(marker, record)
  BY DEF IInv, TypeOK, HandleInv, MarkerFile, RecordFile
<1> QED BY <1>1, SettledLoads DEF Content

\* No value is the draft of a write, so Writing tells whether one is under way.
LEMMA WritingTells ==
    ASSUME IInv
    PROVE  /\ pc \notin {"pending", "landed"} => Writing = NoValue
           /\ pc \in {"pending", "landed"} => Writing = draft.value /\ Writing \in Value
                                            /\ Writing # NoValue
BY StoreAssumption DEF IInv, WriteInv, Writing, Record

\* Every step of the two-file protocol is a step of DurableRecord or a stutter.
LEMMA RefinesStep ==
    ASSUME IInv, IInv', [Next]_vars
    PROVE  [Register!Next]_(Register!vars)
<1> USE DEF Goto, keyVars, Register!Told, Told, Register!Next
<1> DEFINE quiet == pc \notin {"pending", "landed"} /\ pc' \notin {"pending", "landed"}
<1>1. quiet => Writing = NoValue /\ Writing' = NoValue
  BY WritingTells DEF Writing
<1>2. CASE Read \/ UpdateKeeps
  <2>1. key' = key /\ quiet /\ pc' = "held" /\ pc # "resetting"
    BY <1>2 DEF Read, UpdateKeeps
  <2>2. Content' = Content
    BY <1>2, <2>1, ContentStep DEF WriteRecord, ResetMarker
  <2>3. Plain(record) = Content
    <3>1. CASE Read
      BY <3>1, LoadEffect DEF IInv, Read, LoadStep, Content
    <3>2. CASE UpdateKeeps
      BY <3>2, ReadsContent DEF UpdateKeeps, IInv, HandleInv
    <3> QED BY <1>2, <3>1, <3>2
  <2>4. answer' = [kind |-> "read", value |-> Content]
    BY <1>2, <2>3 DEF Read, UpdateKeeps
  <2> QED BY <1>1, <2>1, <2>2, <2>4 DEF Register!Read
<1>3. CASE Acquire \/ ReadFails \/ UpdateOpens \/ UpdateStops \/ WriteOpens
           \/ WriteRefused \/ CreateKeyRefused \/ ResetFails
           \/ (Crash /\ pc \notin {"pending", "landed"})
  <2>1. key' = key /\ quiet /\ pc' # "resetting" /\ pc' # "discarding"
    BY <1>3 DEF Acquire, ReadFails, UpdateOpens, UpdateStops, WriteOpens, WriteRefused,
                CreateKeyRefused, ResetFails, Crash, LeaveHold
  <2>2. Content' = Content
    BY <2>1, ContentStep DEF WriteRecord, ResetMarker
  <2>3. \E k \in Register!Quiet : Told(k)
    BY <1>3 DEF Acquire, ReadFails, UpdateOpens, UpdateStops, WriteOpens, WriteRefused,
                CreateKeyRefused, ResetFails, Crash, OpenFails, Register!Quiet
  <2> QED BY <1>1, <2>1, <2>2, <2>3 DEF Register!Other
<1>4. CASE Release
  <2>1. key' = key /\ answer' = answer /\ quiet /\ pc = "held" /\ pc' = "free"
    BY <1>4 DEF Release, LeaveHold
  <2>2. Content' = Content
    BY <2>1, ContentStep DEF WriteRecord, ResetMarker
  <2> QED BY <1>1, <2>1, <2>2 DEF Register!vars
<1>5. CASE WritePending
  <2>1. key' = key /\ pc \notin {"pending", "landed", "resetting"} /\ pc' = "pending"
    BY <1>5 DEF WritePending
  <2>2. Content' = Content
    BY <2>1, ContentStep DEF WriteRecord, ResetMarker
  <2>3. Writing = NoValue /\ Writing' \in Value
    BY <2>1, WritingTells DEF Writing, IInv, WriteInv, Record
  <2>4. answer' = [kind |-> "none", value |-> NoValue]
    BY <1>5 DEF WritePending
  <2> QED BY <2>1, <2>2, <2>3, <2>4 DEF Register!Start
<1>6. CASE WriteRecord
  <2>1. key' = key /\ answer' = answer /\ draft' = draft /\ pc = "pending" /\ pc' = "landed"
    BY <1>6 DEF WriteRecord, holdVars
  <2>2. Content' = draft.value
    BY <1>6, <2>1, ContentStep DEF ResetMarker
  <2>3. Writing # NoValue /\ Writing' = Writing /\ Writing = draft.value
    BY <2>1, WritingTells DEF Writing
  <2> QED BY <2>1, <2>2, <2>3 DEF Register!TakeEffect
<1>7. CASE CommitMarker \/ WriteUncertain \/ (Crash /\ pc \in {"pending", "landed"})
  <2>1. key' = key /\ pc \in {"pending", "landed"} /\ pc' \in {"held", "free"}
    BY <1>7 DEF CommitMarker, WriteUncertain, Crash, LeaveHold
  <2>2. Content' = Content
    BY <2>1, ContentStep DEF WriteRecord, ResetMarker
  <2>3. Writing # NoValue /\ Writing' = NoValue
    BY <2>1, WritingTells DEF Writing
  <2>4. \/ pc = "landed" /\ answer' = [kind |-> "written", value |-> NoValue]
        \/ answer' = [kind |-> "uncertain", value |-> NoValue]
        \/ answer' = [kind |-> "none", value |-> NoValue]
    BY <1>7 DEF CommitMarker, WriteUncertain, Crash
  <2> QED BY <2>1, <2>2, <2>3, <2>4 DEF Register!Finish
<1>8. CASE ResetAsks
  <2>1. key' = key /\ key = 0 /\ quiet /\ pc = "held" /\ pc' = "resetting"
    BY <1>8 DEF ResetAsks
  <2>2. Content' = Content
    BY <2>1, ContentStep DEF WriteRecord, ResetMarker
  <2>3. answer' = [kind |-> "none", value |-> NoValue]
    BY <1>8 DEF ResetAsks
  <2> QED BY <1>1, <2>1, <2>2, <2>3 DEF Register!Permit
<1>9. CASE ResetMarker
  <2>1. key' = key /\ answer' = answer /\ quiet /\ pc = "resetting" /\ pc' = "discarding"
    BY <1>9 DEF ResetMarker
  <2>2. Content' = NoValue
    BY <1>9, <2>1, ContentStep DEF WriteRecord
  <2> QED BY <1>1, <2>1, <2>2 DEF Register!Discard
<1>10. CASE ResetRemoves
  <2>1. key' = key /\ quiet /\ pc = "discarding" /\ pc' = "held"
    BY <1>10 DEF ResetRemoves
  <2>2. Content' = Content
    BY <2>1, ContentStep DEF WriteRecord, ResetMarker
  <2>3. \E k \in Register!Quiet : Told(k)
    BY <1>10 DEF ResetRemoves, Register!Quiet
  <2> QED BY <1>1, <2>1, <2>2, <2>3 DEF Register!Other
<1>11. CASE CreateKey
  <2>1. key = 0 /\ key' # 0 /\ quiet /\ pc = "held" /\ pc' = "held"
    BY <1>11 DEF CreateKey, IInv, TypeOK
  <2>2. Content' = Content
    BY <2>1, ContentStep DEF WriteRecord, ResetMarker
  <2>3. answer' = [kind |-> "done", value |-> NoValue]
    BY <1>11 DEF CreateKey
  <2> QED BY <1>1, <2>1, <2>2, <2>3 DEF Register!KeyThere
<1>12. CASE LoseKey \/ RestoreKey
  <2>1. (key = 0 /\ key' # 0) \/ (key # 0 /\ key' = 0)
    BY <1>12 DEF LoseKey, RestoreKey, IInv, TypeOK
  <2>2. pc' = pc /\ draft' = draft /\ answer' = answer
    BY <1>12 DEF LoseKey, RestoreKey, holdVars
  <2>3. Content' = Content
    BY <2>2, ContentStep DEF WriteRecord, ResetMarker
  <2>4. Writing' = Writing
    BY <2>2 DEF Writing
  <2> QED BY <2>1, <2>2, <2>3, <2>4 DEF Register!KeyGone, Register!KeyThere
<1>13. CASE UNCHANGED vars
  BY <1>13 DEF vars, fileVars, holdVars, Content, Writing, Register!vars
<1> QED BY <1>2, <1>3, <1>4, <1>5, <1>6, <1>7, <1>8, <1>9, <1>10, <1>11, <1>12, <1>13
        DEF Next

\* The two-file protocol implements one durable value.
THEOREM Implementation == Spec => ImplementsDurableRecord
<1>1. Init => Register!Init
  BY DEF Init, Register!Init, Content, ContentOf, Writing
<1>2. IInv /\ IInv' /\ [Next]_vars => [Register!Next]_(Register!vars)
  BY RefinesStep
<1> QED BY <1>1, <1>2, Inductive, PTL DEF Spec, ImplementsDurableRecord, Register!Spec

-----------------------------------------------------------------------------
(* The process that runs calls with the token of that store (module        *)
(* KronanServer), for any calls, users and approvals                       *)

\* What a call may still send, was given, or is about to say.
RequestInv ==
    \A c \in Request :
        /\ step[c] \in {"none", "queued"} \cup Server!Asking => fate[c] = "unsent"
        /\ step[c] = "none" => kind[c] = "read"
        /\ step[c] = "body" => fate[c] = "applied"
        /\ step[c] = "settle" =>
               /\ Server!IsCharge(c) /\ reply[c] \in {"done", "unconfirmed"}
               /\ reply[c] = "done" => fate[c] = "applied"
        /\ step[c] \in {"order", "record", "pay"} => loaded[c] = owner[c]
        /\ sentAs[c] # NoToken => sentAs[c] = owner[c]

\* A closing server is stopped, and once it closed nothing got past its gate.
ClosedInv ==
    /\ serving # "serving" => stop = TRUE
    /\ serving \in {"closed", "exited"} =>
           \A c \in Request : step[c] \notin Server!Waiting \cup {"order", "record", "pay", "settle"}

ServerInv == Server!TypeOK /\ RequestInv /\ ClosedInv /\ Server!AnswersAreTrue

LEMMA ServerInit == Server!Init => ServerInv
<1> SUFFICES ASSUME Server!Init PROVE ServerInv
  OBVIOUS
<1> USE DEF Server!Init
<1>1. Server!TypeOK
  BY DEF Server!TypeOK, Server!PC, Server!Kind, Server!Fate, Server!Answer
<1>2. RequestInv /\ ClosedInv
  BY DEF RequestInv, ClosedInv
<1>3. Server!AnswersAreTrue
  BY DEF Server!AnswersAreTrue
<1> QED
  BY <1>1, <1>2, <1>3 DEF ServerInv

\* The steps of a call itself, by where they take it.
Asks(c) ==
    \/ Server!Begin(c) \/ Server!Enter(c) \/ Server!GateOpens(c) \/ Server!CheckoutVerified(c)
    \/ Server!OrderVerified(c) \/ Server!Recorded(c) \/ Server!Send(c) \/ Server!Pay(c)
    \/ Server!Accepted(c)
Ends(c) ==
    \/ Server!Reject(c) \/ Server!TokenFails(c) \/ Server!SendStopped(c) \/ Server!RequestFails(c)
    \/ Server!Cleared(c) \/ Server!Refused(c) \/ Server!BodyRead(c) \/ Server!BodyFails(c)
    \/ Server!PlaceRefused(c) \/ Server!PayStopped(c) \/ Server!Settle(c) \/ Server!Deliver(c)
Around ==
    \/ \E t \in User : Server!SetToken(t)
    \/ Server!NeverServes \/ Server!Stuck \/ Server!InputEnds \/ Server!Notified \/ Server!Process
    \/ UNCHANGED Server!vars

LEMMA ServerSteps ==
    [Server!Next]_(Server!vars) <=>
        (\E c \in Request : Asks(c) \/ Ends(c) \/ Server!Decide(c)) \/ Around
  BY DEF Server!Next, Server!Operation, Asks, Ends, Around

\* An operation that ends says what it knows of its request.
LEMMA Ending ==
    ASSUME Server!TypeOK, RequestInv, NEW c \in Request, Ends(c)
    PROVE  \E to \in {"settle", "returned", "delivered"}, r \in Server!Answer :
               /\ step' = [step EXCEPT ![c] = to] /\ reply' = [reply EXCEPT ![c] = r]
               /\ UNCHANGED <<serving, input, stdout, stop, saved, kind, loaded, sentAs, fate>>
               /\ to = "delivered" => step[c] = "returned" /\ r = reply[c]
               /\ to = "settle" =>
                      /\ Server!IsCharge(c) /\ r \in {"done", "unconfirmed"}
                      /\ step[c] \in Server!Waiting \cup {"pay"}
               /\ r = "failed" /\ to = "returned" /\ kind[c] # "read" =>
                      fate[c] \in {"unsent", "rejected"}
               /\ r = "done" /\ to # "delivered" => fate[c] = "applied"
<1> USE DEF Server!serverVars, Server!Return, Server!Over, Server!Goto, Server!Answer
<1>0. /\ reply \in [Request -> Server!Answer] /\ fate[c] \in Server!Fate
      /\ kind[c] \in Server!Kind
      /\ Server!IsCharge(c) => kind[c] \in {"charge", "addition"}
      /\ reply = [reply EXCEPT ![c] = reply[c]]
  BY DEF Server!TypeOK, Server!IsCharge, Server!Charges
<1>1. CASE Server!Reject(c) \/ Server!TokenFails(c) \/ Server!PlaceRefused(c)
  <2>1. fate[c] = "unsent" /\ step[c] \in {"none"} \cup Server!Asking
    BY <1>1 DEF Server!Reject, Server!TokenFails, Server!PlaceRefused, RequestInv, Server!Asking
  <2> QED
    BY <1>1, <2>1 DEF Server!Reject, Server!TokenFails, Server!PlaceRefused
<1>2. CASE Server!SendStopped(c) \/ Server!PayStopped(c)
  BY <1>0, <1>2 DEF Server!SendStopped, Server!PayStopped, Server!SendsNothing, Server!Untold,
     RequestInv, Server!Asking, Server!Waiting
<1>3. CASE Server!RequestFails(c) \/ Server!BodyFails(c) \/ Server!BodyRead(c)
  BY <1>0, <1>3 DEF Server!RequestFails, Server!BodyFails, Server!BodyRead, Server!Untold,
     RequestInv, Server!Waiting
<1>4. CASE Server!Cleared(c)
  BY <1>4 DEF Server!Cleared
<1>5. CASE Server!Refused(c)
  BY <1>0, <1>5 DEF Server!Refused, Server!Waiting
<1>6. CASE Server!Settle(c)
  BY <1>0, <1>6 DEF Server!Settle, RequestInv
<1>7. CASE Server!Deliver(c)
  BY <1>0, <1>7 DEF Server!Deliver
<1> QED
  BY <1>1, <1>2, <1>3, <1>4, <1>5, <1>6, <1>7 DEF Ends

\* While an operation asks, nothing of it is told; it sends as its gate verified.
LEMMA AskStep ==
    ASSUME ServerInv, NEW c \in Request, Asks(c)
    PROVE  ServerInv'
<1> USE DEF Server!Goto, Server!serverVars
<1>0. Server!TypeOK /\ RequestInv /\ ClosedInv /\ Server!AnswersAreTrue
  BY DEF ServerInv
<1>1. UNCHANGED <<serving, input, stdout, stop, saved, reply>>
  BY DEF Asks, Server!Begin, Server!Enter, Server!GateOpens, Server!CheckoutVerified,
     Server!OrderVerified, Server!Recorded, Server!Send, Server!Pay, Server!Accepted
<1>2. Server!TypeOK'
  <2>1. {"queued", "sent", "body"} \cup Server!Asking \subseteq Server!PC
    BY DEF Server!PC, Server!Active, Server!Waiting
  <2> QED
    BY <1>0, <1>1, <2>1 DEF Server!TypeOK, Asks, Server!Begin, Server!Enter, Server!GateOpens,
       Server!CheckoutVerified, Server!OrderVerified, Server!Recorded, Server!Send, Server!Pay,
       Server!PaysAs, Server!Accepted, Server!Asking, Server!Fate
<1>3. RequestInv'
  <2> USE <1>0 DEF RequestInv, Server!TypeOK, Server!Asking, Server!IsCharge
  <2>1. CASE Server!Begin(c) \/ Server!Enter(c) \/ Server!OrderVerified(c) \/ Server!Recorded(c)
    BY <1>1, <2>1 DEF Server!Begin, Server!Enter, Server!OrderVerified, Server!Recorded
  <2>2. CASE Server!GateOpens(c) \/ Server!CheckoutVerified(c) \/ Server!Accepted(c)
    BY <1>1, <2>2 DEF Server!GateOpens, Server!CheckoutVerified, Server!Accepted
  <2>3. CASE Server!Send(c) \/ Server!Pay(c)
    BY <1>1, <2>3 DEF Server!Send, Server!Pay, Server!PaysAs
  <2> QED
    BY <2>1, <2>2, <2>3 DEF Asks
<1>4. ClosedInv'
  <2> USE <1>0 DEF ClosedInv, Server!TypeOK, Server!Waiting
  <2>1. CASE Server!Begin(c) \/ Server!Enter(c) \/ Server!GateOpens(c)
    BY <1>1, <2>1 DEF Server!Begin, Server!Enter, Server!GateOpens
  <2>2. CASE Server!CheckoutVerified(c) \/ Server!OrderVerified(c) \/ Server!Send(c) \/ Server!Pay(c)
    BY <1>1, <2>2 DEF Server!CheckoutVerified, Server!OrderVerified, Server!Send, Server!Pay
  <2>3. CASE Server!Recorded(c) \/ Server!Accepted(c)
    BY <1>1, <2>3 DEF Server!Recorded, Server!Accepted
  <2> QED
    BY <2>1, <2>2, <2>3 DEF Asks
<1>5. Server!AnswersAreTrue'
  <2>1. /\ step'[c] \notin {"returned", "delivered"}
        /\ \A d \in Request \ {c} : step'[d] = step[d] /\ kind'[d] = kind[d] /\ fate'[d] = fate[d]
    BY <1>0 DEF Server!TypeOK, Asks, Server!Begin, Server!Enter, Server!GateOpens,
       Server!CheckoutVerified, Server!OrderVerified, Server!Recorded, Server!Send, Server!Pay,
       Server!Accepted
  <2> QED
    BY <1>0, <1>1, <2>1 DEF Server!AnswersAreTrue
<1> QED
  BY <1>2, <1>3, <1>4, <1>5 DEF ServerInv

\* What ends is told as it is.
LEMMA EndStep ==
    ASSUME ServerInv, NEW c \in Request, Ends(c)
    PROVE  ServerInv'
<1>0. Server!TypeOK /\ RequestInv /\ ClosedInv /\ Server!AnswersAreTrue
  BY DEF ServerInv
<1>1. PICK to \in {"settle", "returned", "delivered"}, r \in Server!Answer :
               /\ step' = [step EXCEPT ![c] = to] /\ reply' = [reply EXCEPT ![c] = r]
               /\ UNCHANGED <<serving, input, stdout, stop, saved, kind, loaded, sentAs, fate>>
               /\ to = "delivered" => step[c] = "returned" /\ r = reply[c]
               /\ to = "settle" =>
                      /\ Server!IsCharge(c) /\ r \in {"done", "unconfirmed"}
                      /\ step[c] \in Server!Waiting \cup {"pay"}
               /\ r = "failed" /\ to = "returned" /\ kind[c] # "read" =>
                      fate[c] \in {"unsent", "rejected"}
               /\ r = "done" /\ to # "delivered" => fate[c] = "applied"
  BY <1>0, Ending
<1>2. Server!TypeOK'
  BY <1>0, <1>1 DEF Server!TypeOK, Server!PC, Server!Active
<1>3. RequestInv'
  BY <1>0, <1>1 DEF RequestInv, Server!TypeOK, Server!IsCharge, Server!Asking
<1>4. ClosedInv'
  BY <1>0, <1>1 DEF ClosedInv, Server!TypeOK, Server!Waiting
<1>5. Server!AnswersAreTrue'
  BY <1>0, <1>1 DEF Server!AnswersAreTrue, Server!TypeOK, Server!Mutating
<1> QED
  BY <1>2, <1>3, <1>4, <1>5 DEF ServerInv

\* Krónan decides of what travels.
LEMMA DecideStep ==
    ASSUME ServerInv, NEW c \in Request, Server!Decide(c)
    PROVE  ServerInv'
<1> USE DEF ServerInv, Server!TypeOK, Server!Decide, Server!serverVars
<1>1. Server!TypeOK' /\ ClosedInv'
  BY DEF Server!Fate, ClosedInv
<1>2. RequestInv' /\ Server!AnswersAreTrue'
  BY DEF RequestInv, Server!AnswersAreTrue, Server!IsCharge
<1> QED
  BY <1>1, <1>2

\* The process closes only while nothing is at work, and stopped.
LEMMA AroundStep ==
    ASSUME ServerInv, Around
    PROVE  ServerInv'
<1> USE DEF ServerInv, Around, Server!vars, Server!serverVars, Server!callVars
<1>1. UNCHANGED <<step, kind, loaded, sentAs, fate, reply>>
  BY DEF Server!SetToken, Server!NeverServes, Server!Stuck, Server!InputEnds, Server!Notified,
     Server!Process, Server!Drained, Server!StopsLate, Server!CloseBegins, Server!Close, Server!Exit
<1>2. Server!TypeOK'
  BY <1>1 DEF Server!TypeOK, Server!SetToken, Server!NeverServes, Server!Stuck, Server!InputEnds,
     Server!Notified, Server!Process, Server!Drained, Server!StopsLate, Server!CloseBegins,
     Server!Close, Server!Exit
<1>3. RequestInv' /\ Server!AnswersAreTrue'
  BY <1>1 DEF RequestInv, Server!AnswersAreTrue, Server!IsCharge
<1>4. ClosedInv'
  BY <1>1 DEF ClosedInv, Server!Active, Server!Asking, Server!Waiting, Server!Idle, Server!SetToken,
     Server!NeverServes, Server!Stuck, Server!InputEnds, Server!Notified, Server!Process,
     Server!Drained, Server!StopsLate, Server!CloseBegins, Server!Close, Server!Exit
<1> QED
  BY <1>2, <1>3, <1>4

\* Every reachable state of the server satisfies its invariant.
THEOREM ServerInductive == Server!Spec => []ServerInv
<1>1. ServerInv /\ [Server!Next]_(Server!vars) => ServerInv'
  BY ServerSteps, AskStep, EndStep, DecideStep, AroundStep
<1> QED
  BY <1>1, ServerInit, PTL DEF Server!Spec

\* For any calls and users, a plain failure of a call that changes something was not
\* carried out and an answer that it was done is true, whatever the host, the
\* network and the process do meanwhile (api.rs, write_as and place).
THEOREM AnswersHold == Server!Spec => []AnswersAreTrue
<1>1. ServerInv => AnswersAreTrue
  BY DEF ServerInv, AnswersAreTrue
<1> QED
  BY <1>1, ServerInductive, PTL

\* A charge leaves only with the token that verified the approved checkout, however
\* often auth set replaces the saved one meanwhile (place).
THEOREM ChargesAsVerified == Server!Spec => []ChargedAsVerified
<1>1. ServerInv => ChargedAsVerified
  BY DEF ServerInv, RequestInv, ChargedAsVerified, Server!ChargedAsVerified
<1> QED
  BY <1>1, ServerInductive, PTL

\* Operations that queued behind close send nothing once it returned (Client::close).
THEOREM ClosedIsQuiet == Server!Spec => []NothingAfterClose
<1>1. ServerInv => NothingAfterClose
  BY DEF ServerInv, ClosedInv, NothingAfterClose, Server!NothingAfterClose
<1> QED
  BY <1>1, ServerInductive, PTL

\* Both, for any calls, failures and moment of close.
THEOREM OpenAndTrue == Server!Spec => []TrueWhileOpen
<1>1. AnswersAreTrue /\ NothingAfterClose => TrueWhileOpen
  BY DEF TrueWhileOpen
<1> QED
  BY <1>1, AnswersHold, ClosedIsQuiet, PTL

-----------------------------------------------------------------------------
(* OrderAttempts, for any calls, tools, tokens and contents.  What each    *)
(* call knows of itself (LocalInv) needs no lock and holds also when       *)
(* holders are displaced.  What it knows of the record needs that one      *)
(* party at a time is inside the lock (LockInv).                           *)

\* What OrderAttempts assumes of its constants.
LEMMA OrderConstants ==
    /\ Consuming \subseteq Tool
    /\ tool \in [Call -> Tool]
    /\ token \in [Call -> Token]
    /\ Unread \notin Contents
    /\ Cli \notin Call /\ Nobody \notin Call /\ Cli # Nobody
  BY OrdersAssumption DEF Orders!CallAssumption


Over == {"leaving", "returned", "crashed"}

\* Where a call can be, given its fingerprint, its outcome and its answer.
LocalInv ==
    \A c \in Call :
        /\ stage[c] \in {"compare", "claim", "confirm", "send"} \cup Orders!After =>
               print[c] # Unread
        /\ stage[c] \in {"idle", "sent"} \cup Orders!Before => outcome[c] = "none"
        /\ stage[c] \in {"reread", "settle"} => outcome[c] # "none"
        /\ told[c] = "refused" => stage[c] \in Over /\ outcome[c] = "none"

Local == Orders!TypeOK /\ LocalInv

\* Whoever is inside the lock is its holder.
LockInv ==
    /\ \A c \in Call : stage[c] \in Orders!Inside => holder = c
    /\ cli \in {"matching", "removing"} => holder = Cli

\* What was read under the lock is still there.
ReadInv ==
    /\ \A c \in Call : stage[c] \in {"gate", "compare", "claim", "settle"} => copy[c] = attempts
    /\ cli = "removing" => shown = attempts

\* An entry carries the fingerprint of its call, and an accepted one its outcome.
EntryInv ==
    /\ \A e \in attempts :
           /\ e.print = print[e.id]
           /\ stage[e.id] \notin {"idle", "reading", "gate", "compare", "claim"}
           /\ e.state = "accepted" => outcome[e.id] = "accepted" /\ stage[e.id] \in Over
    /\ \A c \in old : stage[c] \in Over

\* Nothing but the call's own entry is in its way.
Unopposed(c) ==
    \A e \in attempts : e.id # c /\ token[e.id] = token[c] =>
        /\ e.state = "accepted"
        /\ e.print = print[c] => tool[e.id] # tool[c] /\ tool[e.id] \notin Consuming

\* From the comparison to the request, nothing that blocks the call is recorded.
ClaimInv ==
    \A c \in Call :
        /\ stage[c] \in {"claim", "confirm", "send"} => Unopposed(c)
        /\ stage[c] = "send" => Orders!EntryOf(c, "submitting") \in attempts

\* The history starts with the request.
SentInv ==
    /\ guarded \subseteq Orders!Ids(attempts)
    /\ \A c \in guarded : stage[c] \in Orders!After \cup Over
    /\ \A c \in Call : stage[c] \in {"idle"} \cup Orders!Before => before[c] = {}

OrdersInv ==
    /\ Local
    /\ LockInv
    /\ ReadInv
    /\ EntryInv
    /\ ClaimInv
    /\ SentInv
    /\ Orders!AtMostOnce

-----------------------------------------------------------------------------
(* What holds whoever else is inside the lock                              *)

\* An entry that a call writes is an entry of the record.
LEMMA EntryTyped ==
    ASSUME Orders!TypeOK, NEW c \in Call, print[c] # Unread, NEW s \in Orders!States
    PROVE  Orders!EntryOf(c, s) \in Orders!Entry
  BY DEF Orders!TypeOK, Orders!EntryOf, Orders!Entry

\* A write keeps entries, and drops guarded calls only.
LEMMA WriteTyped ==
    ASSUME Orders!TypeOK, NEW S, S \subseteq Orders!Entry, Orders!Write(S)
    PROVE  attempts' \subseteq Orders!Entry /\ guarded' \subseteq Call
  BY DEF Orders!TypeOK, Orders!Write, Orders!Kept

\* The start is empty.
LEMMA LocalInit == Orders!Init => Local
  BY OrderConstants DEF Orders!Init, Local, Orders!TypeOK, LocalInv, Orders!PC, Orders!Inside,
                        Orders!Before, Orders!After, Over

\* The steps of a call outside the record keep types.
LEMMA CallTyped ==
    ASSUME Local, NEW c \in Call, Orders!Claim(c)
    PROVE  Orders!TypeOK'
<1> USE DEF Local, Orders!Goto, Orders!callVars, Orders!cliVars, Orders!history
<1>0. {"idle", "returned", "crashed", "leaving"} \cup Orders!Before \cup Orders!After \subseteq Orders!PC
  BY DEF Orders!PC, Orders!Inside
<1>1. CASE Orders!Acquire(c) \/ Orders!AcquireFails(c)
  BY <1>0, <1>1 DEF Orders!Acquire, Orders!AcquireFails, Orders!TypeOK, Orders!Before
<1>2. CASE Orders!ReadSnapshot(c) \/ Orders!GatePasses(c) \/ Orders!Compare(c)
  BY <1>0, <1>2 DEF Orders!ReadSnapshot, Orders!GatePasses, Orders!Compare, Orders!TypeOK,
                    Orders!Before
<1>3. CASE Orders!WriteClaim(c)
  <2>1. print[c] # Unread
    BY <1>3 DEF Orders!WriteClaim, LocalInv
  <2>2. copy[c] \cup {Orders!EntryOf(c, "submitting")} \subseteq Orders!Entry
    BY <2>1, EntryTyped DEF Orders!TypeOK, Orders!States
  <2>3. attempts' \subseteq Orders!Entry /\ guarded' \subseteq Call
    BY <1>3, <2>2, WriteTyped DEF Orders!WriteClaim
  <2> QED
    BY <1>0, <1>3, <2>3 DEF Orders!WriteClaim, Orders!TypeOK, Orders!Before
<1>4. CASE Orders!Confirm(c) \/ Orders!Send(c) \/ Orders!SendReturns(c) \/ Orders!Reread(c)
  BY <1>0, <1>4 DEF Orders!Confirm, Orders!Send, Orders!SendReturns, Orders!Reread,
                    Orders!TypeOK, Orders!Before, Orders!After
<1>5. CASE Orders!WriteResult(c)
  <2>1. print[c] # Unread /\ outcome[c] \in {"accepted", "unknown"}
    BY <1>5 DEF Orders!WriteResult, LocalInv, Orders!TypeOK, Orders!After
  <2>2. {e \in copy[c] : e.id # c} \cup {Orders!EntryOf(c, outcome[c])} \subseteq Orders!Entry
    BY <2>1, EntryTyped DEF Orders!TypeOK, Orders!States
  <2>3. attempts' \subseteq Orders!Entry /\ guarded' \subseteq Call
    BY <1>5, <2>2, WriteTyped DEF Orders!WriteResult
  <2> QED
    BY <1>0, <1>5, <2>1, <2>3 DEF Orders!WriteResult, Orders!TypeOK
<1>6. CASE Orders!Refuse(c) \/ Orders!SettleFails(c)
  BY <1>0, <1>6 DEF Orders!Refuse, Orders!SettleFails, Orders!Leave, Orders!TypeOK
<1>7. CASE Orders!Release(c)
  BY <1>0, <1>7 DEF Orders!Release, Orders!TypeOK
<1> QED
  BY <1>1, <1>2, <1>3, <1>4, <1>5, <1>6, <1>7
  DEF Orders!Claim

\* No step leaves the types.
LEMMA OrdersTypeStep == Local /\ [Orders!NextTakenOver]_Orders!vars => Orders!TypeOK'
<1> SUFFICES ASSUME Local, [Orders!NextTakenOver]_Orders!vars PROVE Orders!TypeOK'
  OBVIOUS
<1> USE DEF Local, Orders!callVars, Orders!cliVars, Orders!history
<1>1. ASSUME NEW c \in Call, Orders!Crash(c) \/ Orders!Age(c) PROVE Orders!TypeOK'
  BY <1>1 DEF Orders!Crash, Orders!Age, Orders!TypeOK, Orders!PC
<1>2. CASE Orders!Clear
  BY <1>2 DEF Orders!Clear, Orders!ShowAttempts, Orders!ConfirmClear, Orders!ClearMatches,
              Orders!ClearRemoves, Orders!ClearStops, Orders!CliGoto, Orders!CliRelease,
              Orders!TypeOK
<1>3. CASE Orders!TakeOver
  BY <1>3 DEF Orders!TakeOver, Orders!TypeOK
<1>4. CASE UNCHANGED Orders!vars
  BY <1>4 DEF Orders!vars, Orders!TypeOK
<1> QED
  BY <1>1, <1>2, <1>3, <1>4, CallTyped
  DEF Orders!NextTakenOver, Orders!Next

\* No step makes a call contradict its own fingerprint, outcome or answer.
LEMMA LocalStep == Local /\ [Orders!NextTakenOver]_Orders!vars => LocalInv'
<1> SUFFICES ASSUME Local, [Orders!NextTakenOver]_Orders!vars PROVE LocalInv'
  OBVIOUS
<1> USE DEF Local, Orders!TypeOK, LocalInv, Orders!callVars, Orders!cliVars, Orders!history,
            Orders!Before, Orders!After, Over
<1>1. ASSUME NEW c \in Call, Orders!Acquire(c) \/ Orders!AcquireFails(c) PROVE LocalInv'
  BY <1>1 DEF Orders!Acquire, Orders!AcquireFails, Orders!Goto
<1>2. ASSUME NEW c \in Call, Orders!ReadSnapshot(c) \/ Orders!Compare(c) PROVE LocalInv'
  BY <1>2 DEF Orders!ReadSnapshot, Orders!Compare, Orders!Goto
<1>3. ASSUME NEW c \in Call, Orders!GatePasses(c) PROVE LocalInv'
  BY <1>3, OrderConstants DEF Orders!GatePasses, Orders!Goto
<1>4. ASSUME NEW c \in Call, Orders!WriteClaim(c) \/ Orders!WriteResult(c) PROVE LocalInv'
  BY <1>4 DEF Orders!WriteClaim, Orders!WriteResult, Orders!Goto
<1>5. ASSUME NEW c \in Call, Orders!Confirm(c) \/ Orders!Send(c) PROVE LocalInv'
  BY <1>5 DEF Orders!Confirm, Orders!Send, Orders!Goto
<1>6. ASSUME NEW c \in Call, Orders!SendReturns(c) \/ Orders!Reread(c) PROVE LocalInv'
  BY <1>6 DEF Orders!SendReturns, Orders!Reread, Orders!Goto
<1>7. ASSUME NEW c \in Call, Orders!Refuse(c) PROVE LocalInv'
  BY <1>7 DEF Orders!Refuse, Orders!Leave
<1>8. ASSUME NEW c \in Call, Orders!SettleFails(c) PROVE LocalInv'
  BY <1>8 DEF Orders!SettleFails, Orders!Leave
<1>9. ASSUME NEW c \in Call, Orders!Release(c) PROVE LocalInv'
  BY <1>9 DEF Orders!Release, Orders!Goto
<1>10. ASSUME NEW c \in Call, Orders!Crash(c) PROVE LocalInv'
  BY <1>10 DEF Orders!Crash, Orders!Inside
<1>11. ASSUME NEW c \in Call, Orders!Age(c) PROVE LocalInv'
  BY <1>11 DEF Orders!Age
<1>12. CASE Orders!Clear \/ Orders!TakeOver \/ UNCHANGED Orders!vars
  BY <1>12 DEF Orders!Clear, Orders!ShowAttempts, Orders!ConfirmClear, Orders!ClearMatches,
               Orders!ClearRemoves, Orders!ClearStops, Orders!TakeOver, Orders!vars
<1> QED
  BY <1>1, <1>2, <1>3, <1>4, <1>5, <1>6, <1>7, <1>8, <1>9, <1>10, <1>11, <1>12
  DEF Orders!NextTakenOver, Orders!Next, Orders!Claim

\* What a call knows of itself holds in every behaviour, displaced holders included.
LEMMA LocalInvariant == Orders!SpecTakenOver => []Local
<1>1. Local /\ [Orders!NextTakenOver]_Orders!vars => Local'
  BY OrdersTypeStep, LocalStep DEF Local
<1> QED
  BY <1>1, LocalInit, PTL DEF Orders!SpecTakenOver

\* The record, the calls and the command line keep their types, also when a
\* holder's lock directory is removed.
THEOREM OrdersTypeCorrect == Orders!SpecTakenOver => []Orders!TypeOK
<1>1. Local => Orders!TypeOK
  BY DEF Local
<1> QED
  BY <1>1, LocalInvariant, PTL

\* Also when holders are displaced, a call that is refused has sent nothing: no
\* failure of claim_attempt after the request is answered by a refusal.
THEOREM RefusalsAreHonest == Orders!SpecTakenOver => []Orders!RefusedMeansUnsent
<1>1. Local => Orders!RefusedMeansUnsent
  BY DEF Local, LocalInv, Orders!RefusedMeansUnsent, Orders!Sent, Orders!After, Over
<1> QED
  BY <1>1, LocalInvariant, PTL

-----------------------------------------------------------------------------
(* What holds while nobody interferes with the lock                        *)

\* Two calls are never inside the lock together, nor a call and the clear.
LEMMA Alone ==
    ASSUME LockInv
    PROVE  /\ \A c, d \in Call : stage[c] \in Orders!Inside /\ stage[d] \in Orders!Inside => c = d
           /\ \A c \in Call : stage[c] \in Orders!Inside => cli \notin {"matching", "removing"}
           /\ Orders!LockFree => /\ \A c \in Call : stage[c] \notin Orders!Inside
                          /\ cli \notin {"matching", "removing"}
  BY OrderConstants DEF LockInv, Orders!LockFree, Orders!Inside, Orders!Before, Orders!After

\* Everything starts outside the lock and with an empty record.
LEMMA OrdersInit == Orders!Init => OrdersInv
  BY LocalInit, OrderConstants
  DEF Orders!Init, OrdersInv, LockInv, ReadInv, EntryInv, ClaimInv, SentInv, Orders!AtMostOnce,
      Unopposed, Orders!Inside, Orders!Before, Orders!After, Orders!Ids

\* The steps of a call that leave the record and the history alone.
Quiet(c) ==
    \/ Orders!Acquire(c) \/ Orders!AcquireFails(c) \/ Orders!ReadSnapshot(c)
    \/ Orders!GatePasses(c) \/ Orders!Compare(c)
    \/ Orders!Confirm(c) \/ Orders!Refuse(c) \/ Orders!SendReturns(c) \/ Orders!Reread(c)
    \/ Orders!SettleFails(c)
    \/ Orders!Release(c) \/ Orders!Crash(c)

\* Every step of the undisturbed record is one of these.
LEMMA OrdersSteps ==
    [Orders!Next]_Orders!vars =>
        \/ \E c \in Call : \/ Quiet(c) \/ Orders!WriteClaim(c) \/ Orders!Send(c) \/ Orders!WriteResult(c)
                           \/ Orders!Age(c)
        \/ Orders!Clear \/ UNCHANGED Orders!vars
  BY DEF Orders!Next, Orders!Claim, Quiet

\* Only Acquire and ConfirmClear enter the lock, and both find it free.
LEMMA LockStep == Orders!TypeOK /\ LockInv /\ [Orders!Next]_Orders!vars => LockInv'
<1> SUFFICES ASSUME Orders!TypeOK, LockInv, [Orders!Next]_Orders!vars PROVE LockInv'
  OBVIOUS
<1> USE DEF Orders!callVars, Orders!cliVars, Orders!history
<1>1. ASSUME NEW c \in Call, Orders!Acquire(c) PROVE LockInv'
  BY <1>1, Alone, OrderConstants DEF Orders!Acquire, Orders!Goto, LockInv, Orders!TypeOK
<1>2. ASSUME NEW c \in Call, Orders!Release(c) PROVE LockInv'
  BY <1>2, OrderConstants DEF Orders!Release, Orders!Goto, LockInv, Orders!TypeOK,
                              Orders!Inside, Orders!Before, Orders!After
<1>3. ASSUME NEW c \in Call, Quiet(c), ~Orders!Acquire(c), ~Orders!Release(c) PROVE LockInv'
  BY <1>3 DEF Quiet, Orders!AcquireFails, Orders!ReadSnapshot, Orders!GatePasses,
              Orders!Compare, Orders!Confirm, Orders!Refuse, Orders!SendReturns, Orders!Reread,
              Orders!SettleFails, Orders!Crash, Orders!Leave, Orders!Goto, LockInv,
              Orders!TypeOK, Orders!Inside, Orders!Before, Orders!After
<1>4. ASSUME NEW c \in Call, Orders!WriteClaim(c) \/ Orders!Send(c) \/ Orders!WriteResult(c) \/ Orders!Age(c)
      PROVE  LockInv'
  BY <1>4 DEF Orders!WriteClaim, Orders!Send, Orders!WriteResult, Orders!Age, Orders!Goto,
              LockInv, Orders!TypeOK, Orders!Inside, Orders!Before, Orders!After
<1>5. CASE Orders!Clear
  BY <1>5, Alone, OrderConstants
  DEF Orders!Clear, Orders!ShowAttempts, Orders!ConfirmClear, Orders!ClearMatches,
      Orders!ClearRemoves, Orders!ClearStops, Orders!CliGoto, Orders!CliRelease, LockInv,
      Orders!TypeOK
<1>6. CASE UNCHANGED Orders!vars
  BY <1>6 DEF Orders!vars, LockInv
<1> QED
  BY <1>1, <1>2, <1>3, <1>4, <1>5, <1>6, OrdersSteps

\* Nobody else writes while a reader of the record relies on what it read.
LEMMA ReadStep == Orders!TypeOK /\ LockInv /\ ReadInv /\ [Orders!Next]_Orders!vars => ReadInv'
<1> SUFFICES ASSUME Orders!TypeOK, LockInv, ReadInv, [Orders!Next]_Orders!vars PROVE ReadInv'
  OBVIOUS
<1> USE DEF Orders!callVars, Orders!cliVars, Orders!history
<1>1. ASSUME NEW c \in Call, Quiet(c) PROVE ReadInv'
  BY <1>1 DEF Quiet, Orders!Acquire, Orders!AcquireFails, Orders!ReadSnapshot,
              Orders!GatePasses, Orders!Compare, Orders!Confirm, Orders!Refuse,
              Orders!SendReturns, Orders!Reread, Orders!SettleFails, Orders!Release,
              Orders!Crash, Orders!Leave, Orders!Goto, ReadInv, Orders!TypeOK
<1>2. ASSUME NEW c \in Call, Orders!WriteClaim(c) \/ Orders!WriteResult(c) PROVE ReadInv'
  <2>1. stage[c] \in Orders!Inside /\ UNCHANGED <<cli, shown>>
    BY <1>2 DEF Orders!WriteClaim, Orders!WriteResult, Orders!Goto, Orders!Inside,
                Orders!Before, Orders!After
  <2>2. stage'[c] \in {"confirm", "leaving"} /\ \A d \in Call \ {c} : stage'[d] = stage[d]
    BY <1>2 DEF Orders!WriteClaim, Orders!WriteResult, Orders!Goto, Orders!TypeOK
  <2> QED
    BY <2>1, <2>2, Alone DEF ReadInv, Orders!Inside, Orders!Before, Orders!After
<1>3. ASSUME NEW c \in Call, Orders!Send(c) \/ Orders!Age(c) PROVE ReadInv'
  BY <1>3 DEF Orders!Send, Orders!Age, Orders!Goto, ReadInv, Orders!TypeOK
<1>4. CASE Orders!Clear
  <2>1. CASE Orders!ClearRemoves
    <3>1. \A c \in Call : stage[c] \notin Orders!Inside
      BY <2>1, Alone DEF Orders!ClearRemoves, Orders!CliGoto
    <3> QED
      BY <2>1, <3>1 DEF Orders!ClearRemoves, Orders!CliGoto, ReadInv, Orders!Inside,
                        Orders!Before, Orders!After
  <2>2. CASE Orders!Clear /\ ~Orders!ClearRemoves
    BY <2>2 DEF Orders!Clear, Orders!ShowAttempts, Orders!ConfirmClear, Orders!ClearMatches,
                Orders!ClearStops, Orders!CliGoto, ReadInv
  <2> QED
    BY <1>4, <2>1, <2>2
<1>5. CASE UNCHANGED Orders!vars
  BY <1>5 DEF Orders!vars, ReadInv
<1> QED
  BY <1>1, <1>2, <1>3, <1>4, <1>5, OrdersSteps

\* Entries keep the fingerprint of their call and do not run ahead of it.
LEMMA EntryStep == Local /\ ReadInv /\ EntryInv /\ [Orders!Next]_Orders!vars => EntryInv'
<1> SUFFICES ASSUME Local, ReadInv, EntryInv, [Orders!Next]_Orders!vars PROVE EntryInv'
  OBVIOUS
<1> USE DEF Orders!callVars, Orders!cliVars, Orders!history, Local, Over
<1>0. \A e \in attempts : e.id \in Call
  BY DEF Orders!TypeOK, Orders!Entry
<1>1. ASSUME NEW c \in Call, Quiet(c) PROVE EntryInv'
  <2>1. CASE Orders!Acquire(c) \/ Orders!AcquireFails(c) \/ Orders!ReadSnapshot(c) \/ Orders!GatePasses(c) \/ Orders!Compare(c)
    BY <1>0, <2>1 DEF Orders!Acquire, Orders!AcquireFails, Orders!ReadSnapshot,
                      Orders!GatePasses, Orders!Compare, Orders!Goto, EntryInv, Orders!TypeOK
  <2>2. CASE Orders!Confirm(c) \/ Orders!SendReturns(c) \/ Orders!Reread(c)
    BY <1>0, <2>2 DEF Orders!Confirm, Orders!SendReturns, Orders!Reread, Orders!Goto, EntryInv,
                      Orders!TypeOK
  <2>3. CASE Orders!Refuse(c) \/ Orders!SettleFails(c) \/ Orders!Release(c) \/ Orders!Crash(c)
    BY <1>0, <2>3 DEF Orders!Refuse, Orders!SettleFails, Orders!Release, Orders!Crash,
                      Orders!Leave, Orders!Goto, EntryInv, Orders!TypeOK
  <2> QED
    BY <1>1, <2>1, <2>2, <2>3 DEF Quiet
<1>2. ASSUME NEW c \in Call, Orders!WriteClaim(c) PROVE EntryInv'
  <2>1. attempts' \subseteq attempts \cup {Orders!EntryOf(c, "submitting")}
    BY <1>2 DEF Orders!WriteClaim, Orders!Goto, Orders!Write, Orders!Kept, ReadInv
  <2> QED
    BY <1>0, <1>2, <2>1 DEF Orders!WriteClaim, Orders!Goto, Orders!EntryOf, EntryInv,
                            Orders!TypeOK
<1>3. ASSUME NEW c \in Call, Orders!WriteResult(c) PROVE EntryInv'
  <2>1. attempts' \subseteq {e \in attempts : e.id # c} \cup {Orders!EntryOf(c, outcome[c])}
    BY <1>3 DEF Orders!WriteResult, Orders!Goto, Orders!Write, Orders!Kept, ReadInv
  <2> QED
    BY <1>0, <1>3, <2>1 DEF Orders!WriteResult, Orders!Goto, Orders!EntryOf, EntryInv,
                            Orders!TypeOK
<1>4. ASSUME NEW c \in Call, Orders!Send(c) PROVE EntryInv'
  BY <1>0, <1>4 DEF Orders!Send, Orders!Goto, EntryInv, Orders!TypeOK
<1>5. ASSUME NEW c \in Call, Orders!Age(c) PROVE EntryInv'
  BY <1>0, <1>5 DEF Orders!Age, EntryInv, Orders!TypeOK
<1>6. CASE Orders!Clear
  <2>1. attempts' \subseteq attempts /\ UNCHANGED <<stage, print, outcome, old>>
    BY <1>6 DEF Orders!Clear, Orders!ShowAttempts, Orders!ConfirmClear, Orders!ClearMatches,
                Orders!ClearRemoves, Orders!ClearStops
  <2> QED
    BY <2>1 DEF EntryInv
<1>7. CASE UNCHANGED Orders!vars
  BY <1>7 DEF Orders!vars, EntryInv
<1> QED
  BY <1>1, <1>2, <1>3, <1>4, <1>5, <1>6, <1>7, OrdersSteps

\* The comparison makes sure of the record, and nobody adds to it until the
\* request.
LEMMA ClaimStep == Orders!TypeOK /\ LockInv /\ ReadInv /\ ClaimInv /\ [Orders!Next]_Orders!vars => ClaimInv'
<1> SUFFICES ASSUME Orders!TypeOK, LockInv, ReadInv, ClaimInv, [Orders!Next]_Orders!vars,
                    NEW d \in Call, stage'[d] \in {"claim", "confirm", "send"}
             PROVE  /\ Unopposed(d)'
                    /\ stage'[d] = "send" => Orders!EntryOf(d, "submitting")' \in attempts'
  BY DEF ClaimInv
<1> USE DEF Orders!callVars, Orders!cliVars, Orders!history
<1>1. ASSUME attempts' = attempts, stage'[d] = stage[d], print'[d] = print[d]
      PROVE  Unopposed(d)' /\ (stage'[d] = "send" => Orders!EntryOf(d, "submitting")' \in attempts')
  BY <1>1 DEF ClaimInv, Unopposed, Orders!EntryOf
<1>2. CASE Orders!Compare(d)
  <2>1. ~Orders!Unresolved(attempts, d) /\ ~Orders!Consumed(attempts, d) /\ UNCHANGED <<attempts, print>>
    BY <1>2 DEF Orders!Compare
  <2>2. Unopposed(d)
    BY <2>1 DEF Orders!Unresolved, Orders!Consumed, Unopposed
  <2>3. stage'[d] = "claim"
    BY <1>2 DEF Orders!Compare, Orders!Goto, Orders!TypeOK
  <2> QED
    BY <2>1, <2>2, <2>3 DEF Unopposed
<1>3. CASE Orders!Confirm(d)
  BY <1>3 DEF Orders!Confirm, Orders!Goto, ClaimInv, Unopposed, Orders!EntryOf, Orders!TypeOK
<1>4. CASE Orders!WriteClaim(d)
  <2>1. attempts' \subseteq attempts \cup {Orders!EntryOf(d, "submitting")} /\ UNCHANGED print
    BY <1>4 DEF Orders!WriteClaim, Orders!Goto, Orders!Write, Orders!Kept, ReadInv
  <2>2. Unopposed(d) /\ stage'[d] = "confirm"
    BY <1>4 DEF Orders!WriteClaim, Orders!Goto, ClaimInv, Orders!TypeOK
  <2> QED
    BY <2>1, <2>2 DEF Unopposed, Orders!EntryOf
<1>5. ASSUME NEW c \in Call, c # d, Quiet(c) \/ Orders!Send(c) \/ Orders!Age(c)
      PROVE  attempts' = attempts /\ stage'[d] = stage[d] /\ print'[d] = print[d]
  BY <1>5 DEF Quiet, Orders!Acquire, Orders!AcquireFails, Orders!ReadSnapshot,
              Orders!GatePasses, Orders!Compare, Orders!Confirm, Orders!Refuse,
              Orders!SendReturns, Orders!Reread, Orders!SettleFails, Orders!Release,
              Orders!Crash, Orders!Leave, Orders!Goto, Orders!Send, Orders!Age, Orders!TypeOK
<1>6. ASSUME NEW c \in Call, c # d, Orders!WriteClaim(c) \/ Orders!WriteResult(c) PROVE FALSE
  <2>1. stage[c] \in Orders!Inside /\ stage'[d] = stage[d]
    BY <1>6 DEF Orders!WriteClaim, Orders!WriteResult, Orders!Goto, Orders!Inside,
                Orders!Before, Orders!After, Orders!TypeOK
  <2> QED
    BY <1>6, <2>1, Alone DEF Orders!Inside, Orders!Before
<1>7. CASE Quiet(d) \/ Orders!Send(d) \/ Orders!WriteResult(d) \/ Orders!Age(d)
  <2>1. CASE Orders!Age(d)
    BY <1>1, <2>1 DEF Orders!Age
  <2>2. CASE Quiet(d)
    BY <1>2, <1>3, <2>2 DEF Quiet, Orders!Acquire, Orders!AcquireFails, Orders!ReadSnapshot,
                            Orders!GatePasses, Orders!Refuse, Orders!SendReturns,
                            Orders!Reread, Orders!SettleFails, Orders!Release, Orders!Crash,
                            Orders!Leave, Orders!Goto, Orders!TypeOK
  <2>3. CASE Orders!Send(d) \/ Orders!WriteResult(d)
    BY <2>3 DEF Orders!Send, Orders!WriteResult, Orders!Goto, Orders!TypeOK
  <2> QED
    BY <1>7, <2>1, <2>2, <2>3
<1>8. CASE Orders!Clear
  <2>1. UNCHANGED <<stage, print>>
    BY <1>8 DEF Orders!Clear, Orders!ShowAttempts, Orders!ConfirmClear, Orders!ClearMatches,
                Orders!ClearRemoves, Orders!ClearStops
  <2>2. ~Orders!ClearRemoves
    BY <2>1, Alone DEF Orders!ClearRemoves, Orders!CliGoto, Orders!Inside, Orders!Before
  <2>3. attempts' = attempts
    BY <1>8, <2>2 DEF Orders!Clear, Orders!ShowAttempts, Orders!ConfirmClear,
                      Orders!ClearMatches, Orders!ClearStops
  <2> QED
    BY <1>1, <2>1, <2>3
<1>9. CASE UNCHANGED Orders!vars
  BY <1>1, <1>9 DEF Orders!vars
<1> QED
  BY <1>1, <1>4, <1>5, <1>6, <1>7, <1>8, <1>9, OrdersSteps

\* A write writes every entry that the retention does not drop.
LEMMA WriteHolds ==
    ASSUME NEW S, Orders!Write(S), NEW e \in S, e.state = "accepted" => e.id \notin old
    PROVE  e \in attempts'
  BY DEF Orders!Write, Orders!Kept

\* A write loses no guarded call that is not past the retention.
LEMMA WriteGuards ==
    ASSUME NEW S, Orders!Write(S), guarded \subseteq Orders!Ids(S)
    PROVE  guarded' \subseteq Orders!Ids(attempts') /\ guarded' \subseteq guarded
<1>1. attempts' = Orders!Kept(S) /\ guarded' = guarded \ Orders!Ids(S \ Orders!Kept(S))
  BY DEF Orders!Write
<1>2. ASSUME NEW d \in guarded' PROVE d \in Orders!Ids(Orders!Kept(S))
  <2>1. PICK e \in S : e.id = d
    BY <1>1 DEF Orders!Ids
  <2>2. e \in Orders!Kept(S)
    BY <1>1, <2>1 DEF Orders!Ids
  <2> QED
    BY <2>1, <2>2 DEF Orders!Ids
<1> QED
  BY <1>1, <1>2

\* What was sent is recorded, and only calls that sent have a history.
LEMMA SentStep ==
    Orders!TypeOK /\ ReadInv /\ ClaimInv /\ SentInv /\ [Orders!Next]_Orders!vars => SentInv'
<1> SUFFICES ASSUME Orders!TypeOK, ReadInv, ClaimInv, SentInv, [Orders!Next]_Orders!vars PROVE SentInv'
  OBVIOUS
<1> USE DEF Orders!callVars, Orders!cliVars, Orders!history, Over, Orders!After
<1>1. ASSUME NEW c \in Call, Quiet(c) PROVE SentInv'
  <2>1. UNCHANGED <<attempts, Orders!history>>
    BY <1>1 DEF Quiet, Orders!Acquire, Orders!AcquireFails, Orders!ReadSnapshot,
                Orders!GatePasses, Orders!Compare, Orders!Confirm, Orders!Refuse,
                Orders!SendReturns, Orders!Reread, Orders!SettleFails, Orders!Release,
                Orders!Crash, Orders!Leave
  <2>2. \A d \in Call : /\ stage[d] \in Orders!After \cup Over => stage'[d] \in Orders!After \cup Over
                        /\ stage'[d] \in {"idle"} \cup Orders!Before => stage[d] \in {"idle"} \cup Orders!Before
    BY <1>1 DEF Quiet, Orders!Acquire, Orders!AcquireFails, Orders!ReadSnapshot,
                Orders!GatePasses, Orders!Compare, Orders!Confirm, Orders!Refuse,
                Orders!SendReturns, Orders!Reread, Orders!SettleFails, Orders!Release,
                Orders!Crash, Orders!Leave, Orders!Goto, Orders!TypeOK, Orders!Before,
                Orders!Inside
  <2> QED
    BY <2>1, <2>2 DEF SentInv, Orders!TypeOK
<1>2. ASSUME NEW c \in Call, Orders!WriteClaim(c) PROVE SentInv'
  <2>1. guarded \subseteq Orders!Ids(copy[c] \cup {Orders!EntryOf(c, "submitting")})
    BY <1>2 DEF Orders!WriteClaim, Orders!Goto, ReadInv, SentInv, Orders!Ids
  <2>2. guarded' \subseteq Orders!Ids(attempts') /\ guarded' \subseteq guarded
    BY <1>2, <2>1, WriteGuards DEF Orders!WriteClaim
  <2>3. c \notin guarded
    BY <1>2 DEF Orders!WriteClaim, Orders!Goto, SentInv
  <2>4. stage[c] = "claim" /\ stage' = [stage EXCEPT ![c] = "confirm"] /\ before' = before
    BY <1>2 DEF Orders!WriteClaim, Orders!Goto
  <2> QED
    BY <2>2, <2>3, <2>4 DEF SentInv, Orders!TypeOK, Orders!Before
<1>3. ASSUME NEW c \in Call, Orders!WriteResult(c) PROVE SentInv'
  <2>1. guarded \subseteq Orders!Ids({e \in copy[c] : e.id # c} \cup {Orders!EntryOf(c, outcome[c])})
    <3>1. guarded \subseteq Orders!Ids(copy[c])
      BY <1>3 DEF Orders!WriteResult, Orders!Goto, ReadInv, SentInv
    <3> QED
      BY <3>1 DEF Orders!Ids, Orders!EntryOf
  <2>2. guarded' \subseteq Orders!Ids(attempts') /\ guarded' \subseteq guarded
    BY <1>3, <2>1, WriteGuards DEF Orders!WriteResult
  <2>3. stage' = [stage EXCEPT ![c] = "leaving"] /\ before' = before
    BY <1>3 DEF Orders!WriteResult, Orders!Goto
  <2> QED
    BY <2>2, <2>3 DEF SentInv, Orders!TypeOK, Orders!Before
<1>4. ASSUME NEW c \in Call, Orders!Send(c) PROVE SentInv'
  <2>1. c \in Orders!Ids(attempts)
    <3>1. Orders!EntryOf(c, "submitting") \in attempts
      BY <1>4 DEF Orders!Send, Orders!Goto, ClaimInv
    <3> QED
      BY <3>1 DEF Orders!Ids, Orders!EntryOf
  <2>2. /\ stage' = [stage EXCEPT ![c] = "sent"] /\ attempts' = attempts
        /\ guarded' = guarded \cup {c} /\ before' = [before EXCEPT ![c] = guarded]
    BY <1>4 DEF Orders!Send, Orders!Goto
  <2> QED
    BY <2>1, <2>2 DEF SentInv, Orders!TypeOK, Orders!Before
<1>5. ASSUME NEW c \in Call, Orders!Age(c) PROVE SentInv'
  BY <1>5 DEF Orders!Age, SentInv
<1>6. CASE Orders!Clear
  BY <1>6 DEF Orders!Clear, Orders!ShowAttempts, Orders!ConfirmClear, Orders!ClearMatches,
              Orders!ClearRemoves, Orders!ClearStops, SentInv, Orders!Ids
<1>7. CASE UNCHANGED Orders!vars
  BY <1>7 DEF Orders!vars, SentInv
<1> QED
  BY <1>1, <1>2, <1>3, <1>4, <1>5, <1>6, <1>7, OrdersSteps

\* Only its own gate, answer and request change a call's fingerprint, outcome
\* and history.
LEMMA Frame ==
    ASSUME Orders!TypeOK, [Orders!Next]_Orders!vars, NEW d \in Call
    PROVE  /\ print'[d] = print[d] \/ Orders!GatePasses(d)
           /\ outcome'[d] = outcome[d] \/ Orders!SendReturns(d)
           /\ before'[d] = before[d] \/ Orders!Send(d)
<1> USE DEF Orders!callVars, Orders!cliVars, Orders!history
<1>1. ASSUME NEW c \in Call, Orders!GatePasses(c) \/ Orders!SendReturns(c) \/ Orders!Send(c)
      PROVE  /\ print'[d] = print[d] \/ Orders!GatePasses(d)
             /\ outcome'[d] = outcome[d] \/ Orders!SendReturns(d)
             /\ before'[d] = before[d] \/ Orders!Send(d)
  <2>1. CASE c = d
    BY <1>1, <2>1 DEF Orders!GatePasses, Orders!SendReturns, Orders!Send
  <2>2. CASE c # d
    BY <1>1, <2>2 DEF Orders!GatePasses, Orders!SendReturns, Orders!Send, Orders!TypeOK
  <2> QED
    BY <2>1, <2>2
<1>2. ASSUME NEW c \in Call, Quiet(c), ~Orders!GatePasses(c), ~Orders!SendReturns(c)
      PROVE  UNCHANGED <<print, outcome, before>>
  BY <1>2 DEF Quiet, Orders!Acquire, Orders!AcquireFails, Orders!ReadSnapshot, Orders!Compare,
              Orders!Confirm, Orders!Refuse, Orders!Reread, Orders!SettleFails, Orders!Release,
              Orders!Crash, Orders!Leave
<1>3. ASSUME NEW c \in Call, Orders!WriteClaim(c) \/ Orders!WriteResult(c) \/ Orders!Age(c)
      PROVE  UNCHANGED <<print, outcome, before>>
  BY <1>3 DEF Orders!WriteClaim, Orders!WriteResult, Orders!Age
<1>4. CASE Orders!Clear
  BY <1>4 DEF Orders!Clear, Orders!ShowAttempts, Orders!ConfirmClear, Orders!ClearMatches,
              Orders!ClearRemoves, Orders!ClearStops
<1>5. CASE UNCHANGED Orders!vars
  BY <1>5 DEF Orders!vars
<1> QED
  BY <1>1, <1>2, <1>3, <1>4, <1>5, OrdersSteps

\* A request meets only accepted ones for other contents, and what it met stays.
LEMMA AtMostOnceStep == OrdersInv /\ [Orders!Next]_Orders!vars => Orders!AtMostOnce'
<1> SUFFICES ASSUME OrdersInv, [Orders!Next]_Orders!vars, NEW c \in Call, NEW d \in before'[c],
                    token[d] = token[c]
             PROVE  /\ outcome'[d] = "accepted"
                    /\ print'[d] = print'[c] => tool[d] # tool[c] /\ tool[d] \notin Consuming
  BY DEF Orders!AtMostOnce
<1> USE DEF OrdersInv, Local, Orders!callVars, Orders!cliVars, Orders!history
<1>1. CASE Orders!Send(c)
  <2>1. /\ stage[c] = "send" /\ before'[c] = guarded
        /\ UNCHANGED <<outcome, print>>
    BY <1>1 DEF Orders!Send, Orders!Goto, Orders!TypeOK
  <2>2. d \in Call /\ d # c
    BY <2>1 DEF SentInv, Orders!TypeOK, Orders!After, Over
  <2>3. PICK e \in attempts : e.id = d
    BY <2>1 DEF SentInv, Orders!Ids
  <2>4. e.state = "accepted" /\ (e.print = print[c] => tool[d] # tool[c] /\ tool[d] \notin Consuming)
    BY <2>1, <2>2, <2>3 DEF ClaimInv, Unopposed
  <2>5. e.print = print[d] /\ outcome[d] = "accepted"
    BY <2>3, <2>4 DEF EntryInv
  <2> QED
    BY <2>1, <2>4, <2>5
<1>2. CASE ~Orders!Send(c)
  <2>1. before'[c] = before[c]
    BY <1>2, Frame
  <2>2. /\ d \in Call /\ outcome[d] = "accepted"
        /\ print[d] = print[c] => tool[d] # tool[c] /\ tool[d] \notin Consuming
    BY <2>1 DEF Orders!AtMostOnce, Orders!TypeOK
  <2>3. stage[d] \notin {"gate", "sent"} /\ stage[c] # "gate"
    BY <2>1, <2>2 DEF LocalInv, SentInv, Orders!Before
  <2>4. outcome'[d] = outcome[d]
    BY <2>2, <2>3, Frame DEF Orders!SendReturns, Orders!Goto
  <2>5. print'[d] = print[d] /\ print'[c] = print[c]
    BY <2>2, <2>3, Frame DEF Orders!GatePasses, Orders!Goto
  <2> QED
    BY <2>2, <2>4, <2>5
<1> QED
  BY <1>1, <1>2

\* The inductive invariant holds in every behaviour of the undisturbed record.
THEOREM OrdersInductive == Orders!Spec => []OrdersInv
<1>1. OrdersInv /\ [Orders!Next]_Orders!vars => OrdersInv'
  <2> SUFFICES ASSUME OrdersInv, [Orders!Next]_Orders!vars PROVE OrdersInv'
    OBVIOUS
  <2>1. [Orders!NextTakenOver]_Orders!vars
    BY DEF Orders!NextTakenOver
  <2>2. Local'
    BY <2>1, OrdersTypeStep, LocalStep DEF OrdersInv, Local
  <2>3. LockInv' /\ ReadInv' /\ EntryInv' /\ ClaimInv' /\ SentInv'
    BY LockStep, ReadStep, EntryStep, ClaimStep, SentStep DEF OrdersInv, Local
  <2> QED
    BY <2>2, <2>3, AtMostOnceStep DEF OrdersInv
<1> QED
  BY <1>1, OrdersInit, PTL DEF Orders!Spec

\* Concurrent or repeated calls for one approval send at most one request, for
\* any number of calls, hosts and crashes.
THEOREM OneRequest == Orders!Spec => []AtMostOnce
<1>1. OrdersInv => AtMostOnce
  BY DEF OrdersInv, AtMostOnce
<1> QED
  BY <1>1, OrdersInductive, PTL

\* What was sent stays in the attempts file until it is cleared or retired.
THEOREM NothingForgotten == Orders!Spec => []Orders!SentIsRecorded
<1>1. OrdersInv => Orders!SentIsRecorded
  BY DEF OrdersInv, SentInv, Orders!SentIsRecorded
<1> QED
  BY <1>1, OrdersInductive, PTL

\* The record is emptied only by clear_attempts, and only of what it showed.
THEOREM ClearsAreShown == Orders!Spec => Orders!ClearsOnlyShown
<1>1. OrdersInv /\ [Orders!Next]_Orders!vars => [attempts' = {} => attempts \subseteq shown]_Orders!vars
  <2> SUFFICES ASSUME OrdersInv, [Orders!Next]_Orders!vars, attempts' = {}, attempts # {}
               PROVE  attempts \subseteq shown
    OBVIOUS
  <2> USE DEF OrdersInv, Local, Orders!callVars, Orders!cliVars, Orders!history
  <2>1. ASSUME NEW c \in Call, Orders!WriteClaim(c) PROVE FALSE
    <3>1. Orders!EntryOf(c, "submitting") \in attempts'
      <4>1. Orders!EntryOf(c, "submitting").state = "submitting"
        BY DEF Orders!EntryOf
      <4> QED
        BY <2>1, <4>1, WriteHolds DEF Orders!WriteClaim
    <3> QED
      BY <3>1
  <2>2. ASSUME NEW c \in Call, Orders!WriteResult(c) PROVE FALSE
    <3>1. c \notin old
      BY <2>2 DEF Orders!WriteResult, Orders!Goto, EntryInv, Over
    <3>2. Orders!EntryOf(c, outcome[c]) \in attempts'
      <4>1. Orders!EntryOf(c, outcome[c]).id = c
        BY DEF Orders!EntryOf
      <4> QED
        BY <2>2, <3>1, <4>1, WriteHolds
        DEF Orders!WriteResult
    <3> QED
      BY <3>2
  <2>3. ASSUME NEW c \in Call, Quiet(c) \/ Orders!Send(c) \/ Orders!Age(c) PROVE FALSE
    BY <2>3 DEF Quiet, Orders!Acquire, Orders!AcquireFails, Orders!ReadSnapshot,
                Orders!GatePasses, Orders!Compare, Orders!Confirm, Orders!Refuse,
                Orders!SendReturns, Orders!Reread, Orders!SettleFails, Orders!Release,
                Orders!Crash, Orders!Leave, Orders!Send, Orders!Age
  <2>4. CASE Orders!Clear
    BY <2>4 DEF Orders!Clear, Orders!ShowAttempts, Orders!ConfirmClear, Orders!ClearMatches,
                Orders!ClearRemoves, Orders!ClearStops, Orders!CliGoto, ReadInv
  <2> QED
    BY <2>1, <2>2, <2>3, <2>4, OrdersSteps
    DEF Orders!vars
<1> QED
  BY <1>1, OrdersInductive, PTL DEF Orders!Spec, Orders!ClearsOnlyShown

\* Both, for any calls, tools, checkouts and crashes.
THEOREM AttemptsStay == Orders!Spec => AttemptsAreKept
<1> QED
  BY NothingForgotten, ClearsAreShown, PTL
  DEF AttemptsAreKept, Orders!AttemptsAreKept
=============================================================================
