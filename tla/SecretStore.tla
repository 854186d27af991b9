---------------------------- MODULE SecretStore ----------------------------
(***************************************************************************)
(* The encrypted record of family-store (rust/family-store/src/secret.rs): *)
(* a record file, the marker file that says which generation of it is      *)
(* committed, and the key that seals it.                                   *)
(*                                                                         *)
(* A write is a two-file commit: pending marker, record, read-back, marker *)
(* commit.  Each file is replaced by one rename, which is one action here; *)
(* between two of them the process may crash or a call may fail, and the   *)
(* key file may go missing or come back at any time.  The record's lock    *)
(* excludes other holds (module FileLock), so one hold is modelled, and a  *)
(* crash frees the lock for the next one.  Encryption is the key number in *)
(* the record: it opens under that key only.                               *)
(***************************************************************************)
EXTENDS Naturals

CONSTANTS
    Value,          \* plaintexts
    NoValue,        \* the store holds no record
    MaxGeneration,  \* MAX_INTEGER, the last generation the fields can hold
    MaxKeys,        \* bound on the keys ever created
    MaxWrites,      \* bound on the records ever sealed
    NoMarker,       \* the marker file is missing
    NoRecord,       \* the record file is missing
    NoWrite,        \* a marker without a pending write
    NoState         \* a handle that has loaded nothing yet

VARIABLES
    marker,     \* the marker file
    record,     \* the record file
    key,        \* the key file: the number of a key, or 0 when it is missing
    made,       \* keys ever created
    drawn,      \* nonces ever drawn; each seal draws a fresh one
    pc,         \* where the hold is
    cache,      \* SecretStore.state: the key and the marker of this hold
    ended,      \* SecretStore.ended: a write failed, the handle is unusable
    draft,      \* the sealed record that store() is about to put in place
    answer,     \* how the latest call ended
    landed      \* history: the records put in place since the last reset

fileVars == <<marker, record>>
keyVars  == <<key, made>>
holdVars == <<cache, ended, draft>>
vars     == <<fileVars, keyVars, holdVars, drawn, pc, answer, landed>>

-----------------------------------------------------------------------------
Generation == 0 .. MaxGeneration

Pending == [generation: Generation, nonce: Nat]
Marker  == [migrated: BOOLEAN, generation: Generation, pending: Pending \cup {NoWrite}]
Record  == [key: Nat \ {0}, generation: Generation \ {0}, nonce: Nat, value: Value]
State   == [key: Nat \ {0}, marker: Marker \cup {NoMarker}]

ASSUME StoreAssumption ==
    /\ MaxGeneration \in Nat \ {0} /\ MaxKeys \in Nat /\ MaxWrites \in Nat
    /\ NoValue \notin Value
    /\ NoMarker \notin Marker /\ NoRecord \notin Record
    /\ NoWrite \notin Pending /\ NoState \notin State

Busy == {"writing", "updating", "pending", "landed", "resetting", "discarding"}
PC   == {"free", "held"} \cup Busy

Kind == {"none", "read", "written", "done", "failed", "uncertain", "refused"}

Fresh == [migrated |-> FALSE, generation |-> 0, pending |-> NoWrite]
Committed(g) == [migrated |-> TRUE, generation |-> g, pending |-> NoWrite]

Told(kind) == answer' = [kind |-> kind, value |-> NoValue]

Goto(from, to) == pc \in from /\ pc' = to

Init ==
    /\ marker = NoMarker /\ record = NoRecord
    /\ key = 0 /\ made = 0 /\ drawn = 0
    /\ pc = "free"
    /\ cache = NoState /\ ended = FALSE /\ draft = NoRecord
    /\ answer = [kind |-> "none", value |-> NoValue]
    /\ landed = {}

-----------------------------------------------------------------------------
(* with_secret_store: the hold                                             *)

Acquire ==
    /\ Goto({"free"}, "held")
    /\ Told("none")
    /\ UNCHANGED <<fileVars, keyVars, holdVars, drawn, landed>>

\* The handle is gone with the hold: the lock is freed, the key wiped.
LeaveHold ==
    /\ pc' = "free"
    /\ cache' = NoState
    /\ ended' = FALSE
    /\ draft' = NoRecord
    /\ UNCHANGED <<fileVars, keyVars, drawn, landed>>

Release == pc = "held" /\ LeaveHold /\ UNCHANGED answer

\* The process dies between two renames; a temporary is never read.
Crash == pc # "free" /\ LeaveHold /\ Told("none")

-----------------------------------------------------------------------------
(* load: what the two files say                                            *)

\* A record at the announced generation and nonce is the interrupted write.
Landed(m, r) ==
    /\ m.pending # NoWrite /\ r # NoRecord
    /\ r.generation = m.pending.generation /\ r.nonce = m.pending.nonce

\* Mutant: any record that is not ahead of the marker is taken for the committed one.
Kept_AnyOlder(m, r) ==
    IF r = NoRecord THEN m.generation = 0 ELSE r.generation <= m.generation

\* The record is still the committed one, or still absent before a first write.
Kept(m, r) == IF r = NoRecord THEN m.generation = 0 ELSE r.generation = m.generation

Plausible(m) ==
    /\ m.migrated = (m.generation > 0)
    /\ m.pending # NoWrite => m.pending.generation = m.generation + 1

\* Anything else is STORE_WRITE_UNCERTAIN.
Certain(m, r) ==
    IF m = NoMarker THEN r = NoRecord
                    ELSE Plausible(m) /\ (Landed(m, r) \/ Kept(m, r))

\* Mutant: the interrupted write is recovered without moving the generation.
Settle_OldGeneration(m, r) ==
    IF m = NoMarker THEN m ELSE [m EXCEPT !.pending = NoWrite]

\* The marker load leaves behind: the interrupted write committed, or dropped.
Settle(m, r) ==
    IF m = NoMarker THEN m
    ELSE IF Landed(m, r) THEN Committed(r.generation)
    ELSE [m EXCEPT !.pending = NoWrite]

\* open_record authenticates the record with the key.
Opens(r, k) == r # NoRecord => r.key = k

Plain(r) == IF r = NoRecord THEN NoValue ELSE r.value

HeldKey == IF cache = NoState THEN key ELSE cache.key

\* open: the key, both files, and the marker write of a recovery.
OpenSucceeds ==
    /\ HeldKey # 0
    /\ Opens(record, HeldKey)
    /\ Certain(marker, record)
    /\ marker' = Settle(marker, record)
    /\ cache' = [key |-> HeldKey, marker |-> Settle(marker, record)]

\* A missing key, a record of another key, files that disagree, or an
\* input/output error anywhere in open: no file is changed.
OpenFails ==
    /\ \/ Told("failed")
       \/ /\ HeldKey # 0 /\ Opens(record, HeldKey) /\ ~Certain(marker, record)
          /\ Told("uncertain")
    /\ UNCHANGED <<fileVars, cache>>

Read ==
    /\ ~ended
    /\ Goto({"held"}, "held")
    /\ OpenSucceeds
    /\ answer' = [kind |-> "read", value |-> Plain(record)]
    /\ UNCHANGED <<record, keyVars, ended, draft, drawn, landed>>

ReadFails ==
    /\ ~ended
    /\ Goto({"held"}, "held")
    /\ OpenFails
    /\ UNCHANGED <<keyVars, ended, draft, drawn, landed>>

-----------------------------------------------------------------------------
(* update and write                                                        *)

Exhausted(m) == m # NoMarker /\ m.generation >= MaxGeneration

\* update opens first; its failure leaves the handle usable, as ReadFails does.
UpdateOpens ==
    /\ ~ended
    /\ Goto({"held"}, "updating")
    /\ OpenSucceeds
    /\ Told("none")
    /\ UNCHANGED <<record, keyVars, ended, draft, drawn, landed>>

\* No generation left, a cancellation, or an error of the update itself.
UpdateStops ==
    /\ Goto({"updating"}, "held")
    /\ Told("failed")
    /\ UNCHANGED <<fileVars, keyVars, holdVars, drawn, landed>>

\* The update answers None: the current plaintext is returned unchanged.
UpdateKeeps ==
    /\ Goto({"updating"}, "held")
    /\ ~Exhausted(cache.marker)
    /\ answer' = [kind |-> "read", value |-> Plain(record)]
    /\ UNCHANGED <<fileVars, keyVars, holdVars, drawn, landed>>

\* write loads only in a hold that has not loaded yet.
WriteOpens ==
    /\ ~ended /\ cache = NoState
    /\ Goto({"held"}, "writing")
    /\ OpenSucceeds
    /\ Told("none")
    /\ UNCHANGED <<record, keyVars, ended, draft, drawn, landed>>

\* A write refused before a file changed ends the handle: the open failed, no
\* generation is left, the plaintext is too large, or the marker write failed.
WriteRefused ==
    /\ ~ended
    /\ Goto({"held", "writing", "updating"}, "held")
    /\ OpenFails
    /\ ended' = TRUE
    /\ UNCHANGED <<keyVars, draft, drawn, landed>>

Base(m) == IF m = NoMarker THEN 0 ELSE m.generation

\* The marker that announces the next generation after m.
Announce(m, n) ==
    [migrated |-> m # NoMarker /\ m.migrated, generation |-> Base(m),
     pending |-> [generation |-> Base(m) + 1, nonce |-> n]]

\* store: seal the next generation under the held key and announce it in the
\* marker, from the marker as this hold last read or wrote it.
WritePending ==
    /\ ~ended /\ cache # NoState /\ drawn < MaxWrites
    /\ ~Exhausted(cache.marker)
    /\ Goto({"held", "writing", "updating"}, "pending")
    /\ \E v \in Value :
           draft' = [key |-> cache.key, generation |-> Base(cache.marker) + 1,
                     nonce |-> drawn + 1, value |-> v]
    /\ marker' = Announce(cache.marker, drawn + 1)
    /\ drawn' = drawn + 1
    /\ Told("none")
    /\ UNCHANGED <<record, keyVars, cache, ended, landed>>

WriteRecord ==
    /\ Goto({"pending"}, "landed")
    /\ record' = draft
    /\ landed' = landed \cup {draft}
    /\ UNCHANGED <<marker, keyVars, holdVars, drawn, answer>>

\* The authenticated read-back is the draft: the marker commits it.
CommitMarker ==
    /\ Goto({"landed"}, "held")
    /\ record = draft /\ Opens(record, cache.key)
    /\ marker' = Committed(draft.generation)
    /\ cache' = [cache EXCEPT !.marker = Committed(draft.generation)]
    /\ draft' = NoRecord
    /\ Told("written")
    /\ UNCHANGED <<record, keyVars, ended, drawn, landed>>

\* Mutant: any failure of store() keeps the handle usable.
WriteUncertain_KeepsHandle ==
    /\ Goto({"pending", "landed"}, "held")
    /\ draft' = NoRecord
    /\ Told("uncertain")
    /\ UNCHANGED <<fileVars, keyVars, cache, ended, drawn, landed>>

\* Any failure after the pending marker is STORE_WRITE_UNCERTAIN.
WriteUncertain ==
    /\ Goto({"pending", "landed"}, "held")
    /\ draft' = NoRecord
    /\ ended' = TRUE
    /\ Told("uncertain")
    /\ UNCHANGED <<fileVars, keyVars, cache, drawn, landed>>

-----------------------------------------------------------------------------
(* create_key and reset                                                    *)

\* What create_key accepts before it asks the key provider, which itself never
\* replaces a key that is there.
NotSetUp ==
    /\ record = NoRecord
    /\ marker # NoMarker => marker.generation = 0 /\ marker.pending = NoWrite

CreateKey ==
    /\ ~ended /\ NotSetUp
    /\ key = 0 /\ made < MaxKeys
    /\ Goto({"held"}, "held")
    /\ made' = made + 1
    /\ key' = made + 1
    /\ cache' = NoState
    /\ Told("done")
    /\ UNCHANGED <<fileVars, ended, draft, drawn, landed>>

\* Set up already, or the provider failed: only the loaded state is forgotten.
CreateKeyRefused ==
    /\ ~ended
    /\ Goto({"held"}, "held")
    /\ cache' = NoState
    /\ Told("refused")
    /\ UNCHANGED <<fileVars, keyVars, ended, draft, drawn, landed>>

\* reset: only while the key is conclusively missing ...
ResetAsks ==
    /\ ~ended /\ key = 0
    /\ Goto({"held"}, "resetting")
    /\ cache' = NoState
    /\ Told("none")
    /\ UNCHANGED <<fileVars, keyVars, ended, draft, drawn, landed>>

\* ... a fresh marker is committed first ...
ResetMarker ==
    /\ Goto({"resetting"}, "discarding")
    /\ marker' = Fresh
    /\ landed' = {}
    /\ UNCHANGED <<record, keyVars, holdVars, drawn, answer>>

\* ... and then the record goes.
ResetRemoves ==
    /\ Goto({"discarding"}, "held")
    /\ record' = NoRecord
    /\ Told("done")
    /\ UNCHANGED <<marker, keyVars, holdVars, drawn, landed>>

\* The key is there, or one of the file operations failed.
ResetFails ==
    /\ ~ended
    /\ Goto({"held", "resetting", "discarding"}, "held")
    /\ cache' = NoState
    /\ Told("refused")
    /\ UNCHANGED <<fileVars, keyVars, ended, draft, drawn, landed>>

-----------------------------------------------------------------------------
(* The key file in other hands                                             *)

LoseKey ==
    /\ key # 0
    /\ key' = 0
    /\ UNCHANGED <<fileVars, made, holdVars, drawn, pc, answer, landed>>

\* Somebody restores the file of a key that was created here.
RestoreKey ==
    /\ key = 0
    /\ key' \in 1 .. made
    /\ UNCHANGED <<fileVars, made, holdVars, drawn, pc, answer, landed>>

Next ==
    \/ Acquire \/ Release \/ Crash
    \/ Read \/ ReadFails
    \/ UpdateOpens \/ UpdateStops \/ UpdateKeeps
    \/ WriteOpens \/ WriteRefused \/ WritePending \/ WriteRecord
    \/ CommitMarker \/ WriteUncertain
    \/ CreateKey \/ CreateKeyRefused
    \/ ResetAsks \/ ResetMarker \/ ResetRemoves \/ ResetFails
    \/ LoseKey \/ RestoreKey

Spec == Init /\ [][Next]_vars

-----------------------------------------------------------------------------
(* Properties                                                              *)

\* The type invariant.  Its generations fit the fields of the two files: a
\* write that has none left is refused before anything is announced.
TypeOK ==
    /\ marker \in Marker \cup {NoMarker}
    /\ record \in Record \cup {NoRecord}
    /\ key \in Nat /\ made \in Nat /\ drawn \in Nat
    /\ pc \in PC
    /\ cache \in State \cup {NoState}
    /\ ended \in BOOLEAN
    /\ draft \in Record \cup {NoRecord}
    /\ answer \in [kind: Kind, value: Value \cup {NoValue}]
    /\ landed \subseteq Record

\* The marker a usable handle writes from is the one on disk, whatever failed,
\* was recovered, set up or reset earlier in the hold: it never commits a
\* generation from a stale marker.
CacheIsCurrent ==
    cache # NoState /\ ~ended /\ pc \notin {"pending", "landed"} =>
        cache.marker = marker

\* A reset that stopped between its two steps.
ResetInterrupted == marker = Fresh /\ record # NoRecord

\* Whatever crashed or failed, the next load is certain: STORE_WRITE_UNCERTAIN
\* never becomes the lasting state of a store that nobody else writes to.  The
\* one exception is a reset that stopped before it removed the record.
NeverStuck == Certain(marker, record) \/ ResetInterrupted

\* An earlier record put back in place of the current one (a restored backup)
\* is never taken for the current one, unless the record it replaces is an
\* interrupted write that nobody was told about.
RollbackDetected ==
    \A r \in landed \ {record} :
        Certain(marker, r) => Landed(marker, record)

-----------------------------------------------------------------------------
(* What the store implements                                               *)

\* What the next load with the right key returns.
ContentOf(m, r) ==
    IF m # NoMarker /\ r # NoRecord /\ (Landed(m, r) \/ Kept(m, r))
    THEN r.value
    ELSE NoValue

Content == ContentOf(marker, record)

Writing == IF pc \in {"pending", "landed"} THEN draft.value ELSE NoValue

Register == INSTANCE DurableRecord
            WITH value <- Content, writing <- Writing, stored <- (pc = "landed"),
                 lost <- (key = 0), permitted <- (pc = "resetting")

\* The two-file protocol implements a single durable value: a write takes
\* effect at the rename of its record, whole or not at all, recovery after a
\* crash changes no value, every read and every update returns the latest one,
\* and only a reset that found the key missing gives it up.
ImplementsDurableRecord == Register!Spec

=============================================================================
