---------------------------- MODULE AblerSession ----------------------------
(***************************************************************************)
(* The saved session of abler-mcp (rust/abler-mcp/src/auth.rs) and the     *)
(* requests that rotate it (api.rs).                                       *)
(*                                                                         *)
(* Servers (Client) take the store's lock for a whole operation.  The      *)
(* commands login, migrate, retry-candidate and logout (Admin) take the    *)
(* lock of the plaintext file first, whose path the environment gives, and *)
(* the store's lock inside it; login and retry let go of the store while   *)
(* they verify the candidate as a client would.                            *)
(*                                                                         *)
(* A jar is the login that made it and its refresh token's rotation.  Of   *)
(* the upstream only what it does to refresh tokens is kept: it accepts    *)
(* the latest rotation of a login and may replace it.  The store is the    *)
(* record of module SecretStore, by what a load finds.                     *)
(***************************************************************************)
EXTENDS Naturals, FiniteSets

CONSTANTS
    Client,      \* servers that use the current session
    Admin,       \* auth commands; a login's jar carries its command's name
    Path,        \* values of ABLER_SESSION_FILE
    Retained,    \* the login of .pending candidates that old versions kept
    None,        \* no jar, no id
    Nobody,      \* a free lock
    MaxRotation  \* bound: rotations the upstream makes in all

VARIABLES
    store,      \* what a load of the record finds
    key,        \* the store's key file exists
    plain,      \* the plaintext session file at each path
    pending,    \* the newest candidate an old version left beside it
    fileLock,   \* the owner of each plaintext file's lock
    storeLock,  \* the owner of the store's lock
    pc,         \* where each process is
    op,         \* the command an Admin runs
    path,       \* a process's ABLER_SESSION_FILE
    jar,        \* the jar of a held session
    target,     \* the candidate's id a command is to promote
    consumed,   \* upstream: the tokens it has replaced by the next rotation
    spent,      \* history: tokens whose rotation a holder of the store recorded
    reoffered,  \* history: spent tokens sent again from the store
    verified,   \* history: logins whose candidate passed verification
    out         \* history: paths whose last command was a completed logout

held    == <<jar, target>>
disk    == <<store, key, plain, pending>>
locks   == <<fileLock, storeLock>>
history == <<spent, reoffered, verified, out>>
vars    == <<disk, locks, pc, op, path, held, consumed, history>>

-----------------------------------------------------------------------------
Process == Client \cup Admin
Login   == Admin \cup Path \cup {Retained}
Jar     == [login: Login, n: 0..MaxRotation]
Slot    == Jar \cup {None}

ASSUME AblerAssumption ==
    /\ MaxRotation \in Nat
    /\ Client \cap Admin = {} /\ Nobody \notin Process
    /\ (Admin \cup {Retained}) \cap Path = {} /\ Retained \notin Admin
    /\ None \notin Admin \cup Jar

\* Absent: neither marker nor record, so the plaintext file counts.  Fresh: a
\* marker without a first record.  Lost: a marker whose record was removed.
Absent == [state |-> "absent", current |-> None, candidate |-> None, id |-> None]
Fresh  == [Absent EXCEPT !.state = "fresh"]
Lost   == [Absent EXCEPT !.state = "lost"]
Saved(current, candidate, id) ==
    [state |-> "saved", current |-> current, candidate |-> candidate, id |-> id]
Decides  == store.state # "absent"
Readable == key /\ store.state \in {"fresh", "saved"}

\* A write that fails: the next load finds the old record or the new one, and
\* of an interrupted first write no record.
Torn(new) == {store, new} \cup (IF Decides THEN {} ELSE {Fresh})

\* At these the store's lock is held, by a session or by a command.
InSession == {"open", "rotated", "save", "lose", "renewed", "close", "passed"}
InChange  == {"change", "commit", "clean", "cleanRest", "release"}
Command   == {"login", "migrate", "retry", "logout"}
PC == InSession \cup InChange
        \cup {"idle", "begin", "verify", "promote", "leave", "done", "crashed"}

Free(owner) == owner \in Process => pc[owner] = "crashed"

Init ==
    /\ store = Absent
    /\ key \in BOOLEAN
    /\ plain \in {f \in [Path -> Slot] :
            \A p \in Path : f[p] \in {None, [login |-> p, n |-> 0]}}
    /\ pending \in {f \in [Path -> Slot] :
            \A p \in Path : f[p] \in {None, [login |-> Retained, n |-> 0]}}
    /\ fileLock = [p \in Path |-> Nobody]
    /\ storeLock = Nobody
    /\ pc = [p \in Process |-> "idle"]
    /\ op = [a \in Admin |-> "none"]
    /\ path \in [Process -> Path]
    /\ jar = [p \in Process |-> None]
    /\ target = [a \in Admin |-> None]
    /\ consumed = {}
    /\ spent = {} /\ reoffered = {} /\ verified = {} /\ out = {}

Goto(p, from, to) == pc[p] \in from /\ pc' = [pc EXCEPT ![p] = to]

-----------------------------------------------------------------------------
(* A held session: Client::session, post, refresh, query                   *)

\* Only the verification of a candidate uses the candidate's slot.
OfSlot(p, record) == IF p \in Client THEN record.current ELSE record.candidate

SavedJar(p) ==
    IF store.state = "absent"
    THEN IF p \in Client THEN plain[path[p]] ELSE None
    ELSE OfSlot(p, store)

\* with_session: the lock, and the jar it finds.
Open(p) ==
    /\ Goto(p, IF p \in Client THEN {"idle"} ELSE {"verify"}, "open")
    /\ Free(storeLock) /\ storeLock' = p
    /\ Decides => Readable
    /\ SavedJar(p) # None
    /\ jar' = [jar EXCEPT ![p] = SavedJar(p)]
    /\ UNCHANGED <<disk, fileLock, op, path, target, consumed, history>>

\* No session, a store that cannot be read, a lock that cannot be taken.
VerifyFails(a) ==
    /\ Goto(a, {"verify"}, "leave")
    /\ UNCHANGED <<disk, locks, op, path, held, consumed, history>>

\* refresh sends the jar.  The upstream may replace the token, and may
\* give a new access cookie without rotating.
Refresh(p) ==
    /\ Goto(p, {"open", "renewed"}, "rotated")
    /\ jar[p] \notin consumed
    /\ \/ consumed' = consumed
       \/ Cardinality(consumed) < MaxRotation /\ consumed' = consumed \cup {jar[p]}
    /\ reoffered' = IF Decides THEN reoffered \cup ({jar[p]} \cap spent) ELSE reoffered
    /\ UNCHANGED <<disk, locks, op, path, held, spent, verified, out>>

\* The refresh is refused, or the request fails before the upstream takes it.
RefreshFails(p) ==
    /\ Goto(p, {"open", "renewed"}, "close")
    /\ reoffered' = IF Decides THEN reoffered \cup ({jar[p]} \cap spent) ELSE reoffered
    /\ UNCHANGED <<disk, locks, op, path, held, consumed, spent, verified, out>>

\* The answer's cookies are set in the jar.
TakeRotation(p) ==
    /\ Goto(p, {"rotated"}, "save")
    /\ jar' = [jar EXCEPT ![p].n = IF jar[p] \in consumed THEN @ + 1 ELSE @]
    /\ UNCHANGED <<disk, locks, op, path, target, consumed, history>>

\* The answer is lost, or the jar refuses one of its cookies.
AnswerLost(p) ==
    /\ Goto(p, {"rotated"}, "close")
    /\ UNCHANGED <<disk, locks, op, path, held, consumed, history>>

\* A response head too large to read: the rotation is unknown.  The plaintext
\* file keeps its session.
HeadTooLarge(p) ==
    /\ Goto(p, {"rotated"}, IF Decides THEN "lose" ELSE "close")
    /\ UNCHANGED <<disk, locks, op, path, held, consumed, history>>

WithSlot(p, record, new) ==
    IF p \in Admin /\ record.candidate # None
    THEN [record EXCEPT !.candidate = new]
    ELSE [record EXCEPT !.current = new]

Before(new) == {t \in Jar : t.login = new.login /\ t.n < new.n}

\* Session::save, before any further request.
SaveRotation(p) ==
    /\ Goto(p, {"save"}, "renewed")
    /\ IF Decides
       THEN /\ store' = WithSlot(p, store, jar[p])
            /\ spent' = spent \cup Before(jar[p])
            /\ UNCHANGED plain
       ELSE /\ plain' = [plain EXCEPT ![path[p]] = jar[p]]
            /\ UNCHANGED <<store, spent>>
    /\ UNCHANGED <<key, pending, locks, op, path, held, consumed, reoffered, verified, out>>

SaveFails(p) ==
    /\ Goto(p, {"save"}, IF Decides THEN "lose" ELSE "close")
    /\ IF Decides THEN store' \in Torn(WithSlot(p, store, jar[p])) ELSE UNCHANGED store
    /\ UNCHANGED <<key, plain, pending, locks, op, path, held, consumed, history>>

\* Mutant: a record that could not take the rotation stays.
Lose_Keeps(p) ==
    /\ Goto(p, {"lose"}, "close")
    /\ spent' = spent \cup Before(jar[p])
    /\ UNCHANGED <<disk, locks, op, path, held, consumed, reoffered, verified, out>>

\* lost: the record is removed, so that it never offers the consumed token.
Lose(p) ==
    /\ Goto(p, {"lose"}, "close")
    /\ store' = Lost
    /\ spent' = spent \cup Before(jar[p])
    /\ UNCHANGED <<key, plain, pending, locks, op, path, held, consumed, reoffered,
                   verified, out>>

\* The removal fails too; its error is ignored.
LoseFails(p) ==
    /\ Goto(p, {"lose"}, "close")
    /\ UNCHANGED <<disk, locks, op, path, held, consumed, history>>

\* The authenticated request succeeds; a verification forces a refresh first.
Query(p) ==
    /\ Goto(p, IF p \in Client THEN {"open", "renewed"} ELSE {"renewed"},
            IF p \in Client THEN "close" ELSE "passed")
    /\ verified' = IF p \in Admin THEN verified \cup {jar[p].login} ELSE verified
    /\ UNCHANGED <<disk, locks, op, path, held, consumed, spent, reoffered, out>>

\* The end of the hold.
Close(p) ==
    /\ pc[p] \in {"close", "passed"}
    /\ pc' = [pc EXCEPT ![p] = IF p \in Client THEN "idle"
                               ELSE IF pc[p] = "passed" THEN "promote" ELSE "leave"]
    /\ storeLock' = Nobody
    /\ jar' = [jar EXCEPT ![p] = None]
    /\ UNCHANGED <<disk, fileLock, op, path, target, consumed, history>>

-----------------------------------------------------------------------------
(* The commands: administer, with holds of the store inside it             *)

Begin(a) ==
    /\ Goto(a, {"idle"}, "begin")
    /\ Free(fileLock[path[a]])
    /\ fileLock' = [fileLock EXCEPT ![path[a]] = a]
    /\ \E o \in Command : op' = [op EXCEPT ![a] = o]
    /\ UNCHANGED <<disk, storeLock, path, held, consumed, history>>

\* The store's lock, first for the change, then for the promotion.
Enter(a) ==
    /\ \/ Goto(a, {"begin"}, "change")
       \/ Goto(a, {"promote"}, "commit")
    /\ Free(storeLock) /\ storeLock' = a
    /\ UNCHANGED <<disk, fileLock, op, path, held, consumed, history>>

\* A lock that cannot be taken in time.
EnterFails(a) ==
    /\ Goto(a, {"begin", "promote"}, "leave")
    /\ UNCHANGED <<disk, locks, op, path, held, consumed, history>>

\* Any error inside the hold.
GiveUp(a) ==
    /\ Goto(a, InChange \ {"release"}, "release")
    /\ target' = [target EXCEPT ![a] = None]
    /\ UNCHANGED <<disk, locks, op, path, jar, consumed, history>>

\* prepare_key: only a login resets a store whose key is gone; what the old
\* record was not to offer again is forgotten with it.
ResetStore(a) ==
    /\ pc[a] = "change" /\ op[a] = "login" /\ ~key /\ Decides
    /\ store' = Fresh
    /\ spent' = {}
    /\ UNCHANGED <<key, plain, pending, locks, pc, op, path, held, consumed, reoffered,
                   verified, out>>

\* prepare_key: the marker of a reset is fresh.
CreateKey(a) ==
    /\ pc[a] = "change" /\ ~key
    /\ \/ op[a] \in {"login", "migrate"} /\ ~Decides
       \/ op[a] = "login" /\ store = Fresh
    /\ key' = TRUE
    /\ UNCHANGED <<store, plain, pending, locks, pc, op, path, held, consumed, history>>

\* Mutant: promote takes whatever candidate is there.
Writes_AnyCandidate(a) ==
    IF pc[a] = "commit" THEN Readable /\ store.candidate # None ELSE
    CASE op[a] = "login" -> key /\ (Decides => Readable)
      [] op[a] = "migrate" ->
           /\ key /\ store.state \in {"absent", "fresh"}
           /\ plain[path[a]] # None \/ pending[path[a]] # None
      [] OTHER -> op[a] = "logout" /\ Readable

\* When a command writes the record: promote, which knows its candidate by its
\* id; save_verified_session; migrate_session, without a record and with
\* something to move; logout_session, once the store decides.
Writes(a) ==
    IF pc[a] = "commit"
    THEN Readable /\ store.candidate # None /\ store.id = target[a] ELSE
    CASE op[a] = "login" -> key /\ (Decides => Readable)
      [] op[a] = "migrate" ->
           /\ key /\ store.state \in {"absent", "fresh"}
           /\ plain[path[a]] # None \/ pending[path[a]] # None
      [] OTHER -> op[a] = "logout" /\ Readable

\* What it writes.  Before the store decides, a login keeps the plaintext
\* session as the current one beside its candidate.
NewRecord(a) ==
    IF pc[a] = "commit" THEN Saved(store.candidate, None, None) ELSE
    CASE op[a] = "login" ->
           Saved(IF Decides THEN store.current ELSE plain[path[a]],
                 [login |-> a, n |-> 0], a)
      [] op[a] = "migrate" ->
           IF plain[path[a]] # None THEN Saved(plain[path[a]], None, None)
                                    ELSE Saved(None, pending[path[a]], a)
      [] OTHER -> Saved(None, None, None)

\* A login, and a migration of another plaintext file, end what a logout ended.
StillOut(a) ==
    IF pc[a] = "commit" THEN out ELSE
    CASE op[a] = "login" -> {}
      [] op[a] = "migrate" -> out \cap {path[a]}
      [] OTHER -> out

Write(a) ==
    /\ Writes(a)
    /\ Goto(a, {"change", "commit"},
            IF op[a] = "login" /\ pc[a] = "change" /\ Decides THEN "release" ELSE "clean")
    /\ store' = NewRecord(a)
    /\ target' = [target EXCEPT ![a] = IF pc[a] = "change" /\ op[a] = "login" THEN a ELSE None]
    /\ out' = StillOut(a)
    /\ UNCHANGED <<key, plain, pending, locks, op, path, jar, consumed, spent, reoffered,
                   verified>>

WriteFails(a) ==
    /\ Writes(a)
    /\ Goto(a, {"change", "commit"}, "release")
    /\ store' \in Torn(NewRecord(a))
    /\ target' = [target EXCEPT ![a] = None]
    /\ out' = StillOut(a)
    /\ UNCHANGED <<key, plain, pending, locks, op, path, jar, consumed, spent, reoffered,
                   verified>>

\* Nothing to write: already migrated, or a logout before the store decides.
CleanOnly(a) ==
    /\ Goto(a, {"change"}, "clean")
    /\ \/ op[a] = "migrate" /\ store.state = "saved" /\ key
       \/ op[a] = "logout" /\ ~Decides
    /\ UNCHANGED <<disk, locks, op, path, held, consumed, history>>

\* retry_candidate finds the candidate's id.
Find(a) ==
    /\ Goto(a, {"change"}, "release")
    /\ op[a] = "retry" /\ Readable /\ store.candidate # None
    /\ target' = [target EXCEPT ![a] = store.id]
    /\ UNCHANGED <<disk, locks, op, path, jar, consumed, history>>

\* remove_legacy, the file itself.
CleanPlain(a) ==
    /\ Goto(a, {"clean"}, "cleanRest")
    /\ plain' = [plain EXCEPT ![path[a]] = None]
    /\ UNCHANGED <<store, key, pending, locks, op, path, held, consumed, history>>

\* remove_legacy, its candidates; a logout has now done all it promises.
CleanRest(a) ==
    /\ Goto(a, {"cleanRest"}, "release")
    /\ pending' = [pending EXCEPT ![path[a]] = None]
    /\ out' = IF op[a] = "logout" THEN out \cup {path[a]} ELSE out
    /\ UNCHANGED <<store, key, plain, locks, op, path, held, consumed, spent, reoffered,
                   verified>>

\* The end of a hold: a command with a candidate goes on to verify it.
Release(a) ==
    /\ Goto(a, {"release"}, IF target[a] = None THEN "leave" ELSE "verify")
    /\ storeLock' = Nobody
    /\ UNCHANGED <<disk, fileLock, op, path, held, consumed, history>>

Leave(a) ==
    /\ Goto(a, {"leave"}, "done")
    /\ fileLock' = [fileLock EXCEPT ![path[a]] = Nobody]
    /\ op' = [op EXCEPT ![a] = "none"]
    /\ target' = [target EXCEPT ![a] = None]
    /\ UNCHANGED <<disk, storeLock, path, jar, consumed, history>>

-----------------------------------------------------------------------------
(* What else happens                                                       *)

\* A dead owner's locks count as free; its memory is gone.
Crash(p) ==
    /\ Goto(p, PC \ {"idle", "done", "crashed"}, "crashed")
    /\ jar' = [jar EXCEPT ![p] = None]
    /\ op' = [a \in Admin |-> IF a = p THEN "none" ELSE op[a]]
    /\ target' = [a \in Admin |-> IF a = p THEN None ELSE target[a]]
    /\ UNCHANGED <<disk, locks, path, consumed, history>>

LoseKey ==
    /\ key /\ Free(storeLock)
    /\ key' = FALSE
    /\ UNCHANGED <<store, plain, pending, locks, pc, op, path, held, consumed, history>>

\* The user removes the record and the marker, as STORE_WRITE_UNCERTAIN asks.
RemoveStore ==
    /\ store = Lost /\ Free(storeLock)
    /\ store' = Absent
    /\ spent' = {}
    /\ UNCHANGED <<key, plain, pending, locks, pc, op, path, held, consumed, reoffered,
                   verified, out>>

Session(p) ==
    \/ Open(p) \/ Refresh(p) \/ RefreshFails(p)
    \/ TakeRotation(p) \/ AnswerLost(p) \/ HeadTooLarge(p)
    \/ SaveRotation(p) \/ SaveFails(p) \/ Lose(p) \/ LoseFails(p)
    \/ Query(p) \/ Close(p) \/ Crash(p)

Change(a) ==
    \/ Begin(a) \/ Enter(a) \/ EnterFails(a) \/ GiveUp(a)
    \/ ResetStore(a) \/ CreateKey(a) \/ Write(a) \/ WriteFails(a) \/ CleanOnly(a)
    \/ Find(a) \/ VerifyFails(a) \/ CleanPlain(a) \/ CleanRest(a)
    \/ Release(a) \/ Leave(a)

Next ==
    \/ \E p \in Process : Session(p)
    \/ \E a \in Admin : Change(a)
    \/ LoseKey \/ RemoveStore

Spec == Init /\ [][Next]_vars

-----------------------------------------------------------------------------
(* Properties                                                              *)

\* The types of auth.rs's record, slots and sessions, and of the locks.
TypeOK ==
    /\ store \in [state: {"absent", "fresh", "lost", "saved"},
                  current: Slot, candidate: Slot, id: Admin \cup {None}]
    /\ key \in BOOLEAN
    /\ plain \in [Path -> Slot] /\ pending \in [Path -> Slot]
    /\ fileLock \in [Path -> Admin \cup {Nobody}]
    /\ storeLock \in Process \cup {Nobody}
    /\ pc \in [Process -> PC]
    /\ op \in [Admin -> Command \cup {"none"}]
    /\ path \in [Process -> Path]
    /\ jar \in [Process -> Slot]
    /\ target \in [Admin -> Admin \cup {None}]
    /\ consumed \subseteq Jar /\ spent \subseteq Jar /\ reoffered \subseteq Jar
    /\ verified \subseteq Login /\ out \subseteq Path

\* Once a holder of the store has recorded that the upstream consumed a refresh
\* token, by saving its successor or by removing the record, no holder sends it
\* from the store again, through crashes, torn writes, migrations and promotions,
\* until the user removes the store's files or a login resets a store without a key
\* (Session::save and lost in auth.rs: "the record must never offer it again").
SpentStaysSpent == reoffered = {}

\* A session in use is one that a plaintext file held or one that a candidate's
\* verification used with success; also when commands of two plaintext files
\* replace each other's candidate between verification and promote's second hold.
PromotedIsVerified == store.current # None => store.current.login \in verified \cup Path

\* After a logout that reported success neither the store nor the plaintext files
\* of its path hold a session, until the next login: no server's rotation, no
\* retry and no migration in flight brings one back (logout_session, remove_legacy).
LogoutFinal ==
    \A p \in out :
        /\ plain[p] = None /\ pending[p] = None
        /\ store.current = None /\ store.candidate = None

\* The session in use is one that was verified and that no logout removed.
SessionIsTrue == PromotedIsVerified /\ LogoutFinal
=============================================================================
