----------------------------- MODULE TokenStore -----------------------------
(***************************************************************************)
(* Krónan's saved access token (rust/kronan-mcp/src/auth.rs) and the key   *)
(* file under its encrypted record (rust/family-store/src/keys.rs).        *)
(*                                                                         *)
(* The commands auth set, auth migrate and auth logout (Command) lock the  *)
(* old plaintext file and, inside that, the store; servers that load the   *)
(* token (Reader) lock the store only; the startup check (Check) locks     *)
(* nothing.  A key is published by linking its temporary to the key's      *)
(* name; a crash in between leaves the key with two names.                 *)
(*                                                                         *)
(* A key file is its inode, which is the number of the publication that    *)
(* made it, and the key in it.  The record is that of module SecretStore,  *)
(* by what a load finds.                                                   *)
(***************************************************************************)
EXTENDS Naturals

CONSTANTS
    Command,   \* auth commands; the token that one sets carries its name
    Reader,    \* loads of the token
    Check,     \* startup checks
    Plain,     \* the token of the plaintext file
    LoggedOut, \* what the record of a logout holds
    None,      \* nothing there
    Nobody,    \* a free lock
    MaxKeys    \* bound: publications begun

ASSUME TokenAssumption ==
    /\ MaxKeys \in Nat
    /\ Command \cap Reader = {} /\ Check \cap (Command \cup Reader) = {}
    /\ Nobody \notin Command \cup Reader
    /\ Plain # LoggedOut /\ Plain # None /\ LoggedOut # None
    /\ {Plain, LoggedOut, None} \cap Command = {}

VARIABLES
    plain,     \* the plaintext file: its token, or None
    store,     \* what a load of the record finds
    key,       \* the key file, or None
    temps,     \* temporaries beside it, by inode
    made,      \* publications begun
    foreign,   \* inodes that somebody else's hard link names as well
    fileLock, storeLock,
    pc, op,
    mine,      \* a command's temporary
    seen,      \* a startup check's first lstat of the key
    ended,     \* history: tokens that a completed command ended
    revived,   \* history: ended tokens that a load returned
    refused,   \* history: processes that refused a key file without a foreign name
    excused    \* history: checks during which the key was lost

disk    == <<plain, store, key, temps, made, foreign>>
keyFile == <<key, temps, made, foreign>>
locks   == <<fileLock, storeLock>>
history == <<ended, revived, refused, excused>>
vars    == <<disk, locks, pc, op, mine, seen, history>>

-----------------------------------------------------------------------------
Token   == Command \cup {Plain}
Process == Command \cup Reader \cup Check
Inode   == 1..MaxKeys
Backup  == 0       \* the inode of a key that the user put back
KeyFile == [inode: Inode \cup {Backup}, bytes: Inode]

\* Absent: neither marker nor record, so the plaintext file counts.  Fresh: a
\* marker without a record.
Absent == [state |-> "absent", token |-> None, under |-> None]
Fresh  == [Absent EXCEPT !.state = "fresh"]
Saved(token) == [state |-> "saved", token |-> token, under |-> key.bytes]
Decides == store.state # "absent"
Opens   == key # None /\ (store.state = "saved" => store.under = key.bytes)

\* The inodes with a name besides the key's.
Linked == temps \cup foreign

Operation == {"set", "migrate", "logout"}
Publishing == {"create", "written", "linked"}
InHold == {"hold", "found", "ready", "open", "clean", "release"} \cup Publishing
PC == InHold \cup {"idle", "file", "leave", "done", "crashed", "listed", "again"}

Free(holder) == holder \in Process => pc[holder] = "crashed"

Init ==
    /\ plain \in {None, Plain}
    /\ store = Absent
    /\ key = None /\ temps = {} /\ made = 0 /\ foreign = {}
    /\ fileLock = Nobody /\ storeLock = Nobody
    /\ pc = [p \in Process |-> "idle"]
    /\ op \in [Command -> Operation]
    /\ mine = [c \in Command |-> None]
    /\ seen = [c \in Check |-> None]
    /\ ended = {} /\ revived = {} /\ refused = {} /\ excused = {}

Goto(p, from, to) == pc[p] \in from /\ pc' = [pc EXCEPT ![p] = to]

-----------------------------------------------------------------------------
(* The locks: change_token, with_secret_store                              *)

TakeFile(c) ==
    /\ Goto(c, {"idle"}, "file")
    /\ Free(fileLock) /\ fileLock' = c
    /\ UNCHANGED <<disk, storeLock, op, mine, seen, history>>

TakeStore(p) ==
    /\ Goto(p, IF p \in Command THEN {"file"} ELSE {"idle"}, "hold")
    /\ Free(storeLock) /\ storeLock' = p
    /\ UNCHANGED <<disk, fileLock, op, mine, seen, history>>

\* The store's lock cannot be taken in time.
TakeFails(c) ==
    /\ Goto(c, {"file"}, "leave")
    /\ UNCHANGED <<disk, locks, op, mine, seen, history>>

\* Any error of a command or a load.
GiveUp(p) ==
    /\ Goto(p, InHold \ (Publishing \cup {"release"}), "release")
    /\ UNCHANGED <<disk, locks, op, mine, seen, history>>

Release(p) ==
    /\ Goto(p, {"release"}, IF p \in Command THEN "leave" ELSE "done")
    /\ storeLock' = Nobody
    /\ UNCHANGED <<disk, fileLock, op, mine, seen, history>>

Leave(c) ==
    /\ Goto(c, {"leave"}, "done")
    /\ fileLock' = Nobody
    /\ UNCHANGED <<disk, storeLock, op, mine, seen, history>>

-----------------------------------------------------------------------------
(* The key file: get_key and create_key                                    *)

\* Before the store decides, a load and a logout look at no key, and a
\* migration needs a token to move.
UsesKey(p) == Decides \/ (p \in Command /\ CASE op[p] = "set"     -> TRUE
                                            [] op[p] = "migrate" -> plain # None
                                            [] op[p] = "logout"  -> FALSE)

\* read_key, recover_key_link: the temporary that is a second name of the key
\* is removed.  Once in check_key or stored_token, once more before the write.
Recover(p) ==
    /\ \/ Goto(p, {"hold"}, "found")
       \/ Goto(p, {"ready"}, "open")
    /\ UsesKey(p)
    /\ temps' = IF key # None /\ key.inode \notin foreign THEN temps \ {key.inode} ELSE temps
    /\ UNCHANGED <<plain, store, key, made, foreign, locks, op, mine, seen, history>>

\* read_private_bytes refuses a file with a second name.
KeyRefused(p) ==
    /\ Goto(p, {"found", "open"}, "release")
    /\ key # None /\ key.inode \in Linked
    /\ refused' = IF key.inode \in foreign THEN refused ELSE refused \cup {p}
    /\ UNCHANGED <<disk, locks, op, mine, seen, ended, revived, excused>>

HasKey == key # None /\ key.inode \notin Linked

\* publish: temporaries past the sweep age go; this publication's is created,
\* and the whole key is written and flushed.
WriteTemporary(c) ==
    /\ Goto(c, {"create"}, "written")
    /\ made < MaxKeys /\ made' = made + 1
    /\ \E old \in SUBSET temps : temps' = (temps \ old) \cup {made'}
    /\ mine' = [mine EXCEPT ![c] = made']
    /\ UNCHANGED <<plain, store, key, foreign, locks, op, seen, history>>

\* hard_link never replaces an existing key.
LinkKey(c) ==
    /\ Goto(c, {"written"}, "linked")
    /\ key = None
    /\ key' = [inode |-> mine[c], bytes |-> mine[c]]
    /\ UNCHANGED <<plain, store, temps, made, foreign, locks, op, mine, seen, history>>

\* Published, or failed: a failure to remove the temporary is ignored.
RemoveTemporary(c) ==
    /\ \/ Goto(c, {"linked"}, "ready")
       \/ Goto(c, {"create", "written"}, "release")
    /\ temps' \in {temps, temps \ {mine[c]}}
    /\ mine' = [mine EXCEPT ![c] = None]
    /\ UNCHANGED <<plain, store, key, made, foreign, locks, op, seen, history>>

-----------------------------------------------------------------------------
(* The commands: save_token, migrate_token, logout_token                   *)

\* prepare_key: without a key, only a login resets a store that decides.  A
\* migration comes here with a token to move, and no record.
Prepare(c) ==
    /\ pc[c] = "found" /\ op[c] \in {"set", "migrate"}
    /\ op[c] = "migrate" => plain # None /\ store.state # "saved"
    /\ \/ HasKey /\ Goto(c, {"found"}, "ready") /\ UNCHANGED store
       \/ /\ key = None /\ Goto(c, {"found"}, "create")
          /\ Decides => op[c] = "set"
          /\ store' = IF Decides THEN Fresh ELSE store
    /\ UNCHANGED <<plain, keyFile, locks, op, mine, seen, history>>

\* A logout writes over a store that decides.
PrepareLogout(c) ==
    /\ Goto(c, {"found"}, "open")
    /\ op[c] = "logout" /\ Decides /\ HasKey
    /\ UNCHANGED <<disk, locks, op, mine, seen, history>>

NewToken(c) ==
    CASE op[c] = "set"     -> c
      [] op[c] = "migrate" -> plain
      [] op[c] = "logout"  -> LoggedOut

\* Mutant: a logout leaves the record as it is.
Write_KeepsRecord(c) ==
    /\ Goto(c, {"open"}, "clean")
    /\ HasKey /\ Opens
    /\ store' = IF op[c] = "logout" /\ store.state = "saved" THEN store ELSE Saved(NewToken(c))
    /\ ended' = ended \ {NewToken(c)}
    /\ UNCHANGED <<plain, keyFile, locks, op, mine, seen, revived, refused, excused>>

\* update: the record, once it opened.
Write(c) ==
    /\ Goto(c, {"open"}, "clean")
    /\ HasKey /\ Opens
    /\ store' = Saved(NewToken(c))
    /\ ended' = ended \ {NewToken(c)}
    /\ UNCHANGED <<plain, keyFile, locks, op, mine, seen, revived, refused, excused>>

\* Mutant: a failed write goes on to remove the plaintext file.
WriteFails_Cleans(c) ==
    /\ Goto(c, {"open"}, "clean")
    /\ HasKey /\ Opens
    /\ store' \in {store, Saved(NewToken(c))} \cup (IF Decides THEN {} ELSE {Fresh})
    /\ ended' = ended \ {NewToken(c)}
    /\ UNCHANGED <<plain, keyFile, locks, op, mine, seen, revived, refused, excused>>

\* A write that fails or dies: the next load finds the old record or the new
\* one, and of an interrupted first write no record.
WriteFails(c) ==
    /\ Goto(c, {"open"}, "release")
    /\ HasKey /\ Opens
    /\ store' \in {store, Saved(NewToken(c))} \cup (IF Decides THEN {} ELSE {Fresh})
    /\ ended' = ended \ {NewToken(c)}
    /\ UNCHANGED <<plain, keyFile, locks, op, mine, seen, revived, refused, excused>>

\* Nothing to write: already migrated, or a logout before the store decides.
CleanOnly(c) ==
    /\ \/ Goto(c, {"found"}, "clean") /\ op[c] = "migrate"
          /\ store.state = "saved" /\ HasKey /\ Opens
       \/ Goto(c, {"hold"}, "clean") /\ op[c] = "logout" /\ ~Decides
    /\ UNCHANGED <<disk, locks, op, mine, seen, history>>

\* The token that a command which succeeds leaves for loads, or none.
Promised(c) == CASE op[c] = "set"     -> c
                 [] op[c] = "migrate" -> store.token
                 [] op[c] = "logout"  -> LoggedOut

\* remove_legacy; the command has now done all that it answers.
Clean(c) ==
    /\ Goto(c, {"clean"}, "release")
    /\ plain' = None
    /\ ended' = Token \ {Promised(c)}
    /\ UNCHANGED <<store, keyFile, locks, op, mine, seen, revived, refused, excused>>

-----------------------------------------------------------------------------
(* Loads and startup checks                                                *)

\* load_saved_token: the store's token once it decides, else the plaintext one.
Returns(token) == revived' = revived \cup ({token} \cap ended)

Load(r) ==
    /\ \/ Goto(r, {"found"}, "release") /\ HasKey /\ Opens /\ Returns(store.token)
       \/ Goto(r, {"hold"}, "release") /\ ~Decides /\ Returns(plain)
    /\ UNCHANGED <<disk, locks, op, mine, seen, ended, refused, excused>>

\* check_store_paths: the first lstat.  A key with three names is refused.
Look(k) ==
    /\ IF key # None /\ key.inode \in Linked \ (temps \cap foreign)
       THEN Goto(k, {"idle"}, "listed") /\ seen' = [seen EXCEPT ![k] = key.inode]
       ELSE Goto(k, {"idle"}, "done") /\ UNCHANGED seen
    /\ UNCHANGED <<disk, locks, op, mine, history>>

\* key_temporary: a temporary that is the key's second name passes.
Search(k) ==
    /\ Goto(k, {"listed"}, IF seen[k] \in temps THEN "done" ELSE "again")
    /\ UNCHANGED <<disk, locks, op, mine, seen, history>>

\* Mutant: what the first lstat said counts.
LookAgain_Never(k) ==
    /\ Goto(k, {"again"}, "done")
    /\ refused' = IF seen[k] \in foreign THEN refused ELSE refused \cup {k}
    /\ UNCHANGED <<disk, locks, op, mine, seen, ended, revived, excused>>

\* The name may have gone meanwhile: the same file, now with one name, passes.
LookAgain(k) ==
    /\ Goto(k, {"again"}, "done")
    /\ refused' = IF \/ key = None \/ (key.inode = seen[k] /\ key.inode \notin Linked)
                     \/ seen[k] \in foreign
                  THEN refused ELSE refused \cup {k}
    /\ UNCHANGED <<disk, locks, op, mine, seen, ended, revived, excused>>

-----------------------------------------------------------------------------
(* What else happens                                                       *)

\* The process dies: its locks count as free, its temporary stays.
Crash(p) ==
    /\ Goto(p, InHold \cup {"file", "leave"}, "crashed")
    /\ mine' = [c \in Command |-> IF c = p THEN None ELSE mine[c]]
    /\ UNCHANGED <<disk, locks, op, seen, history>>

LoseKey ==
    /\ key # None /\ Free(storeLock)
    /\ key' = None
    /\ excused' = excused \cup {k \in Check : pc[k] \in {"listed", "again"}}
    /\ UNCHANGED <<plain, store, temps, made, foreign, locks, pc, op, mine, seen,
                   ended, revived, refused>>

\* The user puts a copy of a key back, at any time.
RestoreKey ==
    /\ key = None
    /\ \E i \in 1..made : key' = [inode |-> Backup, bytes |-> i]
    /\ UNCHANGED <<plain, store, temps, made, foreign, locks, pc, op, mine, seen, history>>

\* Somebody else's hard link to the key, such as a copying tool makes.
HardLink ==
    /\ key # None /\ foreign = {}
    /\ foreign' = {key.inode}
    /\ UNCHANGED <<plain, store, key, temps, made, locks, pc, op, mine, seen,
                   history>>

Publish(c) == WriteTemporary(c) \/ LinkKey(c) \/ RemoveTemporary(c)

Change(c) ==
    \/ TakeFile(c) \/ TakeFails(c) \/ Leave(c) \/ Publish(c)
    \/ Prepare(c) \/ PrepareLogout(c) \/ Write(c) \/ WriteFails(c)
    \/ CleanOnly(c) \/ Clean(c)

Hold(p) ==
    TakeStore(p) \/ Recover(p) \/ KeyRefused(p) \/ GiveUp(p) \/ Release(p) \/ Crash(p)

Next ==
    \/ \E c \in Command : Change(c)
    \/ \E p \in Command \cup Reader : Hold(p)
    \/ \E r \in Reader : Load(r)
    \/ \E k \in Check : Look(k) \/ Search(k) \/ LookAgain(k)
    \/ LoseKey \/ RestoreKey \/ HardLink

Spec == Init /\ [][Next]_vars

-----------------------------------------------------------------------------
(* Properties                                                              *)

TypeOK ==
    /\ plain \in {None, Plain}
    /\ store \in [state: {"absent", "fresh", "saved"}, token: Token \cup {LoggedOut, None},
                  under: Inode \cup {None}]
    /\ key \in KeyFile \cup {None}
    /\ temps \subseteq 1..made
    /\ made \in 0..MaxKeys
    /\ foreign \subseteq Inode \cup {Backup}
    /\ fileLock \in Command \cup {Nobody}
    /\ storeLock \in Command \cup Reader \cup {Nobody}
    /\ pc \in [Process -> PC]
    /\ op \in [Command -> Operation]
    /\ mine \in [Command -> Inode \cup {None}]
    /\ seen \in [Check -> Inode \cup {Backup, None}]
    /\ ended \subseteq Token /\ revived \subseteq Token
    /\ refused \subseteq Process /\ excused \subseteq Check

\* What an interrupted publication leaves is never refused as unsafe: not by a
\* holder of the store, and not by a startup check that looks without the lock
\* while others publish, recover and sweep (keys.rs, check_store_paths).
OwnLeftoversPass == refused \subseteq excused

\* A token that a completed set, migration or logout ended is not returned by a
\* later load, whatever was interrupted in between (auth.rs).
EndedStaysEnded == revived = {}

Succeeded ==
    \/ \E c \in Command : op[c] = "logout" /\ pc[c] = "clean"
    \/ Opens /\ store.token # None

\* The plaintext token is removed only by a logout, or when the record that
\* opens holds its successor: an interrupted command loses no token.
PlainIsSucceeded == [][plain # plain' => Succeeded]_vars

\* A key file is never replaced, also one that the user puts back while a
\* command makes a new one; so a record that opens goes on opening until the key
\* file itself is lost (keys.rs, prepare_key).
KeyIsKept ==
    [][/\ key # None => key' \in {key, None}
       /\ Opens /\ store.state = "saved" =>
            key' = None \/ (Opens /\ store.state = "saved")']_vars

\* No token is lost to an interruption: not the plaintext one before its successor
\* is saved, and not the saved one by its key.
NothingIsLost == PlainIsSucceeded /\ KeyIsKept

=============================================================================
