--------------------------- MODULE InfoMentorClient ---------------------------
(***************************************************************************)
(* The InfoMentor client of one MCP server (rust/infomentor-mcp/src/       *)
(* client.rs, with store.rs for the saved record and login.rs for the      *)
(* sign-ins).                                                              *)
(*                                                                         *)
(* Reads go through a queue, the mutex around the session in memory, and   *)
(* hold the store's lock for all of their work.  A login or an import runs *)
(* beside the queue and says so in a flag that reads refuse on; a logout   *)
(* raises a flag of its own, cancels the setup, and waits for it and for   *)
(* the queue before it removes what is saved.  Close cancels everything    *)
(* and waits the same way.  The asynchronous code runs on one thread, so   *)
(* that only an await lets another call in; the work of a hold runs on a   *)
(* thread of its own.  Other processes change the record whenever the lock *)
(* is free.                                                                *)
(*                                                                         *)
(* A session is InfoMentor's: it has an account, a selected child, and may *)
(* expire.  Its cookies stand for it; pages and what is read from them     *)
(* are left out.  InfoMentor has exactly one child selected.               *)
(***************************************************************************)
EXTENDS Naturals, FiniteSets

CONSTANTS
    Read,       \* calls of the read tools
    Setup,      \* calls of infomentor_login
    Logout,     \* calls of infomentor_logout
    Account,
    Child,
    Configured, \* the account of the configured credentials, or None
    None,
    MaxIds      \* bound: sessions InfoMentor issues

Call == Read \cup Setup \cup Logout

VARIABLES
    record,     \* what is saved: a session, and a sign-in that can renew it
    lock,       \* the owner of the store's lock
    queue,      \* the read that holds the mutex of the session in memory
    active,     \* that session: the saved one it was built from, and what was seen
    setup,      \* the setup that is running
    loggingOut, \* logging_out
    closing,    \* how far close is
    cancelled,  \* setups whose signal is aborted
    pc,
    asked,      \* the child a read selects
    waits,      \* the setup that a logout or close (at None) waits for
    sessions,   \* InfoMentor: its sessions
    savedBy,    \* history: who wrote the record last
    before      \* history: calls that were at work when a logout wrote it

flags  == <<loggingOut, closing, cancelled>>
vars   == <<record, lock, queue, active, setup, flags, pc, asked, waits, sessions, savedBy, before>>

-----------------------------------------------------------------------------
Id      == 1..MaxIds
Session == [id: Id, account: Account \cup {None}, child: Child \cup {None}]
Record  == [session: Session \cup {None}, sign: Account \cup {None}]
Active  == [from: Session, account: Account \cup {None}, child: Child \cup {None}]
Server  == [account: Account, child: Child, live: BOOLEAN]

ASSUME ClientAssumption ==
    /\ MaxIds \in Nat \ {0}
    /\ None \notin Call \cup Account \cup Child \cup Session \cup Active
    /\ Configured \in Account \cup {None}
    /\ Read \cap Setup = {} /\ Read \cap Logout = {} /\ Setup \cap Logout = {}

InRead  == {"checked", "held", "verified", "expired", "replay", "keep"}
InSetup == {"queued", "begin", "signing", "writing", "over"}
InOut   == {"wait", "drain", "remove"}
PC == {"idle", "ready", "open", "free", "done"} \cup InRead \cup InSetup \cup InOut

Issued == Cardinality(DOMAIN sessions)

Init ==
    /\ sessions \in [{1} -> [account: Account, child: Child, live: {TRUE}]]
    /\ record \in {r \in Record :
           \* Older sessions do not name their account or child.
           /\ r.session # None /\ r.session.id = 1
           /\ r.session.account \in {None, sessions[1].account}
           /\ r.session.child \in {None, sessions[1].child}
           /\ r.session.account = None => r.sign = None /\ r.session.child = None}
    /\ lock = None /\ queue = None /\ active = None /\ setup = None
    /\ loggingOut = FALSE /\ closing = "open" /\ cancelled = {}
    /\ pc = [c \in Call |-> "idle"]
    /\ asked \in [Read -> Child \cup {None}]
    /\ waits = [c \in Logout \cup {None} |-> None]
    /\ savedBy = None /\ before = {}

Goto(c, from, to) == pc[c] = from /\ pc' = [pc EXCEPT ![c] = to]

Closed == closing # "open"

-----------------------------------------------------------------------------
(* Reads: read, held_read, with_session                                    *)

Queue(r) ==
    /\ Goto(r, "idle", "ready")
    /\ queue = None /\ queue' = r
    /\ UNCHANGED <<record, lock, active, setup, flags, asked, waits, sessions, savedBy, before>>

\* held_read runs on its own thread: closed, setting_up() and logging_out are read
\* one after the other, and may change in between.
Clear(r) ==
    CASE pc[r] = "ready" -> ~Closed
      [] pc[r] = "open"  -> setup = None
      [] pc[r] = "free"  -> ~loggingOut

Tests == [ready |-> "open", open |-> "free", free |-> "checked"]

Check(r) ==
    /\ pc[r] \in DOMAIN Tests /\ Clear(r)
    /\ pc' = [pc EXCEPT ![r] = Tests[@]]
    /\ UNCHANGED <<record, lock, queue, active, setup, flags, asked, waits, sessions, savedBy, before>>

Refuse(r) ==
    /\ pc[r] \in DOMAIN Tests /\ ~Clear(r)
    /\ pc' = [pc EXCEPT ![r] = "done"]
    /\ queue' = None
    /\ UNCHANGED <<record, lock, active, setup, flags, asked, waits, sessions, savedBy, before>>

\* The session in memory is kept while the saved one is what it was built from.
Hold(r) ==
    /\ Goto(r, "checked", "held")
    /\ lock = None /\ lock' = r
    /\ record.session # None
    /\ active' = IF active # None /\ active.from = record.session THEN active
                 ELSE [from |-> record.session, account |-> None, child |-> None]
    /\ UNCHANGED <<record, queue, setup, flags, asked, waits, sessions, savedBy, before>>

\* LOGIN_REQUIRED without a saved session; a busy or unusable store; an abort.
HoldFails(r) ==
    /\ Goto(r, "checked", "done")
    /\ queue' = None
    /\ UNCHANGED <<record, lock, active, setup, flags, asked, waits, sessions, savedBy, before>>

Or(a, b) == IF a = None THEN b ELSE a

\* session_from_http, save_active: what is seen on the pages, and what is not
\* seen as it was.
Current(a, previous) ==
    [id |-> a.from.id, account |-> Or(a.account, previous.account), child |-> Or(a.child, previous.child)]

\* Held::save and the memory that goes with it; a save may fail.
Save(c, a, previous) ==
    LET current == Current(a, previous) IN
    /\ record' = [record EXCEPT !.session = current]
    /\ active' = [a EXCEPT !.from = current]
    /\ savedBy' = IF current = previous THEN savedBy ELSE c

SaveFails(a) ==
    /\ active' = a
    /\ UNCHANGED <<record, savedBy>>

Here == sessions[record.session.id]
Seen == [active EXCEPT !.account = Here.account, !.child = Here.child]

\* verified: the parent page proves the session, which is saved.
Verify(r) ==
    /\ Goto(r, "held", "verified")
    /\ Here.live
    /\ record.session.account \in {None, Here.account}
    /\ Save(r, Seen, record.session)
    /\ UNCHANGED <<lock, queue, setup, flags, asked, waits, sessions, before>>

\* The page or the save fails; the session may have been seen.
VerifyFails(r) ==
    /\ Goto(r, "held", "keep")
    /\ SaveFails(active) \/ (Here.live /\ SaveFails(Seen))
    /\ UNCHANGED <<lock, queue, setup, flags, asked, waits, sessions, before>>

\* The parent page, or a request of the read, finds that the session expired;
\* after a renewal that is an error like any other.
Expired(r) ==
    /\ pc[r] \in {"held", "verified", "replay"} /\ ~Here.live
    /\ pc' = [pc EXCEPT ![r] = IF @ = "replay" THEN "keep" ELSE "expired"]
    /\ UNCHANGED <<record, lock, queue, active, setup, flags, asked, waits, sessions, savedBy, before>>

\* The account that a renewal must be for: the saved one, or one seen before.
Known == Or(record.session.account, active.account)

\* Credentials are stored or else configured.
Credentials == Or(record.sign, Configured)

\* A session InfoMentor issues for account a.
Issue(a, child) ==
    /\ Issued < MaxIds
    /\ sessions' = [i \in 1..(Issued + 1) |->
           IF i <= Issued THEN sessions[i] ELSE [account |-> a, child |-> child, live |-> TRUE]]

\* Mutant: a renewed session is accepted whatever its account.
Renew_AnyAccount(r) ==
    /\ Goto(r, "expired", "replay")
    /\ Credentials # None /\ Known # None
    /\ \E child \in Child :
        /\ Issue(Credentials, Or(record.session.child, child))
        /\ Save(r, [from |-> [record.session EXCEPT !.id = Issued + 1],
                    account |-> Credentials, child |-> Or(record.session.child, child)], record.session)
    /\ UNCHANGED <<lock, queue, setup, flags, asked, waits, before>>

\* renew: one submission; the new session must be of the known account, is
\* switched to the saved child, and is saved before it is used.
Renew(r) ==
    /\ Goto(r, "expired", "replay")
    /\ Credentials # None /\ Known = Credentials
    /\ \E child \in Child :
        /\ Issue(Credentials, Or(record.session.child, child))
        /\ Save(r, [from |-> [record.session EXCEPT !.id = Issued + 1],
                    account |-> Credentials, child |-> Or(record.session.child, child)], record.session)
    /\ UNCHANGED <<lock, queue, setup, flags, asked, waits, before>>

\* No credentials, no known account, a rejected sign-in, another account, a
\* child that cannot be selected, or a save that fails: the session is kept.
RenewFails(r) ==
    /\ Goto(r, "expired", "done")
    /\ \/ UNCHANGED sessions
       \/ Credentials # None /\ Known # None /\ \E child \in Child : Issue(Credentials, child)
    /\ lock' = None /\ queue' = None
    /\ UNCHANGED <<record, active, setup, flags, asked, waits, savedBy, before>>

\* The read itself: a child that is asked for is selected, and confirmed.
Work(r) ==
    /\ pc[r] \in {"verified", "replay"} /\ Here.live
    /\ pc' = [pc EXCEPT ![r] = "keep"]
    /\ IF asked[r] = None THEN UNCHANGED <<sessions, active>>
       ELSE /\ sessions' = [sessions EXCEPT ![record.session.id].child = asked[r]]
            /\ active' = [active EXCEPT !.child = asked[r]]
    /\ UNCHANGED <<record, lock, queue, setup, flags, asked, waits, savedBy, before>>

\* Any other error, or an abort; a child may have been selected.
WorkFails(r) ==
    /\ pc[r] \in {"verified", "replay"}
    /\ pc' = [pc EXCEPT ![r] = "keep"]
    /\ \/ UNCHANGED sessions
       \/ asked[r] # None /\ sessions' = [sessions EXCEPT ![record.session.id].child = asked[r]]
    /\ UNCHANGED <<record, lock, queue, active, setup, flags, asked, waits, savedBy, before>>

\* save_active after the read, unless it was aborted, and the end of the hold.
Keep(r) ==
    /\ Goto(r, "keep", "done")
    /\ \/ ~Closed /\ Save(r, active, record.session)
       \/ SaveFails(active)
    /\ lock' = None /\ queue' = None
    /\ UNCHANGED <<setup, flags, asked, waits, sessions, before>>

-----------------------------------------------------------------------------
(* A login or an import: start_login, run_setup                            *)

\* start_login awaits nothing, so that no flag changes while it tests them.
Start(s) ==
    /\ Goto(s, "idle", "queued")
    /\ ~Closed /\ setup = None /\ ~loggingOut
    /\ setup' = s
    /\ UNCHANGED <<record, lock, queue, active, flags, asked, waits, sessions, savedBy, before>>

Busy(s) ==
    /\ Goto(s, "idle", "done")
    /\ Closed \/ setup # None \/ loggingOut
    /\ UNCHANGED <<record, lock, queue, active, setup, flags, asked, waits, sessions, savedBy, before>>

\* After the operations queued before it the session in memory is dropped.
Pass(s) ==
    /\ Goto(s, "queued", "begin")
    /\ queue = None /\ s \notin cancelled
    /\ active' = None
    /\ UNCHANGED <<record, lock, queue, setup, flags, asked, waits, sessions, savedBy, before>>

\* change_session, prepare_change
Begin(s) ==
    /\ Goto(s, "begin", "signing")
    /\ lock = None /\ lock' = s
    /\ UNCHANGED <<record, queue, active, setup, flags, asked, waits, sessions, savedBy, before>>

\* require_same_account, for an override that was given or not.
MayReplace(a, allow) ==
    ~allow /\ record.session # None => record.session.account \in {None, a}

\* signal.check: what is cancelled later is still written.
Proceed(s) ==
    /\ Goto(s, "signing", "writing")
    /\ s \notin cancelled
    /\ UNCHANGED <<record, lock, queue, active, setup, flags, asked, waits, sessions, savedBy, before>>

\* login, import_session, commit_change: the session and its sign-in in one
\* write; an import keeps a sign-in for the same account only.
Commit(s) ==
    /\ Goto(s, "writing", "over")
    /\ \E a \in Account, child \in Child, allow \in BOOLEAN, imported \in BOOLEAN :
        /\ MayReplace(a, allow)
        /\ Issue(a, child)
        /\ record' = [session |-> [id |-> Issued + 1, account |-> a, child |-> child],
                      sign |-> IF ~imported THEN a
                               ELSE IF record.session # None /\ record.session.account = a
                                    THEN record.sign ELSE None]
    /\ lock' = None /\ savedBy' = s
    /\ UNCHANGED <<queue, active, setup, flags, asked, waits, before>>

\* A setup that fails or is cancelled, before or in its hold.
SetupFails(s) ==
    /\ pc[s] \in InSetup \ {"over"}
    /\ pc[s] = "queued" => queue = None /\ s \in cancelled
    /\ pc' = [pc EXCEPT ![s] = "over"]
    /\ lock' = IF lock = s THEN None ELSE lock
    /\ UNCHANGED <<record, queue, active, setup, flags, asked, waits, sessions, savedBy, before>>

\* The status is set, and the setup is no longer running.
SetupEnds(s) ==
    /\ Goto(s, "over", "done")
    /\ setup' = None
    /\ UNCHANGED <<record, lock, queue, active, flags, asked, waits, sessions, savedBy, before>>

\* cancel_setup by its own tool, which then waits.
CancelSetup ==
    /\ setup # None
    /\ cancelled' = cancelled \cup {setup}
    /\ UNCHANGED <<record, lock, queue, active, setup, loggingOut, closing, pc, asked, waits, sessions, savedBy, before>>

-----------------------------------------------------------------------------
(* Logout and close                                                        *)

\* cancel_setup: the running setup, if there is one, is aborted and waited for.
Cancel(w) ==
    /\ cancelled' = IF setup = None THEN cancelled ELSE cancelled \cup {setup}
    /\ waits' = [waits EXCEPT ![w] = setup]

BeginLogout(o) ==
    /\ Goto(o, "idle", "wait")
    /\ ~loggingOut /\ loggingOut' = TRUE
    /\ Cancel(o)
    /\ UNCHANGED <<record, lock, queue, active, setup, closing, asked, sessions, savedBy, before>>

RefuseLogout(o) ==
    /\ Goto(o, "idle", "done")
    /\ loggingOut
    /\ UNCHANGED <<record, lock, queue, active, setup, flags, asked, waits, sessions, savedBy, before>>

Ended(w) == waits[w] # None => pc[waits[w]] = "done"

\* The setup has ended, and so has the read that holds the queue.
Drain(o) ==
    /\ Goto(o, "wait", "remove")
    /\ Ended(o)
    /\ queue = None /\ active' = None
    /\ UNCHANGED <<record, lock, queue, setup, flags, asked, waits, sessions, savedBy, before>>

AtWork == {c \in Read : pc[c] \in InRead} \cup {c \in Setup : pc[c] \in InSetup}

\* store::logout: a record without session and sign-in, and no plaintext files.
Remove(o) ==
    /\ Goto(o, "remove", "drain")
    /\ lock = None
    /\ record' = [session |-> None, sign |-> None]
    /\ savedBy' = o /\ before' = AtWork
    /\ UNCHANGED <<lock, queue, active, setup, flags, asked, waits, sessions>>

RemoveFails(o) ==
    /\ Goto(o, "remove", "drain")
    /\ UNCHANGED <<record, lock, queue, active, setup, flags, asked, waits, sessions, savedBy, before>>

EndLogout(o) ==
    /\ Goto(o, "drain", "done")
    /\ loggingOut' = FALSE
    /\ UNCHANGED <<record, lock, queue, active, setup, closing, cancelled, asked, waits, sessions, savedBy, before>>

\* abort: reads and the running setup end as cancelled.
Abort ==
    /\ closing = "open" /\ closing' = "aborted"
    /\ Cancel(None)
    /\ UNCHANGED <<record, lock, queue, active, setup, loggingOut, pc, asked, sessions, savedBy, before>>

Close ==
    /\ closing = "aborted" /\ closing' = "closed"
    /\ Ended(None)
    /\ queue = None /\ active' = None
    /\ UNCHANGED <<record, lock, queue, setup, loggingOut, cancelled, pc, asked, waits, sessions, savedBy, before>>

-----------------------------------------------------------------------------
(* Outside                                                                 *)

Expire ==
    /\ \E i \in DOMAIN sessions : sessions[i].live /\ sessions' = [sessions EXCEPT ![i].live = FALSE]
    /\ UNCHANGED <<record, lock, queue, active, setup, flags, pc, asked, waits, savedBy, before>>

\* Another process logs in or out, in a hold of its own.
OtherLogin ==
    /\ lock = None
    /\ \E a \in Account, child \in Child :
        /\ Issue(a, child)
        /\ record' = [session |-> [id |-> Issued + 1, account |-> a, child |-> child], sign |-> a]
    /\ savedBy' = None
    /\ UNCHANGED <<lock, queue, active, setup, flags, pc, asked, waits, before>>

OtherLogout ==
    /\ lock = None /\ record.session # None
    /\ record' = [session |-> None, sign |-> None]
    /\ savedBy' = None
    /\ UNCHANGED <<lock, queue, active, setup, flags, pc, asked, waits, sessions, before>>

\* Nothing is left to do.
Finished ==
    /\ \A c \in Call : pc[c] \in {"idle", "done"}
    /\ closing = "closed"
    /\ UNCHANGED vars

Next ==
    \/ \E r \in Read :
        \/ Queue(r) \/ Check(r) \/ Refuse(r) \/ Hold(r) \/ HoldFails(r) \/ Verify(r)
        \/ VerifyFails(r) \/ Expired(r) \/ Renew(r) \/ RenewFails(r) \/ Work(r)
        \/ WorkFails(r) \/ Keep(r)
    \/ \E s \in Setup :
        \/ Start(s) \/ Busy(s) \/ Pass(s) \/ Begin(s) \/ Proceed(s)
        \/ Commit(s) \/ SetupFails(s) \/ SetupEnds(s)
    \/ \E o \in Logout :
        \/ BeginLogout(o) \/ RefuseLogout(o) \/ Drain(o)
        \/ Remove(o) \/ RemoveFails(o) \/ EndLogout(o)
    \/ CancelSetup \/ Abort \/ Close
    \/ Expire \/ OtherLogin \/ OtherLogout \/ Finished

Spec == Init /\ [][Next]_vars

-----------------------------------------------------------------------------
(* Properties                                                              *)

\* Values have their types, and the flags and locks agree with where calls are:
\* a call at work in a hold owns the lock, and only the running setup is past
\* its start.
TypeOK ==
    /\ record \in Record
    /\ active = None \/ active \in Active
    /\ DOMAIN sessions = 1..Issued /\ Issued \in Id
    /\ \A i \in DOMAIN sessions : sessions[i] \in Server
    /\ pc \in [Call -> PC]
    /\ queue \in Read \cup {None} /\ setup \in Setup \cup {None} /\ lock \in Read \cup Setup \cup {None}
    /\ cancelled \subseteq Setup /\ before \subseteq Read \cup Setup
    /\ \A r \in Read : pc[r] \in InRead \ {"checked"} => lock = r /\ queue = r
    /\ \A s \in Setup : (pc[s] \in InSetup => setup = s) /\ (pc[s] \in {"signing", "writing"} => lock = s)

\* What has ended stays ended: a login, an import or a read of this process that
\* was at work when a logout removed the session never saves one afterwards, and
\* nothing is at work once close returned, however the flags, the cancellation,
\* the queue and the lock interleave.
EndIsFinal ==
    /\ savedBy \notin before
    /\ closing = "closed" => AtWork = {}

\* A read never changes whose data is shown: it saves no other account than the
\* one that was saved, and the session that replaces an expired one is of the
\* same account and has the same child selected, whatever credentials are
\* stored or configured.
RenewalKeeps ==
    [][\A r \in Read : pc[r] \in InRead /\ record' # record /\ savedBy' = r =>
           /\ record.session.account \in {None, record'.session.account}
           /\ \/ record'.session.id = record.session.id
              \/ record.session.child \in {None, record'.session.child}]_vars

\* A session goes on as the same one or not at all: ended it stays ended, renewed it
\* shows the same account and child.
SessionsGoOn == []EndIsFinal /\ RenewalKeeps
=============================================================================
