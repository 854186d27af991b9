----------------------------- MODULE InnaAbsence -----------------------------
(***************************************************************************)
(* Reporting an absence to Inna (rust/inna-mcp/src/client.rs, absence.rs)  *)
(* and the hold of the saved session that every operation needs            *)
(* (session.rs).                                                           *)
(*                                                                         *)
(* Hosts share one session file, and with it the absence record beside     *)
(* it.  An operation holds both locks, uses the saved cookies, which Inna  *)
(* may replace with every answer, has Inna select a student, and writes    *)
(* the cookies back at the end.  Which student a request is about is       *)
(* decided by what Inna has selected, never by the request.  Dates and     *)
(* permissions decide no more than whether an operation goes on; cookies   *)
(* are numbered in the order Inna issues them.                             *)
(***************************************************************************)
EXTENDS Naturals

CONSTANTS
    Prepare,    \* calls of prepare_absence; a preview's operation id is its call.
                \* One that stops with a student selected is also any other read
    Submit,     \* calls of submit_absence
    Student,    \* students; an account's own selection is one of them
    None,       \* no record, no key, no session, a free lock
    MaxCookies  \* bound: cookies Inna issues

Call == Prepare \cup Submit

ASSUME AbsenceAssumption ==
    /\ MaxCookies \in Nat
    /\ None \notin Call \cup Student
    /\ Prepare \cap Submit = {}

VARIABLES
    record,    \* the absence record
    session,   \* what the session store or file holds
    lock,      \* the owner of both locks
    pc,        \* where each call is
    asked,     \* the student a preview is for; the operation of a submit
    cookies,   \* the jar of the connection
    target,    \* the student that was selected, and the key that chose it
    selected,  \* Inna: the selected student
    issued,    \* Inna: the last cookies
    expired,   \* previews whose ten minutes or whose day is over
    sent,      \* history: absences that left, with the student they reached
    recorded,  \* history: operations saved as submitted
    spent      \* history: cookies before these were replaced, and that was saved

disk    == <<record, session>>
memory  == <<asked, cookies, target>>
inna    == <<selected, issued>>
history == <<expired, sent, recorded, spent>>
vars    == <<disk, lock, pc, memory, inna, history>>

-----------------------------------------------------------------------------
Cookies == 0..MaxCookies
Key     == Student \cup {None}
State   == {"prepared", "submitting", "submitted", "unknown"}
Record  == [op: Prepare, account: Student, key: Key, state: State]
\* place: the encrypted store, or the plaintext file of older versions.
Session == [account: Student, cookies: Cookies, place: {"store", "file"}]
Target  == [student: Student, key: Key]

ASSUME NoneIsNothing == None \notin Record \cup Session \cup Target

Working == {"picked", "seen", "targeted", "checked", "post", "accepted", "uncertain", "leave"}
PC == Working \cup {"idle", "done", "crashed"}

Free == lock \in Call => pc[lock] = "crashed"

Init ==
    /\ record = None
    /\ selected \in Student
    /\ session \in [account: {selected}, cookies: {0}, place: {"store", "file"}]
    /\ lock = None
    /\ pc = [c \in Call |-> "idle"]
    /\ asked = [c \in Call |-> None]
    /\ cookies = [c \in Call |-> 0]
    /\ target = [c \in Call |-> None]
    /\ issued = 0
    /\ expired = {} /\ sent = {} /\ recorded = {} /\ spent = 0

Goto(c, from, to) == pc[c] = from /\ pc' = [pc EXCEPT ![c] = to]

-----------------------------------------------------------------------------
(* A hold: locked, session, persisting, with_student                       *)

\* locked and held.read; a call without a session ends here.
Begin(c) ==
    /\ Goto(c, "idle", "picked")
    /\ Free /\ lock' = c
    /\ session # None
    /\ cookies' = [cookies EXCEPT ![c] = session.cookies]
    /\ \E a \in IF c \in Submit THEN Prepare ELSE Key : asked' = [asked EXCEPT ![c] = a]
    /\ UNCHANGED <<disk, target, inna, history>>

\* An answer of Inna, which may bring new cookies; capture.
Answer(c) ==
    /\ issued' \in {n \in Cookies : n = issued \/ n = issued + 1}
    /\ cookies' = [cookies EXCEPT ![c] = IF issued' > issued THEN issued' ELSE @]

\* The preview of the submitted operation is there.
HasPreview(c) == record # None /\ record.op = asked[c]

\* connection.user, with the one renewal and retry that a 401 allows.
See(c) ==
    /\ Goto(c, "picked", "seen")
    /\ c \in Submit => HasPreview(c)
    /\ Answer(c)
    /\ UNCHANGED <<disk, lock, asked, target, selected, history>>

\* pick: a submit is for the student of its preview.
Picked(c) == IF c \in Submit THEN record.key ELSE asked[c]

\* select without a usable list of students: only the account's own.
SelectUnlisted(c) ==
    /\ Goto(c, "seen", "targeted")
    /\ Picked(c) = None /\ selected = session.account
    /\ target' = [target EXCEPT ![c] = [student |-> selected, key |-> None]]
    /\ UNCHANGED <<disk, lock, asked, cookies, inna, history>>

\* select, select_student: Inna is switched when another student is selected.
Select(c) ==
    /\ Goto(c, "seen", "targeted")
    /\ LET key == IF Picked(c) = None THEN session.account ELSE Picked(c) IN
        /\ selected' = key
        /\ target' = [target EXCEPT ![c] = [student |-> key, key |-> key]]
        /\ IF selected = key THEN UNCHANGED <<issued, cookies>> ELSE Answer(c)
    /\ UNCHANGED <<disk, lock, asked, history>>

\* Any error before something is written, possibly after the switch; the end of
\* a read with its requests; a submit whose record says that nothing is to be sent.
Stop(c) ==
    /\ pc[c] \in {"picked", "seen", "targeted", "checked"}
    /\ pc' = [pc EXCEPT ![c] = "leave"]
    /\ selected' \in IF pc[c] = "seen" THEN Student ELSE {selected}
    /\ Answer(c)
    /\ UNCHANGED <<disk, lock, asked, target, history>>

\* The end of a hold, or of its process: its memory is gone.
Forget(c) ==
    /\ asked' = [asked EXCEPT ![c] = None]
    /\ cookies' = [cookies EXCEPT ![c] = 0]
    /\ target' = [target EXCEPT ![c] = None]

\* Mutant: cookies that could not be saved are kept as if they had not changed.
WriteBackFails_Keeps(c) ==
    /\ Goto(c, "leave", "done")
    /\ lock' = None /\ Forget(c)
    /\ UNCHANGED <<record, session, inna, expired, sent, recorded>>
    /\ spent' = IF session.place = "store" THEN cookies[c] ELSE spent

\* write_back, whatever the outcome of the operation, and the end of the hold.
WriteBack(c) ==
    /\ Goto(c, "leave", "done")
    /\ lock' = None /\ Forget(c)
    /\ session' = [session EXCEPT !.cookies = cookies[c]]
    /\ spent' = cookies[c]
    /\ UNCHANGED <<record, inna, expired, sent, recorded>>

\* It fails: the plaintext file stays, and so does a record whose cookies did not
\* change; rotated ones take the record away.
WriteBackFails(c) ==
    /\ Goto(c, "leave", "done")
    /\ lock' = None /\ Forget(c)
    /\ IF session.place = "file" \/ cookies[c] = session.cookies
       THEN UNCHANGED <<session, spent>>
       ELSE session' = None /\ spent' = cookies[c]
    /\ UNCHANGED <<record, inna, expired, sent, recorded>>

\* The removal fails too, which is ignored; either record may be on disk.
RemovalFails(c) ==
    /\ Goto(c, "leave", "done")
    /\ lock' = None /\ Forget(c)
    /\ session.place = "store"
    /\ session' \in {session, [session EXCEPT !.cookies = cookies[c]]}
    /\ UNCHANGED <<record, inna, history>>

-----------------------------------------------------------------------------
(* prepare_absence                                                         *)

\* Mutant: only a submission under way blocks the next preview.
Uncertain_UnderWay == record # None /\ record.state = "submitting"

\* An earlier submission whose outcome is not known.
Uncertain == record # None /\ record.state \in {"submitting", "unknown"}

Preview(c) == [op |-> c, account |-> target[c].student, key |-> target[c].key,
               state |-> "prepared"]

\* check_absence with its reads; the write succeeds, or fails before or after its
\* rename.
WritePreview(c) ==
    /\ c \in Prepare /\ Goto(c, "targeted", "leave")
    /\ ~Uncertain
    /\ Answer(c)
    /\ record' \in {record, Preview(c)}
    /\ UNCHANGED <<session, lock, asked, target, selected, history>>

-----------------------------------------------------------------------------
(* submit_absence                                                          *)

\* Mutant: the preview's account is not compared with the selected student.
Confirmed_AnyAccount(c) == HasPreview(c)

\* The saved preview is this operation's and this student's.
Confirmed(c) == HasPreview(c) /\ record.account = target[c].student

\* check_absence with its reads, and the user again.
Check(c) ==
    /\ c \in Submit /\ Goto(c, "targeted", "checked")
    /\ Confirmed(c) /\ record.state = "prepared" /\ record.op \notin expired
    /\ Answer(c)
    /\ UNCHANGED <<disk, lock, asked, target, selected, history>>

\* Mutant: the request is sent from the preview as it is.
MarkSubmitting_InMemory(c) ==
    /\ Goto(c, "checked", "post")
    /\ target[c].student = selected /\ record.op \notin expired
    /\ UNCHANGED <<disk, lock, memory, inna, history>>

\* Still selected, still in time: "submitting" on disk before the request.
MarkSubmitting(c) ==
    /\ Goto(c, "checked", "post")
    /\ target[c].student = selected /\ record.op \notin expired
    /\ record' = [record EXCEPT !.state = "submitting"]
    /\ UNCHANGED <<session, lock, memory, inna, history>>

MarkFails(c) ==
    /\ Goto(c, "checked", "leave")
    /\ target[c].student = selected /\ record.op \notin expired
    /\ record' \in {record, [record EXCEPT !.state = "submitting"]}
    /\ UNCHANGED <<session, lock, memory, inna, history>>

\* AddNewLeave, after a renewal of old cookies; it is never repeated.  It may fail
\* before it leaves, and its answer may be lost.
Post(c) ==
    /\ Answer(c)
    /\ \/ /\ \E to \in {"accepted", "uncertain"} : Goto(c, "post", to)
          /\ sent' = sent \cup
               {[op |-> asked[c], call |-> c, account |-> record.account, at |-> selected]}
       \/ Goto(c, "post", "uncertain") /\ UNCHANGED sent
    /\ UNCHANGED <<disk, lock, asked, target, selected, expired, recorded, spent>>

SaveSubmitted(c) ==
    /\ Goto(c, "accepted", "leave")
    /\ record' = [record EXCEPT !.state = "submitted"]
    /\ recorded' = recorded \cup {record.op}
    /\ UNCHANGED <<session, lock, memory, inna, expired, sent, spent>>

\* The save of a success fails, before or after its rename.
SaveFails(c) ==
    /\ Goto(c, "accepted", "uncertain")
    /\ \/ UNCHANGED <<record, recorded>>
       \/ /\ record' = [record EXCEPT !.state = "submitted"]
          /\ recorded' = recorded \cup {record.op}
    /\ UNCHANGED <<session, lock, memory, inna, expired, sent, spent>>

\* "unknown" on disk, or what was there if that write fails.
SaveUnknown(c) ==
    /\ Goto(c, "uncertain", "leave")
    /\ record' \in {record, [record EXCEPT !.state = "unknown"]}
    /\ UNCHANGED <<session, lock, memory, inna, history>>

-----------------------------------------------------------------------------
(* What else happens                                                       *)

Crash(c) ==
    /\ pc[c] \in Working
    /\ pc' = [pc EXCEPT ![c] = "crashed"]
    /\ Forget(c)
    /\ UNCHANGED <<disk, lock, inna, history>>

\* Ten minutes pass, or midnight.
Expire(op) ==
    /\ op \notin expired
    /\ expired' = expired \cup {op}
    /\ UNCHANGED <<disk, lock, pc, memory, inna, sent, recorded, spent>>

\* A sign-in or an import of any account, with cookies of its own; a logout.
\* Both are one hold, and neither touches the absence record.
ChangeSession ==
    /\ Free
    /\ \/ /\ issued < MaxCookies /\ issued' = issued + 1
          /\ selected' \in Student
          /\ session' = [account |-> selected', cookies |-> issued', place |-> "store"]
       \/ session' = None /\ UNCHANGED inna
    /\ UNCHANGED <<record, lock, pc, memory, history>>

Next ==
    \/ \E c \in Call :
        \/ Begin(c) \/ See(c) \/ SelectUnlisted(c) \/ Select(c) \/ Stop(c)
        \/ WriteBack(c) \/ WriteBackFails(c) \/ RemovalFails(c)
        \/ WritePreview(c) \/ Check(c) \/ MarkSubmitting(c) \/ MarkFails(c)
        \/ Post(c) \/ SaveSubmitted(c) \/ SaveFails(c) \/ SaveUnknown(c) \/ Crash(c)
    \/ \E op \in Prepare : Expire(op)
    \/ ChangeSession

Spec == Init /\ [][Next]_vars

-----------------------------------------------------------------------------
(* Properties                                                              *)

\* The schemas of the absence record and of the session, and the connection.
TypeOK ==
    /\ record \in Record \cup {None}
    /\ session \in Session \cup {None}
    /\ lock \in Call \cup {None}
    /\ pc \in [Call -> PC]
    /\ asked \in [Call -> Prepare \cup Key]
    /\ cookies \in [Call -> Cookies]
    /\ target \in [Call -> Target \cup {None}]
    /\ selected \in Student /\ issued \in Cookies
    /\ expired \subseteq Prepare /\ recorded \subseteq Prepare
    /\ sent \subseteq [op: Prepare, call: Submit, account: Student, at: Student]
    /\ spent \in Cookies

\* However many hosts submit an approved preview, and wherever they die, it is
\* sent at most once (submit_absence: "neither is ever sent again").
SentOnce == \A a, b \in sent : a.op = b.op => a = b

\* An absence that left stays on record as uncertain until it is recorded as
\* submitted: no later preview, sign-in or failed write hides it, so that it
\* "stays reviewable" (absence_status, prepare_absence).
UncertainIsKept ==
    \A a \in sent :
        \/ a.op \in recorded
        \/ record # None /\ record.op = a.op /\ record.state # "prepared"

\* An absence reaches Inna while the student of its preview is selected, also when
\* other calls switch students and other accounts sign in between approval and
\* submission (submit_absence: "to the student it was prepared for").
SentForItsStudent == \A a \in sent : a.at = a.account

\* Cookies that Inna replaced and that a hold could not save, or that it did
\* replace on disk, are not on disk any more when the hold ends (write_back:
\* "rotated cookies must never be offered again").
NoStaleCookies == session # None => session.cookies >= spent

===============================================================================
