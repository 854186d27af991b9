------------------------------ MODULE InnaReads ------------------------------
(***************************************************************************)
(* Reads of Inna and the keep-alive of its session                         *)
(* (rust/inna-mcp/src/client.rs, session.rs, server.rs).                   *)
(*                                                                         *)
(* Hosts share one saved session.  Every operation holds its lock and      *)
(* talks to Inna with the saved cookies, which any answer may replace; the *)
(* lock makes one connection at a time, whose variables are global here.   *)
(* Inna answers for the student that is selected, and the owner's browser  *)
(* may share the session and select another one.  A read is for the        *)
(* student of a key: it looks at the user before and after, has Inna       *)
(* switch where needed, and verifies cookies before school data.  Cookies  *)
(* are numbered in the order Inna issues them.                             *)
(***************************************************************************)
EXTENDS Naturals, FiniteSets

CONSTANTS
    Host,     \* processes that serve
    Student,  \* students of the login
    Own,      \* the student the session was saved for
    None,     \* nothing: no session, no holder, no cookies
    MaxJar    \* bound: cookies that Inna issues

VARIABLES
    saved,    \* the saved session
    refused,  \* Client.refused of each host, in memory
    telling,  \* a refusal that a host's keep-alive has still to note
    lock,     \* the host whose operation holds the session
    step,     \* where the operation is
    back,     \* where a renewal returns to
    key,      \* the student asked for
    jar, learned, pause, fresh, retried,  \* the connection
    served,   \* students whose data the operation has read
    answer,   \* what the last read answered, for whom
    inna,     \* the selected student, the last cookies, whether they are signed in
    history   \* limited, forgotten, moved, verified, left

connection == <<back, key, jar, learned, pause, fresh, retried, served>>
vars == <<saved, refused, telling, lock, step, connection, answer, inna, history>>

-----------------------------------------------------------------------------
Jar   == 0..MaxJar
Saved == [jar: Jar, learned: SUBSET Student, pause: BOOLEAN]

Looks == {"user", "again", "check", "renew", "touch"}   \* requests of the user endpoint
Asks  == Looks \cup {"switch", "read"}
Recovers == Asks \ {"renew", "touch"}
Step  == Asks \cup {"idle", "kept", "answered", "failed", "refused"}

\* The connection goes with its hold.
Dropped ==
    /\ lock' = None /\ step' = "idle" /\ back' = "idle"
    /\ key' = Own /\ jar' = 0 /\ learned' = {}
    /\ pause' = FALSE /\ fresh' = FALSE /\ retried' = FALSE /\ served' = {}

Init ==
    /\ saved = [jar |-> 0, learned |-> {}, pause |-> FALSE]
    /\ refused = [h \in Host |-> None] /\ telling = [h \in Host |-> None]
    /\ lock = None /\ step = "idle" /\ back = "idle"
    /\ key = Own /\ jar = 0 /\ learned = {}
    /\ pause = FALSE /\ fresh = FALSE /\ retried = FALSE /\ served = {}
    /\ answer = None
    /\ inna \in [selected: Student, issued: {0}, alive: {TRUE}]
    /\ history = [limited |-> FALSE, forgotten |-> FALSE, moved |-> FALSE,
                  verified |-> None, left |-> [h \in Host |-> None]]

-----------------------------------------------------------------------------
(* A hold                                                                  *)

\* locked, session, persisting: the saved cookies and pause.
Opens(h, first) ==
    /\ lock = None /\ lock' = h
    /\ step' = first
    /\ saved # None
    /\ jar' = saved.jar /\ learned' = saved.learned /\ pause' = saved.pause
    /\ fresh' = FALSE /\ retried' = FALSE /\ served' = {}
    /\ answer' = None
    /\ history' = [history EXCEPT !.moved = FALSE, !.verified = None]
    /\ UNCHANGED <<saved, refused, telling, back, inna>>

\* with_student: what every read starts with; pick decides the key.
Begin(h) ==
    /\ Opens(h, "user")
    /\ key' \in Student

\* renew, from the timer: nothing is sent for cookies that were refused, or in a pause.
Touch(h) ==
    /\ telling[h] = None
    /\ saved # None => saved.jar # refused[h] /\ ~saved.pause
    /\ Opens(h, "touch")
    /\ UNCHANGED key

\* write_back: the cookies, the pause and the students learned, whatever the outcome.
Leave ==
    /\ step \in {"kept", "answered", "failed", "refused"}
    /\ Dropped
    /\ UNCHANGED <<refused, inna>>

\* A cookie set by the refusal counts.
Refusal == jar

WriteBack ==
    /\ Leave
    /\ saved' = [jar |-> jar, learned |-> learned, pause |-> pause]
    /\ answer' = IF step = "answered" THEN [key |-> key, served |-> served] ELSE None
    /\ IF step = "refused"
       THEN /\ telling' = [telling EXCEPT ![lock] = Refusal]
            /\ history' = [history EXCEPT !.left[lock] = jar]
       ELSE UNCHANGED <<telling, history>>

\* The write fails, and so does the operation.  Cookies that were replaced
\* leave the store with the record; a plaintext file keeps the old ones.
WriteBackFails ==
    /\ Leave
    /\ saved' \in IF jar = saved.jar THEN {saved} ELSE {saved, None}
    /\ answer' = None
    /\ history' = [history EXCEPT !.forgotten = @ \/ (pause /\ ~saved.pause) \/ saved' = None]
    /\ UNCHANGED telling

\* keep_alive notes the refusal after its hold.
Tell(h) ==
    /\ telling[h] # None
    /\ refused' = [refused EXCEPT ![h] = telling[h]]
    /\ telling' = [telling EXCEPT ![h] = None]
    /\ UNCHANGED <<saved, lock, step, connection, answer, inna, history>>

-----------------------------------------------------------------------------
(* Requests                                                                *)

\* Inna takes these cookies.
Accepts == inna.alive /\ jar = inna.issued

\* Jar::set, put: the cookies that an answer may leave in the jar, which a cookie
\* replaces with its domain, path and name: those there, or the ones Inna issues.
Kept == {jar, inna.issued + 1} \cap Jar

\* capture: an answer may replace the cookies, which have then to be verified.
Captures ==
    /\ jar' \in Kept
    /\ inna' = [inna EXCEPT !.issued = IF jar' = jar THEN @ ELSE jar', !.alive = @ /\ Accepts]

Ends(as) == step' = as /\ UNCHANGED back

\* request_once sends only outside a pause.
Sends == step \in Asks /\ ~pause

Paused ==
    /\ step \in Asks /\ pause
    /\ Ends("failed")
    /\ UNCHANGED <<saved, refused, telling, lock, key, jar, learned, pause, fresh, retried, served,
                   answer, inna, history>>

\* bindings: the account's, those learned, and the read's own.
Known == {Own} \cup learned

\* Mutant: nothing is verified after the read.
StillSelected_Unchecked == TRUE

\* student_entries, selected_key, matches_entry: of the user's entries the one
\* that is selected, alone, is the key's and agrees with the user.
Matches == inna.selected = key

\* still_selected: the user after the read.
StillSelected == Matches

\* learn: a key is kept with the student first verified for it.
Learned == IF step \in {"user", "again"} /\ step' = "read" THEN learned \cup {key} ELSE learned

\* select, still_selected, renew: what follows from the user that Inna reports.
\* It may not list the student, or not as learned, and too many may be known.
Follows(to) ==
    \/ step \in {"user", "again"} /\ Matches /\ to = "read"
    \/ step = "user" /\ ~Matches /\ to = "switch"
    \/ step \in {"user", "again"} /\ to = "failed"
    \/ step = "check" /\ to = IF StillSelected THEN "answered" ELSE "failed"
    \/ step = "renew" /\ inna.selected \in Known /\ to = back
    \/ step = "renew" /\ inna.selected \notin Known /\ to = "failed"
    \/ step = "touch" /\ to = "kept"

\* The user, and cookies that are there: valid_session.
Looked ==
    /\ step \in Looks /\ Sends
    /\ Accepts /\ Captures
    /\ \E to \in Step : Follows(to) /\ Ends(to)
    /\ fresh' = (step # "renew" \/ inna.selected \in Known)
    /\ retried' = (retried /\ step = "renew")
    /\ learned' = Learned
    /\ history' = [history EXCEPT !.verified = jar']
    /\ UNCHANGED <<saved, refused, telling, lock, key, pause, served, answer>>

\* select_student: cookies only; Inna may not select the student.
Switched ==
    /\ step = "switch" /\ Sends
    /\ Accepts
    /\ jar' \in Kept
    /\ \E s \in {inna.selected, key} :
           inna' = [inna EXCEPT !.selected = s, !.issued = IF jar' = jar THEN @ ELSE jar']
    /\ Ends("again")
    /\ fresh' = (fresh /\ jar' = jar) /\ retried' = FALSE
    /\ UNCHANGED <<saved, refused, telling, lock, key, learned, pause, served, answer, history>>

\* request: school data on an unknown or old session is preceded by a renewal.
RenewsFirst ==
    /\ step = "read" /\ ~fresh /\ ~retried
    /\ step' = "renew" /\ back' = "read"
    /\ UNCHANGED <<saved, refused, telling, lock, key, jar, learned, pause, fresh, retried, served,
                   answer, inna, history>>

\* School data, of the student that is selected.
DataRead ==
    /\ step = "read" /\ Sends /\ fresh
    /\ Accepts /\ Captures
    /\ served' = served \cup {inna.selected}
    /\ fresh' = (fresh /\ jar' = jar) /\ retried' = FALSE
    /\ UNCHANGED <<saved, refused, telling, lock, step, back, key, learned, pause, answer, history>>

\* The read has all it needs; the user is looked at again.
ReadEnds ==
    /\ step = "read"
    /\ Ends("check")
    /\ retried' = FALSE
    /\ UNCHANGED <<saved, refused, telling, lock, key, jar, learned, pause, fresh, served,
                   answer, inna, history>>

\* 401: the read and the switch recover once, a renewal and the timer do not.
Unauthorized ==
    /\ Sends
    /\ ~Accepts /\ Captures
    /\ fresh' = FALSE
    /\ IF step \in Recovers /\ ~retried
       THEN step' = "renew" /\ back' = step /\ retried' = TRUE
       ELSE Ends(IF step = "touch" THEN "refused" ELSE "failed") /\ UNCHANGED retried
    /\ UNCHANGED <<saved, refused, telling, lock, key, learned, pause, served, answer, history>>

\* A redirect asks to sign in without a recovery.
Redirected ==
    /\ Sends
    /\ ~Accepts /\ Captures
    /\ fresh' = FALSE
    /\ Ends(IF step = "touch" THEN "refused" ELSE "failed")
    /\ UNCHANGED <<saved, refused, telling, lock, key, learned, pause, retried, served, answer,
                   history>>

\* 429: the pause is kept with the session.
Limited ==
    /\ Sends
    /\ Ends("failed")
    /\ pause' = TRUE
    /\ history' = [history EXCEPT !.limited = TRUE, !.forgotten = FALSE]
    /\ UNCHANGED <<saved, refused, telling, lock, key, jar, learned, fresh, retried, served, answer,
                   inna>>

\* The network, another answer, the deadline, a reload that fails: Inna may
\* have acted, also with new cookies that never arrive.
Fails ==
    /\ Sends
    /\ Ends("failed")
    /\ \E n \in {inna.issued, inna.issued + 1} \cap Jar,
          s \in {inna.selected} \cup (IF step = "switch" THEN {key} ELSE {}) :
           inna' = [inna EXCEPT !.issued = n, !.selected = s]
    /\ UNCHANGED <<saved, refused, telling, lock, key, jar, learned, pause, fresh, retried, served,
                   answer, history>>

-----------------------------------------------------------------------------
(* What else happens                                                       *)

\* A host ends, and what it remembered with it; another one starts.
Crash(h) ==
    /\ refused' = [refused EXCEPT ![h] = None]
    /\ telling' = [telling EXCEPT ![h] = None]
    /\ history' = [history EXCEPT !.left[h] = None,
                                  !.forgotten = @ \/ (lock = h /\ pause /\ ~saved.pause)]
    /\ IF lock = h THEN Dropped ELSE UNCHANGED <<lock, step, connection>>
    /\ UNCHANGED <<saved, answer, inna>>

\* save_sign_in: a new session of the same student, verified, with the pause
\* and the students of the one it replaces.
Login ==
    /\ lock = None /\ inna.issued < MaxJar
    /\ saved # None => ~saved.pause
    /\ inna' = [selected |-> Own, issued |-> inna.issued + 1, alive |-> TRUE]
    /\ saved' = [jar |-> inna.issued + 1, pause |-> FALSE,
                 learned |-> {Own} \cup (IF saved = None THEN {} ELSE saved.learned)]
    /\ UNCHANGED <<refused, telling, lock, step, connection, answer, history>>

Logout ==
    /\ lock = None /\ saved # None
    /\ saved' = None
    /\ history' = [history EXCEPT !.forgotten = TRUE]
    /\ UNCHANGED <<refused, telling, lock, step, connection, answer, inna>>

\* Inna ends the session.
SignedOut ==
    /\ inna.alive /\ inna' = [inna EXCEPT !.alive = FALSE]
    /\ UNCHANGED <<saved, refused, telling, lock, step, connection, answer, history>>

\* The owner's browser selects another student: at most once in a read.
Selects(s) ==
    /\ lock # None => ~history.moved
    /\ inna.selected # s
    /\ inna' = [inna EXCEPT !.selected = s]
    /\ history' = [history EXCEPT !.moved = lock # None]
    /\ UNCHANGED <<saved, refused, telling, lock, step, connection, answer>>

\* More than max_renewal_age passes: no recovery takes that long.
Ages ==
    /\ fresh /\ ~retried
    /\ fresh' = FALSE
    /\ history' = [history EXCEPT !.verified = None]
    /\ UNCHANGED <<saved, refused, telling, lock, step, back, key, jar, learned, pause, retried,
                   served, answer, inna>>

\* pause_until has passed.
PauseEnds ==
    /\ history.limited
    /\ history' = [history EXCEPT !.limited = FALSE, !.forgotten = FALSE]
    /\ pause' = FALSE
    /\ saved' = IF saved = None THEN None ELSE [saved EXCEPT !.pause = FALSE]
    /\ UNCHANGED <<refused, telling, lock, step, back, key, jar, learned, fresh, retried, served,
                   answer, inna>>

-----------------------------------------------------------------------------
Next ==
    \/ \E h \in Host : Begin(h) \/ Touch(h) \/ Tell(h) \/ Crash(h)
    \/ WriteBack \/ WriteBackFails
    \/ Paused \/ Looked \/ Switched \/ RenewsFirst \/ DataRead \/ ReadEnds
    \/ Unauthorized \/ Redirected \/ Limited \/ Fails
    \/ Login \/ Logout \/ SignedOut \/ Ages \/ PauseEnds
    \/ \E s \in Student : Selects(s)

Spec == Init /\ [][Next]_vars

-----------------------------------------------------------------------------
(* Properties                                                              *)

TypeOK ==
    /\ saved \in Saved \cup {None}
    /\ refused \in [Host -> Jar \cup {None}] /\ telling \in [Host -> Jar \cup {None}]
    /\ lock \in Host \cup {None} /\ step \in Step /\ back \in Step
    /\ key \in Student /\ jar \in Jar /\ learned \in SUBSET Student
    /\ pause \in BOOLEAN /\ fresh \in BOOLEAN /\ retried \in BOOLEAN
    /\ served \in SUBSET Student
    /\ answer \in [key: Student, served: SUBSET Student] \cup {None}
    /\ inna \in [selected: Student, issued: Jar, alive: BOOLEAN]
    /\ history \in [limited: BOOLEAN, forgotten: BOOLEAN, moved: BOOLEAN,
                    verified: Jar \cup {None}, left: [Host -> Jar \cup {None}]]

\* A read that answers has read school data of the student it was asked for and
\* of nobody else, although Inna serves whoever is selected and the owner's
\* browser may select another one at any moment (with_student).
ReadsTheStudent == answer # None => answer.served \subseteq {answer.key}

\* Nothing is sent in a pause that Inna asked for, unless the pause could not be
\* saved or the session went; the keep-alive does not send what its refusal left;
\* school data is read with cookies that were verified and not replaced since
\* (Connection, keep_alive).
SentWithCause ==
    /\ Sends /\ history.limited => history.forgotten
    /\ step = "touch" => jar # history.left[lock]
    /\ step = "read" /\ fresh => history.verified = jar

=============================================================================
