------------------------------- MODULE InnaMcp -------------------------------
(***************************************************************************)
(* Three parts of inna-mcp, each with its own view of the saved session:   *)
(* absences (InnaAbsence), reads and the keep-alive (InnaReads), and the   *)
(* guard of sign-ins from a chat (InnaSignIn).                             *)
(***************************************************************************)
EXTENDS InnaAbsence

CONSTANTS Host,                                     \* of the two others
          Own, MaxJar,                              \* of InnaReads
          Lease, Cooldown, Day, Limit, Timeout,     \* of InnaSignIn
          Delay, MaxTime, MaxBack, MaxLogouts

VARIABLES saved, refused, telling, holder, step, back, key, jar, learned, pause, fresh, retried,
          served, answer, portal, past

Read == INSTANCE InnaReads WITH lock <- holder, inna <- portal, history <- past

VARIABLES guard, at, lease, since, outcome, real, earlier, started, logouts, old

Sign == INSTANCE InnaSignIn WITH pc <- at, back <- earlier

\* Nothing is also a host, a set of cookies or a session; the session has a student.
ASSUME ReadsAssumption ==
    /\ MaxJar \in Nat /\ Own \in Student
    /\ None \notin Host \cup Read!Jar \cup Read!Saved

ASSUME SignAssumption == Sign!SignInAssumption

-----------------------------------------------------------------------------
(* The properties of InnaReads and InnaSignIn, stated there                *)

\* A read answers school data of the student it was asked for (with_student).
ReadsTheStudent == Read!ReadsTheStudent

\* Nothing is sent in a known pause, no keep-alive sends what its refusal left, and
\* school data is read with verified cookies (Connection, keep_alive).
SentWithCause == Read!SentWithCause

\* One person is asked by one host at a time, unless there was a logout between two
\* prompts (Guard::reserve).
OnePrompt == Sign!OnePrompt

\* In no stretch of one day do more than LIMIT sign-ins start without a logout
\* (Guard::reserve).
CapKept == Sign!CapKept

\* A person is asked seldom: once at a time, and a bounded number of times a day.
PromptsAreRare == OnePrompt /\ CapKept

\* A read sends what it may and answers with what is its student's.
ReadsAreDue == ReadsTheStudent /\ SentWithCause
=============================================================================
