---------------------------- MODULE InfoMentorMcp ----------------------------
(***************************************************************************)
(* Three parts of infomentor-mcp that share no state: the client's calls   *)
(* and the session that they save (InfoMentorClient), the collection of    *)
(* updates (Collection), a read of that client which keeps snapshots, and  *)
(* the requests of a call with their cookies (InfoMentorHttp).             *)
(***************************************************************************)
EXTENDS InfoMentorClient, Sequences

CONSTANTS Children, Listed, Message, FirstMail, MaxPages, IncludeExisting, Retention, MaxCalls,
          MaxChanges, MaxSkips,  \* of Collection; Children is its Child
          Host, Stranger, Root, Address, Top, Offer, HostKey, Retry, MaxPause, Never,
          MaxHops,               \* of InfoMentorHttp
          MaxTime                \* of both

VARIABLES pupils, selected, mail, body, board, files, now, step, input, initial, original,
          previous, current, skipped, left, page, todo, unread, failed, answer, cursor, view,
          calls, changes, skips, fresh, gone, deleted, meddled

VARIABLES time, url, form, hops, jar, cooldown, saved, sent, home, paused

Coll == INSTANCE Collection WITH Child <- Children, pc <- step, seen <- unread

Http == INSTANCE InfoMentorHttp WITH now <- time, asked <- paused

ASSUME CollAssumption == Coll!CollectionAssumption

ASSUME HttpAssumption == Http!HttpAssumption

-----------------------------------------------------------------------------
(* The properties of Collection, stated there                              *)

\* A caller that handled the answers up to its cursor knows what the cursor's
\* snapshot holds (collect_updates).
ViewIsSnapshot == Coll!ViewIsSnapshot

\* An answered snapshot holds what the children's own feeds showed during the scan,
\* and misses nothing that they showed all the time (Scan).
ScanIsTrue == Coll!ScanIsTrue

\* A call that answers, or fails without saying so, leaves the child selected that
\* was selected before it (Scan::restore).
OriginalIsBack == Coll!OriginalIsBack

\* What a call of collect_updates answers is true of the portal and of its cursor.
CallsAreTrue == ViewIsSnapshot /\ ScanIsTrue

-----------------------------------------------------------------------------
(* The properties of InfoMentorHttp, stated there                          *)

\* A form goes to no other host than its own, and no host is sent the cookie that
\* another one keeps to itself (Http::hops, Jar::header).
SecretsStayHome == Http!SecretsStayHome

\* A pause that InfoMentor asks for is kept, also after a restart, and is bounded
\* (Http::request, SavedSession::cooldown).
PauseIsKept == Http!PauseIsKept

\* A restored session sends what the one that was saved would (capture, Jar::import).
RestoredSendsSame == Http!RestoredSendsSame
=============================================================================
