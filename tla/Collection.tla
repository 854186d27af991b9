------------------------------ MODULE Collection ------------------------------
(***************************************************************************)
(* InfoMentor's collection (rust/infomentor-mcp/src/collection.rs): one    *)
(* call scans the feeds of every child, by selecting one after the other   *)
(* in the account, compares them with the snapshot that the caller's       *)
(* cursor names, and answers what changed and a cursor to the new          *)
(* snapshot.  The caller takes the answers one after the other, and may    *)
(* lose some; it then calls again with the cursor that it has.             *)
(*                                                                         *)
(* What the school shows changes while a scan pages through it, and the    *)
(* account's selected child is shared with every other client of the       *)
(* account.  A request is one step; a message or a feed is its name and    *)
(* the version that its hash tells apart.  The account's file lock keeps   *)
(* calls apart (FileLock), so that there is one at a time.                 *)
(***************************************************************************)
EXTENDS Naturals, Sequences, SequencesExt, Functions

CONSTANTS
    Child,       \* the children of the account
    Listed,      \* the order in which the portal lists some of them
    Message,     \* messages of the folder
    FirstMail,   \* what their folders list to begin with
    MaxPages,    \* maxMessagePages; a page holds one message
    IncludeExisting, \* includeExisting, of a call without a cursor
    Retention,   \* RETENTION
    MaxCalls,    \* bound: calls, each of which may name a new cursor
    MaxChanges,  \* bound: changes at the school or of the selection
    MaxSkips,    \* bound: reads that skip a malformed row
    MaxTime,     \* bound: the clock
    None

\* What is assumed of the constants.
CollectionAssumption ==
    /\ Child # {} /\ Listed \in [SUBSET Child -> Seq(Child)]
    /\ \A S \in SUBSET Child : Range(Listed[S]) = S /\ IsInjective(Listed[S])
    /\ {MaxPages, Retention, MaxCalls, MaxChanges, MaxSkips, MaxTime} \subseteq Nat
    /\ FirstMail \in [Child -> Seq(Message)]
    /\ MaxPages > 0 /\ IncludeExisting \in BOOLEAN /\ None \notin Child \cup Message \cup Nat

VARIABLES
    pupils, selected,  \* the account: its children and the one selected
    mail,              \* messages that a child's folder lists, newest first
    body,              \* the version of a message
    board,             \* the version of a child's timetable and notification
    files, now,        \* snapshots by cursor, and the clock
    pc, input,         \* the call's step and its cursor
    initial, original, \* the children and the selected one as it began
    previous, current, \* fingerprints of its cursor, and those it has seen
    skipped,           \* kinds with a skipped row
    left,              \* children still to scan, the one at work first
    page, todo, seen,  \* of the folder: the page, its unread message and whether
                       \* more pages follow, and the messages listed
    failed, answer,    \* whether the scan failed, and what the call returns
    cursor, view,      \* the caller: its cursor, and what it was told up to there
    calls, changes, skips,
    fresh, gone,       \* history: items that appeared and vanished during a scan
    deleted, meddled   \* history: a message was deleted; when the selection changed

school  == <<mail, body, board>>
account == <<pupils, selected>>
folder  == <<page, todo, seen>>
scan    == <<initial, original, previous, current, skipped, left, folder, failed>>
caller  == <<cursor, view>>
bounds  == <<calls, changes, skips>>
shown   == <<fresh, gone, deleted, meddled>>
vars    == <<school, account, files, now, pc, input, scan, answer, caller, bounds, shown>>

-----------------------------------------------------------------------------
Plain    == {"timetable", "notification"}
Kind     == Plain \cup {"child", "message"}
Key      == Kind \X (Message \cup Plain \cup {"child"}) \X Child
Scanning == {"child", "select", "timetable", "page", "message", "notification", "confirm"}
Restoring == {"restore", "reselect", "verify"}
Saving   == {"compute", "touch", "prune"}
Ends     == {"answered", "failed", "unrestored"}
Empty    == <<>>

\* What the feeds of child c show, as the scan keys and hashes it.
Items(c, m, b, p) ==
    {<<<<"child", "child", c>>, 1>>}
    \cup {<<<<"message", x, c>>, b[x]>> : x \in Range(m[c])}
    \cup {<<<<k, k, c>>, p[c][k]>> : k \in {q \in Plain : p[c][q] > 0}}
Shows(cs, m, b, p) == UNION {Items(c, m, b, p) : c \in cs}
Pairs(f)    == {<<k, f[k]>> : k \in DOMAIN f}
Put(f, k, v) == [x \in DOMAIN f \cup {k} |-> IF x = k THEN v ELSE f[x]]
Expired(c)  == now - files[c].used > Retention

Init ==
    /\ pupils = Child /\ selected = Head(Listed[Child])
    /\ mail = FirstMail
    /\ body = [m \in Message |-> 1]
    /\ board = [c \in Child |-> [k \in Plain |-> IF k = "timetable" THEN 1 ELSE 0]]
    /\ files = Empty /\ now = 0
    /\ pc = "idle" /\ input = None
    /\ initial = {} /\ original = None /\ previous = Empty /\ current = Empty
    /\ skipped = {} /\ left = <<>> /\ page = 0 /\ todo = None /\ seen = {}
    /\ failed = FALSE /\ answer = None
    /\ cursor = None /\ view = Empty
    /\ calls = 0 /\ changes = 0 /\ skips = 0
    /\ fresh = {} /\ gone = {} /\ deleted = FALSE /\ meddled = "no"

-----------------------------------------------------------------------------
(* The call begins: the parent page, then the cursor's snapshot. *)

Readable(c) == c \in DOMAIN files /\ ~Expired(c)

Call ==
    /\ pc = "idle" /\ calls < MaxCalls
    /\ calls' = calls + 1
    /\ cursor # None => Readable(cursor)
    /\ input' = cursor
    /\ initial' = pupils /\ original' = selected /\ left' = Listed[pupils]
    /\ previous' = IF cursor = None THEN Empty ELSE files[cursor].items
    /\ pc' = "child"
    /\ UNCHANGED <<school, account, files, now, current, skipped, folder, failed, answer,
                   caller, changes, skips, shown>>

\* CURSOR_ERROR, and the caller omits the cursor from then on.
RefuseCursor ==
    /\ pc = "idle" /\ calls < MaxCalls /\ cursor # None /\ ~Readable(cursor)
    /\ calls' = calls + 1 /\ cursor' = None /\ view' = Empty
    /\ UNCHANGED <<school, account, files, now, pc, input, scan, answer, changes, skips, shown>>

-----------------------------------------------------------------------------
(* The scan. *)

Going == UNCHANGED <<school, files, now, input, initial, original, previous, answer, caller,
                     calls, changes, shown>>

\* Scan::children gives up; what was selected is to be restored.
GiveUp ==
    /\ failed' = TRUE /\ pc' = "restore"
    /\ previous' = Empty /\ current' = Empty /\ skipped' = {} /\ left' = <<>>
    /\ page' = 0 /\ todo' = None /\ seen' = {}
    /\ fresh' = {} /\ gone' = {} /\ deleted' = FALSE
    /\ UNCHANGED <<school, pupils, files, now, input, initial, original, answer, caller, bounds, meddled>>
Fail == GiveUp /\ UNCHANGED selected

\* A request fails or is cancelled, or its answer is malformed or too large.
RequestFails == pc \in Scanning /\ Fail

\* confirm: the children are those of the first page.
Confirmed == pupils = initial

Add(k, id, v) == current' = Put(current, <<k, id, Head(left)>>, v)

\* The parent page before a child: is it the one selected?
VisitChild ==
    /\ pc = "child" /\ left # <<>>
    /\ \/ ~Confirmed /\ Fail
       \/ /\ Confirmed
          /\ IF selected = Head(left)
             THEN Add("child", "child", 1) /\ pc' = "timetable"
             ELSE pc' = "select" /\ UNCHANGED current
          /\ UNCHANGED <<account, skipped, left, folder, failed, skips>> /\ Going

\* The parent page after the last child.
EndScan ==
    /\ pc = "child" /\ left = <<>>
    /\ \/ ~Confirmed /\ Fail
       \/ /\ Confirmed /\ pc' = "restore"
          /\ UNCHANGED <<account, current, skipped, left, folder, failed, skips>> /\ Going

\* select_child, and the page that it returns.
SelectChild ==
    /\ pc = "select"
    /\ \/ ~Confirmed /\ Fail
       \/ /\ Confirmed /\ selected' = Head(left)
          /\ Add("child", "child", 1) /\ pc' = "timetable"
          /\ UNCHANGED <<pupils, skipped, left, folder, failed, skips>> /\ Going

\* Mutant: a selection without an answer counts as none.
SelectUnanswered_Ends ==
    /\ pc = "select" /\ Head(left) \in pupils
    /\ selected' = Head(left) /\ pc' = "failed" /\ failed' = TRUE
    /\ UNCHANGED <<pupils, current, skipped, left, folder, skips>> /\ Going

\* The selection takes effect, and its answer does not come or shows other children.
SelectUnanswered ==
    /\ pc = "select" /\ Head(left) \in pupils
    /\ selected' = Head(left) /\ GiveUp

\* A feed that is read whole, in the context of the child that is selected now.
ReadPlain(k) ==
    /\ pc = k
    /\ \/ /\ IF board[selected][k] > 0 THEN Add(k, k, board[selected][k]) ELSE UNCHANGED current
          /\ UNCHANGED <<skipped, skips>>
       \/ /\ board[selected][k] > 0 /\ skips < MaxSkips
          /\ skips' = skips + 1 /\ skipped' = skipped \cup {k}
          /\ UNCHANGED current
    /\ IF k = "timetable" THEN pc' = "page" /\ page' = 1 ELSE pc' = "confirm" /\ UNCHANGED page
    /\ UNCHANGED <<account, left, todo, seen, failed>> /\ Going

\* After a page: the next one, or the feed after the folder.
TurnPage(follows) ==
    IF follows
    THEN pc' = "page" /\ page' = page + 1 /\ UNCHANGED seen
    ELSE pc' = "notification" /\ page' = 0 /\ seen' = {}

Listing == Len(mail[selected]) >= page
Follows == Len(mail[selected]) > page

\* A page of the folder, whose row may be malformed.
ReadPage ==
    /\ pc = "page"
    /\ \/ /\ ~Listing /\ TurnPage(FALSE)
          /\ UNCHANGED <<account, current, skipped, left, todo, failed, skips>> /\ Going
       \/ Listing /\ mail[selected][page] \in seen /\ Fail
       \/ /\ Listing /\ mail[selected][page] \notin seen
          /\ todo' = <<mail[selected][page], Follows>>
          /\ seen' = seen \cup {mail[selected][page]} /\ pc' = "message"
          /\ UNCHANGED <<account, current, skipped, left, page, failed, skips>> /\ Going
       \/ /\ Listing /\ skips < MaxSkips /\ ~(Follows /\ page = MaxPages)
          /\ skips' = skips + 1 /\ skipped' = skipped \cup {"message"} /\ TurnPage(Follows)
          /\ UNCHANGED <<account, current, left, todo, failed>> /\ Going

\* A message's body; there are more pages than maxMessagePages allows.
ReadMessage ==
    /\ pc = "message"
    /\ LET id == todo[1]  follows == todo[2] IN
       \/ (id \notin Range(mail[selected]) \/ (follows /\ page = MaxPages)) /\ Fail
       \/ /\ id \in Range(mail[selected]) /\ ~(follows /\ page = MaxPages)
          /\ Add("message", id, body[id])
          /\ todo' = None /\ TurnPage(follows)
          /\ UNCHANGED <<account, skipped, left, failed, skips>> /\ Going

\* The parent page after a child.
ConfirmChild ==
    /\ pc = "confirm"
    /\ \/ ~(Confirmed /\ selected = Head(left)) /\ Fail
       \/ /\ Confirmed /\ selected = Head(left)
          /\ left' = Tail(left) /\ pc' = "child"
          /\ UNCHANGED <<account, current, skipped, folder, failed, skips>> /\ Going

-----------------------------------------------------------------------------
(* restore, whose own deadline a cancelled scan does not end. *)

RestoreFixed == UNCHANGED <<school, pupils, files, now, input, initial, original, previous,
                            current, skipped, left, folder, failed, caller, bounds, shown>>

Restored == IF failed THEN pc' = "failed" ELSE pc' = "compute"

RestoreFails ==
    /\ pc \in Restoring /\ pc' = "unrestored"
    /\ UNCHANGED <<selected, answer>> /\ RestoreFixed

Restore ==
    /\ pc = "restore" /\ original \in pupils
    /\ pc' = IF selected = original THEN "verify" ELSE "reselect"
    /\ UNCHANGED <<selected, answer>> /\ RestoreFixed

\* The request, which takes effect whether or not its answer comes.
Reselect ==
    /\ pc = "reselect" /\ original \in pupils /\ selected' = original
    /\ pc' \in {"verify", "unrestored"}
    /\ UNCHANGED answer /\ RestoreFixed

Verify ==
    /\ pc = "verify" /\ selected = original /\ Restored
    /\ UNCHANGED <<selected, answer>> /\ RestoreFixed

-----------------------------------------------------------------------------
(* The answer and its snapshot. *)

Complete(S)   == {k \in DOMAIN S : k[1] \notin skipped}
HeldBack(S)   == {k \in DOMAIN S : k[1] \in skipped}
Known(k)      == IF input = None THEN ~IncludeExisting
                 ELSE k \in DOMAIN previous /\ previous[k] = current[k]

\* The new snapshot: what complete feeds show, and of the others what it was.
NextItems ==
    [k \in Complete(current) \cup HeldBack(previous) |->
        IF k[1] \in skipped THEN previous[k] ELSE current[k]]
\* Each update with its children, as the grouping by payload sends it.
Updates ==
    LET new == {k \in Complete(current) : ~Known(k)}
        same(k) == {q \in new : q[1] = k[1] /\ q[2] = k[2] /\ current[q] = current[k]}
    IN  {<<k[1], k[2], current[k], {q[3] : q \in same(k)}>> : k \in new}
Missing == {k \in Complete(previous) : k \notin DOMAIN current}
Unchanged == input # None /\ NextItems = previous

SaveFixed == UNCHANGED <<school, account, now, input, initial, original, previous, left, folder,
                         failed, caller, bounds, shown>>

SavingFails ==
    /\ pc \in {"compute", "touch"} /\ pc' = "failed" /\ answer' = None
    /\ current' = Empty /\ skipped' = {}
    /\ UNCHANGED files /\ SaveFixed

\* Mutant: a changed snapshot keeps the caller's cursor.
Compute_SameCursor ==
    /\ pc = "compute"
    /\ LET c == IF input # None THEN input ELSE calls IN
       /\ answer' = [cursor |-> c, updates |-> Updates, missing |-> Missing]
       /\ files' = IF Unchanged THEN files
                   ELSE Put(files, c, [items |-> NextItems, used |-> now])
    /\ pc' = IF input = None THEN "prune" ELSE "touch"
    /\ UNCHANGED <<current, skipped>>
    /\ SaveFixed

\* The cursor is the one handed in when nothing changed, or a new one.
Compute ==
    /\ pc = "compute"
    /\ LET c == IF Unchanged THEN input ELSE calls IN
       /\ answer' = [cursor |-> c, updates |-> Updates, missing |-> Missing]
       /\ files' = IF Unchanged THEN files
                   ELSE Put(files, c, [items |-> NextItems, used |-> now])
    /\ pc' = IF input = None THEN "prune" ELSE "touch"
    /\ UNCHANGED <<current, skipped>>
    /\ SaveFixed

\* The cursor that was handed in lasts from now on.
Touch ==
    /\ pc = "touch"
    /\ files' = [files EXCEPT ![input].used = now] /\ pc' = "prune"
    /\ UNCHANGED <<current, skipped, answer>>
    /\ SaveFixed

\* prune_snapshots, which stops at the first error.
Prune ==
    /\ pc = "prune"
    /\ \E old \in SUBSET {c \in DOMAIN files : Expired(c)} :
           files' = Restrict(files, DOMAIN files \ old)
    /\ pc' = "answered"
    /\ UNCHANGED <<current, skipped, answer>>
    /\ SaveFixed

-----------------------------------------------------------------------------
(* The caller, the school and the other clients of the account. *)

\* The scan is over: nothing of it stays.
Forget ==
    /\ pc' = "idle" /\ input' = None
    /\ initial' = {} /\ original' = None /\ previous' = Empty /\ current' = Empty
    /\ skipped' = {} /\ left' = <<>> /\ page' = 0 /\ todo' = None /\ seen' = {}
    /\ failed' = FALSE /\ answer' = None
    /\ fresh' = {} /\ gone' = {} /\ deleted' = FALSE /\ meddled' = "no"

\* What a caller that had v has been told once it takes the answer.
Told(v) ==
    LET updated(k) == {u \in answer.updates : u[1] = k[1] /\ u[2] = k[2] /\ k[3] \in u[4]}
        keys == (DOMAIN v \ answer.missing)
                \cup UNION {{<<u[1], u[2], c>> : c \in u[4]} : u \in answer.updates}
    IN  [k \in keys |-> IF updated(k) = {} THEN v[k] ELSE (CHOOSE u \in updated(k) : TRUE)[3]]

\* The caller handles the answer and keeps its cursor; a quiet baseline tells nothing.
TakeAnswer ==
    /\ pc = "answered"
    /\ cursor' = answer.cursor
    /\ view' = IF input = None /\ ~IncludeExisting THEN files[answer.cursor].items
               ELSE Told(view)
    /\ Forget
    /\ UNCHANGED <<school, account, files, now, bounds>>

\* The answer is lost or an error, or the server is killed.
LoseAnswer ==
    /\ pc \in Scanning \cup Restoring \cup Saving \cup Ends /\ Forget
    /\ UNCHANGED <<school, account, files, now, caller, bounds>>

\* A change at the school or of the account, and what a scan may see of it.
Change ==
    /\ changes < MaxChanges /\ changes' = changes + 1
    /\ pc = "idle" => calls < MaxCalls
    /\ IF pc # "idle" /\ ~failed
       THEN LET before == Shows(pupils, mail, body, board)
                after  == Shows(pupils', mail', body', board')
            IN  fresh' = fresh \cup (after \ before) /\ gone' = gone \cup (before \ after)
       ELSE UNCHANGED <<fresh, gone>>
    /\ UNCHANGED <<files, now, pc, input, scan, answer, caller, calls, skips>>

\* What the feeds show changes: once a scan is over, it may as well do so later.
Shifting == pc \in Scanning \cup {"idle"}

Arrive(c, m) ==
    /\ Shifting
    /\ m \notin Range(mail[c]) /\ mail' = [mail EXCEPT ![c] = <<m>> \o @]
    /\ UNCHANGED <<account, body, board, deleted, meddled>> /\ Change

Delete(c, m) ==
    /\ Shifting
    /\ \E i \in DOMAIN mail[c] : mail[c][i] = m /\ mail' = [mail EXCEPT ![c] = RemoveAt(@, i)]
    /\ deleted' = (pc # "idle")
    /\ UNCHANGED <<account, body, board, meddled>> /\ Change

Edit(m) ==
    /\ Shifting
    /\ body[m] = 1 /\ body' = [body EXCEPT ![m] = 2]
    /\ UNCHANGED <<account, mail, board, deleted, meddled>> /\ Change

Post(c, k) ==
    /\ Shifting
    /\ board[c][k] = 0 /\ board' = [board EXCEPT ![c][k] = 1]
    /\ UNCHANGED <<account, mail, body, deleted, meddled>> /\ Change

\* One change of the selection in a call: when was it?
Meddle ==
    /\ meddled = "no"
    /\ meddled' = IF pc = "idle" THEN "no" ELSE IF pc \in Scanning THEN "scan" ELSE "restore"

SelectOther(c) ==
    /\ c \in pupils \ {selected} /\ selected' = c
    /\ Meddle /\ UNCHANGED <<school, pupils, deleted>> /\ Change

\* A child leaves the account, which shows another one if it was selected.
Leaves(c) ==
    /\ pupils # {c} /\ c \in pupils /\ pupils' = pupils \ {c}
    /\ IF selected = c THEN selected' \in pupils' /\ Meddle ELSE UNCHANGED <<selected, meddled>>
    /\ UNCHANGED <<school, deleted>> /\ Change

\* Days, which no call lasts, once there is a cursor to grow old.
Tick ==
    /\ pc = "idle" /\ cursor # None /\ calls < MaxCalls /\ now < MaxTime /\ now' = now + 1
    /\ UNCHANGED <<school, account, files, pc, input, scan, answer, caller, bounds, shown>>

Scans   == VisitChild \/ EndScan \/ SelectChild \/ SelectUnanswered \/ ReadPage \/ ReadMessage
           \/ ConfirmChild \/ RequestFails \/ \E k \in Plain : ReadPlain(k)
Restores == Restore \/ Reselect \/ Verify \/ RestoreFails
Saves   == Compute \/ SavingFails \/ Touch \/ Prune
Outside == \/ \E c \in Child :
                \/ \E m \in Message : Arrive(c, m) \/ Delete(c, m)
                \/ \E k \in Plain : Post(c, k)
                \/ SelectOther(c) \/ Leaves(c)
           \/ \E m \in Message : Edit(m)
Next == Call \/ RefuseCursor \/ Scans \/ Restores \/ Saves \/ TakeAnswer \/ LoseAnswer \/ Outside
        \/ Tick

Spec == Init /\ [][Next]_vars

-----------------------------------------------------------------------------
TypeOK ==
    /\ pupils \subseteq Child /\ selected \in pupils
    /\ pc \in {"idle"} \cup Scanning \cup Restoring \cup Saving \cup Ends
    /\ mail \in [Child -> Seq(Message)] /\ body \in [Message -> 1..2]
    /\ board \in [Child -> [Plain -> 0..1]]
    /\ \A c \in DOMAIN files : DOMAIN files[c].items \subseteq Key /\ files[c].used \in 0..now
    /\ initial \subseteq Child /\ original \in Child \cup {None}
    /\ DOMAIN current \cup DOMAIN previous \subseteq Key /\ skipped \subseteq Kind
    /\ left \in Seq(Child) /\ page \in 0..MaxPages /\ seen \subseteq Message
    /\ {failed, deleted} \subseteq BOOLEAN /\ meddled \in {"no", "scan", "restore"}
    /\ cursor \in 1..calls \cup {None} /\ calls <= MaxCalls /\ now <= MaxTime

(* A caller that keeps a cursor only once it has handled its answer knows  *)
(* what the cursor's snapshot holds, through lost answers, failed calls    *)
(* and feeds that were incomplete: nothing that changed since is skipped   *)
(* for good (packages/infomentor-mcp/README.md:377, "its snapshot stays    *)
(* unchanged").                                                            *)
ViewIsSnapshot ==
    cursor # None /\ cursor \in DOMAIN files => view = files[cursor].items

(* A snapshot that is answered holds nothing that a child's own feeds did  *)
(* not show during the scan, and misses nothing of a complete feed that    *)
(* they showed all the time, although messages arrive between two pages,   *)
(* and another client selects another child once; a message that is        *)
(* deleted meanwhile may hide another from the pages.                      *)
ScanIsTrue ==
    pc = "answered" =>
        LET got   == {p \in Pairs(files[answer.cursor].items) : p[1][1] \notin skipped}
            shows == {p \in Shows(pupils, mail, body, board) : p[1][1] \notin skipped}
        IN  got \subseteq shows \cup gone /\ (~deleted => shows \ fresh \subseteq got)

(* A call that answers, or fails without saying so, leaves the child       *)
(* selected that was selected before it, although selections take effect   *)
(* without an answer, unless another client selects one after the scan.    *)
OriginalIsBack ==
    pc \in Saving \cup {"answered", "failed"} /\ meddled # "restore" => selected = original

===============================================================================
