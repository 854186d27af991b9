---------------------------- MODULE BrowserLogin ----------------------------
(***************************************************************************)
(* A login in a temporary browser (rust/browser-login/src/login.rs, as     *)
(* rust/abler-mcp/src/login.rs calls it): sweep what crashed logins left,  *)
(* make a profile, start a browser on it, wait for its debugging pipe,     *)
(* look for the session's cookies until the user has signed in, and clean  *)
(* up however that ended.                                                  *)
(*                                                                         *)
(* A browser is its processes: the leader that was spawned, which may be a *)
(* launcher that exits; a member of the leader's group; and a helper that  *)
(* left the group and still holds the pipe.  Any of them may end at any    *)
(* time.  A debugging request is one step, with the answer that the        *)
(* browser gives or none: one is in flight at a time and each has its own  *)
(* id, so that a late answer is nobody's.  Waits end when what they wait   *)
(* for is there, or by their timeout.                                      *)
(***************************************************************************)
EXTENDS Naturals

CONSTANTS
    Login,     \* calls of login_in_browser, each in a process of its own
    Supplied,  \* those that find a browser
    Reached,   \* bound: those that a signal may reach, or a crash
    Tab,       \* pages of the site that a browser shows
    FollowTab, \* FOLLOW_TAB: the tabs are listed on every attempt
    None

\* What is assumed of the constants.
BrowserAssumption ==
    /\ Supplied \subseteq Login /\ Reached \subseteq Login
    /\ FollowTab \in BOOLEAN
    /\ None \notin Login \cup Tab

VARIABLES
    dirs,      \* profiles in the temporary directory
    old,       \* those of an age that the sweep takes
    todo,      \* entries that a login's sweep has still to look at
    victim,    \* the profile that a login's sweep removes now
    procs,     \* a browser's processes
    main,      \* the process that the profile's SingletonLock names
    broken,    \* pipes that a malformed frame closed
    tab,       \* the page of the site that a browser shows, or None
    complete,  \* browsers with a whole session's cookies
    link,      \* Pipe.session: "none", "live", or "ended" by the browser
    target,    \* Pipe.target
    told,      \* an ended attachment whose event has not been read
    page,      \* the tab that capture attaches to
    pc, outcome,
    owned,     \* browsers that answered on their pipe
    ready,     \* those that answered before any cancel
    late,      \* asked_after_cancel
    asked,     \* browsers that were told to close
    cleanup,   \* cleanup_error
    kept,      \* browsers that were left to the user
    coming,    \* logins whose signal task has seen that signals cancel
    cancelled  \* the cancel flag, which that task sets next

folder   == <<dirs, old, todo, victim>>
browser  == <<procs, main, broken, tab, complete>>
wire     == <<link, target, told, page>>
start    == <<owned, ready, late>>
saved    == <<asked, cleanup, kept>>
flags    == <<start, saved>>
signals  == <<coming, cancelled>>
vars     == <<folder, browser, wire, pc, outcome, flags, signals>>

-----------------------------------------------------------------------------
Group   == {"leader", "member"}
Part    == Group \cup {"helper"}
Error   == {"Cancelled", "NoBrowser", "NoPipe", "Closed", "TimedOut", "StillRunning",
            "ProfileNotRemoved", "Unknown"}
Outcome == Error \cup {"session", "none"}

Sweeping  == {"sweep", "remove"}
Capturing == {"list", "attach", "cookies"}
Waiting   == {"wait", "pause"} \cup Capturing
Closing   == {"close", "asked", "terminate", "termed", "killed", "last"}
Ended     == {"done", "crashed"}
AtWork    == Sweeping \cup {"find", "spawn", "starting", "version"} \cup Waiting
             \cup Closing \cup {"clean", "tidy", "returned", "stopped"}
PC        == AtWork \cup Ended \cup {"idle"}

Init ==
    /\ dirs = {} /\ old = {}
    /\ todo = [l \in Login |-> {}] /\ victim = [l \in Login |-> None]
    /\ procs = [l \in Login |-> {}] /\ main = [l \in Login |-> None]
    /\ broken = {} /\ complete = {}
    /\ tab = [l \in Login |-> None] /\ target = [l \in Login |-> None]
    /\ link = [l \in Login |-> "none"] /\ told = {}
    /\ page = [l \in Login |-> None]
    /\ pc = [l \in Login |-> "idle"] /\ outcome = [l \in Login |-> "none"]
    /\ owned = {} /\ ready = {} /\ late = {} /\ asked = {} /\ kept = {}
    /\ cleanup = [l \in Login |-> "none"]
    /\ coming = {} /\ cancelled = {}

Goto(l, from, to) == pc[l] \in from /\ pc' = [pc EXCEPT ![l] = to]

\* sign_in returns: login_until closes the browser, if there is one.
Return(l, from, to, with) ==
    /\ Goto(l, from, to)
    /\ outcome' = [outcome EXCEPT ![l] = with]

\* What a wait looks at counts no longer: the pages, the cookies, the attachment.
Forget(l) ==
    /\ tab' = [tab EXCEPT ![l] = None] /\ complete' = complete \ {l}
    /\ link' = [link EXCEPT ![l] = "none"] /\ told' = told \ {l}
    /\ target' = [target EXCEPT ![l] = None] /\ page' = [page EXCEPT ![l] = None]

End(l, from, with) == Return(l, from, "clean", with) /\ Forget(l) /\ late' = late \ {l}

\* Before there is a profile there is nothing to clean up.
Fail(l, from, with) ==
    Return(l, from, "done", IF l \in cancelled THEN "Cancelled" ELSE with)

\* The browser's processes that this login counts are gone.
Gone(l) == procs[l] \cap Group = {}

\* The pipe is closed, by its peer or by what arrived on it.
ClosedByPeer(l) == procs[l] = {} \/ l \in broken

\* The browser is up and would answer.
Up(l) == main[l] \in procs[l] /\ l \notin broken

-----------------------------------------------------------------------------
(* sign_in: the sweep, the profile, the browser                            *)

Begin(l) ==
    /\ Goto(l, {"idle"}, "sweep")
    /\ todo' = [todo EXCEPT ![l] = dirs]
    /\ UNCHANGED <<dirs, old, victim, browser, wire, outcome, flags, signals>>

\* profile_has_live_browser: the process that the lock names runs.
HasLiveBrowser(p) == main[p] # None /\ main[p] \in procs[p]

\* Mutant: an old profile is taken whatever runs on it.
Abandoned_ByAge(p) == p \in dirs \cap old

Abandoned(p) == p \in dirs \cap old /\ ~HasLiveBrowser(p)

\* Its age and its lock are looked at first, the tree is removed later.
SweepTakes(l, p) ==
    /\ Goto(l, {"sweep"}, "remove")
    /\ p \in todo[l] /\ Abandoned(p)
    /\ todo' = [todo EXCEPT ![l] = @ \ {p}]
    /\ victim' = [victim EXCEPT ![l] = p]
    /\ UNCHANGED <<dirs, old, browser, wire, outcome, flags, signals>>

\* Too young, in use, gone, or locked by a number that another process has now.
SweepSpares(l, p) ==
    /\ pc[l] = "sweep"
    /\ p \in todo[l] /\ (~Abandoned(p) \/ main[p] # None)
    /\ todo' = [todo EXCEPT ![l] = @ \ {p}]
    /\ UNCHANGED <<dirs, old, victim, browser, wire, pc, outcome, flags, signals>>

SweepRemoves(l) ==
    /\ Goto(l, {"remove"}, "sweep")
    /\ dirs' = dirs \ {victim[l]} /\ old' = old \ {victim[l]}
    /\ victim' = [victim EXCEPT ![l] = None]
    /\ UNCHANGED <<todo, browser, wire, outcome, flags, signals>>

\* The directory cannot be read, or a tree not be removed.
SweepFails(l) ==
    /\ Fail(l, Sweeping, "Unknown")
    /\ todo' = [todo EXCEPT ![l] = {}]
    /\ victim' = [victim EXCEPT ![l] = None]
    /\ UNCHANGED <<dirs, old, browser, wire, flags, signals>>

SweepEnds(l) ==
    /\ todo[l] = {} /\ l \notin cancelled
    /\ Goto(l, {"sweep"}, "find")
    /\ UNCHANGED <<folder, browser, wire, outcome, flags, signals>>

\* throw_if_cancelled, after the sweep and before the profile.
CancelledEarly(l) ==
    /\ l \in cancelled /\ todo[l] = {}
    /\ Fail(l, {"sweep", "find"}, "Cancelled")
    /\ UNCHANGED <<folder, browser, wire, flags, signals>>

FindFails(l) ==
    /\ l \notin Supplied
    /\ Fail(l, {"find"}, "NoBrowser")
    /\ UNCHANGED <<folder, browser, wire, flags, signals>>

MakeProfile(l) ==
    /\ l \in Supplied /\ l \notin cancelled
    /\ Goto(l, {"find"}, "spawn")
    /\ dirs' = dirs \cup {l}
    /\ UNCHANGED <<old, todo, victim, browser, wire, outcome, flags, signals>>

MakeProfileFails(l) ==
    /\ l \in Supplied /\ l \notin cancelled
    /\ Fail(l, {"find"}, "Unknown")
    /\ UNCHANGED <<folder, browser, wire, flags, signals>>

Spawn(l) ==
    /\ Goto(l, {"spawn"}, "starting")
    /\ procs' = [procs EXCEPT ![l] = {"leader"}]
    /\ UNCHANGED <<folder, main, broken, tab, complete, wire, outcome, flags, signals>>

SpawnFails(l) ==
    /\ Return(l, {"spawn"}, "tidy", "NoPipe")
    /\ UNCHANGED <<folder, browser, wire, flags, signals>>

-----------------------------------------------------------------------------
(* wait_for_pipe_debugging                                                 *)

\* sign_in looks at the flag before it looks at what the wait returned.
StartFails(l, from) ==
    End(l, from, IF l \in cancelled THEN "Cancelled" ELSE "NoPipe")

\* A cancel lets one more question be asked.
AskVersion(l) ==
    /\ ~(l \in cancelled /\ l \in late) /\ ~ClosedByPeer(l)
    /\ Goto(l, {"starting"}, "version")
    /\ late' = IF l \in cancelled THEN late \cup {l} ELSE late
    /\ UNCHANGED <<folder, browser, wire, outcome, owned, ready, saved, signals>>

\* A second turn after a cancel, a closed pipe, or the deadline.
GiveUpStart(l) ==
    /\ StartFails(l, {"starting"})
    /\ UNCHANGED <<folder, procs, main, broken, owned, ready, saved, signals>>

\* No answer within a second.
VersionFails(l) ==
    /\ Goto(l, {"version"}, "starting")
    /\ UNCHANGED <<folder, browser, wire, outcome, flags, signals>>

\* An answer without a product, or a malformed frame.
VersionInvalid(l) ==
    /\ StartFails(l, {"version"})
    /\ procs[l] # {}
    /\ broken' \in {broken, broken \cup {l}}
    /\ UNCHANGED <<folder, procs, main, owned, ready, saved, signals>>

Version(l) ==
    /\ Up(l)
    /\ owned' = owned \cup {l}
    /\ IF l \in cancelled
       THEN End(l, {"version"}, "Cancelled") /\ UNCHANGED ready
       ELSE /\ Goto(l, {"version"}, "wait") /\ late' = late \ {l}
            /\ ready' = ready \cup {l}
            /\ UNCHANGED <<tab, complete, wire, outcome>>
    /\ UNCHANGED <<folder, procs, main, broken, saved, signals>>

-----------------------------------------------------------------------------
(* wait_for_session and capture                                            *)

\* Mutant: an attachment that the browser does not know is kept.
Detached_Kept(l) == UNCHANGED <<link, target>>

\* The attachment has ended and is forgotten.  (Without one, target counts for nothing.)
Detached(l) ==
    /\ link' = [link EXCEPT ![l] = "none"]
    /\ target' = [target EXCEPT ![l] = None]

\* pump: the event of an ended attachment is read.
Read(l) ==
    /\ told' = told \ {l}
    /\ IF l \in told THEN Detached(l) ELSE UNCHANGED <<link, target>>

\* The top of the loop, and of an attempt.
Attempt(l) ==
    /\ l \notin cancelled /\ ~ClosedByPeer(l)
    /\ Read(l)
    /\ Goto(l, {"wait"}, IF link'[l] = "none" \/ FollowTab THEN "list" ELSE "cookies")
    /\ UNCHANGED <<folder, browser, page, outcome, flags, signals>>

\* The first page of the site; without one the attempt ends.
ListTabs(l) ==
    /\ Up(l) /\ Read(l)
    /\ IF tab[l] = None THEN Goto(l, {"list"}, "pause") /\ UNCHANGED page
       ELSE IF link'[l] = "none" \/ target[l] # tab[l]
       THEN Goto(l, {"list"}, "attach") /\ page' = [page EXCEPT ![l] = tab[l]]
       ELSE Goto(l, {"list"}, "cookies") /\ UNCHANGED page
    /\ UNCHANGED <<folder, browser, outcome, flags, signals>>

\* The event of its end may be read with the answer, and then counts for nothing.
Attach(l) ==
    /\ Goto(l, {"attach"}, "cookies")
    /\ Up(l) /\ tab[l] = page[l]
    /\ \E state \in {"live", "ended"} : link' = [link EXCEPT ![l] = state]
    /\ told' = told \ {l}
    /\ target' = [target EXCEPT ![l] = page[l]]
    /\ page' = [page EXCEPT ![l] = None]
    /\ UNCHANGED <<folder, browser, outcome, flags, signals>>

\* The page is no longer there.
AttachRefused(l) ==
    /\ Goto(l, {"attach"}, "pause")
    /\ Up(l) /\ tab[l] # page[l]
    /\ Read(l)
    /\ page' = [page EXCEPT ![l] = None]
    /\ UNCHANGED <<folder, browser, outcome, flags, signals>>

\* Network.getCookies: the session, not all of it yet, or an attachment that the
\* browser does not know.
Cookies(l) ==
    /\ Up(l)
    /\ \/ link[l] = "live" /\ l \in complete /\ End(l, {"cookies"}, "session")
       \/ /\ link[l] = "live" /\ l \notin complete /\ Goto(l, {"cookies"}, "pause")
          /\ UNCHANGED <<tab, complete, wire, outcome, late>>
       \/ /\ link[l] # "live" /\ Goto(l, {"cookies"}, "pause")
          /\ Detached(l) /\ told' = told \ {l}
          /\ UNCHANGED <<tab, complete, page, outcome, late>>
    /\ UNCHANGED <<folder, procs, main, broken, owned, ready, saved, signals>>

\* No answer in time, an error, a cancel, a closed pipe, or a malformed frame.
RequestFails(l) ==
    /\ Goto(l, Capturing, "pause")
    /\ Read(l)
    /\ broken' \in {broken, broken \cup {l}}
    /\ page' = [page EXCEPT ![l] = None]
    /\ UNCHANGED <<folder, procs, main, tab, complete, outcome, flags, signals>>

Pause(l) ==
    /\ l \notin cancelled
    /\ Goto(l, {"pause"}, "wait")
    /\ UNCHANGED <<folder, browser, wire, outcome, flags, signals>>

CancelledWaiting(l) ==
    /\ l \in cancelled
    /\ End(l, {"wait", "pause"}, "Cancelled")
    /\ UNCHANGED <<folder, procs, main, broken, owned, ready, saved, signals>>

BrowserClosed(l) ==
    /\ l \notin cancelled /\ ClosedByPeer(l)
    /\ End(l, {"wait"}, "Closed")
    /\ UNCHANGED <<folder, procs, main, broken, owned, ready, saved, signals>>

TimeOut(l) ==
    /\ End(l, {"wait"}, "TimedOut")
    /\ UNCHANGED <<folder, procs, main, broken, owned, ready, saved, signals>>

-----------------------------------------------------------------------------
(* login_until: the cleanup, and abler's login_in_browser                  *)

\* keep_browser, an option of the call, for a browser that was ready.
Keeps(l) ==
    /\ l \in owned \cap ready
    /\ Goto(l, {"clean"}, "tidy")
    /\ kept' = kept \cup {l} /\ broken' = broken \cup {l}
    /\ UNCHANGED <<folder, procs, main, tab, complete, wire, outcome, start, asked,
                   cleanup, signals>>

\* Browser.close to a browser that answered; any other is only signalled.
CloseBrowser(l) ==
    /\ \/ l \in owned /\ Goto(l, {"clean"}, "asked") /\ asked' = asked \cup {l}
       \/ l \notin owned /\ Goto(l, {"clean"}, "terminate") /\ UNCHANGED asked
    /\ UNCHANGED <<folder, browser, wire, outcome, start, cleanup, kept, signals>>

\* Mutant: a leader that exited is a browser that is gone.
Closed_Leader(l) == "leader" \notin procs[l] /\ (l \in owned => ClosedByPeer(l))

\* debugging_is_gone.
Closed(l) == Gone(l) /\ (l \in owned => ClosedByPeer(l))

\* pipe.close, after the browser.
IsClosed(l) ==
    /\ Closed(l)
    /\ Goto(l, {"asked", "last"}, "tidy")
    /\ broken' = broken \cup {l}
    /\ UNCHANGED <<folder, procs, main, tab, complete, wire, outcome, flags, signals>>

CloseTimesOut(l) ==
    /\ ~Closed(l)
    /\ Goto(l, {"asked"}, "terminate")
    /\ UNCHANGED <<folder, browser, wire, outcome, flags, signals>>

\* terminate: the group is gone.
Exited(l) ==
    /\ Gone(l)
    /\ Goto(l, {"terminate", "termed", "killed"}, "last")
    /\ UNCHANGED <<folder, browser, wire, outcome, flags, signals>>

\* signal_tree: it ends some of the group at once, or none yet.
Signal(l, from, to) ==
    /\ ~Gone(l)
    /\ Goto(l, {from}, to)
    /\ \E ends \in SUBSET Group : procs' = [procs EXCEPT ![l] = @ \ ends]
    /\ UNCHANGED <<folder, main, broken, tab, complete, wire, outcome, flags, signals>>

Term(l) == Signal(l, "terminate", "termed")
Kill(l) == Signal(l, "termed", "killed")

StillRunning(l) ==
    /\ \/ pc[l] = "killed" /\ ~Gone(l)
       \/ pc[l] = "last" /\ ~Closed(l)
    /\ Goto(l, {"killed", "last"}, "tidy")
    /\ cleanup' = [cleanup EXCEPT ![l] = "StillRunning"]
    /\ broken' = broken \cup {l}
    /\ UNCHANGED <<folder, procs, main, tab, complete, wire, outcome, start, asked,
                   kept, signals>>

\* What login_until returns: an error of the cleanup, then a cancel, come first.
Answer(l, failure) ==
    /\ Goto(l, {"tidy"}, "returned")
    /\ outcome' = [outcome EXCEPT ![l] = IF failure # "none" THEN failure
                                         ELSE IF l \in cancelled THEN "Cancelled" ELSE @]

\* The profile goes, unless the browser was left to the user.
Tidy(l) ==
    /\ Answer(l, cleanup[l])
    /\ IF l \in kept THEN UNCHANGED <<dirs, old>>
       ELSE dirs' = dirs \ {l} /\ old' = old \ {l}
    /\ UNCHANGED <<todo, victim, browser, wire, flags, signals>>

TidyFails(l) ==
    /\ l \in dirs \ kept
    /\ Answer(l, "ProfileNotRemoved")
    /\ UNCHANGED <<folder, browser, wire, flags, signals>>

\* signals.stop, then the flag once more.
Stop(l) ==
    /\ Goto(l, {"returned"}, "stopped")
    /\ UNCHANGED <<folder, browser, wire, outcome, flags, signals>>

Settle(l) ==
    /\ Goto(l, {"stopped"}, "done")
    /\ outcome' = [outcome EXCEPT ![l] = IF @ = "session" /\ l \in cancelled
                                         THEN "Cancelled" ELSE @]
    /\ UNCHANGED <<folder, browser, wire, flags, signals>>

-----------------------------------------------------------------------------
(* Signals and crashes                                                     *)

\* The process ends, with its end of the pipe.
Dies(l) ==
    /\ Goto(l, AtWork, "crashed")
    /\ todo' = [todo EXCEPT ![l] = {}] /\ victim' = [victim EXCEPT ![l] = None]
    /\ broken' = broken \cup {l}
    /\ Forget(l) /\ late' = late \ {l} /\ coming' = coming \ {l}
    /\ UNCHANGED <<dirs, old, procs, main, outcome, owned, ready, saved, cancelled>>

Crash(l) == l \in Reached /\ Dies(l)

\* SIGINT or SIGTERM, as a task on another thread takes it up: until stop it
\* cancels, from then on it ends the process.
Interrupt(l) ==
    /\ l \in Reached \ (coming \cup cancelled)
    /\ IF pc[l] = "stopped" THEN Dies(l)
       ELSE /\ pc[l] \in AtWork /\ coming' = coming \cup {l}
            /\ UNCHANGED <<folder, browser, wire, pc, outcome, flags, cancelled>>

\* That is two steps: the flag is set after the task has looked.
StoreCancel(l) ==
    /\ l \in coming
    /\ coming' = coming \ {l} /\ cancelled' = cancelled \cup {l}
    /\ UNCHANGED <<folder, browser, wire, pc, outcome, flags>>

-----------------------------------------------------------------------------
(* The browser and its user                                                *)

\* A process of the group starts another, in the group or out of it.
Fork(l, p) ==
    /\ procs[l] \cap Group # {} /\ p \in Part \ (procs[l] \cup {"leader", main[l]})
    /\ procs' = [procs EXCEPT ![l] = @ \cup {p}]
    /\ UNCHANGED <<folder, main, broken, tab, complete, wire, pc, outcome, flags, signals>>

\* The browser takes the profile's SingletonLock.
TakeProfile(l, p) ==
    /\ main[l] = None /\ p \in procs[l] \cap Group
    /\ main' = [main EXCEPT ![l] = p]
    /\ UNCHANGED <<folder, procs, broken, tab, complete, wire, pc, outcome, flags, signals>>

\* Any process may end: asked, signalled, closed by the user, by the end of its
\* pipe, or in a crash.  Pages go with the browser.
Exit(l, p) ==
    /\ p \in procs[l]
    /\ procs' = [procs EXCEPT ![l] = @ \ {p}]
    /\ tab' = IF p = main[l] THEN [tab EXCEPT ![l] = None] ELSE tab
    /\ UNCHANGED <<folder, main, broken, complete, wire, pc, outcome, flags, signals>>

\* A page of the site opens, or another takes its place: the attachment to the
\* page that closes ends.  A page that leaves the site keeps its attachment.
ShowTab(l, t) ==
    /\ Up(l) /\ pc[l] \in Waiting /\ t # tab[l]
    /\ tab' = [tab EXCEPT ![l] = t]
    /\ \/ UNCHANGED <<link, told>>
       \/ link[l] = "live" /\ link' = [link EXCEPT ![l] = "ended"] /\ told' = told \cup {l}
    /\ UNCHANGED <<folder, procs, main, broken, complete, target, page, pc, outcome, flags,
                   signals>>

\* The site sets the session's cookies.
SignedIn(l) ==
    /\ Up(l) /\ pc[l] \in Waiting /\ l \notin complete
    /\ complete' = complete \cup {l}
    /\ UNCHANGED <<folder, procs, main, broken, tab, wire, pc, outcome, flags, signals>>

\* An hour passes.  A browser that starts takes its profile sooner than that,
\* or never.
Age(p) ==
    /\ p \in dirs \ old
    /\ main[p] # None \/ (pc[p] \in Ended /\ procs[p] = {})
    /\ old' = old \cup {p}
    /\ UNCHANGED <<dirs, todo, victim, browser, wire, pc, outcome, flags, signals>>

-----------------------------------------------------------------------------
Launch(l) ==
    \/ Begin(l) \/ SweepRemoves(l) \/ SweepFails(l) \/ SweepEnds(l) \/ CancelledEarly(l)
    \/ \E p \in Login : SweepTakes(l, p) \/ SweepSpares(l, p)
    \/ FindFails(l) \/ MakeProfile(l) \/ MakeProfileFails(l) \/ Spawn(l) \/ SpawnFails(l)
    \/ AskVersion(l) \/ GiveUpStart(l) \/ VersionFails(l) \/ VersionInvalid(l) \/ Version(l)

Wait(l) ==
    \/ Attempt(l) \/ ListTabs(l) \/ Attach(l) \/ AttachRefused(l) \/ Cookies(l) \/ Pause(l)
    \/ CancelledWaiting(l) \/ BrowserClosed(l)

Clean(l) ==
    \/ Keeps(l) \/ CloseBrowser(l) \/ IsClosed(l) \/ CloseTimesOut(l) \/ Exited(l)
    \/ Term(l) \/ Kill(l) \/ StillRunning(l) \/ Tidy(l) \/ TidyFails(l) \/ Stop(l) \/ Settle(l)

Browser(l) ==
    \/ \E p \in Part : Fork(l, p) \/ TakeProfile(l, p) \/ Exit(l, p)
    \/ \E t \in Tab \cup {None} : ShowTab(l, t)
    \/ SignedIn(l)

Calm(l) ==
    \/ Launch(l) \/ Wait(l) \/ Clean(l) \/ Interrupt(l) \/ StoreCancel(l)
    \/ Browser(l) \/ Age(l)

Next == \E l \in Login : Calm(l) \/ RequestFails(l) \/ TimeOut(l) \/ Crash(l)

Spec == Init /\ [][Next]_vars

\* From some time on requests are answered and nothing times out or crashes; then
\* a login goes on, and an attachment does not end each time before it was used.
Fairness ==
    /\ <>[][\E l \in Login : Calm(l)]_vars
    /\ \A l \in Login : WF_vars(Wait(l)) /\ SF_vars(Attach(l) /\ link'[l] = "live")
FairSpec == Spec /\ Fairness

-----------------------------------------------------------------------------
(* Properties                                                              *)

TypeOK ==
    /\ dirs \subseteq Login /\ old \subseteq dirs
    /\ todo \in [Login -> SUBSET Login] /\ victim \in [Login -> Login \cup {None}]
    /\ procs \in [Login -> SUBSET Part] /\ main \in [Login -> Group \cup {None}]
    /\ broken \subseteq Login /\ complete \subseteq Login
    /\ tab \in [Login -> Tab \cup {None}] /\ target \in [Login -> Tab \cup {None}]
    /\ link \in [Login -> {"none", "live", "ended"}] /\ told \subseteq Login
    /\ page \in [Login -> Tab \cup {None}]
    /\ pc \in [Login -> PC] /\ outcome \in [Login -> Outcome]
    /\ owned \subseteq Login /\ ready \subseteq owned
    /\ late \subseteq Login /\ asked \subseteq owned /\ kept \subseteq ready
    /\ cleanup \in [Login -> {"none", "StillRunning"}]
    /\ coming \subseteq Login /\ cancelled \subseteq Login

\* A login that returns leaves no process of the browser's group and no profile,
\* unless it says so or the user asked to keep them: not when the launcher has
\* exited before the browser, and not when the cancel came while it started.
NothingLeft ==
    \A l \in Login :
        pc[l] \in {"returned", "stopped", "done"} =>
            \/ l \in kept
            \/ outcome[l] = "StillRunning"
            \/ outcome[l] = "ProfileNotRemoved"
            \/ Gone(l) /\ l \notin dirs

\* Nobody removes the profile of a browser that runs, but the login that started
\* it: an other login's sweep looks first and removes later.
RunningIsSpared ==
    [][\A p \in dirs \ dirs' : HasLiveBrowser(p) => pc[p] = "tidy"]_vars

\* While a page of the site stays and the cookies are complete, a login does
\* not go on waiting: an attachment that ended, with an event that was read too
\* early to count, does not stay.
SignInIsSeen ==
    \A l \in Login, t \in Tab :
        ~<>[](pc[l] \in Waiting /\ Up(l) /\ tab[l] = t /\ l \in complete)

=============================================================================
