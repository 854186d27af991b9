------------------------------- MODULE AblerMcp -------------------------------
(***************************************************************************)
(* Two parts of abler-mcp that share no state: the session that its        *)
(* processes rotate (AblerSession), and the browser in which a login is    *)
(* captured (BrowserLogin), whose cookies become a candidate of the first. *)
(***************************************************************************)
EXTENDS AblerSession

CONSTANTS User, Supplied, Reached, Tab, FollowTab  \* of BrowserLogin; User is its Login

VARIABLES dirs, old, todo, victim, procs, main, broken, tab, complete, link, attached, told, page,
          stage, outcome, owned, ready, late, asked, cleanup, kept, coming, cancelled

Web == INSTANCE BrowserLogin WITH Login <- User, pc <- stage, target <- attached

ASSUME WebAssumption == Web!BrowserAssumption

-----------------------------------------------------------------------------
(* The properties of BrowserLogin, stated there                            *)

\* A login that returns leaves no process of its browser and no profile, unless it
\* says so or was asked to keep them (login_until).
NothingLeft == Web!NothingLeft

\* Only its own login removes the profile of a browser that runs
\* (remove_abandoned_profiles).
RunningIsSpared == Web!RunningIsSpared

\* A login does not go on waiting while the browser stays signed in (capture).
SignInIsSeen == Web!SignInIsSeen
===============================================================================
