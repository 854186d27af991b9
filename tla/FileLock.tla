------------------------------ MODULE FileLock ------------------------------
(***************************************************************************)
(* The cross-process lock of family-store (rust/family-store/src/lock.rs). *)
(*                                                                         *)
(* The lock of a file is a directory beside it that holds one owner file,  *)
(* named <pid>-<uuid>.  A caller builds a private temporary directory with *)
(* its own owner file in it and renames it onto the lock directory: the    *)
(* rename succeeds only over a missing or an empty directory.  An owner    *)
(* file whose process is dead is removed, by its unique name, by whoever   *)
(* finds it.  One action is one filesystem call of one caller, so that the *)
(* calls of competing callers and crashes interleave freely.               *)
(*                                                                         *)
(* An owner is <<caller, attempt>>: the attempt number stands for the      *)
(* uuid, and pidOf[caller] for the pid in the name.  The lock directory's  *)
(* inode is named by the owner whose temporary directory it was.           *)
(***************************************************************************)
EXTENDS Naturals, FiniteSets

CONSTANTS
    Caller,       \* threads and tasks that call with_file_lock for one path
    Pid,          \* operating-system processes
    pidOf,        \* the process each caller runs in
    LateRetries,  \* LATE_RETRIES
    MaxMisses,    \* permission misses before the attempt fails
    MaxAttempts,  \* bound on the calls one caller makes
    NoOwner,      \* no lock directory, or nothing seen
    Stray         \* a file in the lock directory that names no owner

ASSUME CallerAssumption ==
    /\ pidOf \in [Caller -> Pid]
    /\ LateRetries \in Nat
    /\ MaxMisses \in Nat \ {0}
    /\ MaxAttempts \in Nat
    /\ NoOwner \notin Caller \X Nat /\ NoOwner \notin Caller
    /\ Stray \notin Caller \X Nat /\ Stray # NoOwner

VARIABLES
    dir,        \* inode of the lock directory, or NoOwner when it is missing
    entries,    \* the files in the lock directory
    temps,      \* owners whose temporary directory still exists
    alive,      \* processes that are running
    pc,         \* where each caller is in with_file_lock
    num,        \* attempts each caller has made
    seen,       \* what inspect holds: the opened inode, then the owner it read
    retry,      \* the attempt loop's bookkeeping
    expired,    \* callers whose deadline has passed
    cancelled,  \* callers whose Cancel has fired
    result,     \* how the latest call ended
    met,        \* history: pairs of owners whose work ran at the same time
    passed      \* history: owners whose call returned the work's value

fsVars   == <<dir, entries, temps>>
callVars == <<num, seen, retry, result>>
timeVars == <<expired, cancelled>>
history  == <<met, passed>>
vars     == <<fsVars, callVars, timeVars, history, alive, pc>>

-----------------------------------------------------------------------------
Owner == Caller \X Nat

own(c) == <<c, num[c]>>

\* Mutant: a refused signal (EPERM) counts as a dead process.
IsLive_OwnUserOnly(o) == o = NoOwner

\* is_live: signal 0 reaches the process named in the owner file.
IsLive(o) == alive[pidOf[o[1]]]

\* The owner file of a loop iteration that has not published yet is in temps.
Trying  == {"try", "open", "list", "probe", "unlinkDead", "rmdirDead", "decide"}
\* Between the rename that publishes the owner file and its removal.
Holding == {"granted", "work", "unlink"}
PC      == Trying \cup Holding \cup {"idle", "rmdirOwn", "crashed"}

Occupant == {"Busy", "Missing", "Retry"}
FreshLoop == [occupant |-> "Retry", denied |-> FALSE, late |-> 0, misses |-> 0]

Result == {"none", "ok", "workError", "panic", "lost", "busy", "cancelled",
           "ioError", "releaseError", "crashed"}

Init ==
    /\ dir = NoOwner
    /\ entries = {}
    /\ temps = {}
    /\ alive = [p \in Pid |-> TRUE]
    /\ pc = [c \in Caller |-> "idle"]
    /\ num = [c \in Caller |-> 0]
    /\ seen = [c \in Caller |-> NoOwner]
    /\ retry = [c \in Caller |-> FreshLoop]
    /\ expired = {}
    /\ cancelled = {}
    /\ result = [c \in Caller |-> "none"]
    /\ met = {}
    /\ passed = {}

Goto(c, from, to) == pc[c] = from /\ pc' = [pc EXCEPT ![c] = to]

-----------------------------------------------------------------------------
(* acquire: the temporary directory, then the attempt loop                 *)

\* A private directory with the owner file in it, under a name nobody shares.
CreateTemp(c) ==
    /\ num[c] < MaxAttempts
    /\ Goto(c, "idle", "try")
    /\ num' = [num EXCEPT ![c] = @ + 1]
    /\ temps' = temps \cup {<<c, num[c] + 1>>}
    /\ result' = [result EXCEPT ![c] = "none"]
    /\ UNCHANGED <<dir, entries, alive, seen, retry, timeVars, history>>

\* The locals of the attempt loop end with it.
LeaveLoop(c) ==
    /\ retry' = [retry EXCEPT ![c] = FreshLoop]
    /\ seen' = [seen EXCEPT ![c] = NoOwner]
    /\ expired' = expired \ {c}

\* The attempt failed: the temporary directory is removed and the error returned.
Fail(c, from, why) ==
    /\ Goto(c, from, "idle")
    /\ temps' = temps \ {own(c)}
    /\ result' = [result EXCEPT ![c] = why]
    /\ LeaveLoop(c)
    /\ cancelled' = cancelled \ {c}
    /\ UNCHANGED <<dir, entries, alive, num, history>>

CancelledWaiting(c) == c \in cancelled /\ Fail(c, "try", "cancelled")

\* Mutant: a rename that replaces an occupied directory too.
PublishAcquires_OverOccupied(c) ==
    /\ c \notin cancelled
    /\ Goto(c, "try", "granted")
    /\ dir' = own(c)
    /\ entries' = {own(c)}
    /\ temps' = temps \ {own(c)}
    /\ LeaveLoop(c)
    /\ UNCHANGED <<alive, num, result, cancelled, history>>

\* publish: rename replaces a missing or an empty directory, nothing else.
PublishAcquires(c) ==
    /\ c \notin cancelled
    /\ Goto(c, "try", "granted")
    /\ entries = {}
    /\ dir' = own(c)
    /\ entries' = {own(c)}
    /\ temps' = temps \ {own(c)}
    /\ LeaveLoop(c)
    /\ UNCHANGED <<alive, num, result, cancelled, history>>

\* NOTEMPTY or EXIST: the directory holds an owner file.
PublishOccupied(c) ==
    /\ c \notin cancelled
    /\ Goto(c, "try", "open")
    /\ entries # {}
    /\ retry' = [retry EXCEPT ![c].denied = FALSE]
    /\ UNCHANGED <<fsVars, alive, num, seen, result, timeVars, history>>

\* PERM: the filesystem refused the rename.
PublishDenied(c) ==
    /\ c \notin cancelled
    /\ Goto(c, "try", "open")
    /\ retry' = [retry EXCEPT ![c].denied = TRUE]
    /\ UNCHANGED <<fsVars, alive, num, seen, result, timeVars, history>>

Occupy(c, occupant) == retry' = [retry EXCEPT ![c].occupant = occupant]

\* inspect: read_dir opens whatever directory is there now ...
OpenLock(c) ==
    /\ \/ /\ dir = NoOwner
          /\ Goto(c, "open", "decide")
          /\ Occupy(c, "Missing")
          /\ UNCHANGED seen
       \/ /\ dir # NoOwner
          /\ Goto(c, "open", "list")
          /\ seen' = [seen EXCEPT ![c] = dir]
          /\ UNCHANGED retry
    /\ UNCHANGED <<fsVars, alive, num, result, timeVars, history>>

\* ... and lists that inode: gone or replaced meanwhile, it is a lock change.
\* Anything but one parsable owner counts as a live one.
ListLock(c) ==
    /\ \/ /\ dir # seen[c]
          /\ Goto(c, "list", "decide")
          /\ Occupy(c, "Retry")
          /\ seen' = [seen EXCEPT ![c] = NoOwner]
       \/ /\ dir = seen[c] /\ entries = {}
          /\ Goto(c, "list", "rmdirDead")
          /\ seen' = [seen EXCEPT ![c] = NoOwner]
          /\ UNCHANGED retry
       \/ \E o \in entries \ {Stray} :
          /\ dir = seen[c] /\ entries = {o}
          /\ Goto(c, "list", "probe")
          /\ seen' = [seen EXCEPT ![c] = o]
          /\ UNCHANGED retry
       \/ /\ dir = seen[c] /\ Stray \in entries
          /\ Goto(c, "list", "decide")
          /\ Occupy(c, "Busy")
          /\ seen' = [seen EXCEPT ![c] = NoOwner]
    /\ UNCHANGED <<fsVars, alive, num, result, timeVars, history>>

\* is_live on the owner that was read.
ProbeOwner(c) ==
    /\ \/ /\ Goto(c, "probe", "decide")
          /\ IsLive(seen[c])
          /\ Occupy(c, "Busy")
          /\ seen' = [seen EXCEPT ![c] = NoOwner]
       \/ /\ Goto(c, "probe", "unlinkDead")
          /\ ~IsLive(seen[c])
          /\ UNCHANGED <<retry, seen>>
    /\ UNCHANGED <<fsVars, alive, num, result, timeVars, history>>

\* remove_owner, first half: only that owner's unique name; NOENT is ignored.
UnlinkDead(c) ==
    /\ Goto(c, "unlinkDead", "rmdirDead")
    /\ entries' = entries \ {seen[c]}
    /\ seen' = [seen EXCEPT ![c] = NoOwner]
    /\ UNCHANGED <<dir, temps, alive, num, retry, result, timeVars, history>>

\* rmdir removes an empty directory and nothing else.
RemoveEmptyDir == dir' = IF entries = {} THEN NoOwner ELSE dir

\* remove_owner, second half, of a dead owner or of a released shell.
RmdirDead(c) ==
    /\ Goto(c, "rmdirDead", "decide")
    /\ RemoveEmptyDir
    /\ Occupy(c, "Retry")
    /\ UNCHANGED <<entries, temps, alive, num, seen, result, timeVars, history>>

\* The counters the loop updates before next_step.
Misses(c) == retry[c].misses
    + (IF retry[c].occupant = "Missing" /\ retry[c].denied THEN 1 ELSE 0)
Late(c) == retry[c].late
    + (IF c \in expired /\ retry[c].occupant # "Busy" THEN 1 ELSE 0)

DeniedTooOften(c) == Misses(c) > retry[c].misses /\ Misses(c) >= MaxMisses

\* Mutant: a busy lock is waited for past the deadline.
GivesUp_NeverBusy(c) == c \in expired /\ Late(c) > LateRetries

\* next_step answers GiveUp.
GivesUp(c) ==
    c \in expired /\ (retry[c].occupant = "Busy" \/ Late(c) > LateRetries)

\* Step::Retry and Step::Wait: both go back to the top of the loop.
TryAgain(c) ==
    /\ ~DeniedTooOften(c) /\ ~GivesUp(c)
    /\ Goto(c, "decide", "try")
    /\ retry' = [retry EXCEPT ![c] =
                    [FreshLoop EXCEPT !.late = Late(c), !.misses = Misses(c)]]
    /\ UNCHANGED <<fsVars, alive, num, seen, result, timeVars, history>>

GiveUp(c) == ~DeniedTooOften(c) /\ GivesUp(c) /\ Fail(c, "decide", "busy")

PermissionFailure(c) == DeniedTooOften(c) /\ Fail(c, "decide", "ioError")

\* Any other error of rename, read_dir, remove_file or rmdir ends the attempt.
AcquireIoError(c) ==
    \E from \in {"try", "open", "list", "unlinkDead", "rmdirDead"} :
        /\ from = "try" => c \notin cancelled
        /\ Fail(c, from, "ioError")

-----------------------------------------------------------------------------
(* with_file_lock: the work, then the release                              *)

Working == {d \in Caller : pc[d] = "work"}

StartWork(c) ==
    /\ c \notin cancelled
    /\ Goto(c, "granted", "work")
    /\ met' = met \cup {{own(c), own(d)} : d \in Working}
    /\ UNCHANGED <<fsVars, alive, callVars, timeVars, passed>>

\* A cancel that arrived during the last attempt gives the lock back.
CancelledGranted(c) ==
    /\ c \in cancelled
    /\ Goto(c, "granted", "unlink")
    /\ result' = [result EXCEPT ![c] = "cancelled"]
    /\ cancelled' = cancelled \ {c}
    /\ UNCHANGED <<fsVars, alive, num, seen, retry, expired, history>>

\* work() returns a value or an error, or panics: Drop then releases.
EndWork(c) ==
    /\ Goto(c, "work", "unlink")
    /\ \E ending \in {"ok", "workError", "panic"} :
           result' = [result EXCEPT ![c] = ending]
    /\ UNCHANGED <<fsVars, alive, num, seen, retry, timeVars, history>>

\* Mutant: an owner file that is gone already is not reported.
UnlinkOwn_IgnoresMissing(c) ==
    /\ Goto(c, "unlink", "rmdirOwn")
    /\ entries' = entries \ {own(c)}
    /\ UNCHANGED <<dir, temps, alive, callVars, timeVars, history>>

\* release, first half.  The owner file gone already means LOCK_LOST, which an
\* error of the work or a cancellation outranks.
UnlinkOwn(c) ==
    /\ Goto(c, "unlink", "rmdirOwn")
    /\ entries' = entries \ {own(c)}
    /\ result' = [result EXCEPT ![c] =
                     IF own(c) \notin entries /\ @ = "ok" THEN "lost" ELSE @]
    /\ UNCHANGED <<dir, temps, alive, num, seen, retry, timeVars, history>>

\* release, second half, and the return of the call.
RmdirOwn(c) ==
    /\ Goto(c, "rmdirOwn", "idle")
    /\ RemoveEmptyDir
    /\ passed' = IF result[c] = "ok" THEN passed \cup {own(c)} ELSE passed
    /\ UNCHANGED <<entries, temps, alive, callVars, timeVars, met>>

\* Either call of the release fails: RELEASE_FAILED, except out of a panic.
ReleaseFails(c) ==
    \E from \in {"unlink", "rmdirOwn"} :
        /\ Goto(c, from, "idle")
        /\ result' = [result EXCEPT ![c] = IF @ = "panic" THEN @ ELSE "releaseError"]
        /\ UNCHANGED <<fsVars, alive, num, seen, retry, timeVars, history>>

-----------------------------------------------------------------------------
(* Time, cancellation, crashes                                             *)

Expire(c) ==
    /\ pc[c] \in Trying /\ c \notin expired
    /\ expired' = expired \cup {c}
    /\ UNCHANGED <<fsVars, callVars, cancelled, history, alive, pc>>

\* Work that already started is not interrupted.
Cancel(c) ==
    /\ pc[c] \in Trying \cup {"granted"} /\ c \notin cancelled
    /\ cancelled' = cancelled \cup {c}
    /\ UNCHANGED <<fsVars, callVars, expired, history, alive, pc>>

\* A process dies between two filesystem calls, with every caller in it.
Crash(p) ==
    LET gone == {c \in Caller : pidOf[c] = p} IN
    /\ alive[p]
    /\ alive' = [alive EXCEPT ![p] = FALSE]
    /\ pc' = [c \in Caller |-> IF c \in gone THEN "crashed" ELSE pc[c]]
    /\ result' = [c \in Caller |-> IF c \in gone THEN "crashed" ELSE result[c]]
    /\ retry' = [c \in Caller |-> IF c \in gone THEN FreshLoop ELSE retry[c]]
    /\ seen' = [c \in Caller |-> IF c \in gone THEN NoOwner ELSE seen[c]]
    /\ expired' = expired \ gone
    /\ cancelled' = cancelled \ gone
    /\ UNCHANGED <<fsVars, num, history>>

\* The operating system gives the number of a dead process to a new one.
ReusePid(p) ==
    /\ ~alive[p]
    /\ alive' = [alive EXCEPT ![p] = TRUE]
    /\ pc' = [c \in Caller |-> IF pidOf[c] = p THEN "idle" ELSE pc[c]]
    /\ UNCHANGED <<fsVars, callVars, timeVars, history>>

\* Somebody else touches the lock directory: a process of another pid
\* namespace or a person removes a file, a file manager leaves one.
Disturb ==
    /\ dir # NoOwner
    /\ \/ \E o \in entries : entries' = entries \ {o}
       \/ Stray \notin entries /\ entries' = entries \cup {Stray}
    /\ UNCHANGED <<dir, temps, callVars, timeVars, history, alive, pc>>

\* The steps of a caller that is scheduled and whose filesystem calls answer.
AcquireStep(c) ==
    \/ CancelledWaiting(c) \/ PublishAcquires(c) \/ PublishOccupied(c)
    \/ OpenLock(c) \/ ListLock(c) \/ ProbeOwner(c) \/ UnlinkDead(c) \/ RmdirDead(c)
    \/ TryAgain(c) \/ GiveUp(c) \/ PermissionFailure(c)

CallerStep(c) ==
    \/ CreateTemp(c) \/ AcquireStep(c)
    \/ StartWork(c) \/ CancelledGranted(c) \/ EndWork(c) \/ UnlinkOwn(c) \/ RmdirOwn(c)

\* The filesystem refuses a call.
IoFailure(c) == PublishDenied(c) \/ AcquireIoError(c) \/ ReleaseFails(c)

CallersAndCrashes ==
    \/ \E c \in Caller : CallerStep(c) \/ Expire(c) \/ Cancel(c)
    \/ \E p \in Pid : Crash(p)

Next ==
    \/ CallersAndCrashes
    \/ \E c \in Caller : IoFailure(c)
    \/ \E p \in Pid : ReusePid(p)

Spec == Init /\ [][Next]_vars

\* The lock with a directory that others write to as well.
NextDisturbed == Next \/ Disturb

SpecDisturbed == Init /\ [][NextDisturbed]_vars

\* A scheduled caller takes its next step and clocks advance.  The work itself
\* may run forever; no pid is reused and no filesystem call is refused.
Fairness == \A c \in Caller : WF_vars(AcquireStep(c)) /\ WF_vars(Expire(c))

LiveSpec == Init /\ [][CallersAndCrashes]_vars /\ Fairness

-----------------------------------------------------------------------------
(* Properties                                                              *)

Loop == [occupant: Occupant, denied: BOOLEAN, late: Nat, misses: Nat]

\* The type invariant of the lock directory and of the callers' locals.
TypeOK ==
    /\ dir \in Owner \cup {NoOwner}
    /\ entries \subseteq Owner \cup {Stray}
    /\ temps \subseteq Owner
    /\ alive \in [Pid -> BOOLEAN]
    /\ pc \in [Caller -> PC]
    /\ num \in [Caller -> Nat]
    /\ seen \in [Caller -> Owner \cup {NoOwner}]
    /\ retry \in [Caller -> Loop]
    /\ expired \subseteq Caller
    /\ cancelled \subseteq Caller
    /\ result \in [Caller -> Result]
    /\ met \subseteq SUBSET Owner
    /\ passed \subseteq Owner

\* At most one caller is between the rename that published its owner file and
\* the removal of that file, whatever crashes, recoveries and reused pids there
\* were: with_file_lock runs one work at a time.
MutualExclusion ==
    \A c, d \in Caller : pc[c] \in Holding /\ pc[d] \in Holding => c = d

\* A recovery that is about to remove an owner file never aims at the file of a
\* caller that holds the lock, even when the probed pid was reused meanwhile or
\* the directory was replaced ("Remove only that owner's unique filename").
RecoveryTargetsDead ==
    \A c, d \in Caller :
        pc[c] = "unlinkDead" /\ pc[d] \in Holding => seen[c] # own(d)

\* With other parties removing owner files under their holders, works may run
\* at the same time, but never do two such works both return their value: at
\* least one of the callers is told LOCK_LOST.
NoDoubleSuccess == \A pair \in met : ~(pair \subseteq passed)

\* acquire never waits past its deadline: every attempt ends by holding the
\* lock, by an error, or with its process.
AcquireReturns ==
    \A c \in Caller : []<>(pc[c] \notin Trying)

\* Even with a deadline that has passed, a caller at the top of its loop whose
\* rivals are all dead gets the lock, recovering what they left behind
\* ("a zero wait can finish recovering a dead owner").
Alone(c) == \A d \in Caller \ {c} : pc[d] = "crashed"

RecoversDeadOwner ==
    \A c \in Caller :
        (pc[c] = "try" /\ retry[c].late = 0 /\ Alone(c))
            ~> (pc[c] \in Holding \/ c \in cancelled \/ pc[c] = "crashed")

\* Nobody waits for ever, and nobody gives up on a lock that only the dead hold.
CallersGetOn == AcquireReturns /\ RecoversDeadOwner

-----------------------------------------------------------------------------
(* What the lock implements                                                *)

\* The caller named in the lock directory, and whether it will never release.
LockHolder == IF entries = {} THEN NoOwner ELSE (CHOOSE o \in entries : TRUE)[1]

LockAbandoned ==
    /\ entries # {}
    /\ ~ \E c \in Caller : pc[c] \in Holding /\ own(c) \in entries

Promise == INSTANCE ExclusiveLock
           WITH Nobody <- NoOwner, holder <- LockHolder, abandoned <- LockAbandoned

\* The rename protocol implements a lock that only its holder releases and that
\* others free only once it is abandoned.
ImplementsExclusiveLock == Promise!Spec

=============================================================================
