--------------------------- MODULE FileLockProofs ---------------------------
(* Proofs about FileLock, for any callers, processes and bounds.           *)
EXTENDS FileLock, TLAPS

-----------------------------------------------------------------------------
(* The inductive invariant, in named parts                                 *)

\* The lock directory holds the owner file it was published with, and strays.
DirInv == entries \subseteq {dir, Stray} \ {NoOwner}

\* An attempt's number was handed out before its owner file appears anywhere.
Used(o) == o[2] <= num[o[1]]

FreshInv ==
    /\ \A o \in entries \ {Stray} : Used(o)
    /\ \A o \in passed : Used(o)
    /\ \A pair \in met : \A o \in pair : Used(o)
    /\ \A c \in Caller : seen[c] # NoOwner => Used(seen[c])
    /\ dir # NoOwner => Used(dir)

SeenInv == \A c \in Caller : pc[c] \in {"list", "probe", "unlinkDead"} => seen[c] \in Owner

\* A caller of a dead process is crashed.
DeadInv == \A c \in Caller : ~alive[pidOf[c]] => pc[c] = "crashed"

\* The owner a recovery is about to remove is no longer in a call.
TargetInv ==
    \A c, d \in Caller :
        pc[c] = "unlinkDead" /\ seen[c] = own(d) => pc[d] \in {"idle", "crashed"}

Base == TypeOK /\ DirInv /\ FreshInv /\ SeenInv /\ DeadInv /\ TargetInv

\* An idle lock with no directory satisfies the invariant.
LEMMA BaseInit == Init => Base
  BY CallerAssumption
  DEF Init, Base, TypeOK, DirInv, FreshInv, SeenInv, DeadInv, TargetInv, PC, FreshLoop,
      Loop, Occupant, Result, Owner

\* Actions

\* The control points, listed one by one.
LEMMA PCs ==
  /\ \A x \in {"try", "open", "list", "probe", "unlinkDead", "rmdirDead", "decide", "granted",
               "work", "unlink", "idle", "rmdirOwn", "crashed"} : x \in PC
BY DEF PC, Trying, Holding

\* The bookkeeping of the attempt loop stays well formed through an iteration.
LEMMA LoopTyped ==
  ASSUME TypeOK, NEW c \in Caller
  PROVE  /\ FreshLoop \in Loop
         /\ \A b \in BOOLEAN : [retry EXCEPT ![c].denied = b] \in [Caller -> Loop]
         /\ \A o \in Occupant : [retry EXCEPT ![c].occupant = o] \in [Caller -> Loop]
         /\ [FreshLoop EXCEPT !.late = Late(c), !.misses = Misses(c)] \in Loop
<1> retry \in [Caller -> Loop]
  BY DEF TypeOK
<1>1. FreshLoop \in Loop
  BY DEF FreshLoop, Loop, Occupant
<1>2. \A b \in BOOLEAN : [retry EXCEPT ![c].denied = b] \in [Caller -> Loop]
  BY DEF Loop
<1>3. \A o \in Occupant : [retry EXCEPT ![c].occupant = o] \in [Caller -> Loop]
  BY DEF Loop
<1>4. Late(c) \in Nat /\ Misses(c) \in Nat
  BY DEF Late, Misses, Loop
<1>5. [FreshLoop EXCEPT !.late = Late(c), !.misses = Misses(c)] \in Loop
  BY <1>1, <1>4 DEF Loop
<1>6. QED BY <1>1, <1>2, <1>3, <1>5

\* The owner of a caller's latest attempt is an owner.
LEMMA OwnTyped ==
  ASSUME TypeOK, NEW c \in Caller
  PROVE  own(c) \in Owner /\ <<c, num[c] + 1>> \in Owner /\ num[c] + 1 \in Nat
BY DEF TypeOK, own, Owner

\* No step, disturbed or not, leaves the types of the lock's state.
LEMMA TypeStep == TypeOK /\ [NextDisturbed]_vars => TypeOK'
<1> SUFFICES ASSUME TypeOK, [NextDisturbed]_vars PROVE TypeOK'
  OBVIOUS
<1> DEFINE Occupying(c, o) == [retry EXCEPT ![c].occupant = o]
<1>a. \A c \in Caller : own(c) \in Owner
  BY OwnTyped
<1>b. \A c \in Caller : /\ Occupying(c, "Busy") \in [Caller -> Loop]
                        /\ Occupying(c, "Missing") \in [Caller -> Loop]
                        /\ Occupying(c, "Retry") \in [Caller -> Loop]
  BY LoopTyped DEF Occupant
<1> HIDE DEF Occupying
<1> USE PCs DEF TypeOK, Goto, timeVars, history, fsVars, callVars
<1>1. ASSUME NEW c \in Caller, CreateTemp(c) PROVE TypeOK'
  <2>1. num' \in [Caller -> Nat] BY <1>1 DEF CreateTemp
  <2>2. temps' \subseteq Owner BY <1>1, OwnTyped DEF CreateTemp
  <2>3. pc' \in [Caller -> PC] BY <1>1 DEF CreateTemp
  <2>4. result' \in [Caller -> Result] BY <1>1 DEF CreateTemp, Result
  <2>5. QED BY <1>1, <2>1, <2>2, <2>3, <2>4 DEF CreateTemp
<1>2. ASSUME NEW c \in Caller, NEW from, NEW why \in Result, Fail(c, from, why) PROVE TypeOK'
  <2>1. pc' \in [Caller -> PC] BY <1>2 DEF Fail
  <2>2. result' \in [Caller -> Result] BY <1>2 DEF Fail
  <2>3. retry' \in [Caller -> Loop] BY <1>2, LoopTyped DEF Fail, LeaveLoop
  <2>4. seen' \in [Caller -> Owner \cup {NoOwner}] BY <1>2 DEF Fail, LeaveLoop
  <2>5. QED BY <1>2, <2>1, <2>2, <2>3, <2>4 DEF Fail, LeaveLoop
<1>3. ASSUME NEW c \in Caller, AcquireStep(c) PROVE TypeOK'
  <2>1. CASE CancelledWaiting(c)
    BY <2>1, <1>2 DEF CancelledWaiting, Result
  <2>2. CASE PublishAcquires(c)
    <3>1. dir' \in Owner \cup {NoOwner} /\ entries' \subseteq Owner \cup {Stray}
      BY <2>2, <1>a DEF PublishAcquires
    <3>2. temps' \subseteq Owner BY <2>2 DEF PublishAcquires
    <3>3. pc' \in [Caller -> PC] BY <2>2 DEF PublishAcquires
    <3>4. retry' \in [Caller -> Loop] BY <2>2, LoopTyped DEF PublishAcquires, LeaveLoop
    <3>5. seen' \in [Caller -> Owner \cup {NoOwner}] BY <2>2 DEF PublishAcquires, LeaveLoop
    <3>6. QED BY <2>2, <3>1, <3>2, <3>3, <3>4, <3>5 DEF PublishAcquires, LeaveLoop
  <2>3. CASE PublishOccupied(c)
    <3>1. pc' \in [Caller -> PC] BY <2>3 DEF PublishOccupied
    <3>2. retry' \in [Caller -> Loop] BY <2>3, LoopTyped DEF PublishOccupied
    <3>3. QED BY <2>3, <3>1, <3>2 DEF PublishOccupied
  <2>4. CASE OpenLock(c)
    <3>1. pc' \in [Caller -> PC] BY <2>4 DEF OpenLock
    <3>0. retry' \in {retry, Occupying(c, "Missing")} BY <2>4 DEF OpenLock, Occupy, Occupying
    <3>2. retry' \in [Caller -> Loop] BY <3>0, <1>b
    <3>3. seen' \in [Caller -> Owner \cup {NoOwner}] BY <2>4 DEF OpenLock
    <3>4. QED BY <2>4, <3>1, <3>2, <3>3 DEF OpenLock
  <2>5. CASE ListLock(c)
    <3>1. pc' \in [Caller -> PC] BY <2>5 DEF ListLock
    <3>0. retry' \in {retry, Occupying(c, "Retry"), Occupying(c, "Busy")} BY <2>5 DEF ListLock, Occupy, Occupying
    <3>2. retry' \in [Caller -> Loop] BY <3>0, <1>b
    <3>3. seen' \in [Caller -> Owner \cup {NoOwner}] BY <2>5 DEF ListLock
    <3>4. QED BY <2>5, <3>1, <3>2, <3>3 DEF ListLock
  <2>6. CASE ProbeOwner(c)
    <3>1. pc' \in [Caller -> PC] BY <2>6 DEF ProbeOwner
    <3>0. retry' \in {retry, Occupying(c, "Busy")} BY <2>6 DEF ProbeOwner, Occupy, Occupying
    <3>2. retry' \in [Caller -> Loop] BY <3>0, <1>b
    <3>3. seen' \in [Caller -> Owner \cup {NoOwner}] BY <2>6 DEF ProbeOwner
    <3>4. QED BY <2>6, <3>1, <3>2, <3>3 DEF ProbeOwner
  <2>7. CASE UnlinkDead(c)
    <3>1. pc' \in [Caller -> PC] BY <2>7 DEF UnlinkDead
    <3>2. seen' \in [Caller -> Owner \cup {NoOwner}] BY <2>7 DEF UnlinkDead
    <3>3. QED BY <2>7, <3>1, <3>2 DEF UnlinkDead
  <2>8. CASE RmdirDead(c)
    <3>1. pc' \in [Caller -> PC] BY <2>8 DEF RmdirDead
    <3>0. retry' = Occupying(c, "Retry") BY <2>8 DEF RmdirDead, Occupy, Occupying
    <3>2. retry' \in [Caller -> Loop] BY <3>0, <1>b
    <3>3. QED BY <2>8, <3>1, <3>2 DEF RmdirDead, RemoveEmptyDir
  <2>9. CASE TryAgain(c)
    <3>1. pc' \in [Caller -> PC] BY <2>9 DEF TryAgain
    <3>2. retry' \in [Caller -> Loop] BY <2>9, LoopTyped DEF TryAgain
    <3>3. QED BY <2>9, <3>1, <3>2 DEF TryAgain
  <2>10. CASE GiveUp(c)
    BY <2>10, <1>2 DEF GiveUp, Result
  <2>11. CASE PermissionFailure(c)
    BY <2>11, <1>2 DEF PermissionFailure, Result
  <2>12. QED BY <1>3, <2>1, <2>2, <2>3, <2>4, <2>5, <2>6, <2>7, <2>8, <2>9, <2>10, <2>11
         DEF AcquireStep
<1>4. ASSUME NEW c \in Caller, StartWork(c) PROVE TypeOK'
  <2>1. pc' \in [Caller -> PC] BY <1>4 DEF StartWork
  <2>2. \A d \in Working : {own(c), own(d)} \in SUBSET Owner BY <1>4, <1>a DEF Working
  <2>3. met' \subseteq SUBSET Owner BY <1>4, <2>2 DEF StartWork
  <2>4. QED BY <1>4, <2>1, <2>3 DEF StartWork
<1>5. ASSUME NEW c \in Caller, CancelledGranted(c) PROVE TypeOK'
  BY <1>5 DEF CancelledGranted, Result
<1>6. ASSUME NEW c \in Caller, EndWork(c) PROVE TypeOK'
  <2>1. pc' \in [Caller -> PC] BY <1>6 DEF EndWork
  <2>2. result' \in [Caller -> Result] BY <1>6 DEF EndWork, Result
  <2>3. QED BY <1>6, <2>1, <2>2 DEF EndWork
<1>7. ASSUME NEW c \in Caller, UnlinkOwn(c) PROVE TypeOK'
  <2>1. pc' \in [Caller -> PC] BY <1>7 DEF UnlinkOwn
  <2>2. result' \in [Caller -> Result] BY <1>7 DEF UnlinkOwn, Result
  <2>3. QED BY <1>7, <2>1, <2>2 DEF UnlinkOwn
<1>8. ASSUME NEW c \in Caller, RmdirOwn(c) PROVE TypeOK'
  <2>1. pc' \in [Caller -> PC] BY <1>8 DEF RmdirOwn
  <2>2. passed' \subseteq Owner BY <1>8, <1>a DEF RmdirOwn
  <2>3. QED BY <1>8, <2>1, <2>2 DEF RmdirOwn, RemoveEmptyDir
<1>9. ASSUME NEW c \in Caller, IoFailure(c) PROVE TypeOK'
  <2>1. CASE PublishDenied(c)
    <3>1. pc' \in [Caller -> PC] BY <2>1 DEF PublishDenied
    <3>2. retry' \in [Caller -> Loop] BY <2>1, LoopTyped DEF PublishDenied
    <3>3. QED BY <2>1, <3>1, <3>2 DEF PublishDenied
  <2>2. CASE AcquireIoError(c)
    BY <2>2, <1>2 DEF AcquireIoError, Result
  <2>3. CASE ReleaseFails(c)
    <3>1. pc' \in [Caller -> PC] BY <2>3 DEF ReleaseFails
    <3>2. result' \in [Caller -> Result] BY <2>3 DEF ReleaseFails, Result
    <3>3. QED BY <2>3, <3>1, <3>2 DEF ReleaseFails
  <2>4. QED BY <1>9, <2>1, <2>2, <2>3 DEF IoFailure
<1>10. ASSUME NEW c \in Caller, Expire(c) \/ Cancel(c) PROVE TypeOK'
  BY <1>10 DEF Expire, Cancel
<1>11. ASSUME NEW p \in Pid, Crash(p) PROVE TypeOK'
  <2>1. pc' \in [Caller -> PC] BY <1>11 DEF Crash
  <2>2. result' \in [Caller -> Result] BY <1>11 DEF Crash, Result
  <2>3. retry' \in [Caller -> Loop]
    <3>1. FreshLoop \in Loop BY DEF FreshLoop, Loop, Occupant
    <3>2. QED BY <1>11, <3>1 DEF Crash
  <2>4. seen' \in [Caller -> Owner \cup {NoOwner}] BY <1>11 DEF Crash
  <2>5. alive' \in [Pid -> BOOLEAN] BY <1>11 DEF Crash
  <2>6. expired' \subseteq Caller /\ cancelled' \subseteq Caller BY <1>11 DEF Crash
  <2>7. QED BY <1>11, <2>1, <2>2, <2>3, <2>4, <2>5, <2>6 DEF Crash
<1>12. ASSUME NEW p \in Pid, ReusePid(p) PROVE TypeOK'
  BY <1>12 DEF ReusePid
<1>13. CASE Disturb
  BY <1>13 DEF Disturb
<1>14. CASE UNCHANGED vars
  BY <1>14 DEF vars
<1>15. QED
  BY <1>1, <1>3, <1>4, <1>5, <1>6, <1>7, <1>8, <1>9, <1>10, <1>11, <1>12, <1>13, <1>14
  DEF NextDisturbed, Next, CallersAndCrashes, CallerStep

\* The state of the lock and the locals of its callers (acquire, Held) keep
\* their types, also in a directory that others write to.
THEOREM TypeCorrect == SpecDisturbed => []TypeOK
<1>1. Init => TypeOK
  BY BaseInit DEF Base
<1>2. QED
  BY <1>1, TypeStep, PTL DEF SpecDisturbed

-----------------------------------------------------------------------------
(* Which steps touch what                                                  *)

\* Only publish, the removals of owner files, the rmdirs and a disturbance
\* touch the directory; one action each hands out numbers, passes and meets.
LEMMA Steps ==
  ASSUME [NextDisturbed]_vars
  PROVE  /\ \/ UNCHANGED <<dir, entries>>
            \/ Disturb
            \/ \E c \in Caller : PublishAcquires(c) \/ UnlinkDead(c) \/ RmdirDead(c)
                                    \/ UnlinkOwn(c) \/ RmdirOwn(c)
         /\ UNCHANGED num \/ \E c \in Caller : CreateTemp(c)
         /\ UNCHANGED passed \/ \E c \in Caller : RmdirOwn(c)
         /\ UNCHANGED met \/ \E c \in Caller : StartWork(c)
<1> USE DEF fsVars, callVars, timeVars, history
<1>1. ASSUME NEW c \in Caller, AcquireStep(c)
      PROVE  /\ \/ UNCHANGED <<dir, entries>>
                \/ PublishAcquires(c) \/ UnlinkDead(c) \/ RmdirDead(c)
             /\ UNCHANGED <<num, passed, met>>
  BY <1>1 DEF AcquireStep, CancelledWaiting, PublishAcquires, PublishOccupied, OpenLock, ListLock,
       ProbeOwner, UnlinkDead, RmdirDead, TryAgain, GiveUp, PermissionFailure, Fail
<1>2. ASSUME NEW c \in Caller, IoFailure(c)
      PROVE  UNCHANGED <<dir, entries, num, passed, met>>
  BY <1>2 DEF IoFailure, PublishDenied, AcquireIoError, ReleaseFails, Fail
<1>3. ASSUME NEW c \in Caller, CallerStep(c), ~AcquireStep(c)
      PROVE  /\ UNCHANGED <<dir, entries>> \/ UnlinkOwn(c) \/ RmdirOwn(c)
             /\ UNCHANGED num \/ CreateTemp(c)
             /\ UNCHANGED passed \/ RmdirOwn(c)
             /\ UNCHANGED met \/ StartWork(c)
  BY <1>3 DEF CallerStep, CreateTemp, StartWork, CancelledGranted, EndWork, UnlinkOwn, RmdirOwn
<1>4. ASSUME NEW c \in Caller, Expire(c) \/ Cancel(c)
      PROVE  UNCHANGED <<dir, entries, num, passed, met>>
  BY <1>4 DEF Expire, Cancel
<1>5. ASSUME NEW p \in Pid, Crash(p) \/ ReusePid(p)
      PROVE  UNCHANGED <<dir, entries, num, passed, met>>
  BY <1>5 DEF Crash, ReusePid
<1>6. ASSUME Disturb PROVE UNCHANGED <<num, passed, met>>
  BY <1>6 DEF Disturb
<1>7. CASE UNCHANGED vars
  BY <1>7 DEF vars
<1>8. QED
  BY <1>1, <1>2, <1>3, <1>4, <1>5, <1>6, <1>7
  DEF NextDisturbed, Next, CallersAndCrashes

\* Renames, unlinks and rmdirs keep at most one owner's file in its directory.
LEMMA DirStep == TypeOK /\ DirInv /\ [NextDisturbed]_vars => DirInv'
<1> SUFFICES ASSUME TypeOK, DirInv, [NextDisturbed]_vars PROVE DirInv'
  OBVIOUS
<1>1. CASE UNCHANGED <<dir, entries>>
  BY <1>1 DEF DirInv
<1>2. CASE Disturb
  BY <1>2, CallerAssumption DEF Disturb, DirInv
<1>3. ASSUME NEW c \in Caller, PublishAcquires(c) PROVE DirInv'
  BY <1>3, OwnTyped, CallerAssumption DEF PublishAcquires, DirInv, Owner
<1>4. ASSUME NEW c \in Caller, UnlinkDead(c) \/ UnlinkOwn(c) PROVE DirInv'
  BY <1>4 DEF UnlinkDead, UnlinkOwn, DirInv
<1>5. ASSUME NEW c \in Caller, RmdirDead(c) \/ RmdirOwn(c) PROVE DirInv'
  BY <1>5 DEF RmdirDead, RmdirOwn, RemoveEmptyDir, DirInv
<1>6. QED
  BY <1>1, <1>2, <1>3, <1>4, <1>5, Steps

\* Attempt numbers only grow.
LEMMA NumGrows ==
  ASSUME TypeOK, [NextDisturbed]_vars, NEW o \in Owner, Used(o)
  PROVE  Used(o)'
<1>1. CASE UNCHANGED num
  BY <1>1 DEF Used
<1>2. ASSUME NEW c \in Caller, CreateTemp(c) PROVE Used(o)'
  BY <1>2 DEF CreateTemp, Used, TypeOK, Owner
<1>3. QED
  BY <1>1, <1>2, Steps

\* The number of a caller's latest attempt was handed out.
LEMMA OwnUsed ==
  ASSUME TypeOK, NEW c \in Caller
  PROVE  Used(own(c))
BY DEF TypeOK, Used, own

\* What a step does to where a caller is and to what it has seen.
SeenUnchanged(c) == pc'[c] = pc[c] /\ seen'[c] = seen[c]
SeenDropped(c)   == pc'[c] \notin {"list", "probe", "unlinkDead"} /\ seen'[c] \in {seen[c], NoOwner}
SeenDir(c)       == pc'[c] = "list" /\ seen'[c] = dir /\ dir # NoOwner
SeenEntry(c)     == pc'[c] = "probe" /\ seen'[c] \in entries \ {Stray}
SeenDead(c)      == pc[c] = "probe" /\ pc'[c] = "unlinkDead" /\ seen'[c] = seen[c] /\ ~IsLive(seen[c])

SeenEffect(c) ==
    SeenUnchanged(c) \/ SeenDropped(c) \/ SeenDir(c) \/ SeenEntry(c) \/ SeenDead(c)

\* A call begins with a new attempt number, and only a dead process crashes it.
CallEffect(c) ==
    /\ pc[c] \in {"idle", "crashed"} /\ pc'[c] \notin {"idle", "crashed"} => CreateTemp(c)
    /\ num'[c] # num[c] => CreateTemp(c)
    /\ alive'[pidOf[c]] = alive[pidOf[c]] /\ pc[c] = "crashed" => pc'[c] = "crashed"
    /\ alive[pidOf[c]] /\ ~alive'[pidOf[c]] => pc'[c] = "crashed"
    /\ pc'[c] \in Trying => pc[c] \in Trying \/ CreateTemp(c)
    /\ pc'[c] \in Holding => pc[c] \in Holding \/ PublishAcquires(c)
    /\ pc'[c] = "rmdirOwn" /\ pc[c] # "rmdirOwn" => UnlinkOwn(c)
    /\ pc'[c] = "rmdirOwn" /\ pc[c] = "rmdirOwn" => result'[c] = result[c]

\* What one step of the attempt loop does to what inspect has seen.
LEMMA AcquireEffects ==
  ASSUME TypeOK, NEW c \in Caller, AcquireStep(c), NEW d \in Caller
  PROVE  SeenEffect(d) /\ CallEffect(d)
<1> USE DEF TypeOK, Goto, fsVars, callVars, timeVars, history, CallEffect, Trying, Holding,
        SeenEffect, SeenUnchanged, SeenDropped, LeaveLoop, Fail
<1>1. CASE CancelledWaiting(c) BY <1>1 DEF CancelledWaiting
<1>2. CASE PublishAcquires(c) BY <1>2 DEF PublishAcquires
<1>3. CASE PublishOccupied(c) BY <1>3 DEF PublishOccupied
<1>4. CASE OpenLock(c) BY <1>4 DEF OpenLock, SeenDir
<1>5. CASE ListLock(c) BY <1>5 DEF ListLock, SeenEntry
<1>6. CASE ProbeOwner(c) BY <1>6 DEF ProbeOwner, SeenDead
<1>7. CASE UnlinkDead(c) BY <1>7 DEF UnlinkDead
<1>8. CASE RmdirDead(c) BY <1>8 DEF RmdirDead
<1>9. CASE TryAgain(c) BY <1>9 DEF TryAgain
<1>10. CASE GiveUp(c) BY <1>10 DEF GiveUp
<1>11. CASE PermissionFailure(c) BY <1>11 DEF PermissionFailure
<1>12. QED BY <1>1, <1>2, <1>3, <1>4, <1>5, <1>6, <1>7, <1>8, <1>9, <1>10, <1>11 DEF AcquireStep

\* What one step does to control points and to what inspect has seen.
LEMMA Effects ==
  ASSUME TypeOK, [NextDisturbed]_vars, NEW d \in Caller
  PROVE  SeenEffect(d) /\ CallEffect(d)
<1> USE DEF TypeOK, Goto, fsVars, callVars, timeVars, history, CallEffect, Trying, Holding,
        SeenEffect, SeenUnchanged, SeenDropped
<1>1. ASSUME NEW c \in Caller, CreateTemp(c) PROVE SeenEffect(d) /\ CallEffect(d)
  BY <1>1 DEF CreateTemp
<1>2. ASSUME NEW c \in Caller, StartWork(c) PROVE SeenEffect(d) /\ CallEffect(d)
  BY <1>2 DEF StartWork
<1>3. ASSUME NEW c \in Caller, CancelledGranted(c) PROVE SeenEffect(d) /\ CallEffect(d)
  BY <1>3 DEF CancelledGranted
<1>4. ASSUME NEW c \in Caller, EndWork(c) PROVE SeenEffect(d) /\ CallEffect(d)
  BY <1>4 DEF EndWork
<1>5. ASSUME NEW c \in Caller, UnlinkOwn(c) PROVE SeenEffect(d) /\ CallEffect(d)
  BY <1>5 DEF UnlinkOwn
<1>6. ASSUME NEW c \in Caller, RmdirOwn(c) PROVE SeenEffect(d) /\ CallEffect(d)
  BY <1>6 DEF RmdirOwn
<1>7. ASSUME NEW c \in Caller, PublishDenied(c) PROVE SeenEffect(d) /\ CallEffect(d)
  BY <1>7 DEF PublishDenied
<1>8. ASSUME NEW c \in Caller, AcquireIoError(c) PROVE SeenEffect(d) /\ CallEffect(d)
  BY <1>8 DEF AcquireIoError, Fail, LeaveLoop
<1>9. ASSUME NEW c \in Caller, ReleaseFails(c) PROVE SeenEffect(d) /\ CallEffect(d)
  BY <1>9 DEF ReleaseFails
<1>10. ASSUME NEW c \in Caller, Expire(c) \/ Cancel(c) PROVE SeenEffect(d) /\ CallEffect(d)
  BY <1>10 DEF Expire, Cancel
<1>11. ASSUME NEW p \in Pid, Crash(p) PROVE SeenEffect(d) /\ CallEffect(d)
  BY <1>11, CallerAssumption DEF Crash
<1>12. ASSUME NEW p \in Pid, ReusePid(p) PROVE SeenEffect(d) /\ CallEffect(d)
  BY <1>12, CallerAssumption DEF ReusePid
<1>13. CASE Disturb
  BY <1>13 DEF Disturb
<1>14. CASE UNCHANGED vars
  BY <1>14 DEF vars
<1>15. QED
  BY <1>1, <1>2, <1>3, <1>4, <1>5, <1>6, <1>7, <1>8, <1>9, <1>10, <1>11, <1>12, <1>13, <1>14,
     AcquireEffects
  DEF NextDisturbed, Next, CallersAndCrashes, CallerStep, IoFailure
-----------------------------------------------------------------------------
(* The base invariant, whoever writes to the lock directory                *)

\* No step makes an owner appear whose attempt has not begun.
LEMMA FreshStep ==
  ASSUME TypeOK, DirInv, FreshInv, [NextDisturbed]_vars
  PROVE  FreshInv'
<1>0. \A c \in Caller : own(c) \in Owner /\ Used(own(c))
  BY OwnTyped, OwnUsed
<1>1. \A o \in (entries \ {Stray})' : Used(o)'
  <2> SUFFICES ASSUME NEW o \in (entries \ {Stray})' PROVE Used(o)'
    OBVIOUS
  <2>1. o \in entries \ {Stray} \/ \E c \in Caller : o = own(c)
    BY Steps DEF Disturb, PublishAcquires, UnlinkDead, RmdirDead, UnlinkOwn, RmdirOwn
  <2>2. o \in Owner /\ Used(o)
    BY <2>1, <1>0 DEF FreshInv, TypeOK
  <2>3. QED BY <2>2, NumGrows
<1>2. \A o \in passed' : Used(o)'
  <2> SUFFICES ASSUME NEW o \in passed' PROVE Used(o)'
    OBVIOUS
  <2>1. o \in passed \/ \E c \in Caller : o = own(c)
    BY Steps DEF RmdirOwn
  <2>2. o \in Owner /\ Used(o)
    BY <2>1, <1>0 DEF FreshInv, TypeOK
  <2>3. QED BY <2>2, NumGrows
<1>3. \A pair \in met' : \A o \in pair : Used(o)'
  <2> SUFFICES ASSUME NEW pair \in met', NEW o \in pair PROVE Used(o)'
    OBVIOUS
  <2>1. pair \in met \/ \E c \in Caller : o = own(c)
    BY Steps DEF StartWork, Working
  <2>2. o \in Owner /\ Used(o)
    BY <2>1, <1>0 DEF FreshInv, TypeOK
  <2>3. QED BY <2>2, NumGrows
<1>4. ASSUME NEW c \in Caller, seen'[c] # NoOwner PROVE Used(seen[c])'
  <2>1. seen'[c] \in {seen[c], dir} \cup (entries \ {Stray})
    BY <1>4, Effects
    DEF SeenEffect, SeenUnchanged, SeenDropped, SeenDir, SeenEntry, SeenDead
  <2>2. seen'[c] \in Owner /\ Used(seen'[c])
    BY <1>4, <2>1 DEF FreshInv, TypeOK
  <2>3. QED BY <2>2, NumGrows DEF Used
<1>5. ASSUME dir' # NoOwner PROVE Used(dir)'
  <2>1. dir' = dir \/ \E c \in Caller : dir' = own(c)
    BY <1>5, Steps
    DEF Disturb, PublishAcquires, UnlinkDead, RmdirDead, UnlinkOwn, RmdirOwn, RemoveEmptyDir
  <2>2. dir' \in Owner /\ Used(dir')
    BY <1>5, <2>1, <1>0 DEF FreshInv, TypeOK
  <2>3. QED BY <2>2, NumGrows DEF Used
<1>6. QED
  BY <1>1, <1>2, <1>3, <1>4, <1>5 DEF FreshInv

\* inspect holds an inode or an owner while it lists, probes and removes.
LEMMA SeenStep ==
  ASSUME TypeOK, DirInv, SeenInv, [NextDisturbed]_vars
  PROVE  SeenInv'
<1> SUFFICES ASSUME NEW c \in Caller, pc'[c] \in {"list", "probe", "unlinkDead"}
             PROVE  seen'[c] \in Owner
  BY DEF SeenInv
<1>1. SeenEffect(c)
  BY Effects
<1>2. QED
  BY <1>1
  DEF SeenEffect, SeenUnchanged, SeenDropped, SeenDir, SeenEntry, SeenDead, SeenInv, TypeOK

\* A caller whose process is dead is crashed; a reused pid starts afresh.
LEMMA DeadStep ==
  ASSUME TypeOK, DeadInv, [NextDisturbed]_vars
  PROVE  DeadInv'
<1> SUFFICES ASSUME NEW c \in Caller, ~alive'[pidOf[c]]
             PROVE  pc'[c] = "crashed"
  BY DEF DeadInv
<1>1. CallEffect(c)
  BY Effects
<1>2. pidOf[c] \in Pid
  BY CallerAssumption
<1>3. QED
  BY <1>1, <1>2, TypeStep DEF CallEffect, DeadInv, TypeOK

\* An owner found dead stays out of any call until its file is removed.
LEMMA TargetStep ==
  ASSUME Base, [NextDisturbed]_vars
  PROVE  TargetInv'
<1> USE DEF Base
<1> SUFFICES ASSUME NEW c \in Caller, NEW d \in Caller,
                    pc'[c] = "unlinkDead", seen'[c] = own(d)'
             PROVE  pc'[d] \in {"idle", "crashed"}
  BY DEF TargetInv
<1>1. seen'[c] = seen[c] /\ seen[c] \in Owner /\ Used(seen[c])
  <2>1. pc[c] \in {"probe", "unlinkDead"} /\ seen'[c] = seen[c]
    BY Effects DEF SeenEffect, SeenUnchanged, SeenDropped, SeenDir, SeenEntry, SeenDead
  <2>2. QED
    BY <2>1, CallerAssumption DEF SeenInv, FreshInv, Owner
<1>2. ~CreateTemp(d) /\ num'[d] = num[d]
  <2>1. ASSUME CreateTemp(d) PROVE FALSE
    BY <2>1, <1>1 DEF CreateTemp, own, Used, TypeOK
  <2>2. QED
    BY <2>1, Effects DEF CallEffect
<1>3. seen[c] = own(d)
  BY <1>1, <1>2 DEF own
<1>4. pc[d] \in {"idle", "crashed"}
  <2>1. CASE pc[c] = "unlinkDead"
    BY <2>1, <1>3 DEF TargetInv
  <2>2. CASE pc[c] # "unlinkDead"
    <3>1. ~IsLive(seen[c])
      BY <2>2, Effects DEF SeenEffect, SeenUnchanged, SeenDropped, SeenDir, SeenEntry, SeenDead
    <3>2. ~alive[pidOf[d]]
      BY <3>1, <1>3 DEF IsLive, own
    <3>3. QED BY <3>2 DEF DeadInv
  <2>3. QED BY <2>1, <2>2
<1>5. QED
  BY <1>2, <1>4, Effects DEF CallEffect

\* The invariant that holds under disturbance is inductive.
LEMMA BaseStep == Base /\ [NextDisturbed]_vars => Base'
BY TypeStep, DirStep, FreshStep, SeenStep, DeadStep, TargetStep DEF Base

\* The invariant that holds under disturbance holds in every behaviour.
LEMMA BaseInvariant == SpecDisturbed => []Base
<1>1. QED
  BY BaseInit, BaseStep, PTL DEF SpecDisturbed

\* A recovery never aims at the owner file of a caller that holds the lock,
\* also in a directory others write to.
THEOREM RecoveriesAreSafe == SpecDisturbed => []RecoveryTargetsDead
<1>1. Base => RecoveryTargetsDead
  BY DEF Base, TargetInv, RecoveryTargetsDead, Holding
<1>2. QED
  BY <1>1, BaseInvariant, PTL

-----------------------------------------------------------------------------
(* Mutual exclusion                                                        *)

\* A holder's owner file is in the lock directory, and nothing strange is.
HolderInv == \A c \in Caller : pc[c] \in Holding => own(c) \in entries

IInv == Base /\ HolderInv /\ Stray \notin entries

\* Without other writers, these are the steps that change the directory.
DirSteps ==
    \/ UNCHANGED <<dir, entries>>
    \/ \E c \in Caller : PublishAcquires(c) \/ UnlinkDead(c) \/ RmdirDead(c)
                            \/ UnlinkOwn(c) \/ RmdirOwn(c)

\* Without a disturbance only the callers' own steps touch the directory.
LEMMA UndisturbedSteps == [Next]_vars => DirSteps
<1> USE DEF DirSteps, fsVars
<1>1. ASSUME NEW c \in Caller, AcquireStep(c) PROVE DirSteps
  BY <1>1 DEF AcquireStep, CancelledWaiting, PublishOccupied, OpenLock, ListLock, ProbeOwner,
       TryAgain, GiveUp, PermissionFailure, Fail
<1>2. ASSUME NEW c \in Caller, CallerStep(c), ~AcquireStep(c) PROVE DirSteps
  BY <1>2 DEF CallerStep, CreateTemp, StartWork, CancelledGranted, EndWork
<1>3. ASSUME NEW c \in Caller, IoFailure(c) PROVE DirSteps
  BY <1>3 DEF IoFailure, PublishDenied, AcquireIoError, ReleaseFails, Fail
<1>4. ASSUME NEW c \in Caller, Expire(c) \/ Cancel(c) PROVE DirSteps
  BY <1>4 DEF Expire, Cancel
<1>5. ASSUME NEW p \in Pid, Crash(p) \/ ReusePid(p) PROVE DirSteps
  BY <1>5 DEF Crash, ReusePid
<1>6. CASE UNCHANGED vars
  BY <1>6 DEF vars
<1>7. QED
  BY <1>1, <1>2, <1>3, <1>4, <1>5, <1>6 DEF Next, CallersAndCrashes

\* A holder's owner file stays in the lock directory until its own release.
LEMMA HolderStep ==
  ASSUME IInv, [Next]_vars
  PROVE  HolderInv' /\ Stray \notin entries'
<1> USE DEF IInv
<1>0. [NextDisturbed]_vars
  BY DEF NextDisturbed
<1>a. \A c \in Caller : own(c) \in Owner
  BY OwnTyped DEF Base
<1>1. DirSteps
  BY UndisturbedSteps
<1>2. Stray \notin entries'
  BY <1>1, <1>a, CallerAssumption
  DEF DirSteps, PublishAcquires, UnlinkDead, RmdirDead, UnlinkOwn, RmdirOwn, Owner
<1>3. ASSUME NEW d \in Caller, pc'[d] \in Holding PROVE own(d)' \in entries'
  <2>1. own(d)' = own(d) /\ ~CreateTemp(d)
    <3>1. ~CreateTemp(d)
      BY <1>3 DEF CreateTemp, Goto, Holding, Base, TypeOK
    <3>2. QED BY <1>0, <3>1, Effects DEF CallEffect, own, Base
  <2>2. pc[d] \in Holding \/ PublishAcquires(d)
    BY <1>0, <1>3, Effects DEF CallEffect, Base
  <2>3. CASE PublishAcquires(d)
    BY <2>1, <2>3 DEF PublishAcquires
  <2>4. CASE pc[d] \in Holding
    <3>1. own(d) \in entries
      BY <2>4 DEF HolderInv
    <3>2. CASE UNCHANGED <<dir, entries>>
      BY <2>1, <3>1, <3>2
    <3>3. ASSUME NEW c \in Caller, PublishAcquires(c) PROVE FALSE
      BY <3>1, <3>3 DEF PublishAcquires
    <3>4. ASSUME NEW c \in Caller, UnlinkDead(c) PROVE own(d)' \in entries'
      <4>1. seen[c] # own(d)
        BY <2>4, <3>4 DEF UnlinkDead, Goto, Base, TargetInv, Holding
      <4>2. QED BY <2>1, <3>1, <3>4, <4>1 DEF UnlinkDead
    <3>5. ASSUME NEW c \in Caller, RmdirDead(c) \/ RmdirOwn(c) PROVE own(d)' \in entries'
      BY <2>1, <3>1, <3>5 DEF RmdirDead, RmdirOwn
    <3>6. ASSUME NEW c \in Caller, UnlinkOwn(c) PROVE own(d)' \in entries'
      <4>1. c # d
        BY <1>3, <3>6 DEF UnlinkOwn, Goto, Holding, Base, TypeOK
      <4>2. own(c) # own(d)
        BY <4>1 DEF own
      <4>3. QED BY <2>1, <3>1, <3>6, <4>2 DEF UnlinkOwn
    <3>7. QED BY <1>1, <3>2, <3>3, <3>4, <3>5, <3>6 DEF DirSteps
  <2>5. QED BY <2>2, <2>3, <2>4
<1>4. QED
  BY <1>2, <1>3 DEF HolderInv

\* The inductive invariant of the undisturbed lock holds in every behaviour.
LEMMA IInvInvariant == Spec => []IInv
<1>1. Init => IInv
  BY BaseInit DEF IInv, HolderInv, Init, Holding
<1>2. IInv /\ [Next]_vars => IInv'
  BY HolderStep, BaseStep DEF IInv, NextDisturbed
<1>3. QED
  BY <1>1, <1>2, PTL DEF Spec

\* with_file_lock runs one work at a time, whatever crashes, recoveries,
\* reused pids and refused filesystem calls there are.
THEOREM OneHolder == Spec => []MutualExclusion
<1>1. IInv => MutualExclusion
  <2> SUFFICES ASSUME IInv, NEW c \in Caller, NEW d \in Caller,
                      pc[c] \in Holding, pc[d] \in Holding
               PROVE  c = d
    BY DEF MutualExclusion
  <2>1. own(c) \in entries /\ own(d) \in entries /\ Stray \notin entries
    BY DEF IInv, HolderInv
  <2>2. own(c) = own(d)
    BY <2>1 DEF IInv, Base, DirInv
  <2>3. QED BY <2>2 DEF own
<1>2. QED
  BY <1>1, IInvInvariant, PTL

-----------------------------------------------------------------------------
(* No two overlapping works both succeed                                   *)

\* An owner that has returned the work's value, or still may.
Returning(c) == pc[c] = "rmdirOwn" /\ result[c] = "ok"
Claim(o) == o \in passed \/ o \in entries \/ \E c \in Caller : own(c) = o /\ Returning(c)

\* An owner file that is not published yet was never paired, nor returned.
UnpublishedInv ==
    \A c \in Caller :
        /\ pc[c] \in Trying => \A pair \in met : own(c) \notin pair
        /\ pc[c] \in Trying \cup Holding \cup {"rmdirOwn"} => own(c) \notin passed

ClaimInv == \A pair \in met : \E o \in pair : ~Claim(o)

JInv == Base /\ UnpublishedInv /\ ClaimInv

\* An attempt in its loop has met nobody, and one in its call has not passed.
LEMMA UnpublishedStep ==
  ASSUME JInv, [NextDisturbed]_vars
  PROVE  UnpublishedInv'
<1> USE DEF JInv, Base
<1> SUFFICES ASSUME NEW c \in Caller
             PROVE  /\ pc'[c] \in Trying => \A pair \in met' : own(c)' \notin pair
                    /\ pc'[c] \in Trying \cup Holding \cup {"rmdirOwn"} => own(c)' \notin passed'
  BY DEF UnpublishedInv
<1>1. CASE CreateTemp(c)
  <2>1. own(c)' = <<c, num[c] + 1>> /\ ~Used(own(c)') /\ UNCHANGED <<passed, met>>
    BY <1>1 DEF CreateTemp, own, Used, TypeOK, history
  <2>2. QED
    BY <2>1 DEF FreshInv
<1>2. CASE ~CreateTemp(c)
  <2>1. CallEffect(c) /\ own(c)' = own(c)
    BY <1>2, Effects DEF CallEffect, own
  <2>2. ASSUME pc'[c] \in Trying, NEW pair \in met' PROVE own(c)' \notin pair
    <3>1. pc[c] \in Trying
      BY <1>2, <2>1, <2>2 DEF CallEffect
    <3>2. CASE pair \in met
      BY <2>1, <3>1, <3>2 DEF UnpublishedInv
    <3>3. CASE pair \notin met
      <4>1. PICK d \in Caller : StartWork(d) /\ \E e \in Working : pair = {own(d), own(e)}
        BY <3>3, Steps DEF StartWork
      <4>2. d # c /\ c \notin Working
        BY <3>1, <4>1 DEF StartWork, Goto, Trying, Working
      <4>3. QED BY <2>1, <4>1, <4>2 DEF own, Working
    <3>4. QED BY <3>2, <3>3
  <2>3. ASSUME pc'[c] \in Trying \cup Holding \cup {"rmdirOwn"} PROVE own(c)' \notin passed'
    <3>1. pc[c] \in Trying \cup Holding \cup {"rmdirOwn"}
      BY <1>2, <2>1, <2>3 DEF CallEffect, PublishAcquires, UnlinkOwn, Goto, Trying, Holding
    <3>2. own(c) \notin passed
      BY <3>1 DEF UnpublishedInv
    <3>3. ASSUME NEW d \in Caller, RmdirOwn(d) PROVE own(c) \notin passed'
      <4>1. d # c
        BY <2>3, <3>3 DEF RmdirOwn, Goto, Trying, Holding, TypeOK
      <4>2. QED BY <3>2, <3>3, <4>1 DEF RmdirOwn, own
    <3>4. QED BY <2>1, <3>2, <3>3, Steps
  <2>4. QED BY <2>2, <2>3
<1>3. QED BY <1>1, <1>2

\* No step gives a claim to an owner that is not being published.
LEMMA NoNewClaim ==
  ASSUME JInv, [NextDisturbed]_vars, NEW o \in Owner, ~Claim(o),
         \A c \in Caller : pc[c] \in Trying => own(c) # o,
         Used(o)
  PROVE  ~Claim(o)'
<1> USE DEF JInv, Base
<1>1. o \notin entries'
  <2>1. ASSUME NEW c \in Caller, PublishAcquires(c) PROVE o \notin entries'
    BY <2>1 DEF PublishAcquires, Goto, Trying
  <2>2. QED
    BY <2>1, Steps, CallerAssumption
    DEF Claim, Disturb, UnlinkDead, RmdirDead, UnlinkOwn, RmdirOwn, Owner
<1>2. o \notin passed'
  <2>1. ASSUME NEW c \in Caller, RmdirOwn(c) PROVE o \notin passed'
    BY <2>1 DEF RmdirOwn, Goto, Claim, Returning
  <2>2. QED BY <2>1, Steps DEF Claim
<1>3. ASSUME NEW c \in Caller, own(c)' = o, Returning(c)' PROVE FALSE
  <2>1. ~CreateTemp(c)
    BY <1>3 DEF Returning, CreateTemp, Goto, TypeOK
  <2>2. own(c) = o
    BY <1>3, <2>1, Effects DEF CallEffect, own
  <2>3. CASE pc[c] = "rmdirOwn"
    BY <1>3, <2>2, <2>3, Effects DEF CallEffect, Returning, Claim
  <2>4. CASE UnlinkOwn(c)
    BY <1>3, <2>2, <2>4 DEF UnlinkOwn, Returning, Claim, TypeOK
  <2>5. QED
    BY <1>3, <2>3, <2>4, Effects DEF CallEffect, Returning
<1>4. QED
  BY <1>1, <1>2, <1>3 DEF Claim

\* Of two owners whose works met, at most one still has a claim to return ok.
LEMMA ClaimStep ==
  ASSUME JInv, [NextDisturbed]_vars
  PROVE  ClaimInv'
<1> USE DEF JInv, Base
<1> SUFFICES ASSUME NEW pair \in met' PROVE \E o \in pair : ~Claim(o)'
  BY DEF ClaimInv
<1>1. PICK o \in pair : /\ o \in Owner /\ Used(o) /\ ~Claim(o)
                        /\ \A c \in Caller : pc[c] \in Trying => own(c) # o
  <2>1. CASE pair \in met
    <3>1. PICK o \in pair : ~Claim(o)
      BY <2>1 DEF ClaimInv
    <3>2. o \in Owner /\ Used(o)
      BY <2>1 DEF FreshInv, TypeOK
    <3>3. \A c \in Caller : pc[c] \in Trying => own(c) # o
      BY <2>1 DEF UnpublishedInv
    <3>4. QED BY <3>1, <3>2, <3>3
  <2>2. CASE pair \notin met
    <3>1. PICK d \in Caller : StartWork(d) /\ \E e \in Working : pair = {own(d), own(e)}
      BY <2>2, Steps DEF StartWork
    <3>2. PICK e \in Caller : pc[e] = "work" /\ pair = {own(d), own(e)}
      BY <3>1 DEF Working
    <3>3. pc[d] = "granted" /\ own(d) # own(e)
      BY <3>1, <3>2 DEF StartWork, Goto, own
    <3>4. \A x \in {d, e} : /\ own(x) \in Owner /\ Used(own(x))
                            /\ \A c \in Caller : pc[c] \in Trying => own(c) # own(x)
      BY <3>2, <3>3, OwnTyped, OwnUsed DEF own, Trying
    <3>5. own(d) \notin passed /\ own(e) \notin passed
      BY <3>2, <3>3 DEF UnpublishedInv, Holding
    <3>6. own(d) \notin entries \/ own(e) \notin entries
      BY <3>3, <3>4, CallerAssumption DEF DirInv, Owner
    <3>7. \A c \in Caller, x \in {d, e} : own(c) = own(x) => ~Returning(c)
      BY <3>2, <3>3 DEF own, Returning
    <3>8. ~Claim(own(d)) \/ ~Claim(own(e))
      BY <3>5, <3>6, <3>7 DEF Claim
    <3>9. QED BY <3>2, <3>4, <3>8
  <2>3. QED BY <2>1, <2>2
<1>2. ~Claim(o)'
  BY <1>1, NoNewClaim
<1>3. QED BY <1>2

\* When others remove owner files under their holders, works may overlap, but
\* two works that overlapped never both return their value.
THEOREM OverlapIsReported == SpecDisturbed => []NoDoubleSuccess
<1>1. Init => JInv
  BY BaseInit DEF Init, JInv, UnpublishedInv, ClaimInv
<1>2. JInv /\ [NextDisturbed]_vars => JInv'
  BY BaseStep, UnpublishedStep, ClaimStep DEF JInv
<1>3. JInv => NoDoubleSuccess
  BY DEF JInv, ClaimInv, Claim, NoDoubleSuccess
<1>4. QED
  BY <1>1, <1>2, <1>3, PTL DEF SpecDisturbed

-----------------------------------------------------------------------------
(* The rename protocol implements the exclusive lock                       *)

\* The holder of a directory with one owner file is that file's caller.
LEMMA HolderOfOne ==
  ASSUME NEW o, entries = {o}
  PROVE  LockHolder = o[1]
BY DEF LockHolder

\* The lock directory is empty or holds the one file it was published with.
LEMMA AtMostOneEntry == IInv => entries = {} \/ (dir \in Owner /\ entries = {dir})
BY DEF IInv, Base, DirInv, TypeOK

\* The holding caller, if any, is the one the lock directory names.
LEMMA AbandonedOrHeld ==
  ASSUME IInv, NEW c \in Caller, pc[c] \in Holding
  PROVE  entries = {own(c)} /\ LockHolder = c /\ ~LockAbandoned
<1>1. own(c) \in entries
  BY DEF IInv, HolderInv
<1>2. entries = {own(c)}
  BY <1>1, AtMostOneEntry
<1>3. LockHolder = c
  <2>1. LockHolder = own(c)[1]
    BY <1>2, HolderOfOne
  <2>2. QED BY <2>1 DEF own
<1>4. QED
  BY <1>1, <1>2, <1>3 DEF LockAbandoned

\* A step that keeps the owner files keeps the holder, and at most abandons it.
LEMMA SameEntries ==
  ASSUME IInv, IInv', entries' = entries,
         \A c \in Caller : pc'[c] \in Holding => pc[c] \in Holding
  PROVE  [Promise!Next]_<<LockHolder, LockAbandoned>>
<1>1. LockHolder' = LockHolder
  BY DEF LockHolder
<1>2. CASE \E c \in Caller : pc'[c] \in Holding
  <2>1. PICK c \in Caller : pc'[c] \in Holding
    BY <1>2
  <2>2. ~LockAbandoned
    BY <2>1, AbandonedOrHeld
  <2>3. own(c)' \in entries'
    BY <2>1 DEF IInv, HolderInv
  <2>4. ~LockAbandoned'
    BY <2>1, <2>3 DEF LockAbandoned
  <2>5. LockAbandoned' = LockAbandoned
    BY <2>2, <2>4 DEF LockAbandoned
  <2>6. QED BY <1>1, <2>5
<1>3. CASE ~\E c \in Caller : pc'[c] \in Holding
  <2>1. LockAbandoned' = (entries # {})
    BY <1>3 DEF LockAbandoned
  <2>2. CASE entries = {}
    BY <1>1, <2>1, <2>2 DEF LockAbandoned
  <2>3. CASE entries # {} /\ LockAbandoned
    <3>1. LockAbandoned = TRUE /\ LockAbandoned' = TRUE
      BY <2>1, <2>3 DEF LockAbandoned
    <3>2. QED BY <1>1, <3>1
  <2>4. CASE entries # {} /\ ~LockAbandoned
    <3>1. LockHolder # NoOwner
      <4>1. PICK o \in Owner : entries = {o}
        BY <2>4, AtMostOneEntry
      <4>2. QED BY <4>1, HolderOfOne, CallerAssumption DEF Owner
    <3>2. LockAbandoned' = TRUE
      BY <2>1, <2>4
    <3>3. Promise!Abandon
      BY <1>1, <2>4, <3>1, <3>2 DEF Promise!Abandon
    <3>4. QED BY <3>3 DEF Promise!Next
  <2>5. QED BY <2>2, <2>3, <2>4
<1>4. QED BY <1>2, <1>3

\* Every step of the protocol is a step of ExclusiveLock or a stutter.
LEMMA RefinesStep ==
  ASSUME IInv, IInv', [Next]_vars
  PROVE  [Promise!Next]_<<LockHolder, LockAbandoned>>
<1> DEFINE Goal == [Promise!Next]_<<LockHolder, LockAbandoned>>
<1>0. Base /\ TypeOK /\ [NextDisturbed]_vars /\ \A c \in Caller : CallEffect(c)
  BY Effects DEF IInv, Base, NextDisturbed
<1>1. ASSUME NEW c \in Caller, PublishAcquires(c) PROVE Goal
  <2>1. entries = {} /\ entries' = {own(c)} /\ own(c)' = own(c)
    BY <1>1 DEF PublishAcquires, own
  <2>2. LockHolder = NoOwner /\ ~LockAbandoned
    BY <2>1 DEF LockHolder, LockAbandoned
  <2>3. pc'[c] \in Holding
    BY <1>0, <1>1 DEF PublishAcquires, Goto, Holding, TypeOK
  <2>4. LockHolder' = c /\ ~LockAbandoned'
    <3>1. LockHolder' = own(c)[1]
      BY <2>1 DEF LockHolder
    <3>2. own(c)' \in entries'
      BY <2>1
    <3>3. QED BY <3>1, <3>2, <2>3 DEF LockAbandoned, own
  <2>5. LockAbandoned' = LockAbandoned
    BY <2>2, <2>4 DEF LockAbandoned
  <2>6. Promise!Acquire(c)
    BY <2>2, <2>4, <2>5 DEF Promise!Acquire
  <2>7. QED BY <2>6 DEF Promise!Next
<1>2. ASSUME NEW c \in Caller, UnlinkOwn(c) PROVE Goal
  <2>1. entries = {own(c)} /\ LockHolder = c /\ ~LockAbandoned
    BY <1>2, AbandonedOrHeld DEF UnlinkOwn, Goto, Holding
  <2>2. entries' = {}
    BY <1>2, <2>1 DEF UnlinkOwn
  <2>3. LockHolder' = NoOwner /\ ~LockAbandoned'
    BY <2>2 DEF LockHolder, LockAbandoned
  <2>4. LockAbandoned' = LockAbandoned
    BY <2>1, <2>3 DEF LockAbandoned
  <2>5. Promise!Release(c)
    BY <2>1, <2>3, <2>4 DEF Promise!Release
  <2>6. QED BY <2>5 DEF Promise!Next
<1>3. ASSUME entries' = entries, ~\E c \in Caller : PublishAcquires(c) PROVE Goal
  BY <1>0, <1>3, SameEntries DEF CallEffect
<1>4. ASSUME NEW q \in Caller, UnlinkDead(q) PROVE Goal
  <2>0. ~\E c \in Caller : PublishAcquires(c)
    BY <1>0, <1>4 DEF UnlinkDead, PublishAcquires, Goto, TypeOK, PC
  <2>1. CASE seen[q] \notin entries
    <3>1. entries' = entries
      BY <1>4, <2>1 DEF UnlinkDead
    <3>2. QED BY <3>1, <2>0, <1>3
  <2>2. CASE seen[q] \in entries
    <3>1. entries = {seen[q]} /\ entries' = {}
      BY <1>4, <2>2, AtMostOneEntry DEF UnlinkDead
    <3>2. LockAbandoned
      <4>1. \A c \in Caller : pc[c] \in Holding => own(c) # seen[q]
        BY <1>0, <1>4 DEF UnlinkDead, Goto, Base, TargetInv, Holding
      <4>2. QED BY <3>1, <4>1 DEF LockAbandoned
    <3>3. LockHolder' = NoOwner /\ LockAbandoned' = FALSE
      BY <3>1 DEF LockHolder, LockAbandoned
    <3>4. Promise!Recover
      BY <3>2, <3>3 DEF Promise!Recover
    <3>5. QED BY <3>4 DEF Promise!Next
  <2>3. QED BY <2>1, <2>2
<1>5. ASSUME NEW c \in Caller, RmdirDead(c) \/ RmdirOwn(c), ~\E d \in Caller : PublishAcquires(d)
      PROVE Goal
  BY <1>3, <1>5 DEF RmdirDead, RmdirOwn
<1>6. QED
  BY <1>1, <1>2, <1>3, <1>4, <1>5, UndisturbedSteps DEF DirSteps

\* The lock directory protocol is an exclusive lock that only its holder
\* releases and that others free only once its holder is gone.
THEOREM Implementation == Spec => ImplementsExclusiveLock
<1>1. Init => Promise!Init
  BY DEF Init, Promise!Init, LockHolder, LockAbandoned
<1>2. IInv /\ IInv' /\ [Next]_vars => [Promise!Next]_<<LockHolder, LockAbandoned>>
  BY RefinesStep
<1>3. QED
  BY <1>1, <1>2, IInvInvariant, PTL DEF Spec, Promise!Spec, ImplementsExclusiveLock

=============================================================================
