------------------------- MODULE InfoMentorClientProofs -------------------------
(***************************************************************************)
(* Proofs about InfoMentorClient for any reads, setups, logouts, accounts, *)
(* children and sessions.  A flag that is up keeps new setups from         *)
(* starting and reads from passing their checks, and a logout waits for    *)
(* the setup and the read that were there before it, so that nothing is at *)
(* work when it removes the session.  What is saved or remembered of a     *)
(* session is true of it, so that a read saves the account of the session  *)
(* it was given.                                                           *)
(* The second part is about Collection: a call works from what its caller  *)
(* was told, and answers from there.  The last part is about               *)
(* InfoMentorHttp: the choice of cookies and the import of a jar, which    *)
(* are recursive functions, by an induction over the sets of numbers and   *)
(* of sequences for which a statement holds.                               *)
(***************************************************************************)
EXTENDS InfoMentorMcp, TLAPS, FiniteSetTheorems, SequenceTheorems, WellFoundedInduction

-----------------------------------------------------------------------------
(* The inductive invariant, in named parts                                 *)

\* Who runs what, and that a call past its queue owns it.
RoleInv ==
    /\ \A r \in Read : /\ pc[r] \in {"idle", "ready", "open", "free", "done"} \cup InRead
                       /\ pc[r] \in {"ready", "open", "free"} \cup InRead => queue = r
    /\ \A s \in Setup : pc[s] \in {"idle", "done"} \cup InSetup
    /\ \A o \in Logout : pc[o] \in {"idle", "done"} \cup InOut
    /\ waits \in [Logout \cup {None} -> Setup \cup {None}]
    /\ asked \in [Read -> Child \cup {None}]
    /\ closing \in {"open", "aborted", "closed"} /\ loggingOut \in BOOLEAN

\* One logout at a time, which owns the flag; no setup starts under a flag, so
\* that the one that is waited for is the last; no read passes its checks.
FlagInv ==
    /\ setup # None => pc[setup] \in InSetup
    /\ \A o \in Logout : pc[o] \in InOut =>
           /\ loggingOut
           /\ \A p \in Logout : pc[p] \in InOut => p = o
           /\ setup \in {None, waits[o]}
           /\ pc[o] # "wait" => setup = None /\ \A r \in Read : pc[r] \notin InRead
    /\ Closed => setup \in {None, waits[None]}
    /\ closing = "closed" =>
           setup = None /\ \A r \in Read : pc[r] \notin {"open", "free"} \cup InRead
    /\ before = {}

\* The session that a read holds in memory is the saved one.
HoldInv ==
    \A r \in Read : pc[r] \in InRead \ {"checked"} =>
        record.session # None /\ active # None /\ active.from = record.session

\* What is saved or remembered of a session is true of it.
True(s, account) == s.id \in DOMAIN sessions /\ account \in {None, sessions[s.id].account}

TruthInv ==
    /\ record.session # None => True(record.session, record.session.account)
    /\ active # None => /\ True(active.from, active.from.account)
                        /\ True(active.from, active.account)

IInv == TypeOK /\ RoleInv /\ FlagInv /\ HoldInv /\ TruthInv

-----------------------------------------------------------------------------
(* InfoMentor's sessions                                                   *)

\* A session that is issued is a new one; the others stay.
LEMMA Issuing ==
    ASSUME TypeOK, NEW a \in Account, NEW child \in Child, Issue(a, child)
    PROVE  /\ Issued + 1 \in Id /\ DOMAIN sessions' = 1..(Issued + 1) /\ Issued' = Issued + 1
           /\ \A i \in DOMAIN sessions : i \in DOMAIN sessions' /\ sessions'[i] = sessions[i]
           /\ sessions'[Issued + 1] = [account |-> a, child |-> child, live |-> TRUE]
           /\ \A i \in DOMAIN sessions' : sessions'[i] \in Server
           /\ Issued + 1 \in DOMAIN sessions'
<1> DEFINE n == Issued
           f == [i \in 1..(n + 1) |->
                    IF i <= n THEN sessions[i] ELSE [account |-> a, child |-> child, live |-> TRUE]]
<1>1. n \in Nat /\ n < MaxIds /\ MaxIds \in Nat /\ DOMAIN sessions = 1..n
  BY ClientAssumption DEF TypeOK, Id, Issue
<1>2. sessions' = f
  BY DEF Issue
<1>3. Cardinality(1..(n + 1)) = n + 1
  <2>1. Cardinality(1..(n + 1)) = IF 1 > n + 1 THEN 0 ELSE (n + 1) - 1 + 1
    BY <1>1, FS_Interval
  <2> QED
    BY <1>1, <2>1
<1>4. DOMAIN sessions' = 1..(n + 1)
  BY <1>2
<1>5. Issued' = n + 1
  BY <1>3, <1>4 DEF Issued
<1> HIDE DEF n
<1>6. \A i \in 1..n : sessions[i] \in Server
  BY <1>1 DEF TypeOK
<1>7. [account |-> a, child |-> child, live |-> TRUE] \in Server
  BY DEF Server
<1>8. n + 1 \in 1..(n + 1) /\ n + 1 \in 1..MaxIds /\ ~(n + 1 <= n)
  BY <1>1
<1>9. \A i \in 1..n : i \in 1..(n + 1) /\ i <= n
  BY <1>1
<1>10. \A i \in 1..n : sessions'[i] = sessions[i]
  BY <1>2, <1>9
<1>11. sessions'[n + 1] = [account |-> a, child |-> child, live |-> TRUE]
  BY <1>2, <1>8
<1>12. \A i \in 1..(n + 1) : sessions'[i] \in Server
  <2>1. \A i \in 1..(n + 1) : i \in 1..n \/ i = n + 1
    BY <1>1
  <2> QED
    BY <1>6, <1>7, <1>10, <1>11, <2>1
<1> QED
  BY <1>1, <1>4, <1>5, <1>8, <1>9, <1>10, <1>11, <1>12 DEF n, Id

\* A session's account never changes.
LEMMA SessionsStep ==
    ASSUME TypeOK, RoleInv, HoldInv, TruthInv, [Next]_vars
    PROVE  /\ DOMAIN sessions' = 1..Issued' /\ Issued' \in Id
           /\ \A i \in DOMAIN sessions' : sessions'[i] \in Server
           /\ \A i \in DOMAIN sessions : i \in DOMAIN sessions' /\ sessions'[i].account = sessions[i].account
<1> DEFINE Grown == /\ DOMAIN sessions' = 1..Issued' /\ Issued' \in Id
                    /\ \A i \in DOMAIN sessions' : sessions'[i] \in Server
                    /\ \A i \in DOMAIN sessions :
                          i \in DOMAIN sessions' /\ sessions'[i].account = sessions[i].account
<1>1. CASE UNCHANGED sessions
  BY <1>1 DEF TypeOK, Issued
<1>2. ASSUME NEW a \in Account, NEW child \in Child, Issue(a, child)
      PROVE  Grown
  BY <1>2, Issuing DEF Issued
<1>3. ASSUME NEW i \in DOMAIN sessions, NEW child \in Child,
             sessions' = [sessions EXCEPT ![i].child = child]
      PROVE  Grown
  BY <1>3 DEF TypeOK, Issued, Server
<1>4. ASSUME NEW i \in DOMAIN sessions, sessions' = [sessions EXCEPT ![i].live = FALSE]
      PROVE  Grown
  BY <1>4 DEF TypeOK, Issued, Server
<1>5. ASSUME NEW r \in Read, Work(r) \/ WorkFails(r)
      PROVE  Grown
  <2>1. record.session.id \in DOMAIN sessions /\ asked[r] \in Child \cup {None}
    BY <1>5 DEF Work, WorkFails, HoldInv, InRead, TruthInv, True, RoleInv
  <2> QED
    BY <1>1, <1>3, <1>5, <2>1 DEF Work, WorkFails
<1>6. ASSUME NEW r \in Read, Renew(r) \/ RenewFails(r)
      PROVE  Grown
  <2>1. Credentials \in Account \cup {None} /\ record.session.child \in Child \cup {None}
    <3>1. record \in Record /\ record.session # None
      BY <1>6 DEF TypeOK, HoldInv, Renew, RenewFails, Goto, InRead
    <3> QED
      BY <3>1, ClientAssumption DEF Record, Session, Credentials, Or
  <2>2. \A child \in Child : Or(record.session.child, child) \in Child
    BY <2>1 DEF Or
  <2> QED
    BY <1>1, <1>2, <1>6, <2>1, <2>2 DEF Renew, RenewFails
<1>7. (\E s \in Setup : Commit(s)) \/ OtherLogin => Grown
  BY <1>2 DEF Commit, OtherLogin
<1>8. Expire => Grown
  BY <1>4 DEF Expire
<1>9. ASSUME NEW r \in Read,
             Queue(r) \/ Check(r) \/ Refuse(r) \/ Hold(r) \/ HoldFails(r) \/ Verify(r)
                \/ VerifyFails(r) \/ Expired(r) \/ Keep(r)
      PROVE  UNCHANGED sessions
  BY <1>9 DEF Queue, Check, Refuse, Hold, HoldFails, Verify, VerifyFails, Expired, Keep
<1>10. ASSUME NEW s \in Setup,
              Start(s) \/ Busy(s) \/ Pass(s) \/ Begin(s) \/ Proceed(s) \/ SetupFails(s) \/ SetupEnds(s)
       PROVE  UNCHANGED sessions
  BY <1>10 DEF Start, Busy, Pass, Begin, Proceed, SetupFails, SetupEnds
<1>11. ASSUME NEW o \in Logout,
              BeginLogout(o) \/ RefuseLogout(o) \/ Drain(o) \/ Remove(o) \/ RemoveFails(o) \/ EndLogout(o)
       PROVE  UNCHANGED sessions
  BY <1>11 DEF BeginLogout, RefuseLogout, Drain, Remove, RemoveFails, EndLogout
<1>12. CancelSetup \/ Abort \/ Close \/ OtherLogout \/ Finished \/ UNCHANGED vars => UNCHANGED sessions
  BY DEF CancelSetup, Abort, Close, OtherLogout, Finished, vars
<1> QED
  BY <1>1, <1>5, <1>6, <1>7, <1>8, <1>9, <1>10, <1>11, <1>12 DEF Next

-----------------------------------------------------------------------------
(* What the steps have in common                                           *)

Reads(r) ==
    \/ Queue(r) \/ Check(r) \/ Refuse(r) \/ Hold(r) \/ HoldFails(r) \/ Verify(r)
    \/ VerifyFails(r) \/ Expired(r) \/ Renew(r) \/ RenewFails(r) \/ Work(r)
    \/ WorkFails(r) \/ Keep(r)

Sets(s) ==
    \/ Start(s) \/ Busy(s) \/ Pass(s) \/ Begin(s) \/ Proceed(s)
    \/ Commit(s) \/ SetupFails(s) \/ SetupEnds(s)

Outs(o) ==
    \/ BeginLogout(o) \/ RefuseLogout(o) \/ Drain(o)
    \/ Remove(o) \/ RemoveFails(o) \/ EndLogout(o)

Others ==
    CancelSetup \/ Abort \/ Close \/ Expire \/ OtherLogin \/ OtherLogout \/ Finished \/ UNCHANGED vars

\* The steps by who takes them.
LEMMA Steps ==
    [Next]_vars <=> \/ \E r \in Read : Reads(r)
                    \/ \E s \in Setup : Sets(s)
                    \/ \E o \in Logout : Outs(o)
                    \/ Others
  BY DEF Next, Reads, Sets, Outs, Others

\* A call moves itself only.
LEMMA Mover ==
    ASSUME TypeOK
    PROVE  /\ \A r \in Read : Reads(r) => \A c \in Call \ {r} : pc'[c] = pc[c]
           /\ \A s \in Setup : Sets(s) => \A c \in Call \ {s} : pc'[c] = pc[c]
           /\ \A o \in Logout : Outs(o) => \A c \in Call \ {o} : pc'[c] = pc[c]
           /\ Others => pc' = pc
<1> USE DEF Goto
<1>0. pc \in [Call -> PC] /\ Read \subseteq Call /\ Setup \subseteq Call /\ Logout \subseteq Call
  BY DEF TypeOK, Call
<1>1. ASSUME NEW r \in Read, Reads(r), NEW c \in Call \ {r}
      PROVE  pc'[c] = pc[c]
  BY <1>0, <1>1 DEF Reads, Queue, Check, Refuse, Hold, HoldFails, Verify, VerifyFails, Expired,
     Renew, RenewFails, Work, WorkFails, Keep
<1>2. ASSUME NEW s \in Setup, Sets(s), NEW c \in Call \ {s}
      PROVE  pc'[c] = pc[c]
  BY <1>0, <1>2 DEF Sets, Start, Busy, Pass, Begin, Proceed, Commit, SetupFails, SetupEnds
<1>3. ASSUME NEW o \in Logout, Outs(o), NEW c \in Call \ {o}
      PROVE  pc'[c] = pc[c]
  BY <1>0, <1>3 DEF Outs, BeginLogout, RefuseLogout, Drain, Remove, RemoveFails, EndLogout
<1>4. Others => pc' = pc
  BY DEF Others, CancelSetup, Abort, Close, Expire, OtherLogin, OtherLogout, Finished, vars
<1> QED
  BY <1>1, <1>2, <1>3, <1>4

\* While a read holds the store, others leave record, memory, lock and queue alone.
LEMMA Held ==
    ASSUME TypeOK, RoleInv, NEW r \in Read, pc[r] \in InRead \ {"checked"}, [Next]_vars, ~Reads(r)
    PROVE  UNCHANGED <<record, active, lock, queue>> /\ pc'[r] = pc[r]
<1>0. /\ lock = r /\ queue = r /\ r # None /\ r \in Call
      /\ r \notin Setup /\ r \notin Logout
  BY ClientAssumption DEF TypeOK, Call
<1>1. ASSUME NEW q \in Read, q # r
      PROVE  ~Reads(q)
  BY <1>0, <1>1 DEF RoleInv, InRead, Reads, Queue, Check, Refuse, Hold, HoldFails, Verify,
     VerifyFails, Expired, Renew, RenewFails, Work, WorkFails, Keep, Goto, Tests
<1>2. ASSUME NEW s \in Setup, Sets(s)
      PROVE  UNCHANGED <<record, active, lock, queue>>
  BY <1>0, <1>2 DEF TypeOK, Sets, Start, Busy, Pass, Begin, Proceed, Commit, SetupFails, SetupEnds, Goto
<1>3. ASSUME NEW o \in Logout, Outs(o)
      PROVE  UNCHANGED <<record, active, lock, queue>>
  BY <1>0, <1>3 DEF Outs, BeginLogout, RefuseLogout, Drain, Remove, RemoveFails, EndLogout
<1>4. Others => UNCHANGED <<record, active, lock, queue>>
  BY <1>0 DEF Others, CancelSetup, Abort, Close, Expire, OtherLogin, OtherLogout, Finished, vars
<1> QED
  BY <1>0, <1>1, <1>2, <1>3, <1>4, Steps, Mover

-----------------------------------------------------------------------------
(* What is saved is true                                                   *)

\* A save keeps the session's number, and what is known of it.
LEMMA Saving ==
    ASSUME record \in Record, record.session # None, NEW a \in Active, NEW c, Save(c, a, record.session)
    PROVE  /\ record' \in Record /\ record'.session # None
           /\ record'.session.id = a.from.id
           /\ record'.session.account = Or(a.account, record.session.account)
           /\ record'.session.child = Or(a.child, record.session.child)
           /\ active' \in Active /\ active' # None
           /\ active'.from = record'.session
           /\ active'.account = a.account /\ active'.child = a.child
           /\ record' # record => savedBy' = c
<1> DEFINE fuller == Current(a, record.session)
<1>1. record.session \in Session /\ a.from \in Session
  BY DEF Record, Active
<1>2. fuller \in Session /\ fuller # None
  <2>1. fuller \in Session
    BY <1>1 DEF Current, Or, Session, Active
  <2> QED
    BY <2>1, ClientAssumption
<1>3. /\ fuller.id = a.from.id
      /\ fuller.account = Or(a.account, record.session.account)
      /\ fuller.child = Or(a.child, record.session.child)
  BY DEF Current
<1>4. /\ record' = [record EXCEPT !.session = fuller] /\ active' = [a EXCEPT !.from = fuller]
      /\ savedBy' = IF fuller = record.session THEN savedBy ELSE c
  BY DEF Save
<1> HIDE DEF fuller
<1>5. /\ record' \in Record /\ record'.session = fuller
      /\ fuller = record.session => record' = record
  BY <1>2, <1>4 DEF Record
<1>6. /\ active' \in Active /\ active'.from = fuller
      /\ active'.account = a.account /\ active'.child = a.child
  BY <1>2, <1>4 DEF Active
<1> QED
  BY <1>2, <1>3, <1>4, <1>5, <1>6, ClientAssumption

\* What a read's step leaves in the record and in memory is true, if both were.
LEMMA ReadMove ==
    ASSUME TypeOK, RoleInv, HoldInv, TruthInv, NEW r \in Read, Reads(r), [Next]_vars
    PROVE  /\ record' \in Record /\ (active' = None \/ active' \in Active)
           /\ TruthInv'
           /\ pc'[r] \in InRead \ {"checked"} =>
                 record'.session # None /\ active' # None /\ active'.from = record'.session
<1> DEFINE Good == /\ record' \in Record /\ (active' = None \/ active' \in Active)
                   /\ TruthInv'
                   /\ pc'[r] \in InRead \ {"checked"} =>
                         record'.session # None /\ active' # None /\ active'.from = record'.session
<1>0. /\ record \in Record /\ (active = None \/ active \in Active)
      /\ pc \in [Call -> PC] /\ r \in Call
      /\ \A i \in DOMAIN sessions : /\ i \in DOMAIN sessions'
                                   /\ sessions'[i].account = sessions[i].account
                                   /\ sessions[i] \in Server
  BY SessionsStep DEF TypeOK, Call
<1>1. ASSUME UNCHANGED <<record, active>>, pc'[r] \in InRead \ {"checked"} => pc[r] \in InRead \ {"checked"}
      PROVE  Good
  BY <1>0, <1>1 DEF HoldInv, TruthInv, True
<1>2. CASE Queue(r) \/ Check(r) \/ Refuse(r) \/ HoldFails(r) \/ Expired(r) \/ RenewFails(r) \/ WorkFails(r)
  <2>1. UNCHANGED <<record, active>>
    BY <1>2 DEF Queue, Check, Refuse, HoldFails, Expired, RenewFails, WorkFails
  <2>2. pc'[r] \in InRead \ {"checked"} => pc[r] \in InRead \ {"checked"}
    BY <1>0, <1>2 DEF Queue, Check, Refuse, HoldFails, Expired, RenewFails, WorkFails, Goto, InRead, Tests
  <2> QED
    BY <1>1, <2>1, <2>2
<1>3. CASE Hold(r)
  <2>1. /\ record' = record /\ record.session # None
        /\ \/ active' = active /\ active # None /\ active.from = record.session
           \/ active' = [from |-> record.session, account |-> None, child |-> None]
    BY <1>3 DEF Hold
  <2>2. [from |-> record.session, account |-> None, child |-> None] \in Active
    BY <1>0, <2>1 DEF Active, Record
  <2> QED
    BY <1>0, <2>1, <2>2, ClientAssumption DEF TruthInv, True
<1>4. ASSUME pc[r] \in InRead \ {"checked"}
      PROVE  /\ record.session # None /\ active \in Active /\ active # None
             /\ active.from = record.session
             /\ record.session.id \in DOMAIN sessions
             /\ record.session.account \in {None, sessions[record.session.id].account}
             /\ active.account \in {None, sessions[record.session.id].account}
  BY <1>0, <1>4 DEF HoldInv, TruthInv, True
<1>5. ASSUME NEW a \in Active, pc[r] \in InRead \ {"checked"}, a.from = record.session,
             a.account \in {None, sessions[record.session.id].account},
             Save(r, a, record.session) \/ SaveFails(a)
      PROVE  Good
  <2>1. CASE Save(r, a, record.session)
    <3>1. /\ record' \in Record /\ record'.session # None
          /\ record'.session.id = record.session.id
          /\ record'.session.account = Or(a.account, record.session.account)
          /\ active' \in Active /\ active' # None /\ active'.from = record'.session
          /\ active'.account = a.account
      BY <1>0, <1>4, <1>5, <2>1, Saving
    <3>2. record'.session.account \in {None, sessions[record.session.id].account}
      BY <1>4, <1>5, <3>1 DEF Or
    <3> QED
      BY <1>0, <1>4, <1>5, <3>1, <3>2 DEF TruthInv, True
  <2>2. CASE SaveFails(a)
    BY <1>0, <1>4, <1>5, <2>2, ClientAssumption DEF SaveFails, TruthInv, True
  <2> QED
    BY <1>5, <2>1, <2>2
<1>6. pc[r] \in InRead \ {"checked"} =>
        /\ Seen \in Active /\ Seen.from = record.session
        /\ Seen.account = sessions[record.session.id].account
  BY <1>0, <1>4 DEF Seen, Here, Active, Server
<1>7. CASE Verify(r) \/ VerifyFails(r) \/ Keep(r)
  <2>1. pc[r] \in InRead \ {"checked"}
    BY <1>7 DEF Verify, VerifyFails, Keep, Goto, InRead
  <2> QED
    BY <1>4, <1>5, <1>6, <1>7, <2>1 DEF Verify, VerifyFails, Keep
<1>8. CASE Work(r)
  <2>1. pc[r] \in InRead \ {"checked"} /\ record' = record
    BY <1>8 DEF Work, InRead
  <2>2. /\ active' \in Active /\ active' # None
        /\ active'.from = active.from /\ active'.account = active.account
    BY <1>4, <1>8, <2>1, ClientAssumption DEF Work, Active, RoleInv
  <2> QED
    BY <1>0, <1>4, <2>1, <2>2 DEF TruthInv, True
<1>9. CASE Renew(r)
  <2>1. pc[r] \in InRead \ {"checked"} /\ Credentials # None
    BY <1>9 DEF Renew, Goto, InRead
  <2>2. Credentials \in Account
    BY <1>0, <2>1, ClientAssumption DEF Credentials, Or, Record
  <2>3. PICK child \in Child :
          /\ Issue(Credentials, Or(record.session.child, child))
          /\ Save(r, [from |-> [record.session EXCEPT !.id = Issued + 1],
                      account |-> Credentials, child |-> Or(record.session.child, child)], record.session)
    BY <1>9 DEF Renew
  <2> DEFINE a == [from |-> [record.session EXCEPT !.id = Issued + 1],
                   account |-> Credentials, child |-> Or(record.session.child, child)]
  <2>4. record.session \in Session /\ Or(record.session.child, child) \in Child
    BY <1>0, <1>4, <2>1 DEF Record, Session, Or
  <2>5. /\ Issued + 1 \in Id /\ Issued + 1 \in DOMAIN sessions'
        /\ sessions'[Issued + 1].account = Credentials
    <3>1. PICK b \in Account, k \in Child : b = Credentials /\ k = Or(record.session.child, child)
      BY <2>2, <2>4
    <3>2. Issue(b, k)
      BY <2>3, <3>1
    <3>3. /\ Issued + 1 \in Id /\ Issued + 1 \in DOMAIN sessions'
          /\ sessions'[Issued + 1] = [account |-> b, child |-> k, live |-> TRUE]
      BY <3>2, Issuing
    <3> QED
      BY <3>1, <3>3
  <2>6. a \in Active /\ a.from.id = Issued + 1 /\ a.account = Credentials
    BY <2>2, <2>4, <2>5 DEF Active, Session
  <2> HIDE DEF a
  <2>7. /\ record' \in Record /\ record'.session # None
        /\ record'.session.id = Issued + 1
        /\ record'.session.account = Credentials
        /\ active' \in Active /\ active' # None /\ active'.from = record'.session
        /\ active'.account = Credentials
    BY <1>0, <1>4, <2>1, <2>3, <2>6, Saving DEF a, Or
  <2> QED
    BY <2>5, <2>7 DEF TruthInv, True
<1> QED
  BY <1>2, <1>3, <1>7, <1>8, <1>9 DEF Reads

\* A session just issued and saved is a true one.
LEMMA NewSession ==
    ASSUME TypeOK, NEW b \in Account, NEW k \in Child, NEW g \in Account \cup {None}, Issue(b, k),
           record' = [session |-> [id |-> Issued + 1, account |-> b, child |-> k], sign |-> g]
    PROVE  /\ record' \in Record
           /\ record'.session.id \in DOMAIN sessions'
           /\ record'.session.account = sessions'[record'.session.id].account
<1>1. /\ Issued + 1 \in Id /\ Issued + 1 \in DOMAIN sessions'
      /\ sessions'[Issued + 1] = [account |-> b, child |-> k, live |-> TRUE]
  BY Issuing
<1>2. [id |-> Issued + 1, account |-> b, child |-> k] \in Session
  BY <1>1 DEF Session
<1> QED
  BY <1>1, <1>2 DEF Record

\* Record and memory keep their types, and what they say is true.
LEMMA SavedStep ==
    ASSUME TypeOK, RoleInv, HoldInv, TruthInv, [Next]_vars
    PROVE  /\ record' \in Record /\ (active' = None \/ active' \in Active)
           /\ HoldInv' /\ TruthInv'
<1> DEFINE Good == /\ record' \in Record /\ (active' = None \/ active' \in Active)
                   /\ TruthInv'
<1>0. /\ record \in Record /\ (active = None \/ active \in Active)
      /\ \A i \in DOMAIN sessions : /\ i \in DOMAIN sessions'
                                   /\ sessions'[i].account = sessions[i].account
  BY SessionsStep DEF TypeOK
<1>1. ASSUME record' = record \/ record'.session = None,
             record' \in Record, active' \in {active, None}
      PROVE  Good
  BY <1>0, <1>1 DEF TruthInv, True
<1>2. [session |-> None, sign |-> None] \in Record
  BY DEF Record
<1>3. ASSUME NEW b \in Account, NEW k \in Child, NEW g \in Account \cup {None}, Issue(b, k),
             record' = [session |-> [id |-> Issued + 1, account |-> b, child |-> k], sign |-> g],
             active' = active
      PROVE  Good
  <2>1. /\ record' \in Record
        /\ record'.session.id \in DOMAIN sessions'
        /\ record'.session.account = sessions'[record'.session.id].account
    BY <1>3, NewSession
  <2> QED
    BY <1>0, <1>3, <2>1 DEF TruthInv, True
<1>4. ASSUME NEW s \in Setup, Sets(s)
      PROVE  Good
  <2>1. CASE Commit(s)
    <3>1. PICK b \in Account, k \in Child, allow \in BOOLEAN, imported \in BOOLEAN :
            /\ Issue(b, k)
            /\ record' = [session |-> [id |-> Issued + 1, account |-> b, child |-> k],
                          sign |-> IF ~imported THEN b
                                   ELSE IF record.session # None /\ record.session.account = b
                                        THEN record.sign ELSE None]
      BY <2>1 DEF Commit
    <3>2. PICK g \in Account \cup {None} :
            g = IF ~imported THEN b
                ELSE IF record.session # None /\ record.session.account = b
                     THEN record.sign ELSE None
      BY <1>0 DEF Record
    <3>3. active' = active
      BY <2>1 DEF Commit
    <3> QED
      BY <1>3, <3>1, <3>2, <3>3
  <2>2. Start(s) \/ Busy(s) \/ Pass(s) \/ Begin(s) \/ Proceed(s) \/ SetupFails(s) \/ SetupEnds(s)
          => record' = record /\ active' \in {active, None}
    BY DEF Start, Busy, Pass, Begin, Proceed, SetupFails, SetupEnds
  <2> QED
    BY <1>0, <1>1, <1>4, <2>1, <2>2 DEF Sets
<1>5. ASSUME NEW o \in Logout, Outs(o)
      PROVE  Good
  <2>1. /\ record' = record \/ record' = [session |-> None, sign |-> None]
        /\ active' \in {active, None}
    BY <1>5 DEF Outs, BeginLogout, RefuseLogout, Drain, Remove, RemoveFails, EndLogout
  <2> QED
    BY <1>0, <1>1, <1>2, <2>1
<1>6. ASSUME Others
      PROVE  Good
  <2>1. CASE OtherLogin
    <3>1. PICK b \in Account, k \in Child :
            /\ Issue(b, k)
            /\ record' = [session |-> [id |-> Issued + 1, account |-> b, child |-> k], sign |-> b]
      BY <2>1 DEF OtherLogin
    <3>2. b \in Account \cup {None} /\ active' = active
      BY <2>1 DEF OtherLogin
    <3> QED
      BY <1>3, <3>1, <3>2
  <2>2. ~OtherLogin => /\ record' = record \/ record' = [session |-> None, sign |-> None]
                       /\ active' \in {active, None}
    BY <1>6 DEF Others, CancelSetup, Abort, Close, Expire, OtherLogout, Finished, vars
  <2>3. CASE ~OtherLogin
    BY <1>0, <1>1, <1>2, <2>2, <2>3
  <2> QED
    BY <2>1, <2>3
<1>7. Good
  BY <1>4, <1>5, <1>6, ReadMove, Steps
<1>8. ASSUME NEW r \in Read, pc'[r] \in InRead \ {"checked"}
      PROVE  record'.session # None /\ active' # None /\ active'.from = record'.session
  <2>1. CASE Reads(r)
    BY <1>8, <2>1, ReadMove
  <2>2. CASE ~Reads(r)
    <3>1. pc'[r] = pc[r]
      BY <2>2, Mover, Steps, ClientAssumption DEF Call
    <3> QED
      BY <1>8, <2>2, <3>1, Held DEF HoldInv
  <2> QED
    BY <2>1, <2>2
<1> QED
  BY <1>7, <1>8 DEF HoldInv

-----------------------------------------------------------------------------
(* Flags, locks and calls                                                  *)

\* Where a call may go.
LEMMA Roles ==
    ASSUME TypeOK, RoleInv, [Next]_vars
    PROVE  /\ pc' \in [Call -> PC]
           /\ \A r \in Read : pc'[r] \in {"idle", "ready", "open", "free", "done"} \cup InRead
           /\ \A s \in Setup : pc'[s] \in {"idle", "done"} \cup InSetup
           /\ \A o \in Logout : pc'[o] \in {"idle", "done"} \cup InOut
<1> DEFINE OfRead  == {"idle", "ready", "open", "free", "done"} \cup InRead
           OfSetup == {"idle", "done"} \cup InSetup
           OfOut   == {"idle", "done"} \cup InOut
<1> USE DEF Goto
<1>0. /\ pc \in [Call -> PC] /\ Read \subseteq Call /\ Setup \subseteq Call /\ Logout \subseteq Call
      /\ OfRead \subseteq PC /\ OfSetup \subseteq PC /\ OfOut \subseteq PC
  BY DEF TypeOK, Call, PC
<1>1. ASSUME NEW r \in Read, Reads(r)
      PROVE  pc' \in [Call -> PC] /\ pc'[r] \in OfRead
  BY <1>0, <1>1 DEF Reads, Queue, Check, Refuse, Hold, HoldFails, Verify, VerifyFails, Expired,
     Renew, RenewFails, Work, WorkFails, Keep, Tests, InRead
<1>2. ASSUME NEW s \in Setup, Sets(s)
      PROVE  pc' \in [Call -> PC] /\ pc'[s] \in OfSetup
  BY <1>0, <1>2 DEF Sets, Start, Busy, Pass, Begin, Proceed, Commit, SetupFails, SetupEnds, InSetup
<1>3. ASSUME NEW o \in Logout, Outs(o)
      PROVE  pc' \in [Call -> PC] /\ pc'[o] \in OfOut
  BY <1>0, <1>3 DEF Outs, BeginLogout, RefuseLogout, Drain, Remove, RemoveFails, EndLogout, InOut
<1>4. /\ \A r \in Read : pc[r] \in OfRead
      /\ \A s \in Setup : pc[s] \in OfSetup
      /\ \A o \in Logout : pc[o] \in OfOut
  BY DEF RoleInv
<1> HIDE DEF OfRead, OfSetup, OfOut
<1>5. Read \cap Setup = {} /\ Read \cap Logout = {} /\ Setup \cap Logout = {}
  BY ClientAssumption
<1>6. CASE \E r \in Read : Reads(r)
  BY <1>0, <1>1, <1>4, <1>5, <1>6, Mover DEF OfRead, OfSetup, OfOut
<1>7. CASE \E s \in Setup : Sets(s)
  BY <1>0, <1>2, <1>4, <1>5, <1>7, Mover DEF OfRead, OfSetup, OfOut
<1>8. CASE \E o \in Logout : Outs(o)
  BY <1>0, <1>3, <1>4, <1>5, <1>8, Mover DEF OfRead, OfSetup, OfOut
<1>9. CASE Others
  BY <1>0, <1>4, <1>9, Mover DEF OfRead, OfSetup, OfOut
<1> QED
  BY <1>6, <1>7, <1>8, <1>9, Steps

\* A read takes and gives back the queue and the store, and passes its checks
\* only while no flag is up.
LEMMA Reading ==
    ASSUME TypeOK, RoleInv, NEW r \in Read, Reads(r)
    PROVE  /\ UNCHANGED <<setup, flags, waits, asked, before>>
           /\ queue \in {None, r} /\ queue' \in {None, r}
           /\ lock' = lock \/ (lock \in {None, r} /\ lock' \in {None, r})
           /\ pc'[r] \in {"ready", "open", "free"} \cup InRead => queue' = r
           /\ pc'[r] \in InRead \ {"checked"} => lock' = r
           /\ savedBy' \in {savedBy, r}
           /\ pc'[r] \in InRead => pc[r] \in InRead \/ ~loggingOut
           /\ pc'[r] \in {"open", "free"} \cup InRead => pc[r] \in {"open", "free"} \cup InRead \/ ~Closed
<1> USE DEF Goto
<1>0. /\ pc \in [Call -> PC] /\ r \in Call
      /\ pc[r] \in {"ready", "open", "free"} \cup InRead => queue = r
      /\ pc[r] \in InRead \ {"checked"} => lock = r
  BY DEF TypeOK, RoleInv, Call
<1>1. CASE Queue(r) \/ Hold(r) \/ HoldFails(r)
  BY <1>0, <1>1 DEF Queue, Hold, HoldFails, InRead
<1>2. CASE Check(r) \/ Refuse(r)
  <2>1. /\ DOMAIN Tests = {"ready", "open", "free"}
        /\ Tests["ready"] = "open" /\ Tests["open"] = "free" /\ Tests["free"] = "checked"
    BY DEF Tests
  <2>2. CASE Check(r)
    <3>1. pc[r] \in DOMAIN Tests /\ pc'[r] = Tests[pc[r]] /\ Clear(r)
      BY <1>0, <2>2 DEF Check
    <3>2. /\ pc[r] = "ready" => ~Closed
          /\ pc[r] = "free"  => ~loggingOut
      BY <3>1 DEF Clear
    <3>3. UNCHANGED <<lock, queue, setup, flags, waits, asked, before, savedBy>>
      BY <2>2 DEF Check
    <3> QED
      BY <1>0, <2>1, <3>1, <3>2, <3>3 DEF InRead
  <2>3. CASE Refuse(r)
    BY <1>0, <2>1, <2>3 DEF Refuse, InRead
  <2> QED
    BY <1>2, <2>2, <2>3
<1>3. CASE Verify(r) \/ VerifyFails(r) \/ Expired(r) \/ Renew(r) \/ RenewFails(r)
  BY <1>0, <1>3 DEF Verify, VerifyFails, Expired, Renew, RenewFails, Save, SaveFails, InRead
<1>4. CASE Work(r) \/ WorkFails(r) \/ Keep(r)
  BY <1>0, <1>4 DEF Work, WorkFails, Keep, Save, SaveFails, InRead
<1> QED
  BY <1>1, <1>2, <1>3, <1>4 DEF Reads

\* A setup starts only while no flag is up and none is running.
LEMMA Setting ==
    ASSUME TypeOK, RoleInv, NEW s \in Setup, Sets(s)
    PROVE  /\ UNCHANGED <<queue, flags, waits, asked, before>>
           /\ \/ setup' = setup
              \/ setup = None /\ setup' = s /\ ~Closed /\ ~loggingOut /\ pc'[s] = "queued"
              \/ setup = s /\ setup' = None /\ pc'[s] = "done"
           /\ lock' = lock \/ (lock \in {None, s} /\ lock' \in {None, s})
           /\ pc'[s] \in InSetup => setup' = s
           /\ pc'[s] \in {"signing", "writing"} => lock' = s
           /\ setup' = s => pc'[s] \in InSetup \/ pc'[s] = pc[s] \/ pc[s] = "idle"
           /\ savedBy' = savedBy \/ (savedBy' = s /\ pc[s] = "writing")
<1> USE DEF Goto
<1>0. /\ pc \in [Call -> PC] /\ s \in Call
      /\ pc[s] \in InSetup => setup = s
      /\ pc[s] \in {"signing", "writing"} => lock = s
  BY DEF TypeOK, Call
<1>1. CASE Start(s) \/ Busy(s) \/ Pass(s) \/ Begin(s)
  BY <1>0, <1>1, ClientAssumption DEF Start, Busy, Pass, Begin, InSetup
<1>2. CASE Proceed(s) \/ Commit(s) \/ SetupFails(s) \/ SetupEnds(s)
  BY <1>0, <1>2, ClientAssumption DEF Proceed, Commit, SetupFails, SetupEnds, InSetup
<1> QED
  BY <1>1, <1>2 DEF Sets

\* A logout takes neither queue nor store.
LEMMA LoggingOut ==
    ASSUME TypeOK, RoleInv, NEW o \in Logout, Outs(o)
    PROVE  /\ UNCHANGED <<queue, lock, setup, closing, asked>>
           /\ cancelled' \subseteq Setup
           /\ waits' \in [Logout \cup {None} -> Setup \cup {None}] /\ waits'[None] = waits[None]
           /\ loggingOut' \in BOOLEAN
           /\ \/ before' = before /\ savedBy' = savedBy
              \/ before' = AtWork /\ savedBy' = o /\ pc[o] = "remove"
           /\ \/ pc[o] = "idle" /\ pc'[o] = "done" /\ UNCHANGED <<waits, loggingOut>>
              \/ pc[o] = "idle" /\ pc'[o] = "wait" /\ loggingOut = FALSE /\ loggingOut' = TRUE /\ waits'[o] = setup
              \/ pc[o] = "wait" /\ pc'[o] = "remove" /\ UNCHANGED <<waits, loggingOut>>
                   /\ Ended(o) /\ queue = None
              \/ pc[o] = "remove" /\ pc'[o] = "drain" /\ UNCHANGED <<waits, loggingOut>>
              \/ pc[o] = "drain" /\ pc'[o] = "done" /\ waits' = waits
<1> USE DEF Goto
<1>0. /\ pc \in [Call -> PC] /\ o \in Call /\ setup \in Setup \cup {None}
      /\ cancelled \subseteq Setup /\ o # None /\ loggingOut \in BOOLEAN
      /\ waits \in [Logout \cup {None} -> Setup \cup {None}]
  BY ClientAssumption DEF TypeOK, RoleInv, Call
<1>1. CASE BeginLogout(o)
  <2>1. /\ pc[o] = "idle" /\ pc'[o] = "wait" /\ loggingOut = FALSE /\ loggingOut' = TRUE
        /\ waits' = [waits EXCEPT ![o] = setup]
        /\ cancelled' = IF setup = None THEN cancelled ELSE cancelled \cup {setup}
        /\ UNCHANGED <<queue, lock, setup, closing, asked, savedBy, before>>
    BY <1>0, <1>1 DEF BeginLogout, Cancel
  <2> QED
    BY <1>0, <2>1
<1>2. CASE RefuseLogout(o)
  BY <1>0, <1>2 DEF RefuseLogout, flags
<1>3. CASE Drain(o) \/ Remove(o) \/ RemoveFails(o)
  BY <1>0, <1>3 DEF Drain, Remove, RemoveFails, flags
<1>4. CASE EndLogout(o)
  <2>1. /\ pc[o] = "drain" /\ pc'[o] = "done" /\ loggingOut' = FALSE
        /\ UNCHANGED <<queue, lock, setup, closing, asked, savedBy, before, waits, cancelled>>
    BY <1>0, <1>4 DEF EndLogout
  <2> QED
    BY <1>0, <2>1
<1> QED
  BY <1>1, <1>2, <1>3, <1>4 DEF Outs

\* Close awaits what was running when it aborted.
LEMMA Closing ==
    ASSUME TypeOK, RoleInv, Others
    PROVE  /\ UNCHANGED <<pc, queue, lock, setup, loggingOut, asked, before>>
           /\ cancelled' \subseteq Setup
           /\ waits' \in [Logout \cup {None} -> Setup \cup {None}]
           /\ \A o \in Logout : waits'[o] = waits[o]
           /\ savedBy' \in {savedBy, None}
           /\ \/ UNCHANGED <<closing, waits>>
              \/ closing = "open" /\ closing' = "aborted" /\ waits'[None] = setup
              \/ closing = "aborted" /\ closing' = "closed" /\ waits' = waits
                   /\ Ended(None) /\ queue = None
<1>0. /\ setup \in Setup \cup {None} /\ cancelled \subseteq Setup /\ None \notin Logout
      /\ waits \in [Logout \cup {None} -> Setup \cup {None}]
  BY ClientAssumption DEF TypeOK, RoleInv, Call
<1> QED
  BY <1>0 DEF Others, CancelSetup, Abort, Cancel, Close, Expire, OtherLogin, OtherLogout, Finished,
     vars, flags

\* Queue, store and setup have the owners that calls believe they have.
LEMMA OwnerStep ==
    ASSUME TypeOK, RoleInv, [Next]_vars
    PROVE  /\ queue' \in Read \cup {None} /\ setup' \in Setup \cup {None}
           /\ lock' \in Read \cup Setup \cup {None}
           /\ \A r \in Read : /\ pc'[r] \in {"ready", "open", "free"} \cup InRead => queue' = r
                              /\ pc'[r] \in InRead \ {"checked"} => lock' = r
           /\ \A s \in Setup : /\ pc'[s] \in InSetup => setup' = s
                               /\ pc'[s] \in {"signing", "writing"} => lock' = s
           /\ cancelled' \subseteq Setup
           /\ waits' \in [Logout \cup {None} -> Setup \cup {None}]
           /\ asked' \in [Read -> Child \cup {None}]
           /\ closing' \in {"open", "aborted", "closed"} /\ loggingOut' \in BOOLEAN
<1>0. /\ queue \in Read \cup {None} /\ setup \in Setup \cup {None}
      /\ lock \in Read \cup Setup \cup {None}
      /\ \A r \in Read : /\ pc[r] \in {"ready", "open", "free"} \cup InRead => queue = r
                         /\ pc[r] \in InRead \ {"checked"} => lock = r
      /\ \A s \in Setup : /\ pc[s] \in InSetup => setup = s
                          /\ pc[s] \in {"signing", "writing"} => lock = s
      /\ cancelled \subseteq Setup
      /\ waits \in [Logout \cup {None} -> Setup \cup {None}]
      /\ asked \in [Read -> Child \cup {None}]
      /\ closing \in {"open", "aborted", "closed"} /\ loggingOut \in BOOLEAN
  BY DEF TypeOK, RoleInv
<1>1. /\ Read \cap Setup = {} /\ Read \cap Logout = {} /\ Setup \cap Logout = {}
      /\ None \notin Read /\ None \notin Setup /\ None \notin Logout
      /\ Read \subseteq Call /\ Setup \subseteq Call
  BY ClientAssumption DEF Call
<1>2. CASE \E r \in Read : Reads(r)
  BY <1>0, <1>1, <1>2, Mover, Reading DEF flags
<1>3. CASE \E s \in Setup : Sets(s)
  BY <1>0, <1>1, <1>3, Mover, Setting DEF flags
<1>4. ASSUME NEW o \in Logout, Outs(o)
      PROVE  /\ \A c \in Read \cup Setup : pc'[c] = pc[c]
             /\ UNCHANGED <<queue, lock, setup, closing, asked>>
             /\ cancelled' \subseteq Setup
             /\ waits' \in [Logout \cup {None} -> Setup \cup {None}]
             /\ loggingOut' \in BOOLEAN
  BY <1>1, <1>4, Mover, LoggingOut
<1>5. CASE \E o \in Logout : Outs(o)
  BY <1>0, <1>4, <1>5
<1>6. CASE Others
  BY <1>0, <1>6, Closing
<1> QED
  BY <1>2, <1>3, <1>5, <1>6, Steps

\* A flag that is up lets nothing new in, and what was in is waited for.
LEMMA FlagStep ==
    ASSUME TypeOK, RoleInv, FlagInv, [Next]_vars
    PROVE  FlagInv'
<1>0. /\ setup \in Setup \cup {None}
      /\ \A r \in Read : pc[r] \in {"ready", "open", "free"} \cup InRead => queue = r
      /\ \A s \in Setup : pc[s] \in InSetup => setup = s
      /\ setup # None => pc[setup] \in InSetup
      /\ closing \in {"open", "aborted", "closed"} /\ loggingOut \in BOOLEAN
  BY DEF TypeOK, RoleInv, FlagInv
<1>1. /\ Read \cap Setup = {} /\ Read \cap Logout = {} /\ Setup \cap Logout = {}
      /\ None \notin Read /\ None \notin Setup /\ None \notin Logout
      /\ Read \subseteq Call /\ Setup \subseteq Call /\ Logout \subseteq Call
  BY ClientAssumption DEF Call
<1>2. \A w \in Logout \cup {None} : Ended(w) /\ setup \in {None, waits[w]} => setup = None
  BY <1>0 DEF Ended, InSetup
<1>3. ASSUME NEW r \in Read, Reads(r)
      PROVE  FlagInv'
  <2>1. \A c \in Setup \cup Logout : pc'[c] = pc[c]
    BY <1>1, <1>3, Mover
  <2>2. \A q \in Read : q # r => pc'[q] = pc[q]
    BY <1>1, <1>3, Mover
  <2>3. /\ UNCHANGED <<setup, loggingOut, closing, waits, before>>
        /\ pc'[r] \in InRead => pc[r] \in InRead \/ ~loggingOut
        /\ pc'[r] \in {"open", "free"} \cup InRead => pc[r] \in {"open", "free"} \cup InRead \/ ~Closed
    BY <1>3, Reading DEF flags
  <2> QED
    BY <1>0, <1>1, <2>1, <2>2, <2>3 DEF FlagInv, Closed
<1>4. ASSUME NEW s \in Setup, Sets(s)
      PROVE  FlagInv'
  <2>1. \A c \in Read \cup Logout : pc'[c] = pc[c]
    BY <1>1, <1>4, Mover
  <2>2. \A q \in Setup : q # s => pc'[q] = pc[q]
    BY <1>1, <1>4, Mover
  <2>3. /\ UNCHANGED <<loggingOut, closing, waits, before>>
        /\ \/ setup' = setup
           \/ setup = None /\ setup' = s /\ ~Closed /\ ~loggingOut /\ pc'[s] = "queued"
           \/ setup = s /\ setup' = None /\ pc'[s] = "done"
        /\ setup' = s => pc'[s] \in InSetup \/ pc'[s] = pc[s] \/ pc[s] = "idle"
    BY <1>4, Setting DEF flags
  <2>4. setup' # None => pc'[setup'] \in InSetup
    BY <1>0, <1>1, <2>2, <2>3 DEF InSetup
  <2> QED
    BY <1>0, <1>1, <2>1, <2>3, <2>4 DEF FlagInv, Closed
<1>5. ASSUME NEW o \in Logout, Outs(o)
      PROVE  FlagInv'
  <2>1. \A c \in Read \cup Setup : pc'[c] = pc[c]
    BY <1>1, <1>5, Mover
  <2>2. \A p \in Logout : p # o => pc'[p] = pc[p]
    BY <1>1, <1>5, Mover
  <2>3. /\ UNCHANGED <<queue, lock, setup, closing>> /\ waits'[None] = waits[None]
    BY <1>5, LoggingOut
  <2>4. before' = {}
    <3>1. pc[o] = "remove" => AtWork = {}
      BY <1>0, <1>1 DEF FlagInv, InOut, AtWork
    <3> QED
      BY <1>5, <3>1, LoggingOut DEF FlagInv
  <2>5. /\ setup' # None => pc'[setup'] \in InSetup
        /\ Closed' => setup' \in {None, waits'[None]}
        /\ closing' = "closed" =>
               setup' = None /\ \A r \in Read : pc'[r] \notin {"open", "free"} \cup InRead
    BY <1>0, <1>1, <2>1, <2>3 DEF FlagInv, Closed
  <2>6. ASSUME NEW q \in Logout, pc'[q] \in InOut
        PROVE  /\ loggingOut'
               /\ \A p \in Logout : pc'[p] \in InOut => p = q
               /\ setup' \in {None, waits'[q]}
               /\ pc'[q] # "wait" => setup' = None /\ \A r \in Read : pc'[r] \notin InRead
    <3>1. CASE pc[o] = "idle"
      BY <1>0, <1>5, <2>1, <2>2, <2>3, <2>6, <3>1, LoggingOut DEF FlagInv, InOut
    <3>2. CASE pc[o] \in {"wait", "remove"}
      <4>1. /\ UNCHANGED <<waits, loggingOut>> /\ pc'[o] \in {"remove", "drain"}
            /\ pc[o] = "wait" => pc'[o] = "remove" /\ Ended(o) /\ queue = None
        BY <1>5, <3>2, LoggingOut
      <4>2. /\ loggingOut /\ setup \in {None, waits[o]}
            /\ \A p \in Logout : pc[p] \in InOut => p = o
            /\ pc[o] = "remove" => setup = None /\ \A r \in Read : pc[r] \notin InRead
        BY <3>2 DEF FlagInv, InOut
      <4>3. q = o
        BY <2>2, <2>6, <4>2
      <4>4. setup = None /\ \A r \in Read : pc[r] \notin InRead
        BY <1>0, <1>1, <1>2, <3>2, <4>1, <4>2
      <4> QED
        BY <1>0, <2>1, <2>2, <2>3, <4>1, <4>2, <4>3, <4>4
    <3>3. CASE pc[o] = "drain"
      <4>1. pc'[o] = "done" /\ \A p \in Logout : pc[p] \in InOut => p = o
        BY <1>5, <3>3, LoggingOut DEF FlagInv, InOut
      <4> QED
        BY <2>2, <2>6, <4>1 DEF InOut
    <3> QED
      BY <1>5, <3>1, <3>2, <3>3, LoggingOut
  <2> QED
    BY <2>4, <2>5, <2>6 DEF FlagInv
<1>6. CASE Others
  <2>1. /\ UNCHANGED <<pc, queue, lock, setup, loggingOut, before>>
        /\ \A o \in Logout : waits'[o] = waits[o]
        /\ \/ UNCHANGED <<closing, waits>>
           \/ closing = "open" /\ closing' = "aborted" /\ waits'[None] = setup
           \/ closing = "aborted" /\ closing' = "closed" /\ waits' = waits
                /\ Ended(None) /\ queue = None
    BY <1>6, Closing
  <2>2. closing' = "closed" =>
               setup' = None /\ \A r \in Read : pc'[r] \notin {"open", "free"} \cup InRead
    BY <1>0, <1>1, <1>2, <2>1 DEF FlagInv, Closed
  <2> QED
    BY <1>0, <1>1, <2>1, <2>2 DEF FlagInv, Closed
<1> QED
  BY <1>3, <1>4, <1>5, <1>6, Steps

-----------------------------------------------------------------------------
(* The theorems                                                            *)

\* Nothing is at work once a logout removed the session, nor after close.
LEMMA Final ==
    ASSUME IInv
    PROVE  EndIsFinal
<1>1. /\ \A s \in Setup : pc[s] \in InSetup => setup = s
      /\ None \notin Setup
  BY ClientAssumption DEF IInv, TypeOK, Call
<1>2. closing = "closed" => setup = None /\ \A r \in Read : pc[r] \notin InRead
  BY DEF IInv, FlagInv
<1>3. before = {}
  BY DEF IInv, FlagInv
<1> QED
  BY <1>1, <1>2, <1>3 DEF EndIsFinal, AtWork

LEMMA Initially == Init => IInv
<1> SUFFICES ASSUME Init PROVE IInv
  OBVIOUS
<1>1. Issued = 1 /\ DOMAIN sessions = 1..Issued /\ 1 \in Id
  <2>1. Cardinality({1}) = 1
    BY FS_Singleton
  <2>2. DOMAIN sessions = {1}
    BY DEF Init
  <2> QED
    BY <2>1, <2>2, ClientAssumption DEF Issued, Id
<1>2. TypeOK
  <2>1. pc \in [Call -> PC]
    BY DEF Init, PC
  <2>2. \A c \in Call : pc[c] = "idle"
    BY DEF Init
  <2>3. \A i \in DOMAIN sessions : sessions[i] \in Server
    BY DEF Init, Server
  <2> QED
    BY <1>1, <2>1, <2>2, <2>3 DEF Init, TypeOK, InRead, InSetup, Call
<1>3. RoleInv
  BY DEF Init, RoleInv, InRead, Call
<1>4. FlagInv /\ HoldInv
  BY DEF Init, FlagInv, HoldInv, InRead, InOut, Closed, Call
<1>5. TruthInv
  BY <1>1 DEF Init, TruthInv, True
<1> QED
  BY <1>2, <1>3, <1>4, <1>5 DEF IInv

LEMMA Step == IInv /\ [Next]_vars => IInv'
<1> SUFFICES ASSUME IInv, [Next]_vars PROVE IInv'
  OBVIOUS
<1>1. TypeOK /\ RoleInv /\ FlagInv /\ HoldInv /\ TruthInv
  BY DEF IInv
<1>2. FlagInv' /\ HoldInv' /\ TruthInv' /\ record' \in Record /\ (active' = None \/ active' \in Active)
  BY <1>1, FlagStep, SavedStep
<1>3. /\ queue' \in Read \cup {None} /\ setup' \in Setup \cup {None}
      /\ lock' \in Read \cup Setup \cup {None}
      /\ \A r \in Read : /\ pc'[r] \in {"ready", "open", "free"} \cup InRead => queue' = r
                         /\ pc'[r] \in InRead \ {"checked"} => lock' = r
      /\ \A s \in Setup : /\ pc'[s] \in InSetup => setup' = s
                          /\ pc'[s] \in {"signing", "writing"} => lock' = s
      /\ cancelled' \subseteq Setup
      /\ waits' \in [Logout \cup {None} -> Setup \cup {None}]
      /\ asked' \in [Read -> Child \cup {None}]
      /\ closing' \in {"open", "aborted", "closed"} /\ loggingOut' \in BOOLEAN
  BY <1>1, OwnerStep
<1>4. /\ pc' \in [Call -> PC]
      /\ \A r \in Read : pc'[r] \in {"idle", "ready", "open", "free", "done"} \cup InRead
      /\ \A s \in Setup : pc'[s] \in {"idle", "done"} \cup InSetup
      /\ \A o \in Logout : pc'[o] \in {"idle", "done"} \cup InOut
  BY <1>1, Roles
<1>5. RoleInv'
  BY <1>3, <1>4 DEF RoleInv
<1>6. TypeOK'
  <2>1. /\ DOMAIN sessions' = 1..Issued' /\ Issued' \in Id
        /\ \A i \in DOMAIN sessions' : sessions'[i] \in Server
    BY <1>1, SessionsStep
  <2>2. before' \subseteq Read \cup Setup
    BY <1>2 DEF FlagInv
  <2>3. \A r \in Read : pc'[r] \in InRead \ {"checked"} => queue' = r
    BY <1>3
  <2> QED
    BY <1>2, <1>3, <1>4, <2>1, <2>2, <2>3 DEF TypeOK
<1> QED
  BY <1>2, <1>5, <1>6 DEF IInv

\* Every reachable state satisfies the invariant.
THEOREM Inductive == Spec => []IInv
  BY Initially, Step, PTL DEF Spec

\* Type correctness, and that queue, store and setup belong to the calls at work.
THEOREM TypeCorrect == Spec => []TypeOK
<1>1. IInv => TypeOK
  BY DEF IInv
<1> QED
  BY <1>1, Inductive, PTL

\* However many reads, setups and logouts interleave, nothing that was at work when
\* a logout removed the session saves one afterwards, and nothing works after close
\* (Client::logout, cancel_setup, close).
THEOREM EndsAreFinal == Spec => []EndIsFinal
<1>1. IInv => EndIsFinal
  BY Final
<1> QED
  BY <1>1, Inductive, PTL

\* Only reads save what they are given as their own.
LEMMA SavedByRead ==
    ASSUME IInv, [Next]_vars, NEW r \in Read, record' # record, savedBy' = r
    PROVE  Verify(r) \/ Renew(r) \/ Keep(r)
<1>0. /\ r # None /\ r \notin Setup /\ r \notin Logout
  BY ClientAssumption DEF Call
<1>1. ASSUME NEW q \in Read, Reads(q)
      PROVE  (Verify(q) \/ Renew(q) \/ Keep(q)) /\ q = r
  <2>1. Verify(q) \/ Renew(q) \/ Keep(q)
    BY <1>1 DEF Reads, Queue, Check, Refuse, Hold, HoldFails, VerifyFails, SaveFails, Expired,
       RenewFails, Work, WorkFails
  <2>2. PICK a, was : Save(q, a, was) /\ was = record.session
    BY <2>1 DEF Verify, Renew, Keep, SaveFails
  <2>3. savedBy' = q
    <3>1. record \in Record
      BY DEF IInv, TypeOK
    <3>2. [record EXCEPT !.session = record.session] = record
      BY <3>1 DEF Record
    <3> QED
      BY <2>2, <3>2 DEF Save
  <2> QED
    BY <2>1, <2>3
<1>2. ASSUME NEW s \in Setup, Sets(s)
      PROVE  FALSE
  BY <1>0, <1>2 DEF Sets, Start, Busy, Pass, Begin, Proceed, Commit, SetupFails, SetupEnds
<1>3. ASSUME NEW o \in Logout, Outs(o)
      PROVE  FALSE
  BY <1>0, <1>3 DEF Outs, BeginLogout, RefuseLogout, Drain, Remove, RemoveFails, EndLogout
<1>4. CASE Others
  BY <1>0, <1>4 DEF Others, CancelSetup, Abort, Close, Expire, OtherLogin, OtherLogout, Finished, vars
<1> QED
  BY <1>1, <1>2, <1>3, <1>4, Steps

\* A read keeps the account, and a renewal the child as well.
LEMMA ReadKeeps ==
    ASSUME IInv, [Next]_vars, NEW r \in Read, Verify(r) \/ Renew(r) \/ Keep(r), record' # record
    PROVE  /\ record.session.account \in {None, record'.session.account}
           /\ \/ record'.session.id = record.session.id
              \/ record.session.child \in {None, record'.session.child}
<1>1. /\ record \in Record /\ pc[r] \in InRead \ {"checked"}
      /\ record.session # None /\ active \in Active /\ active.from = record.session
      /\ record.session.id \in DOMAIN sessions
      /\ record.session.account \in {None, sessions[record.session.id].account}
      /\ active.account \in {None, sessions[record.session.id].account}
      /\ sessions[record.session.id] \in Server
      /\ None \notin Account /\ None \notin Child
  <2>1. pc[r] \in InRead \ {"checked"}
    BY DEF Verify, Renew, Keep, Goto, InRead
  <2>2. record.session # None /\ active # None /\ active.from = record.session
    BY <2>1 DEF IInv, HoldInv
  <2> QED
    BY <2>1, <2>2, ClientAssumption DEF IInv, TypeOK, TruthInv, True
<1>2. ASSUME NEW a \in Active, Save(r, a, record.session)
      PROVE  /\ record'.session.id = a.from.id
             /\ record'.session.account = Or(a.account, record.session.account)
             /\ record'.session.child = Or(a.child, record.session.child)
  BY <1>1, <1>2, Saving
<1>3. CASE Verify(r)
  <2>1. Seen \in Active /\ Seen.from = record.session /\ Seen.account = sessions[record.session.id].account
    BY <1>1 DEF Seen, Here, Active, Server
  <2>2. Save(r, Seen, record.session)
    BY <1>3 DEF Verify
  <2> QED
    BY <1>1, <1>2, <2>1, <2>2 DEF Or, Server
<1>4. CASE Keep(r)
  <2>1. Save(r, active, record.session)
    BY <1>4 DEF Keep, SaveFails
  <2> QED
    BY <1>1, <1>2, <2>1 DEF Or
<1>5. CASE Renew(r)
  <2>1. PICK child \in Child :
          Save(r, [from |-> [record.session EXCEPT !.id = Issued + 1],
                   account |-> Credentials, child |-> Or(record.session.child, child)], record.session)
    BY <1>5 DEF Renew
  <2> DEFINE a == [from |-> [record.session EXCEPT !.id = Issued + 1],
                   account |-> Credentials, child |-> Or(record.session.child, child)]
  <2>2. record'.session = Current(a, record.session)
    BY <1>1, <2>1 DEF Save, Record
  <2>3. /\ record'.session.account = Or(Credentials, record.session.account)
        /\ record'.session.child = Or(Or(record.session.child, child), record.session.child)
    BY <2>2 DEF Current
  <2>4. /\ Credentials # None
        /\ record.session.account # None => record.session.account = Credentials
    BY <1>1, <1>5 DEF Renew, Known, Or
  <2> QED
    BY <2>3, <2>4 DEF Or
<1> QED
  BY <1>3, <1>4, <1>5

\* For any accounts, children and sessions, a read saves the account that was saved,
\* and its renewal also the child (Client::renew, save_active).
THEOREM RenewalsKeep == Spec => RenewalKeeps
<1> DEFINE Kept == \A r \in Read : pc[r] \in InRead /\ record' # record /\ savedBy' = r =>
                     /\ record.session.account \in {None, record'.session.account}
                     /\ \/ record'.session.id = record.session.id
                        \/ record.session.child \in {None, record'.session.child}
<1>1. IInv /\ [Next]_vars => [Kept]_vars
  BY SavedByRead, ReadKeeps
<1> QED
  BY <1>1, Inductive, PTL DEF Spec, RenewalKeeps

\* Both, for any reads, logins, logouts and moment of close.
THEOREM SessionsAreTheSame == Spec => SessionsGoOn
<1> QED
  BY EndsAreFinal, RenewalsKeep, PTL DEF SessionsGoOn

-----------------------------------------------------------------------------
(* Collecting updates (module Collection), for any children, messages,     *)
(* limits and numbers of calls and changes.  A call works from what its    *)
(* caller was told, which nobody changes meanwhile, and its answer tells   *)
(* from there what the new snapshot holds.                                 *)

Triples(S) == \A k \in S : k = <<k[1], k[2], k[3]>>
Answering  == {"touch", "prune", "answered"}
Telling    == input # None \/ IncludeExisting

\* A call works from what its caller was told, and under a number of its own.
CallerInv ==
    /\ calls \in Nat /\ cursor \in Nat \cup {None} /\ failed \in BOOLEAN
    /\ cursor # None => cursor <= calls
    /\ cursor = None => view = Coll!Empty
    /\ step # "idle" => input = cursor /\ cursor # calls
    /\ step # "idle" /\ failed = FALSE => previous = view
    /\ step \in {"compute"} \cup Answering => failed = FALSE

\* Keys, and the fields of a snapshot.
ShapeInv ==
    /\ \A c \in DOMAIN files : /\ DOMAIN files[c] = {"items", "used"}
                               /\ Triples(DOMAIN files[c].items)
    /\ Triples(DOMAIN current) /\ Triples(DOMAIN previous)

\* The answer turns what the caller was told into the items n.
Announces(n) ==
    /\ n = [k \in DOMAIN n |-> n[k]]
    /\ \A u \in answer.updates : \A c \in u[4] :
           <<u[1], u[2], c>> \in DOMAIN n /\ n[<<u[1], u[2], c>>] = u[3]
    /\ \A k \in DOMAIN n :
           \/ \E u \in answer.updates : u[1] = k[1] /\ u[2] = k[2] /\ k[3] \in u[4]
           \/ k \in DOMAIN previous \ answer.missing /\ previous[k] = n[k]
    /\ DOMAIN previous \ answer.missing \subseteq DOMAIN n

AnswerInv ==
    step \in Answering =>
        /\ answer.cursor \in Nat /\ answer.cursor <= calls
        /\ Telling /\ answer.cursor \in DOMAIN files => Announces(files[answer.cursor].items)

CollInv == CallerInv /\ ShapeInv /\ AnswerInv /\ Coll!ViewIsSnapshot

\* A caller takes such an answer for what it says.
LEMMA Taking ==
    ASSUME NEW n, Announces(n), Triples(DOMAIN n)
    PROVE  Coll!Told(previous) = n
<1> DEFINE updated(k) == {u \in answer.updates : u[1] = k[1] /\ u[2] = k[2] /\ k[3] \in u[4]}
           told == UNION {{<<u[1], u[2], c>> : c \in u[4]} : u \in answer.updates}
           keys == (DOMAIN previous \ answer.missing) \cup told
           value(k) == IF updated(k) = {} THEN previous[k] ELSE (CHOOSE u \in updated(k) : TRUE)[3]
<1>1. told \subseteq DOMAIN n
  BY DEF Announces
<1>2. ASSUME NEW k \in DOMAIN n, NEW u \in updated(k)
      PROVE  k \in told /\ u[3] = n[k]
  <2>1. k = <<u[1], u[2], k[3]>> /\ k[3] \in u[4] /\ u \in answer.updates
    BY <1>2 DEF Triples
  <2> QED
    BY <2>1 DEF Announces
<1>3. keys = DOMAIN n
  <2>1. ASSUME NEW k \in DOMAIN n PROVE k \in keys
    BY <1>2 DEF Announces
  <2> QED
    BY <1>1, <2>1 DEF Announces
<1>4. ASSUME NEW k \in DOMAIN n
      PROVE  value(k) = n[k]
  <2>1. CASE updated(k) = {}
    BY <2>1 DEF Announces
  <2>2. CASE updated(k) # {}
    <3>1. (CHOOSE u \in updated(k) : TRUE) \in updated(k)
      BY <2>2
    <3> HIDE DEF updated
    <3> QED
      BY <1>2, <2>2, <3>1
  <2> QED
    BY <2>1, <2>2
<1>5. Coll!Told(previous) = [k \in keys |-> value(k)]
  BY DEF Coll!Told
<1> HIDE DEF keys, value
<1>6. [k \in keys |-> value(k)] = [k \in DOMAIN n |-> n[k]]
  BY <1>3, <1>4
<1> QED
  BY <1>5, <1>6 DEF Announces

\* What Compute answers turns what the caller was told into the new snapshot.
LEMMA Computing ==
    ASSUME ShapeInv, Telling, UNCHANGED <<input, previous, current, skipped>>,
           answer'.updates = Coll!Updates, answer'.missing = Coll!Missing
    PROVE  Announces(Coll!NextItems)'
<1> DEFINE new == {k \in Coll!Complete(current) : ~Coll!Known(k)}
           same(k) == {q \in new : q[1] = k[1] /\ q[2] = k[2] /\ current[q] = current[k]}
           n == Coll!NextItems
<1>0. n' = n /\ previous' = previous
  BY DEF Coll!NextItems, Coll!Complete, Coll!HeldBack
<1>1. /\ DOMAIN n = Coll!Complete(current) \cup Coll!HeldBack(previous)
      /\ n = [k \in DOMAIN n |-> n[k]]
      /\ \A k \in DOMAIN n : n[k] = IF k[1] \in skipped THEN previous[k] ELSE current[k]
  BY DEF Coll!NextItems
<1>2. \A u \in answer'.updates : \E k \in new : u = <<k[1], k[2], current[k], {q[3] : q \in same(k)}>>
  BY DEF Coll!Updates
<1>3. \A k \in new : <<k[1], k[2], current[k], {q[3] : q \in same(k)}>> \in answer'.updates
  BY DEF Coll!Updates
<1>4. \A k \in new : k \in same(k) /\ k \in DOMAIN n /\ n[k] = current[k]
                     /\ k = <<k[1], k[2], k[3]>>
  BY <1>1 DEF ShapeInv, Triples, Coll!Complete, Coll!HeldBack
<1>5. ASSUME NEW u \in answer'.updates, NEW c \in u[4]
      PROVE  <<u[1], u[2], c>> \in DOMAIN n /\ n[<<u[1], u[2], c>>] = u[3]
  <2>1. PICK k \in new : u = <<k[1], k[2], current[k], {q[3] : q \in same(k)}>>
    BY <1>2
  <2>2. PICK q \in same(k) : c = q[3]
    BY <2>1
  <2>3. q \in new /\ q[1] = u[1] /\ q[2] = u[2] /\ current[q] = u[3]
    BY <2>1, <2>2
  <2>4. q = <<u[1], u[2], c>>
    BY <1>4, <2>2, <2>3
  <2> QED
    BY <1>4, <2>3, <2>4
<1>6. ASSUME NEW k \in DOMAIN n
      PROVE  \/ \E u \in answer'.updates : u[1] = k[1] /\ u[2] = k[2] /\ k[3] \in u[4]
             \/ k \in DOMAIN previous \ answer'.missing /\ previous[k] = n[k]
  <2>1. CASE k \in new
    BY <1>3, <1>4, <2>1
  <2>2. CASE k \notin new
    BY <1>1, <2>2 DEF Coll!Complete, Coll!HeldBack, Coll!Known, Coll!Missing, Telling
  <2> QED
    BY <2>1, <2>2
<1>7. DOMAIN previous \ answer'.missing \subseteq DOMAIN n
  BY <1>1 DEF Coll!Missing, Coll!Complete, Coll!HeldBack
<1> QED
  BY <1>0, <1>1, <1>5, <1>6, <1>7 DEF Announces

\* What the steps of a scan and of a restore leave of a call.
LEMMA Scanned ==
    ASSUME Coll!Scans \/ Coll!Restores
    PROVE  /\ UNCHANGED <<files, input, answer, cursor, view, calls>>
           /\ step # "idle" /\ step' \notin {"idle"} \cup Answering
           /\ failed' = TRUE \/ UNCHANGED <<previous, failed>>
           /\ step' = "compute" => ~failed'
<1> USE DEF Answering
<1>1. CASE Coll!Scans
  <2>1. ASSUME Coll!GiveUp
        PROVE  /\ UNCHANGED <<files, input, answer, cursor, view, calls>>
               /\ step' = "restore" /\ failed' = TRUE
    BY <2>1 DEF Coll!GiveUp, Coll!caller, Coll!bounds
  <2>2. /\ step # "idle"
        /\ \/ Coll!GiveUp
           \/ Coll!Going /\ UNCHANGED failed /\ step' \notin {"idle", "compute"} \cup Answering
    BY <1>1 DEF Coll!Scans, Coll!VisitChild, Coll!EndScan, Coll!SelectChild, Coll!SelectUnanswered,
       Coll!ReadPage, Coll!ReadMessage, Coll!ConfirmChild, Coll!RequestFails, Coll!ReadPlain,
       Coll!Fail, Coll!TurnPage, Coll!Scanning, Coll!Plain, Coll!folder
  <2> QED
    BY <2>1, <2>2 DEF Coll!Going, Coll!caller
<1>2. CASE Coll!Restores
  BY <1>2 DEF Coll!Restores, Coll!Restore, Coll!Reselect, Coll!Verify, Coll!RestoreFails,
     Coll!Restored, Coll!RestoreFixed, Coll!Restoring, Coll!caller, Coll!bounds
<1> QED
  BY <1>1, <1>2

LEMMA ScanShape ==
    ASSUME ShapeInv, Coll!Scans \/ Coll!Restores
    PROVE  ShapeInv'
<1>1. UNCHANGED files
  BY Scanned
<1>2. Triples(DOMAIN previous')
  <2>1. previous' = previous \/ previous' = <<>>
    BY DEF Coll!Scans, Coll!VisitChild, Coll!EndScan, Coll!SelectChild, Coll!SelectUnanswered,
       Coll!ReadPage, Coll!ReadMessage, Coll!ConfirmChild, Coll!RequestFails, Coll!ReadPlain,
       Coll!Fail, Coll!GiveUp, Coll!Going, Coll!Empty, Coll!Restores, Coll!Restore, Coll!Reselect,
       Coll!Verify, Coll!RestoreFails, Coll!RestoreFixed
  <2> QED
    BY <2>1 DEF ShapeInv, Triples
<1>3. Triples(DOMAIN current')
  <2> DEFINE Adds == \E kind, id, v : Coll!Add(kind, id, v)
             Same == current' = current \/ current' = <<>>
  <2>1. Adds \/ Same
    <3>1. CASE Coll!VisitChild \/ Coll!SelectChild \/ Coll!ReadMessage
      BY <3>1 DEF Coll!VisitChild, Coll!SelectChild, Coll!ReadMessage, Coll!Fail, Coll!GiveUp,
         Coll!Empty
    <3>2. CASE \E k \in Coll!Plain : Coll!ReadPlain(k)
      BY <3>2 DEF Coll!ReadPlain
    <3>3. CASE \/ Coll!EndScan \/ Coll!SelectUnanswered \/ Coll!ReadPage \/ Coll!ConfirmChild
               \/ Coll!RequestFails \/ Coll!Restores
      BY <3>3 DEF Coll!EndScan, Coll!SelectUnanswered, Coll!ReadPage, Coll!ConfirmChild,
         Coll!RequestFails, Coll!Fail, Coll!GiveUp, Coll!Empty, Coll!Restores, Coll!Restore,
         Coll!Reselect, Coll!Verify, Coll!RestoreFails, Coll!RestoreFixed
    <3> QED
      BY <3>1, <3>2, <3>3 DEF Coll!Scans
  <2>2. ASSUME NEW kind, NEW id, NEW v, Coll!Add(kind, id, v)
        PROVE  DOMAIN current' = DOMAIN current \cup {<<kind, id, Head(left)>>}
    BY <2>2 DEF Coll!Add, Coll!Put
  <2>3. Adds => Triples(DOMAIN current')
    <3> SUFFICES ASSUME NEW kind, NEW id, NEW v, Coll!Add(kind, id, v)
                 PROVE  Triples(DOMAIN current')
      OBVIOUS
    <3> DEFINE t == <<kind, id, Head(left)>>
    <3>1. t = <<t[1], t[2], t[3]>>
      OBVIOUS
    <3>2. DOMAIN current' = DOMAIN current \cup {t}
      BY <2>2
    <3> HIDE DEF t
    <3> QED
      BY <3>1, <3>2 DEF ShapeInv, Triples
  <2>4. Same => Triples(DOMAIN current')
    BY DEF ShapeInv, Triples
  <2> QED
    BY <2>1, <2>3, <2>4
<1> QED
  BY <1>1, <1>2, <1>3 DEF ShapeInv

\* One answer is kept through what follows it.
LEMMA Announcing ==
    ASSUME NEW n, Announces(n), UNCHANGED <<answer, previous>>
    PROVE  Announces(n)'
BY DEF Announces

LEMMA CollInit ==
    ASSUME Coll!CollectionAssumption, Coll!Init
    PROVE  CollInv
<1>1. /\ step = "idle" /\ cursor = None /\ view = Coll!Empty /\ calls = 0 /\ failed = FALSE
      /\ files = Coll!Empty /\ previous = Coll!Empty /\ current = Coll!Empty
  BY DEF Coll!Init
<1>2. DOMAIN Coll!Empty = {}
  BY DEF Coll!Empty
<1>3. CallerInv /\ AnswerInv
  BY <1>1 DEF CallerInv, AnswerInv, Answering
<1>4. ShapeInv /\ Coll!ViewIsSnapshot
  BY <1>1, <1>2 DEF ShapeInv, Triples, Coll!ViewIsSnapshot
<1> QED
  BY <1>3, <1>4 DEF CollInv

\* While a call computes and saves its answer.
LEMMA Saved ==
    ASSUME Coll!CollectionAssumption, CollInv, Coll!Saves
    PROVE  CollInv'
<1>0. /\ CallerInv /\ ShapeInv /\ AnswerInv /\ Coll!ViewIsSnapshot
      /\ step \in {"compute"} \cup Answering /\ step # "answered" /\ step # "idle"
      /\ failed = FALSE /\ input = cursor /\ previous = view /\ cursor # calls
      /\ calls \in Nat /\ None \notin Nat
      /\ cursor # None => cursor \in Nat /\ cursor <= calls
  BY DEF CollInv, CallerInv, Coll!CollectionAssumption, Coll!Saves, Coll!Compute, Coll!SavingFails,
     Coll!Touch, Coll!Prune, Answering
<1>1. /\ UNCHANGED <<input, previous, cursor, view, calls, failed>> /\ step' # "idle"
      /\ CallerInv'
  <2>1. UNCHANGED <<input, previous, cursor, view, calls, failed>> /\ step' # "idle"
    BY DEF Coll!Saves, Coll!Compute, Coll!SavingFails, Coll!Touch, Coll!Prune, Coll!SaveFixed,
       Coll!caller, Coll!bounds
  <2> QED
    BY <1>0, <2>1 DEF CallerInv
<1>2. CASE Coll!SavingFails
  BY <1>0, <1>1, <1>2 DEF CollInv, Coll!SavingFails, ShapeInv, AnswerInv, Coll!ViewIsSnapshot,
     Coll!Empty, Triples, Answering
<1>3. CASE Coll!Touch
  <2>1. /\ DOMAIN files' = DOMAIN files
        /\ \A c \in DOMAIN files : /\ DOMAIN files'[c] = DOMAIN files[c]
                                   /\ files'[c].items = files[c].items
        /\ UNCHANGED <<current, skipped, answer>> /\ step = "touch" /\ step' = "prune"
    BY <1>0, <1>3 DEF Coll!Touch, ShapeInv
  <2>2. \A n : Announces(n) => Announces(n)'
    BY <1>1, <2>1, Announcing
  <2>3. AnswerInv'
    BY <1>0, <1>1, <2>1, <2>2 DEF AnswerInv, Answering, Telling
  <2> QED
    BY <1>0, <1>1, <2>1, <2>3 DEF CollInv, ShapeInv, Coll!ViewIsSnapshot
<1>4. CASE Coll!Prune
  <2>1. /\ DOMAIN files' \subseteq DOMAIN files
        /\ \A c \in DOMAIN files' : files'[c] = files[c]
        /\ UNCHANGED <<current, skipped, answer>> /\ step = "prune" /\ step' = "answered"
    BY <1>4 DEF Coll!Prune, Coll!Restrict
  <2>2. \A n : Announces(n) => Announces(n)'
    BY <1>1, <2>1, Announcing
  <2>3. AnswerInv'
    BY <1>0, <1>1, <2>1, <2>2 DEF AnswerInv, Answering, Telling
  <2> QED
    BY <1>0, <1>1, <2>1, <2>3 DEF CollInv, ShapeInv, Coll!ViewIsSnapshot
<1>5. CASE Coll!Compute
  <2> DEFINE c == IF Coll!Unchanged THEN input ELSE calls
             n == Coll!NextItems
  <2>1. /\ answer' = [cursor |-> c, updates |-> Coll!Updates, missing |-> Coll!Missing]
        /\ files' = IF Coll!Unchanged THEN files
                    ELSE Coll!Put(files, c, [items |-> n, used |-> now])
        /\ UNCHANGED <<current, skipped>> /\ step' \in Answering
    BY <1>5 DEF Coll!Compute, Answering
  <2>2. /\ answer'.updates = Coll!Updates /\ answer'.missing = Coll!Missing
        /\ answer'.cursor = c
    BY <2>1
  <2>3. c \in Nat /\ c <= calls
    BY <1>0 DEF Coll!Unchanged
  <2>4. Triples(DOMAIN n)
    BY <1>0 DEF Coll!NextItems, Coll!Complete, Coll!HeldBack, ShapeInv, Triples
  <2>5. Telling => Announces(n)'
    BY <1>0, <1>1, <2>1, <2>2, Computing
  <2>6. n' = n
    BY <1>1, <2>1 DEF Coll!NextItems, Coll!Complete, Coll!HeldBack
  <2>7. c \in DOMAIN files' => files'[c].items = n
    <3>1. CASE Coll!Unchanged
      BY <1>0, <2>1, <3>1 DEF Coll!Unchanged, Coll!ViewIsSnapshot
    <3>2. CASE ~Coll!Unchanged
      BY <2>1, <3>2 DEF Coll!Put
    <3> QED
      BY <3>1, <3>2
  <2>8. \A x \in DOMAIN files' :
            \/ x \in DOMAIN files /\ files'[x] = files[x]
            \/ x = calls /\ DOMAIN files'[x] = {"items", "used"} /\ files'[x].items = n
    BY <2>1 DEF Coll!Put
  <2> HIDE DEF c, n
  <2>9. AnswerInv'
    BY <1>1, <2>1, <2>2, <2>3, <2>5, <2>6, <2>7 DEF AnswerInv, Telling
  <2>10. ShapeInv' /\ Coll!ViewIsSnapshot'
    BY <1>0, <1>1, <2>1, <2>4, <2>8 DEF ShapeInv, Coll!ViewIsSnapshot
  <2> QED
    BY <1>1, <2>9, <2>10 DEF CollInv
<1> QED
  BY <1>2, <1>3, <1>4, <1>5 DEF Coll!Saves

LEMMA CollStep ==
    ASSUME Coll!CollectionAssumption, CollInv, [Coll!Next]_(Coll!vars)
    PROVE  CollInv'
<1>0. /\ CallerInv /\ ShapeInv /\ AnswerInv /\ Coll!ViewIsSnapshot
      /\ calls \in Nat /\ None \notin Nat /\ cursor \in Nat \cup {None}
      /\ cursor # None => cursor \in Nat /\ cursor <= calls
  BY DEF CollInv, CallerInv, Coll!CollectionAssumption
<1>1. CASE Coll!Call
  <2>1. /\ step = "idle" /\ step' = "child" /\ calls' = calls + 1 /\ input' = cursor
        /\ UNCHANGED <<files, current, failed, answer, cursor, view>>
        /\ cursor # None => cursor \in DOMAIN files
        /\ previous' = IF cursor = None THEN Coll!Empty ELSE files[cursor].items
    BY <1>1 DEF Coll!Call, Coll!Readable, Coll!caller
  <2>2. previous' = view /\ Triples(DOMAIN previous')
    <3>1. DOMAIN Coll!Empty = {}
      BY DEF Coll!Empty
    <3> QED
      BY <1>0, <2>1, <3>1 DEF CallerInv, ShapeInv, Triples, Coll!ViewIsSnapshot
  <2>3. CallerInv'
    BY <1>0, <2>1, <2>2 DEF CallerInv, Answering
  <2> QED
    BY <1>0, <2>1, <2>2, <2>3 DEF CollInv, ShapeInv, AnswerInv, Answering, Coll!ViewIsSnapshot
<1>2. CASE Coll!RefuseCursor
  <2>1. /\ step = "idle" /\ calls' = calls + 1 /\ cursor' = None /\ view' = Coll!Empty
        /\ UNCHANGED <<files, step, input, previous, current, failed, answer>>
    BY <1>2 DEF Coll!RefuseCursor, Coll!scan
  <2> QED
    BY <1>0, <2>1 DEF CollInv, CallerInv, ShapeInv, AnswerInv, Answering, Coll!ViewIsSnapshot
<1>3. CASE Coll!Scans \/ Coll!Restores
  <2>1. /\ UNCHANGED <<files, input, answer, cursor, view, calls>>
        /\ step # "idle" /\ step' \notin {"idle"} \cup Answering
        /\ failed' = TRUE \/ UNCHANGED <<previous, failed>>
        /\ step' = "compute" => ~failed'
    BY <1>3, Scanned
  <2>2. ShapeInv'
    BY <1>0, <1>3, ScanShape
  <2>3. /\ failed' \in BOOLEAN /\ (step' = "compute" => failed' = FALSE)
        /\ failed' = FALSE => previous' = view
    <3>1. CASE failed' = TRUE
      BY <2>1, <3>1
    <3>2. CASE UNCHANGED <<previous, failed>>
      BY <1>0, <2>1, <3>2 DEF CallerInv
    <3> QED
      BY <2>1, <3>1, <3>2
  <2>4. CallerInv'
    BY <1>0, <2>1, <2>3 DEF CallerInv
  <2> QED
    BY <1>0, <2>1, <2>2, <2>4 DEF CollInv, AnswerInv, Coll!ViewIsSnapshot
<1>4. CASE Coll!Saves
  BY <1>4, Saved
<1>5. ASSUME Coll!Forget
      PROVE  /\ step' = "idle" /\ failed' = FALSE
             /\ Triples(DOMAIN current') /\ Triples(DOMAIN previous')
  BY <1>5 DEF Coll!Forget, Coll!Empty, Triples
<1>6. CASE Coll!TakeAnswer
  <2>1. /\ step = "answered" /\ cursor' = answer.cursor /\ UNCHANGED <<files, calls>>
        /\ view' = IF input = None /\ ~IncludeExisting THEN files[answer.cursor].items
                   ELSE Coll!Told(view)
        /\ Coll!Forget
    BY <1>6 DEF Coll!TakeAnswer, Coll!bounds
  <2>2. /\ previous = view /\ answer.cursor \in Nat /\ answer.cursor <= calls
        /\ Telling /\ answer.cursor \in DOMAIN files => Announces(files[answer.cursor].items)
    BY <1>0, <2>1 DEF CallerInv, AnswerInv, Answering
  <2>3. answer.cursor \in DOMAIN files => view' = files[answer.cursor].items
    <3>1. CASE Telling
      BY <1>0, <2>1, <2>2, <3>1, Taking DEF ShapeInv, Telling
    <3>2. CASE ~Telling
      BY <2>1, <3>2 DEF Telling
    <3> QED
      BY <3>1, <3>2
  <2> QED
    BY <1>0, <1>5, <2>1, <2>2, <2>3 DEF CollInv, CallerInv, ShapeInv, AnswerInv, Answering,
       Coll!ViewIsSnapshot
<1>7. CASE Coll!LoseAnswer
  <2>1. Coll!Forget /\ UNCHANGED <<files, cursor, view, calls>>
    BY <1>7 DEF Coll!LoseAnswer, Coll!caller, Coll!bounds
  <2> QED
    BY <1>0, <1>5, <2>1 DEF CollInv, CallerInv, ShapeInv, AnswerInv, Answering, Coll!ViewIsSnapshot
<1>8. CASE Coll!Outside \/ Coll!Tick \/ UNCHANGED Coll!vars
  <2>1. UNCHANGED <<files, step, input, previous, current, failed, answer, cursor, view, calls>>
    BY <1>8 DEF Coll!Outside, Coll!Arrive, Coll!Delete, Coll!Post, Coll!SelectOther, Coll!Leaves,
       Coll!Edit, Coll!Change, Coll!Tick, Coll!vars, Coll!scan, Coll!caller, Coll!bounds
  <2>2. \A n : Announces(n) => Announces(n)'
    BY <2>1, Announcing
  <2>3. AnswerInv'
    BY <1>0, <2>1, <2>2 DEF AnswerInv, Telling
  <2> QED
    BY <1>0, <2>1, <2>3 DEF CollInv, CallerInv, ShapeInv, Coll!ViewIsSnapshot
<1> QED
  BY <1>1, <1>2, <1>3, <1>4, <1>6, <1>7, <1>8 DEF Coll!Next

\* The inductive invariant of the collection, for values as the module assumes them.
THEOREM CollectionInductive == Coll!Spec => []CollInv
<1> QED
  BY CollAssumption, CollInit, CollStep, PTL DEF Coll!Spec

\* For any children, calls, lost answers and changes, a caller that keeps a cursor once
\* it has handled its answer knows what the cursor's snapshot holds (collect_updates).
THEOREM SnapshotsAreKnown == Coll!Spec => []ViewIsSnapshot
<1>1. CollInv => ViewIsSnapshot
  BY DEF CollInv, ViewIsSnapshot
<1> QED
  BY <1>1, CollectionInductive, PTL

\* For any number of calls and changes, a call that answers, or fails without saying
\* so, leaves the child selected that was before (Scan::restore).
THEOREM OriginalReturns == Coll!Spec => []OriginalIsBack
<1> USE DEF OriginalIsBack, Coll!OriginalIsBack, Coll!Saving
<1>1. Coll!Init => OriginalIsBack
  BY DEF Coll!Init
<1>2. OriginalIsBack /\ [Coll!Next]_(Coll!vars) => OriginalIsBack'
  <2> SUFFICES ASSUME OriginalIsBack, [Coll!Next]_(Coll!vars)
               PROVE  OriginalIsBack'
    OBVIOUS
  <2>1. CASE Coll!Scans
    <3>1. step' \in Coll!Scanning \cup {"restore"}
      BY <2>1 DEF Coll!Scans, Coll!VisitChild, Coll!EndScan, Coll!SelectChild,
         Coll!SelectUnanswered, Coll!ReadPage, Coll!ReadMessage, Coll!ConfirmChild,
         Coll!RequestFails, Coll!ReadPlain, Coll!Fail, Coll!GiveUp, Coll!TurnPage, Coll!Scanning
    <3> QED
      BY <3>1 DEF Coll!Scanning
  <2>2. CASE Coll!Restores
    BY <2>2 DEF Coll!Restores, Coll!Restore, Coll!Reselect, Coll!Verify, Coll!RestoreFails,
       Coll!RestoreFixed
  <2>3. CASE Coll!Saves
    BY <2>3 DEF Coll!Saves, Coll!Compute, Coll!SavingFails, Coll!Touch, Coll!Prune, Coll!SaveFixed,
       Coll!account, Coll!shown
  <2>4. CASE Coll!Call \/ Coll!RefuseCursor \/ Coll!TakeAnswer \/ Coll!LoseAnswer \/ Coll!Tick
    BY <2>4 DEF Coll!Call, Coll!RefuseCursor, Coll!TakeAnswer, Coll!LoseAnswer, Coll!Forget,
       Coll!Tick, Coll!account, Coll!scan, Coll!shown
  <2>5. CASE Coll!Outside
    <3>1. UNCHANGED <<step, original>>
      BY <2>5 DEF Coll!Outside, Coll!Arrive, Coll!Delete, Coll!Post, Coll!SelectOther,
         Coll!Leaves, Coll!Edit, Coll!Change, Coll!scan
    <3>2. \/ UNCHANGED <<selected, meddled>>
          \/ Coll!Meddle
      BY <2>5 DEF Coll!Outside, Coll!Arrive, Coll!Delete, Coll!Post, Coll!SelectOther,
         Coll!Leaves, Coll!Edit, Coll!account
    <3> QED
      BY <3>1, <3>2 DEF Coll!Meddle, Coll!Scanning
  <2>6. CASE UNCHANGED Coll!vars
    BY <2>6 DEF Coll!vars, Coll!account, Coll!scan, Coll!shown
  <2> QED
    BY <2>1, <2>2, <2>3, <2>4, <2>5, <2>6 DEF Coll!Next
<1> QED
  BY <1>1, <1>2, PTL DEF Coll!Spec

-----------------------------------------------------------------------------
(* Collecting updates: what a scan has gathered.  It works for the child   *)
(* that it selected, or is astray and will not confirm.                    *)

Feeding == {"timetable", "page", "message", "notification", "confirm"}

\* The scan found the item, or it appeared since the scan began.
Noted(kind, id, c, v) == <<<<kind, id, c>>, v>> \in fresh \cup Coll!Pairs(current)

PlainNoted(c, k) == k \in skipped \/ board[c][k] = 0 \/ Noted(k, k, c, board[c][k])
MailNoted(c, m)  == Noted("message", m, c, body[m])
FolderNoted(c)   == "message" \in skipped \/ \A i \in 1..Len(mail[c]) : MailNoted(c, mail[c][i])
AllNoted(c)      == /\ Noted("child", "child", c, 1) /\ FolderNoted(c)
                    /\ PlainNoted(c, "timetable") /\ PlainNoted(c, "notification")

\* The messages up to the page, except the one that is about to be read.
PagesNoted(c) ==
    /\ step = "page" => \A i \in 1..Len(mail[c]) : i < page => MailNoted(c, mail[c][i])
    /\ step = "message" => \A i \in 1..Len(mail[c]) :
           i <= page \/ ~todo[2] => mail[c][i] = todo[1] \/ MailNoted(c, mail[c][i])

SoFar(c) ==
    /\ Noted("child", "child", c, 1)
    /\ step # "timetable" => PlainNoted(c, "timetable")
    /\ step = "confirm" => PlainNoted(c, "notification")
    /\ step \in {"notification", "confirm"} => FolderNoted(c)
    /\ "message" \in skipped \/ PagesNoted(c)

Working == failed = FALSE /\ step \in Coll!Scanning \cup Coll!Restoring \cup {"compute"} \cup Answering
Astray  == step \in Coll!Scanning
           /\ (pupils # initial \/ (step \in Feeding /\ selected # Head(left)))
ShowsNow == Coll!Shows(pupils, mail, body, board)

\* The school's feeds and the account.
FeedInv ==
    /\ pupils \subseteq Children /\ body = [m \in Message |-> body[m]]
    /\ mail \in [Children -> Seq(Message)] /\ board \in [Children -> [Coll!Plain -> {0, 1}]]

\* Where the scan is.
PlaceInv ==
    /\ step # "idle" => (pupils \subseteq initial /\ initial \subseteq Children)
    /\ step = "idle" => current = Coll!Empty
    /\ step \in Coll!Scanning \cup {"idle"} => failed = FALSE
    /\ step \in Coll!Scanning => Coll!Range(left) \subseteq initial
    /\ page \in Nat /\ left \in Seq(Children) /\ (step \in Feeding \cup {"select"} => left # <<>>)
    /\ Working /\ step \notin Coll!Scanning => left = <<>>
    /\ step \in Feeding /\ pupils = initial /\ selected # Head(left) => meddled # "no"

\* What it gathered is true, and whole as far as it is.
GatherInv ==
    Working /\ ~Astray =>
        /\ Coll!Pairs(current) \subseteq ShowsNow \cup gone
        /\ deleted = FALSE =>
               /\ \A c \in pupils \ Coll!Range(left) : AllNoted(c)
               /\ step \in Feeding => SoFar(Head(left))

\* The answer's snapshot is there, and holds it.
SnapshotInv ==
    /\ now \in Nat
    /\ step \in Coll!Scanning \cup Coll!Restoring \cup {"compute", "touch"} /\ input # None
          => input \in DOMAIN files
    /\ step \in Answering =>
           /\ answer.cursor \in DOMAIN files /\ files[answer.cursor].items = Coll!NextItems
           /\ \/ files[answer.cursor].used = now
              \/ step = "touch" /\ answer.cursor = input
              \/ step = "answered"

WholeInv == FeedInv /\ PlaceInv /\ GatherInv /\ SnapshotInv

\* What the feeds of the children cs show.
LEMMA Showing ==
    ASSUME NEW cs, NEW ml, NEW bo, NEW bd, NEW q
    PROVE  q \in Coll!Shows(cs, ml, bo, bd) <=>
               \E c \in cs :
                   \/ q = <<<<"child", "child", c>>, 1>>
                   \/ \E m \in Coll!Range(ml[c]) : q = <<<<"message", m, c>>, bo[m]>>
                   \/ \E k \in Coll!Plain : bd[c][k] > 0 /\ q = <<<<k, k, c>>, bd[c][k]>>
<1>1. q \in Coll!Shows(cs, ml, bo, bd) <=> \E c \in cs : q \in Coll!Items(c, ml, bo, bd)
  BY DEF Coll!Shows
<1>2. ASSUME NEW c \in cs
      PROVE  q \in Coll!Items(c, ml, bo, bd) <=>
                   \/ q = <<<<"child", "child", c>>, 1>>
                   \/ \E m \in Coll!Range(ml[c]) : q = <<<<"message", m, c>>, bo[m]>>
                   \/ \E k \in Coll!Plain : bd[c][k] > 0 /\ q = <<<<k, k, c>>, bd[c][k]>>
  BY DEF Coll!Items
<1> QED
  BY <1>1, <1>2

\* The messages of a folder, by their places.
LEMMA Places ==
    ASSUME NEW s \in Seq(Message)
    PROVE  /\ \A i \in 1..Len(s) : s[i] \in Coll!Range(s)
           /\ \A m \in Coll!Range(s) : \E i \in 1..Len(s) : m = s[i]
BY DEF Coll!Range

\* An item that is added is found, and hides none that is still shown.
LEMMA Adding ==
    ASSUME NEW kind, NEW id, NEW v, Coll!Add(kind, id, v), fresh' = fresh
    PROVE  /\ Coll!Pairs(current') \subseteq Coll!Pairs(current) \cup {<<<<kind, id, Head(left)>>, v>>}
           /\ <<<<kind, id, Head(left)>>, v>> \in fresh' \cup Coll!Pairs(current')
           /\ \A k, w : /\ <<k, w>> \in fresh \cup Coll!Pairs(current)
                        /\ k = <<kind, id, Head(left)>> => w = v
                        => <<k, w>> \in fresh' \cup Coll!Pairs(current')
<1> DEFINE key == <<kind, id, Head(left)>>
<1>1. /\ DOMAIN current' = DOMAIN current \cup {key}
      /\ \A x \in DOMAIN current' : current'[x] = IF x = key THEN v ELSE current[x]
  BY DEF Coll!Add, Coll!Put
<1>2. \A x, w : <<x, w>> \in Coll!Pairs(current) <=> x \in DOMAIN current /\ w = current[x]
  BY DEF Coll!Pairs
<1>3. \A x, w : <<x, w>> \in Coll!Pairs(current') <=> x \in DOMAIN current' /\ w = current'[x]
  BY DEF Coll!Pairs
<1>4. \A p \in Coll!Pairs(current') : \E x \in DOMAIN current' : p = <<x, current'[x]>>
  BY DEF Coll!Pairs
<1> HIDE DEF key
<1>5. \A p \in Coll!Pairs(current') : p \in Coll!Pairs(current) \cup {<<key, v>>}
  BY <1>1, <1>2, <1>4
<1>6. <<key, v>> \in Coll!Pairs(current')
  BY <1>1, <1>3
<1>7. ASSUME NEW k, NEW w, <<k, w>> \in fresh \cup Coll!Pairs(current), k = key => w = v
      PROVE  <<k, w>> \in fresh' \cup Coll!Pairs(current')
  BY <1>1, <1>2, <1>3, <1>7
<1> QED
  BY <1>5, <1>6, <1>7 DEF key

\* A change is recorded as what appeared and what vanished.
LEMMA Recorded ==
    ASSUME Coll!Change, step # "idle", failed = FALSE
    PROVE  /\ fresh' = fresh \cup (ShowsNow' \ ShowsNow)
           /\ gone' = gone \cup (ShowsNow \ ShowsNow')
           /\ UNCHANGED <<files, now, step, input, initial, left, current, previous, skipped, page, todo,
                          failed, answer>>
BY DEF Coll!Change, ShowsNow, Coll!scan, Coll!folder

\* A message that arrives is the first of its folder; one that is deleted leaves it.
LEMMA Arriving ==
    ASSUME NEW s \in Seq(Message), NEW m \in Message
    PROVE  /\ <<m>> \o s \in Seq(Message) /\ Len(<<m>> \o s) = Len(s) + 1
           /\ \A i \in 1..(Len(s) + 1) : (<<m>> \o s)[i] = IF i = 1 THEN m ELSE s[i - 1]
OBVIOUS

LEMMA Deleting ==
    ASSUME NEW s \in Seq(Message), NEW i \in DOMAIN s
    PROVE  Coll!RemoveAt(s, i) \in Seq(Message)
<1>1. i \in 1..Len(s) /\ Len(s) \in Nat
  OBVIOUS
<1>2. SubSeq(s, 1, i - 1) \in Seq(Message) /\ SubSeq(s, i + 1, Len(s)) \in Seq(Message)
  BY <1>1
<1> QED
  BY <1>2 DEF Coll!RemoveAt

LEMMA FeedStep ==
    ASSUME Coll!CollectionAssumption, FeedInv, [Coll!Next]_(Coll!vars)
    PROVE  FeedInv'
<1>1. CASE Coll!Outside
  <2>1. ASSUME NEW c \in Children, NEW m \in Message, Coll!Arrive(c, m)
        PROVE  FeedInv'
    <3>1. mail' = [mail EXCEPT ![c] = <<m>> \o @] /\ UNCHANGED <<pupils, body, board>>
      BY <2>1 DEF Coll!Arrive, Coll!account
    <3>2. mail[c] \in Seq(Message)
      BY DEF FeedInv
    <3>3. <<m>> \o mail[c] \in Seq(Message)
      BY <3>2
    <3> QED
      BY <3>1, <3>3 DEF FeedInv
  <2>2. ASSUME NEW c \in Children, NEW m \in Message, Coll!Delete(c, m)
        PROVE  FeedInv'
    <3>1. PICK i \in DOMAIN mail[c] : mail' = [mail EXCEPT ![c] = Coll!RemoveAt(@, i)]
      BY <2>2 DEF Coll!Delete
    <3>2. UNCHANGED <<pupils, body, board>>
      BY <2>2 DEF Coll!Delete, Coll!account
    <3>3. Coll!RemoveAt(mail[c], i) \in Seq(Message)
      BY Deleting DEF FeedInv
    <3> QED
      BY <3>1, <3>2, <3>3 DEF FeedInv
  <2>3. ASSUME NEW c \in Children, NEW k \in Coll!Plain, Coll!Post(c, k)
        PROVE  FeedInv'
    BY <2>3 DEF Coll!Post, Coll!account, FeedInv
  <2>4. ASSUME NEW c \in Children, Coll!SelectOther(c) \/ Coll!Leaves(c)
        PROVE  FeedInv'
    BY <2>4 DEF Coll!SelectOther, Coll!Leaves, Coll!school, FeedInv
  <2>5. ASSUME NEW m \in Message, Coll!Edit(m)
        PROVE  FeedInv'
    <3>1. body' = [body EXCEPT ![m] = 2] /\ UNCHANGED <<pupils, mail, board>>
      BY <2>5 DEF Coll!Edit, Coll!account
    <3>2. body' = [x \in Message |-> body'[x]]
      BY <3>1 DEF FeedInv
    <3> QED
      BY <3>1, <3>2 DEF FeedInv
  <2> QED
    BY <1>1, <2>1, <2>2, <2>3, <2>4, <2>5 DEF Coll!Outside
<1>2. CASE ~Coll!Outside
  <2>1. UNCHANGED <<pupils, body, mail, board>>
    <3>1. CASE Coll!Scans
      BY <3>1 DEF Coll!Scans, Coll!VisitChild, Coll!EndScan, Coll!SelectChild, Coll!SelectUnanswered,
         Coll!ReadPage, Coll!ReadMessage, Coll!ConfirmChild, Coll!RequestFails, Coll!ReadPlain,
         Coll!Fail, Coll!GiveUp, Coll!Going, Coll!school, Coll!account
    <3>2. CASE Coll!Restores
      BY <3>2 DEF Coll!Restores, Coll!Restore, Coll!Reselect, Coll!Verify, Coll!RestoreFails,
         Coll!RestoreFixed, Coll!school
    <3>3. CASE Coll!Saves
      BY <3>3 DEF Coll!Saves, Coll!Compute, Coll!SavingFails, Coll!Touch, Coll!Prune,
         Coll!SaveFixed, Coll!school, Coll!account
    <3>4. CASE Coll!Call \/ Coll!RefuseCursor \/ Coll!TakeAnswer \/ Coll!LoseAnswer \/ Coll!Tick
               \/ UNCHANGED Coll!vars
      BY <3>4 DEF Coll!Call, Coll!RefuseCursor, Coll!TakeAnswer, Coll!LoseAnswer, Coll!Tick,
         Coll!vars, Coll!school, Coll!account
    <3> QED
      BY <1>2, <3>1, <3>2, <3>3, <3>4 DEF Coll!Next
  <2> QED
    BY <2>1 DEF FeedInv
<1> QED
  BY <1>1, <1>2

\* What a scan's step leaves of the call, unless it gives up.
LEMMA Proceeding ==
    ASSUME Coll!Scans, ~Coll!GiveUp
    PROVE  /\ step \in Coll!Scanning /\ step' \in Coll!Scanning \cup {"restore"}
           /\ UNCHANGED <<pupils, mail, body, board, files, now, input, initial, failed, answer, previous,
                          fresh, gone, deleted, meddled>>
           /\ selected' = selected \/ (step = "select" /\ selected' = Head(left))
           /\ left' = left \/ (step = "confirm" /\ step' = "child" /\ left' = Tail(left))
           /\ step' \in Feeding \cup {"select"} =>
                  left' = left /\ (step \in Feeding \cup {"select"} \/ left # <<>>)
           /\ step' \in Feeding => selected' = Head(left) \/ (step \in Feeding /\ selected' = selected)
           /\ step' = "restore" => left = <<>> /\ left' = left
           /\ page' \in {page, page + 1, 1, 0}
BY DEF Coll!Scans, Coll!VisitChild, Coll!EndScan, Coll!SelectChild, Coll!SelectUnanswered,
   Coll!ReadPage, Coll!ReadMessage, Coll!ConfirmChild, Coll!RequestFails, Coll!ReadPlain,
   Coll!Fail, Coll!TurnPage, Coll!Scanning, Coll!Plain, Coll!Going, Coll!folder, Coll!account,
   Coll!school, Coll!caller, Coll!shown, Feeding

LEMMA InScan ==
    ASSUME Coll!Scans
    PROVE  step \in Coll!Scanning
BY DEF Coll!Scans, Coll!VisitChild, Coll!EndScan, Coll!SelectChild, Coll!SelectUnanswered,
   Coll!ReadPage, Coll!ReadMessage, Coll!ConfirmChild, Coll!RequestFails, Coll!ReadPlain,
   Coll!Scanning, Coll!Plain

\* A scan gives up with nothing.
LEMMA GivingUp ==
    ASSUME Coll!GiveUp
    PROVE  /\ failed' = TRUE /\ step' = "restore" /\ left' = <<>> /\ page' = 0
           /\ UNCHANGED <<pupils, mail, body, board, files, now, input, initial, answer>>
BY DEF Coll!GiveUp, Coll!school, Coll!caller, Coll!bounds

\* The children that are left after one of them.
LEMMA Leaving ==
    ASSUME NEW s \in Seq(Children), s # <<>>
    PROVE  /\ Head(s) \in Coll!Range(s) /\ Tail(s) \in Seq(Children)
           /\ Coll!Range(s) = {Head(s)} \cup Coll!Range(Tail(s))
<1>1. Len(s) \in Nat \ {0} /\ Head(s) = s[1] /\ DOMAIN s = 1..Len(s)
  OBVIOUS
<1>2. /\ Tail(s) \in Seq(Children) /\ DOMAIN Tail(s) = 1..(Len(s) - 1)
      /\ \A i \in 1..(Len(s) - 1) : Tail(s)[i] = s[i + 1]
  OBVIOUS
<1>3. \A i \in 1..Len(s) : i = 1 \/ i - 1 \in 1..(Len(s) - 1)
  BY <1>1
<1>4. ASSUME NEW i \in 1..Len(s)
      PROVE  s[i] \in {Head(s)} \cup Coll!Range(Tail(s))
  <2>1. CASE i = 1
    BY <1>1, <2>1
  <2>2. CASE i # 1
    <3>1. i - 1 \in DOMAIN Tail(s) /\ Tail(s)[i - 1] = s[i]
      BY <1>1, <1>2, <2>2
    <3> QED
      BY <3>1 DEF Coll!Range
  <2> QED
    BY <2>1, <2>2
<1>5. ASSUME NEW i \in DOMAIN Tail(s)
      PROVE  Tail(s)[i] \in Coll!Range(s)
  <2>1. i + 1 \in DOMAIN s /\ Tail(s)[i] = s[i + 1]
    BY <1>1, <1>2
  <2> QED
    BY <2>1 DEF Coll!Range
<1>6. Head(s) \in Coll!Range(s)
  BY <1>1 DEF Coll!Range
<1> QED
  BY <1>1, <1>2, <1>4, <1>5, <1>6 DEF Coll!Range

LEMMA PlaceStep ==
    ASSUME Coll!CollectionAssumption, CollInv, FeedInv, PlaceInv, [Coll!Next]_(Coll!vars)
    PROVE  PlaceInv'
<1> USE DEF Feeding, Coll!Scanning, Coll!Restoring, Answering, Working
<1>0. pupils \subseteq Children /\ left \in Seq(Children) /\ failed \in BOOLEAN
  BY DEF FeedInv, PlaceInv, CollInv, CallerInv
<1>1. CASE Coll!Call
  <2>1. /\ step = "idle" /\ step' = "child" /\ initial' = pupils /\ left' = Listed[pupils]
        /\ UNCHANGED <<pupils, failed, page>>
    BY <1>1 DEF Coll!Call, Coll!account, Coll!folder
  <2>2. left' \in Seq(Children) /\ Coll!Range(left') = pupils
    BY <1>0, <2>1 DEF Coll!CollectionAssumption
  <2> QED
    BY <1>0, <2>1, <2>2 DEF PlaceInv
<1>2. CASE Coll!RefuseCursor \/ Coll!Tick \/ UNCHANGED Coll!vars
  <2>1. UNCHANGED <<step, pupils, selected, initial, failed, left, page, current, meddled>>
    BY <1>2 DEF Coll!RefuseCursor, Coll!Tick, Coll!vars, Coll!scan, Coll!account, Coll!folder,
       Coll!shown
  <2> QED
    BY <2>1 DEF PlaceInv
<1>3. CASE Coll!TakeAnswer \/ Coll!LoseAnswer
  <2>1. /\ step' = "idle" /\ current' = Coll!Empty /\ failed' = FALSE /\ page' = 0 /\ left' = <<>>
        /\ pupils' = pupils
    BY <1>3 DEF Coll!TakeAnswer, Coll!LoseAnswer, Coll!Forget, Coll!account
  <2> QED
    BY <1>0, <2>1 DEF PlaceInv
<1>4. CASE Coll!Scans /\ Coll!GiveUp
  <2>1. /\ failed' = TRUE /\ step' = "restore" /\ left' = <<>> /\ page' = 0
        /\ UNCHANGED <<pupils, initial>>
    BY <1>4, GivingUp
  <2>2. step # "idle"
    BY <1>4, InScan
  <2> QED
    BY <1>0, <2>1, <2>2 DEF PlaceInv
<1>5. CASE Coll!Scans /\ ~Coll!GiveUp
  <2>1. /\ step \in Coll!Scanning /\ step' \in Coll!Scanning \cup {"restore"}
        /\ UNCHANGED <<pupils, initial, failed, meddled>>
        /\ page' \in {page, page + 1, 1, 0}
    BY <1>5, Proceeding
  <2>2. left' \in Seq(Children) /\ Coll!Range(left') \subseteq initial
        /\ (step' \in Feeding \cup {"select"} => left' # <<>>)
    <3>1. CASE left' = left
      BY <1>5, <2>1, <3>1, Proceeding DEF PlaceInv
    <3>2. CASE step = "confirm" /\ step' = "child" /\ left' = Tail(left)
      <4>1. left # <<>> /\ Coll!Range(left) \subseteq initial
        BY <2>1, <3>2 DEF PlaceInv
      <4> QED
        BY <1>0, <3>2, <4>1, Leaving
    <3> QED
      BY <1>5, <3>1, <3>2, Proceeding
  <2>3. step' = "restore" => left' = <<>>
    BY <1>5, Proceeding
  <2>4. step' \in Feeding /\ selected' # Head(left') =>
            left' = left /\ step \in Feeding /\ selected' = selected
    BY <1>5, Proceeding
  <2>5. page' \in Nat
    BY <2>1 DEF PlaceInv
  <2> QED
    BY <1>0, <2>1, <2>2, <2>3, <2>4, <2>5 DEF PlaceInv
<1>6. CASE Coll!Restores \/ Coll!Saves
  <2>1. /\ UNCHANGED <<pupils, initial, failed, left, page>>
        /\ step \in Coll!Restoring \cup {"compute"} \cup Answering
        /\ step' \notin Coll!Scanning \cup {"idle"}
    BY <1>6 DEF Coll!Restores, Coll!Restore, Coll!Reselect, Coll!Verify, Coll!RestoreFails,
       Coll!RestoreFixed, Coll!Restored, Coll!Saves, Coll!Compute, Coll!SavingFails, Coll!Touch,
       Coll!Prune, Coll!SaveFixed, Coll!folder, Coll!account
  <2> QED
    BY <2>1 DEF PlaceInv
<1>7. CASE Coll!Outside
  <2>1. UNCHANGED <<step, initial, failed, left, page, current>>
    BY <1>7 DEF Coll!Outside, Coll!Arrive, Coll!Delete, Coll!Post, Coll!SelectOther, Coll!Leaves,
       Coll!Edit, Coll!Change, Coll!scan, Coll!folder
  <2>2. \/ UNCHANGED <<pupils, selected, meddled>>
        \/ /\ pupils' = pupils /\ meddled = "no"
           /\ step # "idle" => meddled' # "no"
        \/ \E c \in pupils : pupils' = pupils \ {c}
    BY <1>7 DEF Coll!Outside, Coll!Arrive, Coll!Delete, Coll!Post, Coll!SelectOther, Coll!Leaves,
       Coll!Edit, Coll!Meddle, Coll!account
  <2> QED
    BY <1>0, <2>1, <2>2 DEF PlaceInv
<1> QED
  BY <1>1, <1>2, <1>3, <1>4, <1>5, <1>6, <1>7 DEF Coll!Next

LEMMA SnapshotStep ==
    ASSUME Coll!CollectionAssumption, CollInv, SnapshotInv, [Coll!Next]_(Coll!vars)
    PROVE  SnapshotInv'
<1> USE DEF Coll!Scanning, Coll!Restoring, Answering
<1>0. /\ CallerInv /\ ShapeInv /\ Coll!ViewIsSnapshot /\ now \in Nat /\ Retention \in Nat
  BY DEF CollInv, SnapshotInv, Coll!CollectionAssumption
<1>1. CASE Coll!Call
  <2>1. /\ step' = "child" /\ input' = cursor /\ UNCHANGED <<files, now>>
        /\ cursor # None => cursor \in DOMAIN files
    BY <1>1 DEF Coll!Call, Coll!Readable
  <2> QED
    BY <1>0, <2>1 DEF SnapshotInv
<1>2. CASE Coll!TakeAnswer \/ Coll!LoseAnswer
  <2>1. step' = "idle" /\ now' = now
    BY <1>2 DEF Coll!TakeAnswer, Coll!LoseAnswer, Coll!Forget
  <2> QED
    BY <1>0, <2>1 DEF SnapshotInv
<1>3. CASE Coll!RefuseCursor \/ Coll!Tick
  <2>1. step' = "idle" /\ now' \in {now, now + 1}
    BY <1>3 DEF Coll!RefuseCursor, Coll!Tick
  <2> QED
    BY <1>0, <2>1 DEF SnapshotInv
<1>4. CASE Coll!Scans \/ Coll!Restores
  <2>1. /\ UNCHANGED <<files, input>> /\ step # "idle" /\ step' \notin {"idle"} \cup Answering
    BY <1>4, Scanned
  <2>2. CASE Coll!Scans
    <3>1. step \in Coll!Scanning /\ now' = now
      BY <2>2, InScan, GivingUp, Proceeding
    <3> QED
      BY <1>0, <2>1, <3>1 DEF SnapshotInv
  <2>3. CASE Coll!Restores
    <3>1. step \in Coll!Restoring /\ now' = now
      BY <2>3 DEF Coll!Restores, Coll!Restore, Coll!Reselect, Coll!Verify, Coll!RestoreFails,
         Coll!RestoreFixed
    <3> QED
      BY <1>0, <2>1, <3>1 DEF SnapshotInv
  <2> QED
    BY <1>4, <2>2, <2>3
<1>5. CASE Coll!SavingFails
  <2>1. step' = "failed" /\ now' = now
    BY <1>5 DEF Coll!SavingFails, Coll!SaveFixed
  <2> QED
    BY <1>0, <2>1 DEF SnapshotInv
<1>6. ASSUME UNCHANGED <<input, previous, current, skipped>>
      PROVE  Coll!NextItems' = Coll!NextItems
  BY <1>6 DEF Coll!NextItems, Coll!Complete, Coll!HeldBack
<1>7. CASE Coll!Touch
  <2>1. /\ step = "touch" /\ step' = "prune" /\ files' = [files EXCEPT ![input].used = now]
        /\ UNCHANGED <<now, input, previous, current, skipped, answer>>
    BY <1>7 DEF Coll!Touch, Coll!SaveFixed
  <2>2. /\ DOMAIN files' = DOMAIN files
        /\ \A c \in DOMAIN files : /\ files'[c].items = files[c].items
                                   /\ files'[c].used = IF c = input THEN now ELSE files[c].used
    BY <1>0, <2>1 DEF ShapeInv
  <2> QED
    BY <1>0, <1>6, <2>1, <2>2 DEF SnapshotInv
<1>8. CASE Coll!Prune
  <2>1. /\ step = "prune" /\ step' = "answered"
        /\ UNCHANGED <<now, input, previous, current, skipped, answer>>
    BY <1>8 DEF Coll!Prune, Coll!SaveFixed
  <2>2. answer.cursor \in DOMAIN files /\ ~Coll!Expired(answer.cursor)
    BY <1>0, <2>1 DEF SnapshotInv, Coll!Expired
  <2>3. answer.cursor \in DOMAIN files' /\ files'[answer.cursor] = files[answer.cursor]
    BY <1>8, <2>2 DEF Coll!Prune, Coll!Restrict
  <2> QED
    BY <1>0, <1>6, <2>1, <2>3 DEF SnapshotInv
<1>9. CASE Coll!Compute
  <2> DEFINE c == IF Coll!Unchanged THEN input ELSE calls
             n == Coll!NextItems
  <2>1. /\ step = "compute" /\ answer'.cursor = c
        /\ files' = IF Coll!Unchanged THEN files ELSE Coll!Put(files, c, [items |-> n, used |-> now])
        /\ step' = IF input = None THEN "prune" ELSE "touch"
        /\ UNCHANGED <<now, input, previous, current, skipped>>
    BY <1>9 DEF Coll!Compute, Coll!SaveFixed
  <2>2. n' = n
    BY <1>6, <2>1
  <2>3. CASE Coll!Unchanged
    <3>1. input # None /\ n = previous /\ c = input /\ input = cursor /\ previous = view
      BY <1>0, <2>1, <2>3 DEF Coll!Unchanged, CallerInv
    <3>2. input \in DOMAIN files
      BY <2>1, <3>1 DEF SnapshotInv
    <3>3. files[input].items = n
      BY <1>0, <3>1, <3>2 DEF Coll!ViewIsSnapshot
    <3> HIDE DEF c
    <3> QED
      BY <1>0, <2>1, <2>2, <2>3, <3>1, <3>2, <3>3 DEF SnapshotInv
  <2>4. CASE ~Coll!Unchanged
    <3>1. /\ DOMAIN files' = DOMAIN files \cup {c}
          /\ files'[c].items = n /\ files'[c].used = now
      BY <2>1, <2>4 DEF Coll!Put
    <3>2. input # None => input \in DOMAIN files
      BY <2>1 DEF SnapshotInv
    <3> HIDE DEF c
    <3> QED
      BY <1>0, <2>1, <2>2, <3>1, <3>2 DEF SnapshotInv
  <2> QED
    BY <2>3, <2>4
<1>10. CASE Coll!Outside \/ UNCHANGED Coll!vars
  <2>1. UNCHANGED <<step, files, now, input, previous, current, skipped, answer>>
    BY <1>10 DEF Coll!Outside, Coll!Arrive, Coll!Delete, Coll!Post, Coll!SelectOther, Coll!Leaves,
       Coll!Edit, Coll!Change, Coll!vars, Coll!scan
  <2> QED
    BY <1>6, <2>1 DEF SnapshotInv
<1> QED
  BY <1>1, <1>2, <1>3, <1>4, <1>5, <1>7, <1>8, <1>9, <1>10 DEF Coll!Next, Coll!Saves

\* What was noted of a child stays so while the feeds change, and what is new is noted.
LEMMA Renewing ==
    ASSUME FeedInv, FeedInv', Coll!Change, step # "idle", failed = FALSE, skipped' = skipped,
           NEW c \in pupils', pupils' \subseteq pupils
    PROVE  /\ Noted("child", "child", c, 1) => Noted("child", "child", c, 1)'
           /\ PlainNoted(c, "timetable") => PlainNoted(c, "timetable")'
           /\ PlainNoted(c, "notification") => PlainNoted(c, "notification")'
           /\ \A m \in Coll!Range(mail'[c]) :
                  (m \in Coll!Range(mail[c]) => MailNoted(c, m)) => MailNoted(c, m)'
<1> DEFINE old == fresh \cup Coll!Pairs(current)
           new == fresh' \cup Coll!Pairs(current')
<1>1. /\ fresh' = fresh \cup (ShowsNow' \ ShowsNow) /\ current' = current
      /\ old \subseteq new /\ ShowsNow' \ ShowsNow \subseteq new
  BY Recorded
<1>2. ASSUME NEW k \in Coll!Plain, PlainNoted(c, k)
      PROVE  PlainNoted(c, k)'
  <2> DEFINE p == <<<<k, k, c>>, board'[c][k]>>
  <2>0. k \in {"timetable", "notification"}
    BY DEF Coll!Plain
  <2>1. CASE board'[c][k] > 0 /\ p \in ShowsNow
    <3>1. board[c][k] = board'[c][k] /\ board[c][k] > 0
      BY <2>0, <2>1, Showing DEF ShowsNow
    <3> QED
      BY <1>1, <1>2, <3>1 DEF PlainNoted, Noted
  <2>2. CASE board'[c][k] > 0 /\ p \notin ShowsNow
    <3>1. p \in ShowsNow'
      BY <2>2, Showing DEF ShowsNow
    <3>2. p \in new
      BY <1>1, <2>2, <3>1
    <3> QED
      BY <3>2 DEF PlainNoted, Noted
  <2>3. CASE ~(board'[c][k] > 0)
    <3>1. board'[c][k] \in {0, 1}
      BY DEF FeedInv
    <3> QED
      BY <2>3, <3>1 DEF PlainNoted
  <2> QED
    BY <2>1, <2>2, <2>3
<1>3. ASSUME NEW m \in Coll!Range(mail'[c]), m \in Coll!Range(mail[c]) => MailNoted(c, m)
      PROVE  MailNoted(c, m)'
  <2> DEFINE p == <<<<"message", m, c>>, body'[m]>>
  <2>1. p \in ShowsNow'
    BY Showing DEF ShowsNow
  <2>2. CASE p \in ShowsNow
    <3>1. m \in Coll!Range(mail[c]) /\ body[m] = body'[m]
      BY <2>2, Showing DEF ShowsNow, Coll!Plain
    <3> QED
      BY <1>1, <1>3, <3>1 DEF MailNoted, Noted
  <2>3. CASE p \notin ShowsNow
    BY <1>1, <2>1, <2>3 DEF MailNoted, Noted
  <2> QED
    BY <2>2, <2>3
<1>4. Noted("child", "child", c, 1) => Noted("child", "child", c, 1)'
  BY <1>1 DEF Noted
<1> QED
  BY <1>2, <1>3, <1>4 DEF Coll!Plain

\* So is what was noted of a folder, whose messages an arrival moves by one place.
LEMMA FolderRenewed ==
    ASSUME FeedInv, FeedInv', Coll!Change, step # "idle", failed = FALSE, skipped' = skipped,
           NEW c \in pupils', pupils' \subseteq pupils
    PROVE  FolderNoted(c) => FolderNoted(c)'
<1>1. /\ c \in Children /\ mail[c] \in Seq(Message) /\ mail'[c] \in Seq(Message)
  BY DEF FeedInv
<1>2. ASSUME NEW i \in 1..Len(mail'[c]), NEW m, m = mail'[c][i],
             \A j \in 1..Len(mail[c]) : MailNoted(c, mail[c][j])
      PROVE  MailNoted(c, m)'
  <2>1. m \in Coll!Range(mail'[c])
    BY <1>1, <1>2, Places
  <2>2. m \in Coll!Range(mail[c]) => MailNoted(c, m)
    BY <1>1, <1>2, Places
  <2> QED
    BY <2>1, <2>2, Renewing
<1> QED
  BY <1>2 DEF FolderNoted, MailNoted, Noted

LEMMA PagesRenewed ==
    ASSUME FeedInv, FeedInv', PlaceInv, Coll!Change, step # "idle", failed = FALSE, skipped' = skipped,
           NEW c \in pupils', pupils' \subseteq pupils,
           \/ mail' = mail
           \/ \E x \in Children, m \in Message :
                  m \notin Coll!Range(mail[x]) /\ mail' = [mail EXCEPT ![x] = <<m>> \o @],
           PagesNoted(c)
    PROVE  PagesNoted(c)'
<1>1. /\ c \in Children /\ mail[c] \in Seq(Message) /\ mail'[c] \in Seq(Message) /\ page \in Nat
  BY DEF FeedInv, PlaceInv
<1>2. UNCHANGED <<step, page, todo>>
  BY Recorded
<1>3. \A m \in Coll!Range(mail'[c]) :
          (m \in Coll!Range(mail[c]) => MailNoted(c, m)) => MailNoted(c, m)'
  BY Renewing
<1>4. ASSUME step = "page", NEW i \in 1..Len(mail[c]), i < page
      PROVE  MailNoted(c, mail[c][i])
  BY <1>4 DEF PagesNoted
<1>5. ASSUME step = "message", NEW i \in 1..Len(mail[c]), i <= page \/ ~todo[2]
      PROVE  mail[c][i] = todo[1] \/ MailNoted(c, mail[c][i])
  BY <1>5 DEF PagesNoted
<1>6. ASSUME NEW i \in 1..Len(mail'[c])
      PROVE  \/ i \in 1..Len(mail[c]) /\ mail'[c][i] = mail[c][i]
             \/ mail'[c][i] \notin Coll!Range(mail[c])
             \/ i - 1 \in 1..Len(mail[c]) /\ mail'[c][i] = mail[c][i - 1]
  <2>1. CASE mail'[c] = mail[c]
    BY <2>1
  <2>2. CASE \E m \in Message : m \notin Coll!Range(mail[c]) /\ mail'[c] = <<m>> \o mail[c]
    <3>1. PICK m \in Message : m \notin Coll!Range(mail[c]) /\ mail'[c] = <<m>> \o mail[c]
      BY <2>2
    <3>2. /\ Len(mail'[c]) = Len(mail[c]) + 1 /\ Len(mail[c]) \in Nat
          /\ mail'[c][i] = IF i = 1 THEN m ELSE mail[c][i - 1]
      BY <1>1, <3>1, Arriving
    <3> QED
      BY <3>1, <3>2
  <2> QED
    BY <2>1, <2>2 DEF FeedInv
<1>7. ASSUME NEW i \in 1..Len(mail'[c]), NEW m, m = mail'[c][i],
             \/ step = "page" /\ i < page
             \/ step = "message" /\ (i <= page \/ ~todo[2]) /\ m # todo[1]
      PROVE  MailNoted(c, m)'
  <2>1. m \in Coll!Range(mail'[c])
    BY <1>1, <1>7, Places
  <2>2. CASE i \in 1..Len(mail[c]) /\ mail[c][i] = m
    <3>1. MailNoted(c, m)
      BY <1>4, <1>5, <1>7, <2>2
    <3> QED
      BY <1>3, <2>1, <3>1
  <2>3. CASE m \notin Coll!Range(mail[c])
    BY <1>3, <2>1, <2>3
  <2>4. CASE i - 1 \in 1..Len(mail[c]) /\ mail[c][i - 1] = m
    <3>1. \/ step = "page" /\ i - 1 < page
          \/ step = "message" /\ (i - 1 <= page \/ ~todo[2])
      BY <1>1, <1>7
    <3>2. MailNoted(c, m)
      BY <1>4, <1>5, <1>7, <2>4, <3>1
    <3> QED
      BY <1>3, <2>1, <3>2
  <2> QED
    BY <1>6, <1>7, <2>2, <2>3, <2>4
<1> QED
  BY <1>2, <1>7 DEF PagesNoted, MailNoted, Noted

LEMMA GatherOutside ==
    ASSUME FeedInv, FeedInv', PlaceInv, PlaceInv', GatherInv, Coll!Outside
    PROVE  GatherInv'
<1> USE DEF Answering, Coll!Scanning, Coll!Restoring
<1>1. /\ Coll!Change /\ pupils' \subseteq pupils
      /\ selected' = selected \/ meddled = "no" \/ pupils' # pupils
      /\ deleted' # FALSE \/ step = "idle" \/ deleted' = deleted
      /\ \/ mail' = mail
         \/ \E x \in Children, m \in Message :
                m \notin Coll!Range(mail[x]) /\ mail' = [mail EXCEPT ![x] = <<m>> \o @]
         \/ step = "idle" \/ deleted' = TRUE
  BY DEF Coll!Outside, Coll!Arrive, Coll!Delete, Coll!Post, Coll!SelectOther, Coll!Leaves,
     Coll!Edit, Coll!Meddle, Coll!account, Coll!school
<1> SUFFICES ASSUME Working', ~Astray'
             PROVE  /\ Coll!Pairs(current') \subseteq ShowsNow' \cup gone'
                    /\ deleted' = FALSE =>
                          /\ \A c \in pupils' \ Coll!Range(left') : AllNoted(c)'
                          /\ step' \in Feeding => SoFar(Head(left))'
  BY DEF GatherInv
<1>2. UNCHANGED <<step, initial, left, current, skipped, page, todo, failed>>
  BY <1>1 DEF Coll!Change, Coll!scan, Coll!folder
<1>3. Working /\ step # "idle" /\ failed = FALSE
  BY <1>2 DEF Working
<1>4. ~Astray
  BY <1>1, <1>2, <1>3 DEF Astray, PlaceInv, Feeding
<1>5. Coll!Pairs(current') \subseteq ShowsNow' \cup gone'
  BY <1>1, <1>2, <1>3, <1>4, Recorded DEF GatherInv
<1>6. ASSUME deleted' = FALSE, NEW c \in pupils' \ Coll!Range(left')
      PROVE  AllNoted(c)'
  <2>1. AllNoted(c)
    BY <1>1, <1>2, <1>3, <1>4, <1>6 DEF GatherInv
  <2> QED
    BY <1>1, <1>2, <1>3, <2>1, Renewing, FolderRenewed DEF AllNoted
<1>7. ASSUME deleted' = FALSE, step' \in Feeding
      PROVE  SoFar(Head(left))'
  <2>1. left' = left /\ left # <<>> /\ left \in Seq(Children) /\ step' = step
    BY <1>2, <1>7 DEF PlaceInv, Feeding
  <2>2. Head(left) \in pupils'
    <3>1. Head(left) \in Coll!Range(left)
      BY <2>1, Leaving
    <3> QED
      BY <1>2, <1>3, <1>7, <3>1 DEF Astray, PlaceInv, Feeding
  <2> DEFINE h == Head(left)
  <2>3. SoFar(h)
    BY <1>1, <1>2, <1>3, <1>4, <1>7, <2>1 DEF GatherInv
  <2>4. "message" \in skipped \/ PagesNoted(h)'
    BY <1>1, <1>2, <1>3, <1>7, <2>2, <2>3, PagesRenewed DEF SoFar
  <2>5. SoFar(h)'
    BY <1>1, <1>2, <1>3, <2>1, <2>2, <2>3, <2>4, Renewing, FolderRenewed DEF SoFar
  <2> QED
    BY <2>1, <2>5
<1> QED
  BY <1>5, <1>6, <1>7

\* A step of the scan that is not astray afterwards was not before, and adds one item
\* of the child at work, or none.
LEMMA Adds ==
    ASSUME PlaceInv, Coll!Scans, ~Coll!GiveUp, ~Astray'
    PROVE  /\ ~Astray /\ pupils = initial /\ skipped \subseteq skipped'
           /\ \/ current' = current
              \/ \E kind, id, v : Coll!Add(kind, id, v) /\ left # <<>>
<1> USE DEF Coll!Scanning, Coll!Plain, Feeding
<1>1. /\ step \in Coll!Scanning /\ UNCHANGED <<pupils, initial>>
      /\ step' \in Feeding \cup {"select"} => left' = left
      /\ step' \in Feeding => selected' = Head(left) \/ (step \in Feeding /\ selected' = selected)
  BY Proceeding
<1>2. \/ step \in Feeding /\ step' \in Feeding /\ selected' = selected
      \/ step \in Feeding /\ pupils = initial /\ selected = Head(left)
      \/ step \in {"child", "select"} /\ pupils = initial
  BY DEF Coll!Scans, Coll!VisitChild, Coll!EndScan, Coll!SelectChild, Coll!SelectUnanswered,
     Coll!ReadPage, Coll!ReadMessage, Coll!ConfirmChild, Coll!RequestFails, Coll!ReadPlain,
     Coll!Fail, Coll!TurnPage, Coll!Confirmed, Coll!account
<1>3. ~Astray /\ pupils = initial
  BY <1>1, <1>2 DEF Astray
<1>4. /\ skipped \subseteq skipped'
      /\ current' = current \/ \E kind, id, v : Coll!Add(kind, id, v)
  <2>1. CASE Coll!VisitChild \/ Coll!SelectChild \/ Coll!ReadMessage
    BY <2>1 DEF Coll!VisitChild, Coll!SelectChild, Coll!ReadMessage, Coll!Fail
  <2>2. CASE \E k \in Coll!Plain : Coll!ReadPlain(k)
    BY <2>2 DEF Coll!ReadPlain
  <2>3. CASE Coll!EndScan \/ Coll!SelectUnanswered \/ Coll!ReadPage \/ Coll!ConfirmChild
             \/ Coll!RequestFails
    BY <2>3 DEF Coll!EndScan, Coll!SelectUnanswered, Coll!ReadPage, Coll!ConfirmChild,
       Coll!RequestFails, Coll!Fail
  <2> QED
    BY <2>1, <2>2, <2>3 DEF Coll!Scans
<1>5. current' = current \/ left # <<>>
  BY DEF Coll!Scans, Coll!VisitChild, Coll!EndScan, Coll!SelectChild, Coll!SelectUnanswered,
     Coll!ReadPage, Coll!ReadMessage, Coll!ConfirmChild, Coll!RequestFails, Coll!ReadPlain,
     Coll!Fail, PlaceInv
<1> QED
  BY <1>3, <1>4, <1>5

\* What was noted of another child, or of this one under another name, stays so.
LEMMA StaysNoted ==
    ASSUME NEW kind, NEW id, NEW v, Coll!Add(kind, id, v), fresh' = fresh,
           UNCHANGED <<body, mail, board>>, skipped \subseteq skipped', NEW c
    PROVE  /\ c # Head(left) /\ AllNoted(c) => AllNoted(c)'
           /\ \A k, i, w : /\ Noted(k, i, c, w)
                           /\ <<k, i, c>> = <<kind, id, Head(left)>> => w = v
                           => Noted(k, i, c, w)'
<1>1. \A k, i, w : /\ Noted(k, i, c, w)
                   /\ <<k, i, c>> = <<kind, id, Head(left)>> => w = v
                   => Noted(k, i, c, w)'
  BY Adding DEF Noted
<1>2. ASSUME c # Head(left), NEW k, NEW i, NEW w, Noted(k, i, c, w)
      PROVE  Noted(k, i, c, w)'
  BY <1>1, <1>2
<1>3. ASSUME c # Head(left), AllNoted(c)
      PROVE  AllNoted(c)'
  <2>1. Noted("child", "child", c, 1)'
    BY <1>2, <1>3 DEF AllNoted
  <2>2. FolderNoted(c)'
    <3>1. \A m : MailNoted(c, m) => MailNoted(c, m)'
      BY <1>2, <1>3 DEF MailNoted
    <3> QED
      BY <1>3, <3>1 DEF AllNoted, FolderNoted
  <2>3. \A k : PlainNoted(c, k) => PlainNoted(c, k)'
    BY <1>2, <1>3 DEF PlainNoted
  <2> QED
    BY <1>3, <2>1, <2>2, <2>3 DEF AllNoted
<1> QED
  BY <1>1, <1>3

\* The child at work is the one that is selected, once its feeds are read.
LEMMA ChildAtWork ==
    ASSUME PlaceInv, step \in Coll!Scanning, ~Astray, pupils = initial, left # <<>>
    PROVE  /\ Head(left) \in pupils /\ Head(left) \in Coll!Range(left)
           /\ step \in Feeding => selected = Head(left)
<1>1. left \in Seq(Children) /\ Coll!Range(left) \subseteq initial
  BY DEF PlaceInv
<1>2. Head(left) \in Coll!Range(left)
  BY <1>1, Leaving
<1> QED
  BY <1>1, <1>2 DEF Astray

\* What a scan adds is shown.
LEMMA AddsShown ==
    ASSUME FeedInv, PlaceInv, Coll!Scans, ~Coll!GiveUp, ~Astray'
    PROVE  Coll!Pairs(current') \subseteq Coll!Pairs(current) \cup ShowsNow
<1> DEFINE h == Head(left)
<1>1. step \in Coll!Scanning /\ ~Astray /\ pupils = initial /\ fresh' = fresh
  BY Adds, Proceeding
<1>2. ASSUME NEW kind, NEW id, NEW v, Coll!Add(kind, id, v), <<<<kind, id, h>>, v>> \in ShowsNow
      PROVE  Coll!Pairs(current') \subseteq Coll!Pairs(current) \cup ShowsNow
  BY <1>1, <1>2, Adding
<1>3. left # <<>> => h \in pupils /\ (step \in Feeding => selected = h)
  BY <1>1, ChildAtWork
<1>4. CASE Coll!VisitChild \/ Coll!SelectChild
  <2>1. current' = current \/ (Coll!Add("child", "child", 1) /\ left # <<>>)
    BY <1>4 DEF Coll!VisitChild, Coll!SelectChild, Coll!Fail, PlaceInv
  <2>2. left # <<>> => <<<<"child", "child", h>>, 1>> \in ShowsNow
    BY <1>3, Showing DEF ShowsNow
  <2> QED
    BY <1>2, <2>1, <2>2
<1>5. ASSUME NEW k \in Coll!Plain, Coll!ReadPlain(k)
      PROVE  Coll!Pairs(current') \subseteq Coll!Pairs(current) \cup ShowsNow
  <2>1. step \in Feeding /\ left # <<>>
    BY <1>5 DEF Coll!ReadPlain, Coll!Plain, Feeding, PlaceInv
  <2>2. \/ current' = current
        \/ board[selected][k] > 0 /\ Coll!Add(k, k, board[selected][k])
    BY <1>5 DEF Coll!ReadPlain
  <2>3. board[h][k] > 0 => <<<<k, k, h>>, board[h][k]>> \in ShowsNow
    BY <1>3, <2>1, Showing DEF ShowsNow
  <2> QED
    BY <1>2, <1>3, <2>1, <2>2, <2>3
<1>6. CASE Coll!ReadMessage
  <2>1. step \in Feeding /\ left # <<>>
    BY <1>6 DEF Coll!ReadMessage, Feeding, PlaceInv
  <2>2. /\ todo[1] \in Coll!Range(mail[selected])
        /\ Coll!Add("message", todo[1], body[todo[1]])
    BY <1>6 DEF Coll!ReadMessage, Coll!Fail
  <2>3. <<<<"message", todo[1], h>>, body[todo[1]]>> \in ShowsNow
    BY <1>3, <2>1, <2>2, Showing DEF ShowsNow
  <2> QED
    BY <1>2, <2>2, <2>3
<1>7. CASE Coll!EndScan \/ Coll!SelectUnanswered \/ Coll!ReadPage \/ Coll!ConfirmChild
           \/ Coll!RequestFails
  BY <1>7 DEF Coll!EndScan, Coll!SelectUnanswered, Coll!ReadPage, Coll!ConfirmChild,
     Coll!RequestFails, Coll!Fail
<1> QED
  BY <1>4, <1>5, <1>6, <1>7 DEF Coll!Scans

\* A step of the scan, for the child c at work.
LEMMA SoFarStep ==
    ASSUME FeedInv, PlaceInv, Coll!Scans, ~Coll!GiveUp, ~Astray', step' \in Feeding,
           NEW c, c = Head(left), step \in Feeding => SoFar(c)
    PROVE  SoFar(c)'
<1> USE DEF Feeding
<1>0. /\ step \in Coll!Scanning /\ ~Astray /\ pupils = initial /\ left # <<>> /\ skipped \subseteq skipped'
      /\ UNCHANGED <<fresh, body, mail, board>>
  BY Adds, Proceeding DEF PlaceInv
<1>1. /\ c \in pupils /\ (step \in Feeding => selected = c) /\ page \in Nat
      /\ mail[c] \in Seq(Message) /\ Len(mail[c]) \in Nat
  <2>1. c \in pupils /\ (step \in Feeding => selected = c)
    BY <1>0, ChildAtWork
  <2>2. page \in Nat /\ mail[c] \in Seq(Message)
    BY <2>1 DEF FeedInv, PlaceInv
  <2> QED
    BY <2>1, <2>2
<1>2. ASSUME NEW kind, NEW id, NEW v, Coll!Add(kind, id, v)
      PROVE  /\ Noted(kind, id, c, v)'
             /\ \A k, i, w : Noted(k, i, c, w) /\ (<<k, i>> = <<kind, id>> => w = v) => Noted(k, i, c, w)'
  <2>1. Noted(kind, id, c, v)'
    BY <1>0, <1>2, Adding DEF Noted
  <2>2. \A k, i, w : Noted(k, i, c, w) /\ (<<k, i, c>> = <<kind, id, Head(left)>> => w = v)
                     => Noted(k, i, c, w)'
    BY <1>0, <1>2, StaysNoted
  <2> QED
    BY <2>1, <2>2
<1>3. CASE Coll!VisitChild \/ Coll!SelectChild
  <2>1. Coll!Add("child", "child", 1) /\ step' = "timetable"
    BY <1>3 DEF Coll!VisitChild, Coll!SelectChild, Coll!Fail
  <2>2. Noted("child", "child", c, 1)'
    BY <1>2, <2>1
  <2> QED
    BY <2>1, <2>2 DEF SoFar, PagesNoted
<1>4. CASE step \notin {"child", "select"}
  <2>0. step \in Feeding /\ selected = c /\ SoFar(c)
    BY <1>0, <1>1, <1>4 DEF Coll!Scanning
  <2>1. CASE Coll!ReadPlain("timetable")
    <3>1. /\ step' = "page" /\ page' = 1
          /\ \/ board[c]["timetable"] = 0 /\ current' = current
             \/ Coll!Add("timetable", "timetable", board[c]["timetable"])
             \/ "timetable" \in skipped' /\ current' = current
      BY <1>1, <2>0, <2>1 DEF Coll!ReadPlain, FeedInv, Coll!Plain
    <3>2. Noted("child", "child", c, 1)' /\ PlainNoted(c, "timetable")'
      BY <1>0, <1>2, <2>0, <3>1 DEF SoFar, PlainNoted, Noted
    <3>3. PagesNoted(c)'
      BY <1>0, <1>1, <3>1 DEF PagesNoted
    <3> QED
      BY <3>1, <3>2, <3>3 DEF SoFar
  <2>2. CASE Coll!ReadPlain("notification")
    <3>1. /\ step = "notification" /\ step' = "confirm"
          /\ \/ board[c]["notification"] = 0 /\ current' = current
             \/ Coll!Add("notification", "notification", board[c]["notification"])
             \/ "notification" \in skipped' /\ current' = current
      BY <1>1, <2>0, <2>2 DEF Coll!ReadPlain, FeedInv, Coll!Plain
    <3>2. /\ Noted("child", "child", c, 1) /\ PlainNoted(c, "timetable") /\ FolderNoted(c)
      BY <2>0, <3>1 DEF SoFar
    <3>3. Noted("child", "child", c, 1)' /\ PlainNoted(c, "notification")'
      BY <1>0, <1>2, <3>1, <3>2 DEF PlainNoted, Noted
    <3>4. PlainNoted(c, "timetable")'
      BY <1>0, <1>2, <3>1, <3>2 DEF PlainNoted, Noted
    <3>5. FolderNoted(c)'
      <4>1. \A m : MailNoted(c, m) => MailNoted(c, m)'
        BY <1>0, <1>2, <3>1 DEF MailNoted, Noted
      <4> QED
        BY <1>0, <3>2, <4>1 DEF FolderNoted
    <3> QED
      BY <3>1, <3>3, <3>4, <3>5 DEF SoFar, PagesNoted
  <2>3. CASE Coll!ReadPage
    <3>1. step = "page" /\ current' = current
      BY <2>3 DEF Coll!ReadPage, Coll!Fail
    <3>2. /\ Noted("child", "child", c, 1)' /\ PlainNoted(c, "timetable")'
      BY <1>0, <2>0, <3>1 DEF SoFar, PlainNoted, Noted
    <3>3. "message" \in skipped \/ \A i \in 1..Len(mail[c]) : i < page => MailNoted(c, mail[c][i])
      BY <2>0, <3>1 DEF SoFar, PagesNoted
    <3>4. \A m : MailNoted(c, m) => MailNoted(c, m)'
      BY <1>0, <3>1 DEF MailNoted, Noted
    <3>5. CASE ~Coll!Listing /\ step' = "notification"
      <4>1. FolderNoted(c)'
        BY <1>0, <1>1, <2>0, <3>3, <3>4, <3>5 DEF FolderNoted, Coll!Listing
      <4> QED
        BY <3>2, <3>5, <4>1 DEF SoFar, PagesNoted
    <3>6. CASE step' = "message" /\ page' = page /\ todo' = <<mail[c][page], Coll!Follows>>
      <4>1. /\ todo'[1] = mail[c][page] /\ (~todo'[2] => ~(Len(mail[c]) > page))
            /\ step' # "page" /\ mail' = mail /\ page' = page
        BY <1>0, <2>0, <3>6 DEF Coll!Follows
      <4>2. ASSUME "message" \notin skipped', NEW i \in 1..Len(mail[c]), i <= page \/ ~todo'[2]
            PROVE  mail[c][i] = todo'[1] \/ MailNoted(c, mail[c][i])'
        <5>1. i <= page
          BY <1>1, <4>1, <4>2
        <5>2. CASE i = page
          BY <4>1, <5>2
        <5>3. CASE i < page
          <6>1. MailNoted(c, mail[c][i])
            BY <1>0, <3>3, <4>2, <5>3
          <6> QED
            BY <1>0, <3>4, <6>1 DEF MailNoted, Noted
        <5> QED
          BY <1>1, <5>1, <5>2, <5>3
      <4>3. "message" \in skipped' \/ PagesNoted(c)'
        BY <4>1, <4>2 DEF PagesNoted, MailNoted, Noted
      <4> QED
        BY <3>2, <3>6, <4>3 DEF SoFar
    <3>7. CASE "message" \in skipped' /\ step' \in {"page", "notification"}
      BY <3>2, <3>7 DEF SoFar, FolderNoted
    <3> QED
      BY <1>0, <2>0, <2>3, <3>5, <3>6, <3>7 DEF Coll!ReadPage, Coll!Fail, Coll!TurnPage
  <2>4. CASE Coll!ReadMessage
    <3> DEFINE id == todo[1]
    <3>1. /\ step = "message" /\ Coll!Add("message", id, body[id]) /\ skipped' = skipped
          /\ \/ step' = "page" /\ page' = page + 1
             \/ step' = "notification" /\ ~todo[2]
      BY <2>4 DEF Coll!ReadMessage, Coll!Fail, Coll!TurnPage
    <3>2. Noted("child", "child", c, 1)'
      BY <1>2, <2>0, <3>1 DEF SoFar
    <3>3. PlainNoted(c, "timetable")'
      BY <1>0, <1>2, <2>0, <3>1 DEF SoFar, PlainNoted
    <3>4. \A m : MailNoted(c, m) \/ m = id => MailNoted(c, m)'
      BY <1>0, <1>2, <3>1 DEF MailNoted
    <3>5. "message" \in skipped \/ \A i \in 1..Len(mail[c]) :
              i <= page \/ ~todo[2] => mail[c][i] = id \/ MailNoted(c, mail[c][i])
      BY <2>0, <3>1 DEF SoFar, PagesNoted
    <3> HIDE DEF id
    <3>6. CASE step' = "page" /\ page' = page + 1
      <4>1. "message" \in skipped \/ PagesNoted(c)'
        BY <1>0, <1>1, <3>4, <3>5, <3>6 DEF PagesNoted
      <4> QED
        BY <3>1, <3>2, <3>3, <3>6, <4>1 DEF SoFar
    <3>7. CASE step' = "notification" /\ ~todo[2]
      <4>1. FolderNoted(c)'
        BY <1>0, <3>1, <3>4, <3>5, <3>7 DEF FolderNoted
      <4> QED
        BY <3>2, <3>3, <3>7, <4>1 DEF SoFar, PagesNoted
    <3> QED
      BY <3>1, <3>6, <3>7
  <2> QED
    BY <1>4, <2>1, <2>2, <2>3, <2>4 DEF Coll!Scans, Coll!VisitChild, Coll!EndScan, Coll!SelectChild,
       Coll!SelectUnanswered, Coll!ConfirmChild, Coll!RequestFails, Coll!Fail, Coll!Plain
<1>5. CASE step \in {"child", "select"} /\ ~(Coll!VisitChild \/ Coll!SelectChild)
  BY <1>5 DEF Coll!Scans, Coll!EndScan, Coll!SelectUnanswered, Coll!ReadPage, Coll!ReadMessage,
     Coll!ConfirmChild, Coll!RequestFails, Coll!ReadPlain, Coll!Fail, Coll!Plain
<1> QED
  BY <1>3, <1>4, <1>5


\* A step of the scan keeps what was gathered true and whole, unless it gives it up.
LEMMA GatherScan ==
    ASSUME FeedInv, PlaceInv, PlaceInv', GatherInv, Coll!Scans
    PROVE  GatherInv'
<1> USE DEF Coll!Scanning, Coll!Restoring, Answering
<1>1. CASE Coll!GiveUp
  BY <1>1, GivingUp DEF GatherInv, Working
<1>2. CASE ~Coll!GiveUp
  <2> SUFFICES ASSUME Working', ~Astray'
               PROVE  /\ Coll!Pairs(current') \subseteq ShowsNow' \cup gone'
                      /\ deleted' = FALSE =>
                            /\ \A c \in pupils' \ Coll!Range(left') : AllNoted(c)'
                            /\ step' \in Feeding => SoFar(Head(left))'
    BY DEF GatherInv
  <2>1. /\ step \in Coll!Scanning /\ ~Astray /\ pupils = initial /\ skipped \subseteq skipped'
        /\ UNCHANGED <<pupils, mail, body, board, fresh, gone, deleted>> /\ failed = FALSE
    BY <1>2, Adds, Proceeding DEF PlaceInv
  <2>2. Working
    BY <2>1 DEF Working
  <2>3. Coll!Pairs(current) \subseteq ShowsNow \cup gone
    BY <2>1, <2>2 DEF GatherInv
  <2>4. ShowsNow' = ShowsNow
    BY <2>1 DEF ShowsNow, Coll!Shows, Coll!Items
  <2>5. Coll!Pairs(current') \subseteq ShowsNow' \cup gone'
    BY <1>2, <2>1, <2>3, <2>4, AddsShown
  <2>6. ASSUME deleted' = FALSE
        PROVE  /\ \A c \in pupils \ Coll!Range(left) : AllNoted(c)
               /\ step \in Feeding => SoFar(Head(left))
    BY <2>1, <2>2, <2>6 DEF GatherInv
  <2>7. ASSUME NEW c \in pupils, c # Head(left) \/ left = <<>> \/ current' = current, AllNoted(c)
        PROVE  AllNoted(c)'
    <3>1. CASE current' = current
      BY <2>1, <2>7, <3>1 DEF AllNoted, FolderNoted, PlainNoted, MailNoted, Noted
    <3>2. CASE current' # current
      <4>1. PICK kind, id, v : Coll!Add(kind, id, v) /\ left # <<>>
        BY <1>2, <3>2, Adds
      <4> QED
        BY <2>1, <2>7, <3>2, <4>1, StaysNoted
    <3> QED
      BY <3>1, <3>2
  <2>8. ASSUME deleted' = FALSE, NEW c \in pupils' \ Coll!Range(left')
        PROVE  AllNoted(c)'
    <3>1. CASE c \notin Coll!Range(left)
      <4>1. c # Head(left) \/ left = <<>>
        BY <2>1, <3>1, ChildAtWork
      <4> QED
        BY <2>1, <2>6, <2>7, <2>8, <3>1, <4>1
    <3>2. CASE c \in Coll!Range(left)
      <4>1. step = "confirm" /\ step' = "child" /\ left' = Tail(left) /\ left \in Seq(Children)
        BY <1>2, <2>8, <3>2, Proceeding DEF PlaceInv
      <4>2. left # <<>> /\ c = Head(left)
        BY <2>8, <3>2, <4>1, Leaving DEF PlaceInv, Feeding
      <4>3. SoFar(c)
        BY <2>6, <2>8, <4>1, <4>2 DEF Feeding
      <4>4. AllNoted(c)
        BY <4>1, <4>3 DEF SoFar, AllNoted
      <4>5. current' = current
        BY <1>2, <4>1 DEF Coll!Scans, Coll!VisitChild, Coll!EndScan, Coll!SelectChild,
           Coll!SelectUnanswered, Coll!ReadPage, Coll!ReadMessage, Coll!ConfirmChild,
           Coll!RequestFails, Coll!ReadPlain, Coll!Fail, Coll!Plain
      <4> QED
        BY <2>1, <2>7, <2>8, <4>4, <4>5
    <3> QED
      BY <3>1, <3>2
  <2>9. ASSUME deleted' = FALSE, step' \in Feeding
        PROVE  SoFar(Head(left))'
    <3>1. left' = left
      BY <1>2, <2>9, Proceeding
    <3>2. PICK h : h = Head(left)
      OBVIOUS
    <3>3. step \in Feeding => SoFar(h)
      BY <2>6, <2>9, <3>2
    <3>4. SoFar(h)'
      BY <1>2, <2>9, <3>2, <3>3, SoFarStep
    <3>5. Head(left') = h
      BY <3>1, <3>2
    <3> QED
      BY <3>4, <3>5 DEF SoFar, FolderNoted, PlainNoted, PagesNoted, MailNoted, Noted
  <2> QED
    BY <2>5, <2>8, <2>9
<1> QED
  BY <1>1, <1>2

\* Between two scans nothing is gathered, and afterwards it is kept until it is answered.
LEMMA GatherRest ==
    ASSUME Coll!CollectionAssumption, CollInv, FeedInv, PlaceInv, PlaceInv', GatherInv,
           Coll!Call \/ Coll!RefuseCursor \/ Coll!Restores \/ Coll!Saves \/ Coll!TakeAnswer
              \/ Coll!LoseAnswer \/ Coll!Tick \/ UNCHANGED Coll!vars
    PROVE  GatherInv'
<1> USE DEF Coll!Scanning, Coll!Restoring, Answering
<1>1. CASE Coll!Call
  <2>1. /\ step = "idle" /\ step' = "child" /\ left' = Listed[pupils]
        /\ UNCHANGED <<pupils, current>>
    BY <1>1 DEF Coll!Call, Coll!account
  <2>2. Coll!Range(left') = pupils
    BY <2>1 DEF Coll!CollectionAssumption, FeedInv
  <2>3. Coll!Pairs(current') = {}
    BY <2>1 DEF PlaceInv, Coll!Pairs, Coll!Empty
  <2> QED
    BY <2>1, <2>2, <2>3 DEF GatherInv, Feeding
<1>2. CASE Coll!RefuseCursor \/ Coll!TakeAnswer \/ Coll!LoseAnswer \/ Coll!Tick
  <2>1. step' = "idle"
    BY <1>2 DEF Coll!RefuseCursor, Coll!TakeAnswer, Coll!LoseAnswer, Coll!Forget, Coll!Tick
  <2> QED
    BY <2>1 DEF GatherInv, Working
<1>3. CASE Coll!SavingFails
  <2>1. step' = "failed"
    BY <1>3 DEF Coll!SavingFails
  <2> QED
    BY <2>1 DEF GatherInv, Working
<1>4. CASE Coll!Restores \/ Coll!Compute \/ Coll!Touch \/ Coll!Prune \/ UNCHANGED Coll!vars
  <2> SUFFICES ASSUME Working'
               PROVE  GatherInv'
    BY DEF GatherInv
  <2>1. UNCHANGED <<pupils, mail, body, board, left, current, skipped, failed, fresh, gone, deleted>>
    BY <1>4 DEF Coll!Restores, Coll!Restore, Coll!Reselect, Coll!Verify, Coll!RestoreFails,
       Coll!RestoreFixed, Coll!Compute, Coll!Touch, Coll!Prune, Coll!SaveFixed, Coll!vars,
       Coll!school, Coll!account, Coll!scan, Coll!shown
  <2>2. \/ UNCHANGED <<step, selected, initial, page, todo>>
        \/ /\ step \in Coll!Restoring \cup {"compute"} \cup Answering
           /\ step' \notin Coll!Scanning
    BY <1>4 DEF Coll!Restores, Coll!Restore, Coll!Reselect, Coll!Verify, Coll!RestoreFails,
       Coll!Restored, Coll!Compute, Coll!Touch, Coll!Prune, Coll!vars, Coll!account, Coll!scan,
       Coll!folder
  <2>3. ShowsNow' = ShowsNow
    BY <2>1 DEF ShowsNow, Coll!Shows, Coll!Items
  <2>4. CASE UNCHANGED <<step, selected, initial, page, todo>>
    BY <2>1, <2>3, <2>4 DEF GatherInv, Working, Astray, AllNoted, SoFar, FolderNoted, PlainNoted,
       PagesNoted, MailNoted, Noted
  <2>5. CASE /\ step \in Coll!Restoring \cup {"compute"} \cup Answering
             /\ step' \notin Coll!Scanning
    <3>1. Working /\ ~Astray
      BY <2>1, <2>5 DEF Working, Astray
    <3>2. /\ Coll!Pairs(current) \subseteq ShowsNow \cup gone
          /\ deleted = FALSE => \A c \in pupils \ Coll!Range(left) : AllNoted(c)
      BY <3>1 DEF GatherInv
    <3>3. \A c : AllNoted(c) => AllNoted(c)'
      BY <2>1 DEF AllNoted, FolderNoted, PlainNoted, MailNoted, Noted
    <3> QED
      BY <2>1, <2>3, <2>5, <3>2, <3>3 DEF GatherInv, Feeding
  <2> QED
    BY <2>2, <2>4, <2>5
<1> QED
  BY <1>1, <1>2, <1>3, <1>4 DEF Coll!Saves

LEMMA WholeInit ==
    ASSUME Coll!CollectionAssumption, Coll!Init
    PROVE  WholeInv
<1>1. /\ pupils = Children /\ mail = FirstMail /\ body = [m \in Message |-> 1]
      /\ board = [c \in Children |-> [k \in Coll!Plain |-> IF k = "timetable" THEN 1 ELSE 0]]
      /\ now = 0 /\ step = "idle" /\ current = Coll!Empty /\ failed = FALSE /\ page = 0
      /\ left = <<>>
  BY DEF Coll!Init
<1>2. FeedInv
  BY <1>1 DEF FeedInv, Coll!CollectionAssumption
<1>3. PlaceInv /\ GatherInv /\ SnapshotInv
  BY <1>1 DEF PlaceInv, GatherInv, SnapshotInv, Working, Feeding, Answering, Coll!Scanning,
     Coll!Restoring
<1> QED
  BY <1>2, <1>3 DEF WholeInv

LEMMA WholeStep ==
    ASSUME Coll!CollectionAssumption, CollInv, WholeInv, [Coll!Next]_(Coll!vars)
    PROVE  WholeInv'
<1>1. FeedInv' /\ PlaceInv' /\ SnapshotInv'
  BY FeedStep, PlaceStep, SnapshotStep DEF WholeInv
<1>2. GatherInv'
  BY <1>1, GatherOutside, GatherScan, GatherRest DEF WholeInv, Coll!Next
<1> QED
  BY <1>1, <1>2 DEF WholeInv

\* What is answered is what was gathered.
LEMMA Answered ==
    ASSUME CollInv, WholeInv
    PROVE  ScanIsTrue
<1> SUFFICES ASSUME step = "answered"
             PROVE  LET got   == {p \in Coll!Pairs(files[answer.cursor].items) : p[1][1] \notin skipped}
                        shows == {p \in ShowsNow : p[1][1] \notin skipped}
                    IN  got \subseteq shows \cup gone /\ (~deleted => shows \ fresh \subseteq got)
  BY DEF ScanIsTrue, Coll!ScanIsTrue, ShowsNow
<1> DEFINE n == Coll!NextItems
<1>1. files[answer.cursor].items = n
  BY DEF WholeInv, SnapshotInv, Answering
<1>2. Working /\ ~Astray /\ left = <<>>
  BY DEF WholeInv, PlaceInv, CollInv, CallerInv, Working, Astray, Answering, Coll!Scanning
<1>3. /\ Coll!Pairs(current) \subseteq ShowsNow \cup gone
      /\ deleted = FALSE => \A c \in pupils : AllNoted(c)
  <2>1. Coll!Range(left) = {}
    BY <1>2 DEF Coll!Range
  <2> QED
    BY <1>2, <2>1 DEF WholeInv, GatherInv
<1>4. \A k, v : k[1] \notin skipped => (<<k, v>> \in Coll!Pairs(n) <=> <<k, v>> \in Coll!Pairs(current))
  <2>1. /\ DOMAIN n = Coll!Complete(current) \cup Coll!HeldBack(previous)
        /\ \A k \in DOMAIN n : n[k] = IF k[1] \in skipped THEN previous[k] ELSE current[k]
    BY DEF Coll!NextItems
  <2>2. \A k : k[1] \notin skipped => (k \in DOMAIN n <=> k \in DOMAIN current)
    BY <2>1 DEF Coll!Complete, Coll!HeldBack
  <2> HIDE DEF n
  <2>3. \A k, v : <<k, v>> \in Coll!Pairs(n) <=> k \in DOMAIN n /\ v = n[k]
    BY DEF Coll!Pairs
  <2>4. \A k, v : <<k, v>> \in Coll!Pairs(current) <=> k \in DOMAIN current /\ v = current[k]
    BY DEF Coll!Pairs
  <2> QED
    BY <2>1, <2>2, <2>3, <2>4
<1> HIDE DEF n
<1>5. ASSUME NEW p \in Coll!Pairs(n), p[1][1] \notin skipped
      PROVE  p \in ShowsNow \cup gone
  <2>1. p = <<p[1], p[2]>>
    BY DEF Coll!Pairs
  <2>2. p \in Coll!Pairs(current)
    BY <1>4, <1>5, <2>1
  <2> QED
    BY <1>3, <2>2
<1>6. ASSUME ~deleted, NEW p \in ShowsNow, p[1][1] \notin skipped, p \notin fresh
      PROVE  p \in Coll!Pairs(n)
  <2>1. PICK c \in pupils :
            \/ p = <<<<"child", "child", c>>, 1>>
            \/ \E m \in Coll!Range(mail[c]) : p = <<<<"message", m, c>>, body[m]>>
            \/ \E k \in Coll!Plain : board[c][k] > 0 /\ p = <<<<k, k, c>>, board[c][k]>>
    BY Showing DEF ShowsNow
  <2>2. AllNoted(c)
    BY <1>3, <1>6
  <2>3. ASSUME NEW k, NEW i, NEW v, p = <<<<k, i, c>>, v>>, k \notin skipped => Noted(k, i, c, v)
        PROVE  p \in Coll!Pairs(n)
    <3>1. k \notin skipped /\ p \in Coll!Pairs(current)
      BY <1>6, <2>3 DEF Noted
    <3> DEFINE q == <<k, i, c>>
    <3>2. q[1] \notin skipped /\ p = <<q, v>>
      BY <2>3, <3>1
    <3> HIDE DEF q
    <3> QED
      BY <1>4, <3>1, <3>2
  <2>4. CASE p = <<<<"child", "child", c>>, 1>>
    BY <2>2, <2>3, <2>4 DEF AllNoted
  <2>5. ASSUME NEW m \in Coll!Range(mail[c]), p = <<<<"message", m, c>>, body[m]>>
        PROVE  p \in Coll!Pairs(n)
    <3>1. mail[c] \in Seq(Message)
      BY DEF WholeInv, FeedInv
    <3>2. PICK i \in 1..Len(mail[c]) : m = mail[c][i]
      BY <3>1, Places
    <3>3. "message" \notin skipped => Noted("message", m, c, body[m])
      BY <2>2, <3>2 DEF AllNoted, FolderNoted, MailNoted
    <3> QED
      BY <2>3, <2>5, <3>3
  <2>6. ASSUME NEW k \in Coll!Plain, board[c][k] > 0, p = <<<<k, k, c>>, board[c][k]>>
        PROVE  p \in Coll!Pairs(n)
    <3>1. k \notin skipped => Noted(k, k, c, board[c][k])
      BY <2>2, <2>6 DEF AllNoted, PlainNoted, Coll!Plain
    <3> QED
      BY <2>3, <2>6, <3>1
  <2> QED
    BY <2>1, <2>4, <2>5, <2>6
<1> QED
  BY <1>1, <1>5, <1>6

\* An answered snapshot holds nothing that the feeds did not show during the scan, and
\* misses nothing of a complete feed that they showed all the time, for any children,
\* folders, limits and changes: another client's selection and messages that arrive
\* between two pages included (Scan, confirm, collect_updates).
THEOREM ScansAreTrue == Coll!Spec => []ScanIsTrue
<1>1. Coll!Init => CollInv /\ WholeInv
  BY CollAssumption, CollInit, WholeInit
<1>2. CollInv /\ WholeInv /\ [Coll!Next]_(Coll!vars) => CollInv' /\ WholeInv'
  BY CollAssumption, CollStep, WholeStep
<1>3. CollInv /\ WholeInv => ScanIsTrue
  BY Answered
<1> QED
  BY <1>1, <1>2, <1>3, PTL DEF Coll!Spec

\* Both, for any children, messages and changes of the portal.
THEOREM TrueCalls == Coll!Spec => []CallsAreTrue
<1>1. ViewIsSnapshot /\ ScanIsTrue => CallsAreTrue
  BY DEF CallsAreTrue
<1> QED
  BY <1>1, SnapshotsAreKnown, ScansAreTrue, PTL

-----------------------------------------------------------------------------
(* InfoMentorHttp: what it does with sequences, by induction               *)

\* Induction over the numbers, for a set of them.
LEMMA NatsInductively ==
    ASSUME NEW T, 0 \in T, \A n \in Nat : n \in T => n + 1 \in T
    PROVE  Nat \subseteq T
<1> SUFFICES ASSUME Nat \ T # {} PROVE FALSE
  OBVIOUS
<1> DEFINE R == OpToRel(<, Nat)
<1>1. IsWellFoundedOn(R, Nat)
  BY NatLessThanWellFounded
<1>2. \A m, n \in Nat : m < n => <<m, n>> \in R
  BY DEF OpToRel
<1> HIDE DEF R
<1>3. PICK n \in Nat \ T : \A m \in Nat \ T : <<m, n>> \notin R
  BY <1>1, WFMin
<1>4. n # 0 /\ n - 1 \in Nat /\ n - 1 < n
  OBVIOUS
<1>5. n - 1 \notin T
  BY <1>4
<1> QED
  BY <1>2, <1>3, <1>4, <1>5

\* Induction over sequences, for a set of them.
LEMMA SeqsInductively ==
    ASSUME NEW X, NEW T, <<>> \in T, \A s \in Seq(X), e \in X : s \in T => Append(s, e) \in T
    PROVE  Seq(X) \subseteq T
<1> DEFINE Lengths == {n \in Nat : \A s \in Seq(X) : Len(s) = n => s \in T}
<1>1. 0 \in Lengths
  <2> SUFFICES ASSUME NEW s \in Seq(X), Len(s) = 0 PROVE s \in T
    OBVIOUS
  <2> QED
    BY EmptySeq
<1>2. ASSUME NEW n \in Nat, n \in Lengths PROVE n + 1 \in Lengths
  <2> SUFFICES ASSUME NEW s \in Seq(X), Len(s) = n + 1 PROVE s \in T
    OBVIOUS
  <2>1. s # <<>>
    BY EmptySeq
  <2>2. PICK t \in Seq(X), e \in X : s = Append(t, e)
    BY <2>1, SequenceEmptyOrAppend
  <2>3. Len(t) = n
    BY <2>2, AppendProperties, LenProperties
  <2> QED
    BY <1>2, <2>2, <2>3
<1>3. Nat \subseteq Lengths
  <2> HIDE DEF Lengths
  <2> QED
    BY <1>1, <1>2, NatsInductively
<1> QED
  BY <1>3, LenProperties

\* The recursion of Those, for the first n members.
Filter(f, s, S, n) ==
    f = [m \in 0..n |-> IF m = 0 THEN <<>> ELSE IF s[m] \in S THEN Append(f[m - 1], s[m]) ELSE f[m - 1]]

\* It has a result.
LEMMA FilterExists ==
    ASSUME NEW s, NEW S, NEW n \in Nat
    PROVE  \E f : Filter(f, s, S, n)
<1> DEFINE T == {m \in Nat : \E f : Filter(f, s, S, m)}
<1>1. 0 \in T
  <2>1. Filter([m \in 0..0 |-> <<>>], s, S, 0)
    BY DEF Filter
  <2> QED
    BY <2>1
<1>2. ASSUME NEW m \in Nat, m \in T PROVE m + 1 \in T
  <2>1. PICK f : Filter(f, s, S, m)
    BY <1>2
  <2> DEFINE g == [k \in 0..(m + 1) |-> IF k <= m THEN f[k]
                     ELSE IF s[k] \in S THEN Append(f[m], s[k]) ELSE f[m]]
  <2>2. ASSUME NEW k \in 0..(m + 1)
        PROVE  g[k] = IF k = 0 THEN <<>> ELSE IF s[k] \in S THEN Append(g[k - 1], s[k]) ELSE g[k - 1]
    <3>1. CASE k <= m
      <4>1. g[k] = f[k] /\ (k # 0 => g[k - 1] = f[k - 1])
        BY <3>1
      <4>2. k \in 0..m
        BY <3>1
      <4>3. f[k] = IF k = 0 THEN <<>> ELSE IF s[k] \in S THEN Append(f[k - 1], s[k]) ELSE f[k - 1]
        <5> HIDE DEF g
        <5> QED
          BY <2>1, <4>2 DEF Filter
      <4> HIDE DEF g
      <4> QED
        BY <4>1, <4>3
    <3>2. CASE k = m + 1
      <4>1. g[k - 1] = f[m]
        BY <3>2
      <4> QED
        BY <3>2, <4>1
    <3> QED
      BY <3>1, <3>2
  <2>3. Filter(g, s, S, m + 1)
    <3> HIDE DEF g
    <3>1. DOMAIN g = 0..(m + 1) /\ g = [k \in 0..(m + 1) |-> g[k]]
      BY DEF g
    <3> QED
      BY <2>2, <3>1 DEF Filter
  <2> QED
    BY <2>3
<1> QED
  <2> HIDE DEF T
  <2>1. n \in T
    BY <1>1, <1>2, NatsInductively
  <2> QED
    BY <2>1 DEF T

\* Those is that result.
LEMMA ThoseIsFilter ==
    ASSUME NEW X, NEW s \in Seq(X), NEW S
    PROVE  \E f : Filter(f, s, S, Len(s)) /\ Http!Those(s, S) = f[Len(s)]
<1>1. Len(s) \in Nat
  BY LenProperties
<1>2. \E f : Filter(f, s, S, Len(s))
  BY <1>1, FilterExists
<1> QED
  BY <1>2 DEF Http!Those, Filter

\* What Those does with a sequence that grows.
LEMMA ThoseEmpty == \A S : Http!Those(<<>>, S) = <<>>
<1> SUFFICES ASSUME NEW S PROVE Http!Those(<<>>, S) = <<>>
  OBVIOUS
<1>1. <<>> \in Seq({}) /\ Len(<<>>) = 0
  BY EmptySeq
<1>2. PICK f : Filter(f, <<>>, S, 0) /\ Http!Those(<<>>, S) = f[0]
  BY <1>1, ThoseIsFilter
<1> QED
  BY <1>2 DEF Filter

LEMMA ThoseAppend ==
    ASSUME NEW X, NEW s \in Seq(X), NEW e \in X, NEW S
    PROVE  Http!Those(Append(s, e), S)
             = IF e \in S THEN Append(Http!Those(s, S), e) ELSE Http!Those(s, S)
<1> DEFINE n == Len(s)
           t == Append(s, e)
<1>1. n \in Nat /\ t \in Seq(X) /\ Len(t) = n + 1 /\ t[n + 1] = e /\ \A k \in 1..n : t[k] = s[k]
  BY LenProperties, AppendProperties
<1> HIDE DEF n, t
<1>2. PICK f : Filter(f, s, S, n) /\ Http!Those(s, S) = f[n]
  BY ThoseIsFilter DEF n
<1>3. PICK g : Filter(g, t, S, n + 1) /\ Http!Those(t, S) = g[n + 1]
  BY <1>1, ThoseIsFilter
<1> DEFINE T == {k \in Nat : k <= n => f[k] = g[k]}
<1>4. 0 \in T
  BY <1>1, <1>2, <1>3 DEF Filter
<1>5. ASSUME NEW k \in Nat, k \in T PROVE k + 1 \in T
  <2> SUFFICES ASSUME k + 1 <= n PROVE f[k + 1] = g[k + 1]
    OBVIOUS
  <2>1. k + 1 \in 0..n /\ k + 1 \in 0..(n + 1) /\ k + 1 # 0 /\ k <= n /\ (k + 1) - 1 = k
    BY <1>1
  <2>2. f[k + 1] = IF s[k + 1] \in S THEN Append(f[k], s[k + 1]) ELSE f[k]
    BY <1>2, <2>1 DEF Filter
  <2>3. g[k + 1] = IF t[k + 1] \in S THEN Append(g[k], t[k + 1]) ELSE g[k]
    BY <1>3, <2>1 DEF Filter
  <2>4. s[k + 1] = t[k + 1] /\ f[k] = g[k]
    BY <1>1, <1>5, <2>1
  <2> QED
    BY <2>2, <2>3, <2>4
<1>6. f[n] = g[n]
  <2> HIDE DEF T
  <2>1. n \in T
    BY <1>1, <1>4, <1>5, NatsInductively
  <2> QED
    BY <1>1, <2>1 DEF T
<1>7. g[n + 1] = IF e \in S THEN Append(g[n], e) ELSE g[n]
  <2>1. n + 1 \in 0..(n + 1) /\ n + 1 # 0 /\ (n + 1) - 1 = n
    BY <1>1
  <2> QED
    BY <1>1, <1>3, <2>1 DEF Filter
<1> QED
  BY <1>2, <1>3, <1>6, <1>7 DEF t

\* Those chooses some of the members.
LEMMA ThoseChooses ==
    ASSUME NEW X, NEW S, NEW s \in Seq(X)
    PROVE  Http!Those(s, S) \in Seq(X \cap S)
<1> DEFINE Y == X \cap S
           T == {t \in Seq(X) : Http!Those(t, S) \in Seq(Y)}
<1>1. <<>> \in T
  <2> HIDE DEF Y
  <2> QED
    BY ThoseEmpty, EmptySeq
<1>2. ASSUME NEW t \in Seq(X), NEW e \in X, t \in T PROVE Append(t, e) \in T
  <2>1. Http!Those(Append(t, e), S) = IF e \in S THEN Append(Http!Those(t, S), e) ELSE Http!Those(t, S)
    BY ThoseAppend
  <2>2. e \in S => e \in Y
    OBVIOUS
  <2> HIDE DEF Y
  <2>3. Append(t, e) \in Seq(X)
    BY AppendProperties
  <2>4. Http!Those(t, S) \in Seq(Y)
    BY <1>2
  <2>5. e \in S => Append(Http!Those(t, S), e) \in Seq(Y)
    BY <2>2, <2>4, AppendProperties
  <2> QED
    BY <2>1, <2>3, <2>4, <2>5
<1>3. Seq(X) \subseteq T
  <2> HIDE DEF T
  <2> QED
    BY <1>1, <1>2, SeqsInductively
<1> HIDE DEF Y
<1>4. Http!Those(s, S) \in Seq(Y)
  BY <1>3
<1> QED
  BY <1>4 DEF Y

\* All of them, if they are all asked for.
LEMMA ThoseAll ==
    ASSUME NEW X, NEW S, X \subseteq S, NEW s \in Seq(X)
    PROVE  Http!Those(s, S) = s
<1> DEFINE T == {t \in Seq(X) : Http!Those(t, S) = t}
<1>1. <<>> \in T
  BY ThoseEmpty, EmptySeq
<1>2. ASSUME NEW t \in Seq(X), NEW e \in X, t \in T PROVE Append(t, e) \in T
  <2>1. Http!Those(Append(t, e), S) = IF e \in S THEN Append(Http!Those(t, S), e) ELSE Http!Those(t, S)
    BY ThoseAppend
  <2> QED
    BY <1>2, <2>1, AppendProperties
<1>3. Seq(X) \subseteq T
  <2> HIDE DEF T
  <2> QED
    BY <1>1, <1>2, SeqsInductively
<1> QED
  BY <1>3

\* Two choices are one.
LEMMA ThoseTwice ==
    ASSUME NEW X, NEW S, NEW R, NEW s \in Seq(X)
    PROVE  Http!Those(Http!Those(s, S), R) = Http!Those(s, S \cap R)
<1> DEFINE T == {t \in Seq(X) : Http!Those(Http!Those(t, S), R) = Http!Those(t, S \cap R)}
<1>1. <<>> \in T
  BY ThoseEmpty, EmptySeq
<1>2. ASSUME NEW t \in Seq(X), NEW e \in X, t \in T PROVE Append(t, e) \in T
  <2> DEFINE u == Http!Those(t, S)
  <2>1. Append(t, e) \in Seq(X)
    BY AppendProperties
  <2>2. u \in Seq(X)
    <3>1. u \in Seq(X \cap S)
      BY ThoseChooses
    <3> QED
      BY <3>1, SeqMonotonic
  <2>3. Http!Those(u, R) = Http!Those(t, S \cap R)
    BY <1>2
  <2>4. Http!Those(Append(t, e), S) = IF e \in S THEN Append(u, e) ELSE u
    BY ThoseAppend
  <2>5. Http!Those(Append(u, e), R) = IF e \in R THEN Append(Http!Those(u, R), e) ELSE Http!Those(u, R)
    <3> HIDE DEF u
    <3> QED
      BY <2>2, ThoseAppend
  <2>6. Http!Those(Append(t, e), S \cap R)
          = IF e \in S \cap R THEN Append(Http!Those(t, S \cap R), e) ELSE Http!Those(t, S \cap R)
    BY ThoseAppend
  <2> HIDE DEF u
  <2>7. Http!Those(Http!Those(Append(t, e), S), R) = Http!Those(Append(t, e), S \cap R)
    <3>1. CASE e \in S /\ e \in R
      BY <2>3, <2>4, <2>5, <2>6, <3>1
    <3>2. CASE e \in S /\ e \notin R
      <4>1. e \notin S \cap R
        BY <3>2
      <4> QED
        BY <2>3, <2>4, <2>5, <2>6, <3>2, <4>1
    <3>3. CASE e \notin S
      <4>1. e \notin S \cap R
        BY <3>3
      <4> QED
        BY <2>3, <2>4, <2>6, <3>3, <4>1
    <3> QED
      BY <3>1, <3>2, <3>3
  <2> QED
    BY <2>1, <2>7
<1>3. Seq(X) \subseteq T
  <2> HIDE DEF T
  <2> QED
    BY <1>1, <1>2, SeqsInductively
<1> QED
  BY <1>3

\* A choice is made by the members.
LEMMA ThoseAgree ==
    ASSUME NEW X, NEW S, NEW R, X \cap S = X \cap R, NEW s \in Seq(X)
    PROVE  Http!Those(s, S) = Http!Those(s, R)
<1> DEFINE T == {t \in Seq(X) : Http!Those(t, S) = Http!Those(t, R)}
<1>1. <<>> \in T
  BY ThoseEmpty, EmptySeq
<1>2. ASSUME NEW t \in Seq(X), NEW e \in X, t \in T PROVE Append(t, e) \in T
  <2>1. Append(t, e) \in Seq(X) /\ (e \in S <=> e \in R)
    BY AppendProperties
  <2>2. /\ Http!Those(Append(t, e), S) = IF e \in S THEN Append(Http!Those(t, S), e) ELSE Http!Those(t, S)
        /\ Http!Those(Append(t, e), R) = IF e \in R THEN Append(Http!Those(t, R), e) ELSE Http!Those(t, R)
    BY ThoseAppend
  <2> QED
    BY <1>2, <2>1, <2>2
<1>3. Seq(X) \subseteq T
  <2> HIDE DEF T
  <2> QED
    BY <1>1, <1>2, SeqsInductively
<1> QED
  BY <1>3

\* A choice of a sequence that has two parts.
LEMMA ThoseConcat ==
    ASSUME NEW X, NEW S, NEW r \in Seq(X), NEW s \in Seq(X)
    PROVE  Http!Those(r \o s, S) = Http!Those(r, S) \o Http!Those(s, S)
<1> DEFINE T == {t \in Seq(X) : Http!Those(r \o t, S) = Http!Those(r, S) \o Http!Those(t, S)}
<1>0. \A t \in Seq(X) : Http!Those(t, S) \in Seq(X)
  <2> SUFFICES ASSUME NEW t \in Seq(X) PROVE Http!Those(t, S) \in Seq(X)
    OBVIOUS
  <2>1. Http!Those(t, S) \in Seq(X \cap S)
    BY ThoseChooses
  <2> QED
    BY <2>1, SeqMonotonic
<1>1. <<>> \in T
  BY <1>0, ThoseEmpty, EmptySeq, ConcatEmptySeq
<1>2. ASSUME NEW t \in Seq(X), NEW e \in X, t \in T PROVE Append(t, e) \in T
  <2> DEFINE c == Http!Those(r, S)
             d == Http!Those(t, S)
  <2>1. Append(t, e) \in Seq(X) /\ r \o t \in Seq(X) /\ c \in Seq(X) /\ d \in Seq(X)
    BY <1>0, AppendProperties, ConcatProperties
  <2>2. r \o Append(t, e) = Append(r \o t, e)
    BY <2>1
  <2>3. Http!Those(r \o t, S) = c \o d
    BY <1>2
  <2>4. Http!Those(Append(r \o t, e), S) = IF e \in S THEN Append(c \o d, e) ELSE c \o d
    <3>1. ASSUME NEW u \in Seq(X), u = r \o t
          PROVE  Http!Those(Append(u, e), S) = IF e \in S THEN Append(c \o d, e) ELSE c \o d
      <4>1. Http!Those(u, S) = c \o d
        BY <2>3, <3>1
      <4>2. Http!Those(Append(u, e), S)
              = IF e \in S THEN Append(Http!Those(u, S), e) ELSE Http!Those(u, S)
        BY ThoseAppend
      <4> QED
        BY <4>1, <4>2
    <3> QED
      BY <2>1, <3>1
  <2>5. Http!Those(Append(t, e), S) = IF e \in S THEN Append(d, e) ELSE d
    BY ThoseAppend
  <2> HIDE DEF c, d
  <2>6. c \o Append(d, e) = Append(c \o d, e)
    BY <2>1
  <2> QED
    BY <2>1, <2>2, <2>4, <2>5, <2>6 DEF c
<1>3. Seq(X) \subseteq T
  <2> HIDE DEF T
  <2> QED
    BY <1>1, <1>2, SeqsInductively
<1> QED
  BY <1>3

\* The recursion of PutAll, for the first n cookies.
Puts(f, cookies, more, n) ==
    f = [m \in 0..n |-> IF m = 0 THEN cookies ELSE Http!Put(f[m - 1], more[m])]

\* It has a result.
LEMMA PutsExists ==
    ASSUME NEW cookies, NEW more, NEW n \in Nat
    PROVE  \E f : Puts(f, cookies, more, n)
<1> DEFINE T == {m \in Nat : \E f : Puts(f, cookies, more, m)}
<1>1. 0 \in T
  <2>1. Puts([m \in 0..0 |-> cookies], cookies, more, 0)
    BY DEF Puts
  <2> QED
    BY <2>1
<1>2. ASSUME NEW m \in Nat, m \in T PROVE m + 1 \in T
  <2>1. PICK f : Puts(f, cookies, more, m)
    BY <1>2
  <2> DEFINE g == [k \in 0..(m + 1) |-> IF k <= m THEN f[k] ELSE Http!Put(f[m], more[k])]
  <2>2. ASSUME NEW k \in 0..(m + 1)
        PROVE  g[k] = IF k = 0 THEN cookies ELSE Http!Put(g[k - 1], more[k])
    <3>1. CASE k <= m
      <4>1. g[k] = f[k] /\ (k # 0 => g[k - 1] = f[k - 1])
        BY <3>1
      <4>2. k \in 0..m
        BY <3>1
      <4>3. f[k] = IF k = 0 THEN cookies ELSE Http!Put(f[k - 1], more[k])
        <5> HIDE DEF g
        <5> QED
          BY <2>1, <4>2 DEF Puts
      <4> HIDE DEF g
      <4> QED
        BY <4>1, <4>3
    <3>2. CASE k = m + 1
      <4>1. g[k - 1] = f[m]
        BY <3>2
      <4> QED
        BY <3>2, <4>1
    <3> QED
      BY <3>1, <3>2
  <2>3. Puts(g, cookies, more, m + 1)
    <3> HIDE DEF g
    <3>1. DOMAIN g = 0..(m + 1) /\ g = [k \in 0..(m + 1) |-> g[k]]
      BY DEF g
    <3> QED
      BY <2>2, <3>1 DEF Puts
  <2> QED
    BY <2>3
<1> QED
  <2> HIDE DEF T
  <2>1. n \in T
    BY <1>1, <1>2, NatsInductively
  <2> QED
    BY <2>1 DEF T

\* PutAll is that result.
LEMMA PutAllIsPuts ==
    ASSUME NEW X, NEW cookies, NEW more \in Seq(X)
    PROVE  \E f : Puts(f, cookies, more, Len(more)) /\ Http!PutAll(cookies, more) = f[Len(more)]
<1>1. Len(more) \in Nat
  BY LenProperties
<1>2. \E f : Puts(f, cookies, more, Len(more))
  BY <1>1, PutsExists
<1> QED
  BY <1>2 DEF Http!PutAll, Puts

\* What PutAll does with a sequence that grows.
LEMMA PutAllEmpty == \A cookies : Http!PutAll(cookies, <<>>) = cookies
<1> SUFFICES ASSUME NEW cookies PROVE Http!PutAll(cookies, <<>>) = cookies
  OBVIOUS
<1>1. <<>> \in Seq({}) /\ Len(<<>>) = 0
  BY EmptySeq
<1>2. PICK f : Puts(f, cookies, <<>>, 0) /\ Http!PutAll(cookies, <<>>) = f[0]
  BY <1>1, PutAllIsPuts
<1> QED
  BY <1>2 DEF Puts

LEMMA PutAllAppend ==
    ASSUME NEW X, NEW cookies, NEW s \in Seq(X), NEW e \in X
    PROVE  Http!PutAll(cookies, Append(s, e)) = Http!Put(Http!PutAll(cookies, s), e)
<1> DEFINE n == Len(s)
           t == Append(s, e)
<1>1. n \in Nat /\ t \in Seq(X) /\ Len(t) = n + 1 /\ t[n + 1] = e /\ \A k \in 1..n : t[k] = s[k]
  BY LenProperties, AppendProperties
<1> HIDE DEF n, t
<1>2. PICK f : Puts(f, cookies, s, n) /\ Http!PutAll(cookies, s) = f[n]
  BY PutAllIsPuts DEF n
<1>3. PICK g : Puts(g, cookies, t, n + 1) /\ Http!PutAll(cookies, t) = g[n + 1]
  BY <1>1, PutAllIsPuts
<1> DEFINE T == {k \in Nat : k <= n => f[k] = g[k]}
<1>4. 0 \in T
  BY <1>1, <1>2, <1>3 DEF Puts
<1>5. ASSUME NEW k \in Nat, k \in T PROVE k + 1 \in T
  <2> SUFFICES ASSUME k + 1 <= n PROVE f[k + 1] = g[k + 1]
    OBVIOUS
  <2>1. k + 1 \in 0..n /\ k + 1 \in 0..(n + 1) /\ k + 1 # 0 /\ k <= n /\ (k + 1) - 1 = k
    BY <1>1
  <2>2. f[k + 1] = Http!Put(f[k], s[k + 1])
    BY <1>2, <2>1 DEF Puts
  <2>3. g[k + 1] = Http!Put(g[k], t[k + 1])
    BY <1>3, <2>1 DEF Puts
  <2>4. s[k + 1] = t[k + 1] /\ f[k] = g[k]
    BY <1>1, <1>5, <2>1
  <2> QED
    BY <2>2, <2>3, <2>4
<1>6. f[n] = g[n]
  <2> HIDE DEF T
  <2>1. n \in T
    BY <1>1, <1>4, <1>5, NatsInductively
  <2> QED
    BY <1>1, <2>1 DEF T
<1>7. g[n + 1] = Http!Put(g[n], e)
  <2>1. n + 1 \in 0..(n + 1) /\ n + 1 # 0 /\ (n + 1) - 1 = n
    BY <1>1
  <2> QED
    BY <1>1, <1>3, <2>1 DEF Puts
<1> QED
  BY <1>2, <1>3, <1>6, <1>7 DEF t

-----------------------------------------------------------------------------
(* The inductive invariant of InfoMentorHttp                               *)

\* A cookie; one for a host alone is of the host that set it.
Cookies ==
    {c \in [key : {o.key : o \in Offer}, value : {o.value : o \in Offer},
            age : {o.age : o \in Offer}, expires : {o.expires : o \in Offer},
            last : Nat, hostOnly : BOOLEAN,
            domain : {o.domain : o \in Offer} \cup {u.host : u \in Address},
            path : {o.path : o \in Offer} \cup {Top},
            by : {u.host : u \in Address} \cup {Http!Unset}] :
       c.hostOnly => c.by = c.domain}

\* A jar has one cookie of a domain, a path and a key.
Distinct(s) == \A i, j \in DOMAIN s : Http!Same(s[i], s[j]) => i = j

Jars == {s \in Seq(Cookies) : Distinct(s)}

\* The request in flight, and the form in it.
RequestInv ==
    /\ time \in Nat
    /\ url \in Address \cup {Http!Idle} /\ form \in BOOLEAN
    /\ form => url \in Address /\ url.host = home

JarInv == jar \in Jars /\ saved \in [cookies : Jars, pause : Nat, asked : Nat]

\* A pause that was asked for is over, or it is known, to the next process too.
PauseInv ==
    /\ cooldown \in Nat /\ paused \in Nat
    /\ cooldown <= time + MaxPause /\ paused <= time + MaxPause
    /\ paused <= time \/ paused <= cooldown
    /\ saved.asked <= time \/ (saved.asked <= saved.pause /\ saved.asked <= time + MaxPause)
    /\ url # Http!Idle => paused <= time

HttpInv == RequestInv /\ JarInv /\ PauseInv /\ SecretsStayHome /\ PauseIsKept

\* The addresses are trusted.
LEMMA Trusting ==
    /\ \A u \in Address : u.host \in Host
    /\ MaxPause \in Nat \ {0} /\ Retry \subseteq Nat
BY HttpAssumption DEF Http!HttpAssumption

-----------------------------------------------------------------------------
(* The jar                                                                 *)

LEMMA ThoseOfJar ==
    ASSUME NEW s \in Jars, NEW S
    PROVE  Http!Those(s, S) \in Jars /\ Http!All(Http!Those(s, S)) \subseteq Http!All(s) \cap S
<1> DEFINE In(t) == Http!All(Http!Those(t, S)) \subseteq Http!All(t) \cap S
           T == {t \in Seq(Cookies) : Distinct(t) => Distinct(Http!Those(t, S))}
<1>0. \A t \in Seq(Cookies) : Http!Those(t, S) \in Seq(Cookies) /\ In(t)
  <2> SUFFICES ASSUME NEW t \in Seq(Cookies) PROVE Http!Those(t, S) \in Seq(Cookies) /\ In(t)
    OBVIOUS
  <2> DEFINE A == Http!All(t)
             B == A \cap S
             r == Http!Those(t, S)
  <2>1. t \in Seq(A) /\ A \subseteq Cookies
    BY LenProperties DEF Http!All
  <2>2. r \in Seq(B)
    <3> HIDE DEF A
    <3> QED
      BY <2>1, ThoseChooses
  <2>3. r \in Seq(Cookies)
    <3>1. B \subseteq Cookies
      BY <2>1
    <3> HIDE DEF A, B, r
    <3> QED
      BY <2>2, <3>1, SeqMonotonic
  <2>4. Http!All(r) \subseteq B
    <3> HIDE DEF A, B, r
    <3> QED
      BY <2>2, LenProperties DEF Http!All
  <2> QED
    BY <2>3, <2>4
<1>1. <<>> \in T
  BY ThoseEmpty, EmptySeq
<1>2. ASSUME NEW t \in Seq(Cookies), NEW e \in Cookies, t \in T PROVE Append(t, e) \in T
  <2> DEFINE r == Http!Those(t, S)
  <2>1. Append(t, e) \in Seq(Cookies)
    BY AppendProperties
  <2>2. SUFFICES ASSUME Distinct(Append(t, e)) PROVE Distinct(Http!Those(Append(t, e), S))
    BY <2>1
  <2>3. /\ Len(t) \in Nat /\ DOMAIN t = 1..Len(t) /\ DOMAIN Append(t, e) = 1..(Len(t) + 1)
        /\ Append(t, e)[Len(t) + 1] = e /\ \A i \in 1..Len(t) : Append(t, e)[i] = t[i]
    BY <2>1, LenProperties, AppendProperties
  <2>4. Distinct(t) /\ \A i \in DOMAIN t : ~Http!Same(t[i], e) /\ ~Http!Same(e, t[i])
    BY <2>2, <2>3 DEF Distinct
  <2>5. Distinct(r) /\ r \in Seq(Cookies) /\ Http!All(r) \subseteq Http!All(t)
    BY <1>0, <1>2, <2>4
  <2>6. Http!Those(Append(t, e), S) = IF e \in S THEN Append(r, e) ELSE r
    BY ThoseAppend
  <2>7. Distinct(Append(r, e))
    <3> HIDE DEF r
    <3>1. /\ Append(r, e) \in Seq(Cookies) /\ Len(r) \in Nat
          /\ DOMAIN r = 1..Len(r) /\ DOMAIN Append(r, e) = 1..(Len(r) + 1)
          /\ Append(r, e)[Len(r) + 1] = e /\ \A i \in 1..Len(r) : Append(r, e)[i] = r[i]
      BY <2>5, LenProperties, AppendProperties
    <3>2. \A i \in DOMAIN r : ~Http!Same(r[i], e) /\ ~Http!Same(e, r[i])
      BY <2>4, <2>5 DEF Http!All
    <3> SUFFICES ASSUME NEW i \in 1..(Len(r) + 1), NEW j \in 1..(Len(r) + 1),
                        Http!Same(Append(r, e)[i], Append(r, e)[j])
                 PROVE  i = j
      BY <3>1 DEF Distinct
    <3>3. CASE i \in 1..Len(r) /\ j \in 1..Len(r)
      BY <2>5, <3>1, <3>3 DEF Distinct
    <3>4. CASE i \in 1..Len(r) /\ j = Len(r) + 1
      BY <3>1, <3>2, <3>4
    <3>5. CASE i = Len(r) + 1 /\ j \in 1..Len(r)
      BY <3>1, <3>2, <3>5
    <3> QED
      BY <3>1, <3>3, <3>4, <3>5
  <2> QED
    BY <2>5, <2>6, <2>7
<1>3. Seq(Cookies) \subseteq T
  <2> HIDE DEF T
  <2> QED
    BY <1>1, <1>2, SeqsInductively
<1> QED
  BY <1>0, <1>3 DEF Jars

\* A cookie that is put takes the place of its predecessor, or comes last.
LEMMA PutOne ==
    ASSUME NEW s \in Jars, NEW c \in Cookies
    PROVE  /\ Http!Put(s, c) \in Jars
           /\ (\A i \in DOMAIN s : ~Http!Same(s[i], c)) => Http!Put(s, c) = Append(s, c)
<1> DEFINE old == {i \in DOMAIN s : Http!Same(s[i], c)}
           r == [i \in DOMAIN s |-> IF i \in old THEN c ELSE s[i]]
<1>1. s \in Seq(Cookies) /\ Distinct(s) /\ Len(s) \in Nat /\ DOMAIN s = 1..Len(s)
      /\ \A i \in DOMAIN s : s[i] \in Cookies
  BY LenProperties DEF Jars
<1>2. Http!Put(s, c) = IF old = {} THEN Append(s, c) ELSE r
  BY DEF Http!Put
<1>3. CASE old = {}
  <2>1. Append(s, c) \in Seq(Cookies)
    BY <1>1, AppendProperties
  <2>2. /\ DOMAIN Append(s, c) = 1..(Len(s) + 1)
        /\ Append(s, c)[Len(s) + 1] = c /\ \A i \in 1..Len(s) : Append(s, c)[i] = s[i]
    BY <1>1, <2>1, LenProperties, AppendProperties
  <2>3. \A i \in DOMAIN s : ~Http!Same(s[i], c) /\ ~Http!Same(c, s[i])
    BY <1>3 DEF Http!Same
  <2>4. ASSUME NEW i \in 1..(Len(s) + 1), NEW j \in 1..(Len(s) + 1),
               Http!Same(Append(s, c)[i], Append(s, c)[j])
        PROVE  i = j
    <3>1. CASE i \in 1..Len(s) /\ j \in 1..Len(s)
      BY <1>1, <2>2, <2>4, <3>1 DEF Distinct
    <3>2. CASE i \in 1..Len(s) /\ j = Len(s) + 1
      BY <1>1, <2>2, <2>3, <2>4, <3>2
    <3>3. CASE i = Len(s) + 1 /\ j \in 1..Len(s)
      BY <1>1, <2>2, <2>3, <2>4, <3>3
    <3> QED
      BY <1>1, <3>1, <3>2, <3>3
  <2>5. Append(s, c) \in Jars
    BY <2>1, <2>2, <2>4 DEF Jars, Distinct
  <2> QED
    BY <1>2, <1>3, <2>5
<1>4. CASE old # {}
  <2>1. r \in [1..Len(s) -> Cookies]
    BY <1>1
  <2>2. r \in Seq(Cookies)
    <3> HIDE DEF r
    <3> QED
      BY <1>1, <2>1, SeqDef
  <2>3. \A i \in DOMAIN s : r[i] = (IF i \in old THEN c ELSE s[i]) /\ (i \in old <=> Http!Same(s[i], c))
    OBVIOUS
  <2>4. DOMAIN r = DOMAIN s
    OBVIOUS
  <2> HIDE DEF r, old
  <2>5. \A i, j \in DOMAIN s : Http!Same(r[i], r[j]) => Http!Same(s[i], s[j])
    BY <2>3 DEF Http!Same
  <2>6. r \in Jars
    BY <1>1, <2>2, <2>4, <2>5 DEF Jars, Distinct
  <2> QED
    BY <1>2, <1>4, <2>6 DEF old
<1> QED
  BY <1>3, <1>4

LEMMA PutMany ==
    ASSUME NEW s \in Jars, NEW more \in Seq(Cookies)
    PROVE  Http!PutAll(s, more) \in Jars
<1> DEFINE T == {t \in Seq(Cookies) : Http!PutAll(s, t) \in Jars}
<1>1. <<>> \in T
  BY PutAllEmpty, EmptySeq
<1>2. ASSUME NEW t \in Seq(Cookies), NEW e \in Cookies, t \in T PROVE Append(t, e) \in T
  <2>1. Append(t, e) \in Seq(Cookies)
    BY AppendProperties
  <2>2. Http!PutAll(s, Append(t, e)) = Http!Put(Http!PutAll(s, t), e)
    BY PutAllAppend
  <2>3. Http!Put(Http!PutAll(s, t), e) \in Jars
    BY <1>2, PutOne
  <2> QED
    BY <2>1, <2>2, <2>3
<1>3. Seq(Cookies) \subseteq T
  <2> HIDE DEF T
  <2> QED
    BY <1>1, <1>2, SeqsInductively
<1> QED
  BY <1>3

\* A jar that is put into an empty one is itself.
LEMMA ImportIsJar ==
    ASSUME NEW s \in Jars
    PROVE  Http!Import(s) = s
<1> DEFINE T == {t \in Seq(Cookies) : Distinct(t) => Http!PutAll(<<>>, t) = t}
<1>1. <<>> \in T
  BY PutAllEmpty, EmptySeq
<1>2. ASSUME NEW t \in Seq(Cookies), NEW e \in Cookies, t \in T PROVE Append(t, e) \in T
  <2>1. Append(t, e) \in Seq(Cookies)
    BY AppendProperties
  <2>2. SUFFICES ASSUME Distinct(Append(t, e)) PROVE Http!PutAll(<<>>, Append(t, e)) = Append(t, e)
    BY <2>1
  <2>3. /\ Len(t) \in Nat /\ DOMAIN t = 1..Len(t) /\ DOMAIN Append(t, e) = 1..(Len(t) + 1)
        /\ Append(t, e)[Len(t) + 1] = e /\ \A i \in 1..Len(t) : Append(t, e)[i] = t[i]
    BY <2>1, LenProperties, AppendProperties
  <2>4. Distinct(t) /\ \A i \in DOMAIN t : ~Http!Same(t[i], e)
    BY <2>2, <2>3 DEF Distinct
  <2>5. Http!PutAll(<<>>, t) = t /\ t \in Jars
    BY <1>2, <2>4 DEF Jars
  <2>6. Http!PutAll(<<>>, Append(t, e)) = Http!Put(t, e)
    BY <2>5, PutAllAppend
  <2> QED
    BY <2>4, <2>5, <2>6, PutOne
<1>3. Seq(Cookies) \subseteq T
  <2> HIDE DEF T
  <2> QED
    BY <1>1, <1>2, SeqsInductively
<1> QED
  BY <1>3 DEF Jars, Http!Import

\* What a response sets, and a use, leave a jar.
LEMMA SetOfJar ==
    ASSUME NEW s \in Jars, NEW offers \in Http!Offers, NEW u \in Address, time \in Nat
    PROVE  Http!Set(s, offers, u) \in Jars
<1> DEFINE S == {o \in Offer : Http!Accepts(o, u)}
           taken == Http!Those(offers, S)
           r == [i \in DOMAIN taken |-> Http!CookieOf(taken[i], u)]
<1>1. offers \in Seq(Offer)
  <2>1. CASE offers = <<>>
    BY <2>1, EmptySeq
  <2>2. CASE \E o \in Offer : offers = <<o>>
    BY <2>2
  <2> QED
    BY <2>1, <2>2 DEF Http!Offers
<1>2. taken \in Seq(Offer \cap S)
  <2> HIDE DEF S
  <2> QED
    BY <1>1, ThoseChooses
<1>3. Offer \cap S = S
  OBVIOUS
<1>4. \A o \in Offer : Http!CookieOf(o, u) \in Cookies
  BY DEF Http!CookieOf, Cookies
<1>5. r \in Seq(Cookies)
  <2>1. taken \in Seq(Offer)
    <3> HIDE DEF taken
    <3> QED
      BY <1>2, <1>3, SeqMonotonic
  <2> HIDE DEF taken
  <2>2. Len(taken) \in Nat /\ DOMAIN taken = 1..Len(taken) /\ \A i \in 1..Len(taken) : taken[i] \in Offer
    BY <2>1, LenProperties
  <2>3. r \in [1..Len(taken) -> Cookies]
    BY <1>4, <2>2
  <2> QED
    BY <2>2, <2>3, SeqDef
<1>6. Http!Set(s, offers, u) = Http!PutAll(s, r)
  BY DEF Http!Set
<1> HIDE DEF r
<1> QED
  BY <1>5, <1>6, PutMany

LEMMA UsedOfJar ==
    ASSUME NEW s \in Jars, NEW u, time \in Nat
    PROVE  Http!Used(s, u) \in Jars
<1> DEFINE S == {c \in Http!All(s) : ~(Http!Matches(c, u) /\ Http!Expired(c))}
           kept == Http!Those(s, S)
           r == [i \in DOMAIN kept |-> IF Http!Matches(kept[i], u) THEN Http!Touch(kept[i]) ELSE kept[i]]
<1>1. kept \in Jars
  <2> HIDE DEF S
  <2> QED
    BY ThoseOfJar
<1>2. Http!Used(s, u) = r
  BY DEF Http!Used
<1> HIDE DEF kept
<1>3. kept \in Seq(Cookies) /\ Distinct(kept) /\ Len(kept) \in Nat /\ DOMAIN kept = 1..Len(kept)
      /\ \A i \in DOMAIN kept : kept[i] \in Cookies
  BY <1>1, LenProperties DEF Jars
<1>4. \A c \in Cookies : /\ Http!Touch(c) \in Cookies
                         /\ \A x \in {c, Http!Touch(c)} : x.domain = c.domain /\ x.path = c.path /\ x.key = c.key
  BY DEF Cookies, Http!Touch
<1>5. r \in [1..Len(kept) -> Cookies]
  BY <1>3, <1>4
<1>6. r \in Seq(Cookies)
  <2> HIDE DEF r
  <2> QED
    BY <1>3, <1>5, SeqDef
<1>7. DOMAIN r = DOMAIN kept /\ \A i \in DOMAIN kept : r[i] \in {kept[i], Http!Touch(kept[i])}
  OBVIOUS
<1> HIDE DEF r
<1>8. \A i, j \in DOMAIN kept : Http!Same(r[i], r[j]) => Http!Same(kept[i], kept[j])
  <2>1. \A i \in DOMAIN kept : /\ r[i].domain = kept[i].domain
                              /\ r[i].path = kept[i].path /\ r[i].key = kept[i].key
    BY <1>3, <1>4, <1>7
  <2> QED
    BY <2>1 DEF Http!Same
<1> QED
  BY <1>2, <1>3, <1>6, <1>7, <1>8 DEF Jars, Distinct

\* What is sent is in the jar and matches the address.
LEMMA HeaderMatches ==
    ASSUME NEW s \in Jars, NEW u
    PROVE  \A i \in DOMAIN Http!Header(s, u) :
             Http!Header(s, u)[i] \in Cookies /\ Http!Matches(Http!Header(s, u)[i], u)
<1> DEFINE found == {c \in Http!All(s) : Http!Matches(c, u) /\ ~Http!Expired(c)}
           P == {c \in found : c.path # Top}
           Q == {c \in found : c.path = Top}
           p == Http!Those(s, P)
           q == Http!Those(s, Q)
           Good == {c \in Cookies : Http!Matches(c, u)}
<1>1. s \in Seq(Cookies) /\ Http!All(s) \subseteq Cookies
  BY LenProperties DEF Jars, Http!All
<1>2. Cookies \cap P \subseteq Good /\ Cookies \cap Q \subseteq Good
  OBVIOUS
<1>3. p \in Seq(Cookies \cap P) /\ q \in Seq(Cookies \cap Q)
  <2> HIDE DEF P, Q
  <2> QED
    BY <1>1, ThoseChooses
<1>4. p \in Seq(Good) /\ q \in Seq(Good)
  <2> HIDE DEF P, Q, p, q, Good
  <2> QED
    BY <1>2, <1>3, SeqMonotonic
<1>5. Http!Header(s, u) = p \o q
  BY DEF Http!Header
<1> HIDE DEF p, q, Good
<1>6. p \o q \in Seq(Good)
  BY <1>4, ConcatProperties
<1>7. \A i \in DOMAIN (p \o q) : (p \o q)[i] \in Good
  BY <1>6, LenProperties
<1> QED
  BY <1>5, <1>7 DEF Good

-----------------------------------------------------------------------------
(* The steps                                                               *)

LEMMA HttpInit == Http!Init => HttpInv
<1> SUFFICES ASSUME Http!Init PROVE HttpInv
  OBVIOUS
<1>1. <<>> \in Jars
  BY EmptySeq DEF Jars, Distinct
<1>2. RequestInv /\ JarInv
  BY <1>1 DEF RequestInv, JarInv, Http!Init, Http!NoSession
<1>3. PauseInv
  BY Trusting DEF PauseInv, Http!Init, Http!NoSession
<1>4. SecretsStayHome /\ PauseIsKept
  BY Trusting DEF SecretsStayHome, PauseIsKept, Http!SecretsStayHome, Http!PauseIsKept, Http!Init
<1> QED
  BY <1>2, <1>3, <1>4 DEF HttpInv

\* A hop: what it sends stays at home if its form does, and it is sent after the pause.
LEMMA Hopping ==
    ASSUME RequestInv, JarInv, PauseInv,
           NEW u \in Address, NEW b \in BOOLEAN, NEW n, NEW cookies \in Jars,
           Http!Hop(u, b, n, cookies), UNCHANGED <<time, cooldown, saved, paused>>,
           b => u.host = home', paused <= time
    PROVE  HttpInv'
<1>1. RequestInv'
  BY DEF RequestInv, Http!Hop
<1>2. JarInv'
  BY UsedOfJar DEF RequestInv, JarInv, Http!Hop
<1>3. PauseInv'
  BY DEF PauseInv
<1>4. SecretsStayHome'
  <2>1. /\ sent'.form = b /\ sent'.to = u /\ sent'.cookies = Http!Header(cookies, u)
    BY DEF Http!Hop
  <2>2. ASSUME NEW i \in DOMAIN sent'.cookies, sent'.cookies[i].hostOnly
        PROVE  sent'.cookies[i].by = u.host
    <3>1. sent'.cookies[i] \in Cookies /\ Http!Matches(sent'.cookies[i], u)
      BY <2>1, HeaderMatches
    <3> QED
      BY <2>2, <3>1 DEF Cookies, Http!Matches
  <2> QED
    BY <2>1, <2>2 DEF SecretsStayHome, Http!SecretsStayHome
<1>5. PauseIsKept'
  BY DEF RequestInv, PauseInv, PauseIsKept, Http!PauseIsKept
<1> QED
  BY <1>1, <1>2, <1>3, <1>4, <1>5 DEF HttpInv

\* Nothing is sent by the other steps.
LEMMA Silence ==
    ASSUME sent' = Http!Silent, (RequestInv /\ JarInv /\ PauseInv)'
    PROVE  HttpInv'
BY DEF HttpInv, PauseInv, SecretsStayHome, PauseIsKept, Http!SecretsStayHome, Http!PauseIsKept

LEMMA HttpStep == HttpInv /\ [Http!Next]_Http!vars => HttpInv'
<1> SUFFICES ASSUME HttpInv, [Http!Next]_Http!vars PROVE HttpInv'
  OBVIOUS
<1> USE DEF HttpInv
<1>1. ASSUME NEW u \in Address, NEW b \in BOOLEAN, Http!Request(u, b) PROVE HttpInv'
  <2>1. paused <= time
    BY <1>1 DEF RequestInv, PauseInv, Http!Request
  <2> QED
    BY <1>1, <2>1, Hopping DEF Http!Request, JarInv
<1> DEFINE Ending(cookies) == Http!End(cookies) /\ time' = time
<1>2. ASSUME NEW cookies \in Jars, Ending(cookies), UNCHANGED <<cooldown, saved, paused>>
      PROVE  HttpInv'
  <2>1. RequestInv'
    BY <1>2 DEF RequestInv, Http!End
  <2>2. JarInv'
    BY <1>2 DEF JarInv, Http!End
  <2>3. PauseInv'
    BY <1>2 DEF PauseInv, Http!End
  <2> QED
    BY <1>2, <2>1, <2>2, <2>3, Silence DEF Http!End
<1>3. ASSUME NEW offers \in Http!Offers, ~Http!Quiet
      PROVE  Http!Set(jar, offers, url) \in Jars /\ paused <= time /\ url \in Address
  BY <1>3, SetOfJar DEF Http!Quiet, RequestInv, JarInv, PauseInv
<1>4. ASSUME NEW offers \in Http!Offers, NEW status,
             NEW to \in Address \cup {[host |-> Stranger, path |-> Top]},
             Http!Redirected(status, to, offers)
      PROVE  HttpInv'
  <2> DEFINE cookies == Http!Set(jar, offers, url)
             b == form /\ status = "307"
  <2>1. /\ cookies \in Jars /\ paused <= time /\ b \in BOOLEAN
        /\ UNCHANGED <<time, cooldown, saved, paused>>
    BY <1>3, <1>4 DEF Http!Redirected
  <2>2. CASE Http!Follows(status, to)
    <3>1. Http!Hop(to, b, hops + 1, cookies) /\ home' = IF b THEN home ELSE Http!Unset
      BY <1>4, <2>2 DEF Http!Redirected
    <3>2. to \in Address
      BY <2>2, HttpAssumption DEF Http!Follows, Http!Trusted, Http!HttpAssumption
    <3>3. b => to.host = home'
      BY <2>2, <3>1 DEF Http!Follows, RequestInv
    <3> HIDE DEF cookies, b
    <3> QED
      BY <2>1, <3>1, <3>2, <3>3, Hopping
  <2>3. CASE ~Http!Follows(status, to)
    <3>1. Http!End(cookies)
      BY <1>4, <2>3 DEF Http!Redirected
    <3> HIDE DEF cookies
    <3> QED
      BY <1>2, <2>1, <3>1
  <2> QED
    BY <2>2, <2>3
<1>5. ASSUME NEW retry \in Retry, NEW offers \in Http!Offers, Http!Limited(retry, offers)
      PROVE  HttpInv'
  <2> DEFINE cookies == Http!Set(jar, offers, url)
  <2>1. /\ cookies \in Jars /\ Http!End(cookies) /\ UNCHANGED <<time, saved>>
        /\ cooldown' = time + Http!Pause(retry)
        /\ paused' = time + (IF retry = 0 THEN 1 ELSE IF retry > MaxPause THEN MaxPause ELSE retry)
    BY <1>3, <1>5 DEF Http!Limited
  <2> HIDE DEF cookies
  <2>2. RequestInv'
    BY <2>1 DEF RequestInv, Http!End
  <2>3. JarInv'
    BY <2>1 DEF JarInv, Http!End
  <2>4. PauseInv'
    <3>1. Http!Pause(retry) \in 1..MaxPause /\ time \in Nat /\ retry \in Nat /\ cooldown' = paused'
      BY <2>1, Trusting DEF Http!Pause, Http!Least, RequestInv
    <3>2. paused' \in Nat /\ paused' <= time + MaxPause
      BY <2>1, <3>1, Trusting
    <3> QED
      BY <2>1, <3>1, <3>2 DEF PauseInv, Http!End
  <2> QED
    BY <2>1, <2>2, <2>3, <2>4, Silence DEF Http!End
<1>6. ASSUME NEW offers \in Http!Offers, Http!Answered(offers) PROVE HttpInv'
  BY <1>2, <1>3, <1>6 DEF Http!Answered
<1>7. CASE Http!NoAnswer
  BY <1>2, <1>7 DEF Http!NoAnswer, JarInv
<1>8. CASE Http!Save
  <2>1. Http!Capture(jar) \in Jars
    BY ThoseOfJar DEF JarInv, Http!Capture
  <2>2. RequestInv'
    BY <1>8 DEF Http!Save, RequestInv
  <2>3. JarInv'
    BY <1>8, <2>1 DEF Http!Save, JarInv, PauseInv
  <2>4. PauseInv'
    BY <1>8 DEF Http!Save, RequestInv, PauseInv
  <2> QED
    BY <1>8, <2>2, <2>3, <2>4, Silence DEF Http!Save
<1>9. CASE Http!Restore
  <2>1. Http!Import(saved.cookies) \in Jars
    BY ImportIsJar DEF JarInv
  <2>2. RequestInv'
    BY <1>9 DEF Http!Restore, RequestInv
  <2>3. JarInv'
    BY <1>9, <2>1 DEF Http!Restore, JarInv
  <2>4. PauseInv'
    BY <1>9, Trusting
    DEF Http!Restore, Http!SavedCooldown, Http!Least, RequestInv, JarInv, PauseInv
  <2> QED
    BY <1>9, <2>2, <2>3, <2>4, Silence DEF Http!Restore
<1>10. CASE Http!OtherClock
  <2>1. RequestInv'
    BY <1>10 DEF Http!OtherClock, RequestInv
  <2> DEFINE pause == time + MaxPause + 1
  <2>2. saved' = [saved EXCEPT !.pause = pause, !.asked = 0] /\ pause \in Nat
        /\ UNCHANGED <<time, url, jar, cooldown, paused>>
    BY <1>10, Trusting DEF Http!OtherClock, RequestInv
  <2> HIDE DEF pause
  <2>3. saved' \in [cookies : Jars, pause : Nat, asked : Nat] /\ saved'.asked = 0
    <3>1. saved \in [cookies : Jars, pause : Nat, asked : Nat]
      BY DEF JarInv
    <3>2. saved' = [cookies |-> saved.cookies, pause |-> pause, asked |-> 0]
      BY <2>2, <3>1
    <3> QED
      BY <2>2, <3>1, <3>2
  <2>4. JarInv'
    BY <2>2, <2>3 DEF JarInv
  <2>5. PauseInv'
    <3>1. time' = time /\ url' = url /\ cooldown' = cooldown /\ paused' = paused
      BY <2>2
    <3>2. saved'.asked = 0
      BY <2>3
    <3> QED
      BY <3>1, <3>2, Trusting DEF RequestInv, PauseInv
  <2> QED
    BY <1>10, <2>1, <2>4, <2>5, Silence DEF Http!OtherClock
<1>11. CASE Http!Tick
  <2>1. RequestInv'
    BY <1>11 DEF Http!Tick, RequestInv
  <2>2. JarInv'
    BY <1>11 DEF Http!Tick, JarInv
  <2>3. PauseInv'
    BY <1>11, Trusting DEF Http!Tick, RequestInv, JarInv, PauseInv
  <2> QED
    BY <1>11, <2>1, <2>2, <2>3, Silence DEF Http!Tick
<1>12. CASE UNCHANGED Http!vars
  BY <1>12 DEF Http!vars, RequestInv, JarInv, PauseInv, SecretsStayHome, PauseIsKept,
               Http!SecretsStayHome, Http!PauseIsKept
<1> QED
  <2>1. CASE Http!Next
    BY <1>1, <1>4, <1>5, <1>6, <1>7, <1>8, <1>9, <1>10, <1>11, <2>1 DEF Http!Next
  <2> QED
    BY <1>12, <2>1

\* In every state the request, the jar and the saved session are what a process can
\* go on from, and a pause is over or known to it and to the next one (Http, Jar).
THEOREM HttpInductive == Http!Spec => []HttpInv
BY HttpInit, HttpStep, PTL DEF Http!Spec

\* A form goes to no other host than its own, on any chain of redirects, and no host
\* is sent the cookie that another one keeps to itself, for any jar and any sequence of
\* responses (Http::hops, Jar::header).
THEOREM SecretsStay == Http!Spec => []SecretsStayHome
<1>1. HttpInv => SecretsStayHome
  BY DEF HttpInv
<1> QED
  BY <1>1, HttpInductive, PTL

\* A pause is kept by the process that was asked and by the next one (Http::request,
\* SavedSession::cooldown).
THEOREM PausesAreKept == Http!Spec => []PauseIsKept
<1>1. HttpInv => PauseIsKept
  BY DEF HttpInv
<1> QED
  BY <1>1, HttpInductive, PTL

\* The cookies with a value, and those that are sent: first the ones of longer paths.
WithValue == {c \in Cookies : c.value # ""}

Longer(u) == {c \in Cookies : Http!Matches(c, u) /\ ~Http!Expired(c) /\ c.path # Top}

Shorter(u) == {c \in Cookies : Http!Matches(c, u) /\ ~Http!Expired(c) /\ c.path = Top}

LEMMA CaptureIsThose ==
    ASSUME NEW s \in Seq(Cookies)
    PROVE  Http!Capture(s) = Http!Those(s, WithValue)
<1> DEFINE A == Http!All(s)
           W == {c \in A : c.value # ""}
<1>1. s \in Seq(A) /\ A \subseteq Cookies
  BY LenProperties DEF Http!All
<1>2. Http!Capture(s) = Http!Those(s, W)
  BY DEF Http!Capture
<1> HIDE DEF A
<1>3. A \cap W = A \cap WithValue
  BY <1>1 DEF WithValue
<1> HIDE DEF W
<1> QED
  BY <1>1, <1>2, <1>3, ThoseAgree

LEMMA HeaderIsThose ==
    ASSUME NEW s \in Seq(Cookies), NEW u
    PROVE  Http!Header(s, u) = Http!Those(s, Longer(u)) \o Http!Those(s, Shorter(u))
<1> DEFINE A == Http!All(s)
           found == {c \in A : Http!Matches(c, u) /\ ~Http!Expired(c)}
           R == {c \in found : c.path # Top}
           S == {c \in found : c.path = Top}
<1>1. s \in Seq(A) /\ A \subseteq Cookies
  BY LenProperties DEF Http!All
<1>2. Http!Header(s, u) = Http!Those(s, R) \o Http!Those(s, S)
  BY DEF Http!Header
<1> HIDE DEF A
<1>3. A \cap R = A \cap Longer(u) /\ A \cap S = A \cap Shorter(u)
  BY <1>1 DEF Longer, Shorter
<1> HIDE DEF R, S
<1>4. Http!Those(s, R) = Http!Those(s, Longer(u)) /\ Http!Those(s, S) = Http!Those(s, Shorter(u))
  BY <1>1, <1>3, ThoseAgree
<1> QED
  BY <1>2, <1>4

LEMMA Shown ==
    ASSUME NEW s \in Jars, NEW u
    PROVE  Http!Capture(Http!Header(s, u))
             = Http!Those(s, Longer(u) \cap WithValue) \o Http!Those(s, Shorter(u) \cap WithValue)
<1> DEFINE p == Http!Those(s, Longer(u))
           q == Http!Those(s, Shorter(u))
<1>1. s \in Seq(Cookies)
  BY DEF Jars
<1>2. p \in Seq(Cookies) /\ q \in Seq(Cookies)
  BY ThoseOfJar DEF Jars
<1>3. Http!Header(s, u) = p \o q
  BY <1>1, HeaderIsThose
<1>4. /\ Http!Those(p, WithValue) = Http!Those(s, Longer(u) \cap WithValue)
      /\ Http!Those(q, WithValue) = Http!Those(s, Shorter(u) \cap WithValue)
  BY <1>1, ThoseTwice
<1> HIDE DEF p, q
<1>5. Http!Capture(p \o q) = Http!Those(p, WithValue) \o Http!Those(q, WithValue)
  <2>1. p \o q \in Seq(Cookies)
    BY <1>2, ConcatProperties
  <2>2. Http!Capture(p \o q) = Http!Those(p \o q, WithValue)
    BY <2>1, CaptureIsThose
  <2> QED
    BY <1>2, <2>2, ThoseConcat
<1> QED
  BY <1>3, <1>4, <1>5

LEMMA Restoring ==
    ASSUME NEW s \in Jars, NEW u
    PROVE  Http!Capture(Http!Header(Http!Import(Http!Capture(s)), u)) = Http!Capture(Http!Header(s, u))
<1> DEFINE k == Http!Capture(s)
           P == Longer(u) \cap WithValue
           Q == Shorter(u) \cap WithValue
<1>1. WithValue \cap P = P /\ WithValue \cap Q = Q
  OBVIOUS
<1>2. s \in Seq(Cookies)
  BY DEF Jars
<1>3. k \in Jars /\ k = Http!Those(s, WithValue)
  BY <1>2, CaptureIsThose, ThoseOfJar
<1>4. Http!Import(k) = k
  BY <1>3, ImportIsJar
<1> HIDE DEF P, Q
<1>5. Http!Those(k, P) = Http!Those(s, P) /\ Http!Those(k, Q) = Http!Those(s, Q)
  BY <1>1, <1>2, <1>3, ThoseTwice
<1> HIDE DEF k
<1>6. \A t \in Jars : Http!Capture(Http!Header(t, u)) = Http!Those(t, P) \o Http!Those(t, Q)
  BY Shown DEF P, Q
<1> QED
  BY <1>3, <1>4, <1>5, <1>6 DEF k

\* A process that goes on from a session saved now sends what this one would: the same
\* cookies with a value, in the same order, to every address, for any jar (capture,
\* Jar::serialize, Jar::import, Jar::header).
THEOREM RestoredIsSame == Http!Spec => []RestoredSendsSame
<1>1. HttpInv => RestoredSendsSame
  BY Restoring DEF HttpInv, JarInv, RestoredSendsSame, Http!RestoredSendsSame
<1> QED
  BY <1>1, HttpInductive, PTL
================================================================================
