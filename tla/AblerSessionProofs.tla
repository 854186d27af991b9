-------------------------- MODULE AblerSessionProofs --------------------------
(***************************************************************************)
(* Proofs about AblerSession for any servers, commands, plaintext files    *)
(* and rotations.  Whoever uses a session or changes the record holds the  *)
(* store's lock, so that a session's slot in the record is the jar it has  *)
(* in memory until it rotates; and a login's jar is new when it is saved,  *)
(* so that it is in one slot at most and its id names no other candidate.  *)
(* Its last part is about BrowserLogin, in which that login is captured.   *)
(***************************************************************************)
EXTENDS AblerMcp, TLAPS, FiniteSetTheorems

-----------------------------------------------------------------------------
(* The inductive invariant, in named parts                                 *)

\* Who is in a session or a change owns the store's lock.
HoldInv ==
    \A p \in Process :
        /\ pc[p] \in InSession \cup InChange => storeLock = p
        /\ pc[p] \in InSession => jar[p] \in Jar
        /\ p \in Client => pc[p] \in (InSession \ {"passed"}) \cup {"idle", "crashed"}

\* A plaintext file holds its own login, an old candidate the retained one, and
\* of every login that is anywhere the upstream consumed all earlier rotations.
Chained(j, tokens) ==
    j # None => \A k \in 0..(j.n - 1) : [login |-> j.login, n |-> k] \in tokens

FileInv ==
    \A q \in Path :
        /\ plain[q] # None => plain[q].login = q
        /\ pending[q] # None => pending[q] = [login |-> Retained, n |-> 0]

ChainInv ==
    /\ IsFiniteSet(consumed) /\ Cardinality(consumed) <= MaxRotation
    /\ Chained(store.current, consumed) /\ Chained(store.candidate, consumed)
    /\ \A q \in Path : Chained(plain[q], consumed)
    /\ \A p \in Process : Chained(jar[p], consumed)

\* A session's jar is its slot in the record, or a rotation of it; before the
\* store decides, that of a server's own plaintext file.
SessionInv ==
    \A p \in Process : pc[p] \in InSession \ {"close"} =>
        IF Decides
        THEN /\ out = {} /\ store.state = "saved"
             /\ OfSlot(p, store) # None
             /\ OfSlot(p, store).login = jar[p].login
             /\ OfSlot(p, store).n <= jar[p].n
             /\ pc[p] \in {"open", "rotated", "renewed", "passed"} => OfSlot(p, store) = jar[p]
        ELSE /\ p \in Client /\ pc[p] # "lose"
             /\ path[p] \notin out
             /\ jar[p].login = path[p]

\* A command that has not saved its login's jar has left no trace of it.
Without(a, record) ==
    /\ record.current # None => record.current.login # a
    /\ record.candidate # None => record.candidate.login # a
    /\ record.id # a

FreshInv ==
    \A a \in Admin : pc[a] \in {"idle", "begin", "change"} =>
        /\ Without(a, store)
        /\ \A t \in spent : t.login # a
        /\ \A b \in Admin : target[b] # a

\* The slots hold two logins, and no token that is recorded as spent.
Offers(j) == j # None => \A t \in spent : t.login = j.login => t.n < j.n

Sound(record) ==
    /\ record.current # None /\ record.candidate # None =>
           record.current.login # record.candidate.login
    /\ Offers(record.current) /\ Offers(record.candidate)

SpentInv ==
    /\ store.state # "saved" => store.current = None /\ store.candidate = None
    /\ store.state \in {"absent", "fresh"} => spent = {}
    /\ Sound(store)

\* After its verification, a command's candidate is a verified login as long as
\* the record has it.
VerifiedInv ==
    \A a \in Admin :
        /\ pc[a] = "passed" /\ store.candidate # None => store.candidate.login \in verified
        /\ pc[a] \in {"promote", "commit"} /\ store.candidate # None /\ store.id = target[a] =>
               store.candidate.login \in verified

\* What a logout has done so far; it has no candidate to verify.
OutInv ==
    \A a \in Admin :
        /\ pc[a] \in {"clean", "cleanRest"} /\ op[a] = "logout" =>
               store.current = None /\ store.candidate = None
        /\ pc[a] = "cleanRest" => plain[path[a]] = None
        /\ pc[a] \in {"idle", "begin"} => target[a] = None
        /\ op[a] = "logout" =>
               target[a] = None /\ pc[a] \notin InSession \cup {"verify", "promote", "commit"}

IInv ==
    /\ TypeOK /\ HoldInv /\ FileInv /\ ChainInv /\ SessionInv /\ FreshInv
    /\ SpentInv /\ VerifiedInv /\ OutInv
    /\ SpentStaysSpent /\ PromotedIsVerified /\ LogoutFinal

-----------------------------------------------------------------------------
(* What the steps have in common                                           *)

\* One process has the store's lock at a time.
LEMMA Alone ==
    ASSUME HoldInv, NEW p \in Process, NEW q \in Process, p # q,
           pc[p] \in InSession \cup InChange
    PROVE  pc[q] \notin InSession \cup InChange
  BY DEF HoldInv

\* A crashed owner is in no session, nor is one of a free lock.
LEMMA Available ==
    ASSUME HoldInv, TypeOK, Free(storeLock), NEW q \in Process
    PROVE  pc[q] \notin InSession \cup InChange
  BY DEF HoldInv, Free, InSession, InChange, TypeOK

Within(p) ==
    \/ Refresh(p) \/ RefreshFails(p) \/ TakeRotation(p) \/ AnswerLost(p) \/ HeadTooLarge(p)
    \/ SaveRotation(p) \/ SaveFails(p) \/ Lose(p) \/ LoseFails(p) \/ Query(p) \/ Close(p)

Inside(a) ==
    \/ GiveUp(a) \/ ResetStore(a) \/ CreateKey(a) \/ Write(a) \/ WriteFails(a)
    \/ CleanOnly(a) \/ Find(a) \/ CleanPlain(a) \/ CleanRest(a) \/ Release(a)

Outside(a) ==
    Begin(a) \/ Enter(a) \/ EnterFails(a) \/ VerifyFails(a) \/ Leave(a)

\* The steps by what they need the store's lock for.
LEMMA Steps ==
    Next <=> \/ \E p \in Process : Open(p) \/ Within(p) \/ Crash(p)
             \/ \E a \in Admin : Inside(a) \/ Outside(a)
             \/ LoseKey \/ RemoveStore
  BY DEF Next, Session, Change, Within, Inside, Outside

\* A step within a session or a change is one of the lock's holder.
LEMMA Holders ==
    ASSUME HoldInv, TypeOK
    PROVE  /\ \A p \in Process : Within(p) => pc[p] \in InSession /\ jar[p] \in Jar
           /\ \A a \in Admin : Inside(a) => pc[a] \in InChange
  BY DEF HoldInv, Within, Inside, Refresh, RefreshFails, TakeRotation, AnswerLost, HeadTooLarge,
         SaveRotation, SaveFails, Lose, LoseFails, Query, Close, GiveUp, ResetStore, CreateKey,
         Write, WriteFails, CleanOnly, Find, CleanPlain, CleanRest, Release, Goto, InSession, InChange

-----------------------------------------------------------------------------
(* Rotations stay within their bound                                       *)

\* Of a jar that the upstream consumed there is room for the next rotation.
LEMMA Room ==
    ASSUME ChainInv, NEW j \in Jar, j \in consumed, Chained(j, consumed)
    PROVE  j.n + 1 \in 0..MaxRotation
<1> DEFINE Token(k) == [login |-> j.login, n |-> k]
           f == [k \in 0..j.n |-> Token(k)]
<1>1. j.n \in Nat /\ j.n \in 0..MaxRotation /\ j = Token(j.n)
  BY AblerAssumption DEF Jar
<1>2. \A k \in 0..j.n : Token(k) \in consumed
  BY <1>1, AblerAssumption DEF Chained
<1>3. f \in Injection(0..j.n, consumed)
  BY <1>2 DEF Injection, IsInjective
<1>4. Cardinality(0..j.n) <= Cardinality(consumed)
  BY <1>3, FS_Injection DEF ChainInv
<1>5. Cardinality(0..j.n) = j.n + 1
  <2>1. 0 \in Int /\ j.n \in Int /\ ~(0 > j.n) /\ j.n - 0 + 1 = j.n + 1
    BY <1>1
  <2> QED
    BY <2>1, FS_Interval
<1>6. Cardinality(consumed) \in Nat
  BY FS_CardinalityType DEF ChainInv
<1> QED
  BY <1>1, <1>4, <1>5, <1>6, AblerAssumption DEF ChainInv

-----------------------------------------------------------------------------
(* Types                                                                   *)

Record == [state: {"absent", "fresh", "lost", "saved"},
           current: Slot, candidate: Slot, id: Admin \cup {None}]

\* What is written to the record is one.
LEMMA Records ==
    ASSUME TypeOK
    PROVE  /\ store \in Record /\ Absent \in Record /\ Fresh \in Record /\ Lost \in Record
           /\ \A a \in Admin : NewRecord(a) \in Record
           /\ \A p \in Process : jar[p] \in Jar => WithSlot(p, store, jar[p]) \in Record
           /\ \A new \in Record : Torn(new) \subseteq Record
<1> USE DEF Record, Slot
<1>1. store \in Record /\ Absent \in Record /\ Fresh \in Record /\ Lost \in Record
  BY DEF TypeOK, Absent, Fresh, Lost
<1>2. ASSUME NEW a \in Admin
      PROVE  NewRecord(a) \in Record
  <2>1. [login |-> a, n |-> 0] \in Jar
    BY AblerAssumption DEF Jar, Login
  <2>2. path[a] \in Path
    BY DEF TypeOK, Process
  <2> QED
    BY <1>1, <2>1, <2>2 DEF NewRecord, Saved, TypeOK
<1>3. ASSUME NEW p \in Process, jar[p] \in Jar
      PROVE  WithSlot(p, store, jar[p]) \in Record
  BY <1>1, <1>3 DEF WithSlot
<1>4. ASSUME NEW new \in Record
      PROVE  Torn(new) \subseteq Record
  BY <1>1 DEF Torn
<1> QED
  BY <1>1, <1>2, <1>3, <1>4

\* Values keep their types in every step.
LEMMA TypeStep ==
    ASSUME TypeOK, HoldInv, ChainInv, [Next]_vars
    PROVE  TypeOK'
<1> USE DEF Goto, disk, locks, held, history
<1> DEFINE Typed == /\ store \in Record
                    /\ key \in BOOLEAN
                    /\ plain \in [Path -> Slot] /\ pending \in [Path -> Slot]
                    /\ fileLock \in [Path -> Admin \cup {Nobody}]
                    /\ storeLock \in Process \cup {Nobody}
                    /\ pc \in [Process -> PC]
                    /\ op \in [Admin -> Command \cup {"none"}]
                    /\ path \in [Process -> Path]
                    /\ jar \in [Process -> Slot]
                    /\ target \in [Admin -> Admin \cup {None}]
                    /\ consumed \subseteq Jar /\ spent \subseteq Jar /\ reoffered \subseteq Jar
                    /\ verified \subseteq Login /\ out \subseteq Path
<1>0. TypeOK => Typed
  BY DEF TypeOK, Record
<1>01. Typed' => TypeOK'
  BY DEF TypeOK, Record
<1>1. ASSUME NEW p \in Process, Open(p)
      PROVE  TypeOK'
  <2>1. SavedJar(p) \in Slot
    BY <1>0 DEF SavedJar, OfSlot, Record, Slot
  <2> QED
    BY <1>1, <2>1 DEF Open, TypeOK, PC, InSession
<1>2. ASSUME NEW p \in Process, Within(p)
      PROVE  TypeOK'
  <2>0. pc[p] \in InSession /\ jar[p] \in Jar /\ jar[p].login \in Login
    BY <1>2, Holders DEF Jar
  <2>1. CASE Refresh(p)
    BY <2>0, <2>1 DEF Refresh, TypeOK, PC, InSession
  <2>2. CASE RefreshFails(p)
    BY <2>0, <2>2 DEF RefreshFails, TypeOK, PC, InSession
  <2>3. CASE TakeRotation(p)
    <3>1. jar[p] \in consumed => jar[p].n + 1 \in 0..MaxRotation
      BY <2>0, Room DEF ChainInv
    <3>2. [jar[p] EXCEPT !.n = IF jar[p] \in consumed THEN @ + 1 ELSE @] \in Slot
      BY <2>0, <3>1 DEF Jar, Slot
    <3> QED
      BY <2>3, <3>2 DEF TakeRotation, TypeOK, PC, InSession
  <2>4. CASE AnswerLost(p) \/ HeadTooLarge(p) \/ LoseFails(p)
    BY <2>4 DEF AnswerLost, HeadTooLarge, LoseFails, TypeOK, PC, InSession
  <2>5. CASE SaveRotation(p)
    <3>1. Before(jar[p]) \subseteq Jar
      BY DEF Before
    <3>2. pc' \in [Process -> PC]
      BY <2>5 DEF SaveRotation, TypeOK, PC, InSession
    <3>3. CASE Decides
      BY <1>0, <1>01, <2>0, <2>5, <3>1, <3>2, <3>3, Records DEF SaveRotation
    <3>4. CASE ~Decides
      BY <2>0, <2>5, <3>2, <3>4 DEF SaveRotation, TypeOK, Slot
    <3> QED
      BY <3>3, <3>4
  <2>6. CASE SaveFails(p)
    <3>1. store' \in Record
      BY <2>0, <2>6, Records DEF SaveFails
    <3>2. pc' \in [Process -> PC]
      BY <2>6 DEF SaveFails, TypeOK, PC, InSession
    <3> QED
      BY <1>0, <1>01, <2>6, <3>1, <3>2 DEF SaveFails
  <2>7. CASE Lose(p)
    <3>1. Before(jar[p]) \subseteq Jar
      BY DEF Before
    <3>2. pc' \in [Process -> PC]
      BY <2>7 DEF Lose, TypeOK, PC, InSession
    <3> QED
      BY <1>0, <1>01, <2>7, <3>1, <3>2, Records DEF Lose
  <2>8. CASE Query(p)
    BY <2>0, <2>8 DEF Query, TypeOK, PC, InSession
  <2>9. CASE Close(p)
    <3>1. None \in Slot
      BY DEF Slot
    <3> QED
      BY <2>9, <3>1 DEF Close, TypeOK, PC, InSession
  <2> QED
    BY <1>2, <2>1, <2>2, <2>3, <2>4, <2>5, <2>6, <2>7, <2>8, <2>9 DEF Within
<1>3. ASSUME NEW p \in Process, Crash(p)
      PROVE  TypeOK'
  <2>1. None \in Slot
    BY DEF Slot
  <2> QED
    BY <1>3, <2>1 DEF Crash, TypeOK, PC
<1>4. ASSUME NEW a \in Admin, Inside(a)
      PROVE  TypeOK'
  <2>0. a \in Process /\ path[a] \in Path
    BY DEF Process, TypeOK
  <2>1. CASE GiveUp(a) \/ Find(a) \/ CleanOnly(a) \/ Release(a)
    BY <1>0, <1>01, <2>0, <2>1 DEF GiveUp, Find, CleanOnly, Release, TypeOK, PC, InChange
  <2>2. CASE ResetStore(a)
    BY <1>0, <1>01, <2>2, Records DEF ResetStore
  <2>3. CASE CreateKey(a)
    BY <2>3 DEF CreateKey, TypeOK
  <2>4. StillOut(a) \subseteq Path
    BY DEF StillOut, TypeOK
  <2>5. CASE Write(a)
    <3>1. pc' \in [Process -> PC] /\ target' \in [Admin -> Admin \cup {None}]
      BY <2>0, <2>5 DEF Write, TypeOK, PC, InChange
    <3> QED
      BY <1>0, <1>01, <2>4, <2>5, <3>1, Records DEF Write
  <2>6. CASE WriteFails(a)
    <3>1. pc' \in [Process -> PC] /\ target' \in [Admin -> Admin \cup {None}]
      BY <2>0, <2>6 DEF WriteFails, TypeOK, PC, InChange
    <3>2. store' \in Record
      BY <2>6, Records DEF WriteFails
    <3> QED
      BY <1>0, <1>01, <2>4, <2>6, <3>1, <3>2 DEF WriteFails
  <2>7. CASE CleanPlain(a) \/ CleanRest(a)
    <3>1. None \in Slot
      BY DEF Slot
    <3> QED
      BY <2>0, <2>7, <3>1 DEF CleanPlain, CleanRest, TypeOK, PC, InChange
  <2> QED
    BY <1>4, <2>1, <2>2, <2>3, <2>5, <2>6, <2>7 DEF Inside
<1>5. ASSUME NEW a \in Admin, Outside(a)
      PROVE  TypeOK'
  <2>0. a \in Process /\ path[a] \in Path
    BY DEF Process, TypeOK
  <2> QED
    BY <1>5, <2>0 DEF Outside, Begin, Enter, EnterFails, VerifyFails, Leave, TypeOK, PC, InChange
<1>6. CASE LoseKey
  BY <1>6 DEF LoseKey, TypeOK
<1>7. CASE RemoveStore
  BY <1>0, <1>01, <1>7, Records DEF RemoveStore
<1>8. CASE UNCHANGED vars
  BY <1>8 DEF vars, TypeOK
<1> QED
  BY <1>1, <1>2, <1>3, <1>4, <1>5, <1>6, <1>7, <1>8, Steps

-----------------------------------------------------------------------------
(* Locks, files and rotations                                              *)

\* A step of one process leaves the others where they are.
LEMMA Mover ==
    ASSUME TypeOK, NEW p \in Process,
           Open(p) \/ Within(p) \/ Crash(p) \/ (p \in Admin /\ (Inside(p) \/ Outside(p)))
    PROVE  /\ path' = path
           /\ \A q \in Process : q # p => pc'[q] = pc[q] /\ jar'[q] = jar[q]
           /\ \A b \in Admin : b # p => target'[b] = target[b] /\ op'[b] = op[b]
<1> USE DEF TypeOK, Goto, held
<1>1. CASE Open(p) \/ Within(p)
  BY <1>1 DEF Open, Within, Refresh, RefreshFails, TakeRotation, AnswerLost, HeadTooLarge,
     SaveRotation, SaveFails, Lose, LoseFails, Query, Close
<1>2. CASE Crash(p)
  BY <1>2 DEF Crash
<1>3. CASE p \in Admin /\ Inside(p)
  BY <1>3 DEF Inside, GiveUp, ResetStore, CreateKey, Write, WriteFails, CleanOnly, Find,
     CleanPlain, CleanRest, Release
<1>4. CASE p \in Admin /\ Outside(p)
  BY <1>4 DEF Outside, Begin, Enter, EnterFails, VerifyFails, Leave
<1> QED
  BY <1>1, <1>2, <1>3, <1>4

\* What a step of one process does to its place, its jar and the lock.
LEMMA HoldMove ==
    ASSUME TypeOK, HoldInv, ChainInv, NEW p \in Process, TypeOK',
           Open(p) \/ Within(p) \/ Crash(p) \/ (p \in Admin /\ (Inside(p) \/ Outside(p)))
    PROVE  /\ \/ storeLock' = storeLock
              \/ storeLock' = p /\ Free(storeLock)
              \/ storeLock' = Nobody /\ pc[p] \in InSession \cup InChange
           /\ pc'[p] \in InSession \cup InChange =>
                  storeLock' = p \/ (storeLock' = storeLock /\ pc[p] \in InSession \cup InChange)
           /\ pc'[p] \in InSession => jar'[p] \in Jar
           /\ p \in Client => pc'[p] \in (InSession \ {"passed"}) \cup {"idle", "crashed"}
<1> USE DEF Goto, held, locks, disk, InSession, InChange
<1>0. pc \in [Process -> PC]
  BY DEF TypeOK
<1>1. CASE Open(p)
  <2>1. SavedJar(p) \in Slot /\ SavedJar(p) # None
    BY <1>1 DEF Open, TypeOK, SavedJar, OfSlot, Slot
  <2>2. SavedJar(p) \in Jar
    BY <2>1 DEF Slot
  <2> QED
    BY <1>1, <2>2 DEF Open, TypeOK
<1>2. CASE Within(p)
  <2>0. jar'[p] \in Slot
    BY DEF TypeOK
  <2>1. CASE TakeRotation(p)
    <3>1. jar[p] \in Jar
      BY <2>1 DEF TakeRotation, HoldInv
    <3>2. jar'[p] = [jar[p] EXCEPT !.n = IF jar[p] \in consumed THEN @ + 1 ELSE @]
      BY <2>1 DEF TakeRotation, TypeOK
    <3>3. jar[p] \in consumed => jar[p].n + 1 \in 0..MaxRotation
      BY <3>1, Room DEF ChainInv
    <3>4. jar'[p] \in Jar
      BY <3>1, <3>2, <3>3 DEF Jar
    <3> QED
      BY <1>0, <2>1, <3>4 DEF TakeRotation, HoldInv
  <2>2. CASE Close(p)
    <3>1. pc'[p] = IF p \in Client THEN "idle" ELSE IF pc[p] = "passed" THEN "promote" ELSE "leave"
      BY <1>0, <2>2 DEF Close
    <3>2. storeLock' = Nobody /\ pc[p] \in {"close", "passed"}
      BY <2>2 DEF Close
    <3> QED
      BY <3>1, <3>2
  <2>3. CASE Refresh(p) \/ RefreshFails(p) \/ AnswerLost(p) \/ HeadTooLarge(p)
    BY <2>3 DEF Refresh, RefreshFails, AnswerLost, HeadTooLarge, TypeOK, HoldInv
  <2>4. CASE SaveRotation(p) \/ SaveFails(p) \/ Lose(p) \/ LoseFails(p) \/ Query(p)
    BY <2>4 DEF SaveRotation, SaveFails, Lose, LoseFails, Query, TypeOK, HoldInv
  <2> QED
    BY <1>2, <2>1, <2>2, <2>3, <2>4 DEF Within
<1>3. CASE Crash(p)
  BY <1>3 DEF Crash, TypeOK, HoldInv
<1>4. CASE p \in Admin /\ (Inside(p) \/ Outside(p))
  <2>0. p \notin Client
    BY <1>4, AblerAssumption
  <2>1. CASE GiveUp(p) \/ ResetStore(p) \/ CreateKey(p) \/ Write(p) \/ WriteFails(p)
    BY <1>4, <2>0, <2>1 DEF GiveUp, ResetStore, CreateKey, Write, WriteFails, TypeOK, HoldInv
  <2>2. CASE CleanOnly(p) \/ Find(p) \/ CleanPlain(p) \/ CleanRest(p) \/ Release(p)
    BY <1>4, <2>0, <2>2 DEF CleanOnly, Find, CleanPlain, CleanRest, Release, TypeOK, HoldInv
  <2>3. CASE Outside(p)
    BY <1>4, <2>0, <2>3 DEF Outside, Begin, Enter, EnterFails, VerifyFails, Leave, TypeOK, HoldInv
  <2> QED
    BY <1>4, <2>1, <2>2, <2>3 DEF Inside
<1> QED
  BY <1>1, <1>2, <1>3, <1>4

\* The store's lock has the owner that is at work.
LEMMA HoldStep ==
    ASSUME TypeOK, HoldInv, ChainInv, [Next]_vars, TypeOK'
    PROVE  HoldInv'
<1>1. ASSUME NEW p \in Process,
             Open(p) \/ Within(p) \/ Crash(p) \/ (p \in Admin /\ (Inside(p) \/ Outside(p)))
      PROVE  HoldInv'
  <2>1. \A q \in Process : q # p => pc'[q] = pc[q] /\ jar'[q] = jar[q]
    BY <1>1, Mover
  <2>2. /\ \/ storeLock' = storeLock
           \/ storeLock' = p /\ Free(storeLock)
           \/ storeLock' = Nobody /\ pc[p] \in InSession \cup InChange
        /\ pc'[p] \in InSession \cup InChange =>
               storeLock' = p \/ (storeLock' = storeLock /\ pc[p] \in InSession \cup InChange)
        /\ pc'[p] \in InSession => jar'[p] \in Jar
        /\ p \in Client => pc'[p] \in (InSession \ {"passed"}) \cup {"idle", "crashed"}
    BY <1>1, HoldMove
  <2>3. Free(storeLock) => \A q \in Process : pc[q] \notin InSession \cup InChange
    BY Available
  <2>4. pc[p] \in InSession \cup InChange =>
            \A q \in Process : q # p => pc[q] \notin InSession \cup InChange
    BY Alone
  <2> QED
    BY <2>1, <2>2, <2>3, <2>4 DEF HoldInv
<1>2. CASE LoseKey \/ RemoveStore \/ UNCHANGED vars
  BY <1>2 DEF LoseKey, RemoveStore, vars, locks, held, HoldInv
<1> QED
  BY <1>1, <1>2, Steps DEF Process

\* Plaintext files hold what they held, or the rotation of their own server.
LEMMA FileStep ==
    ASSUME TypeOK, FileInv, SessionInv, [Next]_vars
    PROVE  FileInv'
<1> USE DEF disk
<1>1. ASSUME NEW p \in Process, Open(p) \/ Crash(p) \/ Refresh(p) \/ RefreshFails(p) \/ TakeRotation(p)
             \/ AnswerLost(p) \/ HeadTooLarge(p) \/ SaveFails(p) \/ Lose(p) \/ LoseFails(p)
             \/ Query(p) \/ Close(p)
      PROVE  UNCHANGED <<plain, pending>>
  BY <1>1 DEF Open, Crash, Refresh, RefreshFails, TakeRotation, AnswerLost, HeadTooLarge,
     SaveFails, Lose, LoseFails, Query, Close
<1>2. ASSUME NEW p \in Process, SaveRotation(p)
      PROVE  FileInv'
  <2>1. ~Decides => jar[p].login = path[p]
    BY <1>2 DEF SaveRotation, SessionInv, InSession, Goto
  <2> QED
    BY <1>2, <2>1 DEF SaveRotation, FileInv, TypeOK
<1>3. ASSUME NEW a \in Admin, GiveUp(a) \/ ResetStore(a) \/ CreateKey(a) \/ Write(a) \/ WriteFails(a)
             \/ CleanOnly(a) \/ Find(a) \/ Release(a) \/ Outside(a)
      PROVE  UNCHANGED <<plain, pending>>
  BY <1>3 DEF GiveUp, ResetStore, CreateKey, Write, WriteFails, CleanOnly, Find, Release,
     Outside, Begin, Enter, EnterFails, VerifyFails, Leave
<1>4. ASSUME NEW a \in Admin, CleanPlain(a) \/ CleanRest(a)
      PROVE  FileInv'
  BY <1>4 DEF CleanPlain, CleanRest, FileInv, TypeOK
<1>5. CASE LoseKey \/ RemoveStore \/ UNCHANGED vars
  BY <1>5 DEF LoseKey, RemoveStore, vars, FileInv
<1>6. UNCHANGED <<plain, pending>> => FileInv'
  BY DEF FileInv
<1> QED
  BY <1>1, <1>2, <1>3, <1>4, <1>5, <1>6, Steps DEF Within, Inside

\* A record to be written is made of the jars that are there, or of a new login.
LEMMA ChainedRecords ==
    ASSUME TypeOK, FileInv, ChainInv
    PROVE  /\ \A a \in Admin : Chained(NewRecord(a).current, consumed)
                               /\ Chained(NewRecord(a).candidate, consumed)
           /\ \A p \in Process : Chained(WithSlot(p, store, jar[p]).current, consumed)
                                 /\ Chained(WithSlot(p, store, jar[p]).candidate, consumed)
<1>1. Chained(None, consumed)
  BY DEF Chained
<1>2. \A login : Chained([login |-> login, n |-> 0], consumed)
  BY DEF Chained
<1>3. \A q \in Path : Chained(pending[q], consumed)
  BY <1>1, <1>2 DEF FileInv
<1>4. \A c, d, id : Saved(c, d, id).current = c /\ Saved(c, d, id).candidate = d
  BY DEF Saved
<1>5. ASSUME NEW a \in Admin
      PROVE  Chained(NewRecord(a).current, consumed) /\ Chained(NewRecord(a).candidate, consumed)
  <2>1. path[a] \in Path
    BY DEF TypeOK, Process
  <2> HIDE DEF Chained
  <2> QED
    BY <1>1, <1>2, <1>3, <1>4, <2>1 DEF NewRecord, ChainInv
<1>6. ASSUME NEW p \in Process
      PROVE  /\ Chained(WithSlot(p, store, jar[p]).current, consumed)
             /\ Chained(WithSlot(p, store, jar[p]).candidate, consumed)
  BY DEF WithSlot, ChainInv, TypeOK
<1> QED
  BY <1>5, <1>6

\* Growing what the upstream consumed keeps every chain.
LEMMA ChainGrows ==
    ASSUME NEW C, NEW D, C \subseteq D, NEW j, Chained(j, C)
    PROVE  Chained(j, D)
  BY DEF Chained

\* The upstream consumes the rotations of a login in their order.
LEMMA ChainStep ==
    ASSUME TypeOK, HoldInv, FileInv, ChainInv, [Next]_vars
    PROVE  ChainInv'
<1> DEFINE Kept(j) == Chained(j, consumed)
           Same == IsFiniteSet(consumed) /\ Cardinality(consumed) <= MaxRotation
<1> USE DEF disk, held, history, Goto
<1>0. Kept(None) /\ Same
  BY DEF Chained, ChainInv
<1>1. ASSUME NEW p \in Process, Open(p)
      PROVE  ChainInv'
  <2>1. Kept(SavedJar(p))
    BY <1>0 DEF SavedJar, OfSlot, ChainInv, TypeOK
  <2> QED
    BY <1>1, <2>1 DEF Open, ChainInv, TypeOK
<1>2. ASSUME NEW p \in Process, Within(p)
      PROVE  ChainInv'
  <2>0. jar[p] \in Jar /\ Kept(jar[p])
    BY <1>2, Holders DEF ChainInv
  <2>1. CASE Refresh(p)
    <3>1. consumed \subseteq consumed' /\ UNCHANGED <<store, plain, jar>>
      BY <2>1 DEF Refresh
    <3>2. IsFiniteSet(consumed') /\ Cardinality(consumed') <= MaxRotation
      <4>1. CASE consumed' = consumed
        BY <1>0, <4>1
      <4>2. CASE Cardinality(consumed) < MaxRotation /\ consumed' = consumed \cup {jar[p]}
        <5>1. /\ IsFiniteSet(consumed \cup {jar[p]})
              /\ Cardinality(consumed \cup {jar[p]})
                     = IF jar[p] \in consumed THEN Cardinality(consumed) ELSE Cardinality(consumed) + 1
          BY <1>0, FS_AddElement
        <5>2. Cardinality(consumed) \in Nat
          BY <1>0, FS_CardinalityType
        <5> HIDE DEF Kept
        <5> QED
          BY <4>2, <5>1, <5>2, AblerAssumption
      <4> QED
        BY <2>1, <4>1, <4>2 DEF Refresh
    <3> QED
      BY <3>1, <3>2, ChainGrows DEF ChainInv
  <2>2. CASE TakeRotation(p)
    <3> DEFINE new == [jar[p] EXCEPT !.n = IF jar[p] \in consumed THEN @ + 1 ELSE @]
    <3>1. jar' = [jar EXCEPT ![p] = new] /\ UNCHANGED <<store, plain, consumed>>
      BY <2>2 DEF TakeRotation
    <3>2. Kept(new)
      BY <2>0, AblerAssumption DEF Chained, Jar
    <3> HIDE DEF new
    <3> QED
      BY <1>0, <3>1, <3>2 DEF ChainInv, TypeOK
  <2>3. CASE SaveRotation(p)
    BY <1>0, <2>0, <2>3, ChainedRecords DEF SaveRotation, ChainInv, TypeOK
  <2>4. CASE SaveFails(p)
    <3>1. \A r \in Torn(WithSlot(p, store, jar[p])) : Kept(r.current) /\ Kept(r.candidate)
      BY <1>0, ChainedRecords DEF Torn, Fresh, Absent, ChainInv
    <3>2. Kept(store'.current) /\ Kept(store'.candidate)
      BY <2>4, <3>1 DEF SaveFails, ChainInv
    <3> QED
      BY <2>4, <3>2 DEF SaveFails, ChainInv
  <2>5. CASE Lose(p)
    BY <1>0, <2>5 DEF Lose, Lost, Absent, ChainInv
  <2>6. CASE Close(p)
    BY <1>0, <2>6 DEF Close, ChainInv, TypeOK
  <2>7. CASE RefreshFails(p) \/ AnswerLost(p) \/ HeadTooLarge(p) \/ LoseFails(p) \/ Query(p)
    BY <2>7 DEF RefreshFails, AnswerLost, HeadTooLarge, LoseFails, Query, ChainInv
  <2> QED
    BY <1>2, <2>1, <2>2, <2>3, <2>4, <2>5, <2>6, <2>7 DEF Within
<1>3. ASSUME NEW p \in Process, Crash(p)
      PROVE  ChainInv'
  BY <1>0, <1>3 DEF Crash, ChainInv, TypeOK
<1>4. ASSUME NEW a \in Admin, Inside(a)
      PROVE  ChainInv'
  <2>1. CASE Write(a)
    BY <2>1, ChainedRecords DEF Write, ChainInv
  <2>2. CASE WriteFails(a)
    <3>1. \A r \in Torn(NewRecord(a)) : Kept(r.current) /\ Kept(r.candidate)
      BY <1>0, ChainedRecords DEF Torn, Fresh, Absent, ChainInv
    <3> QED
      BY <2>2, <3>1 DEF WriteFails, ChainInv
  <2>3. CASE ResetStore(a)
    BY <1>0, <2>3 DEF ResetStore, Fresh, Absent, ChainInv
  <2>4. CASE CleanPlain(a)
    BY <1>0, <2>4 DEF CleanPlain, ChainInv, TypeOK
  <2>5. CASE GiveUp(a) \/ CreateKey(a) \/ CleanOnly(a) \/ Find(a) \/ CleanRest(a) \/ Release(a)
    BY <2>5 DEF GiveUp, CreateKey, CleanOnly, Find, CleanRest, Release, ChainInv
  <2> QED
    BY <1>4, <2>1, <2>2, <2>3, <2>4, <2>5 DEF Inside
<1>5. ASSUME NEW a \in Admin, Outside(a)
      PROVE  ChainInv'
  BY <1>5 DEF Outside, Begin, Enter, EnterFails, VerifyFails, Leave, ChainInv
<1>6. CASE LoseKey \/ UNCHANGED vars
  BY <1>6 DEF LoseKey, vars, ChainInv
<1>7. CASE RemoveStore
  BY <1>0, <1>7 DEF RemoveStore, Absent, ChainInv
<1> QED
  BY <1>1, <1>2, <1>3, <1>4, <1>5, <1>6, <1>7, Steps

-----------------------------------------------------------------------------
(* Sessions                                                                *)

\* While a process is in a session nobody else changes the record, and no
\* logout ends.
LEMMA Undisturbed ==
    ASSUME TypeOK, HoldInv, NEW p \in Process,
           Open(p) \/ Within(p) \/ Crash(p) \/ (p \in Admin /\ (Inside(p) \/ Outside(p)))
    PROVE  \A q \in Process : q # p /\ pc[q] \in InSession \cup InChange =>
               UNCHANGED <<store, plain, pending, out, verified, spent>>
<1> USE DEF disk, history
<1>1. CASE Open(p)
  BY <1>1, Available DEF Open
<1>2. CASE Within(p)
  BY <1>2, Alone, Holders
<1>3. CASE Crash(p)
  BY <1>3 DEF Crash
<1>4. CASE p \in Admin /\ Inside(p)
  BY <1>4, Alone, Holders
<1>5. CASE p \in Admin /\ Outside(p)
  BY <1>5 DEF Outside, Begin, Enter, EnterFails, VerifyFails, Leave
<1> QED
  BY <1>1, <1>2, <1>3, <1>4, <1>5

\* A session that is opened has found its jar in a saved record, or in a
\* plaintext file that no logout ended.
LEMMA Opened ==
    ASSUME TypeOK, FileInv, SpentInv, LogoutFinal, NEW p \in Process, Open(p)
    PROVE  /\ pc'[p] = "open" /\ jar'[p] # None
           /\ UNCHANGED <<store, plain, out, path>>
           /\ IF Decides
              THEN out = {} /\ store.state = "saved" /\ jar'[p] = OfSlot(p, store)
              ELSE p \in Client /\ path[p] \notin out /\ jar'[p].login = path[p]
<1> USE DEF disk, history
<1>1. pc'[p] = "open" /\ jar'[p] = SavedJar(p) /\ SavedJar(p) # None
      /\ UNCHANGED <<store, plain, out, path>>
  BY DEF Open, Goto, TypeOK
<1>2. CASE Decides
  <2>1. SavedJar(p) = OfSlot(p, store) /\ (store.current # None \/ store.candidate # None)
    BY <1>1, <1>2 DEF SavedJar, OfSlot, Decides
  <2> QED
    BY <1>1, <1>2, <2>1 DEF SpentInv, LogoutFinal
<1>3. CASE ~Decides
  <2>1. p \in Client /\ SavedJar(p) = plain[path[p]] /\ path[p] \in Path
    BY <1>1, <1>3 DEF SavedJar, Decides, TypeOK
  <2> QED
    BY <1>1, <1>3, <2>1 DEF FileInv, LogoutFinal
<1> QED
  BY <1>1, <1>2, <1>3

\* Saving a jar touches its own slot.
LEMMA OwnSlot ==
    ASSUME NEW p \in Process, NEW r \in Record, NEW j \in Jar, OfSlot(p, r) # None
    PROVE  LET w == WithSlot(p, r, j) IN
           /\ OfSlot(p, w) = j /\ w.state = r.state /\ w.id = r.id
           /\ \/ p \in Client /\ w.current = j /\ w.candidate = r.candidate
              \/ p \notin Client /\ w.candidate = j /\ w.current = r.current
  BY AblerAssumption DEF OfSlot, WithSlot, Record, Process

\* A session's own steps.
LEMMA SessionMove ==
    ASSUME TypeOK, HoldInv, SessionInv, SpentInv, NEW p \in Process, Within(p),
           HoldInv', TypeOK', pc'[p] \in InSession \ {"close"}
    PROVE  IF Decides'
           THEN /\ out' = {} /\ store'.state = "saved"
                /\ OfSlot(p, store') # None
                /\ OfSlot(p, store').login = jar'[p].login
                /\ OfSlot(p, store').n <= jar'[p].n
                /\ pc'[p] \in {"open", "rotated", "renewed", "passed"} => OfSlot(p, store') = jar'[p]
           ELSE /\ p \in Client /\ pc'[p] # "lose"
                /\ path'[p] \notin out'
                /\ jar'[p].login = path'[p]
<1> USE DEF disk, history, held
<1>0. /\ pc[p] \in InSession /\ jar[p] \in Jar /\ store \in Record
      /\ pc \in [Process -> PC] /\ jar \in [Process -> Slot]
      /\ jar[p].n \in Nat
  BY Holders, AblerAssumption DEF TypeOK, Record, Jar
<1>1. CASE pc[p] = "close" \/ Close(p)
  BY <1>0, <1>1 DEF Within, Refresh, RefreshFails, TakeRotation, AnswerLost, HeadTooLarge,
     SaveRotation, SaveFails, Lose, LoseFails, Query, Close, Goto, InSession
<1>2. CASE pc[p] # "close" /\ Decides /\ ~Close(p)
  <2>0. /\ out = {} /\ store.state = "saved"
        /\ OfSlot(p, store) # None
        /\ OfSlot(p, store).login = jar[p].login
        /\ OfSlot(p, store).n <= jar[p].n
        /\ pc[p] \in {"open", "rotated", "renewed", "passed"} => OfSlot(p, store) = jar[p]
    BY <1>0, <1>2 DEF SessionInv
  <2>1. CASE Refresh(p) \/ Query(p) \/ HeadTooLarge(p)
    BY <1>0, <1>2, <2>0, <2>1 DEF Refresh, Query, HeadTooLarge, Goto, Decides, OfSlot
  <2>2. CASE TakeRotation(p)
    <3>1. jar'[p] = [jar[p] EXCEPT !.n = IF jar[p] \in consumed THEN @ + 1 ELSE @]
      BY <1>0, <2>2 DEF TakeRotation
    <3>2. jar'[p].login = jar[p].login /\ jar[p].n <= jar'[p].n
      BY <1>0, <3>1 DEF Jar
    <3>3. pc'[p] = "save" /\ UNCHANGED <<store, out>>
      BY <1>0, <2>2 DEF TakeRotation, Goto
    <3>4. OfSlot(p, store) = jar[p]
      BY <2>0, <2>2 DEF TakeRotation, Goto
    <3> QED
      BY <1>2, <2>0, <3>2, <3>3, <3>4 DEF Decides, OfSlot
  <2>3. CASE SaveRotation(p)
    <3>1. store' = WithSlot(p, store, jar[p]) /\ UNCHANGED <<jar, out>>
      BY <1>2, <2>3 DEF SaveRotation
    <3>2. OfSlot(p, store') = jar[p] /\ store'.state = "saved" /\ jar[p] # None
      BY <1>0, <2>0, <3>1, OwnSlot, AblerAssumption
    <3> QED
      BY <1>0, <2>0, <3>1, <3>2 DEF Decides
  <2>4. CASE SaveFails(p)
    <3>1. store' \in {store, WithSlot(p, store, jar[p])} /\ UNCHANGED <<jar, out>>
          /\ pc'[p] = "lose"
      BY <1>0, <1>2, <2>4 DEF SaveFails, Torn, Goto
    <3>2. CASE store' = store
      BY <1>2, <2>0, <3>1, <3>2 DEF Decides, OfSlot
    <3>3. CASE store' = WithSlot(p, store, jar[p])
      <4>1. OfSlot(p, store') = jar[p] /\ store'.state = "saved" /\ jar[p] # None
        BY <1>0, <2>0, <3>3, OwnSlot, AblerAssumption
      <4> QED
        BY <1>0, <2>0, <3>1, <4>1 DEF Decides
    <3> QED
      BY <3>1, <3>2, <3>3
  <2>5. CASE RefreshFails(p) \/ AnswerLost(p) \/ Lose(p) \/ LoseFails(p)
    BY <1>0, <2>5 DEF RefreshFails, AnswerLost, Lose, LoseFails, Goto
  <2> QED
    BY <1>2, <2>1, <2>2, <2>3, <2>4, <2>5 DEF Within
<1>3. CASE pc[p] # "close" /\ ~Decides /\ ~Close(p)
  <2>0. p \in Client /\ pc[p] # "lose" /\ path[p] \notin out /\ jar[p].login = path[p]
    BY <1>0, <1>3 DEF SessionInv
  <2>1. CASE TakeRotation(p)
    <3>1. jar'[p] = [jar[p] EXCEPT !.n = IF jar[p] \in consumed THEN @ + 1 ELSE @]
      BY <1>0, <2>1 DEF TakeRotation
    <3>2. jar'[p].login = jar[p].login
      BY <1>0, <3>1 DEF Jar
    <3>3. pc'[p] = "save" /\ UNCHANGED <<store, out, path>>
      BY <1>0, <2>1 DEF TakeRotation, Goto
    <3> QED
      BY <1>3, <2>0, <3>2, <3>3 DEF Decides
  <2>2. CASE Refresh(p) \/ Query(p) \/ SaveRotation(p)
    BY <1>0, <1>3, <2>0, <2>2 DEF Refresh, Query, SaveRotation, Goto, Decides
  <2>3. CASE RefreshFails(p) \/ AnswerLost(p) \/ HeadTooLarge(p) \/ SaveFails(p) \/ Lose(p) \/ LoseFails(p)
    BY <1>0, <1>3, <2>0, <2>3 DEF RefreshFails, AnswerLost, HeadTooLarge, SaveFails, Lose, LoseFails, Goto
  <2> QED
    BY <1>3, <2>1, <2>2, <2>3 DEF Within
<1> QED
  BY <1>1, <1>2, <1>3

\* A session keeps to its slot.
LEMMA SessionStep ==
    ASSUME TypeOK, HoldInv, FileInv, SessionInv, SpentInv, LogoutFinal, [Next]_vars, TypeOK', HoldInv'
    PROVE  SessionInv'
<1>1. ASSUME NEW p \in Process,
             Open(p) \/ Within(p) \/ Crash(p) \/ (p \in Admin /\ (Inside(p) \/ Outside(p))),
             NEW q \in Process, q # p, pc'[q] \in InSession \ {"close"}
      PROVE  UNCHANGED <<store, out, path>> /\ pc'[q] = pc[q] /\ jar'[q] = jar[q]
  BY <1>1, Mover, Undisturbed
<1>2. ASSUME NEW p \in Process,
             Crash(p) \/ (p \in Admin /\ (Inside(p) \/ Outside(p)))
      PROVE  pc'[p] \notin InSession
  BY <1>2 DEF Crash, Inside, Outside, GiveUp, ResetStore, CreateKey, Write, WriteFails, CleanOnly,
     Find, CleanPlain, CleanRest, Release, Begin, Enter, EnterFails, VerifyFails, Leave, Goto,
     InSession, InChange, TypeOK
<1>3. ASSUME NEW p \in Process, Open(p)
      PROVE  SessionInv'
  <2>1. /\ pc'[p] = "open" /\ jar'[p] # None
        /\ UNCHANGED <<store, plain, out, path>>
        /\ IF Decides
           THEN out = {} /\ store.state = "saved" /\ jar'[p] = OfSlot(p, store)
           ELSE p \in Client /\ path[p] \notin out /\ jar'[p].login = path[p]
    BY <1>3, Opened
  <2>2. jar'[p] \in Jar /\ jar'[p].n \in Nat
    BY <2>1, AblerAssumption DEF TypeOK, Slot, Jar
  <2> QED
    BY <1>1, <1>3, <2>1, <2>2 DEF SessionInv, Decides, OfSlot
<1>4. ASSUME NEW p \in Process, Within(p)
      PROVE  SessionInv'
  BY <1>1, <1>4, SessionMove DEF SessionInv, Decides, OfSlot
<1>5. ASSUME NEW p \in Process, Crash(p) \/ (p \in Admin /\ (Inside(p) \/ Outside(p)))
      PROVE  SessionInv'
  BY <1>1, <1>2, <1>5 DEF SessionInv, Decides, OfSlot
<1>6. CASE LoseKey \/ UNCHANGED vars
  BY <1>6 DEF LoseKey, vars, disk, held, history, SessionInv, Decides, OfSlot
<1>7. CASE RemoveStore
  BY <1>7, Available DEF RemoveStore, held, SessionInv
<1> QED
  BY <1>3, <1>4, <1>5, <1>6, <1>7, Steps DEF Process

-----------------------------------------------------------------------------
(* Logins that are new                                                     *)

\* A record that another command writes does not know a new login either.
LEMMA NewRecords ==
    ASSUME TypeOK, FileInv, NEW b \in Admin, Without(b, store)
    PROVE  /\ Without(b, Absent) /\ Without(b, Fresh) /\ Without(b, Lost)
           /\ \A a \in Admin \ {b} : Without(b, NewRecord(a))
<1>1. Without(b, Absent) /\ Without(b, Fresh) /\ Without(b, Lost)
  BY AblerAssumption DEF Without, Absent, Fresh, Lost
<1>2. ASSUME NEW a \in Admin \ {b}
      PROVE  Without(b, NewRecord(a))
  <2>1. path[a] \in Path /\ b \notin Path /\ b # Retained /\ b # None
    BY AblerAssumption DEF TypeOK, Process
  <2>2. \A c, d, id : /\ Saved(c, d, id).current = c /\ Saved(c, d, id).candidate = d
                      /\ Saved(c, d, id).id = id
    BY DEF Saved
  <2>3. plain[path[a]] # None => plain[path[a]].login # b
    BY <2>1 DEF FileInv
  <2>4. pending[path[a]] # None => pending[path[a]].login # b
    BY <2>1 DEF FileInv
  <2>5. [login |-> a, n |-> 0].login # b
    OBVIOUS
  <2> QED
    BY <2>1, <2>2, <2>3, <2>4, <2>5 DEF NewRecord, Without
<1> QED
  BY <1>1, <1>2

\* A command that is new after a step was new before it.
LEMMA StaysNew ==
    ASSUME TypeOK, NEW b \in Admin, [Next]_vars, pc'[b] \in {"idle", "begin", "change"}
    PROVE  /\ pc[b] \in {"idle", "begin", "change"}
           /\ ~(Write(b) \/ WriteFails(b) \/ Within(b) \/ Find(b))
<1> USE DEF Goto, held, InSession, InChange
<1>0. b \notin Client /\ b \in Process /\ pc \in [Process -> PC]
  BY AblerAssumption DEF Process, TypeOK
<1>1. Open(b) \/ Within(b) \/ Crash(b) => pc[b] \in {"idle", "begin", "change"}
  BY <1>0 DEF Open, Within, Refresh, RefreshFails, TakeRotation, AnswerLost, HeadTooLarge,
     SaveRotation, SaveFails, Lose, LoseFails, Query, Close, Crash
<1>2. Inside(b) \/ Outside(b) => pc[b] \in {"idle", "begin", "change"}
  BY <1>0 DEF Inside, GiveUp, ResetStore, CreateKey, Write, WriteFails, CleanOnly, Find,
     CleanPlain, CleanRest, Release, Outside, Begin, Enter, EnterFails, VerifyFails, Leave
<1>3. ~(Write(b) \/ WriteFails(b) \/ Within(b) \/ Find(b))
  BY <1>0 DEF Write, WriteFails, Find, Within, Refresh, RefreshFails, TakeRotation,
     AnswerLost, HeadTooLarge, SaveRotation, SaveFails, Lose, LoseFails, Query, Close
<1>4. LoseKey \/ RemoveStore \/ UNCHANGED vars => pc'[b] = pc[b]
  BY DEF LoseKey, RemoveStore, vars
<1>5. ASSUME NEW p \in Process, p # b,
             Open(p) \/ Within(p) \/ Crash(p) \/ (p \in Admin /\ (Inside(p) \/ Outside(p)))
      PROVE  pc'[b] = pc[b]
  BY <1>0, <1>5, Mover
<1> QED
  BY <1>0, <1>1, <1>2, <1>3, <1>4, <1>5, Steps DEF Process

\* A saved rotation, and one that is lost, are of a login in the record.
LEMMA OfTheRecord ==
    ASSUME TypeOK, HoldInv, SessionInv, NEW p \in Process, Decides,
           pc[p] \in {"save", "lose"}
    PROVE  /\ store.state = "saved" /\ OfSlot(p, store) # None /\ jar[p] \in Jar
           /\ OfSlot(p, store).login = jar[p].login
           /\ OfSlot(p, store).n <= jar[p].n
  BY DEF SessionInv, HoldInv, InSession

\* New logins stay unknown.
LEMMA FreshStep ==
    ASSUME TypeOK, HoldInv, FileInv, SessionInv, FreshInv, [Next]_vars
    PROVE  FreshInv'
<1> USE DEF disk, held, history
<1> SUFFICES ASSUME NEW b \in Admin, pc'[b] \in {"idle", "begin", "change"}
             PROVE  /\ Without(b, store')
                    /\ \A t \in spent' : t.login # b
                    /\ \A a \in Admin : target'[a] # b
  BY DEF FreshInv, Without
<1>0. /\ Without(b, store) /\ b # None
      /\ \A t \in spent : t.login # b
      /\ \A a \in Admin : target[a] # b
  BY StaysNew, AblerAssumption DEF FreshInv
<1>1. ASSUME NEW p \in Process, Within(p)
      PROVE  Without(b, store') /\ (\A t \in spent' : t.login # b)
  <2>1. CASE SaveRotation(p)
    <3>1. CASE Decides
      <4>1. /\ OfSlot(p, store) # None /\ jar[p] \in Jar
            /\ OfSlot(p, store).login = jar[p].login
        BY <2>1, <3>1, OfTheRecord DEF SaveRotation, Goto
      <4>2. jar[p].login # b
        BY <1>0, <4>1 DEF OfSlot, Without
      <4>3. Without(b, WithSlot(p, store, jar[p]))
        BY <1>0, <4>1, <4>2, OwnSlot DEF Without, TypeOK, Record
      <4> QED
        BY <1>0, <2>1, <3>1, <4>2, <4>3 DEF SaveRotation, Before
    <3>2. CASE ~Decides
      BY <1>0, <2>1, <3>2 DEF SaveRotation
    <3> QED
      BY <3>1, <3>2
  <2>2. CASE SaveFails(p)
    <3>1. CASE Decides
      <4>1. /\ OfSlot(p, store) # None /\ jar[p] \in Jar
            /\ OfSlot(p, store).login = jar[p].login
        BY <2>2, <3>1, OfTheRecord DEF SaveFails, Goto
      <4>2. jar[p].login # b
        BY <1>0, <4>1 DEF OfSlot, Without
      <4>3. Without(b, WithSlot(p, store, jar[p]))
        BY <1>0, <4>1, <4>2, OwnSlot DEF Without, TypeOK, Record
      <4> QED
        BY <1>0, <2>2, <3>1, <4>3 DEF SaveFails, Torn
    <3>2. CASE ~Decides
      BY <1>0, <2>2, <3>2 DEF SaveFails
    <3> QED
      BY <3>1, <3>2
  <2>3. CASE Lose(p)
    <3>1. Decides
      BY <2>3 DEF Lose, Goto, SessionInv, InSession
    <3>2. /\ OfSlot(p, store) # None
          /\ OfSlot(p, store).login = jar[p].login
      BY <2>3, <3>1, OfTheRecord DEF Lose, Goto
    <3>3. jar[p].login # b
      BY <1>0, <3>2 DEF OfSlot, Without
    <3> QED
      BY <1>0, <2>3, <3>3, NewRecords DEF Lose, Before
  <2>4. CASE UNCHANGED <<store, spent>>
    BY <1>0, <2>4
  <2>5. Refresh(p) \/ RefreshFails(p) \/ TakeRotation(p) \/ AnswerLost(p) \/ HeadTooLarge(p)
        \/ LoseFails(p) \/ Query(p) \/ Close(p) => UNCHANGED <<store, spent>>
    BY DEF Refresh, RefreshFails, TakeRotation, AnswerLost, HeadTooLarge, LoseFails, Query, Close
  <2> QED
    BY <1>1, <2>1, <2>2, <2>3, <2>4, <2>5 DEF Within
<1>2. ASSUME NEW p \in Process, Open(p) \/ Within(p)
      PROVE  target' = target
  BY <1>2 DEF Open, Within, Refresh, RefreshFails, TakeRotation, AnswerLost, HeadTooLarge,
     SaveRotation, SaveFails, Lose, LoseFails, Query, Close
<1>3. ASSUME NEW p \in Process, Open(p) \/ Crash(p)
      PROVE  UNCHANGED <<store, spent>> /\ \A a \in Admin : target'[a] \in {target[a], None}
  BY <1>3 DEF Open, Crash, TypeOK
<1>4. ASSUME NEW a \in Admin, Inside(a)
      PROVE  /\ Without(b, store') /\ \A t \in spent' : t.login # b
             /\ \A c \in Admin : target'[c] # b
  <2>0. /\ target \in [Admin -> Admin \cup {None}]
        /\ ~(Write(b) \/ WriteFails(b) \/ Find(b))
    BY StaysNew DEF TypeOK
  <2>1. CASE Write(a)
    <3>0. a # b /\ store' = NewRecord(a)
      BY <2>0, <2>1 DEF Write
    <3>1. Without(b, NewRecord(a))
      BY <1>0, <3>0, NewRecords
    <3> QED
      BY <1>0, <2>0, <2>1, <3>0, <3>1 DEF Write
  <2>2. CASE WriteFails(a)
    <3>0. a # b /\ store' \in {store, NewRecord(a), Fresh}
      BY <2>0, <2>2 DEF WriteFails, Torn
    <3>1. Without(b, NewRecord(a)) /\ Without(b, Fresh)
      BY <1>0, <3>0, NewRecords
    <3> QED
      BY <1>0, <2>0, <2>2, <3>0, <3>1 DEF WriteFails
  <2>3. CASE ResetStore(a)
    BY <1>0, <2>3, NewRecords DEF ResetStore
  <2>4. CASE Find(a)
    BY <1>0, <2>0, <2>4 DEF Find, Without
  <2>5. CASE GiveUp(a)
    BY <1>0, <2>0, <2>5 DEF GiveUp
  <2>6. CASE CreateKey(a) \/ CleanOnly(a) \/ CleanPlain(a) \/ CleanRest(a) \/ Release(a)
    BY <1>0, <2>6 DEF CreateKey, CleanOnly, CleanPlain, CleanRest, Release
  <2> QED
    BY <1>4, <2>1, <2>2, <2>3, <2>4, <2>5, <2>6 DEF Inside
<1>5. ASSUME NEW a \in Admin, Outside(a)
      PROVE  UNCHANGED <<store, spent>> /\ \A c \in Admin : target'[c] \in {target[c], None}
  BY <1>5 DEF Outside, Begin, Enter, EnterFails, VerifyFails, Leave, TypeOK
<1>6. CASE LoseKey \/ UNCHANGED vars
  BY <1>0, <1>6 DEF LoseKey, vars
<1>7. CASE RemoveStore
  BY <1>0, <1>7, NewRecords DEF RemoveStore
<1> QED
  BY <1>0, <1>1, <1>2, <1>3, <1>4, <1>5, <1>6, <1>7, Steps

-----------------------------------------------------------------------------
(* Spent tokens stay spent                                                 *)

\* What a command writes offers no spent token.
LEMMA WrittenIsSound ==
    ASSUME TypeOK, FileInv, FreshInv, SpentInv, NEW a \in Admin, Writes(a),
           pc[a] \in {"change", "commit"}
    PROVE  NewRecord(a).state = "saved" /\ Sound(NewRecord(a))
<1>0. /\ \A c, d, id : /\ Saved(c, d, id).current = c /\ Saved(c, d, id).candidate = d
                       /\ Saved(c, d, id).state = "saved"
      /\ Offers(None)
  BY DEF Saved, Offers
<1>1. CASE pc[a] = "commit"
  BY <1>0, <1>1 DEF NewRecord, Sound, SpentInv
<1>2. CASE pc[a] = "change" /\ op[a] = "login"
  <2> DEFINE new == [login |-> a, n |-> 0]
             stays == IF Decides THEN store.current ELSE plain[path[a]]
  <2>1. NewRecord(a) = Saved(stays, new, a)
    BY <1>2 DEF NewRecord
  <2>2. Offers(new) /\ new # None /\ new.login = a
    BY <1>2, AblerAssumption DEF FreshInv, Offers, Jar, Login
  <2>3. CASE Decides
    BY <1>0, <1>2, <2>1, <2>2, <2>3 DEF Sound, SpentInv, FreshInv, Without
  <2>4. CASE ~Decides
    <3>1. spent = {}
      BY <2>4 DEF SpentInv, Decides
    <3>2. path[a] \in Path /\ a \notin Path
      BY AblerAssumption DEF TypeOK, Process
    <3>3. plain[path[a]] # None => plain[path[a]].login # a
      BY <3>2 DEF FileInv
    <3>4. Offers(stays)
      BY <3>1 DEF Offers
    <3> QED
      BY <1>0, <2>1, <2>2, <2>4, <3>3, <3>4 DEF Sound
  <2> QED
    BY <2>3, <2>4
<1>3. CASE pc[a] = "change" /\ op[a] = "migrate"
  <2>1. spent = {}
    BY <1>3 DEF Writes, SpentInv
  <2>2. \A j : Offers(j)
    BY <2>1 DEF Offers
  <2> QED
    BY <1>0, <1>3, <2>2 DEF NewRecord, Sound
<1>4. CASE pc[a] = "change" /\ op[a] \notin {"login", "migrate"}
  BY <1>0, <1>4 DEF NewRecord, Sound
<1> QED
  BY <1>1, <1>2, <1>3, <1>4

\* Nor does a record in which a session saved its rotation.
LEMMA RotatedIsSound ==
    ASSUME TypeOK, HoldInv, SessionInv, SpentInv, NEW p \in Process, Decides,
           pc[p] \in {"save", "lose"},
           spent' = spent \/ spent' = spent \cup Before(jar[p])
    PROVE  LET w == WithSlot(p, store, jar[p]) IN
           /\ w.state = "saved"
           /\ w.current # None /\ w.candidate # None => w.current.login # w.candidate.login
           /\ \A j \in {w.current, w.candidate} :
                 j # None => \A t \in spent' : t.login = j.login => t.n < j.n
<1> DEFINE was == OfSlot(p, store)
           j == jar[p]
           w == WithSlot(p, store, j)
<1>1. /\ store \in Record /\ was # None /\ j \in Jar /\ j # None
      /\ was.login = j.login /\ was.n <= j.n /\ store.state = "saved"
  BY OfTheRecord, AblerAssumption DEF TypeOK, Record
<1>2. was \in Jar
  BY <1>1 DEF OfSlot, Record, Slot
<1>3. was.n \in Nat /\ j.n \in Nat /\ \A t \in spent : t.n \in Nat
  BY <1>1, <1>2, AblerAssumption DEF Jar, TypeOK
<1>4. /\ w.state = "saved"
      /\ \/ p \in Client /\ w.current = j /\ w.candidate = store.candidate
         \/ p \notin Client /\ w.candidate = j /\ w.current = store.current
  BY <1>1, OwnSlot
<1>5. \A t \in spent' : t.login = j.login => t.n < j.n
  <2>1. \A t \in spent : t.login = j.login => t.n < was.n
    BY <1>1 DEF SpentInv, Sound, Offers, OfSlot
  <2> QED
    BY <1>1, <1>3, <2>1 DEF Before
<1>6. ASSUME NEW o, o # None, o \in {store.current, store.candidate}, o.login # j.login
      PROVE  \A t \in spent' : t.login = o.login => t.n < o.n
  BY <1>6 DEF SpentInv, Sound, Offers, Before
<1>7. store.current # None /\ store.candidate # None => store.current.login # store.candidate.login
  BY DEF SpentInv, Sound
<1>8. CASE p \in Client /\ w.current = j /\ w.candidate = store.candidate
  BY <1>1, <1>4, <1>5, <1>6, <1>7, <1>8 DEF OfSlot
<1>9. CASE p \notin Client /\ w.candidate = j /\ w.current = store.current
  BY <1>1, <1>4, <1>5, <1>6, <1>7, <1>9 DEF OfSlot
<1> QED
  BY <1>4, <1>8, <1>9

\* The record offers no spent token, and so none is sent again.
LEMMA SpentStep ==
    ASSUME TypeOK, HoldInv, FileInv, SessionInv, FreshInv, SpentInv, SpentStaysSpent, [Next]_vars
    PROVE  SpentInv' /\ SpentStaysSpent'
<1> USE DEF disk, held, history
<1>1. CASE UNCHANGED <<store, spent, reoffered>>
  BY <1>1 DEF SpentInv, Sound, Offers, SpentStaysSpent
<1>2. ASSUME NEW p \in Process, Within(p)
      PROVE  SpentInv' /\ SpentStaysSpent'
  <2>1. CASE Refresh(p) \/ RefreshFails(p)
    <3>1. UNCHANGED <<store, spent>>
      BY <2>1 DEF Refresh, RefreshFails
    <3>2. Decides => jar[p] \notin spent
      <4>1. pc[p] \in {"open", "renewed"} /\ jar[p] \in Jar
        BY <2>1, Holders, <1>2 DEF Refresh, RefreshFails, Goto
      <4>2. Decides => Offers(jar[p]) /\ jar[p] # None
        BY <4>1, AblerAssumption DEF SessionInv, InSession, SpentInv, Sound, OfSlot
      <4>3. ~(jar[p].n < jar[p].n)
        BY <4>1, AblerAssumption DEF Jar
      <4> QED
        BY <4>2, <4>3 DEF Offers
    <3>3. reoffered' = {}
      BY <2>1, <3>2 DEF Refresh, RefreshFails, SpentStaysSpent
    <3> QED
      BY <3>1, <3>3 DEF SpentInv, Sound, Offers, SpentStaysSpent
  <2>2. CASE SaveRotation(p)
    <3>1. CASE Decides
      <4>1. /\ pc[p] \in {"save", "lose"} /\ store' = WithSlot(p, store, jar[p])
            /\ spent' = spent \cup Before(jar[p]) /\ reoffered' = reoffered
        BY <2>2, <3>1 DEF SaveRotation, Goto
      <4> QED
        BY <3>1, <4>1, RotatedIsSound DEF SpentInv, Sound, Offers, SpentStaysSpent
    <3>2. CASE ~Decides
      BY <1>1, <2>2, <3>2 DEF SaveRotation
    <3> QED
      BY <3>1, <3>2
  <2>3. CASE SaveFails(p)
    <3>1. CASE Decides
      <4>1. /\ pc[p] \in {"save", "lose"} /\ store' \in {store, WithSlot(p, store, jar[p])}
            /\ spent' = spent /\ reoffered' = reoffered
        BY <2>3, <3>1 DEF SaveFails, Goto, Torn
      <4>2. CASE store' = WithSlot(p, store, jar[p])
        BY <3>1, <4>1, <4>2, RotatedIsSound DEF SpentInv, Sound, Offers, SpentStaysSpent
      <4> QED
        BY <1>1, <4>1, <4>2
    <3>2. CASE ~Decides
      BY <1>1, <2>3, <3>2 DEF SaveFails
    <3> QED
      BY <3>1, <3>2
  <2>4. CASE Lose(p)
    BY <2>4 DEF Lose, Lost, Absent, SpentInv, Sound, Offers, SpentStaysSpent
  <2>5. TakeRotation(p) \/ AnswerLost(p) \/ HeadTooLarge(p) \/ LoseFails(p) \/ Query(p) \/ Close(p)
            => UNCHANGED <<store, spent, reoffered>>
    BY DEF TakeRotation, AnswerLost, HeadTooLarge, LoseFails, Query, Close
  <2> QED
    BY <1>1, <1>2, <2>1, <2>2, <2>3, <2>4, <2>5 DEF Within
<1>3. ASSUME NEW a \in Admin, Inside(a)
      PROVE  SpentInv' /\ SpentStaysSpent'
  <2>1. CASE Write(a) \/ WriteFails(a)
    <3>1. /\ Writes(a) /\ pc[a] \in {"change", "commit"} /\ store' \in Torn(NewRecord(a))
          /\ spent' = spent /\ reoffered' = reoffered
      BY <2>1 DEF Write, WriteFails, Goto, Torn
    <3>2. NewRecord(a).state = "saved" /\ Sound(NewRecord(a))
      BY <3>1, WrittenIsSound
    <3>3. CASE store' = NewRecord(a)
      BY <3>1, <3>2, <3>3 DEF SpentInv, Sound, Offers, SpentStaysSpent
    <3>4. CASE ~Decides /\ store' = Fresh
      <4>1. spent = {}
        BY <3>4 DEF Decides, SpentInv
      <4> QED
        BY <3>1, <3>4, <4>1 DEF Fresh, Absent, SpentInv, Sound, Offers, SpentStaysSpent
    <3> QED
      BY <1>1, <3>1, <3>3, <3>4 DEF Torn
  <2>2. CASE ResetStore(a)
    BY <2>2 DEF ResetStore, Fresh, Absent, SpentInv, Sound, Offers, SpentStaysSpent
  <2>3. GiveUp(a) \/ CreateKey(a) \/ CleanOnly(a) \/ Find(a) \/ CleanPlain(a) \/ CleanRest(a) \/ Release(a)
            => UNCHANGED <<store, spent, reoffered>>
    BY DEF GiveUp, CreateKey, CleanOnly, Find, CleanPlain, CleanRest, Release
  <2> QED
    BY <1>1, <1>3, <2>1, <2>2, <2>3 DEF Inside
<1>4. ASSUME NEW p \in Process, Open(p) \/ Crash(p) \/ Outside(p)
      PROVE  UNCHANGED <<store, spent, reoffered>>
  BY <1>4 DEF Open, Crash, Outside, Begin, Enter, EnterFails, VerifyFails, Leave
<1>5. LoseKey \/ UNCHANGED vars => UNCHANGED <<store, spent, reoffered>>
  BY DEF LoseKey, vars
<1>6. CASE RemoveStore
  BY <1>6 DEF RemoveStore, Absent, SpentInv, Sound, Offers, SpentStaysSpent
<1> QED
  BY <1>1, <1>2, <1>3, <1>4, <1>5, <1>6, Steps DEF Process

-----------------------------------------------------------------------------
(* What a step makes of the record's logins                                *)

SameLogin(i, j) == (i = None <=> j = None) /\ (i # None => i.login = j.login)

\* A step leaves the record, empties it, saves a rotation, or is a command's.
LEMMA Rewritten ==
    ASSUME TypeOK, HoldInv, SessionInv, [Next]_vars
    PROVE  \/ store' = store
           \/ store'.current = None /\ store'.candidate = None
           \/ /\ \E p \in Process : Within(p) /\ pc[p] = "save" /\ Decides
              /\ store'.id = store.id
              /\ SameLogin(store.current, store'.current)
              /\ SameLogin(store.candidate, store'.candidate)
           \/ \E a \in Admin : (Write(a) \/ WriteFails(a)) /\ store' = NewRecord(a)
<1> USE DEF disk
<1>1. ASSUME NEW p \in Process, SaveRotation(p) \/ SaveFails(p), Decides, store' # store
      PROVE  /\ pc[p] = "save" /\ store'.id = store.id
             /\ SameLogin(store.current, store'.current)
             /\ SameLogin(store.candidate, store'.candidate)
  <2>1. pc[p] = "save" /\ store' = WithSlot(p, store, jar[p])
    BY <1>1 DEF SaveRotation, SaveFails, Torn, Goto
  <2>2. /\ store \in Record /\ OfSlot(p, store) # None /\ jar[p] \in Jar /\ jar[p] # None
        /\ OfSlot(p, store).login = jar[p].login
    BY <1>1, <2>1, OfTheRecord, AblerAssumption DEF TypeOK, Record
  <2> QED
    BY <2>1, <2>2, OwnSlot DEF SameLogin, OfSlot
<1>2. ASSUME NEW p \in Process, Within(p)
      PROVE  \/ store' = store
             \/ store'.current = None /\ store'.candidate = None
             \/ (SaveRotation(p) \/ SaveFails(p)) /\ Decides
  BY <1>2 DEF Within, Refresh, RefreshFails, TakeRotation, AnswerLost, HeadTooLarge,
     SaveRotation, SaveFails, Lose, LoseFails, Query, Close, Lost, Absent
<1>3. ASSUME NEW a \in Admin, Inside(a)
      PROVE  \/ store' = store
             \/ store'.current = None /\ store'.candidate = None
             \/ (Write(a) \/ WriteFails(a)) /\ store' = NewRecord(a)
  BY <1>3 DEF Inside, GiveUp, ResetStore, CreateKey, Write, WriteFails, CleanOnly, Find,
     CleanPlain, CleanRest, Release, Torn, Fresh, Absent
<1>4. ASSUME NEW p \in Process, Open(p) \/ Crash(p) \/ Outside(p)
      PROVE  store' = store
  BY <1>4 DEF Open, Crash, Outside, Begin, Enter, EnterFails, VerifyFails, Leave
<1>5. LoseKey \/ UNCHANGED vars => store' = store
  BY DEF LoseKey, vars
<1>6. RemoveStore => store'.current = None /\ store'.candidate = None
  BY DEF RemoveStore, Absent
<1> QED
  BY <1>1, <1>2, <1>3, <1>4, <1>5, <1>6, Steps DEF Process

\* What a command writes, by its kind.
LEMMA Written ==
    ASSUME TypeOK, FileInv, NEW a \in Admin, Writes(a), pc[a] \in {"change", "commit"}
    PROVE  LET r == NewRecord(a) IN
           \/ pc[a] = "commit" /\ r.current = store.candidate /\ r.candidate = None
                /\ store.candidate # None /\ store.id = target[a]
           \/ pc[a] = "change" /\ op[a] = "login" /\ r.id = a
                /\ (r.current = store.current \/ (r.current # None => r.current.login \in Path))
           \/ pc[a] = "change" /\ op[a] = "migrate"
                /\ (r.candidate = None \/ r.id = a)
                /\ (r.current # None => r.current.login \in Path)
                /\ (plain[path[a]] # None \/ pending[path[a]] # None)
           \/ pc[a] = "change" /\ op[a] = "logout" /\ r.current = None /\ r.candidate = None
<1>0. /\ \A c, d, id : /\ Saved(c, d, id).current = c /\ Saved(c, d, id).candidate = d
                       /\ Saved(c, d, id).id = id
      /\ path[a] \in Path
  BY DEF Saved, TypeOK, Process
<1>1. plain[path[a]] # None => plain[path[a]].login \in Path
  BY <1>0 DEF FileInv
<1>2. CASE pc[a] = "commit"
  BY <1>0, <1>2 DEF Writes, NewRecord
<1>3. CASE pc[a] = "change" /\ op[a] = "login"
  BY <1>0, <1>1, <1>3 DEF NewRecord
<1>4. CASE pc[a] = "change" /\ op[a] = "migrate"
  BY <1>0, <1>1, <1>4 DEF Writes, NewRecord
<1>5. CASE pc[a] = "change" /\ op[a] \notin {"login", "migrate"}
  BY <1>0, <1>5 DEF Writes, NewRecord
<1> QED
  BY <1>2, <1>3, <1>4, <1>5

-----------------------------------------------------------------------------
(* Promoted sessions are verified ones                                     *)

\* How a command comes to promote its candidate.
LEMMA Verifying ==
    ASSUME TypeOK, [Next]_vars, NEW b \in Admin, pc'[b] \in {"passed", "promote", "commit"}
    PROVE  /\ target'[b] = target[b]
           /\ ~(Write(b) \/ WriteFails(b))
           /\ pc'[b] = "passed"  => pc[b] = "passed" \/ Query(b)
           /\ pc'[b] = "promote" => pc[b] = "promote" \/ (pc[b] = "passed" /\ Close(b))
           /\ pc'[b] = "commit"  => pc[b] \in {"promote", "commit"}
<1> DEFINE Way == /\ target'[b] = target[b]
                  /\ pc'[b] = "passed"  => pc[b] = "passed" \/ Query(b)
                  /\ pc'[b] = "promote" => pc[b] = "promote" \/ (pc[b] = "passed" /\ Close(b))
                  /\ pc'[b] = "commit"  => pc[b] \in {"promote", "commit"}
<1> USE DEF Goto, held, InSession, InChange
<1>0. b \notin Client /\ b \in Process /\ pc \in [Process -> PC]
  BY AblerAssumption DEF Process, TypeOK
<1>1. Open(b) \/ Within(b) \/ Crash(b) => Way
  BY <1>0 DEF Open, Within, Refresh, RefreshFails, TakeRotation, AnswerLost, HeadTooLarge,
     SaveRotation, SaveFails, Lose, LoseFails, Query, Close, Crash
<1>2. Inside(b) \/ Outside(b) => Way
  BY <1>0 DEF Inside, GiveUp, ResetStore, CreateKey, Write, WriteFails, CleanOnly, Find,
     CleanPlain, CleanRest, Release, Outside, Begin, Enter, EnterFails, VerifyFails, Leave
<1>3. ~(Write(b) \/ WriteFails(b))
  BY <1>0 DEF Write, WriteFails
<1>4. LoseKey \/ RemoveStore \/ UNCHANGED vars => Way
  BY DEF LoseKey, RemoveStore, vars
<1>5. ASSUME NEW p \in Process, p # b,
             Open(p) \/ Within(p) \/ Crash(p) \/ (p \in Admin /\ (Inside(p) \/ Outside(p)))
      PROVE  Way
  BY <1>0, <1>5, Mover
<1> QED
  BY <1>0, <1>1, <1>2, <1>3, <1>4, <1>5, Steps DEF Process

\* Verified logins stay verified, and in a verification's hold the record stays.
LEMMA Verifieds ==
    ASSUME TypeOK, HoldInv, [Next]_vars
    PROVE  /\ verified \subseteq verified'
           /\ \A b \in Admin : pc[b] = "passed" /\ (pc'[b] = "passed" \/ Close(b))
                               => store' = store
<1> USE DEF disk, history, held
<1>1. ASSUME NEW p \in Process, Open(p) \/ Within(p) \/ Crash(p)
      PROVE  verified \subseteq verified'
  BY <1>1 DEF Open, Within, Refresh, RefreshFails, TakeRotation, AnswerLost, HeadTooLarge,
     SaveRotation, SaveFails, Lose, LoseFails, Query, Close, Crash
<1>2. ASSUME NEW a \in Admin, Inside(a) \/ Outside(a)
      PROVE  verified' = verified
  BY <1>2 DEF Inside, GiveUp, ResetStore, CreateKey, Write, WriteFails, CleanOnly, Find,
     CleanPlain, CleanRest, Release, Outside, Begin, Enter, EnterFails, VerifyFails, Leave
<1>3. LoseKey \/ RemoveStore \/ UNCHANGED vars => verified' = verified
  BY DEF LoseKey, RemoveStore, vars
<1>4. ASSUME NEW b \in Admin, pc[b] = "passed", pc'[b] = "passed" \/ Close(b)
      PROVE  store' = store
  <2>0. b \in Process /\ pc[b] \in InSession /\ pc \in [Process -> PC]
    BY <1>4 DEF Process, InSession, TypeOK
  <2>1. CASE Close(b)
    BY <2>1 DEF Close
  <2>2. Open(b) \/ Within(b) \/ Crash(b) \/ Inside(b) \/ Outside(b) => pc'[b] # "passed" \/ Close(b)
    BY <1>4, <2>0 DEF Open, Within, Refresh, RefreshFails, TakeRotation, AnswerLost, HeadTooLarge,
       SaveRotation, SaveFails, Lose, LoseFails, Query, Crash, Goto,
       Inside, GiveUp, ResetStore, CreateKey, Write, WriteFails, CleanOnly, Find,
       CleanPlain, CleanRest, Release, Outside, Begin, Enter, EnterFails, VerifyFails, Leave,
       InChange
  <2>3. ASSUME NEW p \in Process, p # b,
               Open(p) \/ Within(p) \/ Crash(p) \/ (p \in Admin /\ (Inside(p) \/ Outside(p)))
        PROVE  store' = store
    BY <2>0, <2>3, Undisturbed
  <2>4. ~RemoveStore
    BY <2>0, Available DEF RemoveStore
  <2>5. LoseKey \/ UNCHANGED vars => store' = store
    BY DEF LoseKey, vars
  <2> QED
    BY <1>4, <2>0, <2>1, <2>2, <2>3, <2>4, <2>5, Steps DEF Process
<1> QED
  BY <1>1, <1>2, <1>3, <1>4, Steps

\* The current session is a verified one, or one of a plaintext file.
LEMMA VerifiedStep ==
    ASSUME TypeOK, HoldInv, FileInv, SessionInv, FreshInv, VerifiedInv, PromotedIsVerified,
           [Next]_vars
    PROVE  VerifiedInv' /\ PromotedIsVerified'
<1>0. verified \subseteq verified'
  BY Verifieds
<1>1. PromotedIsVerified'
  <2>1. CASE store' = store \/ store'.current = None \/ SameLogin(store.current, store'.current)
    BY <1>0, <2>1 DEF PromotedIsVerified, SameLogin
  <2>2. ASSUME NEW a \in Admin, Write(a) \/ WriteFails(a), store' = NewRecord(a)
        PROVE  PromotedIsVerified'
    <3>1. Writes(a) /\ pc[a] \in {"change", "commit"}
      BY <2>2 DEF Write, WriteFails, Goto
    <3>2. \/ store'.current = None \/ store'.current = store.current
          \/ store'.current.login \in Path
          \/ store'.current.login \in verified
      BY <2>2, <3>1, Written DEF VerifiedInv
    <3> QED
      BY <1>0, <3>2 DEF PromotedIsVerified
  <2> QED
    BY <2>1, <2>2, Rewritten
<1>2. ASSUME NEW b \in Admin, pc'[b] = "passed", store'.candidate # None
      PROVE  store'.candidate.login \in verified'
  <2>1. CASE pc[b] = "passed"
    BY <1>0, <1>2, <2>1, Verifieds DEF VerifiedInv
  <2>2. CASE Query(b)
    <3>1. b \in Process /\ b \notin Client /\ Within(b)
      BY <2>2, AblerAssumption DEF Process, Within
    <3>2. store' = store /\ jar[b].login \in verified' /\ pc[b] = "renewed"
      BY <2>2, <3>1 DEF Query, Goto, disk
    <3>3. OfSlot(b, store) = jar[b]
      BY <3>1, <3>2 DEF SessionInv, InSession
    <3> QED
      BY <3>1, <3>2, <3>3 DEF OfSlot
  <2> QED
    BY <1>2, <2>1, <2>2, Verifying
<1>3. ASSUME NEW b \in Admin, pc'[b] \in {"promote", "commit"},
             store'.candidate # None, store'.id = target'[b]
      PROVE  store'.candidate.login \in verified'
  <2>0. target'[b] = target[b] /\ ~(Write(b) \/ WriteFails(b))
    BY <1>3, Verifying
  <2>1. CASE pc[b] = "passed" /\ Close(b)
    BY <1>0, <1>3, <2>1, Verifieds DEF VerifiedInv
  <2>2. CASE pc[b] \in {"promote", "commit"}
    <3>1. CASE store' = store
      BY <1>0, <1>3, <2>0, <2>2, <3>1 DEF VerifiedInv
    <3>2. CASE SameLogin(store.candidate, store'.candidate) /\ store'.id = store.id
      BY <1>0, <1>3, <2>0, <2>2, <3>2 DEF VerifiedInv, SameLogin
    <3>3. ASSUME NEW a \in Admin, Write(a) \/ WriteFails(a), store' = NewRecord(a)
          PROVE  FALSE
      <4>1. Writes(a) /\ pc[a] \in {"change", "commit"}
        BY <3>3 DEF Write, WriteFails, Goto
      <4>2. pc[a] = "change" /\ store'.id = a
        BY <1>3, <3>3, <4>1, Written
      <4> QED
        BY <1>3, <2>0, <4>2 DEF FreshInv
    <3> QED
      BY <1>3, <3>1, <3>2, <3>3, Rewritten
  <2> QED
    BY <1>3, <2>1, <2>2, Verifying
<1> QED
  BY <1>1, <1>2, <1>3 DEF VerifiedInv

-----------------------------------------------------------------------------
(* A logout is final                                                       *)

\* A logout verifies nothing, and what it has removed stays removed.
LEMMA LogoutMove ==
    ASSUME TypeOK, NEW b \in Admin, OutInv, [Next]_vars
    PROVE  /\ pc'[b] \in {"idle", "begin"} => target'[b] = None
           /\ op'[b] = "logout" =>
                 /\ target'[b] = None
                 /\ pc'[b] \notin InSession \cup {"verify", "promote", "commit"}
           /\ pc'[b] = "cleanRest" => pc[b] = "cleanRest" \/ CleanPlain(b)
           /\ pc'[b] = "clean"     => pc[b] = "clean" \/ Write(b) \/ CleanOnly(b)
<1> DEFINE Way ==
           /\ pc'[b] \in {"idle", "begin"} => target'[b] = None
           /\ op'[b] = "logout" =>
                 /\ target'[b] = None
                 /\ pc'[b] \notin InSession \cup {"verify", "promote", "commit"}
           /\ pc'[b] = "cleanRest" => pc[b] = "cleanRest" \/ CleanPlain(b)
           /\ pc'[b] = "clean"     => pc[b] = "clean" \/ Write(b) \/ CleanOnly(b)
<1> USE DEF Goto, held, InSession, InChange
<1>0. /\ b \notin Client /\ b \in Process /\ pc \in [Process -> PC]
      /\ op \in [Admin -> Command \cup {"none"}] /\ target \in [Admin -> Admin \cup {None}]
      /\ pc[b] \in {"idle", "begin"} => target[b] = None
      /\ op[b] = "logout" =>
               target[b] = None /\ pc[b] \notin InSession \cup {"verify", "promote", "commit"}
  BY AblerAssumption DEF Process, TypeOK, OutInv
<1>1. Open(b) \/ Within(b) \/ Crash(b) => Way
  BY <1>0 DEF Open, Within, Refresh, RefreshFails, TakeRotation, AnswerLost, HeadTooLarge,
     SaveRotation, SaveFails, Lose, LoseFails, Query, Close, Crash
<1>2. GiveUp(b) \/ ResetStore(b) \/ CreateKey(b) \/ CleanOnly(b) \/ Find(b) \/ CleanPlain(b)
        \/ CleanRest(b) \/ Release(b) => Way
  BY <1>0 DEF GiveUp, ResetStore, CreateKey, CleanOnly, Find, CleanPlain, CleanRest, Release
<1>3. Write(b) \/ WriteFails(b) => Way
  BY <1>0 DEF Write, WriteFails
<1>4. Begin(b) \/ Enter(b) \/ EnterFails(b) \/ VerifyFails(b) \/ Leave(b) => Way
  BY <1>0 DEF Begin, Enter, EnterFails, VerifyFails, Leave, Command
<1>5. LoseKey \/ RemoveStore \/ UNCHANGED vars => Way
  BY <1>0 DEF LoseKey, RemoveStore, vars
<1>6. ASSUME NEW p \in Process, p # b,
             Open(p) \/ Within(p) \/ Crash(p) \/ (p \in Admin /\ (Inside(p) \/ Outside(p)))
      PROVE  Way
  BY <1>0, <1>6, Mover
<1> QED
  BY <1>0, <1>1, <1>2, <1>3, <1>4, <1>5, <1>6, Steps DEF Process, Inside, Outside

\* While a command removes the plaintext files the record stays as it is.
LEMMA Cleaning ==
    ASSUME TypeOK, HoldInv, [Next]_vars, NEW b \in Admin,
           pc[b] \in {"clean", "cleanRest"}, pc'[b] \in {"clean", "cleanRest"}
    PROVE  /\ store' = store /\ op'[b] = op[b] /\ path'[b] = path[b]
           /\ pc[b] = "cleanRest" => plain' = plain
<1> USE DEF disk, history, held, locks
<1>0. /\ b \in Process /\ pc[b] \in InChange /\ pc \in [Process -> PC]
      /\ b \notin Client
  BY AblerAssumption DEF Process, InChange, TypeOK
<1>1. ASSUME NEW p \in Process, p # b,
             Open(p) \/ Within(p) \/ Crash(p) \/ (p \in Admin /\ (Inside(p) \/ Outside(p)))
      PROVE  UNCHANGED <<store, plain>> /\ op'[b] = op[b] /\ path'[b] = path[b]
  BY <1>0, <1>1, Undisturbed, Mover
<1>2. ~(Open(b) \/ Within(b) \/ Crash(b) \/ Outside(b))
  BY <1>0 DEF Open, Within, Refresh, RefreshFails, TakeRotation, AnswerLost, HeadTooLarge,
     SaveRotation, SaveFails, Lose, LoseFails, Query, Close, Crash, Goto,
     Outside, Begin, Enter, EnterFails, VerifyFails, Leave
<1>3. Inside(b) => CleanPlain(b) /\ pc[b] = "clean"
  BY <1>0 DEF Inside, GiveUp, ResetStore, CreateKey, Write, WriteFails, CleanOnly, Find,
     CleanPlain, CleanRest, Release, Goto, InChange
<1>4. CleanPlain(b) => store' = store /\ op' = op /\ path' = path
  BY DEF CleanPlain
<1>5. ~RemoveStore
  BY <1>0, Available DEF RemoveStore
<1>6. LoseKey \/ UNCHANGED vars => UNCHANGED <<store, plain, op, path>>
  BY DEF LoseKey, vars
<1> QED
  BY <1>0, <1>1, <1>2, <1>3, <1>4, <1>5, <1>6, Steps DEF Process

\* A plaintext file gets a jar only from its own server, before the store decides.
LEMMA Plaintext ==
    ASSUME TypeOK, HoldInv, SessionInv, OutInv, [Next]_vars, NEW q \in Path
    PROVE  /\ q \in out /\ plain[q] = None => plain'[q] = None
           /\ pending[q] = None => pending'[q] = None
           /\ q \in out' \ out => /\ plain'[q] = None /\ pending'[q] = None
                                 /\ store' = store
                                 /\ store.current = None /\ store.candidate = None
<1> USE DEF disk, history, held, locks
<1>0. /\ plain \in [Path -> Slot] /\ pending \in [Path -> Slot]
      /\ path \in [Process -> Path]
  BY DEF TypeOK
<1>1. ASSUME NEW p \in Process, SaveRotation(p)
      PROVE  /\ q \in out => plain'[q] = plain[q]
             /\ pending' = pending /\ out' = out
  <2>1. ~Decides => path[p] \notin out
    BY <1>1 DEF SaveRotation, Goto, SessionInv, InSession
  <2> QED
    BY <1>0, <1>1, <2>1 DEF SaveRotation
<1>2. ASSUME NEW p \in Process, Within(p), ~SaveRotation(p)
      PROVE  UNCHANGED <<plain, pending, out>>
  BY <1>2 DEF Within, Refresh, RefreshFails, TakeRotation, AnswerLost, HeadTooLarge,
     SaveFails, Lose, LoseFails, Query, Close
<1>3. ASSUME NEW a \in Admin, CleanRest(a)
      PROVE  /\ plain' = plain
             /\ pending[q] = None => pending'[q] = None
             /\ q \in out' \ out => /\ plain[q] = None /\ pending'[q] = None /\ store' = store
                                  /\ store.current = None /\ store.candidate = None
  <2>1. /\ pc[a] = "cleanRest" /\ plain' = plain /\ store' = store
        /\ pending' = [pending EXCEPT ![path[a]] = None]
        /\ out' = IF op[a] = "logout" THEN out \cup {path[a]} ELSE out
    BY <1>3 DEF CleanRest, Goto
  <2> QED
    BY <1>0, <2>1 DEF OutInv
<1>4. ASSUME NEW a \in Admin, CleanPlain(a)
      PROVE  (plain[q] = None => plain'[q] = None) /\ UNCHANGED <<pending, out>>
  BY <1>0, <1>4 DEF CleanPlain
<1>5. ASSUME NEW a \in Admin, Inside(a), ~CleanRest(a), ~CleanPlain(a)
      PROVE  UNCHANGED <<plain, pending>> /\ out' \subseteq out
  BY <1>5 DEF Inside, GiveUp, ResetStore, CreateKey, Write, WriteFails, CleanOnly, Find,
     Release, StillOut
<1>6. ASSUME NEW p \in Process, Open(p) \/ Crash(p) \/ Outside(p)
      PROVE  UNCHANGED <<plain, pending, out>>
  BY <1>6 DEF Open, Crash, Outside, Begin, Enter, EnterFails, VerifyFails, Leave
<1>7. LoseKey \/ RemoveStore \/ UNCHANGED vars => UNCHANGED <<plain, pending, out>>
  BY DEF LoseKey, RemoveStore, vars
<1>8. CASE UNCHANGED <<plain, pending>> /\ out' \subseteq out
  BY <1>8
<1>9. CASE \E p \in Process : Within(p)
  BY <1>1, <1>2, <1>8, <1>9
<1>10. CASE \E a \in Admin : Inside(a)
  BY <1>3, <1>4, <1>5, <1>8, <1>10
<1>11. CASE \E p \in Process : Open(p) \/ Crash(p) \/ Outside(p)
  BY <1>6, <1>8, <1>11
<1> QED
  BY <1>7, <1>8, <1>9, <1>10, <1>11, Steps DEF Process

\* What a logout removed stays removed until a login.
LEMMA OutStep ==
    ASSUME TypeOK, HoldInv, FileInv, SessionInv, SpentInv, OutInv, LogoutFinal, [Next]_vars,
           TypeOK'
    PROVE  OutInv' /\ LogoutFinal'
<1>1. ASSUME NEW q \in Path, q \in out'
      PROVE  /\ plain'[q] = None /\ pending'[q] = None
             /\ store'.current = None /\ store'.candidate = None
  <2>1. CASE q \notin out
    BY <1>1, <2>1, Plaintext
  <2>2. CASE q \in out
    <3>1. /\ plain'[q] = None /\ pending'[q] = None
          /\ store.current = None /\ store.candidate = None
      BY <2>2, Plaintext DEF LogoutFinal
    <3>2. ASSUME NEW p \in Process, pc[p] = "save", Decides
          PROVE  FALSE
      BY <2>2, <3>2 DEF SessionInv, InSession
    <3>3. ASSUME NEW a \in Admin, Write(a) \/ WriteFails(a), store' = NewRecord(a)
          PROVE  store'.current = None /\ store'.candidate = None
      <4>1. /\ Writes(a) /\ pc[a] \in {"change", "commit"} /\ out' = StillOut(a)
            /\ path[a] \in Path
        BY <3>3 DEF Write, WriteFails, Goto, TypeOK, Process
      <4>2. pc[a] = "change" /\ op[a] = "login" => out' = {}
        BY <4>1 DEF StillOut
      <4>3. pc[a] = "change" /\ op[a] = "migrate" => path[a] = q
        BY <1>1, <4>1 DEF StillOut
      <4>4. plain[q] = None /\ pending[q] = None
        BY <2>2 DEF LogoutFinal
      <4> QED
        BY <1>1, <3>1, <3>3, <4>1, <4>2, <4>3, <4>4, Written
    <3> QED
      BY <3>1, <3>2, <3>3, Rewritten
  <2> QED
    BY <2>1, <2>2
<1>2. LogoutFinal'
  BY <1>1 DEF LogoutFinal, TypeOK
<1>3. ASSUME NEW b \in Admin, pc'[b] \in {"clean", "cleanRest"}, op'[b] = "logout"
      PROVE  store'.current = None /\ store'.candidate = None
  <2>1. CASE pc[b] \in {"clean", "cleanRest"}
    BY <1>3, <2>1, Cleaning DEF OutInv
  <2>2. CASE Write(b)
    <3>1. /\ Writes(b) /\ pc[b] \in {"change", "commit"} /\ store' = NewRecord(b)
          /\ op[b] = "logout"
      BY <1>3, <2>2 DEF Write, Goto
    <3> QED
      BY <3>1, Written DEF OutInv
  <2>3. CASE CleanOnly(b)
    BY <1>3, <2>3 DEF CleanOnly, SpentInv, Decides, disk
  <2>4. pc'[b] = "cleanRest" => pc[b] \in {"clean", "cleanRest"}
    BY LogoutMove DEF CleanPlain, Goto
  <2> QED
    BY <1>3, <2>1, <2>2, <2>3, <2>4, LogoutMove
<1>4. ASSUME NEW b \in Admin, pc'[b] = "cleanRest"
      PROVE  plain'[path'[b]] = None
  <2>1. CASE pc[b] = "cleanRest"
    BY <1>4, <2>1, Cleaning DEF OutInv
  <2>2. CASE CleanPlain(b)
    BY <2>2 DEF CleanPlain, TypeOK, Process
  <2> QED
    BY <1>4, <2>1, <2>2, LogoutMove
<1> QED
  BY <1>2, <1>3, <1>4, LogoutMove DEF OutInv

-----------------------------------------------------------------------------
(* The theorems                                                            *)

LEMMA Initially == Init => IInv
<1> SUFFICES ASSUME Init PROVE IInv
  OBVIOUS
<1>1. TypeOK
  BY AblerAssumption DEF Init, TypeOK, Absent, Slot, PC, Process
<1>2. HoldInv
  BY <1>1 DEF Init, HoldInv, InSession, InChange
<1>3. FileInv
  BY DEF Init, FileInv
<1>4. ChainInv
  <2>1. IsFiniteSet({}) /\ Cardinality({}) = 0
    BY FS_EmptySet
  <2>2. \A q \in Path : plain[q] # None => plain[q].n = 0
    BY DEF Init
  <2> QED
    BY <2>1, <2>2, AblerAssumption DEF Init, ChainInv, Chained, Absent
<1>5. SessionInv /\ VerifiedInv
  BY DEF Init, SessionInv, VerifiedInv, InSession, Process
<1>6. FreshInv
  BY AblerAssumption DEF Init, FreshInv, Without, Absent
<1>7. SpentInv /\ SpentStaysSpent /\ PromotedIsVerified /\ LogoutFinal
  BY DEF Init, SpentInv, Sound, Offers, SpentStaysSpent, PromotedIsVerified, LogoutFinal, Absent
<1>8. OutInv
  BY DEF Init, OutInv, Process, InSession
<1> QED
  BY <1>1, <1>2, <1>3, <1>4, <1>5, <1>6, <1>7, <1>8 DEF IInv

\* Every reachable state satisfies the invariant.
THEOREM Inductive == Spec => []IInv
<1>1. IInv /\ [Next]_vars => IInv'
  <2> SUFFICES ASSUME IInv, [Next]_vars PROVE IInv'
    OBVIOUS
  <2>1. TypeOK' /\ HoldInv'
    BY TypeStep, HoldStep DEF IInv
  <2> QED
    BY <2>1, FileStep, ChainStep, SessionStep, FreshStep, SpentStep, VerifiedStep, OutStep DEF IInv
<1> QED
  BY Initially, <1>1, PTL DEF Spec

\* Type correctness; also that no token's rotation exceeds the upstream's bound.
THEOREM TypeCorrect == Spec => []TypeOK
<1>1. IInv => TypeOK
  BY DEF IInv
<1> QED
  BY <1>1, Inductive, PTL

\* No holder of the store sends a token whose successor was recorded, for any
\* number of servers, commands, plaintext files and rotations (Session::save, lost).
THEOREM NoSpentToken == Spec => []SpentStaysSpent
<1>1. IInv => SpentStaysSpent
  BY DEF IInv
<1> QED
  BY <1>1, Inductive, PTL

\* The session in use is a verified one or a plaintext file's, however many logins
\* replace each other's candidate between verification and promotion (promote).
THEOREM OnlyVerified == Spec => []PromotedIsVerified
<1>1. IInv => PromotedIsVerified
  BY DEF IInv
<1> QED
  BY <1>1, Inductive, PTL

\* Nothing in flight brings back a session that a completed logout removed
\* (logout_session, remove_legacy).
THEOREM FinalLogout == Spec => []LogoutFinal
<1>1. IInv => LogoutFinal
  BY DEF IInv
<1> QED
  BY <1>1, Inductive, PTL

\* Both: the session that a command uses was verified, and none outlives a logout.
THEOREM TrueSessions == Spec => []SessionIsTrue
<1>1. PromotedIsVerified /\ LogoutFinal => SessionIsTrue
  BY DEF SessionIsTrue
<1> QED
  BY <1>1, OnlyVerified, FinalLogout, PTL

-----------------------------------------------------------------------------
(* Signing in with a browser (module BrowserLogin), for any logins, pages  *)
(* and signals.  A browser whose group is gone does not come back, and one *)
(* that never took its profile can no longer take it once an hour went by. *)

\* The steps of a login, in groups.
Preparing(l) ==
    \/ Web!Begin(l) \/ Web!SweepRemoves(l) \/ Web!SweepFails(l) \/ Web!SweepEnds(l)
    \/ Web!CancelledEarly(l) \/ Web!FindFails(l) \/ Web!MakeProfile(l) \/ Web!MakeProfileFails(l)
    \/ \E p \in User : Web!SweepTakes(l, p) \/ Web!SweepSpares(l, p)
Starting(l) ==
    \/ Web!Spawn(l) \/ Web!SpawnFails(l) \/ Web!AskVersion(l) \/ Web!GiveUpStart(l)
    \/ Web!VersionFails(l) \/ Web!VersionInvalid(l) \/ Web!Version(l)
Watching(l) == Web!Wait(l) \/ Web!RequestFails(l) \/ Web!TimeOut(l)
Ending(l)   == Web!Crash(l) \/ Web!Interrupt(l) \/ Web!StoreCancel(l)
Around(l)   == Web!Browser(l) \/ Web!Age(l)

LEMMA WebSteps ==
    ASSUME Web!Next
    PROVE  \E l \in User : \/ Preparing(l) \/ Starting(l) \/ Watching(l) \/ Web!Clean(l)
                           \/ Ending(l) \/ Around(l)
BY DEF Web!Next, Web!Calm, Web!Launch, Preparing, Starting, Watching, Ending, Around

LEMMA WebType ==
    ASSUME Web!BrowserAssumption, Web!TypeOK, [Web!Next]_(Web!vars)
    PROVE  Web!TypeOK'
<1> USE DEF Web!TypeOK, Web!PC, Web!AtWork, Web!Ended, Web!Sweeping, Web!Capturing, Web!Waiting,
        Web!Closing, Web!Goto
<1>1. ASSUME NEW l \in User, Preparing(l)
      PROVE  Web!TypeOK'
  <2> USE DEF Web!browser, Web!wire, Web!start, Web!saved, Web!flags, Web!signals, Web!folder
  <2>1. CASE Web!Begin(l) \/ Web!SweepEnds(l)
    BY <2>1 DEF Web!Begin, Web!SweepEnds
  <2>2. CASE Web!SweepRemoves(l) \/ Web!MakeProfile(l)
    BY <2>2 DEF Web!SweepRemoves, Web!MakeProfile
  <2>3. CASE Web!SweepFails(l) \/ Web!CancelledEarly(l) \/ Web!FindFails(l) \/ Web!MakeProfileFails(l)
    BY <2>3 DEF Web!SweepFails, Web!CancelledEarly, Web!FindFails, Web!MakeProfileFails, Web!Fail,
       Web!Return, Web!Outcome, Web!Error
  <2>4. ASSUME NEW p \in User, Web!SweepTakes(l, p) \/ Web!SweepSpares(l, p)
        PROVE  Web!TypeOK'
    BY <2>4 DEF Web!SweepTakes, Web!SweepSpares
  <2> QED
    BY <1>1, <2>1, <2>2, <2>3, <2>4 DEF Preparing
<1>2. ASSUME NEW l \in User, Starting(l)
      PROVE  Web!TypeOK'
  <2> USE DEF Web!browser, Web!wire, Web!start, Web!saved, Web!flags, Web!signals, Web!folder
  <2>1. CASE Web!Spawn(l) \/ Web!SpawnFails(l)
    BY <2>1 DEF Web!Spawn, Web!SpawnFails, Web!Return, Web!Part, Web!Group, Web!Outcome, Web!Error
  <2>2. CASE Web!AskVersion(l) \/ Web!VersionFails(l)
    BY <2>2 DEF Web!AskVersion, Web!VersionFails
  <2>3. CASE Web!GiveUpStart(l) \/ Web!VersionInvalid(l)
    BY <2>3 DEF Web!GiveUpStart, Web!VersionInvalid, Web!StartFails, Web!End, Web!Forget,
       Web!Return, Web!Outcome, Web!Error
  <2>4. CASE Web!Version(l)
    BY <2>4 DEF Web!Version, Web!End, Web!Forget, Web!Return, Web!Outcome, Web!Error
  <2> QED
    BY <1>2, <2>1, <2>2, <2>3, <2>4 DEF Starting
<1>3. ASSUME NEW l \in User, Watching(l)
      PROVE  Web!TypeOK'
  <2> USE DEF Web!browser, Web!wire, Web!start, Web!saved, Web!flags, Web!signals, Web!folder
  <2>1. CASE Web!Attempt(l) \/ Web!ListTabs(l)
    BY <2>1 DEF Web!Attempt, Web!ListTabs, Web!Read, Web!Detached
  <2>2. CASE Web!Attach(l) \/ Web!AttachRefused(l)
    BY <2>2 DEF Web!Attach, Web!AttachRefused, Web!Read, Web!Detached
  <2>3. CASE Web!Cookies(l)
    <3> USE DEF Web!Cookies
    <3>1. CASE Web!End(l, {"cookies"}, "session")
      BY <2>3, <3>1 DEF Web!End, Web!Forget, Web!Return, Web!Outcome
    <3>2. CASE Web!Goto(l, {"cookies"}, "pause")
      BY <2>3, <3>2 DEF Web!Detached, Web!End, Web!Return
    <3> QED
      BY <2>3, <3>1, <3>2
  <2>4. CASE Web!Pause(l) \/ Web!RequestFails(l)
    BY <2>4 DEF Web!Pause, Web!RequestFails, Web!Read, Web!Detached
  <2>5. CASE Web!CancelledWaiting(l) \/ Web!BrowserClosed(l) \/ Web!TimeOut(l)
    BY <2>5 DEF Web!CancelledWaiting, Web!BrowserClosed, Web!TimeOut, Web!End, Web!Forget,
       Web!Return, Web!Outcome, Web!Error
  <2> QED
    BY <1>3, <2>1, <2>2, <2>3, <2>4, <2>5 DEF Watching, Web!Wait
<1>4. ASSUME NEW l \in User, Web!Clean(l)
      PROVE  Web!TypeOK'
  <2> USE DEF Web!browser, Web!wire, Web!start, Web!saved, Web!flags, Web!signals, Web!folder
  <2>1. CASE Web!Keeps(l) \/ Web!CloseBrowser(l)
    BY <2>1 DEF Web!Keeps, Web!CloseBrowser
  <2>2. CASE Web!IsClosed(l) \/ Web!CloseTimesOut(l) \/ Web!Exited(l) \/ Web!StillRunning(l)
    BY <2>2 DEF Web!IsClosed, Web!CloseTimesOut, Web!Exited, Web!StillRunning
  <2>3. CASE Web!Term(l) \/ Web!Kill(l)
    BY <2>3 DEF Web!Term, Web!Kill, Web!Signal
  <2>4. CASE Web!Tidy(l) \/ Web!TidyFails(l)
    BY <2>4 DEF Web!Tidy, Web!TidyFails, Web!Answer, Web!Outcome, Web!Error
  <2>5. CASE Web!Stop(l) \/ Web!Settle(l)
    BY <2>5 DEF Web!Stop, Web!Settle, Web!Outcome, Web!Error
  <2> QED
    BY <1>4, <2>1, <2>2, <2>3, <2>4, <2>5 DEF Web!Clean
<1>5. ASSUME NEW l \in User, Ending(l)
      PROVE  Web!TypeOK'
  <2> USE DEF Web!browser, Web!wire, Web!start, Web!saved, Web!flags, Web!signals, Web!folder
  <2>1. ASSUME Web!Dies(l)
        PROVE  Web!TypeOK'
    BY <2>1 DEF Web!Dies, Web!Forget
  <2>2. CASE Web!StoreCancel(l)
    BY <2>2 DEF Web!StoreCancel
  <2>3. CASE Web!Interrupt(l)
    BY <2>1, <2>3 DEF Web!Interrupt
  <2> QED
    BY <1>5, <2>1, <2>2, <2>3 DEF Ending, Web!Crash
<1>6. ASSUME NEW l \in User, Around(l)
      PROVE  Web!TypeOK'
  <2> USE DEF Web!browser, Web!wire, Web!start, Web!saved, Web!flags, Web!signals, Web!folder
  <2>1. ASSUME NEW p \in Web!Part, Web!Fork(l, p) \/ Web!TakeProfile(l, p) \/ Web!Exit(l, p)
        PROVE  Web!TypeOK'
    BY <2>1 DEF Web!Fork, Web!TakeProfile, Web!Exit
  <2>2. ASSUME NEW t \in Tab \cup {None}, Web!ShowTab(l, t)
        PROVE  Web!TypeOK'
    BY <2>2 DEF Web!ShowTab
  <2>3. CASE Web!SignedIn(l) \/ Web!Age(l)
    BY <2>3 DEF Web!SignedIn, Web!Age
  <2> QED
    BY <1>6, <2>1, <2>2, <2>3 DEF Around, Web!Browser
<1>7. CASE UNCHANGED Web!vars
  BY <1>7 DEF Web!vars, Web!browser, Web!wire, Web!start, Web!saved, Web!flags, Web!signals,
     Web!folder
<1> QED
  BY <1>1, <1>2, <1>3, <1>4, <1>5, <1>6, <1>7, WebSteps

\* What a step does to a login k: its browser, its place and how it ends.
Early == {"idle", "sweep", "remove", "find"}
Over  == {"returned", "stopped", "done"}

Moved(k) ==
    /\ \/ procs'[k] \subseteq procs[k] /\ main'[k] = main[k]
       \/ stage[k] = "spawn" /\ stage'[k] = "starting" /\ main'[k] = main[k]
       \/ /\ procs[k] \cap Web!Group # {} /\ stage'[k] = stage[k] /\ main'[k] = main[k]
          /\ \E p \in Web!Part \ {main[k]} : procs'[k] = procs[k] \cup {p}
       \/ /\ main[k] = None /\ procs[k] # {} /\ procs'[k] = procs[k] /\ stage'[k] = stage[k]
    /\ k \in dirs' => k \in dirs \/ (stage[k] = "find" /\ stage'[k] = "spawn")
    /\ stage'[k] \in Early => stage[k] \in Early
    /\ stage'[k] = "spawn" => stage[k] \in Early \cup {"spawn"}
    /\ stage[k] \in Web!Ended => stage'[k] = stage[k]
    /\ k \in kept => k \in kept'
    /\ cleanup[k] = "StillRunning" => cleanup'[k] = "StillRunning"
    /\ stage'[k] = "tidy" =>
           \/ stage[k] \in {"tidy", "spawn"}
           \/ k \in kept' \/ cleanup'[k] = "StillRunning" \/ Web!Gone(k)
    /\ stage'[k] \in Over =>
           \/ stage[k] \in Early
           \/ /\ stage[k] = "tidy"
              /\ outcome'[k] = "ProfileNotRemoved" \/ k \in kept \/ k \notin dirs'
              /\ cleanup[k] = "StillRunning" => outcome'[k] \in {"StillRunning", "ProfileNotRemoved"}
           \/ /\ stage[k] \in Over
              /\ outcome'[k] = outcome[k] \/ outcome[k] = "session"

LEMMA WebMoves ==
    ASSUME Web!TypeOK, [Web!Next]_(Web!vars), NEW k \in User
    PROVE  Moved(k)
<1> USE DEF Web!Goto, Web!browser, Web!wire, Web!start, Web!saved, Web!flags, Web!signals,
        Web!folder, Early, Over, Web!Ended
<1>0. /\ stage \in [User -> Web!PC] /\ procs \in [User -> SUBSET Web!Part]
      /\ main \in [User -> Web!Group \cup {None}] /\ outcome \in [User -> Web!Outcome]
      /\ cleanup \in [User -> {"none", "StillRunning"}] /\ kept \subseteq User
  BY DEF Web!TypeOK
<1>1. ASSUME NEW l \in User, Preparing(l)
      PROVE  Moved(k)
  <2>1. CASE \/ Web!Begin(l) \/ Web!SweepEnds(l) \/ Web!SweepRemoves(l)
             \/ \E p \in User : Web!SweepTakes(l, p) \/ Web!SweepSpares(l, p)
    BY <1>0, <2>1 DEF Moved, Web!Begin, Web!SweepEnds, Web!SweepRemoves, Web!SweepTakes, Web!SweepSpares
  <2>2. CASE Web!MakeProfile(l)
    BY <1>0, <2>2 DEF Moved, Web!MakeProfile
  <2>3. CASE Web!SweepFails(l) \/ Web!CancelledEarly(l) \/ Web!FindFails(l) \/ Web!MakeProfileFails(l)
    BY <1>0, <2>3 DEF Moved, Web!SweepFails, Web!CancelledEarly, Web!FindFails, Web!MakeProfileFails,
       Web!Fail, Web!Return, Web!Sweeping
  <2> QED
    BY <1>1, <2>1, <2>2, <2>3 DEF Preparing
<1>2. ASSUME NEW l \in User, Starting(l)
      PROVE  Moved(k)
  <2>1. CASE Web!Spawn(l) \/ Web!SpawnFails(l)
    BY <1>0, <2>1 DEF Moved, Web!Spawn, Web!SpawnFails, Web!Return
  <2>2. CASE Web!AskVersion(l) \/ Web!VersionFails(l)
    BY <1>0, <2>2 DEF Moved, Web!AskVersion, Web!VersionFails
  <2>3. CASE Web!GiveUpStart(l) \/ Web!VersionInvalid(l) \/ Web!Version(l)
    BY <1>0, <2>3 DEF Moved, Web!GiveUpStart, Web!VersionInvalid, Web!StartFails, Web!Version, Web!End,
       Web!Forget, Web!Return
  <2> QED
    BY <1>2, <2>1, <2>2, <2>3 DEF Starting
<1>3. ASSUME NEW l \in User, Watching(l)
      PROVE  Moved(k)
  <2>1. \E to \in {"clean", "list", "cookies", "pause", "attach", "wait"} :
            /\ stage[l] \in Web!Waiting /\ stage' = [stage EXCEPT ![l] = to]
            /\ UNCHANGED <<dirs, procs, main, kept, cleanup>>
    BY <1>3 DEF Watching, Web!Wait, Web!Attempt, Web!ListTabs, Web!Attach, Web!AttachRefused,
       Web!Cookies, Web!Pause, Web!RequestFails, Web!CancelledWaiting, Web!BrowserClosed, Web!TimeOut,
       Web!End, Web!Forget, Web!Return, Web!Waiting, Web!Capturing
  <2>2. outcome'[k] = outcome[k] \/ k = l
    BY <1>0, <1>3 DEF Watching, Web!Wait, Web!Attempt, Web!ListTabs, Web!Attach, Web!AttachRefused,
       Web!Cookies, Web!Pause, Web!RequestFails, Web!CancelledWaiting, Web!BrowserClosed, Web!TimeOut,
       Web!End, Web!Forget, Web!Return
  <2> QED
    BY <1>0, <2>1, <2>2 DEF Moved, Web!Waiting, Web!Capturing
<1>4. ASSUME NEW l \in User, Web!Clean(l)
      PROVE  Moved(k)
  <2>1. CASE Web!Keeps(l) \/ Web!CloseBrowser(l)
    BY <1>0, <2>1 DEF Moved, Web!Keeps, Web!CloseBrowser
  <2>2. CASE Web!IsClosed(l) \/ Web!CloseTimesOut(l) \/ Web!Exited(l) \/ Web!StillRunning(l)
    BY <1>0, <2>2 DEF Moved, Web!IsClosed, Web!Closed, Web!CloseTimesOut, Web!Exited, Web!StillRunning
  <2>3. CASE Web!Term(l) \/ Web!Kill(l)
    BY <1>0, <2>3 DEF Moved, Web!Term, Web!Kill, Web!Signal
  <2>4. CASE Web!Tidy(l) \/ Web!TidyFails(l)
    BY <1>0, <2>4 DEF Moved, Web!Tidy, Web!TidyFails, Web!Answer
  <2>5. CASE Web!Stop(l) \/ Web!Settle(l)
    BY <1>0, <2>5 DEF Moved, Web!Stop, Web!Settle
  <2> QED
    BY <1>4, <2>1, <2>2, <2>3, <2>4, <2>5 DEF Web!Clean
<1>5. ASSUME NEW l \in User, Ending(l)
      PROVE  Moved(k)
  <2>1. ASSUME Web!Dies(l)
        PROVE  Moved(k)
    BY <1>0, <2>1 DEF Moved, Web!Dies, Web!Forget, Web!AtWork, Web!Waiting, Web!Closing, Web!Capturing,
       Web!Sweeping
  <2>2. CASE ~Web!Dies(l)
    BY <1>0, <1>5, <2>2 DEF Moved, Ending, Web!Crash, Web!Interrupt, Web!StoreCancel
  <2> QED
    BY <2>1, <2>2
<1>6. ASSUME NEW l \in User, Around(l)
      PROVE  Moved(k)
  <2>1. ASSUME NEW p \in Web!Part, Web!Fork(l, p) \/ Web!TakeProfile(l, p) \/ Web!Exit(l, p)
        PROVE  Moved(k)
    BY <1>0, <2>1 DEF Moved, Web!Fork, Web!TakeProfile, Web!Exit
  <2>2. ASSUME NEW t \in Tab \cup {None}, Web!ShowTab(l, t)
        PROVE  Moved(k)
    BY <1>0, <2>2 DEF Moved, Web!ShowTab
  <2>3. CASE Web!SignedIn(l) \/ Web!Age(l)
    BY <1>0, <2>3 DEF Moved, Web!SignedIn, Web!Age
  <2> QED
    BY <1>6, <2>1, <2>2, <2>3 DEF Around, Web!Browser
<1>7. CASE UNCHANGED Web!vars
  BY <1>7 DEF Moved, Web!vars
<1> QED
  BY <1>1, <1>2, <1>3, <1>4, <1>5, <1>6, <1>7, WebSteps

\* A browser is there from its start on, and its profile from before it.
StartInv ==
    \A l \in User :
        /\ stage[l] \in Early \cup {"spawn"} => procs[l] = {} /\ main[l] = None
        /\ stage[l] \in Early => l \notin dirs

\* What may be left when the browser has been dealt with.
EndInv ==
    \A l \in User :
        stage[l] = "tidy" => l \in kept \/ cleanup[l] = "StillRunning" \/ Web!Gone(l)

\* It has taken its profile, or cannot any more; a sweep takes those only.
Aged(p) == main[p] # None \/ (stage[p] \in Web!Ended /\ procs[p] = {})
AgeInv ==
    /\ \A p \in old : Aged(p)
    /\ \A l \in User : victim[l] # None => Aged(victim[l]) /\ ~Web!HasLiveBrowser(victim[l])

WebInv == Web!TypeOK /\ StartInv /\ EndInv /\ AgeInv /\ Web!NothingLeft

LEMMA WebInit ==
    ASSUME Web!Init
    PROVE  WebInv
<1> USE DEF Web!Init
<1>1. Web!TypeOK
  BY DEF Web!TypeOK, Web!PC, Web!AtWork, Web!Outcome
<1>2. StartInv /\ EndInv /\ AgeInv /\ Web!NothingLeft
  BY DEF StartInv, EndInv, AgeInv, Web!NothingLeft, Early
<1> QED
  BY <1>1, <1>2 DEF WebInv

LEMMA Staying ==
    ASSUME Web!TypeOK, StartInv, [Web!Next]_(Web!vars), NEW p \in User, Aged(p)
    PROVE  Aged(p)' /\ (~Web!HasLiveBrowser(p) => ~Web!HasLiveBrowser(p)')
<1>1. Moved(p)
  BY WebMoves
<1>2. /\ stage[p] = "spawn" => procs[p] = {} /\ main[p] = None
      /\ procs[p] \subseteq Web!Part /\ main[p] \in Web!Group \cup {None}
  BY DEF StartInv, Web!TypeOK
<1> QED
  BY <1>1, <1>2 DEF Moved, Aged, Web!HasLiveBrowser, Web!Ended

\* What the sweeps take.
LEMMA Sweeps ==
    ASSUME Web!BrowserAssumption, Web!TypeOK, StartInv, AgeInv, [Web!Next]_(Web!vars)
    PROVE  AgeInv'
<1>1. ASSUME NEW p \in old'
      PROVE  p \in User /\ Aged(p)'
  <2>0. p \in User
    BY WebType, <1>1 DEF Web!TypeOK
  <2>1. \/ p \in old
        \/ \E l \in User : Web!Age(l) /\ p = l
    <3>1. ASSUME NEW l \in User, Preparing(l) \/ Starting(l) \/ Watching(l)
          PROVE  old' \subseteq old
      BY <3>1 DEF Preparing, Starting, Watching, Web!Wait, Web!folder, Web!Begin, Web!SweepRemoves,
         Web!SweepFails, Web!SweepEnds, Web!CancelledEarly, Web!FindFails, Web!MakeProfile,
         Web!MakeProfileFails, Web!SweepTakes, Web!SweepSpares, Web!Spawn, Web!SpawnFails,
         Web!AskVersion, Web!GiveUpStart, Web!VersionFails, Web!VersionInvalid, Web!Version,
         Web!Attempt, Web!ListTabs, Web!Attach, Web!AttachRefused, Web!Cookies, Web!Pause,
         Web!CancelledWaiting, Web!BrowserClosed, Web!RequestFails, Web!TimeOut
    <3>2. ASSUME NEW l \in User, Web!Clean(l) \/ Ending(l) \/ Web!Browser(l)
          PROVE  old' \subseteq old
      BY <3>2 DEF Ending, Web!Clean, Web!Browser, Web!folder, Web!Keeps, Web!CloseBrowser,
         Web!IsClosed, Web!CloseTimesOut, Web!Exited, Web!Term, Web!Kill, Web!Signal,
         Web!StillRunning, Web!Tidy, Web!TidyFails, Web!Stop, Web!Settle, Web!Crash, Web!Interrupt,
         Web!Dies, Web!StoreCancel, Web!Fork, Web!TakeProfile, Web!Exit, Web!ShowTab, Web!SignedIn
    <3>3. ASSUME NEW l \in User, Web!Age(l)
          PROVE  old' = old \cup {l}
      BY <3>3 DEF Web!Age
    <3>4. UNCHANGED Web!vars => old' = old
      BY DEF Web!vars, Web!folder
    <3> QED
      BY <1>1, <3>1, <3>2, <3>3, <3>4, WebSteps DEF Around
  <2>2. CASE p \in old
    BY <2>0, <2>2, Staying DEF AgeInv
  <2>3. CASE Web!Age(p)
    BY <2>0, <2>3 DEF Web!Age, Aged, Web!browser, Web!Ended
  <2> QED
    BY <2>0, <2>1, <2>2, <2>3
<1>2. ASSUME NEW l \in User, NEW p \in User, victim'[l] = p, p # None
      PROVE  Aged(p)' /\ ~Web!HasLiveBrowser(p)'
  <2>1. \/ victim'[l] = victim[l]
        \/ Web!SweepTakes(l, p)
    <3>1. ASSUME NEW k \in User, Preparing(k)
          PROVE  \/ victim' = victim
                 \/ victim' = [victim EXCEPT ![k] = None]
                 \/ \E q \in User : Web!SweepTakes(k, q) /\ victim' = [victim EXCEPT ![k] = q]
      BY <3>1 DEF Preparing, Web!folder, Web!Begin, Web!SweepRemoves, Web!SweepFails, Web!SweepEnds,
         Web!CancelledEarly, Web!FindFails, Web!MakeProfile, Web!MakeProfileFails, Web!SweepTakes,
         Web!SweepSpares
    <3>2. ASSUME NEW k \in User, Starting(k) \/ Watching(k) \/ Web!Clean(k) \/ Around(k)
          PROVE  victim' = victim
      BY <3>2 DEF Starting, Watching, Around, Web!Clean, Web!Browser, Web!Wait, Web!folder, Web!Spawn,
         Web!SpawnFails, Web!AskVersion, Web!GiveUpStart, Web!VersionFails, Web!VersionInvalid,
         Web!Version, Web!Attempt, Web!ListTabs, Web!Attach, Web!AttachRefused, Web!Cookies,
         Web!Pause, Web!CancelledWaiting, Web!BrowserClosed, Web!RequestFails, Web!TimeOut,
         Web!Keeps, Web!CloseBrowser, Web!IsClosed, Web!CloseTimesOut, Web!Exited, Web!Term,
         Web!Kill, Web!Signal, Web!StillRunning, Web!Tidy, Web!TidyFails, Web!Stop, Web!Settle,
         Web!Fork, Web!TakeProfile, Web!Exit, Web!ShowTab, Web!SignedIn, Web!Age
    <3>3. ASSUME NEW k \in User, Ending(k)
          PROVE  victim' = victim \/ victim' = [victim EXCEPT ![k] = None]
      BY <3>3 DEF Ending, Web!Crash, Web!Interrupt, Web!Dies, Web!StoreCancel, Web!folder
    <3>4. UNCHANGED Web!vars => victim' = victim
      BY DEF Web!vars, Web!folder
    <3>5. victim \in [User -> User \cup {None}]
      BY DEF Web!TypeOK
    <3> QED
      BY <1>2, <3>1, <3>2, <3>3, <3>4, <3>5, WebSteps
  <2>2. CASE victim'[l] = victim[l]
    BY <1>2, <2>2, Staying DEF AgeInv
  <2>3. CASE Web!SweepTakes(l, p)
    <3>1. p \in old /\ ~Web!HasLiveBrowser(p)
      BY <2>3 DEF Web!SweepTakes, Web!Abandoned
    <3> QED
      BY <3>1, Staying DEF AgeInv
  <2> QED
    BY <2>1, <2>2, <2>3
<1>3. \A l \in User : victim'[l] # None => victim'[l] \in User
  BY WebType DEF Web!TypeOK
<1> QED
  BY <1>1, <1>2, <1>3 DEF AgeInv

LEMMA WebStep ==
    ASSUME Web!BrowserAssumption, WebInv, [Web!Next]_(Web!vars)
    PROVE  WebInv'
<1>0. Web!TypeOK /\ StartInv /\ EndInv /\ AgeInv /\ Web!NothingLeft
  BY DEF WebInv
<1>1. Web!TypeOK'
  BY <1>0, WebType
<1>2. \A k \in User : Moved(k)
  BY <1>0, WebMoves
<1>3. \A k \in User : /\ procs[k] \subseteq Web!Part /\ main[k] \in Web!Group \cup {None}
                      /\ procs'[k] \subseteq Web!Part
  BY <1>0, <1>1 DEF Web!TypeOK
<1>4. StartInv'
  BY <1>0, <1>2 DEF StartInv, Moved, Early
\* A group that is gone, and was not yet started, stays away.
<1>5. \A k \in User : Web!Gone(k) /\ stage[k] # "spawn" => Web!Gone(k)'
  BY <1>2, <1>3 DEF Web!Gone, Moved
<1>6. EndInv'
  <2> SUFFICES ASSUME NEW k \in User, stage'[k] = "tidy"
               PROVE  k \in kept' \/ cleanup'[k] = "StillRunning" \/ Web!Gone(k)'
    BY DEF EndInv
  <2>1. CASE stage[k] = "spawn"
    BY <1>0, <1>2, <2>1 DEF Moved, StartInv, Web!Gone
  <2>2. CASE stage[k] # "spawn"
    BY <1>0, <1>2, <1>5, <2>2 DEF Moved, EndInv
  <2> QED
    BY <2>1, <2>2
<1>7. Web!NothingLeft'
  <2> SUFFICES ASSUME NEW k \in User, stage'[k] \in Over
               PROVE  \/ k \in kept'
                      \/ outcome'[k] \in {"StillRunning", "ProfileNotRemoved"}
                      \/ Web!Gone(k)' /\ k \notin dirs'
    BY DEF Web!NothingLeft, Over
  <2>1. CASE stage[k] \in Early
    BY <1>0, <1>2, <1>5, <2>1 DEF Moved, StartInv, Web!Gone, Early, Over
  <2>2. CASE stage[k] = "tidy"
    BY <1>0, <1>2, <1>5, <2>2 DEF Moved, EndInv, Early, Over
  <2>3. CASE stage[k] \in Over
    <3>1. \/ k \in kept
          \/ outcome[k] \in {"StillRunning", "ProfileNotRemoved"}
          \/ Web!Gone(k) /\ k \notin dirs
      BY <1>0, <2>3 DEF Web!NothingLeft, Over
    <3>2. /\ k \in kept => k \in kept'
          /\ k \in dirs' => k \in dirs
          /\ outcome'[k] = outcome[k] \/ outcome[k] = "session"
          /\ stage[k] # "spawn"
      BY <1>2, <2>3 DEF Moved, Early, Over
    <3> QED
      BY <1>5, <3>1, <3>2
  <2> QED
    BY <1>2, <2>1, <2>2, <2>3 DEF Moved
<1>8. AgeInv'
  BY <1>0, Sweeps
<1> QED
  BY <1>1, <1>4, <1>6, <1>7, <1>8 DEF WebInv

\* The inductive invariant of the browser logins, for any logins and pages.
THEOREM WebInductive == Web!Spec => []WebInv
<1> QED
  BY WebAssumption, WebInit, WebStep, PTL DEF Web!Spec

\* For any logins, signals and crashes, a login that returns leaves no process of the
\* browser's group and no profile, unless it says so or was asked to (login_until).
THEOREM NothingStays == Web!Spec => []NothingLeft
<1>1. WebInv => NothingLeft
  BY DEF WebInv, NothingLeft
<1> QED
  BY <1>1, WebInductive, PTL

\* For any logins, whatever sweeps look at and remove when, the profile of a browser
\* that runs is only removed by its own login (remove_abandoned_profiles).
THEOREM RunningProfiles == Web!Spec => RunningIsSpared
<1> DEFINE Spared == \A p \in dirs \ dirs' : Web!HasLiveBrowser(p) => stage[p] = "tidy"
<1>1. ASSUME WebInv, [Web!Next]_(Web!vars)
      PROVE  [Spared]_(Web!vars)
  <2>0. Web!TypeOK /\ AgeInv
    BY <1>1 DEF WebInv
  <2>1. \/ dirs \subseteq dirs'
        \/ \E l \in User : Web!SweepRemoves(l) \/ Web!Tidy(l)
    <3>1. ASSUME NEW l \in User, Preparing(l), ~Web!SweepRemoves(l)
          PROVE  dirs \subseteq dirs'
      BY <3>1 DEF Preparing, Web!folder, Web!Begin, Web!SweepFails, Web!SweepEnds,
         Web!CancelledEarly, Web!FindFails, Web!MakeProfile, Web!MakeProfileFails, Web!SweepTakes,
         Web!SweepSpares
    <3>2. ASSUME NEW l \in User, Starting(l) \/ Watching(l) \/ Ending(l) \/ Around(l)
          PROVE  dirs \subseteq dirs'
      BY <3>2 DEF Starting, Watching, Around, Ending, Web!Browser, Web!Wait, Web!folder, Web!Spawn,
         Web!SpawnFails, Web!AskVersion, Web!GiveUpStart, Web!VersionFails, Web!VersionInvalid,
         Web!Version, Web!Attempt, Web!ListTabs, Web!Attach, Web!AttachRefused, Web!Cookies,
         Web!Pause, Web!CancelledWaiting, Web!BrowserClosed, Web!RequestFails, Web!TimeOut,
         Web!Crash, Web!Interrupt, Web!Dies, Web!StoreCancel, Web!Fork, Web!TakeProfile, Web!Exit,
         Web!ShowTab, Web!SignedIn, Web!Age
    <3>3. ASSUME NEW l \in User, Web!Clean(l), ~Web!Tidy(l)
          PROVE  dirs \subseteq dirs'
      BY <3>3 DEF Web!Clean, Web!folder, Web!Keeps, Web!CloseBrowser, Web!IsClosed,
         Web!CloseTimesOut, Web!Exited, Web!Term, Web!Kill, Web!Signal, Web!StillRunning,
         Web!TidyFails, Web!Stop, Web!Settle
    <3>4. UNCHANGED Web!vars => dirs' = dirs
      BY DEF Web!vars, Web!folder
    <3> QED
      BY <1>1, <3>1, <3>2, <3>3, <3>4, WebSteps
  <2>2. ASSUME NEW l \in User, Web!SweepRemoves(l)
        PROVE  Spared
    <3>1. dirs' = dirs \ {victim[l]}
      BY <2>2 DEF Web!SweepRemoves
    <3>2. \A p \in dirs \ dirs' : p = victim[l] /\ p # None
      BY <2>0, <3>1, WebAssumption DEF Web!TypeOK, Web!BrowserAssumption
    <3> QED
      BY <2>0, <3>2 DEF AgeInv
  <2>3. ASSUME NEW l \in User, Web!Tidy(l)
        PROVE  Spared
    BY <2>3 DEF Web!Tidy, Web!Answer, Web!Goto
  <2> QED
    BY <2>1, <2>2, <2>3
<1> QED
  BY <1>1, WebInductive, PTL DEF Web!Spec, Web!RunningIsSpared, RunningIsSpared

===============================================================================
