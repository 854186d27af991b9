-------------------------- MODULE InnaAbsenceProofs --------------------------
(***************************************************************************)
(* Proofs about InnaAbsence for any calls, students and cookies.           *)
(* One call at a time has the hold (Alone), and only it writes the record, *)
(* replaces cookies or switches the student; what must be shown is what    *)
(* the record says between two holds.                                      *)
(* The two last parts are about the other modules of the program: the      *)
(* reads (InnaReads) and signing in from a chat (InnaSignIn).              *)
(***************************************************************************)
EXTENDS InnaMcp, TLAPS, FiniteSetTheorems

-----------------------------------------------------------------------------
(* The inductive invariant, in named parts                                 *)

Submitting == {"checked", "post", "accepted", "uncertain"}
Past       == {"leave", "done", "crashed"}

\* Who works has the hold and a session; its jar is not older than the session.
HoldInv ==
    \A c \in Call : pc[c] \in Working =>
        /\ lock = c /\ session # None
        /\ session.cookies <= cookies[c] /\ cookies[c] <= issued

\* Which calls reach which step, with what.
RoleInv ==
    \A c \in Call :
        /\ pc[c] \in Working => asked[c] \in IF c \in Submit THEN Prepare ELSE Key
        /\ pc[c] \in Submitting => c \in Submit
        /\ pc[c] \in {"targeted", "checked"} => target[c] # None

\* What a submission knows of the record.
Knows(c) ==
    /\ pc[c] \in {"seen", "targeted"} \cup Submitting => record # None /\ record.op = asked[c]
    /\ pc[c] = "checked" => record.state = "prepared" /\ record.account = target[c].student
    /\ pc[c] = "post" => /\ record.state = "submitting" /\ record.account = selected
                         /\ \A a \in sent : a.op # asked[c]
    /\ pc[c] = "accepted" => record.state = "submitting"
    /\ pc[c] = "uncertain" => record.state \in {"submitting", "submitted"}

KnowInv == \A c \in Submit : Knows(c)

\* Before its call is past, nothing is known of a preview.
FreshInv ==
    \A p \in Prepare : pc[p] \notin Past =>
        /\ record # None => record.op # p
        /\ \A a \in sent : a.op # p

\* A preview was not sent; a submission was recorded.
RecordInv ==
    record # None =>
        /\ record.state = "prepared" => \A a \in sent : a.op # record.op
        /\ record.state = "submitted" => record.op \in recorded

\* Cookies are numbered as they are issued.
CookieInv ==
    /\ spent <= issued
    /\ session # None => session.cookies <= issued

IInv ==
    /\ TypeOK /\ HoldInv /\ RoleInv /\ KnowInv /\ FreshInv /\ RecordInv /\ CookieInv
    /\ SentOnce /\ UncertainIsKept /\ SentForItsStudent /\ NoStaleCookies

\* The steps that read or end a hold, those of a submission, and those of nobody.
Reads(c)   == Begin(c) \/ See(c) \/ SelectUnlisted(c) \/ Select(c) \/ Stop(c) \/ Crash(c)
Ends(c)    == WriteBack(c) \/ WriteBackFails(c) \/ RemovalFails(c)
Submits(c) == Check(c) \/ MarkSubmitting(c) \/ MarkFails(c) \/ Post(c)
              \/ SaveSubmitted(c) \/ SaveFails(c) \/ SaveUnknown(c)
Around     == (\E op \in Prepare : Expire(op)) \/ ChangeSession \/ UNCHANGED vars

-----------------------------------------------------------------------------
(* Lemmas                                                                  *)

\* One call at a time has the hold.
LEMMA Alone ==
    ASSUME HoldInv, NEW c \in Call, NEW d \in Call, pc[c] \in Working, pc[d] \in Working
    PROVE  c = d
  BY DEF HoldInv

LEMMA Steps ==
    ASSUME [Next]_vars
    PROVE  Around \/ \E c \in Call : Reads(c) \/ Ends(c) \/ WritePreview(c) \/ Submits(c)
  BY DEF Next, Around, Reads, Ends, Submits

\* A step of a call moves that call only, which works before it or begins.
LEMMA Mover ==
    ASSUME TypeOK, NEW c \in Call, Reads(c) \/ Ends(c) \/ WritePreview(c) \/ Submits(c)
    PROVE  /\ pc[c] \in Working \/ Begin(c)
           /\ \A d \in Call : d # c => /\ pc'[d] = pc[d] /\ asked'[d] = asked[d]
                                       /\ cookies'[d] = cookies[d] /\ target'[d] = target[d]
<1> USE DEF TypeOK, Goto, Working, memory, disk, inna, history
<1>1. CASE Reads(c)
  BY <1>1 DEF Reads, Begin, See, SelectUnlisted, Select, Stop, Crash, Answer, Forget
<1>2. CASE Ends(c) \/ WritePreview(c)
  BY <1>2 DEF Ends, WriteBack, WriteBackFails, RemovalFails, WritePreview, Answer, Forget
<1>3. CASE Submits(c)
  BY <1>3 DEF Submits, Check, MarkSubmitting, MarkFails, Post, SaveSubmitted, SaveFails,
     SaveUnknown, Answer
<1> QED
  BY <1>1, <1>2, <1>3

\* An answer brings cookies that are not older.
LEMMA Answers ==
    ASSUME TypeOK, NEW c \in Call, Answer(c), cookies[c] <= issued
    PROVE  /\ issued' \in Cookies /\ issued <= issued' /\ cookies' \in [Call -> Cookies]
           /\ cookies[c] <= cookies'[c] /\ cookies'[c] <= issued'
  BY AbsenceAssumption DEF TypeOK, Answer, Cookies

\* A change of state leaves a record a record.
LEMMA Marked ==
    ASSUME NEW r \in Record, NEW s \in State
    PROVE  /\ [r EXCEPT !.state = s] \in Record /\ [r EXCEPT !.state = s] # None
           /\ [r EXCEPT !.state = s].state = s /\ [r EXCEPT !.state = s].op = r.op
           /\ [r EXCEPT !.state = s].account = r.account
  BY NoneIsNothing DEF Record

LEMMA Initially == Init => IInv
<1> SUFFICES ASSUME Init PROVE IInv
  OBVIOUS
<1>1. session # None /\ session \in Session /\ session.cookies = 0
  BY NoneIsNothing, AbsenceAssumption DEF Init, Session, Cookies
<1>2. TypeOK
  BY <1>1, AbsenceAssumption DEF Init, TypeOK, PC, Key, Cookies, Call
<1>3. HoldInv /\ RoleInv /\ KnowInv /\ FreshInv /\ RecordInv
  BY DEF Init, HoldInv, RoleInv, KnowInv, Knows, FreshInv, RecordInv, Working, Submitting, Call
<1>4. CookieInv /\ SentOnce /\ UncertainIsKept /\ SentForItsStudent /\ NoStaleCookies
  BY <1>1 DEF Init, CookieInv, SentOnce, UncertainIsKept, SentForItsStudent, NoStaleCookies
<1> QED
  BY <1>2, <1>3, <1>4 DEF IInv

\* What a submission writes of the record.
LEMMA Writes ==
    ASSUME IInv, NEW c \in Call, Submits(c)
    PROVE  /\ c \in Submit /\ pc[c] \in {"targeted"} \cup Submitting
           /\ record # None /\ record \in Record /\ record.op = asked[c]
           /\ record' # None /\ record' \in Record /\ record'.op = record.op
           /\ record'.account = record.account
<1> USE DEF IInv, Goto, disk
<1>1. c \in Submit /\ pc[c] \in {"targeted"} \cup Submitting
  BY DEF Submits, Check, MarkSubmitting, MarkFails, Post, SaveSubmitted, SaveFails, SaveUnknown,
     RoleInv, Submitting
<1>2. record # None /\ record \in Record /\ record.op = asked[c]
  BY <1>1 DEF KnowInv, Knows, TypeOK
<1>3. \/ record' = record
      \/ \E s \in State : record' = [record EXCEPT !.state = s]
  BY DEF Submits, Check, MarkSubmitting, MarkFails, Post, SaveSubmitted, SaveFails, SaveUnknown, State
<1>4. ASSUME NEW s \in State, record' = [record EXCEPT !.state = s]
      PROVE  record' # None /\ record' \in Record /\ record'.op = record.op
             /\ record'.account = record.account
  BY <1>2, <1>4, Marked
<1>5. CASE record' = record
  BY <1>1, <1>2, <1>5
<1> QED
  BY <1>1, <1>2, <1>3, <1>4, <1>5

\* The hold, the jar and the session.
LEMMA TypeStep ==
    ASSUME IInv, [Next]_vars
    PROVE  TypeOK' /\ HoldInv' /\ CookieInv' /\ NoStaleCookies'
<1> USE DEF IInv, Goto, disk, memory, inna, history
<1> DEFINE Goal == TypeOK /\ HoldInv /\ CookieInv /\ NoStaleCookies
<1>1. CASE Around
  <2>1. CASE ChangeSession
    <3>1. \A c \in Call : pc[c] \notin Working
      BY <2>1 DEF ChangeSession, Free, HoldInv, Working
    <3>2. CASE session' = None /\ UNCHANGED inna
      BY <2>1, <3>1, <3>2 DEF ChangeSession, TypeOK, HoldInv, CookieInv, NoStaleCookies
    <3>3. CASE /\ issued < MaxCookies /\ issued' = issued + 1 /\ selected' \in Student
               /\ session' = [account |-> selected', cookies |-> issued', place |-> "store"]
      <4>1. issued' \in Cookies /\ issued \in Nat /\ spent \in Nat
        BY <3>3, AbsenceAssumption DEF TypeOK, Cookies
      <4>2. session' \in Session /\ session'.cookies = issued'
        BY <3>3, <4>1 DEF Session
      <4> QED
        BY <2>1, <3>1, <3>3, <4>1, <4>2 DEF ChangeSession, TypeOK, HoldInv, CookieInv, NoStaleCookies
    <3> QED
      BY <2>1, <3>2, <3>3 DEF ChangeSession
  <2>2. ASSUME NEW op \in Prepare, Expire(op)
        PROVE  Goal'
    BY <2>2 DEF Expire, TypeOK, HoldInv, CookieInv, NoStaleCookies
  <2>3. CASE UNCHANGED vars
    BY <2>3 DEF vars, TypeOK, HoldInv, CookieInv, NoStaleCookies
  <2> QED
    BY <1>1, <2>1, <2>2, <2>3 DEF Around
\* A call with the hold whose step keeps the session.
<1>2. ASSUME NEW c \in Call, pc[c] \in Working, UNCHANGED <<session, lock, spent>>,
             (issued' = issued /\ cookies' = cookies) \/ Answer(c),
             \A d \in Call : d # c => pc'[d] = pc[d]
      PROVE  HoldInv' /\ CookieInv' /\ NoStaleCookies'
             /\ cookies' \in [Call -> Cookies] /\ issued' \in Cookies
  <2>1. \A d \in Call : d # c => pc[d] \notin Working
    BY <1>2, Alone
  <2>2. session # None /\ lock = c /\ session \in Session /\ session.cookies \in Nat
        /\ cookies[c] \in Nat /\ issued \in Nat /\ spent \in Nat
        /\ session.cookies <= cookies[c] /\ cookies[c] <= issued
    BY <1>2 DEF HoldInv, TypeOK, Session, Cookies
  <2>3. issued' \in Cookies /\ issued <= issued' /\ cookies' \in [Call -> Cookies]
        /\ cookies[c] <= cookies'[c] /\ cookies'[c] <= issued'
    BY <1>2, <2>2, Answers DEF TypeOK
  <2>4. issued' \in Nat /\ cookies'[c] \in Nat
    BY <2>3 DEF Cookies
  <2>5. HoldInv'
    BY <1>2, <2>1, <2>2, <2>3, <2>4 DEF HoldInv
  <2>6. CookieInv' /\ NoStaleCookies'
    BY <1>2, <2>2, <2>3, <2>4 DEF CookieInv, NoStaleCookies
  <2> QED
    BY <2>3, <2>5, <2>6
<1>3. ASSUME NEW c \in Call, Reads(c)
      PROVE  Goal'
  <2>0. \A d \in Call : d # c => pc'[d] = pc[d]
    BY <1>3, Mover
  <2>1. CASE Begin(c)
    <3>1. session \in Session /\ session.cookies \in Cookies
      BY <2>1 DEF Begin, TypeOK, Session
    <3>2. \A d \in Call : pc[d] \notin Working
      BY <2>1 DEF Begin, Free, HoldInv, Working
    <3>3. TypeOK'
      BY <2>1, <3>1 DEF Begin, TypeOK, PC, Working
    <3>4. HoldInv'
      BY <2>0, <2>1, <3>1, <3>2 DEF Begin, HoldInv, CookieInv, TypeOK, Cookies
    <3> QED
      BY <2>1, <3>3, <3>4 DEF Begin, CookieInv, NoStaleCookies
  <2>2. CASE See(c)
    BY <1>2, <2>0, <2>2 DEF See, TypeOK, PC, Working
  <2>3. CASE SelectUnlisted(c)
    <3>1. [student |-> selected, key |-> None] \in Target
      BY DEF TypeOK, Target, Key
    <3> QED
      BY <1>2, <2>0, <2>3, <3>1 DEF SelectUnlisted, TypeOK, PC, Working
  <2>4. CASE Select(c)
    <3> DEFINE chosen == IF Picked(c) = None THEN session.account ELSE Picked(c)
    <3>1. chosen \in Student
      <4>1. session \in Session
        BY <2>4 DEF Select, HoldInv, TypeOK, Working
      <4>2. CASE c \in Submit
        <5>1. record \in Record
          BY <2>4, <4>2 DEF Select, KnowInv, Knows, TypeOK
        <5> QED
          BY <4>1, <4>2, <5>1 DEF Picked, Record, Session, Key
      <4>3. CASE c \notin Submit
        <5>1. asked[c] \in Key
          BY <2>4, <4>3 DEF Select, RoleInv, Working
        <5> QED
          BY <4>1, <4>3, <5>1 DEF Picked, Session, Key
      <4> QED
        BY <4>2, <4>3
    <3>2. [student |-> chosen, key |-> chosen] \in Target
      BY <3>1 DEF Target, Key
    <3>3. /\ target' = [target EXCEPT ![c] = [student |-> chosen, key |-> chosen]] /\ selected' = chosen
          /\ (issued' = issued /\ cookies' = cookies) \/ Answer(c)
      BY <2>4 DEF Select
    <3> HIDE DEF chosen
    <3>4. HoldInv' /\ CookieInv' /\ NoStaleCookies' /\ cookies' \in [Call -> Cookies] /\ issued' \in Cookies
      BY <1>2, <2>0, <2>4, <3>3 DEF Select, Working
    <3>5. UNCHANGED <<disk, lock, asked, history>> /\ pc' \in [Call -> PC]
      BY <2>4 DEF Select, TypeOK, PC, Working
    <3>6. target' \in [Call -> Target \cup {None}]
      BY <3>2, <3>3 DEF TypeOK
    <3> QED
      BY <3>1, <3>3, <3>4, <3>5, <3>6 DEF TypeOK
  <2>5. CASE Stop(c)
    BY <1>2, <2>0, <2>5 DEF Stop, TypeOK, PC, Working
  <2>6. CASE Crash(c)
    <3>1. TypeOK'
      BY <2>6, AbsenceAssumption DEF Crash, Forget, TypeOK, PC, Key, Cookies
    <3>2. HoldInv'
      BY <2>6 DEF Crash, Forget, HoldInv, TypeOK, Working
    <3> QED
      BY <2>6, <3>1, <3>2 DEF Crash, CookieInv, NoStaleCookies
  <2> QED
    BY <1>3, <2>1, <2>2, <2>3, <2>4, <2>5, <2>6 DEF Reads
<1>4. ASSUME NEW c \in Call, Ends(c)
      PROVE  Goal'
  <2>1. pc[c] \in Working /\ session # None /\ session \in Session /\ cookies[c] \in Cookies
        /\ session.cookies \in Nat /\ cookies[c] \in Nat /\ issued \in Nat /\ spent \in Nat
        /\ session.cookies <= cookies[c] /\ cookies[c] <= issued
    BY <1>4 DEF Ends, WriteBack, WriteBackFails, RemovalFails, HoldInv, TypeOK, Session, Cookies, Working
  <2>2. \A d \in Call : pc'[d] \notin Working
    <3>1. pc'[c] \notin Working
      BY <1>4 DEF Ends, WriteBack, WriteBackFails, RemovalFails, TypeOK, Working
    <3> QED
      BY <1>4, <2>1, <3>1, Mover, Alone
  <2>3. [session EXCEPT !.cookies = cookies[c]] \in Session
        /\ [session EXCEPT !.cookies = cookies[c]].cookies = cookies[c]
    BY <2>1 DEF Session
  <2>4. /\ session' \in {session, [session EXCEPT !.cookies = cookies[c]], None}
        /\ spent' \in {spent, cookies[c]} /\ issued' = issued
        /\ session' # None => session'.cookies >= spent'
    <3>1. CASE WriteBack(c)
      BY <2>1, <2>3, <3>1 DEF WriteBack
    <3>2. CASE WriteBackFails(c)
      BY <2>1, <3>2 DEF WriteBackFails, NoStaleCookies
    <3>3. CASE RemovalFails(c)
      <4>1. UNCHANGED <<spent, issued>> /\ session.cookies >= spent
        BY <2>1, <3>3 DEF RemovalFails, NoStaleCookies
      <4>2. CASE session' = session
        BY <2>1, <4>1, <4>2
      <4>3. CASE session' = [session EXCEPT !.cookies = cookies[c]]
        BY <2>1, <2>3, <4>1, <4>3
      <4> QED
        BY <3>3, <4>2, <4>3 DEF RemovalFails
    <3> QED
      BY <1>4, <3>1, <3>2, <3>3 DEF Ends
  <2>5. CookieInv' /\ NoStaleCookies' /\ HoldInv'
    BY <2>1, <2>2, <2>3, <2>4 DEF CookieInv, NoStaleCookies, HoldInv
  <2>6. TypeOK'
    <3>1. session' \in Session \cup {None} /\ spent' \in Cookies
      BY <2>1, <2>3, <2>4 DEF TypeOK
    <3> QED
      <4>1. /\ asked' \in [Call -> Prepare \cup Key] /\ cookies' \in [Call -> Cookies]
            /\ target' \in [Call -> Target \cup {None}]
        BY <1>4, AbsenceAssumption DEF Ends, WriteBack, WriteBackFails, RemovalFails, Forget,
           TypeOK, Key, Cookies
      <4>2. pc' \in [Call -> PC] /\ lock' = None
        BY <1>4 DEF Ends, WriteBack, WriteBackFails, RemovalFails, TypeOK, PC
      <4> QED
        BY <1>4, <3>1, <4>1, <4>2 DEF Ends, WriteBack, WriteBackFails, RemovalFails, TypeOK
  <2> QED
    BY <2>5, <2>6
<1>5. ASSUME NEW c \in Call, WritePreview(c)
      PROVE  Goal'
  <2>1. Preview(c) \in Record
    BY <1>5 DEF WritePreview, Preview, RoleInv, TypeOK, Target, Record, State, Call
  <2>2. HoldInv' /\ CookieInv' /\ NoStaleCookies' /\ cookies' \in [Call -> Cookies] /\ issued' \in Cookies
    BY <1>2, <1>5, Mover DEF WritePreview, Working
  <2> QED
    BY <1>5, <2>1, <2>2 DEF WritePreview, TypeOK, PC, Working
<1>6. ASSUME NEW c \in Call, Submits(c)
      PROVE  Goal'
  <2>1. record' \in Record /\ record.op \in Prepare /\ record.account \in Student /\ asked[c] \in Prepare
        /\ c \in Submit /\ pc[c] \in Working
    BY <1>6, Writes DEF Record, Working, Submitting
  <2>2. UNCHANGED <<session, lock, spent, target, selected, asked, expired>>
        /\ ((issued' = issued /\ cookies' = cookies) \/ Answer(c))
    BY <1>6 DEF Submits, Check, MarkSubmitting, MarkFails, Post, SaveSubmitted, SaveFails, SaveUnknown
  <2>3. HoldInv' /\ CookieInv' /\ NoStaleCookies' /\ cookies' \in [Call -> Cookies] /\ issued' \in Cookies
    BY <1>2, <1>6, <2>1, <2>2, Mover
  <2>4. pc' \in [Call -> PC]
    BY <1>6 DEF Submits, Check, MarkSubmitting, MarkFails, Post, SaveSubmitted, SaveFails, SaveUnknown,
       TypeOK, PC, Working
  <2>5. recorded' \subseteq Prepare
    BY <1>6, <2>1 DEF Submits, Check, MarkSubmitting, MarkFails, Post, SaveSubmitted, SaveFails,
       SaveUnknown, TypeOK
  <2>6. sent' \subseteq [op: Prepare, call: Submit, account: Student, at: Student]
    BY <1>6, <2>1 DEF Submits, Check, MarkSubmitting, MarkFails, Post, SaveSubmitted, SaveFails,
       SaveUnknown, TypeOK
  <2> QED
    BY <2>1, <2>2, <2>3, <2>4, <2>5, <2>6 DEF TypeOK
<1> QED
  BY <1>1, <1>3, <1>4, <1>5, <1>6, Steps

LEMMA RoleStep ==
    ASSUME IInv, [Next]_vars
    PROVE  RoleInv'
<1> USE DEF IInv, Goto, disk, memory, inna, history
<1>1. CASE Around
  BY <1>1 DEF Around, Expire, ChangeSession, vars, RoleInv
<1>2. ASSUME NEW c \in Call, Reads(c) \/ Ends(c) \/ WritePreview(c) \/ Submits(c)
      PROVE  RoleInv'
  <2>1. /\ pc'[c] \in Working => asked'[c] \in IF c \in Submit THEN Prepare ELSE Key
        /\ pc'[c] \in Submitting => c \in Submit
        /\ pc'[c] \in {"targeted", "checked"} => target'[c] # None
    <3>1. CASE Begin(c)
      BY <3>1 DEF Begin, TypeOK, Submitting
    <3>2. CASE See(c) \/ SelectUnlisted(c) \/ Select(c)
      <4>1. \A s \in Student, k \in Key : [student |-> s, key |-> k] # None
        BY NoneIsNothing DEF Target
      <4>2. target'[c] # None \/ pc'[c] = "seen"
        BY <3>2, <4>1, TypeStep DEF See, SelectUnlisted, Select, TypeOK, Key
      <4> QED
        BY <3>2, <4>2 DEF See, SelectUnlisted, Select, RoleInv, TypeOK, Working, Submitting
    <3>3. CASE Stop(c) \/ Crash(c) \/ Ends(c) \/ WritePreview(c)
      BY <3>3 DEF Stop, Crash, Ends, WriteBack, WriteBackFails, RemovalFails, WritePreview,
         RoleInv, TypeOK, Working, Submitting
    <3>4. CASE Submits(c)
      BY <3>4 DEF Submits, Check, MarkSubmitting, MarkFails, Post, SaveSubmitted, SaveFails,
         SaveUnknown, RoleInv, TypeOK, Working, Submitting
    <3> QED
      BY <1>2, <3>1, <3>2, <3>3, <3>4 DEF Reads
  <2> QED
    BY <1>2, <2>1, Mover DEF RoleInv
<1> QED
  BY <1>1, <1>2, Steps

\* What a submission knows while it has the hold.
LEMMA KnowStep ==
    ASSUME IInv, [Next]_vars
    PROVE  KnowInv'
<1> USE DEF IInv, Goto, disk, memory, inna, history, Call
<1>1. CASE Around
  <2>1. CASE ChangeSession
    BY <2>1 DEF ChangeSession, Free, HoldInv, KnowInv, Knows, Working, Submitting
  <2> QED
    BY <1>1, <2>1 DEF Around, Expire, vars, KnowInv, Knows
<1>2. ASSUME NEW c \in Call, Reads(c) \/ Ends(c) \/ WritePreview(c) \/ Submits(c),
             NEW d \in Submit, d # c
      PROVE  pc'[d] \notin {"seen", "targeted"} \cup Submitting
  <2>1. CASE Begin(c)
    BY <1>2, <2>1 DEF Begin, Free, HoldInv, TypeOK, Working, Submitting
  <2>2. CASE pc[c] \in Working
    BY <1>2, <2>2, Mover, Alone DEF Working, Submitting
  <2> QED
    BY <1>2, <2>1, <2>2, Mover
<1>3. ASSUME NEW c \in Call, Reads(c) \/ Ends(c) \/ WritePreview(c) \/ Submits(c)
      PROVE  KnowInv'
  <2> SUFFICES ASSUME c \in Submit PROVE Knows(c)'
    BY <1>2, <1>3 DEF KnowInv, Knows, Submitting
  <2>1. Knows(c) /\ (pc[c] \in Working => lock = c)
    BY DEF KnowInv, HoldInv
  <2>2. CASE Reads(c) \/ Ends(c) \/ WritePreview(c)
    <3>1. CASE See(c)
      BY <2>1, <3>1 DEF See, HasPreview, TypeOK, Knows, Submitting
    <3>2. CASE SelectUnlisted(c) \/ Select(c)
      BY <2>1, <3>2 DEF SelectUnlisted, Select, TypeOK, Knows, Submitting
    <3>3. CASE Begin(c) \/ Stop(c) \/ Crash(c) \/ Ends(c) \/ WritePreview(c)
      BY <3>3 DEF Begin, Stop, Crash, Ends, WriteBack, WriteBackFails, RemovalFails, WritePreview,
         TypeOK, Knows, Submitting
    <3> QED
      BY <2>2, <3>1, <3>2, <3>3 DEF Reads
  <2>3. CASE Submits(c)
    <3>1. /\ record # None /\ record \in Record /\ record.op = asked[c] /\ asked'[c] = asked[c]
          /\ record' # None /\ record'.op = record.op /\ record'.account = record.account
      <4>1. UNCHANGED asked
        BY <2>3 DEF Submits, Check, MarkSubmitting, MarkFails, Post, SaveSubmitted, SaveFails, SaveUnknown
      <4> QED
        BY <2>3, <4>1, Writes
    <3>2. CASE Check(c)
      BY <2>1, <3>1, <3>2 DEF Check, Confirmed, TypeOK, Knows, Submitting
    <3>3. CASE MarkSubmitting(c)
      <4>1. record'.state = "submitting"
        BY <3>1, <3>3, Marked DEF MarkSubmitting, State
      <4>2. \A a \in sent : a.op # asked[c]
        BY <2>1, <3>1, <3>3 DEF MarkSubmitting, Knows, RecordInv
      <4> QED
        BY <2>1, <3>1, <3>3, <4>1, <4>2 DEF MarkSubmitting, TypeOK, Knows, Submitting
    <3>4. CASE Post(c)
      BY <2>1, <3>1, <3>4 DEF Post, TypeOK, Knows, Submitting
    <3>5. CASE SaveFails(c)
      <4>1. record.state = "submitting" /\ pc'[c] = "uncertain"
            /\ (record' = record \/ record' = [record EXCEPT !.state = "submitted"])
        BY <2>1, <3>5 DEF SaveFails, Knows, TypeOK
      <4>2. record'.state \in {"submitting", "submitted"}
        <5>1. CASE record' = record
          BY <4>1, <5>1
        <5>2. CASE record' = [record EXCEPT !.state = "submitted"]
          BY <3>1, <5>2, Marked DEF State
        <5> QED
          BY <4>1, <5>1, <5>2
      <4> QED
        BY <3>1, <4>1, <4>2 DEF Knows, Submitting
    <3>6. CASE MarkFails(c) \/ SaveSubmitted(c) \/ SaveUnknown(c)
      BY <3>6 DEF MarkFails, SaveSubmitted, SaveUnknown, TypeOK, Knows, Submitting
    <3> QED
      BY <2>3, <3>2, <3>3, <3>4, <3>5, <3>6 DEF Submits
  <2> QED
    BY <1>3, <2>2, <2>3
<1> QED
  BY <1>1, <1>3, Steps

\* The record and what was sent.
LEMMA SendStep ==
    ASSUME IInv, [Next]_vars
    PROVE  /\ FreshInv' /\ RecordInv'
           /\ SentOnce' /\ UncertainIsKept' /\ SentForItsStudent'
<1> USE DEF IInv, Goto, disk, memory, inna, history
<1> DEFINE Goal == FreshInv /\ RecordInv /\ SentOnce /\ UncertainIsKept /\ SentForItsStudent
\* Steps that leave the record and the absences alone.
<1>1. ASSUME UNCHANGED <<record, sent, recorded>>,
             \A p \in Prepare : pc[p] \in Past => pc'[p] \in Past
      PROVE  Goal'
  BY <1>1 DEF FreshInv, RecordInv, SentOnce, UncertainIsKept, SentForItsStudent
<1>2. CASE Around
  <2>1. UNCHANGED <<record, sent, recorded, pc>>
    BY <1>2 DEF Around, Expire, ChangeSession, vars
  <2> QED
    BY <1>1, <2>1
<1>3. ASSUME NEW c \in Call, Reads(c) \/ Ends(c)
      PROVE  Goal'
  <2>1. UNCHANGED <<record, sent, recorded>>
    BY <1>3 DEF Reads, Begin, See, SelectUnlisted, Select, Stop, Crash,
       Ends, WriteBack, WriteBackFails, RemovalFails
  <2>2. \A p \in Call : pc[p] \in Past => pc'[p] \in Past
    BY <1>3 DEF Reads, Begin, See, SelectUnlisted, Select, Stop, Crash,
       Ends, WriteBack, WriteBackFails, RemovalFails, TypeOK, Past
  <2> QED
    BY <1>1, <2>1, <2>2 DEF Call
<1>4. ASSUME NEW c \in Call, WritePreview(c)
      PROVE  Goal'
  <2>1. /\ c \in Prepare /\ pc[c] \notin Past /\ pc'[c] \in Past /\ UNCHANGED <<sent, recorded>>
        /\ \A d \in Call : d # c => pc'[d] = pc[d]
        /\ record # None => record.state \notin {"submitting", "unknown"}
        /\ record' \in {record, Preview(c)}
    BY <1>4 DEF WritePreview, Uncertain, TypeOK, Past
  <2>2. \A a \in sent : a.op # c
    BY <2>1 DEF FreshInv
  <2>3. Preview(c).op = c /\ Preview(c).state = "prepared"
    BY DEF Preview
  <2>4. CASE record' = record
    BY <1>1, <2>1, <2>4 DEF Call
  <2>5. CASE record' = Preview(c)
    <3>1. FreshInv' /\ RecordInv'
      BY <2>1, <2>2, <2>3, <2>5 DEF FreshInv, RecordInv, Call
    <3>2. \A a \in sent : a.op \in recorded
      <4> SUFFICES ASSUME NEW a \in sent, a.op \notin recorded PROVE FALSE
        OBVIOUS
      <4>1. record # None /\ record.op = a.op /\ record.state # "prepared"
        BY DEF UncertainIsKept
      <4>2. record.state = "submitted"
        BY <2>1, <4>1 DEF TypeOK, Record, State
      <4> QED
        BY <4>1, <4>2 DEF RecordInv
    <3> QED
      BY <2>1, <3>1, <3>2 DEF SentOnce, UncertainIsKept, SentForItsStudent
  <2> QED
    BY <2>1, <2>4, <2>5
<1>5. ASSUME NEW c \in Call, Submits(c)
      PROVE  Goal'
  <2>1. /\ c \in Submit /\ pc[c] \in {"targeted"} \cup Submitting
        /\ record # None /\ record \in Record /\ record.op = asked[c]
        /\ record' # None /\ record'.op = record.op
    BY <1>5, Writes
  <2>2. \A p \in Prepare : pc'[p] = pc[p]
    BY <1>5, <2>1, Mover, AbsenceAssumption DEF Call
  <2>3. CASE Check(c)
    BY <1>1, <2>2, <2>3 DEF Check
  <2>4. CASE Post(c)
    <3> DEFINE new == [op |-> asked[c], call |-> c, account |-> record.account, at |-> selected]
    <3>1. /\ UNCHANGED <<record, recorded>> /\ sent' \in {sent, sent \cup {new}}
          /\ record.state = "submitting" /\ record.account = selected
          /\ \A a \in sent : a.op # asked[c]
      BY <2>1, <2>4 DEF Post, KnowInv, Knows
    <3>2. new.op = asked[c] /\ new.account = record.account /\ new.at = selected
      OBVIOUS
    <3> HIDE DEF new
    <3>3. FreshInv' /\ RecordInv'
      BY <2>1, <2>2, <3>1, <3>2 DEF FreshInv, RecordInv
    <3> QED
      BY <2>1, <3>1, <3>2, <3>3 DEF SentOnce, UncertainIsKept, SentForItsStudent
  <2>5. CASE MarkSubmitting(c) \/ MarkFails(c) \/ SaveUnknown(c)
    <3>1. /\ UNCHANGED <<sent, recorded>>
          /\ \/ record' = record
             \/ \E s \in {"submitting", "unknown"} : record' = [record EXCEPT !.state = s]
      BY <2>5 DEF MarkSubmitting, MarkFails, SaveUnknown
    <3>2. record' = record \/ record'.state \in {"submitting", "unknown"}
      <4>1. ASSUME NEW s \in {"submitting", "unknown"}, record' = [record EXCEPT !.state = s]
            PROVE  record'.state = s
        BY <2>1, <4>1, Marked DEF State
      <4> QED
        BY <3>1, <4>1
    <3> QED
      BY <2>1, <2>2, <3>1, <3>2 DEF FreshInv, RecordInv, SentOnce, UncertainIsKept, SentForItsStudent
  <2>6. CASE SaveSubmitted(c) \/ SaveFails(c)
    <3>1. /\ sent' = sent
          /\ \/ UNCHANGED <<record, recorded>>
             \/ /\ record' = [record EXCEPT !.state = "submitted"]
                /\ recorded' = recorded \cup {record.op}
      BY <2>6 DEF SaveSubmitted, SaveFails
    <3>2. [record EXCEPT !.state = "submitted"].state = "submitted"
      BY <2>1, Marked DEF State
    <3> QED
      BY <2>1, <2>2, <3>1, <3>2 DEF FreshInv, RecordInv, SentOnce, UncertainIsKept, SentForItsStudent
  <2> QED
    BY <1>5, <2>3, <2>4, <2>5, <2>6 DEF Submits
<1> QED
  BY <1>2, <1>3, <1>4, <1>5, Steps

-----------------------------------------------------------------------------
(* Theorems                                                                *)

\* Every reachable state satisfies the invariant.
THEOREM Inductive == Spec => []IInv
<1>1. IInv /\ [Next]_vars => IInv'
  BY TypeStep, RoleStep, KnowStep, SendStep DEF IInv
<1> QED
  BY Initially, <1>1, PTL DEF Spec

\* Type correctness.
THEOREM TypeCorrect == Spec => []TypeOK
<1>1. IInv => TypeOK
  BY DEF IInv
<1> QED
  BY <1>1, Inductive, PTL

\* An approved preview is sent at most once, by any number of submissions that
\* die or fail to write anywhere (submit_absence).
THEOREM OneAbsence == Spec => []SentOnce
<1>1. IInv => SentOnce
  BY DEF IInv
<1> QED
  BY <1>1, Inductive, PTL

\* An absence that left is on record until it is recorded as submitted, for any
\* number of previews, sign-ins and failed writes (prepare_absence).
THEOREM KeptUncertain == Spec => []UncertainIsKept
<1>1. IInv => UncertainIsKept
  BY DEF IInv
<1> QED
  BY <1>1, Inductive, PTL

\* An absence reaches Inna for the student of its preview, however many students
\* and accounts there are (submit_absence, select_student).
THEOREM RightStudent == Spec => []SentForItsStudent
<1>1. IInv => SentForItsStudent
  BY DEF IInv
<1> QED
  BY <1>1, Inductive, PTL

\* Replaced cookies are not on disk once a hold ended that replaced or could not
\* save them, for any number of replacements (write_back).
THEOREM FreshCookies == Spec => []NoStaleCookies
<1>1. IInv => NoStaleCookies
  BY DEF IInv
<1> QED
  BY <1>1, Inductive, PTL

-----------------------------------------------------------------------------
(* Reads and the keep-alive of the session that absences share (module      *)
(* InnaReads), for any hosts, students and number of replaced cookies.  The *)
(* conditions on the constants are hypotheses of the theorems: nothing is   *)
(* also a host, a set of cookies or a session, and the session has a        *)
(* student.                                                                 *)

\* The request that a renewal comes back to.
At == IF step = "renew" THEN back ELSE step

\* What was read is the key's while Inna serves the key's student; else that
\* was moved away once, and is not moved again.
ServedInv ==
    /\ At \in {"user", "again", "switch"} => served = {}
    /\ At \in {"read", "check"} =>
           IF portal.selected = key THEN served \subseteq {key} ELSE past.moved = TRUE
    /\ step = "answered" => served \subseteq {key}
    /\ answer # None => answer.served \subseteq {answer.key}

\* An operation has a host and a session, whose pause it keeps; it renews for
\* the sake of a request that recovers.
HeldInv ==
    /\ step = "renew" => back \in Read!Recovers
    /\ holder = None <=> step = "idle"
    /\ step # "idle" => saved # None /\ (saved.pause = TRUE => pause = TRUE)

\* A pause that was not lost is saved, or will be by the operation.
PauseInv ==
    past.limited = TRUE /\ past.forgotten = FALSE =>
        saved # None /\ (saved.pause = TRUE \/ (step # "idle" /\ pause = TRUE))

\* What a refusal left is noted, or will be before the keep-alive looks again.
RefusalInv ==
    /\ \A h \in Host :
           /\ telling[h] # None => telling[h] = past.left[h]
           /\ telling[h] = None /\ past.left[h] # None => refused[h] = past.left[h]
    /\ step = "touch" => jar # past.left[holder]

VerifiedInv == fresh = TRUE => past.verified = jar

ReadInv ==
    Read!TypeOK /\ ServedInv /\ HeldInv /\ PauseInv /\ RefusalInv /\ VerifiedInv

Opens(h) == Read!Begin(h) \/ Read!Touch(h)
Leaves   == Read!WriteBack \/ Read!WriteBackFails
Requests == \/ Read!Paused \/ Read!Looked \/ Read!Switched \/ Read!RenewsFirst \/ Read!DataRead
            \/ Read!ReadEnds \/ Read!Unauthorized \/ Read!Redirected \/ Read!Limited \/ Read!Fails
Hosts    == \/ \E h \in Host : Read!Tell(h) \/ Read!Crash(h)
            \/ Read!Login \/ Read!Logout
Portal   == \/ Read!SignedOut \/ Read!Ages \/ Read!PauseEnds
            \/ (\E s \in Student : Read!Selects(s)) \/ UNCHANGED Read!vars

LEMMA ReadSteps ==
    [Read!Next]_(Read!vars) <=>
        (\E h \in Host : Opens(h)) \/ Leaves \/ Requests \/ Hosts \/ Portal
  BY DEF Read!Next, Opens, Leaves, Requests, Hosts, Portal

LEMMA ReadInit ==
    ASSUME Read!Init
    PROVE  ReadInv
<1> USE DEF Read!Init
<1>0. 0 \in Read!Jar /\ Own \in Student /\ None \notin Read!Saved
  <2>1. MaxJar \in Nat => 0 \in 0..MaxJar
    OBVIOUS
  <2> QED
    BY <2>1, ReadsAssumption DEF Read!Jar
<1>1. saved \in Read!Saved /\ saved.pause = FALSE
  BY <1>0 DEF Read!Saved
<1>2. Read!TypeOK /\ ServedInv /\ HeldInv /\ PauseInv /\ VerifiedInv
  <2>1. past \in [limited: BOOLEAN, forgotten: BOOLEAN, moved: BOOLEAN,
                  verified: Read!Jar \cup {None}, left: [Host -> Read!Jar \cup {None}]]
    OBVIOUS
  <2>2. portal \in [selected: Student, issued: Read!Jar, alive: BOOLEAN]
    BY <1>0
  <2>3. "idle" \in Read!Step
    BY DEF Read!Step
  <2>4. Read!TypeOK
    BY <1>0, <1>1, <2>1, <2>2, <2>3 DEF Read!TypeOK
  <2> QED
    BY <1>0, <1>1, <2>4 DEF ServedInv, HeldInv, PauseInv, VerifiedInv, At
<1>3. RefusalInv
  BY DEF RefusalInv
<1> QED
  BY <1>2, <1>3 DEF ReadInv

\* An operation takes what is saved, and begins with nothing read.
LEMMA OpenStep ==
    ASSUME ReadInv, NEW h \in Host, Opens(h)
    PROVE  ReadInv'
<1> USE DEF Opens, Read!Begin, Read!Touch, Read!Opens
<1>0. /\ Read!TypeOK /\ RefusalInv /\ PauseInv /\ HeldInv /\ saved # None /\ saved \in Read!Saved
      /\ past \in [limited: BOOLEAN, forgotten: BOOLEAN, moved: BOOLEAN,
                   verified: Read!Jar \cup {None}, left: [Host -> Read!Jar \cup {None}]]
      /\ step = "idle"
  BY DEF ReadInv, Read!TypeOK, HeldInv
<1>1. /\ past'.limited = past.limited /\ past'.forgotten = past.forgotten
      /\ past'.left = past.left
  BY <1>0
<1>2. Read!TypeOK'
  <2>1. past' \in [limited: BOOLEAN, forgotten: BOOLEAN, moved: BOOLEAN,
                   verified: Read!Jar \cup {None}, left: [Host -> Read!Jar \cup {None}]]
    BY <1>0
  <2> QED
    BY <1>0, <2>1 DEF Read!TypeOK, Read!Saved, Read!Step, Read!Asks, Read!Looks
<1>3. ServedInv' /\ VerifiedInv'
  BY DEF ServedInv, VerifiedInv, At
<1>4. HeldInv'
  BY <1>0, ReadsAssumption DEF HeldInv
<1>5. PauseInv'
  BY <1>0, <1>1 DEF PauseInv
<1>6. RefusalInv'
  <2>1. step' = "touch" => jar' # past'.left[h]
    BY <1>0, <1>1, ReadsAssumption DEF RefusalInv, Read!Saved
  <2> QED
    BY <1>0, <1>1, <2>1 DEF RefusalInv
<1> QED
  BY <1>2, <1>3, <1>4, <1>5, <1>6 DEF ReadInv

\* What an operation brings home.
LEMMA LeaveStep ==
    ASSUME ReadInv, Leaves
    PROVE  ReadInv'
<1> USE DEF Leaves, Read!WriteBack, Read!WriteBackFails, Read!Leave, Read!Dropped
<1>0. /\ Read!TypeOK /\ ServedInv /\ HeldInv /\ PauseInv /\ RefusalInv
      /\ step \in {"kept", "answered", "failed", "refused"}
      /\ holder \in Host /\ saved # None /\ saved \in Read!Saved
      /\ past \in [limited: BOOLEAN, forgotten: BOOLEAN, moved: BOOLEAN,
                   verified: Read!Jar \cup {None}, left: [Host -> Read!Jar \cup {None}]]
      /\ jar \in Read!Jar /\ pause \in BOOLEAN /\ learned \in SUBSET Student
  BY DEF ReadInv, Read!TypeOK, HeldInv
<1>1. saved' \in Read!Saved \cup {None}
  BY <1>0 DEF Read!Saved
<1>2. past' \in [limited: BOOLEAN, forgotten: BOOLEAN, moved: BOOLEAN,
                 verified: Read!Jar \cup {None}, left: [Host -> Read!Jar \cup {None}]]
  BY <1>0 DEF Read!Saved
<1>3. Read!TypeOK'
  <2>1. answer' \in [key: Student, served: SUBSET Student] \cup {None}
    BY <1>0 DEF Read!TypeOK
  <2>2. telling' \in [Host -> Read!Jar \cup {None}] /\ UNCHANGED <<refused, portal>>
    BY <1>0 DEF Read!TypeOK, Read!Refusal
  <2>3. /\ 0 \in Read!Jar /\ Own \in Student /\ "idle" \in Read!Step
        /\ step' = "idle" /\ back' = "idle" /\ holder' = None /\ key' = Own /\ jar' = 0
        /\ learned' = {} /\ pause' = FALSE /\ fresh' = FALSE /\ retried' = FALSE /\ served' = {}
    BY ReadsAssumption DEF Read!Step, Read!Jar
  <2> QED
    BY <1>0, <1>1, <1>2, <2>1, <2>2, <2>3 DEF Read!TypeOK
<1>4. ServedInv' /\ VerifiedInv' /\ HeldInv'
  BY <1>0 DEF ServedInv, VerifiedInv, HeldInv, At
<1>5. PauseInv'
  <2>1. CASE Read!WriteBack
    <3>1. saved' # None /\ saved'.pause = pause
      BY <1>0, <2>1, ReadsAssumption DEF Read!Saved
    <3>2. past'.limited = past.limited /\ past'.forgotten = past.forgotten
      BY <1>0, <2>1
    <3> QED
      BY <1>0, <3>1, <3>2 DEF PauseInv, HeldInv
  <2>2. CASE Read!WriteBackFails
    <3>1. past'.limited = past.limited
          /\ past'.forgotten = (past.forgotten \/ (pause /\ ~saved.pause) \/ saved' = None)
      BY <1>0, <2>2
    <3>2. saved.pause \in BOOLEAN
      BY <1>0 DEF Read!Saved
    <3> QED
      BY <1>0, <2>2, <3>1, <3>2 DEF PauseInv, HeldInv
  <2> QED
    BY <2>1, <2>2
<1>6. RefusalInv'
  <2>1. CASE Read!WriteBack /\ step = "refused"
    BY <1>0, <2>1 DEF RefusalInv, Read!TypeOK, Read!Refusal
  <2>2. CASE past'.left = past.left /\ UNCHANGED <<telling, refused>>
    BY <1>0, <2>2 DEF RefusalInv
  <2> QED
    BY <1>0, <2>1, <2>2
<1> QED
  BY <1>3, <1>4, <1>5, <1>6 DEF ReadInv

\* What a request leaves alone, and where it can lead.
LEMMA Requested ==
    ASSUME Read!TypeOK, HeldInv, Requests
    PROVE  /\ UNCHANGED <<saved, refused, telling, holder, key, answer>>
           /\ step \in Read!Asks /\ step' \in Read!Step \ {"idle", "touch"}
           /\ step' = "renew" => back' \in Read!Recovers
           /\ back' \in Read!Step
<1> USE DEF Read!Sends, Read!Ends
<1>0. /\ back \in Read!Step /\ step \in Read!Step
      /\ step = "renew" => back \in Read!Recovers
      /\ "failed" \in Read!Step /\ "renew" \in Read!Step /\ "check" \in Read!Step
  BY DEF Read!TypeOK, HeldInv, Read!Step, Read!Asks, Read!Looks
<1>1. CASE Read!Paused \/ Read!Limited \/ Read!Fails \/ Read!Redirected
  BY <1>0, <1>1 DEF Read!Paused, Read!Limited, Read!Fails, Read!Redirected, Read!Step
<1>2. CASE Read!Looked
  <2>1. PICK to \in Read!Step : Read!Follows(to) /\ Read!Ends(to)
    BY <1>2 DEF Read!Looked
  <2>2. to \in {"read", "switch", "failed", "answered", "kept"} \cup Read!Recovers
    BY <1>0, <2>1 DEF Read!Follows
  <2> QED
    BY <1>0, <1>2, <2>1, <2>2 DEF Read!Looked, Read!Asks, Read!Recovers, Read!Looks
<1>3. CASE Read!Switched \/ Read!DataRead \/ Read!ReadEnds
  BY <1>0, <1>3 DEF Read!Switched, Read!DataRead, Read!ReadEnds, Read!Asks, Read!Looks, Read!Step
<1>4. CASE Read!RenewsFirst \/ Read!Unauthorized
  BY <1>0, <1>4 DEF Read!RenewsFirst, Read!Unauthorized, Read!Asks, Read!Looks, Read!Recovers,
     Read!Step
<1> QED
  BY <1>1, <1>2, <1>3, <1>4 DEF Requests

LEMMA RequestTypes ==
    ASSUME Read!TypeOK, HeldInv, Requests
    PROVE  Read!TypeOK'
<1> USE DEF Read!Sends
<1>0. /\ saved \in Read!Saved \cup {None}
      /\ refused \in [Host -> Read!Jar \cup {None}] /\ telling \in [Host -> Read!Jar \cup {None}]
      /\ holder \in Host \cup {None} /\ key \in Student
      /\ answer \in [key: Student, served: SUBSET Student] \cup {None}
      /\ jar \in Read!Jar /\ learned \in SUBSET Student /\ served \in SUBSET Student
      /\ pause \in BOOLEAN /\ fresh \in BOOLEAN /\ retried \in BOOLEAN
      /\ portal \in [selected: Student, issued: Read!Jar, alive: BOOLEAN]
      /\ past \in [limited: BOOLEAN, forgotten: BOOLEAN, moved: BOOLEAN,
                   verified: Read!Jar \cup {None}, left: [Host -> Read!Jar \cup {None}]]
  BY DEF Read!TypeOK
<1>1. UNCHANGED <<saved, refused, telling, holder, key, answer>>
      /\ step' \in Read!Step /\ back' \in Read!Step
  BY Requested
<1>2. /\ jar' \in Read!Jar /\ learned' \in SUBSET Student /\ served' \in SUBSET Student
      /\ pause' \in BOOLEAN /\ fresh' \in BOOLEAN /\ retried' \in BOOLEAN
  BY <1>0 DEF Requests, Read!Paused, Read!Looked, Read!Switched, Read!RenewsFirst, Read!DataRead,
     Read!ReadEnds, Read!Unauthorized, Read!Redirected, Read!Limited, Read!Fails, Read!Captures,
     Read!Kept, Read!Learned, Read!Ends
<1>3. portal' \in [selected: Student, issued: Read!Jar, alive: BOOLEAN]
  <2>1. CASE Read!Captures
    BY <1>0, <2>1 DEF Read!Captures, Read!Kept, Read!Accepts
  <2>2. CASE Read!Switched \/ Read!Fails
    BY <1>0, <2>2 DEF Read!Switched, Read!Kept, Read!Fails
  <2>3. CASE UNCHANGED portal
    BY <1>0, <2>3
  <2> QED
    BY <2>1, <2>2, <2>3 DEF Requests, Read!Paused, Read!Looked, Read!RenewsFirst, Read!DataRead,
       Read!ReadEnds, Read!Unauthorized, Read!Redirected, Read!Limited
<1>4. past' \in [limited: BOOLEAN, forgotten: BOOLEAN, moved: BOOLEAN,
                 verified: Read!Jar \cup {None}, left: [Host -> Read!Jar \cup {None}]]
  <2>1. CASE Read!Looked \/ Read!Limited
    BY <1>0, <1>2, <2>1 DEF Read!Looked, Read!Limited
  <2>2. CASE UNCHANGED past
    BY <1>0, <2>2
  <2> QED
    BY <2>1, <2>2 DEF Requests, Read!Paused, Read!Switched, Read!RenewsFirst, Read!DataRead,
       Read!ReadEnds, Read!Unauthorized, Read!Redirected, Read!Fails
<1> QED
  BY <1>0, <1>1, <1>2, <1>3, <1>4 DEF Read!TypeOK

\* A read gathers what is the key's, or will see that the student was moved.
LEMMA RequestServes ==
    ASSUME Read!TypeOK, HeldInv, ServedInv, Requests
    PROVE  ServedInv'
<1> USE DEF Read!Sends, Read!Ends, At
<1>0. /\ portal \in [selected: Student, issued: Read!Jar, alive: BOOLEAN]
      /\ past \in [limited: BOOLEAN, forgotten: BOOLEAN, moved: BOOLEAN,
                   verified: Read!Jar \cup {None}, left: [Host -> Read!Jar \cup {None}]]
      /\ step = "renew" => back \in {"user", "again", "check", "switch", "read"}
      /\ step \in Read!Asks
  BY Requested DEF Read!TypeOK, HeldInv, Read!Recovers, Read!Asks, Read!Looks
<1>1. UNCHANGED <<key, answer>>
  BY Requested
<1>2. CASE Read!Paused \/ Read!Limited \/ Read!Fails \/ Read!Redirected
  <2>1. step' \in {"failed", "refused"}
    BY <1>2 DEF Read!Paused, Read!Limited, Read!Fails, Read!Redirected
  <2> QED
    BY <1>1, <2>1 DEF ServedInv
<1>3. CASE Read!Looked
  <2>1. /\ portal'.selected = portal.selected /\ past'.moved = past.moved /\ UNCHANGED served
        /\ \E to \in Read!Step : Read!Follows(to) /\ Read!Ends(to)
    BY <1>0, <1>3 DEF Read!Looked, Read!Captures
  <2> QED
    BY <1>0, <1>1, <2>1 DEF ServedInv, Read!Follows, Read!StillSelected, Read!Matches
<1>4. CASE Read!Switched
  BY <1>1, <1>4 DEF Read!Switched, ServedInv
<1>5. CASE Read!DataRead
  <2>1. portal'.selected = portal.selected
    BY <1>0, <1>5 DEF Read!DataRead, Read!Captures
  <2> QED
    BY <1>1, <1>5, <2>1 DEF ServedInv, Read!DataRead
<1>6. CASE Read!ReadEnds \/ Read!RenewsFirst
  BY <1>1, <1>6 DEF ServedInv, Read!ReadEnds, Read!RenewsFirst
<1>7. CASE Read!Unauthorized
  <2>1. portal'.selected = portal.selected
    BY <1>0, <1>7 DEF Read!Unauthorized, Read!Captures
  <2> QED
    BY <1>0, <1>1, <1>7, <2>1 DEF ServedInv, Read!Unauthorized, Read!Recovers, Read!Asks, Read!Looks
<1> QED
  BY <1>2, <1>3, <1>4, <1>5, <1>6, <1>7 DEF Requests

\* A request keeps or makes a pause; only one that verified keeps cookies fresh.
LEMMA RequestStep ==
    ASSUME ReadInv, Requests
    PROVE  ReadInv'
<1>0. Read!TypeOK /\ ServedInv /\ HeldInv /\ PauseInv /\ RefusalInv /\ VerifiedInv
  BY DEF ReadInv
<1>1. /\ UNCHANGED <<saved, refused, telling, holder, key, answer>>
      /\ step \in Read!Asks /\ step' \in Read!Step \ {"idle", "touch"}
      /\ step' = "renew" => back' \in Read!Recovers
  BY <1>0, Requested
<1>2. step # "idle" /\ step' # "idle" /\ step' # "touch"
  BY <1>1 DEF Read!Asks, Read!Looks
<1>3. past \in [limited: BOOLEAN, forgotten: BOOLEAN, moved: BOOLEAN,
                   verified: Read!Jar \cup {None}, left: [Host -> Read!Jar \cup {None}]]
  BY <1>0 DEF Read!TypeOK
<1>4. /\ past'.left = past.left
      /\ \/ pause' = TRUE
         \/ pause' = pause /\ past'.limited = past.limited /\ past'.forgotten = past.forgotten
  BY <1>3 DEF Requests, Read!Paused, Read!Looked, Read!Switched, Read!RenewsFirst, Read!DataRead,
     Read!ReadEnds, Read!Unauthorized, Read!Redirected, Read!Limited, Read!Fails
<1>5. HeldInv' /\ PauseInv' /\ RefusalInv'
  BY <1>0, <1>1, <1>2, <1>4 DEF HeldInv, PauseInv, RefusalInv
<1>6. VerifiedInv'
  BY <1>0, <1>3 DEF VerifiedInv, Requests, Read!Paused, Read!Looked, Read!Switched,
     Read!RenewsFirst, Read!DataRead, Read!ReadEnds, Read!Unauthorized, Read!Redirected,
     Read!Limited, Read!Fails
<1> QED
  BY <1>0, <1>5, <1>6, RequestTypes, RequestServes DEF ReadInv

\* Hosts die and forget, note refusals, and commands change the session between holds.
LEMMA HostStep ==
    ASSUME ReadInv, Hosts
    PROVE  ReadInv'
<1>0. /\ Read!TypeOK /\ ServedInv /\ HeldInv /\ PauseInv /\ RefusalInv /\ VerifiedInv
      /\ saved \in Read!Saved \cup {None} /\ portal \in [selected: Student, issued: Read!Jar, alive: BOOLEAN]
      /\ refused \in [Host -> Read!Jar \cup {None}] /\ telling \in [Host -> Read!Jar \cup {None}]
      /\ past \in [limited: BOOLEAN, forgotten: BOOLEAN, moved: BOOLEAN,
                   verified: Read!Jar \cup {None}, left: [Host -> Read!Jar \cup {None}]]
      /\ jar \in Read!Jar /\ None \notin Read!Jar /\ None \notin Read!Saved /\ None \notin Host
      /\ Own \in Student /\ 0 \in Read!Jar /\ "idle" \in Read!Step
  BY ReadsAssumption DEF ReadInv, Read!TypeOK, Read!Jar, Read!Step
<1>1. ASSUME NEW h \in Host, Read!Tell(h)
      PROVE  ReadInv'
  <2>1. UNCHANGED <<saved, holder, step, back, key, jar, learned, pause, fresh, retried, served,
                    answer, portal, past>>
    BY <1>1 DEF Read!Tell, Read!connection
  <2>2. Read!TypeOK'
    BY <1>0, <1>1, <2>1 DEF Read!TypeOK, Read!Tell
  <2>3. RefusalInv'
    BY <1>0, <1>1, <2>1 DEF RefusalInv, Read!Tell
  <2> QED
    BY <1>0, <2>1, <2>2, <2>3 DEF ReadInv, ServedInv, HeldInv, PauseInv, VerifiedInv, At
<1>2. ASSUME NEW h \in Host, Read!Crash(h)
      PROVE  ReadInv'
  <2>1. /\ UNCHANGED <<saved, answer, portal>>
        /\ past'.left = [past.left EXCEPT ![h] = None]
        /\ past'.limited = past.limited /\ past'.moved = past.moved
        /\ past'.verified = past.verified
        /\ past'.forgotten = (past.forgotten \/ (holder = h /\ pause /\ ~saved.pause))
    BY <1>0, <1>2 DEF Read!Crash
  <2>2. CASE holder = h
    <3>1. Read!Dropped
      BY <1>2, <2>2 DEF Read!Crash
    <3>2. Read!TypeOK'
      BY <1>0, <1>2, <3>1 DEF Read!TypeOK, Read!Crash, Read!Dropped
    <3>3. ServedInv' /\ HeldInv' /\ VerifiedInv'
      BY <1>0, <2>1, <3>1 DEF ServedInv, HeldInv, VerifiedInv, Read!Dropped, At
    <3>4. PauseInv'
      <4>1. saved # None /\ saved.pause \in BOOLEAN
        BY <1>0, <2>2 DEF HeldInv, Read!Saved
      <4> QED
        BY <1>0, <2>1, <2>2, <3>1, <4>1 DEF PauseInv, HeldInv, Read!Dropped
    <3>5. RefusalInv'
      BY <1>0, <1>2, <2>1, <3>1 DEF RefusalInv, Read!Crash, Read!Dropped
    <3> QED
      BY <3>2, <3>3, <3>4, <3>5 DEF ReadInv
  <2>3. CASE holder # h
    <3>1. UNCHANGED <<holder, step, back, key, jar, learned, pause, fresh, retried, served>>
      BY <1>2, <2>3 DEF Read!Crash, Read!connection
    <3>2. Read!TypeOK'
      <4>1. past' \in [limited: BOOLEAN, forgotten: BOOLEAN, moved: BOOLEAN,
                       verified: Read!Jar \cup {None}, left: [Host -> Read!Jar \cup {None}]]
        BY <1>0, <1>2 DEF Read!Crash
      <4>2. /\ refused' \in [Host -> Read!Jar \cup {None}]
            /\ telling' \in [Host -> Read!Jar \cup {None}]
        BY <1>0, <1>2 DEF Read!Crash
      <4> QED
        BY <1>0, <2>1, <3>1, <4>1, <4>2 DEF Read!TypeOK
    <3>3. RefusalInv'
      <4>1. /\ refused' = [refused EXCEPT ![h] = None] /\ telling' = [telling EXCEPT ![h] = None]
        BY <1>2 DEF Read!Crash
      <4>2. past.left \in [Host -> Read!Jar \cup {None}]
        BY <1>0
      <4>3. step = "touch" => holder \in Host
        BY <1>0 DEF HeldInv, Read!TypeOK
      <4> QED
        BY <1>0, <2>1, <2>3, <3>1, <4>1, <4>2, <4>3 DEF RefusalInv
    <3> QED
      BY <1>0, <2>1, <2>3, <3>1, <3>2, <3>3 DEF ReadInv, ServedInv, HeldInv, PauseInv, VerifiedInv, At
  <2> QED
    BY <2>2, <2>3
<1>3. CASE Read!Login \/ Read!Logout
  <2>1. /\ UNCHANGED <<refused, telling, holder, step, back, key, jar, learned, pause, fresh, retried,
                       served, answer>>
        /\ holder = None /\ step = "idle"
    BY <1>0, <1>3 DEF Read!Login, Read!Logout, Read!connection, HeldInv
  <2>2. /\ saved' \in Read!Saved \cup {None}
        /\ portal' \in [selected: Student, issued: Read!Jar, alive: BOOLEAN]
    <3>1. CASE Read!Login
      <4>1. portal.issued + 1 \in Read!Jar
        <5>1. portal.issued \in 0..MaxJar /\ MaxJar \in Nat
          BY <1>0, ReadsAssumption DEF Read!Jar
        <5> QED
          BY <3>1, <5>1 DEF Read!Login, Read!Jar
      <4>2. saved # None => saved.learned \in SUBSET Student
        BY <1>0 DEF Read!Saved
      <4>3. saved' \in Read!Saved
        BY <1>0, <3>1, <4>1, <4>2 DEF Read!Login, Read!Saved
      <4> QED
        BY <1>0, <3>1, <4>1, <4>3 DEF Read!Login
    <3>2. CASE Read!Logout
      BY <1>0, <3>2 DEF Read!Logout
    <3> QED
      BY <1>3, <3>1, <3>2
  <2>3. past' \in [limited: BOOLEAN, forgotten: BOOLEAN, moved: BOOLEAN,
                   verified: Read!Jar \cup {None}, left: [Host -> Read!Jar \cup {None}]]
    BY <1>0, <1>3 DEF Read!Login, Read!Logout
  <2>4. past'.left = past.left /\ past'.limited = past.limited /\ past'.verified = past.verified
    BY <1>0, <1>3 DEF Read!Login, Read!Logout
  <2>5. PauseInv'
    <3>1. CASE Read!Login
      BY <1>0, <2>1, <3>1 DEF PauseInv, Read!Login, Read!Saved
    <3>2. CASE Read!Logout
      BY <1>0, <3>2 DEF PauseInv, Read!Logout
    <3> QED
      BY <1>3, <3>1, <3>2
  <2>6. Read!TypeOK'
    BY <1>0, <2>1, <2>2, <2>3 DEF Read!TypeOK
  <2> QED
    BY <1>0, <2>1, <2>4, <2>5, <2>6 DEF ReadInv, ServedInv, HeldInv, RefusalInv, VerifiedInv, At
<1> QED
  BY <1>1, <1>2, <1>3 DEF Hosts

\* Inna signs out, time passes, and the owner's browser selects once in a hold.
LEMMA PortalStep ==
    ASSUME ReadInv, Portal
    PROVE  ReadInv'
<1>0. /\ Read!TypeOK /\ ServedInv /\ HeldInv /\ PauseInv /\ RefusalInv /\ VerifiedInv
      /\ saved \in Read!Saved \cup {None} /\ portal \in [selected: Student, issued: Read!Jar, alive: BOOLEAN]
      /\ past \in [limited: BOOLEAN, forgotten: BOOLEAN, moved: BOOLEAN,
                   verified: Read!Jar \cup {None}, left: [Host -> Read!Jar \cup {None}]]
      /\ None \notin Read!Saved /\ step \in Read!Step
  BY ReadsAssumption DEF ReadInv, Read!TypeOK
<1>1. CASE Read!SignedOut \/ Read!Ages
  <2>1. /\ UNCHANGED <<saved, refused, telling, holder, step, back, key, jar, learned, pause,
                       retried, served, answer>>
        /\ portal'.selected = portal.selected /\ past'.left = past.left
        /\ past'.moved = past.moved /\ past'.limited = past.limited
        /\ past'.forgotten = past.forgotten
        /\ fresh' = FALSE \/ (fresh' = fresh /\ past' = past)
    BY <1>0, <1>1 DEF Read!SignedOut, Read!Ages, Read!connection
  <2>2. Read!TypeOK'
    <3>1. /\ portal' \in [selected: Student, issued: Read!Jar, alive: BOOLEAN]
          /\ past' \in [limited: BOOLEAN, forgotten: BOOLEAN, moved: BOOLEAN,
                        verified: Read!Jar \cup {None}, left: [Host -> Read!Jar \cup {None}]]
      BY <1>0, <1>1 DEF Read!SignedOut, Read!Ages
    <3> QED
      BY <1>0, <2>1, <3>1 DEF Read!TypeOK
  <2> QED
    BY <1>0, <2>1, <2>2 DEF ReadInv, ServedInv, HeldInv, PauseInv, RefusalInv, VerifiedInv, At
<1>2. CASE Read!PauseEnds
  <2>1. /\ UNCHANGED <<refused, telling, holder, step, back, key, jar, learned, fresh, retried,
                       served, answer, portal>>
        /\ past'.left = past.left /\ past'.moved = past.moved /\ past'.verified = past.verified
        /\ past'.limited = FALSE /\ pause' = FALSE
    BY <1>0, <1>2 DEF Read!PauseEnds
  <2>2. /\ saved' \in Read!Saved \cup {None} /\ (saved # None => saved' # None)
        /\ saved' # None => saved'.pause = FALSE
    <3>1. saved # None => [saved EXCEPT !.pause = FALSE] \in Read!Saved
      BY <1>0 DEF Read!Saved
    <3>2. saved # None => [saved EXCEPT !.pause = FALSE].pause = FALSE
      BY <1>0 DEF Read!Saved
    <3> QED
      BY <1>0, <1>2, <3>1, <3>2 DEF Read!PauseEnds
  <2>3. Read!TypeOK'
    <3>1. past' \in [limited: BOOLEAN, forgotten: BOOLEAN, moved: BOOLEAN,
                     verified: Read!Jar \cup {None}, left: [Host -> Read!Jar \cup {None}]]
      BY <1>0, <1>2 DEF Read!PauseEnds
    <3> QED
      BY <1>0, <2>1, <2>2, <3>1 DEF Read!TypeOK
  <2> QED
    BY <1>0, <2>1, <2>2, <2>3 DEF ReadInv, ServedInv, HeldInv, PauseInv, RefusalInv, VerifiedInv, At
<1>3. ASSUME NEW s \in Student, Read!Selects(s)
      PROVE  ReadInv'
  <2>1. /\ UNCHANGED <<saved, refused, telling, holder, step, back, key, jar, learned, pause, fresh,
                       retried, served, answer>>
        /\ portal.selected # s /\ portal'.selected = s
        /\ holder # None => past.moved = FALSE
        /\ past'.left = past.left /\ past'.limited = past.limited
        /\ past'.forgotten = past.forgotten /\ past'.verified = past.verified
        /\ past'.moved = (holder # None)
    BY <1>0, <1>3 DEF Read!Selects, Read!connection
  <2>2. Read!TypeOK'
    <3>1. /\ portal' \in [selected: Student, issued: Read!Jar, alive: BOOLEAN]
          /\ past' \in [limited: BOOLEAN, forgotten: BOOLEAN, moved: BOOLEAN,
                        verified: Read!Jar \cup {None}, left: [Host -> Read!Jar \cup {None}]]
      BY <1>0, <1>3 DEF Read!Selects
    <3> QED
      BY <1>0, <2>1, <3>1 DEF Read!TypeOK
  <2>3. ServedInv'
    BY <1>0, <2>1 DEF ServedInv, HeldInv, At
  <2> QED
    BY <1>0, <2>1, <2>2, <2>3 DEF ReadInv, HeldInv, PauseInv, RefusalInv, VerifiedInv
<1>4. CASE UNCHANGED Read!vars
  <2>1. UNCHANGED <<saved, refused, telling, holder, step, back, key, jar, learned, pause, fresh,
                    retried, served, answer, portal, past>>
    BY <1>4 DEF Read!vars, Read!connection
  <2> QED
    BY <1>0, <2>1 DEF ReadInv, Read!TypeOK, ServedInv, HeldInv, PauseInv, RefusalInv, VerifiedInv, At
<1> QED
  BY <1>1, <1>2, <1>3, <1>4 DEF Portal

\* Every reachable state of the reads satisfies their invariant.
THEOREM ReadsInductive == Read!Spec => []ReadInv
<1>1. ReadInv /\ [Read!Next]_(Read!vars) => ReadInv'
  BY ReadsAssumption, ReadSteps, OpenStep, LeaveStep, RequestStep, HostStep, PortalStep
<1>2. Read!Init => ReadInv
  BY ReadsAssumption, ReadInit
<1> QED
  BY <1>1, <1>2, PTL DEF Read!Spec

\* However many students a login has, a read that answers has read school data of
\* the student it was asked for and of nobody else (with_student, still_selected).
THEOREM RightStudentRead == Read!Spec => []ReadsTheStudent
<1>1. ReadInv => ReadsTheStudent
  BY DEF ReadInv, ServedInv, ReadsTheStudent, Read!ReadsTheStudent
<1> QED
  BY <1>1, ReadsInductive, PTL

\* For any hosts and cookies: nothing is sent in a pause that was not lost, no
\* keep-alive with cookies its refusal left, no school data is read with cookies
\* that were not verified (Connection::request_once, keep_alive).
THEOREM RequestsHaveCause == Read!Spec => []SentWithCause
<1>1. ReadInv => SentWithCause
  <2> SUFFICES ASSUME ReadInv PROVE Read!SentWithCause
    BY DEF SentWithCause
  <2>1. /\ HeldInv /\ PauseInv /\ RefusalInv /\ VerifiedInv
        /\ pause \in BOOLEAN /\ fresh \in BOOLEAN
        /\ past \in [limited: BOOLEAN, forgotten: BOOLEAN, moved: BOOLEAN,
                     verified: Read!Jar \cup {None}, left: [Host -> Read!Jar \cup {None}]]
    BY DEF ReadInv, Read!TypeOK
  <2>2. Read!Sends => step # "idle" /\ pause = FALSE
    BY <2>1 DEF Read!Sends, Read!Asks, Read!Looks
  <2> QED
    BY <2>1, <2>2 DEF HeldInv, PauseInv, RefusalInv, VerifiedInv, Read!SentWithCause
<1> QED
  BY <1>1, ReadsInductive, PTL

\* Both, for any hosts, students and cookies.
THEOREM DueReads == Read!Spec => []ReadsAreDue
<1>1. ReadsTheStudent /\ SentWithCause => ReadsAreDue
  BY DEF ReadsAreDue
<1> QED
  BY <1>1, RightStudentRead, RequestsHaveCause, PTL

-----------------------------------------------------------------------------
(* Signing in from a chat (module InnaSignIn), for any hosts, any lease,    *)
(* cooldown and limits as its assumption relates them, and a clock that is  *)
(* set back as far as it was on.  The lease keeps others out while a prompt *)
(* can be answered, and after it the cooldown that its lapse leaves.        *)

\* None is not a record of the fields of a guard.
Fields == {"phone", "starts", "pending", "cooldown"}
NoneIsNoGuard == DOMAIN None # Fields

\* A sign-in that is or will be at its prompt, begun since the last logout.
Live(k) == k \notin old /\ at[k] \in {"reserved", "prompt"}

\* The last tick of that prompt.
Last(k) == since[k] + Timeout + (IF at[k] = "reserved" THEN Delay ELSE 0)

IsGuard(g) == DOMAIN g = Fields /\ g.pending \in Nat /\ g.cooldown \in Nat

\* Values, and times that went by.
ClockInv ==
    /\ real \in Nat /\ earlier \in Nat /\ earlier <= MaxBack /\ MaxBack <= real
    /\ at \in [Host -> Sign!AtWork \cup {"idle"}]
    /\ lease \in [Host -> Nat] /\ since \in [Host -> Nat] /\ old \subseteq Host
    /\ \A h \in Host : at[h] \in Sign!AtWork => lease[h] > 0
    /\ guard # None => IsGuard(guard)

\* The saved guard g stops all others until after the last tick of a prompt k.
Guards(g, k) ==
    IF g.pending # 0
    THEN g.pending + Cooldown + earlier > Last(k)
    ELSE g.cooldown + earlier > Last(k) /\ real + Cooldown > Last(k)

\* One sign-in is live; its guard outlasts it, and nobody else can give it back.
LiveInv ==
    \A k \in Host : Live(k) =>
        /\ guard # None /\ Guards(guard, k)
        /\ since[k] <= real
        /\ real <= since[k] + (IF at[k] = "reserved" THEN Delay ELSE Timeout)
        /\ \A h \in Host : at[h] \in Sign!AtWork /\ h # k => lease[h] # guard.pending
        /\ \A h \in Host : Live(h) => h = k

SignInv == ClockInv /\ LiveInv

\* What the operators on guards do to a guard's lease and cooldown.
LEMMA Guarding ==
    ASSUME Sign!SignInAssumption, ClockInv, NEW g, IsGuard(g)
    PROVE  /\ IsGuard(Sign!Settled(g)) /\ IsGuard(Sign!Recent(Sign!Settled(g)))
           /\ LET p == IF g.pending < Sign!now + Lease THEN g.pending ELSE Sign!now + Lease
                  c == IF g.cooldown < Sign!now + Cooldown THEN g.cooldown ELSE Sign!now + Cooldown
                  s == Sign!Settled(g)
              IN  IF p > Sign!now \/ p = 0
                  THEN s.pending = p /\ s.cooldown = c
                  ELSE s.pending = 0 /\ s.cooldown = IF c > p + Cooldown THEN c ELSE p + Cooldown
           /\ Sign!Recent(Sign!Settled(g)).pending = Sign!Settled(g).pending
           /\ Sign!Recent(Sign!Settled(g)).cooldown = Sign!Settled(g).cooldown
<1>0. Sign!now \in Nat /\ Lease \in Nat /\ Cooldown \in Nat
  BY DEF Sign!now, ClockInv, Sign!SignInAssumption
<1>1. /\ DOMAIN Sign!Clamped(g) = Fields
      /\ Sign!Clamped(g).pending = Sign!Least(g.pending, Sign!now + Lease)
      /\ Sign!Clamped(g).cooldown = Sign!Least(g.cooldown, Sign!now + Cooldown)
  BY DEF Sign!Clamped, IsGuard, Fields
<1>2. IsGuard(Sign!Clamped(g))
  BY <1>0, <1>1 DEF IsGuard, Sign!Least
<1>3. ASSUME NEW f, IsGuard(f)
      PROVE  /\ IsGuard(Sign!Lapsed(f)) /\ IsGuard(Sign!Recent(f))
             /\ Sign!Recent(f).pending = f.pending /\ Sign!Recent(f).cooldown = f.cooldown
             /\ IF f.pending > Sign!now \/ f.pending = 0 THEN Sign!Lapsed(f) = f
                ELSE /\ Sign!Lapsed(f).pending = 0
                     /\ Sign!Lapsed(f).cooldown = Sign!Most(f.cooldown, f.pending + Cooldown)
  <2>1. /\ DOMAIN Sign!Recent(f) = Fields
        /\ Sign!Recent(f).pending = f.pending /\ Sign!Recent(f).cooldown = f.cooldown
    BY <1>3 DEF Sign!Recent, IsGuard, Fields
  <2>2. IF f.pending > Sign!now \/ f.pending = 0 THEN Sign!Lapsed(f) = f
        ELSE /\ DOMAIN Sign!Lapsed(f) = Fields
             /\ Sign!Lapsed(f).pending = 0
             /\ Sign!Lapsed(f).cooldown = Sign!Most(f.cooldown, f.pending + Cooldown)
    BY <1>3 DEF Sign!Lapsed, IsGuard, Fields
  <2> QED
    BY <1>0, <1>3, <2>1, <2>2 DEF IsGuard, Sign!Most
<1>4. /\ IsGuard(Sign!Settled(g)) /\ IsGuard(Sign!Recent(Sign!Settled(g)))
      /\ Sign!Recent(Sign!Settled(g)).pending = Sign!Settled(g).pending
      /\ Sign!Recent(Sign!Settled(g)).cooldown = Sign!Settled(g).cooldown
  BY <1>2, <1>3 DEF Sign!Settled
<1> QED
  BY <1>0, <1>1, <1>2, <1>3, <1>4 DEF Sign!Settled, Sign!Least, Sign!Most, IsGuard

\* A guard that stops others still does when it is settled, which lapses at most.
LEMMA Settling ==
    ASSUME Sign!SignInAssumption, SignInv, NEW k \in Host, Live(k)
    PROVE  /\ Guards(Sign!Settled(guard), k)
           /\ ~Sign!MayStart(Sign!Settled(guard))
           /\ Sign!Settled(guard).pending \in {0, guard.pending, Sign!now + Lease}
<1>0. /\ IsGuard(guard) /\ Guards(guard, k)
      /\ since[k] \in Nat /\ since[k] <= real
      /\ real <= since[k] + (IF at[k] = "reserved" THEN Delay ELSE Timeout)
      /\ real \in Nat /\ earlier \in Nat /\ Sign!now = real - earlier /\ Sign!now \in Nat
      /\ Lease \in Nat \ {0} /\ Cooldown \in Nat /\ Timeout \in Nat /\ Delay \in Nat
      /\ Delay + Timeout < Lease + Cooldown
  BY DEF SignInv, ClockInv, LiveInv, Sign!now, Sign!SignInAssumption
<1>1. /\ guard.pending \in Nat /\ guard.cooldown \in Nat
      /\ Last(k) \in Nat /\ real <= Last(k) /\ Last(k) < real + Lease + Cooldown
  BY <1>0 DEF Last, IsGuard
<1> DEFINE s == Sign!Settled(guard)
           p == IF guard.pending < Sign!now + Lease THEN guard.pending ELSE Sign!now + Lease
           c == IF guard.cooldown < Sign!now + Cooldown THEN guard.cooldown ELSE Sign!now + Cooldown
<1>2. /\ s.pending \in Nat /\ s.cooldown \in Nat
      /\ IF p > Sign!now \/ p = 0
         THEN s.pending = p /\ s.cooldown = c
         ELSE s.pending = 0 /\ s.cooldown = IF c > p + Cooldown THEN c ELSE p + Cooldown
  BY <1>0, Guarding DEF SignInv, IsGuard
<1> HIDE DEF s
<1>3. s.pending \in {0, guard.pending, Sign!now + Lease}
  BY <1>2
<1>4. Guards(s, k)
  BY <1>0, <1>1, <1>2 DEF Guards
<1>5. ~Sign!MayStart(s)
  <2>1. s.pending <= Sign!now => s.pending = 0
    BY <1>0, <1>1, <1>2
  <2>2. s.pending = 0 => s.cooldown + earlier > real
    BY <1>0, <1>1, <1>2, <1>4 DEF Guards
  <2>3. s.pending <= Sign!now => ~(s.cooldown <= Sign!now)
    BY <1>0, <1>2, <2>1, <2>2
  <2> QED
    BY <2>3 DEF Sign!MayStart
<1> QED
  BY <1>3, <1>4, <1>5 DEF s

\* What a host writes when it may not start.
LEMMA Refusing ==
    ASSUME Sign!SignInAssumption, ClockInv, guard # None
    PROVE  /\ IsGuard(Sign!Refused(guard))
           /\ Sign!Refused(guard).pending = Sign!Settled(guard).pending
           /\ Sign!Refused(guard).cooldown = Sign!Settled(guard).cooldown
  BY Guarding DEF ClockInv, Sign!Refused

\* What it writes when it may.
LEMMA Reserving ==
    ASSUME Sign!SignInAssumption, ClockInv, guard # None
    PROVE  /\ IsGuard(Sign!Reserved(guard))
           /\ Sign!Reserved(guard).pending = Sign!now + Lease
<1>0. IsGuard(Sign!Recent(Sign!Settled(guard))) /\ Sign!now + Lease \in Nat
  BY Guarding DEF ClockInv, Sign!now, Sign!SignInAssumption
<1> QED
  BY <1>0 DEF Sign!Reserved, IsGuard, Fields

\* The steps of a sign-in after it started.
Proceeds(h) == \/ Sign!Prompt(h) \/ Sign!PromptEnds(h) \/ Sign!SaveSession(h)
               \/ Sign!SkipSession(h) \/ Sign!GiveBack(h) \/ Sign!Crash(h)

LEMMA SignClock ==
    ASSUME Sign!SignInAssumption, ClockInv, [Sign!Next]_(Sign!vars)
    PROVE  ClockInv'
<1> USE DEF Sign!AtWork, Sign!Goto
<1>0. /\ real \in Nat /\ earlier \in Nat /\ earlier <= MaxBack /\ MaxBack <= real
      /\ at \in [Host -> Sign!AtWork \cup {"idle"}]
      /\ lease \in [Host -> Nat] /\ since \in [Host -> Nat] /\ old \subseteq Host
      /\ \A h \in Host : at[h] \in Sign!AtWork => lease[h] > 0
      /\ guard # None => IsGuard(guard)
      /\ Lease \in Nat \ {0} /\ Cooldown \in Nat /\ MaxBack \in Nat
      /\ Sign!now \in Nat /\ Sign!now + Lease \in Nat \ {0} /\ Sign!now + Cooldown \in Nat
      /\ IsGuard(Sign!Fresh)
  <2>1. IsGuard(Sign!Fresh)
    BY DEF Sign!Fresh, IsGuard, Fields
  <2>2. /\ real \in Nat /\ earlier \in Nat /\ earlier <= MaxBack /\ MaxBack <= real
        /\ Lease \in Nat \ {0} /\ Cooldown \in Nat /\ MaxBack \in Nat
    BY DEF ClockInv, Sign!SignInAssumption
  <2>3. /\ Sign!now \in Nat /\ Sign!now + Lease \in Nat \ {0} /\ Sign!now + Cooldown \in Nat
    BY <2>2 DEF Sign!now
  <2> QED
    BY <2>1, <2>2, <2>3 DEF ClockInv
<1>1. ASSUME NEW h \in Host, Sign!Start(h) \/ Sign!Refuse(h) \/ Sign!StartFails(h)
      PROVE  ClockInv'
  <2>1. guard # None /\ IsGuard(guard')
    BY <1>1, Refusing, Reserving DEF Sign!Start, Sign!Refuse, Sign!StartFails, Sign!HasPhone
  <2>2. /\ UNCHANGED <<real, earlier>>
        /\ at' \in [Host -> Sign!AtWork \cup {"idle"}]
        /\ lease' \in [Host -> Nat] /\ since' \in [Host -> Nat] /\ old' \subseteq Host
        /\ \A k \in Host : at'[k] \in Sign!AtWork => lease'[k] > 0
    <3>1. CASE Sign!Start(h)
      <4>1. /\ UNCHANGED <<real, earlier>> /\ old' \subseteq old
            /\ at' = [at EXCEPT ![h] = "reserved"] /\ since' = [since EXCEPT ![h] = real]
            /\ lease' = [lease EXCEPT ![h] = Sign!now + Lease]
        BY <3>1 DEF Sign!Start, Sign!clock
      <4> QED
        BY <1>0, <4>1
    <3>2. CASE Sign!Refuse(h) \/ Sign!StartFails(h)
      BY <1>0, <3>2 DEF Sign!Refuse, Sign!StartFails, Sign!clock, Sign!host, Sign!history
    <3> QED
      BY <1>1, <3>1, <3>2
  <2> QED
    BY <1>0, <2>1, <2>2 DEF ClockInv
<1>2. ASSUME NEW h \in Host, Proceeds(h)
      PROVE  ClockInv'
  <2>1. guard' # None => IsGuard(guard')
    <3>1. CASE Sign!GiveBack(h)
      BY <1>0, <3>1 DEF Sign!GiveBack, Sign!Released, IsGuard, Fields
    <3> QED
      BY <1>0, <1>2, <3>1 DEF Proceeds, Sign!Prompt, Sign!PromptEnds, Sign!SaveSession,
         Sign!SkipSession, Sign!Crash
  <2>2. /\ UNCHANGED <<real, earlier>>
        /\ at' \in [Host -> Sign!AtWork \cup {"idle"}]
        /\ lease' \in [Host -> Nat] /\ since' \in [Host -> Nat] /\ old' \subseteq Host
        /\ \A k \in Host : at'[k] \in Sign!AtWork => lease'[k] > 0
    BY <1>0, <1>2 DEF Proceeds, Sign!Prompt, Sign!PromptEnds, Sign!SaveSession, Sign!SkipSession,
       Sign!GiveBack, Sign!Crash, Sign!clock, Sign!history
  <2> QED
    BY <1>0, <2>1, <2>2 DEF ClockInv
<1>3. CASE Sign!Login \/ Sign!ChangeAccount \/ Sign!Logout
  <2>1. guard' # None => IsGuard(guard')
    <3>1. ASSUME NEW g, IsGuard(g), NEW v
          PROVE  IsGuard([g EXCEPT !.phone = v])
      BY <3>1 DEF IsGuard, Fields
    <3>2. CASE Sign!Login
      BY <1>0, <3>1, <3>2 DEF Sign!Login
    <3>3. CASE Sign!ChangeAccount
      <4>1. guard # None /\ guard' = [guard EXCEPT !.phone = FALSE]
        BY <3>3 DEF Sign!ChangeAccount, Sign!HasPhone
      <4> QED
        BY <1>0, <3>1, <4>1
    <3>4. CASE Sign!Logout
      BY <3>4 DEF Sign!Logout
    <3> QED
      BY <1>3, <3>2, <3>3, <3>4
  <2>2. UNCHANGED <<real, earlier, at, lease, since>> /\ old' \subseteq Host
    BY <1>0, <1>3 DEF Sign!Login, Sign!ChangeAccount, Sign!Logout, Sign!host, Sign!clock, Sign!history
  <2> QED
    BY <1>0, <2>1, <2>2 DEF ClockInv
<1>4. CASE Sign!Tick \/ Sign!SetBack \/ UNCHANGED Sign!vars
  BY <1>0, <1>4 DEF Sign!Tick, Sign!SetBack, Sign!vars, Sign!host, Sign!clock, Sign!history, ClockInv,
     IsGuard
<1> QED
  BY <1>1, <1>2, <1>3, <1>4 DEF Sign!Next, Proceeds

\* Nobody starts beside a live sign-in, and nobody's chance lease gives it back.
LEMMA SignLive ==
    ASSUME Sign!SignInAssumption, NoneIsNoGuard, SignInv, [Sign!Next]_(Sign!vars)
    PROVE  LiveInv'
<1> USE DEF Sign!Goto
<1>0. /\ ClockInv /\ LiveInv /\ real \in Nat /\ earlier \in Nat
      /\ at \in [Host -> Sign!AtWork \cup {"idle"}]
      /\ lease \in [Host -> Nat] /\ since \in [Host -> Nat]
      /\ Sign!now \in Nat /\ Sign!now = real - earlier
      /\ Lease \in Nat \ {0} /\ Cooldown \in Nat /\ Timeout \in Nat /\ Delay \in Nat
      /\ Delay + Timeout < Lease + Cooldown
      /\ \A g : IsGuard(g) => g # None
  BY DEF SignInv, ClockInv, Sign!now, Sign!SignInAssumption, NoneIsNoGuard, IsGuard
<1>1. ASSUME guard # None, Sign!MayStart(Sign!Settled(guard)), NEW k \in Host
      PROVE  ~Live(k)
  BY <1>1, Settling
<1>2. ASSUME NEW h \in Host, Sign!Start(h)
      PROVE  LiveInv'
  <2>1. /\ guard # None /\ Sign!MayStart(Sign!Settled(guard))
        /\ guard' = Sign!Reserved(guard)
        /\ UNCHANGED <<real, earlier>>
        /\ at' = [at EXCEPT ![h] = "reserved"] /\ since' = [since EXCEPT ![h] = real]
        /\ lease' = [lease EXCEPT ![h] = Sign!now + Lease] /\ old' = old \ {h}
        /\ Sign!NewLease
    BY <1>2 DEF Sign!Start, Sign!HasPhone, Sign!clock
  <2>2. guard' # None /\ guard'.pending = Sign!now + Lease
    BY <1>0, <2>1, Reserving
  <2>3. \A k \in Host : Live(k)' => k = h
    BY <1>0, <1>1, <2>1 DEF Live
  <2>4. ASSUME NEW k \in Host, k # h, at[k] \in Sign!AtWork
        PROVE  lease[k] # Sign!now + Lease
    <3>1. guard.pending # Sign!now + Lease
      <4> SUFFICES ASSUME guard.pending = Sign!now + Lease PROVE FALSE
        OBVIOUS
      <4>1. Sign!Settled(guard).pending = Sign!now + Lease
        <5>1. IsGuard(guard)
          BY <1>0, <2>1 DEF ClockInv
        <5> QED
          BY <1>0, <5>1, Guarding
      <4> QED
        BY <1>0, <2>1, <4>1 DEF Sign!MayStart
    <3> QED
      BY <2>1, <2>4, <3>1 DEF Sign!NewLease
  <2>5. Guards(guard, h)' /\ since'[h] = real' /\ at'[h] = "reserved"
    BY <1>0, <2>1, <2>2 DEF Guards, Last
  <2>6. \A k \in Host : at'[k] \in Sign!AtWork /\ k # h => lease'[k] # guard'.pending
    BY <1>0, <2>1, <2>2, <2>4
  <2> QED
    BY <1>0, <2>1, <2>2, <2>3, <2>5, <2>6 DEF LiveInv
<1>3. ASSUME NEW h \in Host, Sign!StartFails(h)
      PROVE  LiveInv'
  <2>1. guard # None /\ Sign!MayStart(Sign!Settled(guard)) /\ UNCHANGED <<at, old>>
    BY <1>3 DEF Sign!StartFails, Sign!HasPhone, Sign!host, Sign!history
  <2> QED
    BY <1>1, <2>1 DEF LiveInv, Live
<1>4. ASSUME NEW h \in Host, Sign!Refuse(h)
      PROVE  LiveInv'
  <2>1. /\ guard # None /\ guard' = Sign!Refused(guard) /\ Sign!NewLease
        /\ UNCHANGED <<at, lease, since, old, real, earlier>>
    BY <1>4 DEF Sign!Refuse, Sign!HasPhone, Sign!host, Sign!clock, Sign!history
  <2>2. /\ guard' # None
        /\ guard'.pending = Sign!Settled(guard).pending
        /\ guard'.cooldown = Sign!Settled(guard).cooldown
    BY <1>0, <2>1, Refusing
  <2>3. ASSUME NEW k \in Host, Live(k)
        PROVE  /\ Guards(guard, k)'
               /\ \A g \in Host : at[g] \in Sign!AtWork /\ g # k => lease[g] # guard'.pending
    <3>1. /\ Guards(Sign!Settled(guard), k)
          /\ Sign!Settled(guard).pending \in {0, guard.pending, Sign!now + Lease}
      BY <2>3, Settling
    <3>2. \A g \in Host : at[g] \in Sign!AtWork /\ g # k =>
              lease[g] # guard.pending /\ lease[g] # 0
      BY <1>0, <2>3 DEF LiveInv, ClockInv
    <3>3. \A g \in Host : at[g] \in Sign!AtWork /\ lease[g] = Sign!now + Lease =>
              guard.pending = lease[g]
      BY <2>1 DEF Sign!NewLease
    <3> QED
      BY <2>1, <2>2, <3>1, <3>2, <3>3 DEF Guards, Last
  <2> QED
    BY <1>0, <2>1, <2>2, <2>3 DEF LiveInv, Live
<1>5. ASSUME NEW h \in Host, Proceeds(h)
      PROVE  LiveInv'
  <2>1. /\ UNCHANGED <<real, earlier>> /\ old' \subseteq old /\ old \ {h} \subseteq old'
        /\ \A k \in Host \ {h} : at'[k] = at[k] /\ since'[k] = since[k] /\ lease'[k] = lease[k]
        /\ at'[h] \in Sign!AtWork => lease'[h] = lease[h] /\ at[h] \in Sign!AtWork
        /\ at'[h] \in {"reserved", "prompt"} =>
               /\ at[h] = "reserved" /\ at'[h] = "prompt" /\ since'[h] = real /\ UNCHANGED old
    BY <1>0, <1>5 DEF Proceeds, Sign!Prompt, Sign!PromptEnds, Sign!SaveSession, Sign!SkipSession,
       Sign!GiveBack, Sign!Crash, Sign!clock, Sign!history, Sign!AtWork
  <2>2. ASSUME NEW k \in Host, Live(k)
        PROVE  guard' = guard /\ guard # None
    <3>1. /\ guard # None /\ at[k] # "saved"
          /\ \A g \in Host : at[g] \in Sign!AtWork /\ g # k => lease[g] # guard.pending
      BY <1>0, <2>2 DEF LiveInv, Live
    <3>2. CASE Sign!GiveBack(h)
      BY <3>1, <3>2 DEF Sign!GiveBack, Sign!AtWork
    <3> QED
      BY <1>5, <3>1, <3>2 DEF Proceeds, Sign!Prompt, Sign!PromptEnds, Sign!SaveSession,
         Sign!SkipSession, Sign!Crash
  <2>3. \A k \in Host : Live(k)' => Live(k)
    BY <2>1 DEF Live
  <2>4. ASSUME NEW k \in Host, Live(k)'
        PROVE  /\ Guards(guard, k)' /\ since'[k] <= real'
               /\ real' <= since'[k] + (IF at'[k] = "reserved" THEN Delay ELSE Timeout)
    <3>1. /\ Live(k) /\ guard' = guard /\ Guards(guard, k) /\ since[k] <= real
          /\ real <= since[k] + (IF at[k] = "reserved" THEN Delay ELSE Timeout)
          /\ since[k] \in Nat /\ guard.pending \in Nat /\ guard.cooldown \in Nat
      BY <1>0, <2>2, <2>3, <2>4 DEF LiveInv, ClockInv, IsGuard
    <3>2. CASE k # h
      BY <2>1, <3>1, <3>2 DEF Guards, Last
    <3>3. CASE k = h
      <4>1. at[k] = "reserved" /\ at'[k] = "prompt" /\ since'[k] = real
        BY <2>1, <2>4, <3>3 DEF Live
      <4>2. Last(k) = since[k] + Timeout + Delay /\ Last(k)' = real + Timeout
        BY <1>0, <2>1, <3>1, <3>3, <4>1 DEF Last
      <4>3. /\ real <= since[k] + Delay /\ real + Timeout <= Last(k)
            /\ real' = real /\ earlier' = earlier
        BY <1>0, <2>1, <3>1, <4>1, <4>2
      <4>4. IF guard.pending # 0
            THEN guard.pending + Cooldown + earlier > real + Timeout
            ELSE guard.cooldown + earlier > real + Timeout /\ real + Cooldown > real + Timeout
        BY <1>0, <3>1, <4>2, <4>3 DEF Guards
      <4>5. Guards(guard, k)'
        BY <3>1, <4>2, <4>3, <4>4 DEF Guards
      <4> QED
        BY <1>0, <3>3, <4>1, <4>3, <4>5
    <3> QED
      BY <3>2, <3>3
  <2> QED
    BY <1>0, <2>1, <2>2, <2>3, <2>4 DEF LiveInv
<1>6. CASE Sign!Login \/ Sign!ChangeAccount
  <2>1. /\ UNCHANGED <<at, lease, since, old, real, earlier>>
        /\ guard # None => /\ guard' = [guard EXCEPT !.phone = guard'.phone]
    BY <1>0, <1>6 DEF Sign!Login, Sign!ChangeAccount, Sign!HasPhone, Sign!host, Sign!clock,
       Sign!history, ClockInv, IsGuard, Fields
  <2>2. guard # None => /\ guard' # None /\ guard'.pending = guard.pending
                        /\ guard'.cooldown = guard.cooldown
    BY <1>0, <2>1 DEF ClockInv, IsGuard, Fields
  <2> QED
    BY <1>0, <2>1, <2>2 DEF LiveInv, Live, Guards, Last
<1>7. CASE Sign!Logout
  BY <1>7 DEF Sign!Logout, Sign!host, LiveInv, Live, Sign!AtWork
<1>8. CASE Sign!Tick \/ Sign!SetBack
  <2>1. /\ UNCHANGED <<guard, at, lease, since, old>>
        /\ \/ real' = real + 1 /\ earlier' = earlier
           \/ real' = real /\ earlier' = earlier + 1
        /\ \A k \in Host : Live(k) =>
               real' <= since[k] + (IF at[k] = "reserved" THEN Delay ELSE Timeout)
    BY <1>0, <1>8 DEF Sign!Tick, Sign!SetBack, Sign!host, Sign!history, LiveInv, Live
  <2>2. ASSUME NEW k \in Host, Live(k)
        PROVE  Guards(guard, k)' /\ since'[k] <= real'
    <3>1. /\ Guards(guard, k) /\ since[k] <= real /\ since[k] \in Nat
          /\ guard.pending \in Nat /\ guard.cooldown \in Nat
      BY <1>0, <2>2 DEF LiveInv, ClockInv, IsGuard
    <3> QED
      BY <1>0, <2>1, <3>1 DEF Guards, Last
  <2> QED
    BY <1>0, <2>1, <2>2 DEF LiveInv, Live
<1>9. CASE UNCHANGED Sign!vars
  BY <1>0, <1>9 DEF Sign!vars, Sign!host, Sign!clock, Sign!history, LiveInv, Live, Guards, Last
<1> QED
  BY <1>2, <1>3, <1>4, <1>5, <1>6, <1>7, <1>8, <1>9 DEF Sign!Next, Proceeds

\* Every reachable state of the sign-ins satisfies their invariant.
THEOREM SignInsInductive ==
    ASSUME NoneIsNoGuard
    PROVE  Sign!Spec => []SignInv
<1>1. SignInv /\ [Sign!Next]_(Sign!vars) => SignInv'
  BY SignAssumption, SignClock, SignLive DEF SignInv
<1>2. Sign!Init => SignInv
  <2> SUFFICES ASSUME Sign!Init PROVE SignInv
    OBVIOUS
  <2>1. IsGuard(guard)
    BY DEF Sign!Init, Sign!Fresh, IsGuard, Fields
  <2> QED
    BY <2>1, SignAssumption DEF Sign!Init, SignInv, ClockInv, LiveInv, Live, Sign!AtWork, Sign!SignInAssumption
<1> QED
  BY <1>1, <1>2, PTL DEF Sign!Spec

\* For any number of hosts, crashes, failures and turns of the clock, no second
\* prompt starts while the first can still be answered (Guard::reserve, Guard::end).
THEOREM OneAtATime ==
    ASSUME NoneIsNoGuard
    PROVE  Sign!Spec => []OnePrompt
<1>1. SignInv => OnePrompt
  BY DEF SignInv, LiveInv, Live, OnePrompt, Sign!OnePrompt
<1> QED
  BY <1>1, SignInsInductive, PTL

\* Every start that counts has a time of its own in the guard g, which is not
\* older, so that g does not forget it earlier.
Covers(g) ==
    /\ IsFiniteSet(DOMAIN g.starts) /\ Cardinality(DOMAIN g.starts) <= Limit
    /\ DOMAIN started \subseteq DOMAIN g.starts
    /\ \A n \in DOMAIN g.starts : g.starts[n] \in Nat
    /\ \A n \in DOMAIN started : started[n] <= g.starts[n] + earlier

StartsInv ==
    /\ \A n \in DOMAIN started :
           started[n] \in Nat /\ started[n] <= real /\ started[n] + Day > real
    /\ IF guard = None THEN DOMAIN started = {} ELSE Covers(guard)

\* The component's cardinality is that of the lemmas on finite sets.
LEMMA SameCount == \A S : Sign!Cardinality(S) = Cardinality(S)
  BY DEF Sign!Cardinality, Cardinality

\* A finite set with one more element has at most one more.
LEMMA OneMore ==
    ASSUME NEW S, IsFiniteSet(S), NEW x
    PROVE  IsFiniteSet(S \cup {x}) /\ Cardinality(S \cup {x}) <= Cardinality(S) + 1
<1>1. Cardinality(S) \in Nat
  BY FS_CardinalityType
<1>2. /\ IsFiniteSet(S \cup {x})
      /\ Cardinality(S \cup {x}) = IF x \in S THEN Cardinality(S) ELSE Cardinality(S) + 1
  BY FS_AddElement, Zenon
<1> QED
  BY <1>1, <1>2

\* Without starts a guard has room.
LEMMA NoStart ==
    ASSUME Sign!SignInAssumption, NEW g, g.starts = <<>>, DOMAIN started = {}
    PROVE  Covers(g)
<1>1. DOMAIN g.starts = {} /\ Limit \in Nat
  BY DEF Sign!SignInAssumption
<1> QED
  BY <1>1, FS_EmptySet DEF Covers

\* Neither the clamps nor the lapse nor the retention loses a start that counts.
LEMMA Covering ==
    ASSUME Sign!SignInAssumption, ClockInv, StartsInv, guard # None
    PROVE  Covers(Sign!Settled(guard)) /\ Covers(Sign!Recent(Sign!Settled(guard)))
<1> DEFINE s == Sign!Settled(guard)
           r == Sign!Recent(s)
<1>0. /\ DOMAIN guard = Fields /\ Covers(guard) /\ IsGuard(s)
      /\ real \in Nat /\ earlier \in Nat /\ Sign!now \in Nat /\ real = Sign!now + earlier
      /\ Day \in Nat
      /\ \A n \in DOMAIN started :
             started[n] \in Nat /\ started[n] <= real /\ started[n] + Day > real
  BY Guarding DEF ClockInv, StartsInv, IsGuard, Sign!now, Sign!SignInAssumption
<1>1. s.starts = [n \in DOMAIN guard.starts |-> Sign!Least(guard.starts[n], Sign!now)]
  <2>1. /\ DOMAIN Sign!Clamped(guard) = Fields
        /\ Sign!Clamped(guard).starts
              = [n \in DOMAIN guard.starts |-> Sign!Least(guard.starts[n], Sign!now)]
    BY <1>0 DEF Sign!Clamped, Fields
  <2>2. Sign!Lapsed(Sign!Clamped(guard)).starts = Sign!Clamped(guard).starts
    BY <2>1 DEF Sign!Lapsed, Fields
  <2> QED
    BY <2>1, <2>2 DEF Sign!Settled
<1>2. r.starts = [n \in {m \in DOMAIN s.starts : s.starts[m] + Day > Sign!now} |-> s.starts[n]]
  BY <1>0 DEF Sign!Recent, IsGuard, Fields
<1> HIDE DEF s, r
<1>3. Covers(s)
  BY <1>0, <1>1 DEF Covers, Sign!Least
<1>4. Covers(r)
  <2>1. DOMAIN r.starts \subseteq DOMAIN s.starts
    BY <1>2
  <2>2. IsFiniteSet(DOMAIN r.starts) /\ Cardinality(DOMAIN r.starts) <= Cardinality(DOMAIN s.starts)
    BY <1>3, <2>1, FS_Subset DEF Covers
  <2>3. Cardinality(DOMAIN r.starts) \in Nat /\ Cardinality(DOMAIN s.starts) \in Nat
    BY <1>3, <2>2, FS_CardinalityType DEF Covers
  <2>4. \A n \in DOMAIN started : n \in DOMAIN r.starts
    BY <1>0, <1>2, <1>3 DEF Covers
  <2> QED
    BY <1>2, <1>3, <2>1, <2>2, <2>3, <2>4 DEF Covers, Sign!SignInAssumption
<1> QED
  BY <1>3, <1>4 DEF s, r

\* A start adds one time, where the limit left room.
LEMMA Counting ==
    ASSUME Sign!SignInAssumption, ClockInv, StartsInv, guard # None,
           Sign!MayStart(Sign!Settled(guard))
    PROVE  LET g == Sign!Reserved(guard)
           IN  /\ IsFiniteSet(DOMAIN g.starts) /\ Cardinality(DOMAIN g.starts) <= Limit
               /\ \A n \in DOMAIN g.starts : g.starts[n] \in Nat
               /\ DOMAIN started \cup {Sign!Number} \subseteq DOMAIN g.starts
               /\ \A n \in DOMAIN started : started[n] <= g.starts[n] + earlier
               /\ g.starts[Sign!Number] + earlier = real
<1> DEFINE r == Sign!Recent(Sign!Settled(guard))
           g == Sign!Reserved(guard)
<1>0. /\ IsGuard(r) /\ Covers(r) /\ Cardinality(DOMAIN r.starts) < Limit
      /\ real \in Nat /\ earlier \in Nat /\ Sign!now \in Nat /\ real = Sign!now + earlier
      /\ \A n \in DOMAIN started : started[n] \in Nat /\ started[n] <= real
  <2>1. IsGuard(r)
    BY Guarding DEF ClockInv
  <2>2. Covers(r)
    BY Covering
  <2>3. Cardinality(DOMAIN r.starts) < Limit
    BY SameCount DEF Sign!MayStart
  <2> QED
    BY <2>1, <2>2, <2>3 DEF ClockInv, StartsInv, Sign!now, Sign!SignInAssumption
<1>1. g.starts = [n \in DOMAIN r.starts \cup {Sign!Number} |->
                     IF n = Sign!Number THEN Sign!now ELSE r.starts[n]]
  BY <1>0 DEF Sign!Reserved, Sign!With, IsGuard, Fields
<1>2. /\ IsFiniteSet(DOMAIN g.starts)
      /\ Cardinality(DOMAIN g.starts) <= Cardinality(DOMAIN r.starts) + 1
  <2>1. DOMAIN g.starts = DOMAIN r.starts \cup {Sign!Number} /\ IsFiniteSet(DOMAIN r.starts)
    BY <1>0, <1>1 DEF Covers
  <2> HIDE DEF r, g
  <2> QED
    BY <2>1, OneMore
<1>3. Cardinality(DOMAIN g.starts) \in Nat /\ Cardinality(DOMAIN r.starts) \in Nat /\ Limit \in Nat
  BY <1>0, <1>2, FS_CardinalityType DEF Covers, Sign!SignInAssumption
<1> HIDE DEF r, g
<1> QED
  BY <1>0, <1>1, <1>2, <1>3 DEF Covers, g

\* Starts are counted by each step.
LEMMA SignStarts ==
    ASSUME Sign!SignInAssumption, NoneIsNoGuard, ClockInv, StartsInv, [Sign!Next]_(Sign!vars)
    PROVE  StartsInv'
<1>0. /\ real \in Nat /\ earlier \in Nat /\ Day \in Nat \ {0} /\ Limit \in Nat
      /\ guard # None => IsGuard(guard)
      /\ \A g : IsGuard(g) => g # None
      /\ \A n \in DOMAIN started :
             started[n] \in Nat /\ started[n] <= real /\ started[n] + Day > real
  BY DEF ClockInv, StartsInv, Sign!SignInAssumption, NoneIsNoGuard, IsGuard
<1>1. ASSUME UNCHANGED <<real, earlier, started>>, guard # None, guard' # None,
             guard'.starts = guard.starts
      PROVE  StartsInv'
  BY <1>0, <1>1 DEF StartsInv, Covers
<1>2. ASSUME NEW h \in Host, Sign!Start(h)
      PROVE  StartsInv'
  <2>1. /\ guard # None /\ Sign!MayStart(Sign!Settled(guard)) /\ guard' = Sign!Reserved(guard)
        /\ UNCHANGED <<real, earlier>> /\ started' = Sign!With(started, real)
    BY <1>2 DEF Sign!Start, Sign!HasPhone, Sign!clock
  <2>2. guard' # None
    BY <1>0, <2>1, Reserving
  <2>3. /\ DOMAIN started' = DOMAIN started \cup {Sign!Number}
        /\ \A n \in DOMAIN started' :
               started'[n] = IF n = Sign!Number THEN real ELSE started[n]
    BY <2>1 DEF Sign!With
  <2>4. Covers(guard)'
    BY <1>0, <2>1, <2>3, Counting DEF Covers
  <2> QED
    BY <1>0, <2>1, <2>2, <2>3, <2>4 DEF StartsInv
<1>3. ASSUME NEW h \in Host, Sign!Refuse(h)
      PROVE  StartsInv'
  <2>1. /\ guard # None /\ UNCHANGED <<real, earlier, started>>
        /\ guard' \in {Sign!Settled(guard), Sign!Recent(Sign!Settled(guard))}
    BY <1>3 DEF Sign!Refuse, Sign!Refused, Sign!HasPhone, Sign!clock, Sign!history
  <2>2. guard' # None /\ Covers(guard')
    BY <1>0, <2>1, Guarding, Covering
  <2> QED
    BY <1>0, <2>1, <2>2 DEF StartsInv, Covers
<1>4. ASSUME NEW h \in Host, Sign!StartFails(h)
      PROVE  StartsInv'
  <2>1. /\ guard # None /\ Sign!MayStart(Sign!Settled(guard)) /\ guard' = Sign!Reserved(guard)
        /\ UNCHANGED <<real, earlier, started>>
    BY <1>4 DEF Sign!StartFails, Sign!HasPhone, Sign!clock, Sign!history
  <2>2. guard' # None
    BY <1>0, <2>1, Reserving
  <2> QED
    BY <1>0, <2>1, <2>2, Counting DEF StartsInv, Covers
<1>5. ASSUME NEW h \in Host, Proceeds(h)
      PROVE  StartsInv'
  <2>1. UNCHANGED <<real, earlier, started>>
    BY <1>5 DEF Proceeds, Sign!Prompt, Sign!PromptEnds, Sign!SaveSession, Sign!SkipSession,
       Sign!GiveBack, Sign!Crash, Sign!clock, Sign!history
  <2>2. CASE guard = None
    <3>1. guard' \in {None, Sign!Fresh}
      BY <1>5, <2>2 DEF Proceeds, Sign!Prompt, Sign!PromptEnds, Sign!SaveSession,
         Sign!SkipSession, Sign!GiveBack, Sign!Crash
    <3>2. Covers(Sign!Fresh)
      BY <2>2, NoStart DEF StartsInv, Sign!Fresh
    <3> HIDE DEF Sign!Fresh
    <3> QED
      BY <2>1, <2>2, <3>1, <3>2, <1>0 DEF StartsInv, Covers
  <2>3. CASE guard # None
    <3>1. CASE Sign!GiveBack(h)
      <4>1. Sign!now \in Nat /\ Cooldown \in Nat
        BY DEF ClockInv, Sign!now, Sign!SignInAssumption
      <4>2. IsGuard(guard) /\ guard' \in {guard, Sign!Released(h)}
        BY <1>0, <2>3, <3>1 DEF Sign!GiveBack
      <4>3. IsGuard(Sign!Released(h)) /\ Sign!Released(h).starts = guard.starts
        BY <4>1, <4>2 DEF Sign!Released, IsGuard, Fields
      <4>4. guard'.starts = guard.starts /\ IsGuard(guard')
        BY <4>2, <4>3
      <4> QED
        BY <1>0, <1>1, <2>1, <2>3, <4>4
    <3>2. CASE ~Sign!GiveBack(h)
      <4>1. guard' = guard
        BY <1>5, <2>3, <3>2 DEF Proceeds, Sign!Prompt, Sign!PromptEnds, Sign!SaveSession,
           Sign!SkipSession, Sign!Crash
      <4> QED
        BY <1>1, <2>1, <2>3, <4>1
    <3> QED
      BY <3>1, <3>2
  <2> QED
    BY <2>2, <2>3
<1>6. CASE Sign!Login \/ Sign!ChangeAccount \/ Sign!Logout
  <2>1. UNCHANGED <<real, earlier>>
    BY <1>6 DEF Sign!Login, Sign!ChangeAccount, Sign!Logout, Sign!clock
  <2>2. CASE Sign!Login /\ guard = None
    <3>1. /\ guard' = [Sign!Fresh EXCEPT !.phone = TRUE] /\ started' = started
      BY <2>2 DEF Sign!Login, Sign!history
    <3>2. guard'.starts = <<>> /\ IsGuard(guard')
      BY <3>1 DEF Sign!Fresh, IsGuard, Fields
    <3>3. Covers(guard')
      BY <2>2, <3>2, NoStart DEF StartsInv
    <3> QED
      BY <1>0, <2>1, <3>1, <3>2, <3>3 DEF StartsInv, Covers
  <2>3. CASE (Sign!Login /\ guard # None) \/ Sign!ChangeAccount
    <3>1. /\ guard # None /\ started' = started
          /\ guard' \in {[guard EXCEPT !.phone = TRUE], [guard EXCEPT !.phone = FALSE]}
      BY <2>3 DEF Sign!Login, Sign!ChangeAccount, Sign!HasPhone, Sign!history
    <3>2. guard'.starts = guard.starts /\ IsGuard(guard')
      BY <1>0, <3>1 DEF IsGuard, Fields
    <3> QED
      BY <1>0, <1>1, <2>1, <3>1, <3>2
  <2>4. CASE Sign!Logout
    <3>1. guard' = None /\ started' = <<>>
      BY <2>4 DEF Sign!Logout
    <3> QED
      BY <1>0, <2>1, <3>1 DEF StartsInv
  <2> QED
    BY <1>6, <2>2, <2>3, <2>4
<1>7. CASE Sign!Tick
  <2>1. /\ UNCHANGED <<guard, earlier>> /\ real' = real + 1
        /\ started' = [n \in {m \in DOMAIN started : started[m] + Day > real + 1} |-> started[n]]
    BY <1>7 DEF Sign!Tick
  <2> QED
    BY <1>0, <2>1 DEF StartsInv, Covers
<1>8. CASE Sign!SetBack
  <2>1. UNCHANGED <<guard, real, started>> /\ earlier' = earlier + 1
    BY <1>8 DEF Sign!SetBack, Sign!history
  <2>2. ASSUME guard # None
        PROVE  Covers(guard)'
    <3>1. \A n \in DOMAIN started : n \in DOMAIN guard.starts /\ guard.starts[n] \in Nat
      BY <2>2 DEF StartsInv, Covers
    <3> QED
      BY <1>0, <2>1, <2>2, <3>1 DEF StartsInv, Covers
  <2> QED
    BY <1>0, <2>1, <2>2 DEF StartsInv
<1>9. CASE UNCHANGED Sign!vars
  BY <1>0, <1>9 DEF Sign!vars, Sign!clock, Sign!history, StartsInv, Covers
<1> QED
  BY <1>2, <1>3, <1>4, <1>5, <1>6, <1>7, <1>8, <1>9 DEF Sign!Next, Proceeds

\* For any limit, number of hosts, failures and turns of the clock, no more sign-ins
\* than the limit start in a day without a logout (Guard::reserve).
THEOREM StartsAreCapped ==
    ASSUME NoneIsNoGuard
    PROVE  Sign!Spec => []CapKept
<1>1. ClockInv /\ StartsInv /\ [Sign!Next]_(Sign!vars) => StartsInv'
  BY SignAssumption, SignStarts
<1>2. Sign!Init => StartsInv
  <2> SUFFICES ASSUME Sign!Init PROVE StartsInv
    OBVIOUS
  <2>1. started = <<>> /\ guard.starts = <<>>
    BY DEF Sign!Init, Sign!Fresh
  <2> QED
    BY <2>1, SignAssumption, NoStart DEF StartsInv
<1>3. SignInv => ClockInv
  BY DEF SignInv
<1>4. StartsInv => CapKept
  <2> SUFFICES ASSUME StartsInv PROVE Cardinality(DOMAIN started) <= Limit
    BY SameCount DEF CapKept, Sign!CapKept
  <2>0. Limit \in Nat
    BY SignAssumption DEF Sign!SignInAssumption
  <2>1. CASE guard = None
    BY <2>0, <2>1, FS_EmptySet DEF StartsInv
  <2>2. CASE guard # None
    <3>1. /\ IsFiniteSet(DOMAIN guard.starts) /\ Cardinality(DOMAIN guard.starts) <= Limit
          /\ DOMAIN started \in SUBSET DOMAIN guard.starts
      BY <2>2 DEF StartsInv, Covers
    <3>2. /\ IsFiniteSet(DOMAIN started)
          /\ Cardinality(DOMAIN started) <= Cardinality(DOMAIN guard.starts)
      BY <3>1, FS_Subset
    <3>3. Cardinality(DOMAIN started) \in Nat /\ Cardinality(DOMAIN guard.starts) \in Nat
      BY <3>1, <3>2, FS_CardinalityType
    <3> QED
      BY <2>0, <3>1, <3>2, <3>3
  <2> QED
    BY <2>1, <2>2
<1> QED
  BY <1>1, <1>2, <1>3, <1>4, SignInsInductive, PTL DEF Sign!Spec

\* Both, for any hosts, limit, failures and turns of the clock.
THEOREM RarePrompts ==
    ASSUME NoneIsNoGuard
    PROVE  Sign!Spec => []PromptsAreRare
<1>1. OnePrompt /\ CapKept => PromptsAreRare
  BY DEF PromptsAreRare
<1> QED
  BY <1>1, OneAtATime, StartsAreCapped, PTL
=============================================================================
