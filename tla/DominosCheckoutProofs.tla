------------------------ MODULE DominosCheckoutProofs ------------------------
(***************************************************************************)
(* Proofs about DominosCheckout for any calls, quotes and accounts.        *)
(* All that is written and sent happens inside the session's lock, so that *)
(* one call at a time is there (Alone) carries what each call knows.       *)
(***************************************************************************)
EXTENDS DominosCheckout, TLAPS, FiniteSetTheorems

-----------------------------------------------------------------------------
(* The inductive invariant, in named parts                                 *)

Past == {"leave", "done", "crashed"}

\* Who works with the session holds its lock, and there is a session, that of
\* the account once it was compared.
HoldInv ==
    \A c \in Call :
        /\ pc[c] \in InSession => storeLock = c /\ session # None
        /\ pc[c] = "bind" => session.token.user = owner[arg[c]]

\* Which calls reach which step, with which argument.
RoleInv ==
    \A c \in Call :
        /\ pc[c] \in {"bind", "order", "ordered", "setup"} => c \in CreateCall
        /\ pc[c] = "pay" => c \in PayCall
        /\ pc[c] = "settle" => c \in CreateCall \cup PayCall
        /\ pc[c] # "idle" => arg[c] \in IF c \in CreateCall THEN Quote ELSE Checkout
        /\ pc[c] # "idle" /\ c \notin CreateCall => saved[arg[c]] # None
        /\ c \in ordered => c \in CreateCall /\ pc[c] # "idle"
        /\ c \in paying => c \in PayCall /\ pc[c] # "idle"

\* The call's copy of its checkout.
HasCopy(c) ==
    /\ pc[c] \in {"bind", "order", "ordered", "setup"} =>
           mine[c] # None /\ mine[c].state = "creating"
    /\ pc[c] = "pay" => mine[c] # None
    /\ pc[c] = "settle" =>
           /\ mine[c] # None
           /\ c \in CreateCall => mine[c].state \in {"unknown", "ready", "amount_changed"}
           /\ c \in PayCall =>
                /\ mine[c].state \in Result
                /\ mine[c].state \in {"authorised", "refused"} =>
                       settled[arg[c]] = mine[c].state

CopyInv == \A c \in Call : HasCopy(c)

\* A quote is bound once, before its order.
QuoteInv ==
    \A c \in Call :
        /\ pc[c] = "bind" => bound[arg[c]] = None
        /\ pc[c] = "order" \/ c \in ordered => bound[arg[c]] = c

\* Until its call is past, nobody has paid a checkout.
FreshInv ==
    \A k \in Checkout : pc[k] \notin Past =>
        /\ settled[k] = "none"
        /\ saved[k] # None => saved[k].state = "creating"
        /\ \A c \in paying : arg[c] # k

\* Whoever pays has said so in the file, and is the first.
PayInv ==
    \A c \in Call :
        /\ pc[c] \in {"pay", "settle"} /\ c \in PayCall =>
               saved[arg[c]] # None /\ saved[arg[c]].state = "submitting"
        /\ pc[c] = "pay" => \A d \in paying : arg[d] # arg[c]

\* Of each account the shop has replaced all tokens before the saved one, and
\* none after it.
TokenInv ==
    /\ IsFiniteSet(consumed) /\ Cardinality(consumed) <= MaxRotation
    /\ spent \subseteq consumed
    /\ session # None =>
         /\ session.token \notin spent
         /\ \A t \in consumed : t.user = session.token.user => t.n <= session.token.n
         /\ \A m \in 0..MaxRotation : m < session.token.n =>
                [user |-> session.token.user, n |-> m] \in consumed
    /\ \A c \in Call : pc[c] = "renewed" => session.token \in consumed

IInv ==
    /\ TypeOK /\ HoldInv /\ RoleInv /\ CopyInv
    /\ QuoteInv /\ FreshInv /\ PayInv /\ TokenInv
    /\ OneOrderPerQuote /\ OnePaymentPerCheckout /\ StateIsTrue
    /\ ActsForOwner /\ SpentStaysSpent

\* The steps of a call outside the session's lock, with its session, with its
\* checkout, and with a payment.
Comes(c)  == Begin(c) \/ OpenSession(c) \/ OpenFails(c) \/ Stop(c) \/ Leave(c) \/ Crash(c)
Renews(c) == Renew(c) \/ RenewFails(c) \/ SaveSession(c) \/ SaveSessionFails(c)
Orders(c) == SaveCheckout(c) \/ BindQuote(c) \/ CreateFails(c) \/ SendOrder(c)
             \/ SaveOrder(c) \/ SetUp(c)
Pays(c)   == Submit(c) \/ SubmitFails(c) \/ SendPayment(c) \/ Settle(c) \/ Reconcile(c)
Around    == (\E k \in Checkout : PaymentSettles(k)) \/ ChangeSession \/ UNCHANGED vars

-----------------------------------------------------------------------------
(* Lemmas                                                                  *)

\* One call at a time works with the session.
LEMMA Alone ==
    ASSUME HoldInv, NEW c \in Call, NEW d \in Call,
           pc[c] \in InSession, pc[d] \in InSession
    PROVE  c = d
  BY DEF HoldInv

\* A token that follows those consumed is one the bound allows.
LEMMA SuccessorTyped ==
    ASSUME TypeOK, TokenInv, session # None, session.token \in consumed
    PROVE  session.token.n + 1 \in 0..MaxRotation
<1> DEFINE u == session.token.user
           n == session.token.n
           f == [m \in 0..n |-> [user |-> u, n |-> m]]
<1>1. MaxRotation \in Nat /\ n \in 0..MaxRotation /\ session.token = [user |-> u, n |-> n]
  BY CheckoutAssumption DEF TypeOK, Session, Token
<1>2. ASSUME NEW m \in 0..n
      PROVE  [user |-> u, n |-> m] \in consumed
  BY <1>1, <1>2 DEF TokenInv
<1>3. f \in Injection(0..n, consumed)
  <2>1. f \in [0..n -> consumed]
    BY <1>2
  <2>2. \A a, b \in 0..n : f[a] = f[b] => a = b
    OBVIOUS
  <2> QED
    BY <2>1, <2>2 DEF Injection, IsInjective
<1>4. Cardinality(consumed) \in Nat /\ Cardinality(consumed) <= MaxRotation
  BY FS_CardinalityType DEF TokenInv
<1>5. Cardinality(0..n) <= Cardinality(consumed)
  <2> HIDE DEF f
  <2> QED
    BY <1>3, FS_Injection DEF TokenInv
<1>6. Cardinality(0..n) = n + 1
  <2> HIDE DEF n
  <2>1. 0 \in Int /\ n \in Int /\ n >= 0
    BY <1>1
  <2>2. Cardinality(0..n) = IF 0 > n THEN 0 ELSE n - 0 + 1
    BY <2>1, FS_Interval
  <2> QED
    BY <2>1, <2>2
<1> QED
  BY <1>1, <1>4, <1>5, <1>6

\* A renewed session can be saved.
LEMMA Saved ==
    ASSUME IInv, NEW c \in Call, SaveSession(c)
    PROVE  session' \in Session
<1>1. session # None /\ session.token \in consumed
  BY DEF IInv, SaveSession, Goto, HoldInv, InSession, TokenInv
<1>2. session \in Session /\ session.token \in Token
  BY <1>1 DEF IInv, TypeOK, Session
<1>3. Successor(session.token) \in Token
  <2>1. session.token.n + 1 \in 0..MaxRotation
    BY <1>1, SuccessorTyped DEF IInv
  <2> QED
    BY <1>2, <2>1 DEF Successor, Token
<1> QED
  BY <1>2, <1>3 DEF SaveSession, Session

LEMMA Steps ==
    ASSUME [Next]_vars
    PROVE  Around \/ \E c \in Call : Comes(c) \/ Renews(c) \/ Orders(c) \/ Pays(c)
  BY DEF Next, Around, Comes, Renews, Orders, Pays

LEMMA Initially == Init => IInv
<1> SUFFICES ASSUME Init PROVE IInv
  OBVIOUS
<1> USE DEF Init, Call, Checkout
<1>1. TypeOK
  <2>1. session \in Session
    BY CheckoutAssumption DEF Session, Token
  <2> QED
    BY <2>1 DEF TypeOK, PC
<1>2. HoldInv /\ RoleInv /\ CopyInv /\ QuoteInv /\ FreshInv /\ PayInv
  BY DEF HoldInv, RoleInv, CopyInv, QuoteInv, FreshInv, PayInv, HasCopy, InSession
<1>3. TokenInv
  <2>1. session # None => session.token.n = 0
    OBVIOUS
  <2> QED
    BY <2>1, FS_EmptySet, CheckoutAssumption DEF TokenInv
<1>4. OneOrderPerQuote /\ OnePaymentPerCheckout /\ StateIsTrue /\ ActsForOwner /\ SpentStaysSpent
  BY DEF OneOrderPerQuote, OnePaymentPerCheckout, StateIsTrue, ActsForOwner, SpentStaysSpent
<1> QED
  BY <1>1, <1>2, <1>3, <1>4 DEF IInv

LEMMA TypeStep ==
    ASSUME IInv, [Next]_vars
    PROVE  TypeOK'
<1> USE DEF IInv, Goto, disk, locks, world, tokens
<1>0. InSession \cup {"idle", "locked", "leave", "done", "crashed"} = PC
  BY DEF PC
<1>1. CASE Around
  <2>1. CASE ChangeSession
    <3>1. session' \in Session \cup {None}
      BY <2>1, CheckoutAssumption DEF ChangeSession, TypeOK, Session, Token
    <3> QED
      BY <2>1, <3>1 DEF ChangeSession, TypeOK
  <2> QED
    BY <1>1, <2>1 DEF Around, PaymentSettles, TypeOK, vars
<1>2. ASSUME NEW c \in Call, Comes(c)
      PROVE  TypeOK'
  <2>1. CASE Begin(c)
    BY <1>0, <2>1 DEF Begin, TypeOK
  <2>2. CASE OpenSession(c) \/ OpenFails(c) \/ Stop(c)
    BY <1>0, <2>2 DEF OpenSession, OpenFails, Stop, TypeOK, InSession
  <2>3. CASE Leave(c) \/ Crash(c)
    BY <1>0, <2>3 DEF Leave, Crash, TypeOK
  <2> QED
    BY <1>2, <2>1, <2>2, <2>3 DEF Comes
<1>3. ASSUME NEW c \in Call, Renews(c)
      PROVE  TypeOK'
  <2>1. CASE Renew(c) \/ RenewFails(c)
    <3>1. session # None
      BY <2>1 DEF Renew, RenewFails, HoldInv, InSession
    <3>2. session.token \in Token
      BY <3>1 DEF TypeOK, Session
    <3> QED
      BY <1>0, <2>1, <3>2 DEF Renew, RenewFails, TypeOK, InSession
  <2>2. CASE SaveSession(c) \/ SaveSessionFails(c)
    <3>1. session # None
      BY <2>2 DEF SaveSession, SaveSessionFails, HoldInv, InSession
    <3>2. session.token \in Token
      BY <3>1 DEF TypeOK, Session
    <3>3. session' \in Session \cup {None}
      BY <2>2, Saved DEF SaveSession, SaveSessionFails, TypeOK
    <3> QED
      BY <1>0, <2>2, <3>2, <3>3 DEF SaveSession, SaveSessionFails, TypeOK, InSession
  <2> QED
    BY <1>3, <2>1, <2>2 DEF Renews
<1>4. ASSUME NEW c \in Call, Orders(c)
      PROVE  TypeOK'
  <2>0. Unsent \in Record
    BY DEF Unsent, Record, State, Untouched
  <2>1. CASE SaveCheckout(c) \/ BindQuote(c) \/ CreateFails(c)
    BY <1>0, <2>0, <2>1 DEF SaveCheckout, BindQuote, CreateFails, Writes, MayWrite, TypeOK,
       InSession, RoleInv, Checkout
  <2>2. CASE SendOrder(c)
    <3>1. c \in CreateCall /\ mine[c] \in Record
      BY <2>2 DEF SendOrder, RoleInv, CopyInv, HasCopy, TypeOK
    <3>2. [mine[c] EXCEPT !.guid = TRUE] \in Record /\ [mine[c] EXCEPT !.state = "unknown"] \in Record
      BY <3>1 DEF Record, State, Result
    <3>3. mine' \in [Call -> Record \cup {None}]
      BY <2>2, <3>1, <3>2 DEF SendOrder, Become, TypeOK
    <3> QED
      BY <1>0, <2>2, <3>1, <3>3 DEF SendOrder, TypeOK, InSession
  <2>3. CASE SaveOrder(c) \/ SetUp(c)
    <3>1. c \in Checkout /\ mine[c] \in Record
      BY <2>3 DEF SaveOrder, SetUp, RoleInv, CopyInv, HasCopy, TypeOK, Checkout
    <3>2. \A s \in State : [mine[c] EXCEPT !.state = s] \in Record
      BY <3>1 DEF Record
    <3>3. {"unknown", "ready", "amount_changed"} \subseteq State
      BY DEF State, Result, Untouched
    <3> QED
      BY <1>0, <2>3, <3>1, <3>2, <3>3 DEF SaveOrder, SetUp, Writes, MayWrite, Become, TypeOK,
         InSession
  <2> QED
    BY <1>4, <2>1, <2>2, <2>3 DEF Orders
<1>5. ASSUME NEW c \in Call, Pays(c)
      PROVE  TypeOK'
  <2>0. ASSUME NEW r \in Record, NEW s \in State
        PROVE  [r EXCEPT !.state = s] \in Record
    BY DEF Record
  <2>00. Result \cup {"submitting", "authorised", "unknown"} \subseteq State
    BY DEF State, Result
  <2>1. CASE Submit(c) \/ SubmitFails(c)
    <3>1. saved[arg[c]] # None /\ arg[c] \in Checkout
      BY <2>1, CheckoutAssumption DEF Submit, SubmitFails, RoleInv
    <3>2. saved[arg[c]] \in Record
      BY <3>1 DEF TypeOK
    <3>3. [saved[arg[c]] EXCEPT !.state = "submitting"] \in Record
      BY <2>0, <2>00, <3>2
    <3>4. saved' \in [Checkout -> Record \cup {None}] /\ mine' \in [Call -> Record \cup {None}]
      BY <2>1, <3>1, <3>3 DEF Submit, SubmitFails, Writes, MayWrite, TypeOK
    <3> QED
      BY <1>0, <2>1, <3>4 DEF Submit, SubmitFails, TypeOK, InSession
  <2>2. CASE SendPayment(c)
    <3>1. c \in PayCall /\ c \notin CreateCall /\ arg[c] \in Checkout /\ mine[c] \in Record
      BY <2>2, CheckoutAssumption DEF SendPayment, RoleInv, CopyInv, HasCopy, TypeOK
    <3> QED
      BY <1>0, <2>0, <2>00, <2>2, <3>1 DEF SendPayment, Become, Answered, Result, TypeOK, InSession
  <2>3. CASE Settle(c)
    <3>1. mine[c] \in Record /\ (c \notin CreateCall => arg[c] \in Checkout)
      BY <2>3 DEF Settle, RoleInv, CopyInv, HasCopy, TypeOK
    <3> QED
      BY <1>0, <2>3, <3>1 DEF Settle, Writes, MayWrite, TypeOK, Checkout
  <2>4. CASE Reconcile(c)
    <3>1. saved[arg[c]] # None /\ arg[c] \in Checkout
      BY <2>4, CheckoutAssumption DEF Reconcile, RoleInv
    <3>2. saved[arg[c]] \in Record
      BY <3>1 DEF TypeOK
    <3>3. [saved[arg[c]] EXCEPT !.state = "authorised"] \in Record
      BY <2>0, <2>00, <3>2
    <3>4. saved' \in [Checkout -> Record \cup {None}]
      BY <2>4, <3>1, <3>3 DEF Reconcile, Writes, MayWrite, TypeOK
    <3> QED
      BY <1>0, <2>4, <3>4 DEF Reconcile, TypeOK
  <2> QED
    BY <1>5, <2>1, <2>2, <2>3, <2>4 DEF Pays
<1> QED
  BY <1>1, <1>2, <1>3, <1>4, <1>5, Steps

LEMMA HoldStep ==
    ASSUME IInv, [Next]_vars
    PROVE  HoldInv' /\ ActsForOwner'
<1> USE DEF IInv, Goto, disk, locks, world, tokens
<1>1. CASE Around
  <2>1. CASE ChangeSession
    <3>1. \A c \in Call : pc[c] \notin InSession
      BY <2>1 DEF ChangeSession, Free, HoldInv, InSession
    <3> QED
      BY <2>1, <3>1 DEF ChangeSession, HoldInv, ActsForOwner, InSession
  <2> QED
    BY <1>1, <2>1 DEF Around, PaymentSettles, HoldInv, ActsForOwner, OwnerOf, vars
<1>2. ASSUME NEW c \in Call, Comes(c)
      PROVE  HoldInv' /\ ActsForOwner'
  <2>1. CASE OpenSession(c)
    <3>1. \A d \in Call : pc[d] \notin InSession
      BY <2>1 DEF OpenSession, Free, HoldInv, InSession
    <3> QED
      BY <2>1, <3>1 DEF OpenSession, HoldInv, ActsForOwner, OwnerOf, TypeOK, InSession
  <2>2. CASE Begin(c) \/ OpenFails(c) \/ Stop(c)
    BY <2>2 DEF Begin, OpenFails, Stop, HoldInv, ActsForOwner, OwnerOf, TypeOK, InSession
  <2>3. CASE Leave(c) \/ Crash(c)
    BY <2>3 DEF Leave, Crash, HoldInv, ActsForOwner, OwnerOf, TypeOK, InSession
  <2> QED
    BY <1>2, <2>1, <2>2, <2>3 DEF Comes
<1>3. ASSUME NEW c \in Call, Renews(c)
      PROVE  HoldInv' /\ ActsForOwner'
  <2>1. \A d \in Call : pc[d] \in InSession => d = c
    BY <1>3, Alone DEF Renews, Renew, RenewFails, SaveSession, SaveSessionFails, InSession
  <2>2. CASE SaveSession(c)
    <3>1. session' # None
      BY <2>2, Saved, NoneIsNothing
    <3> QED
      BY <2>2, <2>1, <3>1 DEF SaveSession, HoldInv, ActsForOwner, TypeOK, InSession
  <2>3. CASE SaveSessionFails(c)
    BY <2>3, <2>1 DEF SaveSessionFails, HoldInv, ActsForOwner, TypeOK, InSession
  <2>4. CASE Renew(c) \/ RenewFails(c)
    BY <2>4, <2>1 DEF Renew, RenewFails, HoldInv, ActsForOwner, TypeOK, InSession
  <2> QED
    BY <1>3, <2>2, <2>3, <2>4 DEF Renews
<1>4. ASSUME NEW c \in Call, Orders(c)
      PROVE  HoldInv' /\ ActsForOwner'
  <2>1. \A d \in Call : pc[d] \in InSession => d = c
    BY <1>4, Alone DEF Orders, SaveCheckout, BindQuote, CreateFails, SendOrder, SaveOrder, SetUp,
       InSession
  <2>2. CASE SaveCheckout(c)
    BY <2>1, <2>2 DEF SaveCheckout, MayCreate, HoldInv, ActsForOwner, TypeOK, InSession
  <2>3. CASE BindQuote(c) \/ CreateFails(c)
    BY <2>1, <2>3 DEF BindQuote, CreateFails, HoldInv, ActsForOwner, TypeOK, InSession
  <2>4. CASE SendOrder(c) \/ SaveOrder(c) \/ SetUp(c)
    BY <2>1, <2>4 DEF SendOrder, SaveOrder, SetUp, HoldInv, ActsForOwner, TypeOK, InSession
  <2> QED
    BY <1>4, <2>2, <2>3, <2>4 DEF Orders
<1>5. ASSUME NEW c \in Call, Pays(c)
      PROVE  HoldInv' /\ ActsForOwner'
  <2>1. \A d \in Call : pc[d] \in InSession => d = c
    BY <1>5, Alone DEF Pays, Submit, SubmitFails, SendPayment, Settle, Reconcile, InSession
  <2>2. CASE Submit(c)
    BY <2>1, <2>2 DEF Submit, MayPay, OwnerOf, HoldInv, ActsForOwner, TypeOK, InSession
  <2>3. CASE SubmitFails(c) \/ SendPayment(c) \/ Settle(c) \/ Reconcile(c)
    BY <2>1, <2>3 DEF SubmitFails, SendPayment, Settle, Reconcile, HoldInv, ActsForOwner, TypeOK,
       InSession
  <2> QED
    BY <1>5, <2>2, <2>3 DEF Pays
<1> QED
  BY <1>1, <1>2, <1>3, <1>4, <1>5, Steps

\* What call c may write of checkout k: its own new checkout, or the one that it
\* names.
WrittenBy(c, k) ==
    /\ saved'[k] \in Record
    /\ \/ c = k /\ pc[c] = "open" /\ saved'[k] = Unsent
       \/ c = k /\ pc[c] = "ordered" /\ saved'[k] = mine[c]
       \/ c = k /\ pc[c] = "settle" /\ pc'[c] = "leave" /\ saved'[k] = mine[c]
       \/ /\ c \in PayCall /\ arg[c] = k /\ pc[c] = "open"
          /\ saved[k] # None /\ saved[k].state = "ready" /\ saved'[k].state = "submitting"
       \/ /\ c \in PayCall /\ arg[c] = k /\ pc[c] = "settle" /\ pc'[c] = "leave"
          /\ saved'[k] = mine[c]
       \/ /\ arg[c] = k /\ pc[c] = "open"
          /\ settled[k] = "authorised" /\ saved'[k].state = "authorised"

LEMMA Written ==
    ASSUME IInv, [Next]_vars, NEW k \in Checkout, saved'[k] # saved[k]
    PROVE  \E c \in Call : pc[c] \in InSession /\ WrittenBy(c, k)
<1> USE DEF IInv, Goto, disk, locks, world, tokens, Writes, MayWrite
<1>1. CASE Around
  BY <1>1 DEF Around, PaymentSettles, ChangeSession, vars
<1>2. ASSUME NEW c \in Call, Comes(c) \/ Renews(c)
      PROVE  FALSE
  BY <1>2 DEF Comes, Begin, OpenSession, OpenFails, Stop, Leave, Crash,
     Renews, Renew, RenewFails, SaveSession, SaveSessionFails
<1>3. ASSUME NEW c \in Call, Orders(c)
      PROVE  pc[c] \in InSession /\ WrittenBy(c, k)
  <2>0. Unsent \in Record
    BY DEF Unsent, Record, State, Untouched
  <2>1. CASE SaveCheckout(c) \/ CreateFails(c)
    BY <2>0, <2>1 DEF SaveCheckout, CreateFails, WrittenBy, TypeOK, InSession
  <2>2. CASE SaveOrder(c)
    <3>1. c \in CreateCall /\ mine[c] \in Record
      BY <2>2 DEF SaveOrder, RoleInv, CopyInv, HasCopy, TypeOK
    <3> QED
      BY <2>2, <3>1 DEF SaveOrder, WrittenBy, TypeOK, InSession
  <2>3. CASE BindQuote(c) \/ SendOrder(c) \/ SetUp(c)
    BY <2>3 DEF BindQuote, SendOrder, SetUp
  <2> QED
    BY <1>3, <2>1, <2>2, <2>3 DEF Orders
<1>4. ASSUME NEW c \in Call, Pays(c)
      PROVE  pc[c] \in InSession /\ WrittenBy(c, k)
  <2>0. \A r \in Record, s \in State :
            [r EXCEPT !.state = s] \in Record /\ [r EXCEPT !.state = s].state = s
    BY DEF Record
  <2>1. CASE Submit(c) \/ SubmitFails(c)
    <3>1. saved[arg[c]] # None /\ saved[arg[c]] \in Record
      BY <2>1, CheckoutAssumption DEF Submit, SubmitFails, RoleInv, TypeOK
    <3>2. "submitting" \in State
      BY DEF State
    <3>3. c \in PayCall /\ pc[c] = "open" /\ arg[c] = k /\ saved[k].state = "ready"
      BY <2>1 DEF Submit, SubmitFails, MayPay, TypeOK
    <3>4. saved'[k] = [saved[k] EXCEPT !.state = "submitting"]
      BY <2>1, <3>3 DEF Submit, SubmitFails, TypeOK
    <3> QED
      BY <2>0, <3>1, <3>2, <3>3, <3>4 DEF WrittenBy, InSession
  <2>2. CASE SendPayment(c)
    BY <2>2 DEF SendPayment
  <2>3. CASE Settle(c)
    <3>1. mine[c] \in Record
      BY <2>3 DEF Settle, RoleInv, CopyInv, HasCopy, TypeOK
    <3> QED
      BY <2>3, <3>1 DEF Settle, RoleInv, WrittenBy, TypeOK, InSession
  <2>4. CASE Reconcile(c)
    <3>1. saved[arg[c]] \in Record
      BY <2>4, CheckoutAssumption DEF Reconcile, RoleInv, TypeOK
    <3>2. "authorised" \in State
      BY DEF State, Result
    <3>3. arg[c] = k /\ pc[c] = "open" /\ settled[k] = "authorised"
          /\ saved'[k] = [saved[k] EXCEPT !.state = "authorised"]
      BY <2>4 DEF Reconcile, TypeOK
    <3> QED
      BY <2>0, <3>1, <3>2, <3>3 DEF WrittenBy, InSession
  <2> QED
    BY <1>4, <2>1, <2>2, <2>3, <2>4 DEF Pays
<1> QED
  BY <1>1, <1>2, <1>3, <1>4, Steps

\* An argument is chosen once, at the start; a saved checkout stays.
LEMMA Kept ==
    ASSUME IInv, [Next]_vars
    PROVE  /\ \A c \in Call : pc[c] # "idle" => arg'[c] = arg[c] /\ pc'[c] # "idle"
           /\ \A k \in Checkout : saved[k] # None => saved'[k] # None
           /\ UNCHANGED owner
<1>1. \A k \in Checkout : saved[k] # None => saved'[k] # None
  BY Written, NoneIsNothing DEF WrittenBy
<1>2. (\A c \in Call : pc[c] # "idle" => arg'[c] = arg[c] /\ pc'[c] # "idle") /\ UNCHANGED owner
  <2> USE DEF IInv, Goto, disk, locks, world, tokens
  <2>1. CASE Around
    BY <2>1 DEF Around, PaymentSettles, ChangeSession, vars
  <2>2. ASSUME NEW d \in Call, Comes(d) \/ Renews(d)
        PROVE  <1>2!:
    BY <2>2 DEF Comes, Begin, OpenSession, OpenFails, Stop, Leave, Crash,
       Renews, Renew, RenewFails, SaveSession, SaveSessionFails, TypeOK
  <2>3. ASSUME NEW d \in Call, Orders(d) \/ Pays(d)
        PROVE  <1>2!:
    BY <2>3 DEF Orders, SaveCheckout, BindQuote, CreateFails, SendOrder, SaveOrder, SetUp,
       Pays, Submit, SubmitFails, SendPayment, Settle, Reconcile, TypeOK
  <2> QED
    BY <2>1, <2>2, <2>3, Steps
<1> QED
  BY <1>1, <1>2

LEMMA RoleStep ==
    ASSUME IInv, [Next]_vars
    PROVE  RoleInv'
<1> USE DEF IInv, Goto, disk, locks, world, tokens, RoleInv, Call
<1>1. CASE Around
  BY <1>1, Kept DEF Around, PaymentSettles, ChangeSession, vars
<1>2. ASSUME NEW c \in Call, Comes(c)
      PROVE  RoleInv'
  <2>1. CASE Begin(c)
    BY <2>1, Kept, CheckoutAssumption DEF Begin, TypeOK
  <2>2. CASE OpenSession(c) \/ OpenFails(c) \/ Stop(c)
    BY <2>2, Kept DEF OpenSession, OpenFails, Stop, TypeOK
  <2>3. CASE Leave(c) \/ Crash(c)
    BY <2>3, Kept DEF Leave, Crash, TypeOK
  <2> QED
    BY <1>2, <2>1, <2>2, <2>3 DEF Comes
<1>3. ASSUME NEW c \in Call, Renews(c)
      PROVE  RoleInv'
  BY <1>3, Kept DEF Renews, Renew, RenewFails, SaveSession, SaveSessionFails, TypeOK
<1>4. ASSUME NEW c \in Call, Orders(c)
      PROVE  RoleInv'
  <2>1. CASE SaveCheckout(c) \/ BindQuote(c) \/ CreateFails(c)
    BY <2>1, Kept DEF SaveCheckout, BindQuote, CreateFails, TypeOK
  <2>2. CASE SendOrder(c) \/ SaveOrder(c) \/ SetUp(c)
    BY <2>2, Kept DEF SendOrder, SaveOrder, SetUp, TypeOK
  <2> QED
    BY <1>4, <2>1, <2>2 DEF Orders
<1>5. ASSUME NEW c \in Call, Pays(c)
      PROVE  RoleInv'
  BY <1>5, Kept DEF Pays, Submit, SubmitFails, SendPayment, Settle, Reconcile, TypeOK
<1> QED
  BY <1>1, <1>2, <1>3, <1>4, <1>5, Steps

LEMMA CopyStep ==
    ASSUME IInv, [Next]_vars
    PROVE  CopyInv'
<1> USE DEF IInv, Goto, disk, locks, world, tokens, CopyInv, HasCopy
<1>1. CASE Around
  BY <1>1, Kept DEF Around, PaymentSettles, ChangeSession, vars, TypeOK, RoleInv, Call
<1>2. ASSUME NEW c \in Call, Comes(c) \/ Renews(c)
      PROVE  CopyInv'
  <2>1. \A d \in Call : pc'[d] \in {"bind", "order", "ordered", "setup", "pay", "settle"} =>
            pc'[d] = pc[d] /\ mine'[d] = mine[d]
    BY <1>2 DEF Comes, Begin, OpenSession, OpenFails, Stop, Leave, Crash,
       Renews, Renew, RenewFails, SaveSession, SaveSessionFails, TypeOK
  <2>2. UNCHANGED settled
    BY <1>2 DEF Comes, Begin, OpenSession, OpenFails, Stop, Leave, Crash,
       Renews, Renew, RenewFails, SaveSession, SaveSessionFails
  <2> QED
    BY <2>1, <2>2, Kept
<1>3. ASSUME NEW c \in Call, Orders(c) \/ Pays(c)
      PROVE  CopyInv'
  <2>1. \A d \in Call : d # c => pc'[d] = pc[d] /\ mine'[d] = mine[d] /\ pc[d] \notin InSession
    <3>1. pc[c] \in InSession
      BY <1>3 DEF Orders, SaveCheckout, BindQuote, CreateFails, SendOrder, SaveOrder, SetUp,
         Pays, Submit, SubmitFails, SendPayment, Settle, Reconcile, InSession
    <3>2. \A d \in Call : d # c => pc'[d] = pc[d] /\ mine'[d] = mine[d]
      BY <1>3 DEF Orders, SaveCheckout, BindQuote, CreateFails, SendOrder, SaveOrder, SetUp,
         Pays, Submit, SubmitFails, SendPayment, Settle, Reconcile, Become, TypeOK
    <3> QED
      BY <3>1, <3>2, Alone
  <2>2. \A r \in Record, s \in State :
            [r EXCEPT !.state = s] # None /\ [r EXCEPT !.state = s].state = s
    BY NoneIsNothing DEF Record
  <2>3. Result \cup {"submitting", "creating", "unknown", "ready", "amount_changed"} \subseteq State
    BY DEF State, Result, Untouched
  <2>4. HasCopy(c)'
    <3>1. CASE SaveCheckout(c)
      <4>1. Unsent \in Record /\ Unsent.state = "creating"
        BY DEF Unsent, Record, State, Untouched
      <4> QED
        BY <3>1, <4>1, NoneIsNothing DEF SaveCheckout, TypeOK
    <3>2. CASE BindQuote(c) \/ CreateFails(c)
      BY <3>2 DEF BindQuote, CreateFails, TypeOK
    <3>3. CASE SendOrder(c) \/ SaveOrder(c) \/ SetUp(c)
      <4>1. mine[c] \in Record /\ mine[c].state = "creating" /\ c \in CreateCall
        BY <3>3 DEF SendOrder, SaveOrder, SetUp, RoleInv, TypeOK
      <4>2. c \notin PayCall
        BY <4>1, CheckoutAssumption
      <4>3. \/ pc'[c] = "ordered" /\ mine'[c] = [mine[c] EXCEPT !.guid = TRUE]
            \/ pc'[c] = "setup" /\ mine'[c] = mine[c]
            \/ /\ pc'[c] = "settle"
               /\ \E s \in {"unknown", "ready", "amount_changed"} :
                      mine'[c] = [mine[c] EXCEPT !.state = s]
        <5>1. CASE SendOrder(c)
          BY <5>1 DEF SendOrder, Become, TypeOK
        <5>2. CASE SaveOrder(c)
          BY <5>2 DEF SaveOrder, Become, TypeOK
        <5>3. CASE SetUp(c)
          BY <5>3 DEF SetUp, Become, TypeOK
        <5> QED
          BY <3>3, <5>1, <5>2, <5>3
      <4>4. [mine[c] EXCEPT !.guid = TRUE] # None /\ [mine[c] EXCEPT !.guid = TRUE].state = "creating"
        BY <4>1, NoneIsNothing DEF Record
      <4>5. mine[c] # None
        BY <4>1, NoneIsNothing
      <4>6. CASE pc'[c] = "ordered" \/ pc'[c] = "setup"
        BY <4>1, <4>3, <4>4, <4>5, <4>6
      <4>7. CASE pc'[c] = "settle"
        <5>1. PICK s \in {"unknown", "ready", "amount_changed"} : mine'[c] = [mine[c] EXCEPT !.state = s]
          BY <4>3, <4>7
        <5>2. s \in State
          BY <2>3
        <5>3. mine'[c] # None /\ mine'[c].state = s
          BY <2>2, <4>1, <5>1, <5>2
        <5> QED
          BY <4>2, <4>7, <5>3
      <4> QED
        BY <4>3, <4>6, <4>7
    <3>4. CASE Submit(c)
      <4>1. saved[arg[c]] \in Record
        BY <3>4, CheckoutAssumption DEF Submit, RoleInv, TypeOK
      <4> QED
        BY <2>2, <2>3, <3>4, <4>1 DEF Submit, TypeOK
    <3>5. CASE SendPayment(c)
      <4>1. mine[c] \in Record /\ c \notin CreateCall /\ arg[c] \in Checkout
        BY <3>5, CheckoutAssumption DEF SendPayment, RoleInv, TypeOK
      <4>2. pc'[c] = "settle" /\ UNCHANGED arg
        BY <3>5 DEF SendPayment, TypeOK
      <4>3. \/ mine'[c] = [mine[c] EXCEPT !.state = "unknown"]
            \/ \E outcome \in {"authorised", "refused", "requires_action", "pending"} :
                  /\ mine'[c] = [mine[c] EXCEPT !.state = outcome]
                  /\ outcome \in {"authorised", "refused"} => settled'[arg[c]] = outcome
        BY <3>5, <4>1 DEF SendPayment, Become, Answered, TypeOK
      <4>4. {"unknown", "authorised", "refused", "requires_action", "pending"} \subseteq Result
        BY DEF Result
      <4>5. /\ mine'[c] # None /\ mine'[c].state \in Result
            /\ mine'[c].state \in {"authorised", "refused"} => settled'[arg[c]] = mine'[c].state
        <5>1. CASE mine'[c] = [mine[c] EXCEPT !.state = "unknown"]
          BY <2>2, <2>3, <4>1, <4>4, <5>1
        <5>2. ASSUME NEW s \in {"authorised", "refused", "requires_action", "pending"},
                     mine'[c] = [mine[c] EXCEPT !.state = s],
                     s \in {"authorised", "refused"} => settled'[arg[c]] = s
              PROVE  <4>5!:
          BY <2>2, <2>3, <4>1, <4>4, <5>2
        <5> QED
          BY <4>3, <5>1, <5>2
      <4>7. arg'[c] = arg[c]
        BY <4>2
      <4> QED
        BY <4>1, <4>2, <4>5, <4>7
    <3>6. CASE SubmitFails(c) \/ Settle(c) \/ Reconcile(c)
      BY <3>6 DEF SubmitFails, Settle, Reconcile, TypeOK
    <3> QED
      BY <1>3, <3>1, <3>2, <3>3, <3>4, <3>5, <3>6 DEF Orders, Pays
  <2>5. ASSUME NEW d \in Call, d # c
        PROVE  HasCopy(d)'
    BY <2>1, <2>5 DEF InSession
  <2> QED
    BY <2>4, <2>5
<1> QED
  BY <1>1, <1>2, <1>3, Steps

\* A quote is bound by the call that is about to order.
LEMMA QuoteStep ==
    ASSUME IInv, [Next]_vars
    PROVE  QuoteInv' /\ OneOrderPerQuote'
<1> USE DEF IInv, Goto, disk, locks, world, tokens, QuoteInv
<1>1. QuoteInv'
  <2>1. CASE Around
    BY <2>1 DEF Around, PaymentSettles, ChangeSession, vars
  <2>2. ASSUME NEW c \in Call, Comes(c) \/ Renews(c)
        PROVE  QuoteInv'
    <3>1. UNCHANGED <<bound, ordered>>
      BY <2>2 DEF Comes, Begin, OpenSession, OpenFails, Stop, Leave, Crash,
         Renews, Renew, RenewFails, SaveSession, SaveSessionFails
    <3>2. \A d \in Call : pc'[d] = "bind" \/ pc'[d] = "order" => pc'[d] = pc[d]
      BY <2>2 DEF Comes, Begin, OpenSession, OpenFails, Stop, Leave, Crash,
         Renews, Renew, RenewFails, SaveSession, SaveSessionFails, TypeOK
    <3> QED
      BY <3>1, <3>2, Kept DEF RoleInv
  <2>3. ASSUME NEW c \in Call, Orders(c)
        PROVE  QuoteInv'
    <3>1. \A d \in Call : pc[d] \in InSession => d = c
      BY <2>3, Alone DEF Orders, SaveCheckout, BindQuote, CreateFails, SendOrder, SaveOrder, SetUp,
         InSession
    <3>2. \A d \in Call : d # c => pc'[d] = pc[d]
      BY <2>3 DEF Orders, SaveCheckout, BindQuote, CreateFails, SendOrder, SaveOrder, SetUp, TypeOK
    <3>3. c \in CreateCall /\ pc[c] # "idle" /\ arg[c] \in Quote
      BY <2>3 DEF Orders, SaveCheckout, BindQuote, CreateFails, SendOrder, SaveOrder, SetUp, RoleInv
    <3>4. CASE SaveCheckout(c)
      BY <3>1, <3>2, <3>3, <3>4, Kept DEF SaveCheckout, RoleInv, InSession, TypeOK
    <3>5. CASE BindQuote(c)
      BY <3>1, <3>2, <3>3, <3>5, Kept, CheckoutAssumption DEF BindQuote, Writes, RoleInv, InSession,
         TypeOK, Call
    <3>6. CASE CreateFails(c)
      BY <3>1, <3>2, <3>3, <3>6, Kept, CheckoutAssumption DEF CreateFails, MayWrite, Writes, RoleInv,
         InSession, TypeOK, Call
    <3>7. CASE SendOrder(c) \/ SaveOrder(c) \/ SetUp(c)
      BY <3>1, <3>2, <3>3, <3>7, Kept DEF SendOrder, SaveOrder, SetUp, RoleInv, InSession, TypeOK
    <3> QED
      BY <2>3, <3>4, <3>5, <3>6, <3>7 DEF Orders
  <2>4. ASSUME NEW c \in Call, Pays(c)
        PROVE  QuoteInv'
    <3>1. UNCHANGED <<bound, ordered>>
      BY <2>4 DEF Pays, Submit, SubmitFails, SendPayment, Settle, Reconcile
    <3>2. \A d \in Call : pc'[d] = "bind" \/ pc'[d] = "order" => pc'[d] = pc[d]
      BY <2>4 DEF Pays, Submit, SubmitFails, SendPayment, Settle, Reconcile, TypeOK
    <3> QED
      BY <3>1, <3>2, Kept DEF RoleInv
  <2> QED
    BY <2>1, <2>2, <2>3, <2>4, Steps
<1> QED
  BY <1>1, TypeStep DEF OneOrderPerQuote, TypeOK, Call

\* What a checkout's file says of its payments.
SaysTrue(k) ==
    saved[k] # None =>
        /\ saved[k].state \in {"authorised", "refused"} => settled[k] = saved[k].state
        /\ saved[k].state \in Untouched => \A c \in paying : arg[c] # k

\* What is in store for a checkout before its call is past, for a payment about to
\* leave, and for the files.
LEMMA PayStep ==
    ASSUME IInv, [Next]_vars
    PROVE  FreshInv' /\ PayInv' /\ StateIsTrue' /\ OnePaymentPerCheckout'
<1> USE DEF IInv, Goto, disk, locks, world, tokens
\* How payments and their outcomes change.
<1>1. \/ UNCHANGED <<paying, settled>>
      \/ \E k \in Checkout : settled[k] = "open" /\ PaymentSettles(k)
      \/ \E c \in Call : SendPayment(c)
  <2>1. CASE Around
    BY <2>1 DEF Around, PaymentSettles, ChangeSession, vars
  <2>2. ASSUME NEW c \in Call, Comes(c) \/ Renews(c)
        PROVE  UNCHANGED <<paying, settled>>
    BY <2>2 DEF Comes, Begin, OpenSession, OpenFails, Stop, Leave, Crash,
       Renews, Renew, RenewFails, SaveSession, SaveSessionFails
  <2>3. ASSUME NEW c \in Call, Orders(c) \/ Pays(c)
        PROVE  UNCHANGED <<paying, settled>> \/ SendPayment(c)
    BY <2>3 DEF Orders, SaveCheckout, BindQuote, CreateFails, SendOrder, SaveOrder, SetUp,
       Pays, Submit, SubmitFails, Settle, Reconcile
  <2> QED
    BY <2>1, <2>2, <2>3, Steps
<1>2. ASSUME NEW c \in Call, SendPayment(c)
      PROVE  /\ pc[c] = "pay" /\ c \in PayCall /\ arg[c] \in Checkout /\ UNCHANGED <<saved, arg>>
             /\ saved[arg[c]] # None /\ saved[arg[c]].state = "submitting"
             /\ pc'[c] = "settle" /\ paying' \subseteq paying \cup {c} /\ pc[arg[c]] \in Past
             /\ \A k \in Checkout : k # arg[c] => settled'[k] = settled[k]
  <2>1. c \in PayCall /\ arg[c] \in Checkout /\ saved[arg[c]] # None
        /\ saved[arg[c]].state = "submitting"
    BY <1>2, CheckoutAssumption DEF SendPayment, RoleInv, PayInv
  <2> QED
    BY <1>2, <2>1 DEF SendPayment, FreshInv, TypeOK
\* How calls come to pay, and what is past.
<1>3. \A c \in Call :
        /\ pc[c] \in Past => pc'[c] \in Past
        /\ pc'[c] = "pay" => pc[c] = "pay" \/ Submit(c)
        /\ pc'[c] = "settle" /\ c \in PayCall => pc[c] = "settle" \/ SendPayment(c)
  <2>1. CASE Around
    BY <2>1 DEF Around, PaymentSettles, ChangeSession, vars
  <2>2. ASSUME NEW d \in Call, Comes(d) \/ Renews(d)
        PROVE  <1>3!:
    BY <2>2 DEF Comes, Begin, OpenSession, OpenFails, Stop, Leave, Crash,
       Renews, Renew, RenewFails, SaveSession, SaveSessionFails, TypeOK, Past
  <2>3. ASSUME NEW d \in Call, Orders(d)
        PROVE  <1>3!:
    <3>1. d \notin PayCall
      BY <2>3, CheckoutAssumption DEF Orders, SaveCheckout, BindQuote, CreateFails, SendOrder,
         SaveOrder, SetUp, RoleInv
    <3> QED
      BY <2>3, <3>1 DEF Orders, SaveCheckout, BindQuote, CreateFails, SendOrder, SaveOrder, SetUp,
         TypeOK, Past
  <2>4. ASSUME NEW d \in Call, Pays(d)
        PROVE  <1>3!:
    <3>1. \A c \in Call : c # d => pc'[c] = pc[c]
      BY <2>4 DEF Pays, Submit, SubmitFails, SendPayment, Settle, Reconcile, TypeOK
    <3>2. pc[d] \notin Past /\ (pc'[d] = "pay" => Submit(d)) /\ (pc'[d] = "settle" => SendPayment(d))
      <4>1. CASE Submit(d)
        BY <4>1 DEF Submit, TypeOK, Past
      <4>2. CASE SendPayment(d)
        BY <4>2 DEF SendPayment, TypeOK, Past
      <4>3. CASE SubmitFails(d) \/ Settle(d) \/ Reconcile(d)
        BY <4>3 DEF SubmitFails, Settle, Reconcile, TypeOK, Past
      <4> QED
        BY <2>4, <4>1, <4>2, <4>3 DEF Pays
    <3> QED
      BY <3>1, <3>2
  <2> QED
    BY <2>1, <2>2, <2>3, <2>4, Steps
<1>4. paying \subseteq Call /\ \A c \in paying : arg'[c] = arg[c]
  BY Kept DEF RoleInv, TypeOK, Call
<1>5. FreshInv'
  <2> SUFFICES ASSUME NEW k \in Checkout, pc'[k] \notin Past
               PROVE  /\ settled'[k] = "none"
                      /\ saved'[k] # None => saved'[k].state = "creating"
                      /\ \A c \in paying' : arg'[c] # k
    BY DEF FreshInv
  <2>1. pc[k] \notin Past /\ k \in Call /\ k \notin PayCall
    BY <1>3, CheckoutAssumption DEF Checkout, Call
  <2>2. settled[k] = "none" /\ (saved[k] # None => saved[k].state = "creating")
        /\ \A c \in paying : arg[c] # k
    BY <2>1 DEF FreshInv
  <2>3. settled'[k] = "none" /\ \A c \in paying' : arg'[c] # k
    BY <1>1, <1>2, <1>4, <2>1, <2>2 DEF PaymentSettles, TypeOK
  <2>4. ASSUME saved'[k] # saved[k]
        PROVE  saved'[k].state = "creating"
    <3>1. PICK c \in Call : pc[c] \in InSession /\ WrittenBy(c, k)
      BY <2>4, Written
    <3>2. pc[c] = "ordered" => mine[c].state = "creating"
      BY DEF CopyInv, HasCopy
    <3>3. Unsent.state = "creating"
      BY DEF Unsent
    <3>4. c \in PayCall /\ pc[c] = "settle" => saved[arg[c]] # None /\ saved[arg[c]].state = "submitting"
      BY DEF PayInv
    <3> QED
      BY <2>1, <2>2, <3>1, <3>2, <3>3, <3>4 DEF WrittenBy, Past
  <2> QED
    BY <2>2, <2>3, <2>4
<1>6. PayInv'
  <2> SUFFICES ASSUME NEW c \in Call, pc'[c] \in {"pay", "settle"}, c \in PayCall
               PROVE  /\ saved'[arg'[c]] # None /\ saved'[arg'[c]].state = "submitting"
                      /\ pc'[c] = "pay" => \A d \in paying' : arg'[d] # arg'[c]
    BY RoleStep DEF PayInv, RoleInv
  <2>1. CASE SendPayment(c)
    <3>1. pc'[c] = "settle" /\ UNCHANGED <<saved, arg>> /\ saved[arg[c]] # None
          /\ saved[arg[c]].state = "submitting"
      BY <1>2, <2>1
    <3> QED
      BY <3>1
  <2>2. CASE Submit(c)
    <3>1. c \in PayCall /\ arg[c] \in Checkout /\ saved[arg[c]] \in Record
          /\ saved[arg[c]].state = "ready" /\ saved[arg[c]] # None
      BY <2>2, CheckoutAssumption DEF Submit, MayPay, RoleInv, TypeOK
    <3>2. saved'[arg[c]] = [saved[arg[c]] EXCEPT !.state = "submitting"] /\ UNCHANGED <<arg, paying>>
      BY <2>2, <3>1 DEF Submit, Writes, TypeOK
    <3>3. saved'[arg[c]] # None /\ saved'[arg[c]].state = "submitting"
      <4>1. saved'[arg[c]] # None
        BY <3>1, Kept
      <4> QED
        BY <3>1, <3>2, <4>1 DEF Record
    <3>4. \A d \in paying : arg[d] # arg[c]
      BY <3>1 DEF StateIsTrue, Untouched
    <3> QED
      BY <3>2, <3>3, <3>4
  <2>3. CASE ~SendPayment(c) /\ ~Submit(c)
    <3>1. pc[c] = pc'[c] /\ c \in PayCall /\ pc[c] \in InSession /\ arg[c] \in Checkout
          /\ arg'[c] = arg[c]
      BY <1>3, <2>3, Kept, CheckoutAssumption DEF RoleInv, InSession
    <3>2. saved[arg[c]] # None /\ saved[arg[c]].state = "submitting"
      BY <3>1 DEF PayInv
    <3>3. saved'[arg[c]] = saved[arg[c]]
      <4>1. SUFFICES ASSUME saved'[arg[c]] # saved[arg[c]] PROVE FALSE
        OBVIOUS
      <4>2. PICK d \in Call : pc[d] \in InSession /\ WrittenBy(d, arg[c])
        BY <3>1, <4>1, Written
      <4>3. d = c
        BY <3>1, <4>2, Alone
      <4> QED
        BY <2>3, <3>1, <4>2, <4>3, CheckoutAssumption DEF WrittenBy, Checkout
    <3>4. ASSUME pc'[c] = "pay"
          PROVE  \A d \in paying' : arg'[d] # arg'[c]
      <4>1. \A d \in Call : ~SendPayment(d)
        BY <1>2, <2>3, <3>1, Alone DEF InSession
      <4> QED
        BY <1>1, <1>4, <3>1, <3>4, <4>1 DEF PayInv, PaymentSettles
    <3> QED
      BY <3>1, <3>2, <3>3, <3>4
  <2> QED
    BY <2>1, <2>2, <2>3
<1>7. StateIsTrue'
  <2> SUFFICES ASSUME NEW k \in Checkout PROVE SaysTrue(k)'
    BY DEF StateIsTrue, SaysTrue
  <2> USE DEF SaysTrue
  <2>1. CASE saved'[k] = saved[k]
    <3>1. SaysTrue(k)
      BY DEF StateIsTrue
    <3>2. CASE UNCHANGED <<paying, settled>>
      BY <1>4, <2>1, <3>1, <3>2
    <3>3. ASSUME NEW j \in Checkout, settled[j] = "open", PaymentSettles(j)
          PROVE  SaysTrue(k)'
      <4>1. paying' = paying /\ (k # j => settled'[k] = settled[k])
        BY <3>3 DEF PaymentSettles, TypeOK
      <4> QED
        BY <1>4, <2>1, <3>1, <3>3, <4>1
    <3>4. ASSUME NEW c \in Call, SendPayment(c)
          PROVE  SaysTrue(k)'
      <4>1. CASE arg[c] = k
        BY <1>2, <2>1, <3>4, <4>1 DEF Untouched
      <4>2. CASE arg[c] # k
        BY <1>2, <1>4, <2>1, <3>1, <3>4, <4>2
      <4> QED
        BY <4>1, <4>2
    <3> QED
      BY <1>1, <3>2, <3>3, <3>4
  <2>2. CASE saved'[k] # saved[k]
    <3>1. PICK c \in Call : pc[c] \in InSession /\ WrittenBy(c, k)
      BY <2>2, Written
    <3>2. UNCHANGED <<paying, settled>> /\ \A d \in paying : arg'[d] = arg[d]
      BY <1>1, <1>2, <1>4, <2>2 DEF PaymentSettles
    <3>3. CASE c = k
      <4>1. \A d \in paying : arg[d] # k
        BY <3>1, <3>3 DEF FreshInv, Past, InSession
      <4>2. saved'[k].state \notin {"authorised", "refused"}
        <5>1. Unsent.state = "creating"
          BY DEF Unsent
        <5>2. pc[k] = "ordered" => mine[k].state = "creating"
          BY <3>3 DEF CopyInv, HasCopy
        <5>3. pc[k] = "settle" => mine[k].state \in {"unknown", "ready", "amount_changed"}
          BY <3>3 DEF CopyInv, HasCopy, Checkout
        <5>4. k \notin PayCall /\ arg[k] # k
          BY <3>1, <3>3, CheckoutAssumption DEF RoleInv, Checkout, Call, InSession
        <5> QED
          BY <3>1, <3>3, <5>1, <5>2, <5>3, <5>4 DEF WrittenBy
      <4> QED
        BY <3>2, <4>1, <4>2
    <3>4. CASE c # k
      <4>1. CASE c \in PayCall /\ arg[c] = k /\ pc[c] = "settle" /\ saved'[k] = mine[c]
        <5>1. /\ mine[c].state \in Result
              /\ mine[c].state \in {"authorised", "refused"} => settled[k] = mine[c].state
          BY <4>1 DEF CopyInv, HasCopy
        <5>2. \A r \in Result : r \notin Untouched
          BY DEF Result, Untouched
        <5> QED
          BY <3>2, <4>1, <5>1, <5>2
      <4>2. CASE \/ saved'[k].state = "submitting"
                 \/ settled[k] = "authorised" /\ saved'[k].state = "authorised"
        BY <3>2, <4>2 DEF Untouched
      <4>3. \/ c \in PayCall /\ arg[c] = k /\ pc[c] = "settle" /\ saved'[k] = mine[c]
            \/ saved'[k].state = "submitting"
            \/ settled[k] = "authorised" /\ saved'[k].state = "authorised"
        BY <3>1, <3>4 DEF WrittenBy
      <4> QED
        BY <4>1, <4>2, <4>3
    <3> QED
      BY <3>3, <3>4
  <2> QED
    BY <2>1, <2>2
<1>8. OnePaymentPerCheckout'
  BY <1>1, <1>2, <1>4 DEF OnePaymentPerCheckout, PayInv, PaymentSettles
<1> QED
  BY <1>5, <1>6, <1>7, <1>8

\* The tokens: the saved one is the newest of its account.
LEMMA TokenStep ==
    ASSUME IInv, [Next]_vars
    PROVE  TokenInv' /\ SpentStaysSpent'
<1> USE DEF IInv, Goto, disk, locks, world, tokens, SpentStaysSpent
<1>1. ASSUME UNCHANGED <<session, consumed, spent, reoffered>>,
             \A c \in Call : pc'[c] = "renewed" => pc[c] = "renewed"
      PROVE  TokenInv' /\ SpentStaysSpent'
  BY <1>1 DEF TokenInv
<1>2. CASE Around
  <2>1. CASE ChangeSession
    <3>1. UNCHANGED <<pc, consumed, spent, reoffered>> /\ \A c \in Call : pc[c] \notin InSession
      BY <2>1 DEF ChangeSession, Free, HoldInv, InSession
    <3>2. CASE session' = None
      BY <3>1, <3>2 DEF TokenInv, InSession
    <3>3. CASE session # None /\ session' = [session EXCEPT !.place = "store"]
      <4>1. session'.token = session.token
        BY <3>3 DEF TypeOK, Session
      <4> QED
        BY <3>1, <3>3, <4>1 DEF TokenInv, InSession
    <3>4. ASSUME NEW u \in Account, \A n \in 0..MaxRotation : [user |-> u, n |-> n] \notin consumed,
                 session' = [token |-> [user |-> u, n |-> 0], place |-> "store"]
          PROVE  TokenInv' /\ SpentStaysSpent'
      <4>1. session'.token = [user |-> u, n |-> 0] /\ session'.token.user = u /\ session'.token.n = 0
        BY <3>4
      <4>2. \A t \in consumed : t.user # u
        BY <3>4 DEF TypeOK, Token
      <4>3. session'.token \notin spent
        BY <4>1, <4>2 DEF TokenInv
      <4> QED
        BY <3>1, <4>1, <4>2, <4>3, CheckoutAssumption DEF TokenInv, InSession
    <3> QED
      BY <2>1, <3>2, <3>3, <3>4 DEF ChangeSession
  <2>2. CASE ~ChangeSession
    BY <1>1, <1>2, <2>2 DEF Around, PaymentSettles, vars
  <2> QED
    BY <2>1, <2>2
<1>3. ASSUME NEW c \in Call, Comes(c)
      PROVE  TokenInv' /\ SpentStaysSpent'
  BY <1>1, <1>3 DEF Comes, Begin, OpenSession, OpenFails, Stop, Leave, Crash, TypeOK
<1>4. ASSUME NEW c \in Call, Renews(c)
      PROVE  TokenInv' /\ SpentStaysSpent'
  <2>1. session # None /\ session \in Session /\ session.token \in Token /\ session.token \notin spent
        /\ \A d \in Call : pc[d] \in InSession => d = c
    <3>1. pc[c] \in InSession
      BY <1>4 DEF Renews, Renew, RenewFails, SaveSession, SaveSessionFails, InSession
    <3> QED
      BY <3>1, Alone DEF HoldInv, TokenInv, TypeOK, Session
  <2>2. CASE Renew(c)
    <3>1. session.token \notin consumed /\ consumed' = consumed \cup {session.token}
          /\ Cardinality(consumed) < MaxRotation /\ UNCHANGED <<session, spent, reoffered>>
      BY <2>1, <2>2 DEF Renew
    <3>2. IsFiniteSet(consumed') /\ Cardinality(consumed') <= MaxRotation
      <4>1. IsFiniteSet(consumed) /\ Cardinality(consumed) \in Nat
        BY FS_CardinalityType DEF TokenInv
      <4>2. IsFiniteSet(consumed') /\ Cardinality(consumed') = Cardinality(consumed) + 1
        BY <3>1, <4>1, FS_AddElement
      <4> QED
        BY <3>1, <4>1, <4>2, CheckoutAssumption
    <3>3. session.token.n <= session.token.n
      BY <2>1 DEF Token
    <3>4. \A d \in Call : pc'[d] = "renewed" => session.token \in consumed'
      BY <3>1
    <3> QED
      BY <3>1, <3>2, <3>3, <3>4 DEF TokenInv
  <2>3. CASE RenewFails(c)
    BY <1>1, <2>1, <2>3 DEF RenewFails, TypeOK
  <2>4. CASE SaveSession(c)
    <3>1. /\ session.token \in consumed /\ session' = [session EXCEPT !.token = Successor(@)]
          /\ spent' \subseteq spent \cup {session.token} /\ UNCHANGED <<consumed, reoffered>>
          /\ \A d \in Call : pc'[d] # "renewed"
      BY <2>1, <2>4 DEF SaveSession, TokenInv, TypeOK, InSession
    <3> DEFINE u == session.token.user
               n == session.token.n
    <3>2. n \in Nat /\ session.token = [user |-> u, n |-> n]
      BY <2>1, CheckoutAssumption DEF Token
    <3>3. session'.token.user = u /\ session'.token.n = n + 1
      BY <2>1, <3>1 DEF Successor, Session, Token
    <3>4. \A t \in consumed : t.user = u => t.n <= n
      BY <2>1 DEF TokenInv
    <3>5. session'.token \notin spent'
      BY <3>1, <3>2, <3>3, <3>4 DEF TokenInv
    <3>6. \A t \in consumed : t.user = u => t.n <= n + 1
      BY <3>2, <3>4 DEF TypeOK, Token
    <3>7. \A m \in 0..MaxRotation : m < n + 1 => [user |-> u, n |-> m] \in consumed
      <4> SUFFICES ASSUME NEW m \in 0..MaxRotation, m < n + 1
                   PROVE  [user |-> u, n |-> m] \in consumed
        OBVIOUS
      <4>1. m < n \/ m = n
        BY <3>2, CheckoutAssumption
      <4> QED
        BY <2>1, <3>1, <3>2, <4>1 DEF TokenInv
    <3> HIDE DEF u, n
    <3> QED
      BY <3>1, <3>3, <3>5, <3>6, <3>7 DEF TokenInv
  <2>5. CASE SaveSessionFails(c)
    <3>1. /\ session.token \in consumed /\ UNCHANGED <<consumed, reoffered>>
          /\ \A d \in Call : pc'[d] # "renewed"
          /\ \/ session' = None /\ spent' = spent \cup {session.token}
             \/ UNCHANGED <<session, spent>>
      BY <2>1, <2>5 DEF SaveSessionFails, TokenInv, TypeOK, InSession
    <3> QED
      BY <3>1 DEF TokenInv
  <2> QED
    BY <1>4, <2>2, <2>3, <2>4, <2>5 DEF Renews
<1>5. ASSUME NEW c \in Call, Orders(c)
      PROVE  TokenInv' /\ SpentStaysSpent'
  BY <1>1, <1>5 DEF Orders, SaveCheckout, BindQuote, CreateFails, SendOrder, SaveOrder, SetUp, TypeOK
<1>6. ASSUME NEW c \in Call, Pays(c)
      PROVE  TokenInv' /\ SpentStaysSpent'
  BY <1>1, <1>6 DEF Pays, Submit, SubmitFails, SendPayment, Settle, Reconcile, TypeOK
<1> QED
  BY <1>2, <1>3, <1>4, <1>5, <1>6, Steps

-----------------------------------------------------------------------------
(* Theorems                                                                *)

\* Every reachable state satisfies the invariant.
THEOREM Inductive == Spec => []IInv
<1>1. IInv /\ [Next]_vars => IInv'
  BY TypeStep, HoldStep, RoleStep, CopyStep, QuoteStep, PayStep, TokenStep DEF IInv
<1> QED
  BY Initially, <1>1, PTL DEF Spec

\* Type correctness.
THEOREM TypeCorrect == Spec => []TypeOK
<1>1. IInv => TypeOK
  BY DEF IInv
<1> QED
  BY <1>1, Inductive, PTL

\* A quote is ordered at most once, by any number of create_checkout calls that
\* crash or fail anywhere, and a checkout paid at most once, by any number of
\* pay_saved_card calls with any of their answers lost.
THEOREM OnceOnly == Spec => []NothingTwice
<1>1. IInv => NothingTwice
  BY DEF IInv, NothingTwice
<1> QED
  BY <1>1, Inductive, PTL

\* What a checkout's file says of its payment is what happened (CheckoutState).
THEOREM TrueStates == Spec => []StateIsTrue
<1>1. IInv => StateIsTrue
  BY DEF IInv
<1> QED
  BY <1>1, Inductive, PTL

\* The session at an order and at a payment is that of the account that owns the
\* quote, whatever logins and logouts come between the calls (authenticated).
THEOREM ForTheOwner == Spec => []ActsForOwner
<1>1. IInv => ActsForOwner
  BY DEF IInv
<1> QED
  BY <1>1, Inductive, PTL

\* Both, for any quotes, accounts, calls and crashes.
THEOREM OwnAndTrue == Spec => []OwnStateOnly
<1>1. StateIsTrue /\ ActsForOwner => OwnStateOnly
  BY DEF OwnStateOnly
<1> QED
  BY <1>1, TrueStates, ForTheOwner, PTL

\* No replaced refresh token is offered again, for any number of rotations,
\* failed writes and logins (save_refreshed).
THEOREM SpentTokens == Spec => []SpentStaysSpent
<1>1. IInv => SpentStaysSpent
  BY DEF IInv
<1> QED
  BY <1>1, Inductive, PTL

=============================================================================
