--------------------------- MODULE DominosCheckout ---------------------------
(***************************************************************************)
(* Ordering and paying at Domino's (rust/dominos-mcp/src/money.rs), with   *)
(* the session that the requests use (client.rs, store.rs).                *)
(*                                                                         *)
(* A quote and a checkout are private files.  A tool call locks the file   *)
(* of its argument and, inside that lock, the session store, for all of    *)
(* its requests; other processes may run other calls, and any may die.     *)
(* Of the shop only whether it took an order and what became of a payment  *)
(* is kept.  Carts, totals and cards decide no more than whether a call    *)
(* goes on.                                                                *)
(***************************************************************************)
EXTENDS Naturals, FiniteSets

CONSTANTS
    Quote,        \* saved quotes
    CreateCall,   \* calls of create_checkout; a new checkout bears its call's name
    PayCall,      \* calls of pay_saved_card
    GetCall,      \* calls of get_checkout
    Account,      \* user names at the shop
    None,         \* no checkout, no session, a free lock, no argument
    MaxRotation   \* bound: refresh tokens the shop replaces

Call     == CreateCall \cup PayCall \cup GetCall
Checkout == CreateCall

ASSUME CheckoutAssumption ==
    /\ MaxRotation \in Nat
    /\ None \notin Call \cup Quote \cup Account
    /\ Call \cap Quote = {}
    /\ CreateCall \cap PayCall = {} /\ CreateCall \cap GetCall = {}
    /\ PayCall \cap GetCall = {}

VARIABLES
    owner,      \* the username of each quote and of its checkout
    bound,      \* the checkoutId of each saved quote
    saved,      \* the checkout records
    session,    \* what the session store holds
    recordLock, \* the owner of each record's lock
    storeLock,  \* the owner of the session's lock
    pc,         \* where each call is
    arg,        \* the quote or checkout a call names
    mine,       \* a call's copy of its checkout
    ordered,    \* history: calls whose order request left
    paying,     \* history: calls whose payment request left
    settled,    \* the shop's and the card processor's word on each payment
    consumed,   \* the shop: tokens it has replaced by the next
    spent,      \* history: tokens whose replacement was recorded
    reoffered   \* history: spent tokens sent again

disk    == <<bound, saved, session>>
locks   == <<recordLock, storeLock>>
world   == <<ordered, paying, settled>>
tokens  == <<consumed, spent, reoffered>>
vars    == <<owner, disk, locks, pc, arg, mine, world, tokens>>

-----------------------------------------------------------------------------
Untouched == {"creating", "ready", "amount_changed"}
Result    == {"authorised", "refused", "requires_action", "pending", "unknown"}
State     == Untouched \cup {"submitting"} \cup Result
Record    == [state: State, guid: BOOLEAN]
Unsent    == [state |-> "creating", guid |-> FALSE]

Token   == [user: Account, n: 0..MaxRotation]
\* place: the encrypted store or the plaintext file of an older version.
Session == [token: Token, place: {"store", "file"}]

ASSUME NoneIsNothing == None \notin Session \cup Record

\* At these the session's lock is held.
InSession == {"open", "renewed", "bind", "order", "ordered", "setup",
              "pay", "settle"}
PC == InSession \cup {"idle", "locked", "leave", "done", "crashed"}

Free(holder) == holder \in Call => pc[holder] = "crashed"

Init ==
    /\ owner \in [Quote -> Account]
    /\ bound = [q \in Quote |-> None]
    /\ saved = [k \in Checkout |-> None]
    /\ session \in {[token |-> [user |-> u, n |-> 0], place |-> place] :
                        u \in Account, place \in {"store", "file"}}
    /\ recordLock = [r \in Quote \cup Checkout |-> None]
    /\ storeLock = None
    /\ pc = [c \in Call |-> "idle"]
    /\ arg = [c \in Call |-> None]
    /\ mine = [c \in Call |-> None]
    /\ ordered = {} /\ paying = {}
    /\ settled = [k \in Checkout |-> "none"]
    /\ consumed = {} /\ spent = {} /\ reoffered = {}

Goto(c, from, to) == pc[c] = from /\ pc' = [pc EXCEPT ![c] = to]

\* write_private_file: whole, or not at all and with an error, or with an error
\* after the rename.
Writes(f, r, value, f2) == f2 = [f EXCEPT ![r] = value]
MayWrite(f, r, value, f2) == f2 = f \/ Writes(f, r, value, f2)

-----------------------------------------------------------------------------
(* record_locked, authenticated                                            *)

\* The record exists and its lock is free: record_locked, read_record.
Begin(c) ==
    /\ Goto(c, "idle", "locked")
    /\ \E r \in (IF c \in CreateCall THEN Quote ELSE {k \in Checkout : saved[k] # None}) :
        /\ Free(recordLock[r])
        /\ recordLock' = [recordLock EXCEPT ![r] = c]
        /\ arg' = [arg EXCEPT ![c] = r]
    /\ UNCHANGED <<owner, disk, storeLock, mine, world, tokens>>

\* with_session holds the lock around the work.
OpenSession(c) ==
    /\ Goto(c, "locked", "open")
    /\ Free(storeLock) /\ session # None
    /\ storeLock' = c
    /\ UNCHANGED <<owner, disk, recordLock, arg, mine, world, tokens>>

\* No session, no lock, or an error of the store.
OpenFails(c) ==
    /\ Goto(c, "locked", "leave")
    /\ UNCHANGED <<owner, disk, locks, arg, mine, world, tokens>>

\* refresh: an expired token, or a 401 in get_checkout, which then works again.
Renew(c) ==
    /\ Goto(c, "open", "renewed")
    /\ session.token \notin consumed /\ Cardinality(consumed) < MaxRotation
    /\ consumed' = consumed \cup {session.token}
    /\ reoffered' = reoffered \cup ({session.token} \cap spent)
    /\ UNCHANGED <<owner, disk, locks, arg, mine, world, spent>>

\* The token is refused, the answer is lost or names another account.
RenewFails(c) ==
    /\ pc[c] \in {"open", "renewed"}
    /\ pc' = [pc EXCEPT ![c] = "leave"]
    /\ reoffered' = reoffered \cup
         (IF pc[c] = "open" THEN {session.token} \cap spent ELSE {})
    /\ UNCHANGED <<owner, disk, locks, arg, mine, world, consumed, spent>>

Successor(token) == [token EXCEPT !.n = @ + 1]

\* save_refreshed, save_legacy: before the new token is used.
SaveSession(c) ==
    /\ Goto(c, "renewed", "open")
    /\ session' = [session EXCEPT !.token = Successor(@)]
    /\ spent' = IF session.place = "store" THEN spent \cup {session.token} ELSE spent
    /\ UNCHANGED <<owner, bound, saved, locks, arg, mine, world, consumed, reoffered>>

\* Mutant: a store that could not take the new token keeps the old one.
SaveSessionFails_Keeps(c) ==
    /\ Goto(c, "renewed", "leave")
    /\ spent' = IF session.place = "store" THEN spent \cup {session.token} ELSE spent
    /\ UNCHANGED <<owner, disk, locks, arg, mine, world, consumed, reoffered>>

\* The store cannot take it: the record is removed.  The plaintext file stays.
SaveSessionFails(c) ==
    /\ Goto(c, "renewed", "leave")
    /\ IF session.place = "store"
       THEN session' = None /\ spent' = spent \cup {session.token}
       ELSE UNCHANGED <<session, spent>>
    /\ UNCHANGED <<owner, bound, saved, locks, arg, mine, world, consumed, reoffered>>

-----------------------------------------------------------------------------
(* create_checkout                                                         *)

MayCreate(c) == owner[arg[c]] = session.token.user

\* Another account, a changed total, an expired quote, a closed store, an item
\* that is gone; or the checkout that the quote already has.
Stop(c) ==
    /\ Goto(c, "open", "leave")
    /\ UNCHANGED <<owner, disk, locks, arg, mine, world, tokens>>

\* The checkout on disk, before the quote names it.
SaveCheckout(c) ==
    /\ c \in CreateCall
    /\ Goto(c, "open", "bind")
    /\ MayCreate(c) /\ bound[arg[c]] = None
    /\ Writes(saved, c, Unsent, saved')
    /\ mine' = [mine EXCEPT ![c] = Unsent]
    /\ UNCHANGED <<owner, bound, session, locks, arg, world, tokens>>

\* The quote on disk, before the order request.
BindQuote(c) ==
    /\ Goto(c, "bind", "order")
    /\ Writes(bound, arg[c], c, bound')
    /\ UNCHANGED <<owner, saved, session, locks, arg, mine, world, tokens>>

\* One of these two writes fails: nothing is ordered.
CreateFails(c) ==
    /\ c \in CreateCall
    /\ \/ /\ Goto(c, "open", "leave")
          /\ MayCreate(c) /\ bound[arg[c]] = None
          /\ MayWrite(saved, c, Unsent, saved')
          /\ UNCHANGED bound
       \/ /\ Goto(c, "bind", "leave")
          /\ MayWrite(bound, arg[c], c, bound')
          /\ UNCHANGED saved
    /\ UNCHANGED <<owner, session, locks, arg, mine, world, tokens>>

Become(c, state) == mine' = [mine EXCEPT ![c].state = state]

\* The shop's answer: an order, or none that can be used.
SendOrder(c) ==
    /\ ordered' = ordered \cup {c}
    /\ \/ /\ Goto(c, "order", "ordered")
          /\ mine' = [mine EXCEPT ![c].guid = TRUE]
       \/ /\ Goto(c, "order", "settle")
          /\ Become(c, "unknown")
    /\ UNCHANGED <<owner, disk, locks, arg, paying, settled, tokens>>

\* The order's ids on disk; an error makes the checkout unknown.
SaveOrder(c) ==
    /\ \/ /\ Goto(c, "ordered", "setup")
          /\ Writes(saved, c, mine[c], saved')
          /\ UNCHANGED mine
       \/ /\ Goto(c, "ordered", "settle")
          /\ MayWrite(saved, c, mine[c], saved')
          /\ Become(c, "unknown")
    /\ UNCHANGED <<owner, bound, session, locks, arg, world, tokens>>

\* The payment session; without a valid answer the checkout is unknown.
SetUp(c) ==
    /\ Goto(c, "setup", "settle")
    /\ \E state \in {"ready", "amount_changed", "unknown"} : Become(c, state)
    /\ UNCHANGED <<owner, disk, locks, arg, world, tokens>>

-----------------------------------------------------------------------------
(* pay_saved_card, get_checkout                                            *)

\* Only checkouts of bound quotes are ever ready, and theirs is the owner.
OwnerOf(k) == {owner[q] : q \in {q \in Quote : bound[q] = k}}

MayPay(c) ==
    /\ session.token.user \in OwnerOf(arg[c])
    /\ saved[arg[c]].state = "ready"

\* Mutant: the payment is sent from the state the file still has.
Submit_InMemory(c) ==
    /\ c \in PayCall
    /\ Goto(c, "open", "pay")
    /\ MayPay(c)
    /\ mine' = [mine EXCEPT ![c] = saved[arg[c]]]
    /\ UNCHANGED <<owner, disk, locks, arg, world, tokens>>

\* "submitting" on disk, before the payment request.
Submit(c) ==
    /\ c \in PayCall
    /\ Goto(c, "open", "pay")
    /\ MayPay(c)
    /\ LET k == arg[c] submitted == [saved[k] EXCEPT !.state = "submitting"] IN
        /\ Writes(saved, k, submitted, saved')
        /\ mine' = [mine EXCEPT ![c] = submitted]
    /\ UNCHANGED <<owner, bound, session, locks, arg, world, tokens>>

SubmitFails(c) ==
    /\ c \in PayCall
    /\ Goto(c, "open", "leave")
    /\ MayPay(c)
    /\ MayWrite(saved, arg[c], [saved[arg[c]] EXCEPT !.state = "submitting"], saved')
    /\ UNCHANGED <<owner, bound, session, locks, arg, mine, world, tokens>>

\* What the result code says; a lost answer says nothing.
Answered(outcome) == outcome

\* The payment is authorised, refused, needs another step or is still decided;
\* the answer may be lost, and adyen may refuse an incomplete session unsent.
SendPayment(c) ==
    /\ Goto(c, "pay", "settle")
    /\ \/ /\ paying' = paying \cup {c}
          /\ \E outcome \in {"authorised", "refused", "requires_action", "pending"} :
              /\ settled' = [settled EXCEPT ![arg[c]] =
                    IF outcome \in {"authorised", "refused"} THEN outcome ELSE "open"]
              /\ \E state \in {Answered(outcome), "unknown"} : Become(c, state)
       \/ Become(c, "unknown") /\ UNCHANGED <<paying, settled>>
    /\ UNCHANGED <<owner, disk, locks, arg, ordered, tokens>>

\* The last write of create_checkout and of pay_saved_card.
Settle(c) ==
    /\ Goto(c, "settle", "leave")
    /\ MayWrite(saved, IF c \in CreateCall THEN c ELSE arg[c], mine[c], saved')
    /\ UNCHANGED <<owner, bound, session, locks, arg, mine, world, tokens>>

\* get_checkout: the shop says that an order in doubt is paid.
Reconcile(c) ==
    /\ c \in GetCall
    /\ Goto(c, "open", "leave")
    /\ session.token.user \in OwnerOf(arg[c])
    /\ saved[arg[c]].guid /\ saved[arg[c]].state \notin {"ready", "amount_changed"}
    /\ settled[arg[c]] = "authorised"
    /\ MayWrite(saved, arg[c], [saved[arg[c]] EXCEPT !.state = "authorised"], saved')
    /\ UNCHANGED <<owner, bound, session, locks, arg, mine, world, tokens>>

\* The end of both holds.
Leave(c) ==
    /\ Goto(c, "leave", "done")
    /\ storeLock' = IF storeLock = c THEN None ELSE storeLock
    /\ recordLock' = [recordLock EXCEPT ![arg[c]] = None]
    /\ mine' = [mine EXCEPT ![c] = None]
    /\ UNCHANGED <<owner, disk, arg, world, tokens>>

-----------------------------------------------------------------------------
(* What else happens                                                       *)

Crash(c) ==
    /\ pc[c] \notin {"idle", "done", "crashed"}
    /\ pc' = [pc EXCEPT ![c] = "crashed"]
    /\ mine' = [mine EXCEPT ![c] = None]
    /\ UNCHANGED <<owner, disk, locks, arg, world, tokens>>

\* A payment that was still open.
PaymentSettles(k) ==
    /\ settled[k] = "open"
    /\ \E outcome \in {"authorised", "refused"} : settled' = [settled EXCEPT ![k] = outcome]
    /\ UNCHANGED <<owner, disk, locks, pc, arg, mine, ordered, paying, tokens>>

\* Mutant: a login takes the lock of the plaintext file only.
ChangeSession_Unlocked ==
    /\ \E u \in Account :
        /\ \A n \in 0..MaxRotation : [user |-> u, n |-> n] \notin consumed
        /\ session' = [token |-> [user |-> u, n |-> 0], place |-> "store"]
    /\ UNCHANGED <<owner, bound, saved, locks, pc, arg, mine, world, tokens>>

\* save_login, with fresh tokens; logout; migrate.  Each under the session's lock.
ChangeSession ==
    /\ Free(storeLock)
    /\ \/ /\ \E u \in Account :
              /\ \A n \in 0..MaxRotation : [user |-> u, n |-> n] \notin consumed
              /\ session' = [token |-> [user |-> u, n |-> 0], place |-> "store"]
       \/ session' = None
       \/ session # None /\ session' = [session EXCEPT !.place = "store"]
    /\ UNCHANGED <<owner, bound, saved, locks, pc, arg, mine, world, tokens>>

Next ==
    \/ \E c \in Call :
        \/ Begin(c) \/ OpenSession(c) \/ OpenFails(c) \/ Renew(c) \/ RenewFails(c)
        \/ SaveSession(c) \/ SaveSessionFails(c) \/ Stop(c)
        \/ SaveCheckout(c) \/ BindQuote(c) \/ CreateFails(c)
        \/ SendOrder(c) \/ SaveOrder(c) \/ SetUp(c)
        \/ Submit(c) \/ SubmitFails(c) \/ SendPayment(c) \/ Settle(c)
        \/ Reconcile(c) \/ Leave(c) \/ Crash(c)
    \/ \E k \in Checkout : PaymentSettles(k)
    \/ ChangeSession

Spec == Init /\ [][Next]_vars

-----------------------------------------------------------------------------
(* Properties                                                              *)

\* The types of the quote, checkout and session records (shapes.rs, store.rs).
TypeOK ==
    /\ owner \in [Quote -> Account]
    /\ bound \in [Quote -> Checkout \cup {None}]
    /\ saved \in [Checkout -> Record \cup {None}]
    /\ session \in Session \cup {None}
    /\ recordLock \in [Quote \cup Checkout -> Call \cup {None}]
    /\ storeLock \in Call \cup {None}
    /\ pc \in [Call -> PC]
    /\ arg \in [Call -> Quote \cup Checkout \cup {None}]
    /\ mine \in [Call -> Record \cup {None}]
    /\ ordered \subseteq CreateCall /\ paying \subseteq PayCall
    /\ settled \in [Checkout -> {"none", "open", "authorised", "refused"}]
    /\ consumed \subseteq Token /\ spent \subseteq Token /\ reoffered \subseteq Token

\* Whatever fails or crashes between the checkout, the quote that names it and
\* the order request, a quote is ordered at most once (create_checkout).
OneOrderPerQuote ==
    \A c, d \in ordered : arg[c] = arg[d] => c = d

\* However often and from how many hosts a checkout is paid, and whatever became
\* of earlier answers, at most one payment request leaves (pay_saved_card).
OnePaymentPerCheckout ==
    \A c, d \in paying : arg[c] = arg[d] => c = d

\* Nothing is ordered or paid twice.
NothingTwice == OneOrderPerQuote /\ OnePaymentPerCheckout

\* The saved state never says less than what happened: authorised only if paid,
\* refused only if refused, and one that a user may still pay or abandon only if
\* no payment was sent ("No payment was sent" in money.rs).
StateIsTrue ==
    \A k \in Checkout : saved[k] # None =>
        /\ saved[k].state = "authorised" => settled[k] = "authorised"
        /\ saved[k].state = "refused" => settled[k] = "refused"
        /\ saved[k].state \in Untouched => \A c \in paying : arg[c] # k

\* While a call may order or pay, the session on disk is that of the account
\* that got the quote: no login or logout slips in after the account was compared
\* (money.rs compares usernames, store.rs with_session holds the lock meanwhile).
ActsForOwner ==
    \A c \in Call :
        /\ pc[c] = "order" => session # None /\ session.token.user = owner[arg[c]]
        /\ pc[c] = "pay" => session # None /\ session.token.user \in OwnerOf(arg[c])

\* A refresh token that the shop replaced, with the replacement saved or the
\* record removed, is never sent from the store again (save_refreshed).
SpentStaysSpent == reoffered = {}

\* A checkout's file tells what happened, and only its owner orders and pays.
OwnStateOnly == StateIsTrue /\ ActsForOwner
===============================================================================
