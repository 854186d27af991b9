---------------------------- MODULE KronanServer ----------------------------
(***************************************************************************)
(* One kronan-mcp process: serving over stdio until it ends                *)
(* (rust/mcp-runtime/src/stdio.rs), and the client operations it runs for  *)
(* the host (rust/kronan-mcp/src/api.rs, server.rs).                       *)
(*                                                                         *)
(* An operation holds the client's read lock from before it starts until   *)
(* it has ended; close takes the write lock, so it waits for them.  The    *)
(* lock is fair: an operation that asks after close did comes after it.    *)
(* Every wait for Krónan ends at once when the client is stopped.          *)
(*                                                                         *)
(* A request travels: Krónan may act on it before, after or without an     *)
(* answer that is read.  The order-attempt record is module OrderAttempts; *)
(* here it is a step before the charge that may be refused and one after.  *)
(***************************************************************************)
EXTENDS Naturals, FiniteSets

CONSTANTS
    Call,   \* tool calls of the host
    User,   \* Krónan accounts, each with its own token and checkout
    owner,  \* whose checkout the approval of a charge names
    None    \* no token

VARIABLES
    serving,   \* serve_stdio: serving, closing, closed, exited
    input,     \* stdin: open, ended
    stdout,    \* stdout: taken, or stuck in a pipe that nobody reads
    stop,      \* Client.stop and Client.cancel
    saved,     \* whose token the store holds
    pc,        \* where each call is
    kind,      \* what its tool does
    loaded,    \* the token a charge's gate read
    sentAs,    \* the token a charge was sent with
    fate,      \* what became of a call's request at Krónan
    answer     \* what a call's operation returned

callVars   == <<pc, kind, loaded, sentAs, fate, answer>>
serverVars == <<serving, input, stdout, stop>>
vars       == <<serverVars, saved, callVars>>

-----------------------------------------------------------------------------
Kind     == {"read", "write", "clear", "change", "charge", "addition"}
Charges  == {"charge", "addition"}
Mutating == Kind \ {"read"}
IsCharge(c) == kind[c] \in Charges

\* A call holds the read lock in these; its blocking thread runs.
Asking  == {"running", "gate", "order", "record", "pay"}
Waiting == {"sent", "body"}
Active  == Asking \cup Waiting \cup {"settle"}
PC      == {"none", "queued", "returned", "delivered"} \cup Active

Answer == {"none", "done", "failed", "unconfirmed"}
Fate   == {"unsent", "travelling", "applied", "rejected"}

Init ==
    /\ serving = "serving" /\ input = "open" /\ stdout = "taken"
    /\ stop = FALSE
    /\ saved \in User
    /\ pc = [c \in Call |-> "none"]
    /\ kind = [c \in Call |-> "read"]
    /\ loaded = [c \in Call |-> None]
    /\ sentAs = [c \in Call |-> None]
    /\ fate = [c \in Call |-> "unsent"]
    /\ answer = [c \in Call |-> "none"]

Running == serving # "exited"
Goto(c, from, to) == Running /\ pc[c] = from /\ pc' = [pc EXCEPT ![c] = to]

\* The operation returns and its guard is dropped.
Return(c, from, reply) ==
    /\ Goto(c, from, "returned")
    /\ answer' = [answer EXCEPT ![c] = reply]

\* A request is over; of a charge, claim_attempt still records the outcome.
Over(c, from, reply) ==
    /\ Goto(c, from, IF IsCharge(c) THEN "settle" ELSE "returned")
    /\ answer' = [answer EXCEPT ![c] = reply]

-----------------------------------------------------------------------------
(* Calls                                                                   *)

\* Kronan::call of a listed tool with valid arguments.
Begin(c) ==
    /\ serving = "serving" /\ input = "open"
    /\ Goto(c, "none", "queued")
    /\ \E k \in Kind : kind' = [kind EXCEPT ![c] = k]
    /\ UNCHANGED <<serverVars, saved, loaded, sentAs, fate, answer>>

\* call_tool: no such tool, or invalid arguments.
Reject(c) ==
    /\ serving = "serving" /\ input = "open"
    /\ Return(c, "none", "failed")
    /\ UNCHANGED <<serverVars, saved, kind, loaded, sentAs, fate>>

\* The read lock is free: close does not wait for the write lock.
LockFree == serving # "closing"

Enter(c) ==
    /\ LockFree
    /\ Goto(c, "queued", "running")
    /\ UNCHANGED <<serverVars, saved, kind, loaded, sentAs, fate, answer>>

\* token: it is gone, or the store cannot be read.  Nothing is sent.
TokenFails(c) ==
    /\ ~IsCharge(c)
    /\ Return(c, "running", "failed")
    /\ UNCHANGED <<serverVars, saved, kind, loaded, sentAs, fate>>

\* How a failure of a request that may have left is told: write_as, charge.
Untold(c) == IF kind[c] = "read" THEN "failed" ELSE "unconfirmed"

\* wait is biased: a stopped client sends nothing.
SendsNothing(c, from) ==
    /\ stop
    /\ Over(c, from, Untold(c))
    /\ UNCHANGED <<serverVars, saved, kind, loaded, sentAs, fate>>

\* send, with the token saved now.
Send(c) ==
    /\ ~IsCharge(c) /\ ~stop
    /\ Goto(c, "running", "sent")
    /\ fate' = [fate EXCEPT ![c] = "travelling"]
    /\ UNCHANGED <<serverVars, saved, kind, loaded, sentAs, answer>>

SendStopped(c) == ~IsCharge(c) /\ SendsNothing(c, "running")

\* A network that fails, a redirect, a 5xx, the deadline, or the client stopped.
RequestFails(c) ==
    /\ Over(c, "sent", Untold(c))
    /\ UNCHANGED <<serverVars, saved, kind, loaded, sentAs, fate>>

\* A status arrives: Krónan has decided.
Decided(c) == fate[c] \in {"applied", "rejected"}

\* A 2xx: only clear_shopping_note reads no body.
Accepted(c) ==
    /\ fate[c] = "applied"
    /\ kind[c] # "clear"
    /\ Goto(c, "sent", "body")
    /\ UNCHANGED <<serverVars, saved, kind, loaded, sentAs, fate, answer>>

Cleared(c) ==
    /\ fate[c] = "applied"
    /\ kind[c] = "clear"
    /\ Return(c, "sent", "done")
    /\ UNCHANGED <<serverVars, saved, kind, loaded, sentAs, fate>>

\* Mutant: a change of an order takes a 4xx for a refusal, as a write does.
Refused_Change(c) ==
    /\ Decided(c)
    /\ kind[c] \in {"write", "clear"} => fate[c] = "rejected"
    /\ Over(c, "sent",
            IF kind[c] \in {"read", "write", "clear", "change"} THEN "failed" ELSE "unconfirmed")
    /\ UNCHANGED <<serverVars, saved, kind, loaded, sentAs, fate>>

\* A 4xx: of a plain write it is a refusal, of a change or a charge it proves
\* nothing ("an error status does not prove it was refused").
Refused(c) ==
    /\ Decided(c)
    /\ kind[c] \in {"write", "clear"} => fate[c] = "rejected"
    /\ Over(c, "sent",
            IF kind[c] \in {"read", "write", "clear"} THEN "failed" ELSE "unconfirmed")
    /\ UNCHANGED <<serverVars, saved, kind, loaded, sentAs, fate>>

\* json, written: the body is read in time and has the documented shape.
BodyRead(c) ==
    /\ ~stop
    /\ Over(c, "body", "done")
    /\ UNCHANGED <<serverVars, saved, kind, loaded, sentAs, fate>>

\* Stopped, too late, too large, unreadable, or of another shape.
BodyFails(c) ==
    /\ Over(c, "body", Untold(c))
    /\ UNCHANGED <<serverVars, saved, kind, loaded, sentAs, fate>>

-----------------------------------------------------------------------------
(* Charges: place, and the steps it hands to claim_attempt                 *)

\* The record is held; the gate reads the token.
GateOpens(c) ==
    /\ IsCharge(c)
    /\ Goto(c, "running", "gate")
    /\ loaded' = [loaded EXCEPT ![c] = saved]
    /\ UNCHANGED <<serverVars, saved, kind, sentAs, fate, answer>>

\* The record is busy, blocks the checkout or cannot be written, the token
\* cannot be read, or what the gate reads is not what was approved.
PlaceRefused(c) ==
    /\ IsCharge(c)
    /\ \E from \in Asking \ {"pay"} : Return(c, from, "failed")
    /\ UNCHANGED <<serverVars, saved, kind, loaded, sentAs, fate>>

\* verify_checkout: the approved one, which only its owner's token reads.
CheckoutVerified(c) ==
    /\ ~stop
    /\ loaded[c] = owner[c]
    /\ Goto(c, "gate", IF kind[c] = "addition" THEN "order" ELSE "record")
    /\ UNCHANGED <<serverVars, saved, kind, loaded, sentAs, fate, answer>>

\* read_active_order_as: the approved order is active.
OrderVerified(c) ==
    /\ ~stop
    /\ Goto(c, "order", "record")
    /\ UNCHANGED <<serverVars, saved, kind, loaded, sentAs, fate, answer>>

\* claim_attempt wrote the entry.
Recorded(c) ==
    /\ Goto(c, "record", "pay")
    /\ UNCHANGED <<serverVars, saved, kind, loaded, sentAs, fate, answer>>

\* Mutant: the charge reads the saved token again.
PaysAs_Saved(c) == saved

\* place: the token that the gate read.
PaysAs(c) == loaded[c]

Pay(c) ==
    /\ ~stop
    /\ Goto(c, "pay", "sent")
    /\ sentAs' = [sentAs EXCEPT ![c] = PaysAs(c)]
    /\ fate' = [fate EXCEPT ![c] = "travelling"]
    /\ UNCHANGED <<serverVars, saved, kind, loaded, answer>>

PayStopped(c) == SendsNothing(c, "pay")

\* claim_attempt writes the outcome; if it cannot, the outcome is unknown.
Settle(c) ==
    /\ \E reply \in {answer[c], "unconfirmed"} : Return(c, "settle", reply)
    /\ UNCHANGED <<serverVars, saved, kind, loaded, sentAs, fate>>

-----------------------------------------------------------------------------
(* Krónan, external                                                        *)

\* What became of a request, whether or not anybody waits for it.
Decide(c) ==
    /\ fate[c] = "travelling"
    /\ \E f \in {"applied", "rejected"} : fate' = [fate EXCEPT ![c] = f]
    /\ UNCHANGED <<serverVars, saved, pc, kind, loaded, sentAs, answer>>

\* kronan-mcp auth set, in another process.
SetToken(t) ==
    /\ serving = "serving" /\ saved # t
    /\ saved' = t
    /\ UNCHANGED <<serverVars, callVars>>

-----------------------------------------------------------------------------
(* The process                                                             *)

\* An answer is written while rmcp serves.
Deliver(c) ==
    /\ serving = "serving" /\ stdout = "taken"
    /\ Goto(c, "returned", "delivered")
    /\ UNCHANGED <<serverVars, saved, kind, loaded, sentAs, fate, answer>>

\* The host no longer reads the pipe.
Stuck ==
    /\ serving = "serving" /\ stdout = "taken"
    /\ stdout' = "stuck"
    /\ UNCHANGED <<serving, input, stop, saved, callVars>>

\* Input::poll_read at the end of stdin: stdin_ended stops the client, while
\* rmcp still serves.
InputEnds ==
    /\ serving = "serving" /\ input = "open"
    /\ input' = "ended"
    /\ stop' = TRUE
    /\ UNCHANGED <<serving, stdout, saved, callVars>>

\* serve_stdio leaves its select: close stops the client and asks for the write lock.
CloseBegins ==
    /\ serving = "serving"
    /\ serving' = "closing"
    /\ stop' = TRUE
    /\ UNCHANGED <<input, stdout, saved, callVars>>

\* SIGINT, SIGTERM, a write that fails, a line over MAX_LINE.
Notified == CloseBegins

\* No descriptor 1, or the host and rmcp do not come to terms.
NeverServes ==
    /\ ~stop
    /\ \A c \in Call : pc[c] = "none"
    /\ CloseBegins

\* After stdin's end rmcp waits for the calls in flight, at most 5 s, and
\* closes its transport, for which a write that is under way must end.
Drained == input = "ended" /\ stdout = "taken" /\ CloseBegins

\* Mutant: no bound on serving after stdin's end.
EndedServing_Unbounded == FALSE

\* ENDED_SERVING has passed since stdin ended.
EndedServing == input = "ended"

StopsLate == EndedServing /\ CloseBegins

Idle == \A c \in Call : pc[c] \notin Active

\* close has the write lock, and drops it.
Close ==
    /\ serving = "closing"
    /\ Idle
    /\ serving' = "closed"
    /\ UNCHANGED <<input, stdout, stop, saved, callVars>>

Exit ==
    /\ serving = "closed"
    /\ serving' = "exited"
    /\ UNCHANGED <<input, stdout, stop, saved, callVars>>

-----------------------------------------------------------------------------
Operation(c) ==
    \/ Enter(c) \/ TokenFails(c) \/ Send(c) \/ SendStopped(c)
    \/ RequestFails(c) \/ Accepted(c) \/ Cleared(c) \/ Refused(c)
    \/ BodyRead(c) \/ BodyFails(c)
    \/ GateOpens(c) \/ PlaceRefused(c) \/ CheckoutVerified(c) \/ OrderVerified(c)
    \/ Recorded(c) \/ Pay(c) \/ PayStopped(c) \/ Settle(c)

Process == Drained \/ StopsLate \/ Close \/ Exit

Next ==
    \/ \E c \in Call : Begin(c) \/ Reject(c) \/ Operation(c) \/ Deliver(c) \/ Decide(c)
    \/ \E t \in User : SetToken(t)
    \/ NeverServes \/ Stuck \/ InputEnds \/ Notified \/ Process

Spec == Init /\ [][Next]_vars

\* Every wait of an operation has a deadline, and the process is scheduled.
Fairness ==
    /\ \A c \in Call : WF_vars(Operation(c))
    /\ WF_vars(Process)

FairSpec == Spec /\ Fairness

-----------------------------------------------------------------------------
(* Properties                                                              *)

TypeOK ==
    /\ serving \in {"serving", "closing", "closed", "exited"}
    /\ input \in {"open", "ended"} /\ stdout \in {"taken", "stuck"}
    /\ stop \in BOOLEAN
    /\ saved \in User
    /\ pc \in [Call -> PC]
    /\ kind \in [Call -> Kind]
    /\ loaded \in [Call -> User \cup {None}]
    /\ sentAs \in [Call -> User \cup {None}]
    /\ fate \in [Call -> Fate]
    /\ answer \in [Call -> Answer]

\* A call that changes something and fails with a plain message was not and will
\* not be carried out; one that says it was done was: also when the host goes,
\* the client stops or the answer is lost between (api.rs, write_as and place).
AnswersAreTrue ==
    \A c \in Call : pc[c] \in {"returned", "delivered"} /\ kind[c] \in Mutating =>
        /\ answer[c] = "failed" => fate[c] \in {"unsent", "rejected"}
        /\ answer[c] = "done" => fate[c] = "applied"

\* A charge is sent only for the user whose checkout was approved and verified,
\* although auth set may replace the saved token between (place).
ChargedAsVerified ==
    \A c \in Call : sentAs[c] # None => sentAs[c] = owner[c]

\* Once close has returned, no operation sends, waits or records an outcome,
\* late ones that queued behind close included (Client::close).
NothingAfterClose ==
    serving \in {"closed", "exited"} =>
        \A c \in Call : pc[c] \notin Waiting \cup {"record", "pay", "settle"}

\* Once stdin ends, the connection breaks or a signal comes, the process closes,
\* also when an answer is stuck in stdout (serve_stdio).
ServerStops == input = "ended" \/ serving # "serving" ~> serving = "exited"

=============================================================================
