--------------------------- MODULE OrderAttempts ---------------------------
(***************************************************************************)
(* The record of charge-bearing order calls of kronan-mcp                  *)
(* (rust/kronan-mcp/src/attempts.rs), which is to make one approval send   *)
(* at most one request, across several hosts and crashes.                  *)
(*                                                                         *)
(* A call holds the record's lock while it checks the record, verifies the *)
(* live checkout (the gate), writes a submitting entry, sends the request, *)
(* and writes the outcome.  Every read and every write of the record file  *)
(* is an action of its own.  The lock is the one module FileLock models;   *)
(* SpecTakenOver adds the case that its directory is removed under a live  *)
(* holder, so that another call works at the same time.                    *)
(*                                                                         *)
(* A call is one invocation of one tool for one approved checkout; a retry *)
(* of an agent is another call.  The id of an entry is its call.           *)
(***************************************************************************)
EXTENDS Naturals, FiniteSets

CONSTANTS
    Call,       \* invocations of money tools, on any host
    Tool,       \* MONEY_TOOLS
    Consuming,  \* CONSUMING_TOOLS
    tool,       \* the tool of each call
    Token,      \* checkout tokens
    token,      \* the checkout token each call's approval names
    Contents,   \* fingerprints of checkout contents: lines and total
    Unread,     \* the gate has not read the checkout
    Cli,        \* kronan-mcp orders clear-attempts
    Nobody      \* the lock is free

CallAssumption ==
    /\ Consuming \subseteq Tool
    /\ tool \in [Call -> Tool]
    /\ token \in [Call -> Token]
    /\ Unread \notin Contents
    /\ Cli \notin Call /\ Nobody \notin Call /\ Cli # Nobody

VARIABLES
    record,     \* the entries of the attempts file; a missing file has none
    old,        \* calls whose accepted entry is older than the retention
    holder,     \* whose owner file is in the lock directory
    pc,         \* where each call is
    copy,       \* the content of the record a call last read and works from
    print,      \* the fingerprint a call's gate verified
    outcome,    \* what a call's request came back with
    answer,     \* what a call returns
    cli,        \* where the command line is
    shown,      \* the entries it showed to the user
    guarded,    \* history: sent calls that no clear and no retention dropped
    before      \* history: the guarded calls when a call sent its request

callVars == <<pc, copy, print, outcome, answer>>
cliVars  == <<cli, shown>>
history  == <<guarded, before>>
vars     == <<record, old, holder, callVars, cliVars, history>>

-----------------------------------------------------------------------------
States == {"submitting", "accepted", "unknown"}
Entry  == [id: Call, print: Contents, state: States]

\* From taking the lock to giving it back.
Before == {"reading", "gate", "compare", "claim", "confirm", "send"}
After  == {"sent", "reread", "settle"}
Inside == Before \cup After \cup {"leaving"}
PC     == {"idle", "returned", "crashed"} \cup Inside

Ids(entries) == {e.id : e \in entries}

Init ==
    /\ record = {}
    /\ old = {}
    /\ holder = Nobody
    /\ pc = [c \in Call |-> "idle"]
    /\ copy = [c \in Call |-> {}]
    /\ print = [c \in Call |-> Unread]
    /\ outcome = [c \in Call |-> "none"]
    /\ answer = [c \in Call |-> "none"]
    /\ cli = "idle"
    /\ shown = {}
    /\ guarded = {}
    /\ before = [c \in Call |-> {}]

Goto(c, from, to) == pc[c] = from /\ pc' = [pc EXCEPT ![c] = to]

\* The call gives up; its reply is returned once the lock is released.
Leave(c, from, reply) ==
    /\ pc[c] \in from
    /\ pc' = [pc EXCEPT ![c] = "leaving"]
    /\ answer' = [answer EXCEPT ![c] = reply]
    /\ copy' = [copy EXCEPT ![c] = {}]
    /\ UNCHANGED <<record, old, holder, print, outcome, cliVars, history>>

\* The lock is free, or its owner's process is dead.
LockFree == holder = Nobody \/ (holder \in Call /\ pc[holder] = "crashed")

-----------------------------------------------------------------------------
(* claim_attempt, up to the request                                        *)

Acquire(c) ==
    /\ Goto(c, "idle", "reading")
    /\ LockFree
    /\ holder' = c
    /\ UNCHANGED <<record, old, copy, print, outcome, answer, cliVars, history>>

\* BUSY, a cancellation, or a lock that cannot be taken: ATTEMPTS_BUSY.
AcquireFails(c) ==
    /\ Goto(c, "idle", "returned")
    /\ answer' = [answer EXCEPT ![c] = "refused"]
    /\ UNCHANGED <<record, old, holder, copy, print, outcome, cliVars, history>>

\* blocker: an entry of the same checkout that is not known to be accepted.
Unresolved(entries, c) ==
    \E e \in entries : token[e.id] = token[c] /\ e.state # "accepted"

\* Mutant: only the same tool is refused for the same contents.
Consumed_SameTool(entries, c) ==
    \E e \in entries :
        token[e.id] = token[c] /\ e.print = print[c] /\ tool[e.id] = tool[c]

\* blocker: an accepted entry for the same contents, of the same tool or of one
\* that consumed the checkout.
Consumed(entries, c) ==
    \E e \in entries :
        /\ token[e.id] = token[c] /\ e.print = print[c]
        /\ tool[e.id] = tool[c] \/ tool[e.id] \in Consuming

ReadSnapshot(c) ==
    /\ Goto(c, "reading", "gate")
    /\ ~Unresolved(record, c)
    /\ copy' = [copy EXCEPT ![c] = record]
    /\ UNCHANGED <<record, old, holder, print, outcome, answer, cliVars, history>>

\* The gate reads the live checkout, which must be the approved one; between two
\* gates the customer may have changed its contents in any way.
GatePasses(c) ==
    /\ Goto(c, "gate", "compare")
    /\ \E contents \in Contents : print' = [print EXCEPT ![c] = contents]
    /\ UNCHANGED <<record, old, holder, copy, outcome, answer, cliVars, history>>

\* Nothing changed while the gate waited, and the contents are not yet ordered.
Compare(c) ==
    /\ Goto(c, "compare", "claim")
    /\ record = copy[c]
    /\ ~Unresolved(record, c) /\ ~Consumed(record, c)
    /\ UNCHANGED <<record, old, holder, copy, print, outcome, answer, cliVars, history>>

EntryOf(c, state) == [id |-> c, print |-> print[c], state |-> state]

\* write_attempts drops accepted entries past the retention.
Kept(entries) == {e \in entries : e.state = "accepted" => e.id \notin old}

Write(entries) ==
    /\ record' = Kept(entries)
    /\ guarded' = guarded \ Ids(entries \ Kept(entries))

\* The intent is committed before the request.
WriteClaim(c) ==
    /\ Goto(c, "claim", "confirm")
    /\ Write(copy[c] \cup {EntryOf(c, "submitting")})
    /\ copy' = [copy EXCEPT ![c] = {}]
    /\ UNCHANGED <<old, holder, print, outcome, answer, cliVars, before>>

\* The entry must be there when it is read back; `sending` is set.
Confirm(c) ==
    /\ Goto(c, "confirm", "send")
    /\ EntryOf(c, "submitting") \in record
    /\ UNCHANGED <<record, old, holder, copy, print, outcome, answer, cliVars, history>>

\* An entry in the way, a failed gate, a record that changed or cannot be read
\* or written: nothing was sent.
Refuse(c) == Leave(c, Before \ {"send"}, "refused")

-----------------------------------------------------------------------------
(* The request and its outcome                                             *)

Send(c) ==
    /\ Goto(c, "send", "sent")
    /\ guarded' = guarded \cup {c}
    /\ before' = [before EXCEPT ![c] = guarded]
    /\ UNCHANGED <<record, old, holder, copy, print, outcome, answer, cliVars>>

\* The shop's answer; any failure, an error status included, is unknown.
SendReturns(c) ==
    /\ Goto(c, "sent", "reread")
    /\ \E o \in {"accepted", "unknown"} : outcome' = [outcome EXCEPT ![c] = o]
    /\ UNCHANGED <<record, old, holder, copy, print, answer, cliVars, history>>

Reread(c) ==
    /\ Goto(c, "reread", "settle")
    /\ copy' = [copy EXCEPT ![c] = record]
    /\ UNCHANGED <<record, old, holder, print, outcome, answer, cliVars, history>>

\* Only this call's entry is replaced in freshly read content, or added again.
WriteResult(c) ==
    /\ Goto(c, "settle", "leaving")
    /\ Write({e \in copy[c] : e.id # c} \cup {EntryOf(c, outcome[c])})
    /\ answer' = [answer EXCEPT ![c] = outcome[c]]
    /\ copy' = [copy EXCEPT ![c] = {}]
    /\ UNCHANGED <<old, holder, print, outcome, cliVars, before>>

\* The outcome cannot be recorded: once sent, every failure is unknown.
SettleFails(c) == Leave(c, {"reread", "settle"}, "unknown")

\* with_file_lock returns.  An owner file that is gone, or that cannot be
\* removed, turns the value into an error, which after sending is unknown.
Release(c) ==
    /\ Goto(c, "leaving", "returned")
    /\ holder' = IF holder = c THEN Nobody ELSE holder
    /\ \E intact \in {holder = c, FALSE} :
           answer' = [answer EXCEPT ![c] =
                         IF @ = "accepted" /\ ~intact THEN "unknown" ELSE @]
    /\ UNCHANGED <<record, old, copy, print, outcome, cliVars, history>>

-----------------------------------------------------------------------------
(* clear-attempts                                                          *)

CliGoto(from, to) == cli = from /\ cli' = to

\* An empty record is reported and there is nothing to confirm.
ShowAttempts ==
    /\ CliGoto("idle", "asking")
    /\ record # {}
    /\ shown' = record
    /\ UNCHANGED <<record, old, holder, callVars, history>>

\* The user confirms and clear_attempts takes the lock.
ConfirmClear ==
    /\ CliGoto("asking", "matching")
    /\ LockFree
    /\ holder' = Cli
    /\ UNCHANGED <<record, old, callVars, shown, history>>

\* Mutant: the record is removed whatever it holds by now.
ClearMatches_Unchecked ==
    /\ CliGoto("matching", "removing")
    /\ UNCHANGED <<record, old, holder, callVars, shown, history>>

\* The content must still be what was shown.
ClearMatches ==
    /\ CliGoto("matching", "removing")
    /\ record = shown
    /\ UNCHANGED <<record, old, holder, callVars, shown, history>>

CliRelease == holder' = IF holder = Cli THEN Nobody ELSE holder

ClearRemoves ==
    /\ CliGoto("removing", "idle")
    /\ record' = {} /\ guarded' = {}
    /\ shown' = {}
    /\ CliRelease
    /\ UNCHANGED <<old, callVars, before>>

\* Declined, changed meanwhile, busy, failed, or the process ended.
ClearStops ==
    /\ cli # "idle" /\ cli' = "idle"
    /\ shown' = {}
    /\ CliRelease
    /\ UNCHANGED <<record, old, callVars, history>>

-----------------------------------------------------------------------------
(* The surroundings                                                        *)

\* Thirty days pass over an accepted entry.
Age(c) ==
    /\ \E e \in record : e.id = c /\ e.state = "accepted"
    /\ c \notin old
    /\ old' = old \cup {c}
    /\ UNCHANGED <<record, holder, callVars, cliVars, history>>

\* The host dies; the lock directory keeps its owner file.
Crash(c) ==
    /\ pc[c] \in Inside
    /\ pc' = [pc EXCEPT ![c] = "crashed"]
    /\ copy' = [copy EXCEPT ![c] = {}]
    /\ UNCHANGED <<record, old, holder, print, outcome, answer, cliVars, history>>

\* The lock directory of a live holder is removed: another call gets the lock.
TakeOver ==
    /\ holder # Nobody
    /\ holder' = Nobody
    /\ UNCHANGED <<record, old, callVars, cliVars, history>>

Claim(c) ==
    \/ Acquire(c) \/ AcquireFails(c)
    \/ ReadSnapshot(c) \/ GatePasses(c) \/ Compare(c) \/ WriteClaim(c) \/ Confirm(c)
    \/ Refuse(c)
    \/ Send(c) \/ SendReturns(c) \/ Reread(c) \/ WriteResult(c) \/ SettleFails(c)
    \/ Release(c)

Clear == ShowAttempts \/ ConfirmClear \/ ClearMatches \/ ClearRemoves \/ ClearStops

Next ==
    \/ \E c \in Call : Claim(c) \/ Crash(c) \/ Age(c)
    \/ Clear

Spec == Init /\ [][Next]_vars

NextTakenOver == Next \/ TakeOver

SpecTakenOver == Init /\ [][NextTakenOver]_vars

-----------------------------------------------------------------------------
(* Properties                                                              *)

\* The type invariant of the record, the calls and the command line.
TypeOK ==
    /\ record \subseteq Entry
    /\ old \subseteq Call
    /\ holder \in Call \cup {Cli, Nobody}
    /\ pc \in [Call -> PC]
    /\ copy \in [Call -> SUBSET Entry]
    /\ print \in [Call -> Contents \cup {Unread}]
    /\ outcome \in [Call -> {"none", "accepted", "unknown"}]
    /\ answer \in [Call -> {"none", "refused", "accepted", "unknown"}]
    /\ cli \in {"idle", "asking", "matching", "removing"}
    /\ shown \subseteq Entry
    /\ guarded \subseteq Call
    /\ before \in [Call -> SUBSET Call]

\* "Concurrent or repeated calls for one approval send at most one request": a
\* request leaves only if every earlier one for its checkout is known to be
\* accepted, and none of those ordered the same contents with the same or a
\* consuming tool.  A clear by the user, and the retention of accepted
\* entries, end the protection.
AtMostOnce ==
    \A c \in Call : \A d \in before[c] :
        token[d] = token[c] =>
            /\ outcome[d] = "accepted"
            /\ print[d] = print[c] => tool[d] # tool[c] /\ tool[d] \notin Consuming

\* What was sent stays on record, through crashes of its call and the writes of
\* the others, until it is cleared or its retention ends.
SentIsRecorded == guarded \subseteq Ids(record)

\* A refusal says that nothing was sent, and nothing was: no failure after the
\* request, and no lost lock, is answered by one.
Sent(c) == pc[c] \in After \/ outcome[c] # "none"

RefusedMeansUnsent == \A c \in Call : answer[c] = "refused" => ~Sent(c)

\* clear-attempts removes nothing that the user was not shown.
ClearsOnlyShown == [][record' = {} => record \subseteq shown]_vars

\* A record of what was sent goes only by age or by a clear that showed it.
AttemptsAreKept == []SentIsRecorded /\ ClearsOnlyShown
=============================================================================
