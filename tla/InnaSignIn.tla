------------------------------ MODULE InnaSignIn ------------------------------
(***************************************************************************)
(* Signing in to Inna from a chat (rust/inna-mcp/src/sign_in.rs, with      *)
(* auth.rs for the commands that change the same record and login.rs for   *)
(* the prompt on the phone).                                               *)
(*                                                                         *)
(* What bounds the prompts is saved beside the session, and every host     *)
(* reads and writes it in a short hold of the session's locks: the starts  *)
(* of the last day, a lease for the sign-in under way, and a cooldown      *)
(* after one that failed.  Leases and starts are times of the wall clock,  *)
(* which may be set back; the limit on a prompt runs on the clock that is  *)
(* not.  A sign-in belongs to the host's process: when that dies nothing   *)
(* but the lease tells the other hosts of it.                              *)
(***************************************************************************)
EXTENDS Naturals, FiniteSets

CONSTANTS
    Host,       \* processes that offer inna_sign_in
    None,       \* no session
    Lease,      \* LEASE, in ticks
    Cooldown,   \* COOLDOWN
    Day,        \* DAY
    Limit,      \* LIMIT: starts in a day
    Timeout,    \* timeout(): the longest a prompt lasts
    Delay,      \* bound: ticks from a reservation to its prompt
    MaxTime,    \* bound: ticks
    MaxBack,    \* bound: ticks the clock is set back
    MaxLogouts  \* bound: logouts

\* What is assumed of the constants.
SignInAssumption ==
    /\ Lease \in Nat \ {0} /\ Cooldown \in Nat \ {0} /\ Day \in Nat \ {0} /\ Limit \in Nat
    /\ Timeout \in Nat /\ Delay \in Nat /\ MaxTime \in Nat /\ MaxBack \in Nat
    /\ MaxLogouts \in Nat
    /\ Delay + Timeout < Lease + Cooldown

VARIABLES
    guard,    \* what the saved session says of sign-ins, None without a session
    pc,       \* where the sign-in of each host is
    lease,    \* the lease of that sign-in
    since,    \* when it came there
    outcome,  \* what its prompt came to
    real,     \* ticks since the start
    back,     \* how far the wall clock has been set back
    started,  \* history: the time of each start of the last day, since a logout
    logouts,  \* history: logouts
    old       \* history: hosts whose sign-in began before the last logout

host    == <<pc, lease, since, outcome>>
clock   == <<real, back>>
history == <<started, logouts, old>>
vars    == <<guard, host, clock, history>>

-----------------------------------------------------------------------------
Time  == 0..(MaxTime + Lease + Cooldown)
\* Starts have numbers, since two may have one time.
Starts == UNION {[S -> Time] : S \in SUBSET (1..Limit)}
Guard  == [phone: BOOLEAN, starts: Starts, pending: Time, cooldown: Time]
Fresh  == [phone |-> FALSE, starts |-> <<>>, pending |-> 0, cooldown |-> 0]

\* A sign-in that expires leaves what one that fails does.
Outcome == {"approved", "failed"}

AtWork == {"reserved", "prompt", "ended", "saved"}

\* js::client_now
now == real - back

Least(a, b) == IF a < b THEN a ELSE b
Most(a, b)  == IF a > b THEN a ELSE b

Init ==
    /\ real = MaxBack /\ back = 0
    /\ guard = [Fresh EXCEPT !.phone = TRUE]
    /\ pc = [h \in Host |-> "idle"]
    /\ lease = [h \in Host |-> 0]
    /\ since = [h \in Host |-> 0]
    /\ outcome = [h \in Host |-> "failed"]
    /\ started = <<>> /\ logouts = 0 /\ old = {}

Goto(h, from, to) ==
    /\ pc[h] = from
    /\ pc' = [pc EXCEPT ![h] = to]
    /\ since' = [since EXCEPT ![h] = IF to = "prompt" \/ to = "reserved" THEN real ELSE 0]

-----------------------------------------------------------------------------
(* Guard::reserve                                                          *)

\* Times ahead of the clock are brought back to where they could be.
Clamped(g) ==
    [g EXCEPT !.pending = Least(@, now + Lease),
              !.cooldown = Least(@, now + Cooldown),
              !.starts = [i \in DOMAIN @ |-> Least(@[i], now)]]

\* A lease nobody gave back counts as a failure at its end.
Lapsed(g) ==
    IF g.pending > now \/ g.pending = 0 THEN g
    ELSE [g EXCEPT !.cooldown = Most(@, g.pending + Cooldown), !.pending = 0]

\* starts.retain
Recent(g) ==
    LET kept == {n \in DOMAIN g.starts : g.starts[n] + Day > now}
    IN  [g EXCEPT !.starts = [n \in kept |-> @[n]]]

Settled(g) == Lapsed(Clamped(g))

MayStart(g) ==
    /\ g.pending <= now
    /\ g.cooldown <= now
    /\ Cardinality(DOMAIN Recent(g).starts) < Limit

\* What is written when no sign-in may start: a lease, a cooldown, or the limit.
Refused(g) ==
    LET s == Settled(g) IN IF s.pending > now \/ s.cooldown > now THEN s ELSE Recent(s)

\* A number that no start has.
Number ==
    LET used == DOMAIN Recent(Settled(guard)).starts \cup DOMAIN started
    IN  CHOOSE n \in 1..(Cardinality(used) + 1) : n \notin used

\* The starts f and a new one.
With(f, time) == [n \in DOMAIN f \cup {Number} |-> IF n = Number THEN time ELSE f[n]]

Reserved(g) ==
    LET s == Recent(Settled(g))
    IN  [s EXCEPT !.starts = With(@, now), !.pending = now + Lease]

HasPhone == guard # None /\ guard.phone

\* Leases are times to the millisecond: one made now is not by chance another that
\* a sign-in still holds, unless it is the one that is saved.
NewLease ==
    \A k \in Host : pc[k] \in AtWork /\ lease[k] = now + Lease =>
        guard.pending = lease[k] /\ k \notin old

-----------------------------------------------------------------------------
(* SignIn::start                                                           *)

Start(h) ==
    /\ Goto(h, "idle", "reserved")
    /\ HasPhone /\ NewLease /\ MayStart(Settled(guard))
    /\ guard' = Reserved(guard)
    /\ lease' = [lease EXCEPT ![h] = now + Lease]
    /\ started' = With(started, real)
    /\ old' = old \ {h}
    /\ UNCHANGED <<outcome, clock, logouts>>

\* A sign-in of another host is pending, or none may start yet.
Refuse(h) ==
    /\ pc[h] = "idle"
    /\ HasPhone /\ NewLease /\ ~MayStart(Settled(guard))
    /\ guard' = Refused(guard)
    /\ UNCHANGED <<host, clock, history>>

\* held.write fails, before or after the record is replaced.
StartFails(h) ==
    /\ pc[h] = "idle"
    /\ HasPhone /\ NewLease /\ MayStart(Settled(guard))
    /\ guard' = Reserved(guard)
    /\ UNCHANGED <<host, clock, history>>

\* login_with_electronic_id: the person is asked on the phone.
Prompt(h) ==
    /\ Goto(h, "reserved", "prompt")
    /\ UNCHANGED <<guard, lease, outcome, clock, history>>

\* It is answered, it fails, its time is up, or the server closes.
PromptEnds(h) ==
    /\ Goto(h, "prompt", "ended")
    /\ \E o \in Outcome : outcome' = [outcome EXCEPT ![h] = o]
    /\ UNCHANGED <<guard, lease, clock, history>>

\* save_sign_in: the new session keeps the guard of the one it replaces.
SaveSession(h) ==
    /\ Goto(h, "ended", "saved")
    /\ outcome[h] = "approved" /\ outcome' = outcome
    /\ guard' = IF guard = None THEN Fresh ELSE guard
    /\ UNCHANGED <<lease, clock, history>>

\* Nothing to save, or save_sign_in refuses or fails.
SkipSession(h) ==
    /\ Goto(h, "ended", "saved")
    /\ outcome' = [outcome EXCEPT ![h] = IF @ = "approved" THEN "failed" ELSE @]
    /\ UNCHANGED <<guard, lease, clock, history>>

Released(h) ==
    [guard EXCEPT !.pending = 0,
                  !.cooldown = IF outcome[h] = "approved" THEN @ ELSE now + Cooldown]

\* Mutant: whatever lease is saved is given back.
GiveBack_Any(h) ==
    /\ Goto(h, "saved", "idle")
    /\ guard' = IF guard # None THEN Released(h) ELSE guard
    /\ lease' = [lease EXCEPT ![h] = 0] /\ old' = old \ {h}
    /\ outcome' = [outcome EXCEPT ![h] = "failed"]
    /\ UNCHANGED <<clock, started, logouts>>

\* The cleanup gives back the lease of this sign-in, and no other.
GiveBack(h) ==
    /\ Goto(h, "saved", "idle")
    /\ guard' = IF guard # None /\ guard.pending = lease[h] THEN Released(h) ELSE guard
    /\ lease' = [lease EXCEPT ![h] = 0] /\ old' = old \ {h}
    /\ outcome' = [outcome EXCEPT ![h] = "failed"]
    /\ UNCHANGED <<clock, started, logouts>>

\* The process ends, or its cleanup fails: the lease stays.
Crash(h) ==
    /\ pc[h] \in AtWork
    /\ Goto(h, pc[h], "idle")
    /\ lease' = [lease EXCEPT ![h] = 0] /\ old' = old \ {h}
    /\ outcome' = [outcome EXCEPT ![h] = "failed"]
    /\ UNCHANGED <<guard, clock, started, logouts>>

-----------------------------------------------------------------------------
(* Commands in a terminal, which ask no guard                              *)

\* auth login: the phone is saved, the counters are kept.
Login ==
    /\ ~HasPhone
    /\ guard' = [(IF guard = None THEN Fresh ELSE guard) EXCEPT !.phone = TRUE]
    /\ UNCHANGED <<host, clock, history>>

\* auth import --allow-account-change: the phone was another person's.
ChangeAccount ==
    /\ HasPhone
    /\ guard' = [guard EXCEPT !.phone = FALSE]
    /\ UNCHANGED <<host, clock, history>>

\* auth logout: the record says that nobody is signed in.
Logout ==
    /\ guard # None /\ logouts < MaxLogouts
    /\ logouts' = logouts + 1
    /\ guard' = None
    /\ started' = <<>>
    /\ old' = {h \in Host : pc[h] \in AtWork}
    /\ UNCHANGED <<host, clock>>

-----------------------------------------------------------------------------
\* A prompt is stopped in time, and begins soon after its reservation.
Tick ==
    /\ real < MaxTime
    /\ \A h \in Host : /\ pc[h] = "reserved" => real < since[h] + Delay
                       /\ pc[h] = "prompt" => real < since[h] + Timeout
    /\ real' = real + 1
    /\ LET last == {n \in DOMAIN started : started[n] + Day > real + 1}
       IN  started' = [n \in last |-> started[n]]
    /\ UNCHANGED <<guard, host, back, logouts, old>>

\* The clock is set back.
SetBack ==
    /\ back < MaxBack
    /\ back' = back + 1
    /\ UNCHANGED <<guard, host, real, history>>

Next ==
    \/ \E h \in Host :
        \/ Start(h) \/ Refuse(h) \/ StartFails(h) \/ Prompt(h) \/ PromptEnds(h)
        \/ SaveSession(h) \/ SkipSession(h) \/ GiveBack(h) \/ Crash(h)
    \/ Login \/ ChangeAccount \/ Logout \/ Tick \/ SetBack

Spec == Init /\ [][Next]_vars

-----------------------------------------------------------------------------
(* Properties                                                              *)

\* Values have their types; the record, which every read checks, never holds
\* more than LIMIT starts (Guard::parse).
TypeOK ==
    /\ guard \in Guard \cup {None} /\ guard # None => Cardinality(DOMAIN guard.starts) <= Limit
    /\ pc \in [Host -> AtWork \cup {"idle"}]
    /\ lease \in [Host -> Time] /\ since \in [Host -> Time]
    /\ outcome \in [Host -> Outcome]
    /\ real \in 0..MaxTime /\ back \in 0..MaxBack
    /\ old \subseteq {h \in Host : pc[h] \in AtWork}

\* One person is asked by one host at a time: whatever fails, dies or comes
\* late, and wherever the clock is set back, a second prompt does not start
\* while the first can still be answered, unless there was a logout between
\* the two (the lease, and the late cleanup that must not touch another's).
OnePrompt ==
    \A h, k \in Host \ old : pc[h] = "prompt" /\ pc[k] \in {"reserved", "prompt"} => h = k

\* In no stretch of one day do more than LIMIT sign-ins start, across hosts,
\* restarts, new sessions, account changes and a clock that is set back, as
\* long as nobody logs out.
CapKept == Cardinality(DOMAIN started) <= Limit

=============================================================================
