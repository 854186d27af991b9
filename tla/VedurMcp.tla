------------------------------- MODULE VedurMcp -------------------------------
(***************************************************************************)
(* vedur-mcp: the weather tools, which read addresses of Veðurstofa        *)
(* Íslands and share one small cache of the responses that a tool could    *)
(* read (Http).  The runtime has one thread: a call gives way to others    *)
(* only where it awaits, so that every action below ends at an await.      *)
(*                                                                         *)
(* A response says of each entry whether it is listed, and in a readable   *)
(* shape; Garbage is a response that is no such list.  A tick is a minute: *)
(* three attempts of ten seconds and the waits between them, which is one  *)
(* fetch, see at most one.                                                 *)
(***************************************************************************)
EXTENDS Naturals, Sequences, FiniteSets

CONSTANTS
    Call,        \* the calls of the host that may be in flight together
    Tool,        \* the tools that they call
    Warning,     \* what an upstream list may name: a warning, a station, a measurement
    Weather,     \* the warnings of the category Met
    Expires,     \* the time at which a warning is over
    Area,        \* the warnings of an area, and those of all
    Garbage,     \* a response that is not of the documented shape
    Responses,   \* what the addresses may answer
    MinTtl, MaxTtl, MaxEntries,
    Attempts,    \* how often a fetch is tried: 3
    Ages,        \* what Cache-Control may say
    MaxTime, MaxChanges  \* bounds of the model

ASSUME VedurAssumption ==
    /\ Tool \subseteq {"stations", "forecast", "observations", "alerts", "watch"}
    /\ Weather \subseteq Warning /\ Expires \in [Warning -> Nat]
    /\ Responses \subseteq [Warning -> {"absent", "readable", "malformed"}] \cup {Garbage}
    /\ Area \subseteq SUBSET Warning /\ Ages \subseteq Nat
    /\ {MinTtl, MaxTtl, MaxEntries, Attempts, MaxTime, MaxChanges} \subseteq Nat
    /\ 0 < MinTtl /\ MinTtl <= MaxTtl /\ 0 < MaxEntries /\ 0 < Attempts

VARIABLES
    now,     \* the clock
    site,    \* what each address lists
    since,   \* since when the feed lists a warning
    changes, \* how often an address has changed
    cache,   \* Http.cache
    step,    \* where a call is
    tool,    \* its tool
    area,    \* what its arguments select
    url,     \* the address that it fetches
    tries,   \* the attempts that have failed
    late,    \* whether a tick has passed in this fetch
    coming,  \* the response under way
    first,   \* what the automatic route answered
    out      \* the answer that the last step gave, or Silent

vars == <<now, site, since, changes, cache, step, tool, area, url, tries, late, coming, first, out>>

-----------------------------------------------------------------------------
Url == {"stations", "forecast", "aws", "synop", "alerts", "watch"}

\* The first address of a tool.
Address(t) == IF t = "observations" THEN "aws" ELSE t

Nothing == [w \in Warning |-> "absent"]

Listed(body) == {w \in Warning : body # Garbage /\ body[w] # "absent"}

Malformed(body) == {w \in Listed(body) : body[w] = "malformed"}

\* Mutant: the header alone says for how long.
Ttl_Unbounded(age) == IF age < MinTtl THEN MinTtl ELSE age

\* How long a response stays cached, for the max-age of its header.
Ttl(age) == IF age < MinTtl THEN MinTtl ELSE IF age > MaxTtl THEN MaxTtl ELSE age

-----------------------------------------------------------------------------
(* What the tools read in a response                                       *)

\* stations::shape: every station of the list.
StationsRead(body) == body # Garbage /\ Malformed(body) = {}

\* forecast::shape: every day and every step, also of the days that are not shown.
ForecastRead(body) == body # Garbage /\ Malformed(body) = {}

\* observations::record: every measurement of the list.
RecordRead(body) == body # Garbage /\ Malformed(body) = {}

\* watch::shape: the posts that it finds; what an item lacks is left empty.
PostsRead(body) == body # Garbage

\* alerts::shape: the entries that it can read, unless there are only others.
WarningsRead(body) == body # Garbage /\ (Listed(body) = {} \/ Malformed(body) # Listed(body))

\* A warning is kept unless it is over or of another category.
InForce(body, time) ==
    {w \in Listed(body) \ Malformed(body) : w \in Weather /\ Expires[w] > time}

Reads(t, body) ==
    CASE t = "stations" -> StationsRead(body)
      [] t = "forecast" -> ForecastRead(body)
      [] t = "watch" -> PostsRead(body)
      [] t = "alerts" -> WarningsRead(body)
      [] t = "observations" -> RecordRead(body)

\* The oldest of the responses an answer used (envelope).
Oldest(times) == CHOOSE t \in times : \A s \in times : t <= s

Failed == [kind |-> "failed"]

Silent == [kind |-> "silent"]

\* A response, or the cache's; ttl is zero when there is nothing to keep.
Fetched(u, body, time, ttl) == [url |-> u, body |-> body, at |-> time, ttl |-> ttl]

Answer(t, a, read) ==
    [kind |-> t, area |-> a, checked |-> now,
     at |-> Oldest(IF read = {} THEN {now} ELSE {f.at : f \in read}),
     shown |-> a \cap UNION {IF t = "alerts" THEN InForce(f.body, now) ELSE Listed(f.body)
                                  : f \in read},
     partial |-> t = "alerts" /\ \E f \in read : Malformed(f.body) # {}]

-----------------------------------------------------------------------------
(* The cache                                                               *)

\* Http::cached
Cached(u) == u \in DOMAIN cache /\ cache[u].expires > now

FromCache(u) == Fetched(u, cache[u].body, cache[u].at, 0)

\* Http::store: entries that are over go, and one that ends first when there is no room.
Stored(known, f) ==
    LET live == {u \in DOMAIN known : known[u].expires > now}
        ends == {u \in live : \A v \in live : known[u].expires <= known[v].expires}
        kept == IF Cardinality(live) >= MaxEntries THEN {live \ {u} : u \in ends} ELSE {live}
        entry == [body |-> f.body, at |-> f.at, expires |-> now + f.ttl]
    IN {[u \in kin \cup {f.url} |-> IF u = f.url THEN entry ELSE known[u]] : kin \in kept}

\* Http::keep
Keeps(known, f) == IF f.ttl = 0 THEN {known} ELSE Stored(known, f)

\* Vedur::kept: the responses of a read, one after the other.
KeepsAll(read) ==
    CASE Len(read) = 0 -> {cache}
      [] Len(read) = 1 -> Keeps(cache, read[1])
      [] OTHER -> UNION {Keeps(known, read[2]) : known \in Keeps(cache, read[1])}

-----------------------------------------------------------------------------
(* Calls                                                                   *)

Init ==
    /\ now = 0 /\ changes = 0
    /\ site = [u \in Url |-> Nothing] /\ since = [w \in Warning |-> 0]
    /\ cache = [u \in {} |-> 0]
    /\ step = [c \in Call |-> "idle"] /\ tool = [c \in Call |-> "none"]
    /\ area = [c \in Call |-> {}]
    /\ url = [c \in Call |-> "none"] /\ tries = [c \in Call |-> 0]
    /\ late = [c \in Call |-> FALSE]
    /\ coming = [c \in Call |-> Garbage] /\ first = [c \in Call |-> <<>>]
    /\ out = Silent

World == <<now, site, since, changes>>

\* A call that returns forgets its locals.
Return(c, answer) ==
    /\ out' = answer
    /\ step' = [step EXCEPT ![c] = "idle"] /\ tool' = [tool EXCEPT ![c] = "none"]
    /\ area' = [area EXCEPT ![c] = {}]
    /\ url' = [url EXCEPT ![c] = "none"] /\ tries' = [tries EXCEPT ![c] = 0]
    /\ late' = [late EXCEPT ![c] = FALSE] /\ coming' = [coming EXCEPT ![c] = Garbage]
    /\ first' = [first EXCEPT ![c] = <<>>]

Fails(c) == Return(c, Failed) /\ UNCHANGED cache

\* The end of Vedur::run for a tool t that has read these responses.
Finish(c, t, a, read) ==
    /\ cache' \in KeepsAll(read)
    /\ Return(c, Answer(t, a, {read[i] : i \in 1..Len(read)}))

\* Http::fetch of an address that is not cached, up to its first await.
Fetch(c, t, a, u, before) ==
    /\ step' = [step EXCEPT ![c] = "sent"] /\ tool' = [tool EXCEPT ![c] = t]
    /\ area' = [area EXCEPT ![c] = a]
    /\ url' = [url EXCEPT ![c] = u] /\ tries' = [tries EXCEPT ![c] = 0]
    /\ late' = [late EXCEPT ![c] = FALSE] /\ coming' = [coming EXCEPT ![c] = Garbage]
    /\ first' = [first EXCEPT ![c] = before]
    /\ out' = Silent /\ UNCHANGED cache

\* Vedur::run once its last route has answered.
Last(c, t, a, before, read) ==
    IF \A i \in 1..Len(read) : Reads(t, read[i].body) THEN Finish(c, t, a, before \o read)
    ELSE Fails(c)

\* Vedur::run once an address has answered; <<>> is a route without data.
Took(c, t, a, u, read) ==
    IF u # "aws" THEN Last(c, t, a, first[c], read)
    ELSE IF read # <<>> /\ (~RecordRead(read[1].body) \/ Listed(read[1].body) # {})
         THEN Last(c, t, a, <<>>, read)
    ELSE IF Cached("synop") THEN Last(c, t, a, read, <<FromCache("synop")>>)
    ELSE Fetch(c, t, a, "synop", read)

\* A call whose arguments pass (input::parse), up to its first await.
Begin(c) ==
    /\ step[c] = "idle"
    /\ \E t \in Tool : \E a \in IF t = "alerts" THEN Area ELSE {Warning} : LET u == Address(t) IN
         IF Cached(u) THEN Took(c, t, a, u, <<FromCache(u)>>) ELSE Fetch(c, t, a, u, <<>>)
    /\ UNCHANGED World

\* The address answers; the response is under way.
Serve(c) ==
    /\ step[c] = "sent"
    /\ coming' = [coming EXCEPT ![c] = site[url[c]]]
    /\ step' = [step EXCEPT ![c] = "served"]
    /\ out' = Silent /\ UNCHANGED <<World, cache, tool, area, url, tries, late, first>>

\* A response is read to its end (attempt).
Receive(c) ==
    /\ step[c] = "served"
    /\ \E age \in Ages :
         Took(c, tool[c], area[c], url[c], <<Fetched(url[c], coming[c], now, Ttl(age))>>)
    /\ UNCHANGED World

\* The 404 of a route without measurements (is_no_data).
ReceiveNoData(c) ==
    /\ step[c] = "served" /\ url[c] \in {"aws", "synop"} /\ coming[c] = Nothing
    /\ Took(c, tool[c], area[c], url[c], <<>>)
    /\ UNCHANGED World

\* Another 4xx, a redirect or a response that is too large ends the call (fetch_failure).
ReceiveRefused(c) == step[c] = "served" /\ Fails(c) /\ UNCHANGED World

\* No answer, a server error or a body that breaks off is tried again after a
\* wait, up to Attempts times in all.
AttemptFails(c) ==
    /\ step[c] \in {"sent", "served"}
    /\ IF tries[c] + 1 < Attempts
       THEN /\ tries' = [tries EXCEPT ![c] = @ + 1]
            /\ step' = [step EXCEPT ![c] = "sent"]
            /\ coming' = [coming EXCEPT ![c] = Garbage]
            /\ out' = Silent /\ UNCHANGED <<cache, tool, area, url, late, first>>
       ELSE Fails(c)
    /\ UNCHANGED World

\* The host cancels the call, or serving stops: the select drops what it runs.
Cancel(c) == step[c] # "idle" /\ Fails(c) /\ UNCHANGED World

-----------------------------------------------------------------------------
(* Veðurstofa Íslands and time                                             *)

Tick ==
    /\ now < MaxTime /\ \A c \in Call : ~late[c]
    /\ now' = now + 1
    /\ late' = [c \in Call |-> step[c] # "idle"]
    /\ out' = Silent /\ UNCHANGED <<site, since, changes, cache, step, tool, area, url, tries, coming, first>>

Publish(u) ==
    /\ changes < MaxChanges
    /\ \E body \in Responses \ {site[u]} :
         /\ site' = [site EXCEPT ![u] = body]
         /\ since' = IF u # "alerts" THEN since
                     ELSE [w \in Warning |-> IF w \notin Listed(body) THEN 0
                                             ELSE IF w \in Listed(site[u]) THEN since[w] ELSE now]
    /\ changes' = changes + 1
    /\ out' = Silent /\ UNCHANGED <<now, cache, step, tool, area, url, tries, late, coming, first>>

Next ==
    \/ \E c \in Call :
         \/ Begin(c) \/ Serve(c) \/ Receive(c) \/ ReceiveNoData(c) \/ ReceiveRefused(c)
         \/ AttemptFails(c) \/ Cancel(c)
    \/ Tick \/ \E u \in Url : Publish(u)

Spec == Init /\ [][Next]_vars

-----------------------------------------------------------------------------
(* Correctness                                                             *)

\* An answer that says it is not partial shows every weather warning of its
\* area that the feed has listed for longer than a response may be cached,
\* and that is not over: neither the cache, a slow attempt, the read of
\* another call nor an entry of another shape can hide one.
WarningsAreShown ==
    out.kind = "alerts" /\ ~out.partial =>
      \A w \in Weather \cap out.area \cap Listed(site["alerts"]) :
        since[w] + MaxTtl < now /\ Expires[w] > now => w \in out.shown

\* What is cached has been read by the tool that it will be given to,
\* is there for no longer than its lifetime and one fetch of another route,
\* and never takes more than its room.
KeptWasRead ==
    /\ Cardinality(DOMAIN cache) <= MaxEntries
    /\ \A u \in DOMAIN cache :
         /\ \A t \in Tool : u = Address(t) \/ (t = "observations" /\ u = "synop")
                            => Reads(t, cache[u].body)
         /\ cache[u].at <= now /\ cache[u].expires <= cache[u].at + MaxTtl + 1

\* What is answered and what is cached is as new as it claims, and could be read.
AnswersAreCurrent == WarningsAreShown /\ KeptWasRead
===============================================================================
