---------------------------- MODULE InfoMentorHttp ----------------------------
(***************************************************************************)
(* How infomentor-mcp talks to InfoMentor: one request after another, each *)
(* a loop over redirects in which every hop chooses its cookies, takes the *)
(* ones it is given and checks where it goes next (Http::hops); the jar,   *)
(* which keeps to what tough-cookie does (Jar); the pause that InfoMentor  *)
(* may ask for; and the saved session, from which another process goes on  *)
(* (capture, SavedSession).                                                *)
(*                                                                         *)
(* All hosts are below one registrable domain.  A path has one segment, so *)
(* that a cookie without a path is for all of them.  A tick is a minute.   *)
(***************************************************************************)
EXTENDS Integers, Sequences

CONSTANTS
    Host,      \* InfoMentor's hosts
    Stranger,  \* a host of somebody else
    Root,      \* the registrable domain
    Address,   \* the addresses that it asks and that they redirect to
    Top,       \* the path that is above all others
    Offer,     \* the cookies that a response may set
    HostKey,   \* the names that begin with __Host-
    Retry,     \* what Retry-After may ask for; 0 is a value that cannot be read
    MaxPause,  \* MAX_RATE_LIMIT_MS
    Never,     \* a time that does not come
    MaxHops,   \* how many hops a request may take: 10
    MaxTime    \* bound of the model

HttpAssumption ==
    /\ Stranger \notin Host /\ Root \notin Host \cup {Stranger}
    /\ \A u \in Address : u.host \in Host
    /\ Retry \subseteq Nat /\ MaxPause \in Nat \ {0} /\ MaxHops \in Nat \ {0} /\ MaxTime \in Nat

VARIABLES
    now,      \* the clock
    url,      \* the address of the request in flight, or Idle
    form,     \* whether the request has a body
    hops,     \* the hops that it has taken
    jar,      \* Http.jar: the cookies in the order in which they were created
    cooldown, \* Http.cooldown_until
    saved,    \* the saved session
    sent,     \* what the last step sent, or Silent
    home,     \* history: the host that the form in flight is for
    asked     \* history: until when this session has been asked to pause

vars == <<now, url, form, hops, jar, cooldown, saved, sent, home, asked>>

-----------------------------------------------------------------------------
Unset == "none"

Idle == [host |-> Unset, path |-> Unset]

Silent == [form |-> FALSE, to |-> Idle, cookies |-> <<>>]

\* trusted_url
Trusted(u) == u.host \in Host

Least(x, y) == IF x <= y THEN x ELSE y

-----------------------------------------------------------------------------
(* Cookies                                                                 *)

\* domain_match: the host itself, or the domain above it.
DomainMatch(host, domain) == host = domain \/ (host \in Host /\ domain = Root)

\* path_match
PathMatch(path, cookie) == path = cookie \/ cookie = Top

\* expiry_time: Max-Age comes before Expires and counts from the last use.
ExpiryTime(c) ==
    IF c.age = Never THEN c.expires
    ELSE IF c.age > 0 THEN c.last + c.age ELSE 0

Expired(c) == ExpiryTime(c) # Never /\ ExpiryTime(c) <= now

\* A store has one cookie of a domain, a path and a key.
Same(c, d) == c.domain = d.domain /\ c.path = d.path /\ c.key = d.key

\* The members of a sequence, and those of them that are in a set, in their order.
All(s) == {s[i] : i \in DOMAIN s}

Those(s, S) ==
    LET those[n \in 0..Len(s)] ==
          IF n = 0 THEN <<>> ELSE IF s[n] \in S THEN Append(those[n - 1], s[n]) ELSE those[n - 1]
    IN those[Len(s)]

\* Jar::put: a cookie takes the place of its predecessor.
Put(cookies, c) ==
    LET old == {i \in DOMAIN cookies : Same(cookies[i], c)}
    IN IF old = {} THEN Append(cookies, c) ELSE [i \in DOMAIN cookies |-> IF i \in old THEN c ELSE cookies[i]]

\* Several cookies, one after the other.
PutAll(cookies, more) ==
    LET put[n \in 0..Len(more)] == IF n = 0 THEN cookies ELSE Put(put[n - 1], more[n])
    IN put[Len(more)]

\* Whether Jar::set takes a cookie that this address offers.
Accepts(o, u) ==
    /\ o.domain # Unset => DomainMatch(u.host, o.domain)
    /\ o.key \in HostKey => o.domain = Unset /\ o.path = Top

\* A use of a cookie; it matters to one with a Max-Age.
Touch(c) == IF c.age = Never THEN c ELSE [c EXCEPT !.last = now]

\* The cookie of a Set-Cookie header (parse, the defaults of Jar::set).  History:
\* the host that keeps it to itself.
CookieOf(o, u) ==
    [key |-> o.key, value |-> o.value, age |-> o.age, expires |-> o.expires,
     last |-> IF o.age = Never THEN 0 ELSE now,
     hostOnly |-> o.domain = Unset,
     domain |-> IF o.domain = Unset THEN u.host ELSE o.domain,
     path |-> IF o.path = Unset THEN Top ELSE o.path,
     by |-> IF o.domain = Unset THEN u.host ELSE Unset]

\* Jar::set, for the headers of a response in their order.
Set(cookies, offers, u) ==
    LET taken == Those(offers, {o \in Offer : Accepts(o, u)})
    IN PutAll(cookies, [i \in DOMAIN taken |-> CookieOf(taken[i], u)])

\* The cookies for an address (Jar::header: matches).
Matches(c, u) ==
    /\ PathMatch(u.path, c.path)
    /\ IF c.hostOnly THEN c.domain = u.host ELSE DomainMatch(u.host, c.domain)

\* Jar::header drops the expired ones of them, and the others are used now.
Used(cookies, u) ==
    LET kept == Those(cookies, {c \in All(cookies) : ~(Matches(c, u) /\ Expired(c))})
    IN [i \in DOMAIN kept |-> IF Matches(kept[i], u) THEN Touch(kept[i]) ELSE kept[i]]

\* What Jar::header sends: longer paths first, then the older cookies.
Header(cookies, u) ==
    LET found == {c \in All(cookies) : Matches(c, u) /\ ~Expired(c)}
    IN Those(cookies, {c \in found : c.path # Top}) \o Those(cookies, {c \in found : c.path = Top})

-----------------------------------------------------------------------------
(* The saved session                                                       *)

\* capture: the cookies with a value, as Jar::serialize and the schema keep them.
Capture(cookies) == Those(cookies, {c \in All(cookies) : c.value # ""})

\* Mutant: a restored cookie counts as used now.
Import_UsedNow(cookies) == PutAll(<<>>, [i \in DOMAIN cookies |-> Touch(cookies[i])])

\* SavedSession::jar, Jar::import
Import(cookies) == PutAll(<<>>, cookies)

\* Mutant: the file's pause counts as it is.
SavedCooldown_AsWritten(s) == IF s.pause <= now THEN 0 ELSE s.pause

\* SavedSession::cooldown: a pause counts for at most MaxPause, whatever the file says.
SavedCooldown(s) == IF s.pause <= now THEN 0 ELSE Least(s.pause, now + MaxPause)

NoSession == [cookies |-> <<>>, pause |-> 0, asked |-> 0]

-----------------------------------------------------------------------------
Init ==
    /\ now = 1 /\ url = Idle /\ form = FALSE /\ hops = 0
    /\ jar = <<>> /\ cooldown = 0 /\ saved = NoSession
    /\ sent = Silent /\ home = Unset /\ asked = 0

Quiet == url = Idle

\* One hop: the request with the cookies for its address (Http::hops, Net::send).
Hop(u, body, n, cookies) ==
    /\ url' = u /\ form' = body /\ hops' = n
    /\ jar' = Used(cookies, u)
    /\ sent' = [form |-> body, to |-> u, cookies |-> Header(cookies, u)]

\* A request that ends with these cookies in the jar.
End(cookies) ==
    /\ url' = Idle /\ form' = FALSE /\ hops' = 0 /\ jar' = cookies
    /\ sent' = Silent /\ home' = Unset

\* Http::request, with a body for InfoMentor's forms and reads; not in a known pause.
Request(u, body) ==
    /\ Quiet /\ now >= cooldown /\ Trusted(u)
    /\ Hop(u, body, 1, jar)
    /\ home' = IF body THEN u.host ELSE Unset
    /\ UNCHANGED <<now, cooldown, saved, asked>>

\* Mutant: a form follows a redirect to any host of InfoMentor's.
Follows_AnyHost(status, to) == Trusted(to) /\ hops < MaxHops

\* 301, 302 and 303 drop the body; with one, 307 and 308 do not leave the host.
Follows(status, to) ==
    /\ Trusted(to) /\ hops < MaxHops
    /\ form /\ status = "307" => to.host = url.host

\* A redirect; every response may set cookies.
Redirected(status, to, offers) ==
    LET cookies == Set(jar, offers, url)
        body == form /\ status = "307"
    IN /\ ~Quiet
       /\ IF Follows(status, to)
          THEN Hop(to, body, hops + 1, cookies) /\ home' = IF body THEN home ELSE Unset
          ELSE End(cookies)
       /\ UNCHANGED <<now, cooldown, saved, asked>>

\* The pause that a 429 begins: a minute if it does not say, at most MaxPause.
Pause(retry) == Least(IF retry > 0 THEN retry ELSE 1, MaxPause)

Limited(retry, offers) ==
    /\ ~Quiet
    /\ End(Set(jar, offers, url))
    /\ cooldown' = now + Pause(retry)
    /\ asked' = now + (IF retry = 0 THEN 1 ELSE IF retry > MaxPause THEN MaxPause ELSE retry)
    /\ UNCHANGED <<now, saved>>

\* Any other answer: a page, a challenge, a refusal, a body that is too large.
Answered(offers) ==
    /\ ~Quiet /\ End(Set(jar, offers, url))
    /\ UNCHANGED <<now, cooldown, saved, asked>>

\* No answer, the deadline of the request, or a signal that aborts it (Net::wait).
NoAnswer == ~Quiet /\ End(jar) /\ UNCHANGED <<now, cooldown, saved, asked>>

-----------------------------------------------------------------------------
\* The session is saved with the pause that is not over (session_of, write_session).
Save ==
    /\ Quiet
    /\ saved' = [cookies |-> Capture(jar), pause |-> IF cooldown > now THEN cooldown ELSE 0,
                 asked |-> asked]
    /\ sent' = Silent
    /\ UNCHANGED <<now, url, form, hops, jar, cooldown, home, asked>>

\* A process, or a client that finds another session, begins with the saved one.
Restore ==
    /\ jar' = Import(saved.cookies) /\ cooldown' = SavedCooldown(saved)
    /\ asked' = saved.asked
    /\ url' = Idle /\ form' = FALSE /\ hops' = 0 /\ sent' = Silent /\ home' = Unset
    /\ UNCHANGED <<now, saved>>

\* The file of a machine whose clock was ahead.
OtherClock ==
    /\ saved' = [saved EXCEPT !.pause = now + MaxPause + 1, !.asked = 0]
    /\ sent' = Silent
    /\ UNCHANGED <<now, url, form, hops, jar, cooldown, home, asked>>

Tick ==
    /\ now < MaxTime /\ now' = now + 1 /\ sent' = Silent
    /\ UNCHANGED <<url, form, hops, jar, cooldown, saved, home, asked>>

Offers == {<<>>} \cup {<<o>> : o \in Offer}

Next ==
    \/ \E u \in Address, body \in BOOLEAN : Request(u, body)
    \/ \E offers \in Offers :
         \/ \E status \in {"302", "307"}, to \in Address \cup {[host |-> Stranger, path |-> Top]} :
              Redirected(status, to, offers)
         \/ \E retry \in Retry : Limited(retry, offers)
         \/ Answered(offers)
    \/ NoAnswer \/ Save \/ Restore \/ OtherClock \/ Tick

Spec == Init /\ [][Next]_vars

-----------------------------------------------------------------------------
(* Correctness                                                             *)

\* A form, which may hold a password, goes to no other host than the one it is
\* for, on any chain of redirects; and a host is sent no cookie that another
\* host has set for itself alone, also from a session that was saved and
\* restored (Http::hops, Jar::header).
SecretsStayHome ==
    sent # Silent =>
      /\ sent.form => sent.to.host = home
      /\ \A i \in DOMAIN sent.cookies : LET c == sent.cookies[i] IN
           c.hostOnly => c.by = sent.to.host

\* InfoMentor is left alone for as long as it asked, up to MaxPause, by the
\* process that it asked and by the next one with the session that it saved;
\* and nothing makes a process wait longer (Http::request, SavedSession::cooldown).
PauseIsKept ==
    /\ sent # Silent => now >= asked
    /\ cooldown <= now + MaxPause

\* At every moment, a process that goes on from a session saved now sends what
\* this one would: the same cookies with a value, in the same order, to every
\* address (capture, SavedSession::jar).
RestoredSendsSame ==
    LET shown(cookies, u) ==
          LET h == Capture(Header(cookies, u))
          IN [i \in DOMAIN h |-> <<h[i].key, h[i].value>>]
    IN jar # <<>> => \A u \in Address : shown(Import(Capture(jar)), u) = shown(jar, u)
=============================================================================
