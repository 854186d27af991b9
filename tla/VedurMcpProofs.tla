---------------------------- MODULE VedurMcpProofs ----------------------------
(***************************************************************************)
(* Proofs about VedurMcp for any calls, addresses, lifetimes and times: a  *)
(* fetch sees at most one tick, so that a response that arrives tells what *)
(* was listed a tick ago, and an entry of the cache what was listed a tick *)
(* before its time; and what is kept was read by the only tool that asks.  *)
(***************************************************************************)
EXTENDS VedurMcp, TLAPS, FiniteSetTheorems, SequenceTheorems

-----------------------------------------------------------------------------
(* The inductive invariant, in named parts                                 *)

\* Tools and the addresses that they read.
Uses(t, u) == u = Address(t) \/ (t = "observations" /\ u = "synop")

\* A body lists what has been listed since before a time.
Tells(body, time) ==
    \A w \in Listed(site["alerts"]) : since[w] < time => w \in Listed(body)

\* An entry of the cache for an address.
GoodEntry(u, e) ==
    /\ e.at \in Nat /\ e.expires \in Nat
    /\ e.at <= now /\ e.expires <= e.at + MaxTtl + 1
    /\ u = "alerts" => e.expires <= e.at + MaxTtl /\ Tells(e.body, e.at - 1)
    /\ \A t \in Tool : Uses(t, u) => Reads(t, e.body)

GoodCache(known) ==
    /\ DOMAIN known \subseteq Url /\ Cardinality(DOMAIN known) <= MaxEntries
    /\ \A u \in DOMAIN known : GoodEntry(u, known[u])

\* A response that a call has: just fetched, or the cache's.
GoodRead(f) ==
    /\ f.at \in Nat /\ f.ttl \in 0..MaxTtl /\ f.at <= now
    /\ f.ttl > 0 => now <= f.at + 1
    /\ f.url = "alerts" => /\ f.ttl > 0 => f.at = now
                           /\ now < f.at + MaxTtl
                           /\ Tells(f.body, f.at - 1)

\* What the first route answered, while the second is asked: read a moment ago,
\* unless the second has taken a tick.
GoodBefore(read, slow) ==
    \/ read = <<>>
    \/ \E f : /\ read = <<f>> /\ f.url = "aws" /\ RecordRead(f.body)
              /\ f.at \in Nat /\ f.ttl \in 0..MaxTtl /\ f.at <= now
              /\ f.ttl > 0 => now <= IF slow THEN f.at + 1 ELSE f.at

TypeInv ==
    /\ now \in Nat /\ since \in [Warning -> Nat]
    /\ DOMAIN site = Url
    /\ step \in [Call -> {"idle", "sent", "served"}]
    /\ late \in [Call -> BOOLEAN]
    /\ DOMAIN tool = Call /\ DOMAIN url = Call /\ DOMAIN coming = Call /\ DOMAIN first = Call
    /\ DOMAIN area = Call

\* A call that waits: its tool, what it had from the first route, and what is coming.
CallInv ==
    \A c \in Call :
        /\ step[c] = "idle" => first[c] = <<>>
        /\ step[c] # "idle" =>
             /\ tool[c] \in Tool /\ Uses(tool[c], url[c])
             /\ url[c] # "synop" => first[c] = <<>>
             /\ GoodBefore(first[c], late[c])
        /\ step[c] = "served" /\ url[c] = "alerts" =>
             Tells(coming[c], IF late[c] THEN now - 1 ELSE now)

IInv == TypeInv /\ CallInv /\ GoodCache(cache) /\ WarningsAreShown

-----------------------------------------------------------------------------
(* Addresses and lifetimes                                                 *)

\* Every address is of one tool.
LEMMA Tools ==
    /\ Tool \subseteq {"stations", "forecast", "observations", "alerts", "watch"}
    /\ \A t \in Tool : \A u : Uses(t, u) =>
         /\ u \in Url
         /\ u = "alerts" <=> t = "alerts"
         /\ \A s \in Tool : Uses(s, u) => s = t
         /\ u \in {"aws", "synop"} <=> t = "observations"
    /\ \A t \in Tool : Uses(t, Address(t)) /\ Address(t) # "synop"
BY VedurAssumption DEF VedurAssumption, Uses, Address, Url

\* There are finitely many addresses.
LEMMA FiniteUrls == IsFiniteSet(Url)
<1>1. IsFiniteSet({"stations"}) /\ IsFiniteSet({"forecast"}) /\ IsFiniteSet({"aws"})
  BY FS_Singleton
<1>2. IsFiniteSet({"synop"}) /\ IsFiniteSet({"alerts"}) /\ IsFiniteSet({"watch"})
  BY FS_Singleton
<1>3. IsFiniteSet({"stations"} \cup {"forecast"}) /\ IsFiniteSet({"aws"} \cup {"synop"})
      /\ IsFiniteSet({"alerts"} \cup {"watch"})
  BY <1>1, <1>2, FS_Union
<1>4. IsFiniteSet(({"stations"} \cup {"forecast"}) \cup ({"aws"} \cup {"synop"}))
  BY <1>3, FS_Union
<1>5. IsFiniteSet((({"stations"} \cup {"forecast"}) \cup ({"aws"} \cup {"synop"})) \cup ({"alerts"} \cup {"watch"}))
  BY <1>3, <1>4, FS_Union
<1>6. Url = (({"stations"} \cup {"forecast"}) \cup ({"aws"} \cup {"synop"})) \cup ({"alerts"} \cup {"watch"})
  BY DEF Url
<1> QED
  BY <1>5, <1>6

\* A response is kept for a while, and there is room for one.
LEMMA Lifetimes ==
    /\ MinTtl \in Nat /\ MaxTtl \in Nat /\ MaxEntries \in Nat /\ 1 <= MaxTtl /\ 1 <= MaxEntries
    /\ \A age \in Ages : Ttl(age) \in 1..MaxTtl
BY VedurAssumption DEF VedurAssumption, Ttl

-----------------------------------------------------------------------------
(* The cache                                                               *)

\* Whatever is dropped for it, a kept response leaves the cache a good one.
LEMMA KeepsGood ==
    ASSUME now \in Nat, NEW known, GoodCache(known), NEW f, GoodRead(f), f.url \in Url,
           \A t \in Tool : Uses(t, f.url) => Reads(t, f.body),
           NEW k \in Keeps(known, f)
    PROVE  GoodCache(k)
<1>1. CASE f.ttl = 0
  BY <1>1 DEF Keeps
<1>2. CASE f.ttl # 0
  <2> DEFINE live == {u \in DOMAIN known : known[u].expires > now}
             ends == {u \in live : \A v \in live : known[u].expires <= known[v].expires}
             kept == IF Cardinality(live) >= MaxEntries THEN {live \ {u} : u \in ends} ELSE {live}
             entry == [body |-> f.body, at |-> f.at, expires |-> now + f.ttl]
  <2>1. PICK kin \in kept : k = [u \in kin \cup {f.url} |-> IF u = f.url THEN entry ELSE known[u]]
    BY <1>2 DEF Keeps, Stored
  <2>2. IsFiniteSet(Url) /\ live \subseteq Url /\ live \subseteq DOMAIN known
    BY FiniteUrls DEF GoodCache
  <2>3. /\ IsFiniteSet(live) /\ IsFiniteSet(DOMAIN known)
        /\ Cardinality(live) \in Nat /\ Cardinality(live) <= MaxEntries
    <3>1. IsFiniteSet(DOMAIN known) /\ Cardinality(DOMAIN known) <= MaxEntries
      BY <2>2, FS_Subset DEF GoodCache
    <3>2. /\ IsFiniteSet(live) /\ Cardinality(live) <= Cardinality(DOMAIN known)
          /\ Cardinality(live) \in Nat /\ Cardinality(DOMAIN known) \in Nat
      BY <2>2, <3>1, FS_Subset, FS_CardinalityType
    <3> HIDE DEF live
    <3> QED
      BY <3>1, <3>2, Lifetimes
  <2>4. /\ kin \subseteq live /\ IsFiniteSet(kin)
        /\ Cardinality(kin) \in Nat /\ Cardinality(kin) + 1 <= MaxEntries
    <3>1. CASE Cardinality(live) >= MaxEntries
      <4>1. PICK u \in live : kin = live \ {u}
        BY <2>1, <3>1
      <4>2. Cardinality(live \ {u}) = Cardinality(live) - 1 /\ IsFiniteSet(live \ {u})
        BY <2>3, <4>1, FS_RemoveElement
      <4> HIDE DEF live
      <4>3. Cardinality(kin) \in Nat
        BY <4>1, <4>2, FS_CardinalityType
      <4> QED
        BY <2>3, <4>1, <4>2, <4>3, Lifetimes
    <3>2. CASE ~(Cardinality(live) >= MaxEntries)
      <4>1. kin = live
        BY <2>1, <3>2
      <4> HIDE DEF live
      <4> QED
        BY <2>3, <3>2, <4>1, Lifetimes
    <3> QED
      BY <3>1, <3>2
  <2>5. DOMAIN k = kin \cup {f.url} /\ DOMAIN k \subseteq Url
    BY <2>1, <2>2, <2>4
  <2>6. Cardinality(DOMAIN k) <= MaxEntries
    <3> HIDE DEF live
    <3>1. Cardinality(kin \cup {f.url}) \in {Cardinality(kin), Cardinality(kin) + 1}
      BY <2>4, FS_AddElement
    <3> QED
      BY <2>4, <2>5, <3>1, Lifetimes
  <2>7. ASSUME NEW u \in DOMAIN k PROVE GoodEntry(u, k[u])
    <3>1. CASE u = f.url
      <4>1. k[u] = entry
        BY <2>1, <2>5, <3>1
      <4>2. entry.at = f.at /\ entry.body = f.body /\ entry.expires = now + f.ttl
        OBVIOUS
      <4>3. /\ f.at \in Nat /\ f.ttl \in 1..MaxTtl /\ f.at <= now /\ now <= f.at + 1
            /\ f.url = "alerts" => f.at = now /\ Tells(f.body, f.at - 1)
        BY <1>2, Lifetimes DEF GoodRead
      <4> HIDE DEF entry
      <4> QED
        BY <3>1, <4>1, <4>2, <4>3, Lifetimes DEF GoodEntry
    <3>2. CASE u # f.url
      <4>1. u \in DOMAIN known /\ k[u] = known[u]
        BY <2>1, <2>2, <2>4, <2>5, <3>2
      <4> QED
        BY <4>1 DEF GoodCache
    <3> QED
      BY <3>1, <3>2
  <2> QED
    BY <2>5, <2>6, <2>7 DEF GoodCache
<1> QED
  BY <1>1, <1>2

-----------------------------------------------------------------------------
(* What a read comes to                                                    *)

\* A tool has read these responses, and may use them.
Useful(t, read) ==
    \/ read = <<>> /\ t # "alerts"
    \/ \E f : read = <<f>> /\ Uses(t, f.url) /\ GoodRead(f) /\ Reads(t, f.body)
    \/ \E f, g : /\ read = <<f, g>> /\ t # "alerts"
                 /\ Uses(t, f.url) /\ GoodRead(f) /\ Reads(t, f.body)
                 /\ Uses(t, g.url) /\ GoodRead(g) /\ Reads(t, g.body)

\* A call returns, or asks its second address.
Outcome(c) ==
    \/ /\ \E answer : Return(c, answer)
       /\ GoodCache(cache') /\ WarningsAreShown'
    \/ \E t \in Tool : \E a, u, read :
         /\ Fetch(c, t, a, u, read)
         /\ Uses(t, u) /\ GoodBefore(read, FALSE) /\ (u # "synop" => read = <<>>)

\* A failure shows and keeps nothing.
LEMMA FailsOutcome ==
    ASSUME IInv, NEW c \in Call, Fails(c)
    PROVE  Outcome(c)
<1>1. Return(c, Failed) /\ cache' = cache
  BY DEF Fails
<1>2. out'.kind = "failed"
  BY <1>1 DEF Return, Failed
<1> QED
  BY <1>1, <1>2 DEF Outcome, IInv, WarningsAreShown

\* What useful responses leave in the cache is good.
LEMMA KeepsAllGood ==
    ASSUME IInv, NEW t \in Tool, NEW read, Useful(t, read), NEW k \in KeepsAll(read)
    PROVE  GoodCache(k)
<1> now \in Nat /\ GoodCache(cache)
  BY DEF IInv, TypeInv
<1>0. ASSUME NEW f, Uses(t, f.url), Reads(t, f.body)
      PROVE  f.url \in Url /\ \A s \in Tool : Uses(s, f.url) => Reads(s, f.body)
  BY <1>0, Tools
<1>1. CASE read = <<>>
  BY <1>1 DEF KeepsAll
<1>2. ASSUME NEW f, read = <<f>>, Uses(t, f.url), GoodRead(f), Reads(t, f.body)
      PROVE  GoodCache(k)
  <2>1. k \in Keeps(cache, f)
    BY <1>2 DEF KeepsAll
  <2> QED
    BY <1>0, <1>2, <2>1, KeepsGood
<1>3. ASSUME NEW f, NEW g, read = <<f, g>>, Uses(t, f.url), GoodRead(f), Reads(t, f.body),
             Uses(t, g.url), GoodRead(g), Reads(t, g.body)
      PROVE  GoodCache(k)
  <2>1. PICK known \in Keeps(cache, f) : k \in Keeps(known, g)
    BY <1>3 DEF KeepsAll
  <2>2. GoodCache(known)
    BY <1>0, <1>3, <2>1, KeepsGood
  <2> QED
    BY <1>0, <1>3, <2>1, <2>2, KeepsGood
<1> QED
  BY <1>1, <1>2, <1>3 DEF Useful

\* What useful responses show is current.
LEMMA FinishOutcome ==
    ASSUME IInv, NEW c \in Call, NEW t \in Tool, NEW a, NEW read, Useful(t, read),
           Finish(c, t, a, read), UNCHANGED World
    PROVE  Outcome(c)
<1>1. GoodCache(cache')
  BY KeepsAllGood DEF Finish
<1>2. Return(c, Answer(t, a, {read[i] : i \in 1..Len(read)})) /\ out' = Answer(t, a, {read[i] : i \in 1..Len(read)})
  BY DEF Finish, Return
<1>3. WarningsAreShown'
  <2> SUFFICES ASSUME out'.kind = "alerts", ~out'.partial,
                      NEW w \in Weather \cap out'.area \cap Listed(site'["alerts"]),
                      since'[w] + MaxTtl < now', Expires[w] > now'
               PROVE  w \in out'.shown
    BY DEF WarningsAreShown, Listed
  <2>1. t = "alerts" /\ out'.area = a
    BY <1>2 DEF Answer
  <2>2. PICK f : read = <<f>> /\ Uses(t, f.url) /\ GoodRead(f)
    BY <2>1 DEF Useful
  <2>3. {read[i] : i \in 1..Len(read)} = {f}
    BY <2>2
  <2>4. out' = Answer(t, a, {f})
    BY <1>2, <2>3
  <2>5. Malformed(f.body) = {} /\ out'.shown = a \cap InForce(f.body, now)
    <3>1. out'.shown = a \cap UNION {IF t = "alerts" THEN InForce(g.body, now)
                                     ELSE Listed(g.body) : g \in {f}}
      BY <2>4 DEF Answer
    <3>2. out'.partial = (t = "alerts" /\ \E g \in {f} : Malformed(g.body) # {})
      BY <2>4 DEF Answer
    <3>3. UNION {IF t = "alerts" THEN InForce(g.body, now) ELSE Listed(g.body) : g \in {f}}
          = InForce(f.body, now)
      BY <2>1
    <3> QED
      BY <2>1, <3>1, <3>2, <3>3
  <2>6. f.url = "alerts"
    BY <2>1, <2>2, Tools
  <2>7. w \in Listed(f.body)
    <3>1. w \in Listed(site["alerts"]) /\ since[w] + MaxTtl < now /\ w \in Warning
      BY DEF World, Listed
    <3>2. since[w] < f.at - 1
      BY <2>2, <2>6, <3>1, Lifetimes DEF GoodRead, IInv, TypeInv
    <3> QED
      BY <2>2, <2>6, <3>1, <3>2 DEF GoodRead, Tells
  <2> QED
    BY <2>1, <2>5, <2>7 DEF World, InForce
<1> QED
  BY <1>1, <1>2, <1>3 DEF Outcome

\* Two responses, one after the other.
LEMMA Pairs ==
    ASSUME NEW f, NEW g
    PROVE  <<f>> \o <<g>> = <<f, g>>
<1> DEFINE S == {f, g}
           s == <<f>> \o <<g>>
           p == <<f, g>>
<1>1. <<f>> \in Seq(S) /\ <<g>> \in Seq(S) /\ Len(<<f>>) = 1 /\ Len(<<g>>) = 1
  OBVIOUS
<1>2. s \in Seq(S) /\ Len(s) = 2 /\ s[1] = f /\ s[2] = g
  BY <1>1, ConcatProperties
<1>3. p \in Seq(S) /\ Len(p) = 2 /\ p[1] = f /\ p[2] = g
  OBVIOUS
<1> HIDE DEF S, s, p
<1>4. 1..2 = {1, 2}
  OBVIOUS
<1>5. s = p
  BY <1>2, <1>3, <1>4, SeqEqual
<1> QED
  BY <1>5 DEF s, p

\* The last route of a tool ends the call.
LEMMA LastOutcome ==
    ASSUME IInv, NEW c \in Call, NEW t \in Tool, NEW a, NEW u, Uses(t, u),
           NEW before, GoodBefore(before, TRUE), t # "observations" => before = <<>>,
           NEW read, \/ read = <<>> /\ t # "alerts"
                     \/ \E f : read = <<f>> /\ f.url = u /\ GoodRead(f),
           Last(c, t, a, before, read), UNCHANGED World
    PROVE  Outcome(c)
<1>1. CASE Fails(c)
  BY <1>1, FailsOutcome
<1>2. CASE ~Fails(c)
  <2>1. /\ \A i \in 1..Len(read) : Reads(t, read[i].body)
        /\ Finish(c, t, a, before \o read)
    BY <1>2 DEF Last
  <2>2. \/ read = <<>> /\ t # "alerts"
        \/ \E f : read = <<f>> /\ Uses(t, f.url) /\ GoodRead(f) /\ Reads(t, f.body)
    BY <2>1
  <2>3. CASE before = <<>>
    <3>1. before \o read = read
      BY <2>2, <2>3
    <3> QED
      BY <2>1, <2>2, <3>1, FinishOutcome DEF Useful
  <2>4. ASSUME NEW f, before = <<f>>, f.url = "aws", RecordRead(f.body), f.at \in Nat,
               f.ttl \in 0..MaxTtl, f.at <= now, f.ttl > 0 => now <= f.at + 1,
               t = "observations"
        PROVE  Outcome(c)
    <3>1. Uses(t, f.url) /\ GoodRead(f) /\ Reads(t, f.body)
      BY <2>4 DEF Uses, Address, GoodRead, Reads
    <3>2. CASE read = <<>>
      <4>1. before \o read = <<f>>
        BY <2>4, <3>2
      <4> QED
        BY <2>1, <3>1, <4>1, FinishOutcome DEF Useful
    <3>3. ASSUME NEW g, read = <<g>>, Uses(t, g.url), GoodRead(g), Reads(t, g.body)
          PROVE  Outcome(c)
      <4>1. before \o read = <<f, g>>
        BY <2>4, <3>3, Pairs
      <4>2. Useful(t, <<f, g>>)
        BY <2>4, <3>1, <3>3 DEF Useful
      <4> QED
        BY <2>1, <4>1, <4>2, FinishOutcome
    <3> QED
      BY <2>2, <3>2, <3>3
  <2> QED
    BY <2>3, <2>4 DEF GoodBefore
<1> QED
  BY <1>1, <1>2

\* What is taken from the cache is current.
LEMMA CacheReads ==
    ASSUME IInv, NEW u, Cached(u)
    PROVE  GoodRead(FromCache(u)) /\ FromCache(u).url = u /\ FromCache(u).ttl = 0
<1>1. GoodEntry(u, cache[u]) /\ cache[u].expires > now /\ now \in Nat
  BY DEF IInv, TypeInv, GoodCache, Cached
<1>2. /\ FromCache(u).url = u /\ FromCache(u).ttl = 0
      /\ FromCache(u).at = cache[u].at /\ FromCache(u).body = cache[u].body
  BY DEF FromCache, Fetched
<1> QED
  BY <1>1, <1>2, Lifetimes DEF GoodRead, GoodEntry

\* An address has answered: the call ends, or asks the second one with what it has.
LEMMA TookOutcome ==
    ASSUME IInv, NEW c \in Call, NEW t \in Tool, NEW a, NEW u, Uses(t, u),
           GoodBefore(first[c], TRUE), u # "synop" => first[c] = <<>>,
           NEW read, \/ read = <<>> /\ u \in {"aws", "synop"}
                     \/ \E f : /\ read = <<f>> /\ f.url = u /\ GoodRead(f)
                               /\ f.ttl > 0 => f.at = now,
           Took(c, t, a, u, read), UNCHANGED World
    PROVE  Outcome(c)
<1>1. /\ u \in {"aws", "synop"} <=> t = "observations"
      /\ GoodBefore(<<>>, TRUE)
  BY Tools DEF GoodBefore
<1>2. \/ read = <<>> /\ t # "alerts"
      \/ \E f : read = <<f>> /\ f.url = u /\ GoodRead(f)
  BY <1>1
<1>3. CASE u # "aws"
  <2>1. Last(c, t, a, first[c], read)
    BY <1>3 DEF Took
  <2> QED
    BY <1>1, <1>2, <1>3, <2>1, LastOutcome
<1>4. CASE u = "aws" /\ read # <<>> /\ (~RecordRead(read[1].body) \/ Listed(read[1].body) # {})
  <2>1. Last(c, t, a, <<>>, read)
    BY <1>4 DEF Took
  <2> QED
    BY <1>1, <1>2, <2>1, LastOutcome
<1>5. CASE u = "aws" /\ ~(read # <<>> /\ (~RecordRead(read[1].body) \/ Listed(read[1].body) # {}))
  <2>1. GoodBefore(read, FALSE) /\ GoodBefore(read, TRUE)
    <3>1. ASSUME NEW f, read = <<f>>, f.url = u, GoodRead(f), f.ttl > 0 => f.at = now
          PROVE  /\ f.url = "aws" /\ RecordRead(f.body) /\ f.at \in Nat /\ f.ttl \in 0..MaxTtl
                 /\ f.at <= now /\ (f.ttl > 0 => now <= f.at) /\ (f.ttl > 0 => now <= f.at + 1)
      <4>1. read # <<>> /\ read[1] = f
        BY <3>1
      <4>2. now \in Nat
        BY DEF IInv, TypeInv
      <4> QED
        BY <1>5, <3>1, <4>1, <4>2 DEF GoodRead
    <3> QED
      BY <3>1 DEF GoodBefore
  <2>2. Uses(t, "synop") /\ t = "observations"
    BY <1>1, <1>5 DEF Uses
  <2>3. CASE Cached("synop")
    <3>1. Last(c, t, a, read, <<FromCache("synop")>>)
      BY <1>5, <2>3 DEF Took
    <3>2. GoodRead(FromCache("synop")) /\ FromCache("synop").url = "synop"
      BY <2>3, CacheReads
    <3> QED
      BY <2>1, <2>2, <3>1, <3>2, LastOutcome
  <2>4. CASE ~Cached("synop")
    <3>1. Fetch(c, t, a, "synop", read)
      BY <1>5, <2>4 DEF Took
    <3> QED
      BY <2>1, <2>2, <3>1 DEF Outcome
  <2> QED
    BY <2>3, <2>4
<1> QED
  BY <1>3, <1>4, <1>5

-----------------------------------------------------------------------------
(* The steps                                                               *)

\* A call begins.
LEMMA BeginOutcome ==
    ASSUME IInv, NEW c \in Call, Begin(c)
    PROVE  Outcome(c) /\ UNCHANGED World
<1>1. PICK t \in Tool, a \in SUBSET Warning :
        LET u == Address(t) IN
        IF Cached(u) THEN Took(c, t, a, u, <<FromCache(u)>>) ELSE Fetch(c, t, a, u, <<>>)
  BY VedurAssumption DEF Begin, VedurAssumption
<1>2. Uses(t, Address(t)) /\ Address(t) # "synop"
  BY Tools
<1>3. first[c] = <<>> /\ GoodBefore(<<>>, TRUE) /\ GoodBefore(<<>>, FALSE) /\ UNCHANGED World
  BY DEF Begin, IInv, CallInv, GoodBefore
<1>4. CASE Cached(Address(t))
  <2>1. /\ GoodRead(FromCache(Address(t))) /\ FromCache(Address(t)).url = Address(t)
        /\ ~(FromCache(Address(t)).ttl > 0)
    BY <1>4, CacheReads
  <2>2. Took(c, t, a, Address(t), <<FromCache(Address(t))>>)
    BY <1>1, <1>4
  <2> QED
    BY <1>2, <1>3, <2>1, <2>2, TookOutcome
<1>5. CASE ~Cached(Address(t))
  <2>1. Fetch(c, t, a, Address(t), <<>>)
    BY <1>1, <1>5
  <2> QED
    BY <1>2, <1>3, <2>1 DEF Outcome
<1> QED
  BY <1>4, <1>5

\* What a waiting call had may be a tick old.
LEMMA Waiting ==
    ASSUME IInv, NEW c \in Call, step[c] # "idle"
    PROVE  /\ tool[c] \in Tool /\ Uses(tool[c], url[c])
           /\ GoodBefore(first[c], TRUE) /\ (url[c] # "synop" => first[c] = <<>>)
<1>1. /\ tool[c] \in Tool /\ Uses(tool[c], url[c]) /\ GoodBefore(first[c], late[c])
      /\ url[c] # "synop" => first[c] = <<>>
  BY DEF IInv, CallInv
<1>2. GoodBefore(first[c], TRUE)
  BY <1>1 DEF GoodBefore, IInv, TypeInv
<1> QED
  BY <1>1, <1>2

\* A response arrives.
LEMMA ReceiveOutcome ==
    ASSUME IInv, NEW c \in Call, Receive(c)
    PROVE  Outcome(c) /\ UNCHANGED World
<1>1. PICK age \in Ages :
        Took(c, tool[c], area[c], url[c], <<Fetched(url[c], coming[c], now, Ttl(age))>>)
  BY DEF Receive
<1> DEFINE f == Fetched(url[c], coming[c], now, Ttl(age))
<1>2. f.url = url[c] /\ f.body = coming[c] /\ f.at = now /\ f.ttl = Ttl(age)
  BY DEF Fetched
<1>3. step[c] = "served" /\ UNCHANGED World
  BY DEF Receive
<1>4. url[c] = "alerts" => Tells(coming[c], now - 1)
  <2>1. now \in Nat /\ \A w \in Listed(site["alerts"]) : since[w] \in Nat
    BY DEF IInv, TypeInv, Listed
  <2>2. url[c] = "alerts" => Tells(coming[c], now) \/ Tells(coming[c], now - 1)
    BY <1>3 DEF IInv, CallInv
  <2> QED
    BY <2>1, <2>2 DEF Tells
<1>5. Ttl(age) \in 1..MaxTtl /\ now \in Nat
  BY Lifetimes DEF IInv, TypeInv
<1> HIDE DEF f
<1>6. GoodRead(f)
  BY <1>2, <1>4, <1>5, Lifetimes DEF GoodRead
<1>7. Took(c, tool[c], area[c], url[c], <<f>>)
  BY <1>1 DEF f
<1> QED
  BY <1>2, <1>3, <1>6, <1>7, Waiting, TookOutcome

\* A route has no data.
LEMMA NoDataOutcome ==
    ASSUME IInv, NEW c \in Call, ReceiveNoData(c)
    PROVE  Outcome(c) /\ UNCHANGED World
<1>1. /\ step[c] = "served" /\ url[c] \in {"aws", "synop"} /\ UNCHANGED World
      /\ Took(c, tool[c], area[c], url[c], <<>>)
  BY DEF ReceiveNoData
<1> QED
  BY <1>1, Waiting, TookOutcome

\* A cache that is good stays so while nothing else changes.
LEMMA SameWorld ==
    ASSUME UNCHANGED World, GoodCache(cache')
    PROVE  GoodCache(cache)'
  BY DEF World, GoodCache, GoodEntry, Tells, Listed

\* A call that returns or asks again disturbs no other.
LEMMA OutcomeKeeps ==
    ASSUME IInv, NEW c \in Call, Outcome(c), UNCHANGED World
    PROVE  IInv'
<1>1. ASSUME NEW d \in Call, \/ d # c /\ step'[d] = step[d] /\ tool'[d] = tool[d] /\ url'[d] = url[d]
                                /\ late'[d] = late[d] /\ coming'[d] = coming[d] /\ first'[d] = first[d]
                             \/ step'[d] = "idle" /\ first'[d] = <<>>
                             \/ /\ step'[d] = "sent" /\ tool'[d] \in Tool /\ Uses(tool'[d], url'[d])
                                /\ (url'[d] # "synop" => first'[d] = <<>>)
                                /\ GoodBefore(first'[d], late'[d])
      PROVE  /\ step'[d] = "idle" => first'[d] = <<>>
             /\ step'[d] # "idle" =>
                  /\ tool'[d] \in Tool /\ Uses(tool'[d], url'[d])
                  /\ url'[d] # "synop" => first'[d] = <<>>
                  /\ GoodBefore(first'[d], late'[d])
             /\ step'[d] = "served" /\ url'[d] = "alerts" =>
                  Tells(coming'[d], IF late'[d] THEN now - 1 ELSE now)
  BY <1>1 DEF IInv, CallInv
<1>2. ASSUME \A d \in Call :
               \/ d # c /\ step'[d] = step[d] /\ tool'[d] = tool[d] /\ url'[d] = url[d]
                  /\ late'[d] = late[d] /\ coming'[d] = coming[d] /\ first'[d] = first[d]
               \/ step'[d] = "idle" /\ first'[d] = <<>>
               \/ /\ step'[d] = "sent" /\ tool'[d] \in Tool /\ Uses(tool'[d], url'[d])
                  /\ (url'[d] # "synop" => first'[d] = <<>>)
                  /\ GoodBefore(first'[d], late'[d])
      PROVE  CallInv'
  <2>1. \A read, slow : GoodBefore(read, slow) => GoodBefore(read, slow)'
    BY DEF World, GoodBefore, RecordRead, Malformed, Listed
  <2>2. \A body, time : Tells(body, time) => Tells(body, time)'
    BY DEF World, Tells, Listed
  <2> QED
    BY <1>1, <1>2, <2>1, <2>2 DEF CallInv, World, Uses, Address
<1>3. ASSUME NEW answer, Return(c, answer), GoodCache(cache'), WarningsAreShown'
      PROVE  IInv'
  <2>1. TypeInv'
    BY <1>3 DEF Return, IInv, TypeInv, World
  <2>2. CallInv'
    BY <1>2, <1>3 DEF Return, IInv, TypeInv
  <2> QED
    BY <1>3, <2>1, <2>2, SameWorld DEF IInv
<1>4. ASSUME NEW t \in Tool, NEW a, NEW u, NEW read, Fetch(c, t, a, u, read), Uses(t, u),
             GoodBefore(read, FALSE), u # "synop" => read = <<>>
      PROVE  IInv'
  <2>1. TypeInv'
    BY <1>4 DEF Fetch, IInv, TypeInv, World
  <2>2. CallInv'
    BY <1>2, <1>4 DEF Fetch, IInv, TypeInv
  <2>3. WarningsAreShown'
    BY <1>4 DEF Fetch, WarningsAreShown, Silent
  <2>4. GoodCache(cache')
    BY <1>4 DEF Fetch, IInv
  <2> QED
    BY <2>1, <2>2, <2>3, <2>4, SameWorld DEF IInv
<1> QED
  BY <1>3, <1>4 DEF Outcome

\* The address answers a call.
LEMMA ServeKeeps ==
    ASSUME IInv, NEW c \in Call, Serve(c)
    PROVE  IInv'
<1>1. /\ step[c] = "sent" /\ step' = [step EXCEPT ![c] = "served"]
      /\ coming' = [coming EXCEPT ![c] = site[url[c]]] /\ out' = Silent
      /\ UNCHANGED World /\ UNCHANGED <<cache, tool, area, url, tries, late, first>>
  BY DEF Serve
<1>2. TypeInv'
  BY <1>1 DEF IInv, TypeInv, World
<1>3. CallInv'
  <2>1. \A read, slow : GoodBefore(read, slow) => GoodBefore(read, slow)'
    BY <1>1 DEF World, GoodBefore, RecordRead, Malformed, Listed
  <2>2. \A body, time : Tells(body, time) => Tells(body, time)'
    BY <1>1 DEF World, Tells, Listed
  <2>3. \A time : Tells(site["alerts"], time)
    BY DEF Tells
  <2> QED
    BY <1>1, <2>1, <2>2, <2>3 DEF IInv, TypeInv, CallInv, World, Uses, Address
<1>4. GoodCache(cache)' /\ WarningsAreShown'
  BY <1>1, SameWorld DEF IInv, WarningsAreShown, Silent
<1> QED
  BY <1>2, <1>3, <1>4 DEF IInv

\* An attempt fails, and the call with it or not.
LEMMA AttemptKeeps ==
    ASSUME IInv, NEW c \in Call, AttemptFails(c)
    PROVE  IInv'
<1>0. step[c] \in {"sent", "served"} /\ UNCHANGED World
  BY DEF AttemptFails
<1>1. CASE Fails(c)
  BY <1>0, <1>1, FailsOutcome, OutcomeKeeps
<1>2. CASE ~Fails(c)
  <2>1. /\ step' = [step EXCEPT ![c] = "sent"] /\ coming' = [coming EXCEPT ![c] = Garbage]
        /\ out' = Silent /\ UNCHANGED <<cache, tool, area, url, late, first>>
    BY <1>2 DEF AttemptFails
  <2>2. TypeInv'
    BY <1>0, <2>1 DEF IInv, TypeInv, World
  <2>3. CallInv'
    <3>1. \A read, slow : GoodBefore(read, slow) => GoodBefore(read, slow)'
      BY <1>0 DEF World, GoodBefore, RecordRead, Malformed, Listed
    <3>2. \A body, time : Tells(body, time) => Tells(body, time)'
      BY <1>0 DEF World, Tells, Listed
    <3> QED
      BY <1>0, <2>1, <3>1, <3>2 DEF IInv, TypeInv, CallInv, World, Uses, Address
  <2>4. GoodCache(cache)' /\ WarningsAreShown'
    BY <1>0, <2>1, SameWorld DEF IInv, WarningsAreShown, Silent
  <2> QED
    BY <2>2, <2>3, <2>4 DEF IInv
<1> QED
  BY <1>1, <1>2

\* A tick makes what every call has older by one, once in a fetch.
LEMMA TickKeeps ==
    ASSUME IInv, Tick
    PROVE  IInv'
<1>1. /\ now' = now + 1 /\ late' = [c \in Call |-> step[c] # "idle"] /\ out' = Silent
      /\ \A c \in Call : ~late[c]
      /\ UNCHANGED <<site, since, cache, step, tool, area, url, coming, first>>
  BY DEF Tick
<1>2. TypeInv'
  BY <1>1 DEF IInv, TypeInv
<1>3. CallInv'
  <2>1. \A read : GoodBefore(read, FALSE) => GoodBefore(read, TRUE)'
    BY <1>1 DEF IInv, TypeInv, GoodBefore, RecordRead, Malformed, Listed
  <2>2. \A body, time : Tells(body, time) => Tells(body, time)'
    BY <1>1 DEF Tells, Listed
  <2>3. PICK time : time = now
    OBVIOUS
  <2>7. now' - 1 = time
    BY <1>1, <2>3 DEF IInv, TypeInv
  <2>4. ASSUME NEW c \in Call, step[c] # "idle"
        PROVE  /\ tool[c] \in Tool /\ Uses(tool[c], url[c])
               /\ url[c] # "synop" => first[c] = <<>>
               /\ GoodBefore(first[c], TRUE)'
               /\ step[c] = "served" /\ url[c] = "alerts" => Tells(coming[c], time)'
    <3>1. /\ tool[c] \in Tool /\ Uses(tool[c], url[c]) /\ GoodBefore(first[c], FALSE)
          /\ url[c] # "synop" => first[c] = <<>>
          /\ step[c] = "served" /\ url[c] = "alerts" => Tells(coming[c], time)
      BY <1>1, <2>3, <2>4 DEF IInv, CallInv, GoodBefore
    <3>2. first'[c] = first[c] /\ coming'[c] = coming[c]
      BY <1>1
    <3> QED
      BY <2>1, <2>2, <3>1, <3>2
  <2>5. \A c \in Call : step[c] # "idle" => late'[c] = TRUE
    BY <1>1
  <2>6. \A c \in Call : step[c] = "idle" => first[c] = <<>>
    BY DEF IInv, CallInv
  <2> QED
    BY <1>1, <2>4, <2>5, <2>6, <2>7 DEF CallInv, Uses, Address
<1>4. GoodCache(cache)'
  BY <1>1 DEF IInv, TypeInv, GoodCache, GoodEntry, Tells, Listed
<1> QED
  BY <1>1, <1>2, <1>3, <1>4 DEF IInv, WarningsAreShown, Silent

\* What a response or the cache lists stays behind by no more than it was.
LEMMA PublishTells ==
    ASSUME IInv, NEW u \in Url, Publish(u)
    PROVE  \A body : \A time \in Int : time <= now /\ Tells(body, time) => Tells(body, time)'
<1>1. PICK page : /\ site' = [site EXCEPT ![u] = page]
                  /\ since' = IF u # "alerts" THEN since
                              ELSE [w \in Warning |->
                                      IF w \notin Listed(page) THEN 0
                                      ELSE IF w \in Listed(site[u]) THEN since[w] ELSE now]
  BY DEF Publish
<1>2. CASE u # "alerts"
  BY <1>1, <1>2 DEF IInv, TypeInv, Tells, Listed
<1>3. CASE u = "alerts"
  <2>1. site'["alerts"] = page
    BY <1>1, <1>3 DEF IInv, TypeInv
  <2>2. ASSUME NEW w \in Listed(page)
        PROVE  IF w \in Listed(site["alerts"]) THEN since'[w] = since[w] ELSE since'[w] = now
    BY <1>1, <1>3, <2>2 DEF Listed
  <2>3. ASSUME NEW body, NEW time \in Int, time <= now, Tells(body, time)
        PROVE  Tells(body, time)'
    <3> SUFFICES ASSUME NEW w \in Listed(site'["alerts"]), since'[w] < time
                 PROVE  w \in Listed(body)
      BY DEF Tells, Listed
    <3>1. w \in Listed(page)
      BY <2>1
    <3>2. ~(now < time)
      BY <2>3 DEF IInv, TypeInv
    <3>3. w \in Listed(site["alerts"]) /\ since[w] < time
      BY <2>2, <3>1, <3>2
    <3> QED
      BY <2>3, <3>3 DEF Tells
  <2> QED
    BY <2>3
<1> QED
  BY <1>2, <1>3

\* What an address lists from now on makes nothing that was read any older.
LEMMA PublishKeeps ==
    ASSUME IInv, NEW u \in Url, Publish(u)
    PROVE  IInv'
<1>1. /\ out' = Silent
      /\ UNCHANGED <<now, cache, step, tool, area, url, late, coming, first>>
  BY DEF Publish
<1>2. TypeInv'
  BY <1>1 DEF Publish, IInv, TypeInv
<1>3. CallInv'
  <2>1. \A read, slow : GoodBefore(read, slow) => GoodBefore(read, slow)'
    BY <1>1 DEF GoodBefore, RecordRead, Malformed, Listed
  <2>2. now \in Int /\ now - 1 \in Int /\ now <= now /\ now - 1 <= now
    BY DEF IInv, TypeInv
  <2>3. ASSUME NEW c \in Call, step[c] = "served", url[c] = "alerts"
        PROVE  IF late[c] THEN \E time : time = now - 1 /\ Tells(coming[c], time)'
               ELSE \E time : time = now /\ Tells(coming[c], time)'
    <3>1. coming'[c] = coming[c]
      BY <1>1
    <3>2. IF late[c] THEN Tells(coming[c], now - 1) ELSE Tells(coming[c], now)
      BY <2>3 DEF IInv, CallInv
    <3> QED
      BY <2>2, <3>1, <3>2, PublishTells
  <2> QED
    BY <1>1, <2>1, <2>3 DEF IInv, CallInv, Uses, Address
<1>4. GoodCache(cache)'
  <2>1. ASSUME NEW v \in DOMAIN cache
        PROVE  GoodEntry(v, cache[v])'
    <3>1. GoodEntry(v, cache[v]) /\ now \in Nat /\ cache[v].at \in Nat /\ cache[v].at <= now
      BY DEF IInv, TypeInv, GoodCache, GoodEntry
    <3>2. cache[v].at - 1 \in Int /\ cache[v].at - 1 <= now
      BY <3>1
    <3>3. \A body, time : time = cache[v].at - 1 /\ Tells(body, time) => Tells(body, time)'
      BY <3>2, PublishTells
    <3>4. \A t \in Tool : \A body : Reads(t, body) => Reads(t, body)'
      BY DEF Reads, StationsRead, ForecastRead, PostsRead, WarningsRead, RecordRead, Malformed, Listed
    <3> QED
      BY <1>1, <3>1, <3>3, <3>4 DEF GoodEntry, Uses, Address
  <2> QED
    BY <1>1, <2>1 DEF IInv, GoodCache
<1> QED
  BY <1>1, <1>2, <1>3, <1>4 DEF IInv, WarningsAreShown, Silent

-----------------------------------------------------------------------------
(* The theorems                                                            *)

\* At the start nothing is cached, listed or asked.
LEMMA Begins == Init => IInv
<1> SUFFICES ASSUME Init PROVE IInv
  OBVIOUS
<1>1. TypeInv
  BY DEF Init, TypeInv, Url
<1>2. CallInv
  BY DEF Init, CallInv
<1>3. GoodCache(cache)
  <2>1. DOMAIN cache = {} /\ Cardinality({}) = 0
    BY FS_EmptySet DEF Init
  <2> QED
    BY <2>1, Lifetimes DEF GoodCache
<1>4. WarningsAreShown
  BY DEF Init, WarningsAreShown, Silent
<1> QED
  BY <1>1, <1>2, <1>3, <1>4 DEF IInv

\* What is cached, read and shown is as new as it claims, in every behaviour
\* (Http::fetch, Http::store, Vedur::run).
THEOREM CacheInductive == Spec => []IInv
<1>1. IInv /\ [Next]_vars => IInv'
  <2> SUFFICES ASSUME IInv, [Next]_vars PROVE IInv'
    OBVIOUS
  <2>1. ASSUME NEW c \in Call, Begin(c) \/ Receive(c) \/ ReceiveNoData(c) PROVE IInv'
    BY <2>1, BeginOutcome, ReceiveOutcome, NoDataOutcome, OutcomeKeeps
  <2>2. ASSUME NEW c \in Call, Serve(c) \/ AttemptFails(c) PROVE IInv'
    BY <2>2, ServeKeeps, AttemptKeeps
  <2>3. ASSUME NEW c \in Call, ReceiveRefused(c) \/ Cancel(c) PROVE IInv'
    BY <2>3, FailsOutcome, OutcomeKeeps DEF ReceiveRefused, Cancel
  <2>4. CASE Tick \/ \E u \in Url : Publish(u)
    BY <2>4, TickKeeps, PublishKeeps
  <2>5. CASE UNCHANGED vars
    <3>1. UNCHANGED World /\ UNCHANGED <<cache, step, tool, area, url, late, coming, first, out>>
      BY <2>5 DEF vars, World
    <3>2. TypeInv'
      BY <3>1 DEF World, IInv, TypeInv
    <3>3. CallInv'
      BY <3>1 DEF World, IInv, CallInv, GoodBefore, Tells, Listed, Uses, Address, RecordRead, Malformed
    <3>4. GoodCache(cache)'
      BY <3>1, SameWorld DEF IInv
    <3>5. WarningsAreShown'
      BY <3>1 DEF World, IInv, WarningsAreShown, Listed
    <3> QED
      BY <3>2, <3>3, <3>4, <3>5 DEF IInv
  <2> QED
    BY <2>1, <2>2, <2>3, <2>4, <2>5 DEF Next
<1> QED
  BY <1>1, Begins, PTL DEF Spec

\* For any calls, addresses, lifetimes and times, an answer that says it is not
\* partial hides no warning that the feed has listed for longer than a response is
\* cached, and what is cached was read by the tool that it is given to (Vedur::run,
\* Http::store).
THEOREM AnswersStayCurrent == Spec => []AnswersAreCurrent
<1>1. IInv => AnswersAreCurrent
  <2> SUFFICES ASSUME IInv PROVE KeptWasRead
    BY DEF IInv, AnswersAreCurrent
  <2> QED
    BY DEF IInv, GoodCache, GoodEntry, KeptWasRead, Uses
<1> QED
  BY <1>1, CacheInductive, PTL
=============================================================================
