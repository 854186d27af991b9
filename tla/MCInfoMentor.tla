----------------------------- MODULE MCInfoMentor -----------------------------
(* Small instances of three modules of infomentor-mcp, of which a behaviour    *)
(* runs one:                                                                   *)
(*  - InfoMentorClient: a read, a login, two logouts and a close; two accounts *)
(*    of two children;                                                         *)
(*  - Collection: two children, whose folders share a message;                 *)
(*  - InfoMentorHttp: two hosts, a cookie that expires on its own or is        *)
(*    emptied, one for all hosts with a Max-Age.                               *)
EXTENDS InfoMentorMcp, TLC

CONSTANTS r1, s1, o1, o2, a, b, k1, k2, c1, c2, m1, m2

VARIABLE part

collection ==
    <<pupils, selected, mail, body, board, files, now, step, input, initial, original, previous, current,
      skipped, left, page, todo, unread, failed, answer, cursor, view, calls, changes, skips, fresh, gone,
      deleted, meddled>>
http == <<time, url, form, hops, jar, cooldown, saved, sent, home, paused>>

Cookie(key, value, domain, path, age, expires) ==
    [key |-> key, value |-> value, domain |-> domain, path |-> path, age |-> age, expires |-> expires]

Hosts == {"im1", "minn"}
Addresses == {[host |-> "im1", path |-> "/"], [host |-> "minn", path |-> "/app"]}
OfferedCookies ==
    {Cookie("sid", "v", "none", "none", None, 2), Cookie("sid", "", "none", "none", None, None),
     Cookie("idp", "w", "infomentor.is", "/app", 1, None)}

InOrder == [S \in SUBSET {c1, c2} |-> SelectSeq(<<c1, c2>>, LAMBDA c : c \in S)]
Folders == (c1 :> <<m2, m1>>) @@ (c2 :> <<m1>>)

Simple ==
    /\ sessions[1] = [account |-> a, child |-> k1, live |-> TRUE]
    /\ record = [session |-> [id |-> 1, account |-> a, child |-> None], sign |-> None]
    /\ asked = [r \in Read |-> None]

MCInit ==
    /\ part \in {"client", "collection", "http"}
    /\ Init /\ Coll!Init /\ Http!Init
    /\ part # "client" => Simple

MCNext ==
    \/ part = "client" /\ Next /\ UNCHANGED <<part, collection, http>>
    \/ part = "collection" /\ Coll!Next /\ UNCHANGED <<part, vars, http>>
    \/ part = "http" /\ Http!Next /\ UNCHANGED <<part, vars, collection>>
    \* These may stop; only the client may not, unless it is closed.
    \/ part # "client" /\ UNCHANGED <<part, vars, collection, http>>

MCSpec == MCInit /\ [][MCNext]_<<part, vars, collection, http>>

SYM == Permutations({k1, k2}) \cup Permutations({o1, o2})
=============================================================================
