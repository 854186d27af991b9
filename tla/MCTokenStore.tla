---------------------------- MODULE MCTokenStore ----------------------------
(* Small instances of three modules about the store's files, of which a       *)
(* behaviour runs one:                                                        *)
(*  - TokenStore: a few processes, those of a kind alike;                     *)
(*  - StorePaths: /a/b/s, of which a may be sticky or another user's, b a     *)
(*    directory or a link to c, and s another user's, open, a link or         *)
(*    missing; or a file in it; or grants on one of them.  Other users may    *)
(*    put a directory or a link of theirs in place;                           *)
(*  - StoreNames: the environments of a Mac and one of Linux, with old files  *)
(*    of every kind.                                                          *)
EXTENDS StoreFiles, TLC

VARIABLES
    part,
    directories, node, at, start, dir, current, info, names, links, found, checked, pending, cache,
    verified, route, own, included, moves, checks

paths == <<directories, node, at, start, dir, current, info, names, links, found, checked, pending, cache,
           verified, route, own, included, moves, checks>>
old == <<env, where, file, step, todo, entries, identities, deciding, named, saves>>

-----------------------------------------------------------------------------
(* File trees: / is inode 1, a 2, b 3 or, as a link, 4, c 5, s 6, and a file  *)
(* in it 7; other users have 8 and 9; 10 and 11 are unused.                   *)

NoNames == [x \in {} |-> 0]

Dir(owner, perm) ==
    [kind |-> "directory", owner |-> owner, perm |-> perm, links |-> 1, names |-> NoNames,
     target |-> <<>>, acl |-> "none", changed |-> 0, excluded |-> FALSE]

ALink(owner, target) == [Dir(owner, "read") EXCEPT !.kind = "link", !.target = target]

AFile(owner, perm, n) == [Dir(owner, perm) EXCEPT !.kind = "file", !.links = n]

Unused == [Dir("nobody", "read") EXCEPT !.kind = "free"]

Tree(a, b, c, s, k) ==
    LET has(name, n, x) == IF x.kind = "free" THEN NoNames ELSE (name :> n)
        asLink(x) == IF x.kind = "link" THEN x ELSE Unused
        under(x) == IF x.kind = "directory" THEN [x EXCEPT !.names = has("s", 6, s)] ELSE Unused
    IN << [Dir("root", "read") EXCEPT !.names = ("a" :> 2) @@ ("c" :> 5)],
          [a EXCEPT !.names = has("b", IF b.kind = "link" THEN 4 ELSE 3, b)],
          under(b), asLink(b), under(c),
          IF s.kind = "directory" THEN [s EXCEPT !.names = has("k", 7, k)] ELSE s, k,
          Dir("other", "private"), ALink("other", <<"/", "c">>), Unused, Unused >>

Mine == Dir("me", "private")

Above == {Dir("root", "sticky"), Dir("root", "read"), Dir("me", "write"), Dir("other", "read")}

Plainly == [nodes |-> Tree(Dir("me", "read"), Mine, Mine, Mine, Unused), directories |-> << <<"a", "b", "s">> >>]

\* Every kind of directory, link and file on the way; and grants on a store of two directories.
ForTrees ==
    {Plainly} \cup
    {[Plainly EXCEPT !.nodes = n] : n \in
       {Tree(a, b, Mine, s, Unused) :
          a \in Above, b \in {Mine, Dir("other", "read"), Unused},
          s \in {Mine, Dir("other", "private"), Dir("me", "read"), ALink("me", <<"/", "c">>), Unused}}
       \cup {Tree(a, ALink(o, t), c, s, Unused) :
          a \in {Dir("root", "sticky"), Dir("me", "write")}, o \in {"me", "other"}, t \in {<<"/", "c">>, <<"..", "c">>, <<"b">>},
          c \in {Mine, Dir("me", "write")}, s \in {Mine, Unused}}
       \cup {Tree(Dir("root", "sticky"), Mine, Mine, Mine, k) :
          k \in {AFile("me", "private", 1), AFile("me", "private", 2), AFile("other", "private", 1),
                 AFile("me", "read", 1), Mine}}}
    \cup {[nodes |-> [Tree(Dir("me", "read"), Mine, Mine, Mine, AFile("me", "private", 1)) EXCEPT ![i].acl = acl],
           directories |-> << <<"a", "b">>, <<"a", "b", "s">> >>] :
          i \in {2, 3, 6, 7}, acl \in {"read", "change", "mine"}}

Paths == INSTANCE StorePaths WITH
    store <- route, Node <- 1..11, Root <- 1, Trees <- ForTrees, Planted <- {8, 9},
    File <- <<"a", "b", "s", "k">>, MaxLinks <- 2, MaxSteps <- 8, MaxMoves <- 2, MaxChecks <- 2

Environments ==
    [mac : {TRUE}, config : {"unset", "support", "elsewhere"}, data : {"unset"}]
    \cup {[mac |-> TRUE, config |-> "relative", data |-> "elsewhere"],
          [mac |-> FALSE, config |-> "relative", data |-> "elsewhere"]}

ASSUME PathsAssumption == Paths!PathsAssumption

\* Once the store's directories have passed, no other user can change where they
\* are or see into them (check_store_paths).
NobodyElseGetsIn == Paths!NobodyElseGetsIn

\* A store is written only where backups leave it out (exclude_from_backups).
LeftOutOfBackups == Paths!LeftOutOfBackups

-----------------------------------------------------------------------------
TokenStands == plain = None /\ op = [c \in Command |-> "set"] /\ Init

PathsStand == node = Plainly.nodes /\ directories = Plainly.directories /\ Paths!Init

NamesStand ==
    /\ env = [mac |-> FALSE, config |-> "relative", data |-> "elsewhere"]
    /\ where = [b \in Old!Base |-> b] /\ file = [p \in Old!Everywhere |-> Old!NoFile]
    /\ Old!Init

MCInit ==
    \/ part = "token" /\ Init /\ PathsStand /\ NamesStand
    \/ part = "paths" /\ TokenStands /\ Paths!Init /\ NamesStand
    \/ part = "names" /\ TokenStands /\ PathsStand /\ Old!Init

MCNext ==
    \/ part = "token" /\ Next /\ UNCHANGED <<part, paths, old>>
    \/ part = "paths" /\ Paths!Next /\ UNCHANGED <<part, vars, old>>
    \/ part = "names" /\ Old!Next /\ UNCHANGED <<part, vars, paths>>

MCSpec == MCInit /\ [][MCNext]_<<part, vars, paths, old>>

Symmetric == Permutations(Command) \cup Permutations(Reader) \cup Permutations(Check)

=============================================================================
