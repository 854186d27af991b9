------------------------------ MODULE StorePaths ------------------------------
(***************************************************************************)
(* Where family-store keeps its files: before a process reads or writes    *)
(* one, it looks at every directory on the way (check_store_paths) and     *)
(* has the store's own left out of backups (exclude_from_backups).  Other  *)
(* users go on meanwhile, wherever the permissions let them; so the check  *)
(* takes one step for each of its calls of the system, by the path that    *)
(* the call is given.                                                      *)
(*                                                                         *)
(* A path is a sequence of names from the root; in a link's target, "/" is *)
(* the root and ".." the directory above.  A directory's permissions are   *)
(* private (0700), read (0755), write (0777) or sticky (1777).             *)
(***************************************************************************)
EXTENDS Naturals, Sequences, SequencesExt, FiniteSets

CONSTANTS
    Node,        \* inodes, the lowest unused one first
    Root,        \* the root directory
    Trees,       \* the file trees that a process may find, and its store directories
    Planted,     \* inodes of other users that they may put somewhere
    File,        \* a file of the store
    MaxLinks,    \* how many links the walk follows: 40
    MaxSteps,    \* how many names and links the kernel follows
    MaxMoves, MaxChecks  \* bounds: what other users do; the checks of a process

PathsAssumption ==
    /\ Node \subseteq Nat /\ Root \in Node /\ Planted \subseteq Node
    /\ \A t \in Trees : t.directories # <<>> /\ \A i \in DOMAIN t.directories : t.directories[i] # <<>>
    /\ {MaxLinks, MaxSteps, MaxMoves, MaxChecks} \subseteq Nat

VARIABLES
    directories, \* the store directories (store_directories), from the top
    node,     \* the file tree
    at,       \* where the check is
    start,    \* a start's check, or that of a hold (check_secret_store, with_secret_store)
    dir,      \* the directory it is at
    current, info, names, links,  \* ancestors_of: its place, that place's lstat, what is left
    found, checked,               \* what the walk and the check have passed
    pending,  \* the directory whose exclusion is asked for
    cache,    \* ACL_CACHE
    verified, \* VERIFIED
    store,    \* history: the directory that the passed path led to
    own,      \* history: the user has changed something since the check began
    included, \* history: the directories that the user put back into backups
    moves, checks

locals == <<dir, current, info, names, links, found, checked>>
world == <<directories, node, own, included, moves>>
vars  == <<world, at, start, locals, pending, cache, verified, store, checks>>

-----------------------------------------------------------------------------
(* The kernel                                                              *)

NoNode == 0

Entry(d, name) == IF name \in DOMAIN node[d].names THEN node[d].names[name] ELSE NoNode

\* One name further; a link in the middle is followed, one at the end if asked.
Advance(s, follow) ==
    LET name == Head(s.rest)
        rest == Tail(s.rest)
        next == Entry(Last(s.way), name)
    IN CASE s.rest = <<>> \/ s.missing -> s
         [] name = "/" -> [s EXCEPT !.way = <<Root>>, !.rest = rest]
         [] name = ".." -> [s EXCEPT !.way = IF Len(@) > 1 THEN Front(@) ELSE @, !.rest = rest]
         [] OTHER ->
              IF next = NoNode THEN [s EXCEPT !.missing = TRUE]
              ELSE IF node[next].kind = "link" /\ (follow \/ rest # <<>>)
                   THEN [s EXCEPT !.rest = node[next].target \o rest]
              ELSE [s EXCEPT !.way = Append(@, next), !.rest = rest]

Reach(path, follow) ==
    LET run[n \in 0..MaxSteps] ==
          IF n = 0 THEN [way |-> <<Root>>, rest |-> path, missing |-> FALSE]
          ELSE Advance(run[n - 1], follow)
    IN run[MaxSteps]

NodeAt(path, follow) ==
    LET s == Reach(path, follow) IN IF s.rest = <<>> THEN Last(s.way) ELSE NoNode

Unknown == [node |-> NoNode]

\* lstat_or_missing
Lstat(path) ==
    LET n == NodeAt(path, FALSE)
    IN IF n = NoNode THEN Unknown
       ELSE [node |-> n, kind |-> node[n].kind, owner |-> node[n].owner, perm |-> node[n].perm,
             links |-> node[n].links, changed |-> node[n].changed]

NewDirectory(entries) ==
    [kind |-> "directory", owner |-> "me", perm |-> "private", links |-> 1, names |-> entries,
     target |-> <<>>, acl |-> "none", changed |-> 0, excluded |-> FALSE]

\* The lowest n inodes that are not in use; the lowest is the deepest directory.
Spare(n) ==
    LET free == {k \in Node : node[k].kind = "free"}
    IN CHOOSE ids \in [1..n -> free] : \A i \in 1..n : Cardinality({k \in free : k < ids[i]}) = i - 1

\* DirBuilder: the names that are missing, each 0700.
Made(path) ==
    LET s == Reach(path, TRUE)
        n == Len(s.rest)
        ids == Spare(n)
        entries(i) == IF i = 1 THEN [x \in {} |-> NoNode] ELSE [x \in {s.rest[n - i + 2]} |-> ids[i - 1]]
    IN [k \in Node |->
          IF k = Last(s.way)
          THEN [node[k] EXCEPT !.names = [x \in DOMAIN @ \cup {s.rest[1]} |->
                                            IF x = s.rest[1] THEN ids[n] ELSE @[x]]]
          ELSE IF \E i \in 1..n : ids[i] = k
               THEN NewDirectory(entries(CHOOSE i \in 1..n : ids[i] = k))
          ELSE node[k]]

MayMake(d, n) ==
    /\ n <= Cardinality({k \in Node : node[k].kind = "free"})
    /\ node[d].kind = "directory" /\ (node[d].owner = "me" \/ node[d].perm \in {"write", "sticky"})

-----------------------------------------------------------------------------
(* The decisions                                                           *)

\* owned_directory_problem
OwnedProblem(stat) == stat.kind # "directory" \/ stat.owner # "me" \/ stat.perm # "private"

\* Mutant: whatever is in a sticky directory is safe.
AncestorProblem_Sticky(stat, child) ==
    \/ stat.kind # "directory" \/ stat.owner = "other"
    \/ stat.perm = "write"

\* ancestor_problem: only in a sticky directory may others write, and there only
\* when what is below is this user's or root's.
AncestorProblem(stat, child) ==
    \/ stat.kind # "directory" \/ stat.owner = "other"
    \/ stat.perm = "write"
    \/ stat.perm = "sticky" /\ (child = Unknown \/ child.owner = "other")

\* private_file_problem
FileProblem(stat) ==
    stat.kind # "file" \/ stat.links > 1 \/ stat.perm # "private" \/ stat.owner # "me"

\* acl_problem: above the store, a grant that changes nothing passes, and so does one to this user.
AclProblem(acl, role) ==
    CASE acl = "none" -> FALSE
      [] acl \in {"read", "mine"} -> role = "owned"
      [] acl = "change" -> TRUE

Stamp(entry) == [path |-> entry.path, node |-> entry.stat.node, changed |-> entry.stat.changed,
                 perm |-> entry.stat.perm]

\* check_acls asks for each path once, by its first role, unless its answer is known.
Asked ==
    {i \in DOMAIN checked :
        /\ Stamp(checked[i]) \notin cache
        /\ \A j \in 1..i - 1 : checked[j].path # checked[i].path}

-----------------------------------------------------------------------------
Init ==
    /\ \E t \in Trees : node = t.nodes /\ directories = t.directories
    /\ at = "idle" /\ start = FALSE /\ dir = 0
    /\ current = <<>> /\ info = Unknown /\ names = <<>> /\ links = 0
    /\ found = <<>> /\ checked = <<>> /\ pending = NoNode
    /\ cache = {} /\ verified = NoNode
    /\ store = NoNode /\ own = FALSE /\ included = {} /\ moves = 0 /\ checks = 0

Stays == UNCHANGED <<world, start, pending, cache, verified, store, checks>>

\* The locals of a check that has ended.
Forget ==
    /\ dir' = 0 /\ current' = <<>> /\ info' = Unknown /\ names' = <<>> /\ links' = 0
    /\ found' = <<>> /\ checked' = <<>>

Refuse == at' = "idle" /\ Forget /\ Stays

\* The next directory's walk begins at the root.
Ascend(i) ==
    /\ dir' = i /\ current' = <<>> /\ info' = Lstat(<<>>) /\ names' = Front(directories[i])
    /\ links' = 0 /\ found' = <<>>

Begin(s) ==
    /\ at = "idle" /\ checks < MaxChecks
    /\ at' = "walk" /\ start' = s /\ Ascend(1) /\ checked' = <<>>
    /\ checks' = checks + 1 /\ own' = FALSE /\ store' = NoNode
    /\ UNCHANGED <<directories, node, included, moves, pending, cache, verified>>

\* One name of ancestors_of.
Known(entry) ==
    LET old == {i \in DOMAIN found : found[i].path = entry.path}
    IN IF old = {} THEN Append(found, entry)
       ELSE [i \in DOMAIN found |-> IF i \in old THEN entry ELSE found[i]]

Up ==
    /\ at = "walk" /\ IsPrefix(<<"..">>, names)
    /\ LET above == IF current = <<>> THEN <<>> ELSE Front(current)
       IN current' = above /\ info' = Lstat(above)
    /\ names' = Tail(names)
    /\ UNCHANGED <<at, dir, links, found, checked>> /\ Stays

Down ==
    /\ at = "walk" /\ ~IsPrefix(<<"..">>, names)
    /\ LET entry == Append(current, IF names = <<>> THEN Last(directories[dir]) ELSE names[1])
           child == Lstat(entry)
           above == Known([path |-> current, stat |-> info, role |-> "ancestor"])
       IN IF AncestorProblem(info, child) THEN Refuse
          ELSE /\ Stays
               /\ IF names = <<>> \/ child = Unknown
                  THEN /\ at' = "directory" /\ checked' = checked \o above /\ found' = <<>>
                       /\ UNCHANGED <<dir, current, info, names, links>>
                  ELSE IF child.kind = "link"
                  THEN IF child.owner = "other" \/ links = MaxLinks \/ NodeAt(entry, TRUE) = NoNode
                       THEN at' = "idle" /\ Forget
                       ELSE /\ at' = "link" /\ links' = links + 1 /\ found' = above
                            /\ UNCHANGED <<dir, current, info, names, checked>>
                  ELSE /\ current' = entry /\ info' = child /\ names' = Tail(names) /\ found' = above
                       /\ UNCHANGED <<at, dir, links, checked>>

\* read_link: the target's names come before what is left.
ReadLink ==
    /\ at = "link"
    /\ LET n == NodeAt(Append(current, names[1]), FALSE)
           target == node[n].target
       IN IF n = NoNode \/ node[n].kind # "link" THEN Refuse
          ELSE /\ at' = "walk" /\ Stays
               /\ IF target[1] = "/"
                  THEN current' = <<>> /\ info' = Lstat(<<>>) /\ names' = Tail(target) \o Tail(names)
                  ELSE names' = target \o Tail(names) /\ UNCHANGED <<current, info>>
               /\ UNCHANGED <<dir, links, found, checked>>

\* What follows a directory that has passed, or that is not there.
Continue ==
    IF dir < Len(directories) THEN at' = "walk" /\ Ascend(dir + 1)
    ELSE /\ at' = IF start THEN "file" ELSE "acls"
         /\ UNCHANGED <<dir, current, info, names, links, found>>

Directory ==
    /\ at \in {"directory", "made"}
    /\ LET stat == Lstat(directories[dir]) IN
       IF stat = Unknown /\ ~start /\ at = "directory"
       THEN IF LET s == Reach(directories[dir], TRUE) IN ~MayMake(Last(s.way), Len(s.rest))
            THEN Refuse ELSE
            /\ node' = Made(directories[dir]) /\ at' = "made"
            /\ UNCHANGED <<directories, start, locals, pending, cache, verified, store, own, included, moves, checks>>
       ELSE IF stat = Unknown THEN Continue /\ UNCHANGED checked /\ Stays
       ELSE IF OwnedProblem(stat) THEN Refuse
       ELSE /\ Continue /\ Stays
            /\ checked' = Append(checked, [path |-> directories[dir], stat |-> stat, role |-> "owned"])

CheckFile ==
    /\ at = "file"
    /\ LET stat == Lstat(File) IN
       IF stat # Unknown /\ FileProblem(stat) THEN Refuse
       ELSE /\ at' = "acls" /\ Stays
            /\ checked' = IF stat = Unknown THEN checked
                          ELSE Append(checked, [path |-> File, stat |-> stat, role |-> "owned"])
            /\ UNCHANGED <<dir, current, info, names, links, found>>

\* A command that fails, is killed at its deadline or says too much (run_bounded).
CommandFails ==
    /\ \/ at = "acls" /\ Asked # {}
       \/ at \in {"confirm", "again", "last"}
    /\ Refuse

Passes ==
    /\ at' = "exclude" /\ Forget
    /\ store' = NodeAt(Last(directories), TRUE)
    /\ UNCHANGED <<world, start, pending, verified, checks>>

\* ls lists what is at these paths now.
CheckAcls ==
    /\ at = "acls"
    /\ LET there(i) == NodeAt(checked[i].path, FALSE) IN
       IF \E i \in Asked : there(i) = NoNode \/ AclProblem(node[there(i)].acl, checked[i].role)
       THEN Refuse
       ELSE Passes /\ cache' = cache \cup {Stamp(checked[i]) : i \in Asked}

-----------------------------------------------------------------------------
(* exclude_from_backups                                                    *)

Ready == at' = "ready" /\ UNCHANGED <<world, start, locals, cache, store, checks>>

\* Mutant: a directory that was confirmed once stays so, also when it is another one.
AskExclusion_ByPath ==
    /\ at = "exclude"
    /\ LET stat == Lstat(Last(directories)) IN
       IF stat = Unknown \/ (~start /\ verified # NoNode)
       THEN Ready /\ UNCHANGED <<pending, verified>>
       ELSE /\ at' = "confirm" /\ pending' = stat.node
            /\ UNCHANGED <<world, start, locals, cache, verified, store, checks>>

\* A directory that this process has confirmed is left alone, unless it starts.
AskExclusion ==
    /\ at = "exclude"
    /\ LET stat == Lstat(Last(directories)) IN
       IF stat = Unknown \/ (~start /\ verified = stat.node)
       THEN Ready /\ UNCHANGED <<pending, verified>>
       ELSE /\ at' = "confirm" /\ pending' = stat.node
            /\ UNCHANGED <<world, start, locals, cache, verified, store, checks>>

\* tmutil isexcluded; what is not is given the attribute, then to addexclusion,
\* neither of which need help.
Confirm ==
    /\ at \in {"confirm", "again", "last"}
    /\ LET n == NodeAt(Last(directories), TRUE) IN
       IF n # NoNode /\ node[n].excluded
       THEN Ready /\ verified' = pending /\ pending' = NoNode
       ELSE IF n = NoNode \/ at = "last" THEN Refuse
       ELSE /\ at' = IF at = "confirm" THEN "again" ELSE "last"
            /\ \E works \in BOOLEAN : node' = [node EXCEPT ![n].excluded = works]
            /\ UNCHANGED <<directories, start, locals, pending, cache, verified, store, own, included, moves, checks>>

\* The secret is read or written, and the hold ends.
Done == at = "ready" /\ at' = "idle" /\ Forget /\ Stays

-----------------------------------------------------------------------------
(* The others                                                              *)

OwnerOf(n) == IF n = NoNode THEN "nobody" ELSE node[n].owner

\* What the permissions let other users do to a name in a directory.
MayChange(d, name) ==
    /\ node[d].kind = "directory"
    /\ \/ node[d].owner = "other" \/ node[d].perm = "write" \/ node[d].acl = "change"
       \/ node[d].perm = "sticky" /\ OwnerOf(Entry(d, name)) \in {"other", "nobody"}

\* They remove it, or put something of theirs in its place.
Meddle(d, name) ==
    /\ moves < MaxMoves /\ MayChange(d, name)
    /\ \E n \in Planted \cup {NoNode} :
         /\ n # Entry(d, name)
         /\ node' = [node EXCEPT ![d].names = [x \in (DOMAIN @ \cup {name}) \ (IF n = NoNode THEN {name} ELSE {})
                                                  |-> IF x = name THEN n ELSE @[x]]]
    /\ moves' = moves + 1
    /\ UNCHANGED <<directories, at, start, locals, pending, cache, verified, store, own, included, checks>>

\* The user shares a directory or a file, or ends that; it changes the ctime.
Share(n) ==
    /\ moves < MaxMoves /\ node[n].owner = "me"
    /\ node' = [node EXCEPT ![n].acl = IF @ = "none" THEN "read" ELSE "none", ![n].changed = @ + 1]
    /\ own' = TRUE /\ moves' = moves + 1
    /\ UNCHANGED <<directories, at, start, locals, pending, cache, verified, store, included, checks>>

\* The user removes the store's directory.
RemoveStore ==
    LET above == NodeAt(Front(Last(directories)), TRUE)
        name == Last(Last(directories))
    IN /\ moves < MaxMoves /\ above # NoNode /\ Entry(above, name) # NoNode
       /\ node' = [node EXCEPT ![above].names = [x \in DOMAIN @ \ {name} |-> @[x]]]
       /\ own' = TRUE /\ moves' = moves + 1
       /\ UNCHANGED <<directories, at, start, locals, pending, cache, verified, store, included, checks>>

\* The user puts a directory back into the backups (tmutil removeexclusion).
Include(n) ==
    /\ moves < MaxMoves /\ node[n].excluded
    /\ node' = [node EXCEPT ![n].excluded = FALSE]
    /\ own' = TRUE /\ included' = included \cup {n} /\ moves' = moves + 1
    /\ UNCHANGED <<directories, at, start, locals, pending, cache, verified, store, checks>>

Names == UNION {Range(directories[i]) : i \in DOMAIN directories}

Next ==
    \/ \E s \in BOOLEAN : Begin(s)
    \/ Up \/ Down \/ ReadLink \/ Directory \/ CheckFile \/ CheckAcls \/ CommandFails
    \/ AskExclusion \/ Confirm \/ Done
    \/ \E d \in Node \ Planted, name \in Names : Meddle(d, name)
    \/ \E n \in Node : Include(n) \/ Share(n)
    \/ RemoveStore

Spec == Init /\ [][Next]_vars

-----------------------------------------------------------------------------
(* Correctness                                                             *)

\* Once a check has passed, the store's path goes on leading to the directory
\* that it led to then, whatever other users do with everything that they may
\* change, before, during and after the check; and that directory and its file
\* are the user's alone (check_store_paths, ancestors_of, check_acls).
NobodyElseGetsIn ==
    at \in {"exclude", "confirm", "again", "last", "ready"} /\ ~own =>
      /\ NodeAt(Last(directories), TRUE) = store
      /\ store # NoNode =>
           /\ node[store].owner = "me" /\ node[store].perm = "private" /\ node[store].acl = "none"
      /\ LET file == NodeAt(File, FALSE)
         IN start /\ file # NoNode =>
              /\ node[file].kind = "file" /\ node[file].owner = "me" /\ node[file].perm = "private"
              /\ node[file].acl = "none" /\ node[file].links = 1

\* What the store writes goes to a directory that backups leave out, also when
\* the directory is another one than before; only what the user has put back
\* since this process confirmed it is left so until the next start.
LeftOutOfBackups ==
    at = "ready" /\ ~own /\ store # NoNode =>
      node[store].excluded \/ (~start /\ store \in included)
=============================================================================
