------------------------------ MODULE StoreNames ------------------------------
(***************************************************************************)
(* Where a store's files are (paths.rs), and which files of an earlier     *)
(* build are still there (leftovers): those decide that the store does,    *)
(* and the user is told to remove them.  An old name may lead to a file of *)
(* the current store: its directory may be another name of the store's,    *)
(* and the file itself a link or a second name.  Meanwhile, other          *)
(* processes save, which gives a current file a new inode.                 *)
(*                                                                         *)
(* A path is a base, a directory below it and a name.  The bases: support  *)
(* is ~/Library/Application Support/family-mcp, config ~/.config, data     *)
(* ~/.local/share/family-mcp, and the XDG variables may name others.       *)
(***************************************************************************)
EXTENDS Naturals, Sequences, FiniteSets

CONSTANTS
    Environment, \* what a process may find in its environment
    MaxSaves     \* bound: saves of other processes

NamesAssumption ==
    /\ MaxSaves \in Nat
    /\ \A e \in Environment :
         /\ e.mac \in BOOLEAN
         /\ {e.config, e.data} \subseteq {"unset", "relative", "support", "elsewhere"}

VARIABLES
    env,      \* the environment
    where,    \* the directory that a base leads to: itself, another, Lost or Broken
    file,     \* what is at each path: an inode, a link, or nothing
    at,       \* how far leftovers is
    todo,     \* the current files, and then the old ones, that are left
    entries, identities, \* what it knows of the current files
    deciding, named,     \* what it has found
    saves

vars == <<env, where, file, at, todo, entries, identities, deciding, named, saves>>

-----------------------------------------------------------------------------
(* The paths                                                               *)

Lost == "lost"      \* nothing there
Broken == "broken"  \* a loop, or a directory that cannot be opened

\* xdg_base: a relative variable is ignored.
XdgBase(value, fallback) == IF value \in {"unset", "relative"} THEN fallback ELSE value

ConfigBase == XdgBase(env.config, "config")

DataBase == XdgBase(env.data, "data")

Path(base, below, name) == [base |-> base, below |-> below, name |-> name]

\* The record's files, of which the marker and the lock are treated as the record.
RecordPath == Path(IF env.mac THEN "support" ELSE ConfigBase, "server", "session.enc")

KeyPath == Path(IF env.mac THEN "support" ELSE DataBase, "keys", "key")

Current == {RecordPath, KeyPath}

\* retired_store_paths_in: none of the current ones, and none off macOS.
Retired ==
    IF ~env.mac THEN {}
    ELSE ({Path(b, "server", "session.enc") : b \in {"config", ConfigBase}}
          \cup {Path(b, "keys", "key") : b \in {"data", DataBase}}) \ Current

-----------------------------------------------------------------------------
(* The file system                                                         *)

Base == {"support", "config", "data", "elsewhere"}

\* A base is a directory, another name of the store's, or neither.
Bases ==
    {w \in [Base -> Base \cup {Lost, Broken}] : \A b \in Base : w[b] \in {b, "support", Lost, Broken}}

Everywhere == {Path(b, "server", "session.enc") : b \in Base} \cup {Path(b, "keys", "key") : b \in Base}

\* Nothing, a file, or a link: to a current file, to nothing, or to itself.
NoFile == [kind |-> "none", inode |-> 0]

Inode(n) == [kind |-> "file", inode |-> n]

Link(kind) == [kind |-> kind, inode |-> 0]

\* directory_entry: the resolved directory and the name; Lost without the directory.
DirectoryEntry(p) ==
    IF where[p.base] \in {Lost, Broken} THEN Path(where[p.base], p.below, p.name)
    ELSE [p EXCEPT !.base = where[p.base]]

CanBeRead(p) == where[p.base] # Broken

\* lstat: what is there, not followed.
At(p) == IF where[p.base] \in {Lost, Broken} THEN NoFile ELSE file[DirectoryEntry(p)]

\* The current file of this name, to which links lead.
CurrentOf(p) == CHOOSE c \in Everywhere : c.base = "support" /\ c.below = p.below

\* linked_entry: the entry after the links; Lost if the name cannot be followed.
LinkedEntry(p) ==
    CASE At(p).kind = "file" -> DirectoryEntry(p)
      [] At(p).kind = "link" /\ At(CurrentOf(p)).kind = "file" -> DirectoryEntry(CurrentOf(p))
      [] OTHER -> Path(Lost, p.below, p.name)

\* identity: the inode after the links, or 0.
Identity(p) ==
    IF LinkedEntry(p).base = Lost THEN 0 ELSE file[LinkedEntry(p)].inode

-----------------------------------------------------------------------------
(* leftovers                                                               *)

Init ==
    /\ env \in Environment
    /\ where \in Bases
    /\ \E old \in [{p \in Retired : where[p.base] = p.base} ->
                      {NoFile, Inode(1), Inode(2), Link("link"), Link("dangling")}],
          new \in [Current -> {NoFile, Inode(1)}] :
         file = [p \in Everywhere |-> IF p \in DOMAIN old THEN old[p]
                                      ELSE IF p \in Current /\ where[p.base] = p.base THEN new[p]
                                      ELSE NoFile]
    /\ at = "current" /\ todo = Current /\ entries = {} /\ identities = {}
    /\ deciding = {} /\ named = {} /\ saves = 0

\* existing_paths of the retired ones.
Found == {p \in Retired : At(p).kind # "none"}

\* One current file after the other; if one cannot be read, every old one decides.
ReadCurrent(p) ==
    /\ at = "current" /\ p \in todo
    /\ IF CanBeRead(p)
       THEN /\ entries' = entries \cup (IF where[p.base] = Lost THEN {} ELSE {DirectoryEntry(p)})
            /\ at' = "identity" /\ UNCHANGED deciding
       ELSE at' = "done" /\ deciding' = Found /\ UNCHANGED entries
    /\ UNCHANGED <<env, where, file, todo, identities, named, saves>>

ReadIdentity(p) ==
    /\ at = "identity" /\ p \in todo /\ DirectoryEntry(p) \in entries \cup {Path(Lost, p.below, p.name)}
    /\ identities' = identities \cup ({Identity(p)} \ {0})
    /\ IF todo = {p} THEN at' = "old" /\ todo' = Found
       ELSE at' = "current" /\ todo' = todo \ {p}
    /\ UNCHANGED <<env, where, file, entries, deciding, named, saves>>

\* Mutant: a current file is known by its inode alone.
ReadOld_ByInode(p) ==
    /\ at = "old" /\ p \in todo
    /\ todo' = todo \ {p}
    /\ LET separate == LinkedEntry(p).base # Lost /\ Identity(p) # 0
       IN IF Identity(p) \in identities
          THEN UNCHANGED <<deciding, named>>
          ELSE /\ deciding' = deciding \cup {p}
               /\ named' = IF separate THEN named \cup {p} ELSE named
    /\ UNCHANGED <<env, where, file, at, entries, identities, saves>>

\* An old file that is a current one, by its entry or its inode, is left out;
\* another decides, and is named if it can be followed.
ReadOld(p) ==
    /\ at = "old" /\ p \in todo
    /\ todo' = todo \ {p}
    /\ LET separate == LinkedEntry(p).base # Lost /\ Identity(p) # 0
       IN IF LinkedEntry(p) \in entries \/ Identity(p) \in identities
          THEN UNCHANGED <<deciding, named>>
          ELSE /\ deciding' = deciding \cup {p}
               /\ named' = IF separate THEN named \cup {p} ELSE named
    /\ UNCHANGED <<env, where, file, at, entries, identities, saves>>

\* Another process saves: a temporary is renamed over the current file.
Save(p) ==
    /\ saves < MaxSaves /\ saves' = saves + 1
    /\ p \in Current /\ where[p.base] = p.base
    /\ file' = [file EXCEPT ![p] = Inode(2 + saves')]
    /\ UNCHANGED <<env, where, at, todo, entries, identities, deciding, named>>

Next ==
    \/ \E p \in Everywhere : ReadCurrent(p) \/ ReadIdentity(p) \/ ReadOld(p)
    \/ \E p \in Current : Save(p)

Spec == Init /\ [][Next]_vars

-----------------------------------------------------------------------------
(* Correctness                                                             *)

\* What the user is told to remove is never a file of the current store under
\* another name of its directory, however often that file is saved meanwhile;
\* and an old file that is not the current store's decides, so that no older
\* credential comes back because it could not be followed (leftovers).
OldIsTold ==
    /\ \A p \in named : DirectoryEntry(p) \notin {DirectoryEntry(c) : c \in Current}
    /\ \A p \in Found :
         (at = "done" \/ (at = "old" /\ p \notin todo)) =>
           p \in deciding \/ LinkedEntry(p).base = "support" \/ Identity(p) \in identities
=============================================================================
