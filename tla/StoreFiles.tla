------------------------------ MODULE StoreFiles ------------------------------
(***************************************************************************)
(* The files of a store: the record, its key and the old plaintext file    *)
(* (TokenStore), and the names of an earlier build under which some of     *)
(* them may still be found (StoreNames).  The two share nothing but the    *)
(* directories; each has its own view of them.                             *)
(***************************************************************************)
EXTENDS TokenStore

CONSTANTS Environment, MaxSaves \* of StoreNames

VARIABLES env, where, file, step, todo, entries, identities, deciding, named, saves

Old == INSTANCE StoreNames WITH at <- step

ASSUME NamesAssumption == Old!NamesAssumption

\* An old file is named for removal only if it is none of the store's, and decides
\* unless it is (leftovers).
OldIsTold == Old!OldIsTold
=============================================================================
