---------------------------- MODULE MCKronanMcp ----------------------------
(* Small instances of three small modules, of which a behaviour runs one:  *)
(*  - SecretStore with five writes over three generations and two keys;    *)
(*  - KronanServer with two calls of any kind, which approve the checkout  *)
(*    of one of two accounts;                                              *)
(*  - OrderAttempts with two orders and a reservation of one checkout,     *)
(*    which can have two contents.                                         *)
EXTENDS KronanMcp, TLC

CONSTANTS v1, v2, r1, r2, u1, u2, c1, c2, c3, complete, reserve, p1, p2

VARIABLE part  \* the module that runs

server == <<serving, input, stdout, stop, saved, step, kind, loaded, sentAs, fate, reply>>
orders == <<attempts, old, holder, stage, copy, print, outcome, told, cli, shown, guarded, before>>

Owners == [r \in {r1, r2} |-> u1]

Tools  == (c1 :> complete) @@ (c2 :> complete) @@ (c3 :> reserve)
Tokens == [c \in {c1, c2, c3} |-> "checkout"]

StoreInit == part \in {"store", "server"} /\ Init /\ Server!Init /\ Orders!Init

OrdersInit == part = "orders" /\ saved = u1 /\ Init /\ Server!Init /\ Orders!Init

PartNext ==
    \/ part = "store" /\ Next /\ UNCHANGED <<part, server, orders>>
    \/ part = "server" /\ Server!Next /\ UNCHANGED <<part, vars, orders>>
    \/ part = "orders" /\ Orders!Next /\ UNCHANGED <<part, vars, server>>

StoreSpec == StoreInit /\ [][PartNext]_<<part, vars, server, orders>> /\ Server!Fairness

OrdersSpec == OrdersInit /\ [][PartNext]_<<part, vars, server, orders>>

\* The two orders are alike, and so are the two contents.
Symmetry == Permutations({c1, c2}) \cup Permutations({p1, p2})
=============================================================================
