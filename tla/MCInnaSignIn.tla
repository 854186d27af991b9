---------------------------- MODULE MCInnaSignIn ----------------------------
(* What hosts of Inna share, without absences; a behaviour runs one of     *)
(* these:                                                                  *)
(*  - InnaSignIn: minutes as ticks for lease, cooldown and timeout, a      *)
(*    short day;                                                           *)
(*  - InnaReads: two students of a login, three sets of cookies.           *)
EXTENDS InnaMcp, TLC

CONSTANTS h1, h2, a, b

VARIABLE part  \* the module that runs

reads == <<saved, refused, telling, holder, step, back, key, jar, learned, pause, fresh, retried,
           served, answer, portal, past>>
signs == <<guard, at, lease, since, outcome, real, earlier, started, logouts, old>>

MCInit ==
    /\ part \in {"sign-in", "reads"}
    /\ Init /\ selected = a /\ session.place = "store"
    /\ Read!Init /\ Sign!Init

MCNext ==
    \/ part = "sign-in" /\ Sign!Next /\ UNCHANGED <<part, vars, reads>>
    \/ part = "reads" /\ Read!Next /\ UNCHANGED <<part, vars, signs>>

MCSpec == MCInit /\ [][MCNext]_<<part, vars, reads, signs>>

SYM == Permutations({h1, h2})
=============================================================================
