--------------------------- MODULE ExclusiveLock ---------------------------
(***************************************************************************)
(* What with_file_lock promises its callers (rust/family-store/src/lock.rs *)
(* and docs of the crate): one holder at a time; only the holder releases; *)
(* a holder that died, or could not release, leaves the lock abandoned;    *)
(* and only an abandoned lock can be freed by somebody else.               *)
(***************************************************************************)
CONSTANTS Caller, Nobody

VARIABLES holder, abandoned

Init == holder = Nobody /\ abandoned = FALSE

Acquire(c) ==
    /\ holder = Nobody
    /\ holder' = c
    /\ UNCHANGED abandoned

Release(c) ==
    /\ holder = c /\ ~abandoned
    /\ holder' = Nobody
    /\ UNCHANGED abandoned

Abandon ==
    /\ holder # Nobody /\ ~abandoned
    /\ abandoned' = TRUE
    /\ UNCHANGED holder

Recover ==
    /\ abandoned
    /\ holder' = Nobody
    /\ abandoned' = FALSE

Next == (\E c \in Caller : Acquire(c) \/ Release(c)) \/ Abandon \/ Recover

Spec == Init /\ [][Next]_<<holder, abandoned>>
=============================================================================
