--------------------------- MODULE DurableRecord ---------------------------
(***************************************************************************)
(* What a secret store promises (rust/family-store/src/secret.rs): one     *)
(* value that every read returns until a write replaces it.  A write takes *)
(* effect once or not at all, at some moment before it returns; it is      *)
(* answered "written" only if it did, "failed" only if it did not, and     *)
(* "uncertain", or by a crash, in either case.  The value is otherwise     *)
(* given up only by a reset that found the key missing.                    *)
(***************************************************************************)
CONSTANTS Value, NoValue

VARIABLES
    value,      \* the value a read returns
    writing,    \* the argument of the write in progress, or NoValue
    stored,     \* that write has taken effect
    lost,       \* the key is missing
    permitted,  \* a reset has found the key missing
    answer      \* how the latest call ended

vars == <<value, writing, stored, lost, permitted, answer>>

Quiet == {"none", "failed", "uncertain", "done", "refused"}

Told(kind) == answer' = [kind |-> kind, value |-> NoValue]

Init ==
    /\ value = NoValue
    /\ writing = NoValue
    /\ stored = FALSE
    /\ lost = TRUE
    /\ permitted = FALSE
    /\ answer = [kind |-> "none", value |-> NoValue]

Read ==
    /\ writing = NoValue
    /\ answer' = [kind |-> "read", value |-> value]
    /\ UNCHANGED <<value, writing, stored, lost, permitted>>

Start ==
    /\ writing = NoValue
    /\ writing' \in Value
    /\ Told("none")
    /\ UNCHANGED <<value, stored, lost, permitted>>

TakeEffect ==
    /\ writing # NoValue /\ ~stored
    /\ value' = writing
    /\ stored' = TRUE
    /\ UNCHANGED <<writing, lost, permitted, answer>>

Finish ==
    /\ writing # NoValue
    /\ \/ stored /\ Told("written")
       \/ Told("uncertain")
       \/ Told("none")
    /\ writing' = NoValue
    /\ stored' = FALSE
    /\ UNCHANGED <<value, lost, permitted>>

\* Any call that changes no value, and a write refused before it started.
Other ==
    /\ writing = NoValue
    /\ \E kind \in Quiet : Told(kind)
    /\ permitted' \in {FALSE, permitted}
    /\ UNCHANGED <<value, writing, stored, lost>>

Permit ==
    /\ writing = NoValue /\ lost
    /\ permitted' = TRUE
    /\ Told("none")
    /\ UNCHANGED <<value, writing, stored, lost>>

Discard ==
    /\ writing = NoValue /\ permitted
    /\ value' = NoValue
    /\ permitted' = FALSE
    /\ UNCHANGED <<writing, stored, lost, answer>>

KeyGone    == ~lost /\ lost' = TRUE /\ UNCHANGED <<value, writing, stored, permitted, answer>>

KeyThere ==
    /\ lost /\ lost' = FALSE
    /\ answer' \in {answer, [kind |-> "done", value |-> NoValue]}
    /\ UNCHANGED <<value, writing, stored, permitted>>

Next ==
    \/ Read \/ Start \/ TakeEffect \/ Finish \/ Other
    \/ Permit \/ Discard \/ KeyGone \/ KeyThere

Spec == Init /\ [][Next]_vars
=============================================================================
