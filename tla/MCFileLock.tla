----------------------------- MODULE MCFileLock -----------------------------
(* Small instances of FileLock for TLC.                                    *)
EXTENDS FileLock, TLC

CONSTANTS c1, c2, c3, p1, p2, p3

\* Two callers, each in a process of its own.
TwoProcesses == (c1 :> p1) @@ (c2 :> p2)

\* Three callers, each in a process of its own.
ThreeProcesses == TwoProcesses @@ (c3 :> p3)

=============================================================================
