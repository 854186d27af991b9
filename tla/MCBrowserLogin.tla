--------------------------- MODULE MCBrowserLogin ---------------------------
\* BrowserLogin with a login that finds a browser and one that only sweeps;
\* no process uses the session.
EXTENDS AblerMcp, TLC

CONSTANTS l1, l2, t1

MCInit == Init /\ key = TRUE /\ Web!Init
MCNext == Web!Next /\ UNCHANGED vars
MCSpec == MCInit /\ [][MCNext]_<<vars, Web!vars>> /\ Web!Fairness

=============================================================================
