---------------------------- MODULE MCInnaAbsence ----------------------------
\* InnaAbsence with a few calls; calls of one tool and students are alike.
EXTENDS InnaAbsence, TLC

Symmetric ==
    Permutations(Prepare) \cup Permutations(Submit) \cup Permutations(Student)

===============================================================================
