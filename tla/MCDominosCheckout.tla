-------------------------- MODULE MCDominosCheckout --------------------------
\* DominosCheckout with a few calls; calls of one tool and accounts are alike.
EXTENDS DominosCheckout, TLC

Symmetric == Permutations(CreateCall) \cup Permutations(PayCall)
                \cup Permutations(GetCall) \cup Permutations(Account)

===============================================================================
