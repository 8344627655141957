---------------------------- MODULE MCCloudUnlock ----------------------------
(* Small instances of CloudUnlock for TLC: the attempts are interchangeable.  *)
EXTENDS CloudUnlock, TLC

CONSTANTS a1, a2
MCOne == {a1}
MCTwo == {a1, a2}
\* One PC that tries again, and two PCs.
MCRetry == [a \in MCTwo |-> "pc"]
MCTwoPcs == [a \in MCTwo |-> a]
MCOwn == [a \in MCOne |-> "pc"]
MCSymmetry == Permutations(MCTwo)
=============================================================================
