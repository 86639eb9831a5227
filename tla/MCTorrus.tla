------------------------------ MODULE MCTorrus ------------------------------
EXTENDS TorrusDocs, TLC

CONSTANTS r1, r2, d1, d2, g1, g2, g3, l1, l2, f1

\* One fingerprint: requests for the same download.  Distinct fingerprints
\* never meet in the repository (module InMemRepoSpec), so a second download
\* is a matter of a second locator.
OneFp == [l \in Locators |-> f1]

EachFp == [l \in Locators |-> l]

Symmetry == Permutations(Reqs) \cup Permutations(Gids) \cup Permutations(Ids)
=============================================================================
