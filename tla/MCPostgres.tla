----------------------------- MODULE MCPostgres -----------------------------
(***************************************************************************)
(* Three sessions are enough for two transactions on two rows and a third  *)
(* call that meets both; two fingerprints for a row to move onto another's.*)
(***************************************************************************)
EXTENDS PostgresRepo, TLC

CONSTANTS d1, d2, d3, l1, l2, l3, f1, f2, s1, s2, s3

MCFpOf == (l1 :> f1) @@ (l2 :> f1) @@ (l3 :> f2)

MCDrafts == {[loc |-> l, gid |-> NoGid, status |-> "Queued", desired |-> "Queued"] :
                l \in Locators}

Symmetry == Permutations(Sessions) \cup Permutations(Ids)
=============================================================================
