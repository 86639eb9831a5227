------------------------------- MODULE MCRepo -------------------------------
(***************************************************************************)
(* Three ids, three locators of which two are spellings of one request,    *)
(* and drafts in two states: enough for a row to change fingerprint onto   *)
(* a free, its own and another row's fingerprint, and for an id to be      *)
(* deleted while two others live.                                          *)
(***************************************************************************)
EXTENDS InMemRepoSpec, TLC

CONSTANTS d1, d2, d3, l1, l2, l3, f1, f2

MCFpOf == (l1 :> f1) @@ (l2 :> f1) @@ (l3 :> f2)

MCDrafts == {[loc |-> l, gid |-> NoGid, status |-> s, desired |-> "Queued"] :
                l \in Locators, s \in {"Queued", "Active"}}
=============================================================================
