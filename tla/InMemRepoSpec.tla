--------------------------- MODULE InMemRepoSpec ---------------------------
(***************************************************************************)
(* The in-memory repository on its own, called in every order by clients   *)
(* that store, look up, update and delete downloads.  The methods run      *)
(* under one lock, so a step is a call together with its reply.            *)
(*                                                                         *)
(* Spec has the calls the service and the reconciler make; SpecWithAdd     *)
(* also has the plain Add of the DownloadWriter interface, which the       *)
(* service does not use.                                                   *)
(***************************************************************************)
EXTENDS InMemRepo

CONSTANTS
    Drafts,         \* the downloads clients store and update rows to
    NoKey

ASSUME DraftsAssumption == Drafts \subseteq Download
ASSUME NoKeyAssumption == NoKey \notin Fingerprints

VARIABLE reply      \* <<outcome, id>> of the last call

specVars == <<repoVars, reply>>

SpecInit == RepoInit /\ reply = <<"none">>

StoreNew(d, id) ==
    /\ AddWithFingerprint(d, FpOf[d.loc], id, TRUE)
    /\ reply' = <<"created", id>>

StoreAgain(d, id) ==
    /\ AddWithFingerprint(d, FpOf[d.loc], id, FALSE)
    /\ reply' = <<"existing", id>>

StorePlain(d, id) ==
    /\ Add(id, d)
    /\ reply' = <<"created", id>>

\* mutate is a pure function of the row: the call may leave any draft behind.
Change(id, d) ==
    /\ Update(id, d)
    /\ reply' = <<UpdateResult(id, d), id>>

Remove(id) ==
    /\ Delete(id)
    /\ reply' = <<IF Stored(id) THEN "deleted" ELSE "notFound", id>>

Lookup(id) ==
    /\ reply' = <<IF Stored(id) THEN "found" ELSE "notFound", id>>
    /\ UNCHANGED repoVars

ServiceCall(id) ==
    \/ Remove(id)
    \/ Lookup(id)
    \/ \E d \in Drafts : StoreNew(d, id) \/ StoreAgain(d, id) \/ Change(id, d)

Next == \E id \in Ids : ServiceCall(id)

NextWithAdd ==
    \E id \in Ids : ServiceCall(id) \/ \E d \in Drafts : StorePlain(d, id)

Spec        == SpecInit /\ [][Next]_specVars
SpecWithAdd == SpecInit /\ [][NextWithAdd]_specVars
-----------------------------------------------------------------------------
\* The type invariant: the variables hold what the Go maps can hold, and an
\* id is in use only after uuid.NewString returned it (inmem.go 58, 93).
TypeOK == RepoTypeOK /\ Rows \subseteq issued

\* The index is exact (inmem.go 83-147): it leads from a fingerprint to an id
\* if and only if that id is stored and has that fingerprint.  So no two rows
\* share a fingerprint, no row is out of reach of GetByFingerprint, and no
\* deleted row is still indexed.
IndexExact ==
    \A f \in Fingerprints, i \in Ids :
        fpIndex[f] = i <=> Stored(i) /\ FpOf[byID[i].loc] = f

\* An entry of the index never leads to a missing row or to a row of another
\* fingerprint, not even when rows stored by the plain Add, which have no
\* entry of their own, are updated and deleted among the others.
IndexSound ==
    \A f \in Fingerprints :
        fpIndex[f] # NoId =>
            Stored(fpIndex[f]) /\ FpOf[byID[fpIndex[f]].loc] = f

\* A deleted id never comes back: what a caller that still holds the id does
\* next is answered by ErrNotFound and creates nothing (inmem.go 107, 140).
DeletedStaysDeleted ==
    [][\A i \in issued : ~Stored(i) => byID'[i] = NoRow]_specVars

\* The fingerprint each stored row hashes to: what an observer who knows
\* nothing of the index sees.
keyOf == [i \in Ids |-> IF Stored(i) THEN FpOf[byID[i].loc] ELSE NoKey]

Abs == INSTANCE FingerprintStore WITH key <- keyOf, used <- issued

\* The repository with its index does what a store that searches all rows
\* would do, reply by reply (downloads.go 33-39).
ImplementsStore == Abs!Spec
=============================================================================
