----------------------------- MODULE InMemRepo -----------------------------
(***************************************************************************)
(* internal/repo/inmem.go: the in-memory download repository.  Every       *)
(* method holds the repository's lock for its whole body, so each one is a *)
(* single atomic operator here, used by the actions of the modules that    *)
(* call it.                                                                *)
(***************************************************************************)
EXTENDS DownloadTypes

VARIABLES
    byID,           \* the map byID; NoRow where it has no entry
    fpIndex,        \* the map fpIndex; NoId where it has no entry
    issued          \* every id uuid.NewString has returned so far

repoVars == <<byID, fpIndex, issued>>

RepoTypeOK ==
    /\ byID \in [Ids -> Download \cup {NoRow}]
    /\ fpIndex \in [Fingerprints -> IdOrNone]
    /\ issued \subseteq Ids

RepoInit ==
    /\ byID = [i \in Ids |-> NoRow]
    /\ fpIndex = [f \in Fingerprints |-> NoId]
    /\ issued = {}

Stored(id) == byID[id] # NoRow

Rows == {i \in Ids : Stored(i)}

\* The id the index leads to, NoId when it leads nowhere.
GetByFingerprint(fp) ==
    IF fpIndex[fp] # NoId /\ byID[fpIndex[fp]] # NoRow THEN fpIndex[fp] ELSE NoId

\* Mutant: an insert that does not count its id as taken.
InsertUncounted(id, d) ==
    /\ id \in Ids \ issued
    /\ byID' = [byID EXCEPT ![id] = d]
    /\ UNCHANGED issued

\* uuid.NewString never returns an id it returned before.
Insert(id, d) ==
    /\ id \in Ids \ issued
    /\ issued' = issued \cup {id}
    /\ byID' = [byID EXCEPT ![id] = d]

Add(id, d) == Insert(id, d) /\ UNCHANGED fpIndex

\* Mutant: the check for an existing row is dropped.
AddWithoutCheck(d, fp, id, created) ==
    /\ created
    /\ Insert(id, d)
    /\ fpIndex' = [fpIndex EXCEPT ![fp] = id]

\* Returns the download id, and whether this call created it.
AddWithFingerprint(d, fp, id, created) ==
    \/ /\ ~created
       /\ GetByFingerprint(fp) # NoId
       /\ id = GetByFingerprint(fp)
       /\ UNCHANGED repoVars
    \/ /\ created
       /\ GetByFingerprint(fp) = NoId
       /\ Insert(id, d)
       /\ fpIndex' = [fpIndex EXCEPT ![fp] = id]

\* The result of Update when the caller's mutate turns the row into clone.
UpdateResult(id, clone) ==
    LET newFP == FpOf[clone.loc] IN
    IF ~Stored(id) THEN "notFound"
    ELSE IF newFP # FpOf[byID[id].loc] /\ fpIndex[newFP] \notin {NoId, id} THEN "conflict"
    ELSE "ok"

\* Mutant: the old fingerprint's entry is not removed.
UpdateKeepsOldEntry(id, clone) ==
    IF UpdateResult(id, clone) # "ok" THEN UNCHANGED repoVars
    ELSE /\ byID' = [byID EXCEPT ![id] = clone]
         /\ fpIndex' = [fpIndex EXCEPT ![FpOf[clone.loc]] = id]
         /\ UNCHANGED issued

\* Mutant: a missing row is inserted instead of refused.
UpdateOrInsert(id, clone) ==
    IF UpdateResult(id, clone) = "conflict" THEN UNCHANGED repoVars
    ELSE /\ byID' = [byID EXCEPT ![id] = clone]
         /\ issued' = issued \cup {id}
         /\ UNCHANGED fpIndex

\* A new locator moves the row's index entry along with it.
Update(id, clone) ==
    IF UpdateResult(id, clone) # "ok" THEN UNCHANGED repoVars
    ELSE LET oldFP == FpOf[byID[id].loc]
             newFP == FpOf[clone.loc]
         IN /\ byID' = [byID EXCEPT ![id] = clone]
            /\ fpIndex' = IF oldFP = newFP THEN fpIndex
                          ELSE [fpIndex EXCEPT ![oldFP] = NoId, ![newFP] = id]
            /\ UNCHANGED issued

\* ErrNotFound, without an effect, when the map does not hold id.
Delete(id) ==
    IF ~Stored(id) THEN UNCHANGED repoVars
    ELSE /\ byID' = [byID EXCEPT ![id] = NoRow]
         /\ fpIndex' = [fpIndex EXCEPT ![FpOf[byID[id].loc]] = NoId]
         /\ UNCHANGED issued
=============================================================================
