-------------------------- MODULE InMemRepoProofs --------------------------
(***************************************************************************)
(* Proofs about the in-memory repository, for any sets of ids, locators    *)
(* and drafts and any fingerprint function.                                *)
(*                                                                         *)
(* TypeOK and IndexExact are inductive together: each method preserves     *)
(* both.  The other theorems rest on that invariant.                       *)
(***************************************************************************)
EXTENDS InMemRepoSpec, TLAPS

RepoInv == TypeOK /\ IndexExact

\* A draft has the type of a stored row, and is not the absent row.
LEMMA DraftIsDownload ==
    ASSUME NEW d \in Drafts
    PROVE  /\ d \in Download
           /\ d # NoRow
           /\ FpOf[d.loc] \in Fingerprints
  BY DraftsAssumption, NoRowAssumption, FpOfAssumption DEF Download

\* A stored row has a fingerprint.
LEMMA RowHasFingerprint ==
    ASSUME RepoTypeOK, NEW i \in Ids, Stored(i)
    PROVE  byID[i] \in Download /\ FpOf[byID[i].loc] \in Fingerprints
  BY FpOfAssumption DEF RepoTypeOK, Stored, Download

\* While the index is exact, GetByFingerprint is a search through the rows
\* (inmem.go 65-77).
LEMMA GetByFingerprintSearches ==
    ASSUME RepoInv, NEW f \in Fingerprints
    PROVE  /\ GetByFingerprint(f) = fpIndex[f]
           /\ GetByFingerprint(f) = NoId <=>
                \A i \in Ids : Stored(i) => FpOf[byID[i].loc] # f
  BY IdsAssumption
  DEF RepoInv, TypeOK, RepoTypeOK, IndexExact, GetByFingerprint, Stored, IdOrNone

\* The initial repository is empty, and so is its index.
LEMMA InitInv == SpecInit => RepoInv
  BY IdsAssumption
  DEF SpecInit, RepoInit, RepoInv, TypeOK, RepoTypeOK, IndexExact, Stored,
      Rows, IdOrNone

\* AddWithFingerprint that creates: the new row is the one the index gains.
LEMMA StoreNewInv ==
    ASSUME RepoInv, NEW id \in Ids, NEW d \in Drafts, StoreNew(d, id)
    PROVE  RepoInv'
  <1> DEFINE f == FpOf[d.loc]
  <1>1. d \in Download /\ d # NoRow /\ f \in Fingerprints
    BY DraftIsDownload
  <1>2. /\ GetByFingerprint(f) = NoId
        /\ id \in Ids \ issued
        /\ issued' = issued \cup {id}
        /\ byID' = [byID EXCEPT ![id] = d]
        /\ fpIndex' = [fpIndex EXCEPT ![f] = id]
    BY DEF StoreNew, AddWithFingerprint, Insert
  <1>3. TypeOK'
    BY <1>1, <1>2 DEF RepoInv, TypeOK, RepoTypeOK, IdOrNone, Rows, Stored
  <1>4. \A i \in Ids : Stored(i) => FpOf[byID[i].loc] # f
    BY <1>1, <1>2, GetByFingerprintSearches
  <1>5. ~Stored(id)
    BY <1>2 DEF RepoInv, TypeOK, Rows
  <1>6. IndexExact'
    BY <1>1, <1>2, <1>4, <1>5 DEF RepoInv, TypeOK, RepoTypeOK, IndexExact, Stored
  <1> QED BY <1>3, <1>6 DEF RepoInv

\* Update: a row that changes fingerprint takes its index entry along.
LEMMA ChangeInv ==
    ASSUME RepoInv, NEW id \in Ids, NEW d \in Drafts, Change(id, d)
    PROVE  RepoInv'
  <1>1. CASE UpdateResult(id, d) # "ok"
    BY <1>1 DEF Change, Update, repoVars, RepoInv, TypeOK, RepoTypeOK, IndexExact,
                Rows, Stored
  <1>2. CASE UpdateResult(id, d) = "ok"
    <2> DEFINE old == FpOf[byID[id].loc]
               new == FpOf[d.loc]
    <2>1. d \in Download /\ d # NoRow /\ new \in Fingerprints
      BY DraftIsDownload
    <2>2. Stored(id) /\ (new = old \/ fpIndex[new] \in {NoId, id})
      BY <1>2 DEF UpdateResult
    <2>3. old \in Fingerprints
      BY <2>2, RowHasFingerprint DEF RepoInv, TypeOK
    <2>4. /\ byID' = [byID EXCEPT ![id] = d]
          /\ fpIndex' = IF old = new THEN fpIndex
                        ELSE [fpIndex EXCEPT ![old] = NoId, ![new] = id]
          /\ issued' = issued
      BY <1>2 DEF Change, Update
    <2>5. TypeOK'
      BY <2>1, <2>2, <2>3, <2>4
      DEF RepoInv, TypeOK, RepoTypeOK, IdOrNone, Rows, Stored
    <2>6. CASE old = new
      <3>1. IndexExact'
        BY <2>1, <2>2, <2>4, <2>6
        DEF RepoInv, TypeOK, RepoTypeOK, IndexExact, Stored
      <3> QED BY <2>5, <3>1 DEF RepoInv
    <2>7. CASE old # new
      <3>1. fpIndex' = [fpIndex EXCEPT ![old] = NoId, ![new] = id]
        BY <2>4, <2>7
      <3>2. fpIndex[old] = id
        BY <2>2, <2>3 DEF RepoInv, IndexExact
      <3>3. \A i \in Ids \ {id} : Stored(i) => FpOf[byID[i].loc] \notin {old, new}
        BY <2>1, <2>2, <2>3, <2>7, <3>2, IdsAssumption DEF RepoInv, IndexExact
      <3>4. IndexExact'
        BY <2>1, <2>2, <2>3, <2>4, <2>7, <3>1, <3>3, IdsAssumption
        DEF RepoInv, TypeOK, RepoTypeOK, IndexExact, Stored
      <3> QED BY <2>5, <3>4 DEF RepoInv
    <2> QED BY <2>5, <2>6, <2>7 DEF RepoInv
  <1> QED BY <1>1, <1>2

\* Delete: the row and its entry go together.
LEMMA RemoveInv ==
    ASSUME RepoInv, NEW id \in Ids, Remove(id)
    PROVE  RepoInv'
  <1>1. CASE ~Stored(id)
    BY <1>1 DEF Remove, Delete, repoVars, RepoInv, TypeOK, RepoTypeOK, IndexExact,
                Rows, Stored
  <1>2. CASE Stored(id)
    <2> DEFINE old == FpOf[byID[id].loc]
    <2>1. old \in Fingerprints
      BY <1>2, RowHasFingerprint DEF RepoInv, TypeOK
    <2>2. /\ byID' = [byID EXCEPT ![id] = NoRow]
          /\ fpIndex' = [fpIndex EXCEPT ![old] = NoId]
          /\ issued' = issued
      BY <1>2 DEF Remove, Delete
    <2>3. fpIndex[old] = id
      BY <1>2, <2>1 DEF RepoInv, IndexExact
    <2>4. TypeOK'
      BY <2>1, <2>2 DEF RepoInv, TypeOK, RepoTypeOK, IdOrNone, Rows, Stored
    <2>5. \A i \in Ids \ {id} : Stored(i) => FpOf[byID[i].loc] # old
      BY <2>1, <2>3 DEF RepoInv, IndexExact
    <2>6. IndexExact'
      BY <1>2, <2>1, <2>2, <2>5, IdsAssumption
      DEF RepoInv, TypeOK, RepoTypeOK, IndexExact, Stored
    <2> QED BY <2>4, <2>6 DEF RepoInv
  <1> QED BY <1>1, <1>2

\* Every call of the service preserves the invariant.
LEMMA NextInv == RepoInv /\ [Next]_specVars => RepoInv'
  <1> SUFFICES ASSUME RepoInv, [Next]_specVars
               PROVE  RepoInv'
    OBVIOUS
  <1> DEFINE Same == UNCHANGED repoVars
  <1>1. Same => RepoInv'
    BY DEF repoVars, RepoInv, TypeOK, RepoTypeOK, IndexExact, Rows, Stored
  <1>2. ASSUME NEW id \in Ids, ServiceCall(id)
        PROVE  RepoInv'
    <2>1. CASE Remove(id)
      BY <2>1, RemoveInv
    <2>2. CASE Lookup(id)
      BY <2>2, <1>1 DEF Lookup
    <2>3. ASSUME NEW d \in Drafts, StoreNew(d, id)
          PROVE  RepoInv'
      BY <2>3, StoreNewInv
    <2>4. ASSUME NEW d \in Drafts, StoreAgain(d, id)
          PROVE  RepoInv'
      BY <2>4, <1>1 DEF StoreAgain, AddWithFingerprint
    <2>5. ASSUME NEW d \in Drafts, Change(id, d)
          PROVE  RepoInv'
      BY <2>5, ChangeInv
    <2> QED BY <1>2, <2>1, <2>2, <2>3, <2>4, <2>5 DEF ServiceCall
  <1>3. CASE UNCHANGED specVars
    BY <1>1, <1>3 DEF specVars
  <1> QED BY <1>2, <1>3 DEF Next

LEMMA InvHolds == Spec => []RepoInv
  BY InitInv, NextInv, PTL DEF Spec

\* The maps keep their types, and rows exist only under issued ids.
THEOREM TypeCorrect == Spec => []TypeOK
  <1>1. RepoInv => TypeOK
    BY DEF RepoInv
  <1> QED BY <1>1, InvHolds, PTL

\* The index stays exact: deduplication by fingerprint misses no row and
\* follows no dead entry (inmem.go 83-147).
THEOREM IndexIsExact == Spec => []IndexExact
  <1>1. RepoInv => IndexExact
    BY DEF RepoInv
  <1> QED BY <1>1, InvHolds, PTL

\* No call creates a row under an id that was issued before.
LEMMA NextNeverRevives ==
    ASSUME [Next]_specVars, NEW i \in issued, ~Stored(i), RepoTypeOK
    PROVE  byID'[i] = NoRow
  <1>0. i \in Ids /\ byID[i] = NoRow /\ byID \in [Ids -> Download \cup {NoRow}]
    BY DEF RepoTypeOK, Stored
  <1> DEFINE Same == byID' = byID
  <1>1. ASSUME NEW id \in Ids, ServiceCall(id)
        PROVE  byID'[i] = NoRow
    <2>1. CASE Remove(id)
      BY <1>0, <2>1 DEF Remove, Delete, repoVars
    <2>2. CASE Lookup(id)
      BY <1>0, <2>2 DEF Lookup, repoVars
    <2>3. ASSUME NEW d \in Drafts, StoreNew(d, id)
          PROVE  byID'[i] = NoRow
      BY <1>0, <2>3 DEF StoreNew, AddWithFingerprint, Insert
    <2>4. ASSUME NEW d \in Drafts, StoreAgain(d, id)
          PROVE  byID'[i] = NoRow
      BY <1>0, <2>4 DEF StoreAgain, AddWithFingerprint, repoVars
    <2>5. ASSUME NEW d \in Drafts, Change(id, d)
          PROVE  byID'[i] = NoRow
      BY <1>0, <2>5 DEF Change, Update, UpdateResult, Stored, repoVars
    <2> QED BY <1>1, <2>1, <2>2, <2>3, <2>4, <2>5 DEF ServiceCall
  <1>2. CASE UNCHANGED specVars
    BY <1>0, <1>2 DEF specVars, repoVars
  <1> QED BY <1>1, <1>2 DEF Next

\* A deleted id stays deleted whatever its holders call next.
THEOREM DeletedForGood == Spec => DeletedStaysDeleted
  <1>1. RepoInv /\ [Next]_specVars =>
          [\A i \in issued : ~Stored(i) => byID'[i] = NoRow]_specVars
    BY NextNeverRevives DEF RepoInv, TypeOK
  <1> QED BY <1>1, InvHolds, PTL DEF Spec, DeletedStaysDeleted

\* A row that is stored has a key, and only such a row has one.
LEMMA KeyOfRow ==
    ASSUME RepoTypeOK, NEW i \in Ids
    PROVE  /\ Stored(i) => keyOf[i] = FpOf[byID[i].loc] /\ keyOf[i] \in Fingerprints
           /\ keyOf[i] = NoKey <=> ~Stored(i)
  BY RowHasFingerprint, NoKeyAssumption DEF keyOf

\* AddWithFingerprint that creates is the abstract Create.
LEMMA StoreNewRefines ==
    ASSUME RepoInv, NEW id \in Ids, NEW d \in Drafts, StoreNew(d, id)
    PROVE  Abs!Create(FpOf[d.loc], id)
  <1> DEFINE f == FpOf[d.loc]
  <1>1. d \in Download /\ d # NoRow /\ f \in Fingerprints
    BY DraftIsDownload
  <1>2. /\ GetByFingerprint(f) = NoId
        /\ id \in Ids \ issued
        /\ issued' = issued \cup {id}
        /\ byID' = [byID EXCEPT ![id] = d]
        /\ reply' = <<"created", id>>
    BY DEF StoreNew, AddWithFingerprint, Insert
  <1>3. Abs!Free(f)
    BY <1>1, <1>2, GetByFingerprintSearches, KeyOfRow, NoKeyAssumption
    DEF Abs!Free, RepoInv, TypeOK
  <1>4. keyOf' = [keyOf EXCEPT ![id] = f]
    BY <1>1, <1>2 DEF keyOf, Stored, RepoInv, TypeOK, RepoTypeOK
  <1> QED BY <1>2, <1>3, <1>4 DEF Abs!Create

\* AddWithFingerprint that returns an existing row is the abstract Hit.
LEMMA StoreAgainRefines ==
    ASSUME RepoInv, NEW id \in Ids, NEW d \in Drafts, StoreAgain(d, id)
    PROVE  Abs!Hit(FpOf[d.loc], id)
  <1> DEFINE f == FpOf[d.loc]
  <1>1. f \in Fingerprints
    BY DraftIsDownload
  <1>2. /\ id = fpIndex[f]
        /\ reply' = <<"existing", id>>
        /\ UNCHANGED repoVars
    BY <1>1, GetByFingerprintSearches DEF StoreAgain, AddWithFingerprint
  <1>3. keyOf[id] = f
    BY <1>1, <1>2, KeyOfRow DEF RepoInv, TypeOK, IndexExact
  <1>4. keyOf' = keyOf /\ issued' = issued
    BY <1>2 DEF keyOf, Stored, repoVars
  <1> QED BY <1>2, <1>3, <1>4 DEF Abs!Hit

\* Update is a Rekey, a Conflict or a Miss, as its result says.
LEMMA ChangeRefines ==
    ASSUME RepoInv, NEW id \in Ids, NEW d \in Drafts, Change(id, d)
    PROVE  \/ Abs!Rekey(FpOf[d.loc], id)
           \/ Abs!Conflict(FpOf[d.loc], id)
           \/ Abs!Miss(id)
  <1> DEFINE old == FpOf[byID[id].loc]
             new == FpOf[d.loc]
  <1>1. d \in Download /\ d # NoRow /\ new \in Fingerprints
    BY DraftIsDownload
  <1>2. UNCHANGED repoVars => keyOf' = keyOf /\ issued' = issued
    BY DEF keyOf, Stored, repoVars
  <1>3. CASE ~Stored(id)
    <2>1. UNCHANGED repoVars /\ reply' = <<"notFound", id>>
      BY <1>3 DEF Change, Update, UpdateResult
    <2> QED BY <1>2, <1>3, <2>1, KeyOfRow DEF Abs!Miss, RepoInv, TypeOK
  <1>4. CASE Stored(id) /\ new # old /\ fpIndex[new] \notin {NoId, id}
    <2>1. UNCHANGED repoVars /\ reply' = <<"conflict", id>>
      BY <1>4 DEF Change, Update, UpdateResult
    <2>2. PICK other \in Ids \ {id} : fpIndex[new] = other
      BY <1>1, <1>4 DEF RepoInv, TypeOK, RepoTypeOK, IdOrNone
    <2>3. keyOf[other] = new
      BY <1>1, <2>2, KeyOfRow DEF RepoInv, TypeOK, IndexExact
    <2> QED BY <1>2, <1>4, <2>1, <2>3, KeyOfRow DEF Abs!Conflict, RepoInv, TypeOK
  <1>5. CASE Stored(id) /\ (new = old \/ fpIndex[new] \in {NoId, id})
    <2>1. UpdateResult(id, d) = "ok"
      BY <1>5 DEF UpdateResult
    <2>2. /\ byID' = [byID EXCEPT ![id] = d]
          /\ issued' = issued
          /\ reply' = <<"ok", id>>
      BY <2>1 DEF Change, Update
    <2>3. keyOf' = [keyOf EXCEPT ![id] = new]
      BY <1>1, <2>2 DEF keyOf, Stored, RepoInv, TypeOK, RepoTypeOK
    <2>4. fpIndex[new] \in {NoId, id}
      BY <1>1, <1>5 DEF RepoInv, IndexExact
    <2>5. ASSUME NEW other \in Ids \ {id}
          PROVE  keyOf[other] # new
      <3>1. fpIndex[new] # other
        BY <2>4, IdsAssumption
      <3> QED BY <1>1, <3>1, KeyOfRow, NoKeyAssumption DEF RepoInv, TypeOK, IndexExact
    <2>6. keyOf[id] # NoKey
      BY <1>5, KeyOfRow DEF RepoInv, TypeOK
    <2> QED BY <2>2, <2>3, <2>5, <2>6 DEF Abs!Rekey
  <1> QED BY <1>3, <1>4, <1>5

\* Delete is a Release or a Miss.
LEMMA RemoveRefines ==
    ASSUME RepoInv, NEW id \in Ids, Remove(id)
    PROVE  Abs!Release(id) \/ Abs!Miss(id)
  <1>1. CASE Stored(id)
    <2>1. /\ byID' = [byID EXCEPT ![id] = NoRow]
          /\ issued' = issued
          /\ reply' = <<"deleted", id>>
      BY <1>1 DEF Remove, Delete
    <2>2. keyOf' = [keyOf EXCEPT ![id] = NoKey]
      BY <2>1 DEF keyOf, Stored, RepoInv, TypeOK, RepoTypeOK
    <2> QED BY <1>1, <2>1, <2>2, KeyOfRow DEF Abs!Release, RepoInv, TypeOK
  <1>2. CASE ~Stored(id)
    <2>1. /\ UNCHANGED repoVars
          /\ reply' = <<"notFound", id>>
      BY <1>2 DEF Remove, Delete
    <2>2. keyOf' = keyOf /\ issued' = issued
      BY <2>1 DEF keyOf, Stored, repoVars
    <2> QED BY <1>2, <2>1, <2>2, KeyOfRow DEF Abs!Miss, RepoInv, TypeOK
  <1> QED BY <1>1, <1>2

\* Get is a Found or a Miss.
LEMMA LookupRefines ==
    ASSUME RepoInv, NEW id \in Ids, Lookup(id)
    PROVE  Abs!Found(id) \/ Abs!Miss(id)
  <1>1. keyOf' = keyOf /\ issued' = issued
    BY DEF Lookup, keyOf, Stored, repoVars
  <1>2. keyOf[id] = NoKey <=> ~Stored(id)
    BY KeyOfRow DEF RepoInv, TypeOK
  <1> QED BY <1>1, <1>2 DEF Lookup, Abs!Found, Abs!Miss

\* The repository and its index implement the store that searches its rows
\* (downloads.go 33-39).
THEOREM ImplementsFingerprintStore == Spec => ImplementsStore
  <1>1. SpecInit => Abs!Init
    BY DEF SpecInit, RepoInit, Abs!Init, keyOf, Stored
  <1>2. RepoInv /\ [Next]_specVars => [Abs!Next]_(Abs!vars)
    <2> SUFFICES ASSUME RepoInv, [Next]_specVars
                 PROVE  [Abs!Next]_(Abs!vars)
      OBVIOUS
    <2>1. ASSUME NEW id \in Ids, ServiceCall(id)
          PROVE  Abs!Next
      <3>1. CASE Remove(id)
        BY <3>1, RemoveRefines DEF Abs!Next
      <3>2. CASE Lookup(id)
        BY <3>2, LookupRefines DEF Abs!Next
      <3>3. ASSUME NEW d \in Drafts, StoreNew(d, id)
            PROVE  Abs!Next
        BY <3>3, StoreNewRefines, DraftIsDownload DEF Abs!Next
      <3>4. ASSUME NEW d \in Drafts, StoreAgain(d, id)
            PROVE  Abs!Next
        BY <3>4, StoreAgainRefines, DraftIsDownload DEF Abs!Next
      <3>5. ASSUME NEW d \in Drafts, Change(id, d)
            PROVE  Abs!Next
        BY <3>5, ChangeRefines, DraftIsDownload DEF Abs!Next
      <3> QED BY <2>1, <3>1, <3>2, <3>3, <3>4, <3>5 DEF ServiceCall
    <2>2. CASE UNCHANGED specVars
      BY <2>2 DEF specVars, repoVars, Abs!vars, keyOf, Stored
    <2> QED BY <2>1, <2>2 DEF Next
  <1> QED BY <1>1, <1>2, InvHolds, PTL DEF Spec, ImplementsStore, Abs!Spec
-----------------------------------------------------------------------------
\* With plain Add among the calls the index is no longer exact, but sound.
SoundInv == TypeOK /\ IndexSound

LEMMA StorePlainSound ==
    ASSUME SoundInv, NEW id \in Ids, NEW d \in Drafts, StorePlain(d, id)
    PROVE  SoundInv'
  <1>1. d \in Download /\ d # NoRow
    BY DraftIsDownload
  <1>2. /\ id \in Ids \ issued
        /\ issued' = issued \cup {id}
        /\ byID' = [byID EXCEPT ![id] = d]
        /\ UNCHANGED fpIndex
    BY DEF StorePlain, Add, Insert
  <1>3. ~Stored(id)
    BY <1>2 DEF SoundInv, TypeOK, Rows
  <1>4. TypeOK'
    BY <1>1, <1>2 DEF SoundInv, TypeOK, RepoTypeOK, Rows, Stored
  <1>5. IndexSound'
    BY <1>1, <1>2, <1>3 DEF SoundInv, TypeOK, RepoTypeOK, IndexSound, Stored, IdOrNone
  <1> QED BY <1>4, <1>5 DEF SoundInv

\* The dead entry that AddWithFingerprint may find is replaced.
LEMMA StoreNewSound ==
    ASSUME SoundInv, NEW id \in Ids, NEW d \in Drafts, StoreNew(d, id)
    PROVE  SoundInv'
  <1> DEFINE f == FpOf[d.loc]
  <1>1. d \in Download /\ d # NoRow /\ f \in Fingerprints
    BY DraftIsDownload
  <1>2. /\ id \in Ids \ issued
        /\ issued' = issued \cup {id}
        /\ byID' = [byID EXCEPT ![id] = d]
        /\ fpIndex' = [fpIndex EXCEPT ![f] = id]
    BY DEF StoreNew, AddWithFingerprint, Insert
  <1>3. ~Stored(id)
    BY <1>2 DEF SoundInv, TypeOK, Rows
  <1>4. TypeOK'
    BY <1>1, <1>2 DEF SoundInv, TypeOK, RepoTypeOK, IdOrNone, Rows, Stored
  <1>5. IndexSound'
    BY <1>1, <1>2, <1>3 DEF SoundInv, TypeOK, RepoTypeOK, IndexSound, Stored, IdOrNone
  <1> QED BY <1>4, <1>5 DEF SoundInv

\* Update takes over the entry of the new fingerprint only if it is free or
\* the row's own, and clears that of the old one, whosever it is.
LEMMA ChangeSound ==
    ASSUME SoundInv, NEW id \in Ids, NEW d \in Drafts, Change(id, d)
    PROVE  SoundInv'
  <1>1. CASE UpdateResult(id, d) # "ok"
    BY <1>1 DEF Change, Update, repoVars, SoundInv, TypeOK, RepoTypeOK, IndexSound,
                Rows, Stored
  <1>2. CASE UpdateResult(id, d) = "ok"
    <2> DEFINE old == FpOf[byID[id].loc]
               new == FpOf[d.loc]
    <2>1. d \in Download /\ d # NoRow /\ new \in Fingerprints
      BY DraftIsDownload
    <2>2. Stored(id)
      BY <1>2 DEF UpdateResult
    <2>3. old \in Fingerprints
      BY <2>2, RowHasFingerprint DEF SoundInv, TypeOK
    <2>4. /\ byID' = [byID EXCEPT ![id] = d]
          /\ fpIndex' = IF old = new THEN fpIndex
                        ELSE [fpIndex EXCEPT ![old] = NoId, ![new] = id]
          /\ issued' = issued
      BY <1>2 DEF Change, Update
    <2>5. TypeOK'
      BY <2>1, <2>2, <2>3, <2>4
      DEF SoundInv, TypeOK, RepoTypeOK, IdOrNone, Rows, Stored
    <2>6. ASSUME NEW f \in Fingerprints, fpIndex'[f] # NoId
          PROVE  (Stored(fpIndex[f]) /\ FpOf[byID[fpIndex[f]].loc] = f)'
      <3>1. CASE old = new
        BY <2>1, <2>2, <2>4, <2>6, <3>1
        DEF SoundInv, TypeOK, RepoTypeOK, IndexSound, Stored, IdOrNone
      <3>2. CASE old # new
        <4>1. fpIndex' = [fpIndex EXCEPT ![old] = NoId, ![new] = id]
          BY <2>4, <3>2
        <4>2. f # old
          BY <2>3, <2>6, <3>2, <4>1 DEF SoundInv, TypeOK, RepoTypeOK
        <4>3. CASE f = new
          BY <2>1, <2>4, <4>1, <4>3 DEF SoundInv, TypeOK, RepoTypeOK, Stored
        <4>4. CASE f # new
          <5>1. fpIndex'[f] = fpIndex[f] /\ fpIndex[f] # id /\ fpIndex[f] \in Ids
            BY <2>2, <2>6, <4>1, <4>2, <4>4
            DEF SoundInv, TypeOK, RepoTypeOK, IndexSound, IdOrNone
          <5> QED
            BY <2>4, <2>6, <5>1 DEF SoundInv, TypeOK, RepoTypeOK, IndexSound, Stored
        <4> QED BY <4>3, <4>4
      <3> QED BY <3>1, <3>2
    <2> QED BY <2>5, <2>6 DEF SoundInv, IndexSound
  <1> QED BY <1>1, <1>2

\* Delete clears the entry of the row's fingerprint, whosever it is.
LEMMA RemoveSound ==
    ASSUME SoundInv, NEW id \in Ids, Remove(id)
    PROVE  SoundInv'
  <1>1. CASE ~Stored(id)
    BY <1>1 DEF Remove, Delete, repoVars, SoundInv, TypeOK, RepoTypeOK, IndexSound,
                Rows, Stored
  <1>2. CASE Stored(id)
    <2> DEFINE old == FpOf[byID[id].loc]
    <2>1. old \in Fingerprints
      BY <1>2, RowHasFingerprint DEF SoundInv, TypeOK
    <2>2. /\ byID' = [byID EXCEPT ![id] = NoRow]
          /\ fpIndex' = [fpIndex EXCEPT ![old] = NoId]
          /\ issued' = issued
      BY <1>2 DEF Remove, Delete
    <2>3. TypeOK'
      BY <2>1, <2>2 DEF SoundInv, TypeOK, RepoTypeOK, IdOrNone, Rows, Stored
    <2>4. ASSUME NEW f \in Fingerprints, fpIndex'[f] # NoId
          PROVE  (Stored(fpIndex[f]) /\ FpOf[byID[fpIndex[f]].loc] = f)'
      <3>1. f # old /\ fpIndex'[f] = fpIndex[f]
        BY <2>1, <2>2, <2>4 DEF SoundInv, TypeOK, RepoTypeOK
      <3>2. fpIndex[f] \in Ids \ {id}
        BY <2>4, <3>1 DEF SoundInv, TypeOK, RepoTypeOK, IndexSound, IdOrNone
      <3> QED
        BY <2>2, <2>4, <3>1, <3>2 DEF SoundInv, TypeOK, RepoTypeOK, IndexSound, Stored
    <2> QED BY <2>3, <2>4 DEF SoundInv, IndexSound
  <1> QED BY <1>1, <1>2

\* With every method of the interface called in any order, the index may
\* miss a row but never leads to a missing one or one of another fingerprint
\* (inmem.go 54-147).
THEOREM IndexIsSound == SpecWithAdd => []IndexSound
  <1>1. SpecInit => SoundInv
    BY IdsAssumption
    DEF SpecInit, RepoInit, SoundInv, TypeOK, RepoTypeOK, IndexSound, Stored, Rows, IdOrNone
  <1>2. SoundInv /\ [NextWithAdd]_specVars => SoundInv'
    <2> SUFFICES ASSUME SoundInv, [NextWithAdd]_specVars
                 PROVE  SoundInv'
      OBVIOUS
    <2>1. UNCHANGED repoVars => SoundInv'
      BY DEF repoVars, SoundInv, TypeOK, RepoTypeOK, IndexSound, Rows, Stored
    <2>2. ASSUME NEW id \in Ids, ServiceCall(id)
          PROVE  SoundInv'
      <3>1. ASSUME NEW d \in Drafts, StoreAgain(d, id)
            PROVE  UNCHANGED repoVars
        BY <3>1 DEF StoreAgain, AddWithFingerprint
      <3> QED
        BY <2>1, <2>2, <3>1, StoreNewSound, ChangeSound, RemoveSound DEF ServiceCall, Lookup
    <2>3. CASE UNCHANGED specVars
      BY <2>1, <2>3 DEF specVars
    <2> QED BY <2>2, <2>3, StorePlainSound DEF NextWithAdd
  <1>3. SoundInv => IndexSound
    BY DEF SoundInv
  <1> QED BY <1>1, <1>2, <1>3, PTL DEF SpecWithAdd
=============================================================================
