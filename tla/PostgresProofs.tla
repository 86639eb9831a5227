--------------------------- MODULE PostgresProofs ---------------------------
(***************************************************************************)
(* The Postgres repository for every set of sessions, ids, drafts and      *)
(* locators: an Update overwrites the row it read, and the table does what *)
(* the in-memory repository does.                                          *)
(*                                                                         *)
(* The inductive invariant, TableInv, has two parts.  LockInv: row locks   *)
(* exclude each other and pin the row that was read.  FpInv: fingerprints  *)
(* are apart, among the rows and the Updates about to be committed.        *)
(***************************************************************************)
EXTENDS PostgresRepo, TLAPS

\* The row an open Update read under its lock is the row in the table.
Pinned ==
    \A s \in Sessions, i \in Ids : Holds(s, i) => Stored(i) /\ rows[i] = txn[s].cur

\* No two sessions hold the lock of one row.
Exclusive ==
    \A s, t \in Sessions, i \in Ids : Holds(s, i) /\ Holds(t, i) => s = t

LockInv == TypeOK /\ Pinned /\ Exclusive

\* A draft has the type of a stored row, and is not the absent row.
LEMMA DraftIsDownload ==
    ASSUME NEW d \in Drafts
    PROVE  /\ d \in Download
           /\ d # NoRow
           /\ FpOf[d.loc] \in Fingerprints
  BY DraftsAssumption, NoRowAssumption, FpOfAssumption DEF Download

\* What the frame of an open Update holds.
LEMMA OpenUpdate ==
    ASSUME TypeOK, NEW s \in Sessions
    PROVE  /\ At(s, "locked") => txn[s].id \in Ids /\ txn[s].cur \in Download
           /\ At(s, "written") => /\ txn[s].id \in Ids
                                  /\ txn[s].cur \in Download
                                  /\ txn[s].next \in Drafts /\ txn[s].next \in Download
  BY DraftsAssumption DEF TypeOK, Frames, At, Idle

\* A step that ends a call, or moves it on without a lock, and leaves the rows
\* alone keeps the locks of the others as they were.
LEMMA Unlocking ==
    ASSUME LockInv, NEW s \in Sessions, NEW frame \in Frames,
           frame.pc \in {"idle", "inserted", "conflicting"}, Become(s, frame),
           rows' \in [Ids -> Download \cup {NoRow}], issued' \subseteq Ids,
           \A t \in Sessions \ {s}, i \in Ids : Holds(t, i) => rows'[i] = rows[i]
    PROVE  LockInv'
  <1>1. TypeOK'
    BY DEF LockInv, TypeOK, Become
  <1>2. \A t \in Sessions : t # s => txn'[t] = txn[t]
    BY DEF LockInv, TypeOK, Become
  <1>3. txn'[s] = frame
    BY DEF LockInv, TypeOK, Become
  <1>4. \A i \in Ids : ~Holds(s, i)'
    BY <1>3 DEF Holds
  <1>5. \A t \in Sessions, i \in Ids : Holds(t, i)' => t # s /\ Holds(t, i)
    BY <1>2, <1>4 DEF Holds
  <1>6. Pinned'
    BY <1>2, <1>5 DEF LockInv, Pinned, Stored
  <1>7. Exclusive'
    BY <1>5 DEF LockInv, Exclusive
  <1> QED BY <1>1, <1>6, <1>7 DEF LockInv

\* SELECT .. FOR UPDATE takes a lock nobody has, on the row as it is.
LEMMA LockKeeps ==
    ASSUME LockInv, NEW s \in Sessions, NEW id \in Ids, Lock(s, id)
    PROVE  LockInv'
  <1>1. CASE ~Stored(id)
    BY <1>1 DEF Lock, LockInv, TypeOK, Pinned, Exclusive, Holds, Stored
  <1>2. CASE Stored(id)
    <2>1. rows[id] \in Download /\ rows[id] # NoRow
      BY <1>2 DEF LockInv, TypeOK, Stored
    <2>2. Locked(id, rows[id]) \in Frames
      BY <2>1 DEF Locked, Frames
    <2>3. txn' = [txn EXCEPT ![s] = Locked(id, rows[id])] /\ rows' = rows /\ issued' = issued
      BY <1>2 DEF Lock, Become
    <2>4. TypeOK'
      BY <2>2, <2>3 DEF LockInv, TypeOK
    <2>5. /\ txn'[s] = Locked(id, rows[id])
          /\ \A t \in Sessions : t # s => txn'[t] = txn[t]
      BY <2>3 DEF LockInv, TypeOK
    <2>6. \A t \in Sessions, i \in Ids :
             Holds(t, i)' => (t = s /\ i = id) \/ (t # s /\ Holds(t, i))
      BY <2>5 DEF Holds, Locked
    <2>7. \A t \in Sessions : ~Holds(t, id)
      BY DEF Lock, Free
    <2>8. Pinned'
      BY <2>1, <2>3, <2>5, <2>6 DEF LockInv, Pinned, Stored, Locked
    <2>9. Exclusive'
      BY <2>6, <2>7 DEF LockInv, Exclusive
    <2> QED BY <2>4, <2>8, <2>9 DEF LockInv
  <1> QED BY <1>1, <1>2

\* UPDATE keeps the lock and the row it read, or ends the transaction.
LEMMA WriteKeeps ==
    ASSUME LockInv, NEW s \in Sessions, NEW d \in Drafts, Write(s, d)
    PROVE  LockInv'
  <1> DEFINE id  == txn[s].id
             cur == txn[s].cur
  <1>1. /\ id \in Ids /\ cur \in Download /\ d \in Download /\ At(s, "locked")
        /\ rows' = rows /\ issued' = issued
    BY OpenUpdate, DraftIsDownload DEF Write, LockInv
  <1>2. CASE Become(s, Idle)
    <2>1. Idle \in Frames /\ Idle.pc = "idle"
      BY DEF Idle, Frames
    <2> QED BY <1>1, <1>2, <2>1, Unlocking DEF LockInv, TypeOK
  <1>3. CASE Become(s, Written(id, cur, d))
    <2>1. Written(id, cur, d) \in Frames
      BY <1>1 DEF Written, Frames
    <2>2. TypeOK'
      BY <1>1, <1>3, <2>1 DEF LockInv, TypeOK, Become
    <2>3. /\ txn'[s] = Written(id, cur, d)
          /\ \A t \in Sessions : t # s => txn'[t] = txn[t]
      BY <1>3 DEF LockInv, TypeOK, Become
    <2>4. /\ txn'[s].pc = "written" /\ txn'[s].id = txn[s].id /\ txn'[s].cur = txn[s].cur
      BY <2>3 DEF Written
    <2>5. \A t \in Sessions, i \in Ids : Holds(t, i)' => Holds(t, i) /\ txn'[t].cur = txn[t].cur
      BY <1>1, <2>3, <2>4 DEF Holds, At
    <2>6. Pinned' /\ Exclusive'
      BY <1>1, <2>5 DEF LockInv, Pinned, Exclusive, Stored
    <2> QED BY <2>2, <2>6 DEF LockInv
  <1> QED BY <1>2, <1>3 DEF Write

LEMMA IdleFrames ==
    /\ Idle \in Frames /\ Idle.pc = "idle"
    /\ \A id \in Ids : Inserted(id) \in Frames /\ Inserted(id).pc = "inserted"
    /\ \A d \in Drafts : /\ Conflicting(FpOf[d.loc]) \in Frames
                         /\ Conflicting(FpOf[d.loc]).pc = "conflicting"
  BY DEF Idle, Inserted, Conflicting, Frames

\* A row that an open Update holds is in the table, so an INSERT is not of it;
\* this rests on the ids in the table having been issued.
IssuedRows == \A i \in Ids : Stored(i) => i \in issued

LEMMA InsertKeeps ==
    ASSUME LockInv, IssuedRows, NEW s \in Sessions, NEW id \in Ids, NEW d \in Drafts,
           Insert(s, id, d)
    PROVE  LockInv'
  <1>1. /\ d \in Download /\ id \notin issued
        /\ rows' = [rows EXCEPT ![id] = d] /\ issued' = issued \cup {id}
        /\ Become(s, Inserted(id))
    BY DraftIsDownload DEF Insert
  <1>2. rows' \in [Ids -> Download \cup {NoRow}] /\ issued' \subseteq Ids
    BY <1>1 DEF LockInv, TypeOK
  <1>3. \A t \in Sessions, i \in Ids : Holds(t, i) => i # id
    BY <1>1 DEF LockInv, Pinned, IssuedRows
  <1>4. \A t \in Sessions, i \in Ids : Holds(t, i) => rows'[i] = rows[i]
    BY <1>1, <1>3 DEF LockInv, TypeOK
  <1> QED BY <1>1, <1>2, <1>4, IdleFrames, Unlocking

\* DELETE is of a row that no open Update holds.
LEMMA DeleteKeeps ==
    ASSUME LockInv, NEW s \in Sessions, NEW id \in Ids, Delete(s, id)
    PROVE  LockInv'
  <1>1. /\ rows' = [rows EXCEPT ![id] = NoRow] /\ txn' = txn /\ issued' = issued
        /\ \A t \in Sessions : ~Holds(t, id)
    BY DEF Delete, Free
  <1>2. TypeOK'
    BY <1>1 DEF LockInv, TypeOK
  <1>3. \A t \in Sessions, i \in Ids : Holds(t, i)' => Holds(t, i) /\ rows'[i] = rows[i]
    BY <1>1 DEF LockInv, TypeOK, Holds
  <1> QED BY <1>1, <1>2, <1>3 DEF LockInv, Pinned, Exclusive, Stored

\* COMMIT writes the row its own session holds.
LEMMA CommitKeeps ==
    ASSUME LockInv, NEW s \in Sessions, Commit(s)
    PROVE  LockInv'
  <1> DEFINE id == txn[s].id
  <1>1. /\ id \in Ids /\ txn[s].next \in Download /\ Holds(s, id)
    BY OpenUpdate DEF Commit, LockInv, At, Holds
  <1>2. /\ rows' = [rows EXCEPT ![id] = txn[s].next] /\ issued' = issued /\ Become(s, Idle)
    BY DEF Commit
  <1>3. rows' \in [Ids -> Download \cup {NoRow}] /\ issued' \subseteq Ids
    BY <1>1, <1>2 DEF LockInv, TypeOK
  <1>4. \A t \in Sessions \ {s}, i \in Ids : Holds(t, i) => i # id
    BY <1>1 DEF LockInv, Exclusive
  <1>5. \A t \in Sessions \ {s}, i \in Ids : Holds(t, i) => rows'[i] = rows[i]
    BY <1>2, <1>4 DEF LockInv, TypeOK
  <1> QED BY <1>2, <1>3, <1>5, IdleFrames, Unlocking

\* The statements that leave the table alone and end a call or begin a fetch.
LEMMA QuietKeeps ==
    ASSUME LockInv, NEW s \in Sessions, NEW frame \in Frames,
           frame.pc \in {"idle", "inserted", "conflicting"}, Become(s, frame), UNCHANGED <<rows, issued>>
    PROVE  LockInv'
  <1>1. rows' \in [Ids -> Download \cup {NoRow}] /\ issued' \subseteq Ids
    BY DEF LockInv, TypeOK
  <1> QED BY <1>1, Unlocking

LEMMA NextLock == LockInv /\ IssuedRows /\ [Next]_vars => LockInv' /\ IssuedRows'
  <1> SUFFICES ASSUME LockInv, IssuedRows, [Next]_vars
               PROVE  LockInv' /\ IssuedRows'
    OBVIOUS
  <1>1. ASSUME UNCHANGED <<rows, issued>>
        PROVE  IssuedRows'
    BY <1>1 DEF IssuedRows, Stored
  <1>2. ASSUME UNCHANGED <<rows, issued, txn>>
        PROVE  LockInv' /\ IssuedRows'
    BY <1>1, <1>2 DEF LockInv, TypeOK, Pinned, Exclusive, Holds, Stored
  <1>3. ASSUME NEW s \in Sessions, NEW d \in Drafts, InsertNothing(s, d)
        PROVE  LockInv' /\ IssuedRows'
    BY <1>1, <1>3, DraftIsDownload, IdleFrames, QuietKeeps DEF InsertNothing
  <1>4. ASSUME NEW s \in Sessions, NEW d \in Drafts, Write(s, d)
        PROVE  LockInv' /\ IssuedRows'
    BY <1>1, <1>4, WriteKeeps DEF Write
  <1>5. ASSUME NEW s \in Sessions, FetchInserted(s) \/ FetchExisting(s)
        PROVE  LockInv' /\ IssuedRows'
    BY <1>1, <1>5, IdleFrames, QuietKeeps DEF FetchInserted, FetchExisting
  <1>6. ASSUME NEW s \in Sessions, Commit(s)
        PROVE  LockInv' /\ IssuedRows'
    <2>1. \A i \in Ids : i # txn[s].id => rows'[i] = rows[i]
      BY <1>6 DEF Commit, LockInv, TypeOK
    <2>2. txn[s].id \in Ids /\ Stored(txn[s].id) /\ issued' = issued
      BY <1>6, OpenUpdate DEF Commit, LockInv, Pinned, Holds, At
    <2> QED BY <1>6, <2>1, <2>2, CommitKeeps DEF IssuedRows, Stored
  <1>7. ASSUME NEW s \in Sessions, Rollback(s)
        PROVE  LockInv' /\ IssuedRows'
    BY <1>1, <1>7, IdleFrames, QuietKeeps DEF Rollback
  <1>8. ASSUME NEW s \in Sessions, NEW id \in Ids, Lock(s, id)
        PROVE  LockInv' /\ IssuedRows'
    BY <1>1, <1>8, LockKeeps DEF Lock
  <1>9. ASSUME NEW s \in Sessions, NEW id \in Ids, Delete(s, id)
        PROVE  LockInv' /\ IssuedRows'
    BY <1>9, DeleteKeeps DEF Delete, IssuedRows, Stored, LockInv, TypeOK
  <1>10. ASSUME NEW s \in Sessions, NEW id \in Ids, Get(s, id)
         PROVE  LockInv' /\ IssuedRows'
    BY <1>2, <1>10 DEF Get
  <1>11. ASSUME NEW s \in Sessions, NEW id \in Ids, NEW d \in Drafts, Insert(s, id, d)
         PROVE  LockInv' /\ IssuedRows'
    BY <1>11, InsertKeeps DEF Insert, IssuedRows, Stored, LockInv, TypeOK
  <1>12. CASE UNCHANGED vars
    BY <1>2, <1>12 DEF vars
  <1> QED BY <1>3, <1>4, <1>5, <1>6, <1>7, <1>8, <1>9, <1>10, <1>11, <1>12 DEF Next

LEMMA InitLock == Init => LockInv /\ IssuedRows
  BY IdleFrames DEF Init, LockInv, TypeOK, Pinned, Exclusive, IssuedRows, Holds, Stored, Idle

LEMMA LocksHold == Spec => [](LockInv /\ IssuedRows)
  BY InitLock, NextLock, PTL DEF Spec

\* The table and the frames keep their types.
THEOREM TypeCorrect == Spec => []TypeOK
  <1>1. LockInv => TypeOK
    BY DEF LockInv
  <1> QED BY <1>1, LocksHold, PTL

\* A committed Update replaces the row it read (postgres.go 166-211).
THEOREM UpdatesAreNotLost == Spec => NoLostUpdate
  <1>1. ASSUME LockInv, NEW s \in Sessions, At(s, "written")
        PROVE  rows[txn[s].id] = txn[s].cur
    BY <1>1, OpenUpdate DEF LockInv, Pinned, Holds, At
  <1>2. LockInv /\ [Next]_vars =>
          [\A s \in Sessions :
             At(s, "written") /\ rows'[txn[s].id] # rows[txn[s].id] /\ txn'[s] = Idle
               => rows[txn[s].id] = txn[s].cur]_vars
    BY <1>1
  <1> QED BY <1>2, LocksHold, PTL DEF Spec, NoLostUpdate
-----------------------------------------------------------------------------
\* No two rows share a fingerprint, and no row or other open Update has the
\* fingerprint that an open Update is about to commit.
UniqueIn(table) ==
    \A i, j \in Ids :
        table[i] # NoRow /\ table[j] # NoRow /\ FpOf[table[i].loc] = FpOf[table[j].loc] => i = j

Claimed ==
    \A s \in Sessions, i \in Ids :
        At(s, "written") /\ Stored(i) /\ FpOf[rows[i].loc] = FpOf[txn[s].next.loc]
            => i = txn[s].id

ClaimsApart ==
    \A s, t \in Sessions :
        At(s, "written") /\ At(t, "written") /\ FpOf[txn[s].next.loc] = FpOf[txn[t].next.loc]
            => s = t

FpInv == UniqueIn(rows) /\ Claimed /\ ClaimsApart

\* A step that adds no row and no written Update keeps fingerprints apart.
LEMMA ShrinkingKeeps ==
    ASSUME FpInv, \A i \in Ids : rows'[i] \in {rows[i], NoRow},
           \A t \in Sessions : At(t, "written")' => txn'[t] = txn[t]
    PROVE  FpInv'
  BY DEF FpInv, UniqueIn, Claimed, ClaimsApart, At, Stored

\* What becoming a frame does to the written Updates.
LEMMA Becoming ==
    ASSUME TypeOK, NEW s \in Sessions, NEW frame, Become(s, frame)
    PROVE  txn'[s] = frame /\ \A t \in Sessions \ {s} : txn'[t] = txn[t]
  BY DEF TypeOK, Become

LEMMA UnwrittenKeeps ==
    ASSUME TypeOK, FpInv, NEW s \in Sessions, NEW frame, Become(s, frame),
           frame.pc # "written", rows' = rows
    PROVE  FpInv'
  <1>1. \A t \in Sessions : At(t, "written")' => txn'[t] = txn[t]
    BY Becoming DEF At
  <1> QED BY <1>1, ShrinkingKeeps

\* An INSERT waits for the open Updates its fingerprint depends on.
LEMMA InsertKeepsApart ==
    ASSUME TypeOK, FpInv, NEW s \in Sessions, NEW id \in Ids, NEW d \in Drafts, Insert(s, id, d)
    PROVE  FpInv'
  <1> DEFINE f == FpOf[d.loc]
  <1>1. \A i \in Ids : rows'[i] = IF i = id THEN d ELSE rows[i]
    BY DEF Insert, TypeOK
  <1>2. \A t \in Sessions : At(t, "written")' => t # s /\ txn'[t] = txn[t] /\ At(t, "written")
    BY Becoming, IdleFrames DEF Insert, At
  <1>3. \A i \in Ids : Stored(i) => FpOf[rows[i].loc] # f
    BY DEF Insert, With
  <1>4. \A t \in Sessions : At(t, "written") => FpOf[txn[t].next.loc] # f
    BY DEF Insert, Unsettled
  <1>5. UniqueIn(rows)'
    BY <1>1, <1>3 DEF FpInv, UniqueIn, Stored
  <1>6. Claimed'
    BY <1>1, <1>2, <1>4 DEF FpInv, Claimed, Stored
  <1>7. ClaimsApart'
    BY <1>2 DEF FpInv, ClaimsApart
  <1> QED BY <1>5, <1>6, <1>7 DEF FpInv

\* An UPDATE keeps its row's fingerprint or takes one nobody has or waits for.
LEMMA WriteKeepsApart ==
    ASSUME LockInv, FpInv, NEW s \in Sessions, NEW d \in Drafts, Write(s, d)
    PROVE  FpInv'
  <1> DEFINE id  == txn[s].id
             cur == txn[s].cur
             f   == FpOf[d.loc]
  <1>1. /\ id \in Ids /\ Holds(s, id) /\ Stored(id) /\ rows[id] = cur /\ rows' = rows
        /\ TypeOK
    BY OpenUpdate DEF Write, LockInv, Pinned, Holds, At
  <1>2. CASE Become(s, Idle)
    <2>1. Idle.pc # "written"
      BY DEF Idle
    <2> QED BY <1>1, <1>2, <2>1, UnwrittenKeeps
  <1>3. CASE /\ Become(s, Written(id, cur, d))
             /\ f = FpOf[cur.loc] \/ (~Unsettled(f) /\ With(f) = {})
    <2>1. /\ txn'[s] = Written(id, cur, d)
          /\ \A t \in Sessions \ {s} : txn'[t] = txn[t]
      BY <1>1, <1>3, Becoming
    <2>2. txn'[s].id = id /\ txn'[s].next = d
      BY <2>1 DEF Written
    <2>3. \A i \in Ids : Stored(i) /\ FpOf[rows[i].loc] = f => i = id
      BY <1>1, <1>3 DEF FpInv, UniqueIn, Stored, With
    <2>4. \A t \in Sessions \ {s} : At(t, "written") => FpOf[txn[t].next.loc] # f
      <3>1. CASE f = FpOf[cur.loc]
        <4>1. \A t \in Sessions \ {s} : At(t, "written") => txn[t].id # id
          BY <1>1 DEF LockInv, Exclusive, Holds, At
        <4> QED BY <1>1, <3>1, <4>1 DEF FpInv, Claimed
      <3>2. CASE ~Unsettled(f)
        BY <3>2 DEF Unsettled
      <3> QED BY <1>3, <3>1, <3>2
    <2>5. Claimed'
      BY <1>1, <2>1, <2>2, <2>3 DEF FpInv, Claimed, Stored, At
    <2>6. ClaimsApart'
      BY <2>1, <2>2, <2>4 DEF FpInv, ClaimsApart, At
    <2> QED BY <1>1, <2>5, <2>6 DEF FpInv
  <1> QED BY <1>2, <1>3 DEF Write

\* A COMMIT makes its claim a row.
LEMMA CommitKeepsApart ==
    ASSUME LockInv, FpInv, NEW s \in Sessions, Commit(s)
    PROVE  FpInv'
  <1> DEFINE id == txn[s].id
  <1>1. id \in Ids /\ Stored(id) /\ At(s, "written") /\ TypeOK
    BY OpenUpdate DEF Commit, LockInv, Pinned, Holds, At
  <1>2. \A i \in Ids : rows'[i] = IF i = id THEN txn[s].next ELSE rows[i]
    BY <1>1 DEF Commit, TypeOK
  <1>3. \A t \in Sessions : At(t, "written")' => t # s /\ txn'[t] = txn[t] /\ At(t, "written")
    BY <1>1, Becoming DEF Commit, At, Idle
  <1>4. UniqueIn(rows)'
    BY <1>1, <1>2 DEF FpInv, UniqueIn, Claimed, Stored
  <1>5. Claimed'
    BY <1>1, <1>2, <1>3 DEF FpInv, Claimed, ClaimsApart, Stored
  <1>6. ClaimsApart'
    BY <1>3 DEF FpInv, ClaimsApart
  <1> QED BY <1>4, <1>5, <1>6 DEF FpInv

LEMMA DeleteKeepsApart ==
    ASSUME LockInv, FpInv, NEW s \in Sessions, NEW id \in Ids, Delete(s, id)
    PROVE  FpInv'
  <1>1. \A i \in Ids : rows'[i] \in {rows[i], NoRow}
    BY DEF Delete, LockInv, TypeOK
  <1>2. \A t \in Sessions : At(t, "written")' => txn'[t] = txn[t]
    BY DEF Delete
  <1> QED BY <1>1, <1>2, ShrinkingKeeps

TableInv == LockInv /\ IssuedRows /\ FpInv

LEMMA NextTable == TableInv /\ [Next]_vars => TableInv'
  <1> SUFFICES ASSUME LockInv, IssuedRows, FpInv, [Next]_vars
               PROVE  FpInv'
    BY NextLock DEF TableInv
  <1> USE DEF LockInv
  <1>1. ASSUME UNCHANGED <<rows, txn>>
        PROVE  FpInv'
    BY <1>1 DEF FpInv, UniqueIn, Claimed, ClaimsApart, At, Stored
  <1>2. ASSUME NEW s \in Sessions, NEW d \in Drafts, InsertNothing(s, d)
        PROVE  FpInv'
    BY <1>2, UnwrittenKeeps DEF InsertNothing, Conflicting
  <1>3. ASSUME NEW s \in Sessions, FetchInserted(s) \/ FetchExisting(s) \/ Rollback(s)
        PROVE  FpInv'
    BY <1>3, UnwrittenKeeps DEF FetchInserted, FetchExisting, Rollback, Idle
  <1>4. ASSUME NEW s \in Sessions, NEW id \in Ids, Lock(s, id)
        PROVE  FpInv'
    BY <1>1, <1>4, UnwrittenKeeps DEF Lock, Locked
  <1>5. ASSUME NEW s \in Sessions, NEW id \in Ids, Get(s, id)
        PROVE  FpInv'
    BY <1>1, <1>5 DEF Get
  <1>6. CASE UNCHANGED vars
    BY <1>1, <1>6 DEF vars
  <1> QED BY <1>2, <1>3, <1>4, <1>5, <1>6, InsertKeepsApart, WriteKeepsApart,
             CommitKeepsApart, DeleteKeepsApart DEF Next

LEMMA InitTable == Init => TableInv
  <1>1. Init => FpInv
    BY DEF Init, FpInv, UniqueIn, Claimed, ClaimsApart, At, Stored, Idle
  <1> QED BY <1>1, InitLock DEF TableInv

LEMMA TableHolds == Spec => []TableInv
  BY InitTable, NextTable, PTL DEF Spec
-----------------------------------------------------------------------------
\* The index a table stands for.
IndexOf(table) ==
    [f \in Fingerprints |->
        LET with == {i \in Ids : table[i] # NoRow /\ FpOf[table[i].loc] = f}
        IN IF with = {} THEN NoId ELSE CHOOSE i \in Ids : i \in with]

\* In a table without shared fingerprints it leads to the row there is.
LEMMA IndexLeads ==
    ASSUME NEW table, UniqueIn(table), NEW f \in Fingerprints
    PROVE  /\ IndexOf(table)[f] \in IdOrNone
           /\ \A i \in Ids : IndexOf(table)[f] = i <=> table[i] # NoRow /\ FpOf[table[i].loc] = f
  <1> DEFINE with == {i \in Ids : table[i] # NoRow /\ FpOf[table[i].loc] = f}
  <1>1. IndexOf(table)[f] = IF with = {} THEN NoId ELSE CHOOSE i \in Ids : i \in with
    BY DEF IndexOf
  <1>2. CASE with = {}
    BY <1>1, <1>2, IdsAssumption DEF IdOrNone
  <1>3. CASE with # {}
    <2>1. PICK j \in Ids : j \in with
      BY <1>3
    <2>2. IndexOf(table)[f] \in Ids /\ IndexOf(table)[f] \in with
      <3> HIDE DEF with
      <3> QED BY <1>1, <1>3, <2>1
    <2> QED BY <2>2 DEF UniqueIn, IdOrNone
  <1> QED BY <1>2, <1>3

LEMMA IndexIs ==
    ASSUME UniqueIn(rows)
    PROVE  /\ index = IndexOf(rows)
           /\ index \in [Fingerprints -> IdOrNone]
           /\ \A f \in Fingerprints, i \in Ids : index[f] = i <=> i \in With(f)
           /\ \A f \in Fingerprints : index[f] = NoId <=> With(f) = {}
  <1>1. index = IndexOf(rows)
    BY DEF index, IndexOf, With, Stored
  <1>2. \A f \in Fingerprints : index[f] \in IdOrNone
    BY <1>1, IndexLeads
  <1>3. index \in [Fingerprints -> IdOrNone]
    BY <1>2 DEF index
  <1>4. \A f \in Fingerprints, i \in Ids : index[f] = i <=> i \in With(f)
    BY <1>1, IndexLeads DEF With, Stored
  <1>5. \A f \in Fingerprints : index[f] = NoId <=> With(f) = {}
    BY <1>2, <1>4, IdsAssumption DEF IdOrNone, With
  <1> QED BY <1>1, <1>3, <1>4, <1>5

\* The two ways the index may differ between tables are those of the code.
LEMMA IndexBecomes ==
    ASSUME UniqueIn(rows), UniqueIn(rows)', NEW next \in [Fingerprints -> IdOrNone],
           \A f \in Fingerprints, i \in Ids :
               next[f] = i <=> rows'[i] # NoRow /\ FpOf[rows'[i].loc] = f
    PROVE  index' = next
  <1>1. index' = IndexOf(rows')
    BY DEF index, IndexOf, With, Stored
  <1>2. \A f \in Fingerprints :
           /\ index'[f] \in IdOrNone
           /\ \A i \in Ids : index'[f] = i <=> rows'[i] # NoRow /\ FpOf[rows'[i].loc] = f
    BY <1>1, IndexLeads
  <1>3. \A f \in Fingerprints : index'[f] = next[f]
    BY <1>2, IdsAssumption DEF IdOrNone
  <1>4. index' = [f \in Fingerprints |-> index'[f]]
    BY DEF index
  <1> QED BY <1>3, <1>4

\* The lookup of the in-memory repository, in the table.
LEMMA LookupAgrees ==
    ASSUME UniqueIn(rows), NEW f \in Fingerprints
    PROVE  Mem!GetByFingerprint(f) = index[f]
  <1>1. index[f] # NoId => rows[index[f]] # NoRow
    BY IndexIs DEF IdOrNone, With, Stored
  <1> QED BY <1>1 DEF Mem!GetByFingerprint

\* INSERT is AddWithFingerprint that creates.
LEMMA InsertRefines ==
    ASSUME TableInv, NEW s \in Sessions, NEW id \in Ids, NEW d \in Drafts, Insert(s, id, d)
    PROVE  Mem!StoreNew(d, id)
  <1> DEFINE f == FpOf[d.loc]
  <1>1. f \in Fingerprints /\ d # NoRow /\ With(f) = {} /\ id \notin issued
    BY DraftIsDownload DEF Insert
  <1>2. UniqueIn(rows) /\ UniqueIn(rows)'
    BY InsertKeepsApart DEF TableInv, FpInv, LockInv
  <1>3. /\ rows' = [rows EXCEPT ![id] = d] /\ issued' = issued \cup {id}
        /\ reply' = <<"created", id>>
    BY DEF Insert
  <1>4. \A i \in Ids : rows'[i] = IF i = id THEN d ELSE rows[i]
    BY <1>3 DEF TableInv, LockInv, TypeOK
  <1>5. ~Stored(id)
    BY <1>1 DEF TableInv, IssuedRows
  <1>6. index' = [index EXCEPT ![f] = id]
    <2> DEFINE next == [index EXCEPT ![f] = id]
    <2>1. next \in [Fingerprints -> IdOrNone]
      BY <1>2, IndexIs DEF IdOrNone
    <2>2. ASSUME NEW g \in Fingerprints, NEW i \in Ids
          PROVE  next[g] = i <=> rows'[i] # NoRow /\ FpOf[rows'[i].loc] = g
      <3>1. next[g] = IF g = f THEN id ELSE index[g]
        BY <1>2, IndexIs
      <3>2. index[g] = i <=> Stored(i) /\ FpOf[rows[i].loc] = g
        BY <1>2, IndexIs DEF With
      <3>3. \A j \in Ids : ~(Stored(j) /\ FpOf[rows[j].loc] = f)
        BY <1>1 DEF With
      <3> QED BY <1>1, <1>4, <1>5, <3>1, <3>2, <3>3 DEF Stored
    <2> HIDE DEF next
    <2>3. index' = next
      BY <1>2, <2>1, <2>2, IndexBecomes
    <2> QED BY <2>3 DEF next
  <1>7. Mem!GetByFingerprint(f) = NoId
    BY <1>1, <1>2, LookupAgrees, IndexIs
  <1> QED BY <1>1, <1>3, <1>6, <1>7 DEF Mem!StoreNew, Mem!AddWithFingerprint, Mem!Insert

\* A fetch by fingerprint that finds the row is AddWithFingerprint that does
\* not create; one that does not changes nothing.
LEMMA FetchRefines ==
    ASSUME TableInv, NEW s \in Sessions, FetchExisting(s)
    PROVE  \/ \E d \in Drafts, id \in Ids : Mem!StoreAgain(d, id)
           \/ UNCHANGED <<rows, index, issued, reply>>
  <1>1. PICK d \in Drafts : txn[s].f = FpOf[d.loc]
    BY DEF FetchExisting, TableInv, LockInv, TypeOK, Frames, At, Idle
  <1>2. UniqueIn(rows) /\ FpOf[d.loc] \in Fingerprints
    BY DraftIsDownload DEF TableInv, FpInv
  <1>3. rows' = rows /\ issued' = issued /\ index' = index
    BY DEF FetchExisting, index, With, Stored
  <1>4. ASSUME NEW id \in With(txn[s].f), reply' = <<"existing", id>>
        PROVE  Mem!StoreAgain(d, id)
    <2>1. id \in Ids /\ index[FpOf[d.loc]] = id
      BY <1>1, <1>2, <1>4, IndexIs DEF With
    <2>2. Mem!GetByFingerprint(FpOf[d.loc]) = id /\ id # NoId
      BY <1>2, <2>1, LookupAgrees, IdsAssumption
    <2> QED BY <1>3, <1>4, <2>2 DEF Mem!StoreAgain, Mem!AddWithFingerprint, Mem!repoVars
  <1>5. \A id \in With(txn[s].f) : id \in Ids
    BY DEF With
  <1> QED BY <1>3, <1>4, <1>5 DEF FetchExisting

\* An UPDATE that finds the row unchanged, or its new fingerprint taken, is an
\* Update with the results ok and ErrConflict; one that goes on is no step yet.
LEMMA WriteRefines ==
    ASSUME TableInv, NEW s \in Sessions, NEW d \in Drafts, Write(s, d)
    PROVE  \/ \E id \in Ids : Mem!Change(id, d)
           \/ UNCHANGED <<rows, index, issued, reply>>
  <1> DEFINE id  == txn[s].id
             cur == txn[s].cur
             f   == FpOf[d.loc]
  <1>1. /\ id \in Ids /\ Stored(id) /\ rows[id] = cur /\ rows \in [Ids -> Download \cup {NoRow}]
        /\ UniqueIn(rows) /\ f \in Fingerprints
    BY OpenUpdate, DraftIsDownload DEF Write, TableInv, LockInv, FpInv, Pinned, Holds, At, TypeOK
  <1>2. rows' = rows /\ issued' = issued /\ index' = index
    BY DEF Write, index, With, Stored
  <1>3. CASE d = cur /\ reply' = <<"ok", id>>
    <2>1. Mem!UpdateResult(id, d) = "ok"
      BY <1>1, <1>3 DEF Mem!UpdateResult, Mem!Stored, Stored
    <2>2. rows' = [rows EXCEPT ![id] = d]
      BY <1>1, <1>2, <1>3
    <2> QED BY <1>1, <1>2, <1>3, <2>1, <2>2 DEF Mem!Change, Mem!Update
  <1>4. CASE f # FpOf[cur.loc] /\ With(f) # {} /\ reply' = <<"conflict", id>>
    <2>1. PICK j \in With(f) : TRUE
      BY <1>4
    <2>2. j \in Ids /\ j # id /\ index[f] = j
      BY <1>1, <1>4, <2>1, IndexIs DEF With
    <2>3. Mem!UpdateResult(id, d) = "conflict"
      BY <1>1, <1>4, <2>2, IdsAssumption DEF Mem!UpdateResult, Mem!Stored, Stored
    <2> QED BY <1>1, <1>2, <1>4, <2>3 DEF Mem!Change, Mem!Update, Mem!repoVars
  <1>5. CASE UNCHANGED reply
    BY <1>2, <1>5
  <1> QED BY <1>3, <1>4, <1>5 DEF Write

\* COMMIT is the Update.
LEMMA CommitRefines ==
    ASSUME TableInv, NEW s \in Sessions, Commit(s)
    PROVE  \E id \in Ids, d \in Drafts : Mem!Change(id, d)
  <1> DEFINE id  == txn[s].id
             d   == txn[s].next
             new == FpOf[d.loc]
             old == FpOf[rows[id].loc]
  <1>1. /\ id \in Ids /\ Stored(id) /\ rows[id] \in Download /\ At(s, "written")
        /\ d \in Drafts /\ new \in Fingerprints /\ old \in Fingerprints /\ d # NoRow
    BY OpenUpdate, DraftIsDownload, FpOfAssumption
    DEF Commit, TableInv, LockInv, Pinned, Holds, At, Download
  <1>2. UniqueIn(rows) /\ UniqueIn(rows)'
    BY CommitKeepsApart DEF TableInv, FpInv
  <1>3. rows' = [rows EXCEPT ![id] = d] /\ issued' = issued /\ reply' = <<"ok", id>>
    BY DEF Commit
  <1>4. \A i \in Ids : rows'[i] = IF i = id THEN d ELSE rows[i]
    BY <1>3 DEF TableInv, LockInv, TypeOK
  <1>5. \A i \in With(new) : i = id
    BY <1>1 DEF TableInv, FpInv, Claimed, With
  <1>6. index[new] \in {NoId, id}
    BY <1>1, <1>2, <1>5, IndexIs DEF With
  <1>7. Mem!UpdateResult(id, d) = "ok"
    BY <1>1, <1>6 DEF Mem!UpdateResult, Mem!Stored, Stored
  <1>8. index' = IF old = new THEN index ELSE [index EXCEPT ![old] = NoId, ![new] = id]
    <2> DEFINE next == IF old = new THEN index ELSE [index EXCEPT ![old] = NoId, ![new] = id]
    <2>1. next \in [Fingerprints -> IdOrNone]
      BY <1>1, <1>2, IndexIs DEF IdOrNone
    <2>2. ASSUME NEW g \in Fingerprints, NEW i \in Ids
          PROVE  next[g] = i <=> rows'[i] # NoRow /\ FpOf[rows'[i].loc] = g
      <3>1. next[g] = IF old = new THEN index[g]
                      ELSE IF g = new THEN id ELSE IF g = old THEN NoId ELSE index[g]
        BY <1>1, <1>2, IndexIs
      <3>2. index[g] = i <=> Stored(i) /\ FpOf[rows[i].loc] = g
        BY <1>2, IndexIs DEF With
      <3>3. Stored(i) /\ FpOf[rows[i].loc] = new => i = id
        BY <1>5 DEF With
      <3>4. Stored(i) /\ FpOf[rows[i].loc] = old => i = id
        BY <1>1, <1>2 DEF UniqueIn, Stored
      <3> HIDE DEF next
      <3> QED BY <1>1, <1>4, <3>1, <3>2, <3>3, <3>4, IdsAssumption DEF Stored
    <2> HIDE DEF next
    <2>3. index' = next
      BY <1>2, <2>1, <2>2, IndexBecomes
    <2> QED BY <2>3 DEF next
  <1>9. Mem!Change(id, d)
    BY <1>3, <1>7, <1>8 DEF Mem!Change, Mem!Update
  <1> QED BY <1>1, <1>9

\* DELETE is Delete.
LEMMA DeleteRefines ==
    ASSUME TableInv, NEW s \in Sessions, NEW id \in Ids, Delete(s, id)
    PROVE  Mem!Remove(id)
  <1>1. /\ rows' = [rows EXCEPT ![id] = NoRow] /\ issued' = issued
        /\ reply' = <<IF Stored(id) THEN "deleted" ELSE "notFound", id>>
    BY DEF Delete
  <1>2. UniqueIn(rows) /\ UniqueIn(rows)' /\ rows \in [Ids -> Download \cup {NoRow}]
    BY DeleteKeepsApart DEF TableInv, FpInv, LockInv, TypeOK
  <1>3. CASE ~Stored(id)
    <2>1. rows' = rows
      BY <1>1, <1>2, <1>3 DEF Stored
    <2>2. index' = index
      BY <2>1 DEF index, With, Stored
    <2> QED BY <1>1, <1>3, <2>1, <2>2
            DEF Mem!Remove, Mem!Delete, Mem!Stored, Mem!repoVars, Stored
  <1>4. CASE Stored(id)
    <2> DEFINE f    == FpOf[rows[id].loc]
               next == [index EXCEPT ![f] = NoId]
    <2>1. f \in Fingerprints
      BY <1>2, <1>4, FpOfAssumption DEF Stored, Download
    <2>2. next \in [Fingerprints -> IdOrNone]
      BY <1>2, IndexIs DEF IdOrNone
    <2>3. ASSUME NEW g \in Fingerprints, NEW i \in Ids
          PROVE  next[g] = i <=> rows'[i] # NoRow /\ FpOf[rows'[i].loc] = g
      <3>1. next[g] = IF g = f THEN NoId ELSE index[g]
        BY <1>2, IndexIs
      <3>2. index[g] = i <=> Stored(i) /\ FpOf[rows[i].loc] = g
        BY <1>2, IndexIs DEF With
      <3>3. Stored(i) /\ FpOf[rows[i].loc] = f => i = id
        BY <1>2, <1>4 DEF UniqueIn, Stored
      <3>4. rows'[i] = IF i = id THEN NoRow ELSE rows[i]
        BY <1>1, <1>2
      <3> HIDE DEF next
      <3> QED BY <3>1, <3>2, <3>3, <3>4, IdsAssumption DEF Stored
    <2> HIDE DEF next
    <2>4. index' = next
      BY <1>2, <2>2, <2>3, IndexBecomes
    <2> QED BY <1>1, <1>4, <2>4 DEF next, Mem!Remove, Mem!Delete, Mem!Stored, Stored
  <1> QED BY <1>3, <1>4

\* Statement by statement the table does what the in-memory repository does
\* under its lock (postgres.go 137-221), so what is proved of that repository
\* holds of the table.
THEOREM ImplementsInMemRepo == Spec => ImplementsInMem
  <1>1. Init => Mem!SpecInit
    BY DEF Init, Mem!SpecInit, Mem!RepoInit, index, With, Stored
  <1>2. TableInv /\ [Next]_vars => [Mem!Next]_(Mem!specVars)
    <2> SUFFICES ASSUME TableInv, [Next]_vars
                 PROVE  Mem!Next \/ UNCHANGED <<rows, index, issued, reply>>
      BY DEF Mem!specVars, Mem!repoVars
    <2>0. ASSUME rows' = rows
          PROVE  index' = index
      BY <2>0 DEF index, With, Stored
    <2>1. ASSUME UNCHANGED <<rows, issued, reply>>
          PROVE  UNCHANGED <<rows, index, issued, reply>>
      BY <2>0, <2>1
    <2>2. \A id \in Ids : Mem!ServiceCall(id) => Mem!Next
      BY DEF Mem!Next
    <2>3. ASSUME NEW id \in Ids, NEW d \in Drafts,
                 Mem!StoreNew(d, id) \/ Mem!StoreAgain(d, id) \/ Mem!Change(id, d)
          PROVE  Mem!Next
      BY <2>2, <2>3 DEF Mem!ServiceCall
    <2>4. ASSUME NEW s \in Sessions, NEW id \in Ids,
                 Get(s, id) \/ (Lock(s, id) /\ ~Stored(id) /\ reply' = <<"notFound", id>>)
          PROVE  Mem!Next
      <3>1. rows' = rows /\ issued' = issued /\ index' = index
        BY <2>0, <2>4 DEF Get, Lock
      <3>2. reply' = <<IF Stored(id) THEN "found" ELSE "notFound", id>>
        BY <2>4 DEF Get
      <3>3. Mem!Lookup(id)
        BY <3>1, <3>2 DEF Mem!Lookup, Mem!Stored, Mem!repoVars, Stored
      <3> QED BY <2>2, <3>3 DEF Mem!ServiceCall
    <2>5. ASSUME NEW s \in Sessions, NEW id \in Ids, Lock(s, id)
          PROVE  Mem!Next \/ UNCHANGED <<rows, index, issued, reply>>
      BY <2>1, <2>4, <2>5 DEF Lock
    <2>6. ASSUME NEW s \in Sessions, NEW id \in Ids, Delete(s, id)
          PROVE  Mem!Next
      BY <2>2, <2>6, DeleteRefines DEF Mem!ServiceCall
    <2>7. ASSUME NEW s \in Sessions, NEW id \in Ids, NEW d \in Drafts, Insert(s, id, d)
          PROVE  Mem!Next
      BY <2>3, <2>7, InsertRefines
    <2>8. ASSUME NEW s \in Sessions, NEW d \in Drafts, Write(s, d)
          PROVE  Mem!Next \/ UNCHANGED <<rows, index, issued, reply>>
      BY <2>3, <2>8, WriteRefines
    <2>9. ASSUME NEW s \in Sessions, FetchExisting(s)
          PROVE  Mem!Next \/ UNCHANGED <<rows, index, issued, reply>>
      BY <2>3, <2>9, FetchRefines
    <2>10. ASSUME NEW s \in Sessions, Commit(s)
           PROVE  Mem!Next
      BY <2>3, <2>10, CommitRefines
    <2>11. ASSUME NEW s \in Sessions, NEW d \in Drafts,
                  InsertNothing(s, d)
           PROVE  UNCHANGED <<rows, index, issued, reply>>
      BY <2>1, <2>11 DEF InsertNothing
    <2>12. ASSUME NEW s \in Sessions, FetchInserted(s) \/ Rollback(s)
           PROVE  UNCHANGED <<rows, index, issued, reply>>
      BY <2>1, <2>12 DEF FetchInserted, Rollback
    <2>13. CASE UNCHANGED vars
      BY <2>1, <2>13 DEF vars
    <2> QED BY <2>4, <2>5, <2>6, <2>7, <2>8, <2>9, <2>10, <2>11, <2>12, <2>13 DEF Next
  <1> QED BY <1>1, <1>2, TableHolds, PTL DEF Spec, ImplementsInMem, Mem!Spec
=============================================================================
