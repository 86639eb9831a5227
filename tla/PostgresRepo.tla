---------------------------- MODULE PostgresRepo ----------------------------
(***************************************************************************)
(* internal/repo/postgres.go: the repository on a database.  A session is  *)
(* a goroutine inside one call; a step is one statement.  Statements run   *)
(* at READ COMMITTED: they see what is committed, an Update holds the lock *)
(* of its row until it ends, and a statement that would touch a locked row *)
(* or a fingerprint an open transaction has written waits.                 *)
(*                                                                         *)
(* The table's unique constraint is the database's; Add is the             *)
(* AddWithFingerprint whose conflict is an error, and not used.            *)
(***************************************************************************)
EXTENDS DownloadTypes

CONSTANTS
    Sessions,
    Drafts,         \* the downloads clients store and update rows to
    NoKey           \* no fingerprint

ASSUME DraftsAssumption == Drafts \subseteq Download
ASSUME NoKeyAssumption == NoKey \notin Fingerprints

VARIABLES
    rows,           \* the committed table; NoRow where it has no row
    issued,         \* the ids of all rows ever inserted
    txn,            \* the call each session is in
    reply           \* <<outcome, id>> of the last call, when it takes effect

vars == <<rows, issued, txn, reply>>

Stored(id) == rows[id] # NoRow

\* cur is the row an Update read under its lock, next the row it writes.
Idle           == [pc |-> "idle"]
Inserted(id)   == [pc |-> "inserted", id |-> id]
Conflicting(f) == [pc |-> "conflicting", f |-> f]
Locked(id, d)  == [pc |-> "locked", id |-> id, cur |-> d]
Written(id, d, e) == [pc |-> "written", id |-> id, cur |-> d, next |-> e]

Frames ==
    {Idle}
    \cup [pc: {"inserted"}, id: Ids]
    \cup [pc: {"conflicting"}, f: {FpOf[d.loc] : d \in Drafts}]
    \cup [pc: {"locked"}, id: Ids, cur: Download]
    \cup [pc: {"written"}, id: Ids, cur: Download, next: Drafts]

At(s, pc) == txn[s].pc = pc

Become(s, frame) == txn' = [txn EXCEPT ![s] = frame]

Holds(s, id) == txn[s].pc \in {"locked", "written"} /\ txn[s].id = id

Free(id) == \A s \in Sessions : ~Holds(s, id)

With(f) == {i \in Ids : Stored(i) /\ FpOf[rows[i].loc] = f}

\* An open transaction has changed a row that had f or is to have it: a
\* statement that checks f against the unique index waits for its end.
Unsettled(f) ==
    \E s \in Sessions :
        At(s, "written") /\ f \in {FpOf[txn[s].cur.loc], FpOf[txn[s].next.loc]}

Init ==
    /\ rows = [i \in Ids |-> NoRow]
    /\ issued = {}
    /\ txn = [s \in Sessions |-> Idle]
    /\ reply = <<"none">>
-----------------------------------------------------------------------------
\* Mutant: the insert does not look for a conflict.
InsertAlways(s, id, d) ==
    /\ At(s, "idle")
    /\ id \notin issued
    /\ rows' = [rows EXCEPT ![id] = d]
    /\ issued' = issued \cup {id}
    /\ reply' = <<"created", id>>
    /\ Become(s, Inserted(id))

\* INSERT .. ON CONFLICT DO NOTHING RETURNING id, which inserts ...
Insert(s, id, d) ==
    /\ At(s, "idle")
    /\ ~Unsettled(FpOf[d.loc]) /\ With(FpOf[d.loc]) = {}
    /\ id \notin issued
    /\ rows' = [rows EXCEPT ![id] = d]
    /\ issued' = issued \cup {id}
    /\ reply' = <<"created", id>>
    /\ Become(s, Inserted(id))

\* ... or finds the fingerprint taken.
InsertNothing(s, d) ==
    /\ At(s, "idle")
    /\ ~Unsettled(FpOf[d.loc]) /\ With(FpOf[d.loc]) # {}
    /\ Become(s, Conflicting(FpOf[d.loc]))
    /\ UNCHANGED <<rows, issued, reply>>

\* The SELECT that follows an insert, by the new id, and the one that follows a
\* conflict, by the fingerprint.  If the row was deleted in between the call
\* answers ErrNotFound.
FetchInserted(s) ==
    /\ At(s, "inserted")
    /\ Become(s, Idle)
    /\ UNCHANGED <<rows, issued, reply>>

FetchExisting(s) ==
    /\ At(s, "conflicting")
    /\ \/ \E id \in With(txn[s].f) : reply' = <<"existing", id>>
       \/ With(txn[s].f) = {} /\ UNCHANGED reply
    /\ Become(s, Idle)
    /\ UNCHANGED <<rows, issued>>

\* Mutant: a SELECT without FOR UPDATE.
LockNot(s, id) ==
    /\ At(s, "idle")
    /\ IF Stored(id) THEN Become(s, Locked(id, rows[id])) /\ UNCHANGED reply
       ELSE reply' = <<"notFound", id>> /\ UNCHANGED txn
    /\ UNCHANGED <<rows, issued>>

\* Mutant: a missing row is not told from a found one.
LockMissing(s, id) ==
    /\ At(s, "idle")
    /\ Free(id)
    /\ Become(s, Locked(id, rows[id]))
    /\ UNCHANGED <<rows, issued, reply>>

\* Update begins its transaction with SELECT .. FOR UPDATE.
Lock(s, id) ==
    /\ At(s, "idle")
    /\ Free(id)
    /\ IF Stored(id) THEN Become(s, Locked(id, rows[id])) /\ UNCHANGED reply
       ELSE reply' = <<"notFound", id>> /\ UNCHANGED txn
    /\ UNCHANGED <<rows, issued>>

\* UPDATE, or a commit at once when mutate changed nothing.  A fingerprint
\* another row has is a unique violation and rolls the transaction back.
Write(s, d) ==
    /\ At(s, "locked")
    /\ LET id == txn[s].id
           f  == FpOf[d.loc]
       IN \/ /\ d = txn[s].cur
             /\ Become(s, Idle)
             /\ reply' = <<"ok", id>>
          \/ /\ d # txn[s].cur
             /\ f = FpOf[txn[s].cur.loc] \/ (~Unsettled(f) /\ With(f) = {})
             /\ Become(s, Written(id, txn[s].cur, d))
             /\ UNCHANGED reply
          \/ /\ f # FpOf[txn[s].cur.loc] /\ ~Unsettled(f) /\ With(f) # {}
             /\ Become(s, Idle)
             /\ reply' = <<"conflict", id>>
    /\ UNCHANGED <<rows, issued>>

Commit(s) ==
    /\ At(s, "written")
    /\ rows' = [rows EXCEPT ![txn[s].id] = txn[s].next]
    /\ reply' = <<"ok", txn[s].id>>
    /\ Become(s, Idle)
    /\ UNCHANGED issued

\* The mutation, a statement or the connection fails, or the context is over:
\* the deferred Rollback ends the transaction.
Rollback(s) ==
    /\ txn[s] # Idle
    /\ Become(s, Idle)
    /\ UNCHANGED <<rows, issued, reply>>

\* DELETE waits for the row's transaction.
Delete(s, id) ==
    /\ At(s, "idle")
    /\ Free(id)
    /\ rows' = [rows EXCEPT ![id] = NoRow]
    /\ reply' = <<IF Stored(id) THEN "deleted" ELSE "notFound", id>>
    /\ UNCHANGED <<issued, txn>>

Get(s, id) ==
    /\ At(s, "idle")
    /\ reply' = <<IF Stored(id) THEN "found" ELSE "notFound", id>>
    /\ UNCHANGED <<rows, issued, txn>>

Next ==
    \E s \in Sessions :
        \/ \E d \in Drafts : InsertNothing(s, d) \/ Write(s, d)
        \/ FetchInserted(s) \/ FetchExisting(s) \/ Commit(s) \/ Rollback(s)
        \/ \E id \in Ids :
             \/ Lock(s, id) \/ Delete(s, id) \/ Get(s, id)
             \/ \E d \in Drafts : Insert(s, id, d)

Spec == Init /\ [][Next]_vars
-----------------------------------------------------------------------------
\* The type invariant; an Update under way has a row, not the absence of one
\* (postgres.go 174-178).
TypeOK ==
    /\ rows \in [Ids -> Download \cup {NoRow}]
    /\ issued \subseteq Ids
    /\ txn \in [Sessions -> Frames]

\* An Update writes over the very row it read, however many run at once and
\* whatever else happens to the table: no update is lost and no deleted row
\* comes back (postgres.go 166-211).
NoLostUpdate ==
    [][\A s \in Sessions :
          At(s, "written") /\ rows'[txn[s].id] # rows[txn[s].id] /\ txn'[s] = Idle
            => rows[txn[s].id] = txn[s].cur]_vars

\* What fpIndex would be: the row that has the fingerprint.
index ==
    [f \in Fingerprints |->
        IF With(f) = {} THEN NoId ELSE CHOOSE i \in Ids : i \in With(f)]

Mem == INSTANCE InMemRepoSpec WITH byID <- rows, fpIndex <- index

\* Statement by statement the table does what the in-memory repository does
\* under its lock, reply by reply: an operation takes effect in one of its
\* statements (postgres.go 137-221).  The ErrNotFound of an Add whose row is
\* deleted before it is fetched (155-160) is no reply of that repository and
\* counts as none: to the refinement that fetch is a stutter.
ImplementsInMem == Mem!Spec
=============================================================================
