-------------------------- MODULE DownloadService --------------------------
(***************************************************************************)
(* internal/service/download.go: a request goroutine runs Add,             *)
(* UpdateDesiredStatus or Delete; Add may spawn a goroutine that starts    *)
(* the download in the background, which goes by the id of the download.   *)
(* A step is one call of the repository, one critical section of startMu,  *)
(* or the return of a call of the downloader, so a frame keeps what the    *)
(* code read earlier: cur.GID, dl.GID.                                     *)
(***************************************************************************)
EXTENDS InMemRepo, Aria2Adapter

CONSTANTS
    Posted,         \* the statuses clients add downloads with
    Ops             \* the other requests they make: updates to a wish, Delete

ASSUME PostedAssumption == Posted \subseteq {"Queued", "Active", "Paused"}
ASSUME OpsAssumption    == Ops \subseteq Wishes \cup {"Delete"}

VARIABLES
    svc,            \* the frame of each request and background start
    startCancels    \* the ids with an entry in the map startCancels

svcVars == <<svc, startCancels>>

\* wish is the requested status; gid is the one read when the request began.
ServiceFrame ==
    [pc: {"idle", "launch", "desire", "await", "settle", "cancelStart", "deleting",
          "starting", "cleanup", "done"},
     id: IdOrNone, gid: GidOrNone, wish: Wishes \cup {"none"}]

Idle == [pc |-> "idle", id |-> NoId, gid |-> NoGid, wish |-> "none"]

ServiceTypeOK ==
    /\ svc \in [Procs -> ServiceFrame]
    /\ startCancels \subseteq Ids

ServiceInit ==
    /\ svc = [p \in Procs |-> Idle]
    /\ startCancels = {}

In(p, pc)   == svc[p].pc = pc
Step(p, pc) == svc' = [svc EXCEPT ![p].pc = pc]
EndRequest(p)  == svc' = [svc EXCEPT ![p] = Idle]

Begin(p, pc, id, gid, wish) ==
    svc' = [svc EXCEPT ![p] = [pc |-> pc, id |-> id, gid |-> gid, wish |-> wish]]

\* The call of the downloader that p waits for is over, with this result.
Returned(p, results) == At(p, "return") /\ call[p].result \in results

\* An Update of a row: what the callers ignore the result of.
Set(id, clone) == IF Stored(id) THEN Update(id, clone) ELSE UNCHANGED repoVars

SetFailed(id)   == Set(id, [byID[id] EXCEPT !.status = "Failed"])
SetGid(id, gid) == Set(id, [byID[id] EXCEPT !.gid = gid])

elsewhere == <<daemonVars, events, gidToID>>    \* what no service step writes
-----------------------------------------------------------------------------
\* Mutant: a repeated Add starts the download again.
AddRequestRestarts(p, loc, status) ==
    /\ In(p, "idle")
    /\ \E id \in Ids, created \in BOOLEAN :
         /\ AddWithFingerprint([loc |-> loc, gid |-> NoGid, status |-> status, desired |-> status],
                               FpOf[loc], id, created)
         /\ IF byID'[id].status = "Active" THEN Begin(p, "launch", id, NoGid, "none")
            ELSE UNCHANGED svc
    /\ UNCHANGED <<elsewhere, call, ctxDone, startCancels>>

\* Add: a valid request is stored or finds the download it repeats.  Only a
\* created download that should be active is started.
AddRequest(p, loc, status) ==
    /\ In(p, "idle")
    /\ \E id \in Ids, created \in BOOLEAN :
         /\ AddWithFingerprint([loc |-> loc, gid |-> NoGid, status |-> status, desired |-> status],
                               FpOf[loc], id, created)
         /\ IF created /\ status = "Active" THEN Begin(p, "launch", id, NoGid, "none")
            ELSE UNCHANGED svc
    /\ UNCHANGED <<elsewhere, call, ctxDone, startCancels>>

\* The cancel function is registered and the background start spawned.
Launch(p) ==
    /\ In(p, "launch")
    /\ LET id == svc[p].id IN
         /\ startCancels' = startCancels \cup {id}
         /\ svc' = [svc EXCEPT ![p] = Idle, ![id] = [Idle EXCEPT !.pc = "starting", !.id = id]]
         /\ Invoke(id, "Start", id, NoGid)
    /\ UNCHANGED <<elsewhere, ctxDone, repoVars>>

\* The outcome of the background start.  A cancelled one writes nothing.  If
\* the row is gone the gid is not saved, nor is the Failed that follows.
SettleStart(id) ==
    /\ In(id, "starting")
    /\ \/ Returned(id, {"ok"}) /\ SetGid(id, call[id].gid)
       \/ Returned(id, {"error"}) /\ SetFailed(id)
       \/ Returned(id, {"canceled"}) /\ UNCHANGED repoVars
    /\ Step(id, "cleanup")
    /\ TakeBack(id)
    /\ UNCHANGED <<elsewhere, ctxDone, startCancels>>

\* Mutant: the cancel function is left in the map.
CleanupForgets(id) ==
    /\ In(id, "cleanup")
    /\ Step(id, "done")
    /\ UNCHANGED <<elsewhere, call, ctxDone, startCancels, repoVars>>

\* The deferred removal of the cancel function.
Cleanup(id) ==
    /\ In(id, "cleanup")
    /\ startCancels' = startCancels \ {id}
    /\ Step(id, "done")
    /\ UNCHANGED <<elsewhere, call, ctxDone, repoVars>>
-----------------------------------------------------------------------------
\* UpdateDesiredStatus begins with a Get, whose gid decides all that follows.
UpdateRequest(p, id, wish) ==
    /\ In(p, "idle")
    /\ Stored(id)
    /\ Begin(p, "desire", id, byID[id].gid, wish)
    /\ UNCHANGED <<elsewhere, call, ctxDone, startCancels, repoVars>>

\* The method of the downloader that brings a wish about, if one is called.
MethodFor(wish, gid) ==
    IF gid = NoGid THEN IF wish \in {"Active", "Resume"} THEN "Start" ELSE "none"
    ELSE [Active |-> "none", Resume |-> "Resume", Paused |-> "Pause", Cancelled |-> "Cancel"][wish]

\* The wish is stored before anything is done about it.
SetDesired(p) ==
    /\ In(p, "desire")
    /\ LET f == svc[p]
           method == MethodFor(f.wish, f.gid)
       IN IF ~Stored(f.id) THEN EndRequest(p) /\ UNCHANGED <<call, repoVars>>
          ELSE /\ Update(f.id, [byID[f.id] EXCEPT !.desired = f.wish])
               /\ IF method = "none" THEN Step(p, "settle") /\ UNCHANGED call
                  ELSE Step(p, "await") /\ Invoke(p, method, f.id, f.gid)
    /\ UNCHANGED <<elsewhere, ctxDone, startCancels>>

\* A failure is recorded and ends the request.  Cancelling a task that aria2
\* does not have is none.
CallFailed(p) ==
    /\ In(p, "await")
    /\ Returned(p, IF call[p].op = "Cancel" THEN {"error"} ELSE {"error", "missing"})
    /\ SetFailed(svc[p].id)
    /\ EndRequest(p)
    /\ TakeBack(p)
    /\ UNCHANGED <<elsewhere, ctxDone, startCancels>>

\* A request that started a task saves its gid before it goes on.
SaveGid(p) ==
    /\ In(p, "await") /\ call[p].op = "Start"
    /\ Returned(p, {"ok"})
    /\ SetGid(svc[p].id, call[p].gid)
    /\ IF Stored(svc[p].id) THEN Step(p, "settle") ELSE EndRequest(p)
    /\ TakeBack(p)
    /\ UNCHANGED <<elsewhere, ctxDone, startCancels>>

CallDone(p) ==
    /\ In(p, "await") /\ call[p].op # "Start"
    /\ Returned(p, {"ok", "missing"})
    /\ Step(p, "settle")
    /\ TakeBack(p)
    /\ UNCHANGED <<elsewhere, ctxDone, startCancels, repoVars>>

\* The status that a wish, once brought about, leaves in the row.
Settled(r, wish) ==
    [r EXCEPT !.status = IF wish = "Resume" THEN "Active" ELSE wish,
              !.gid    = IF wish = "Cancelled" THEN NoGid ELSE @]

Settle(p) ==
    /\ In(p, "settle")
    /\ Set(svc[p].id, Settled(byID[svc[p].id], svc[p].wish))
    /\ EndRequest(p)
    /\ UNCHANGED <<elsewhere, call, ctxDone, startCancels>>
-----------------------------------------------------------------------------
DeleteRequest(p, id) ==
    /\ In(p, "idle")
    /\ Stored(id)
    /\ Begin(p, "cancelStart", id, byID[id].gid, "none")
    /\ UNCHANGED <<elsewhere, call, ctxDone, startCancels, repoVars>>

\* Delete cancels a background start that is still under way ...
CancelStart(p) ==
    /\ In(p, "cancelStart")
    /\ LET id == svc[p].id IN
         /\ ctxDone' = ctxDone \cup ({id} \cap startCancels)
         /\ startCancels' = startCancels \ {id}
         /\ Invoke(p, "Delete", id, svc[p].gid)
    /\ Step(p, "deleting")
    /\ UNCHANGED <<elsewhere, repoVars>>

\* ... and removes the row once the adapter has removed the rest.
DeleteRow(p) ==
    /\ In(p, "deleting")
    /\ \/ Returned(p, {"ok"}) /\ Delete(svc[p].id)
       \/ Returned(p, {"error"}) /\ UNCHANGED repoVars
    /\ EndRequest(p)
    /\ TakeBack(p)
    /\ UNCHANGED <<elsewhere, ctxDone, startCancels>>
-----------------------------------------------------------------------------
\* Clients: an Add with a desired status, an update, a delete.
Request(p) ==
    \/ \E loc \in Locators, status \in Posted : AddRequest(p, loc, status)
    \/ \E id \in Ids, wish \in Ops \cap Wishes : UpdateRequest(p, id, wish)
    \/ "Delete" \in Ops /\ \E id \in Ids : DeleteRequest(p, id)

RequestStep(p) ==
    \/ Launch(p)
    \/ SetDesired(p) \/ CallFailed(p) \/ SaveGid(p) \/ CallDone(p) \/ Settle(p)
    \/ CancelStart(p) \/ DeleteRow(p)

StarterStep(id) == SettleStart(id) \/ Cleanup(id)
=============================================================================
