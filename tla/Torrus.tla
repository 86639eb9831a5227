------------------------------- MODULE Torrus -------------------------------
(***************************************************************************)
(* The program main.go wires together: the HTTP requests with their        *)
(* service, the in-memory repository, the aria2 adapter with its           *)
(* notification and poll loops, the reconciler and the channel between     *)
(* them, next to the daemon; and a restart of it all.                      *)
(***************************************************************************)
EXTENDS DownloadService, Reconciler

CONSTANT MaxRequests    \* a bound: how many requests clients make

ASSUME MaxRequestsAssumption == MaxRequests \in Nat

VARIABLE left           \* requests still to come

vars == <<repoVars, daemonVars, events, adapterVars, svcVars, recVars, left>>

Init ==
    /\ RepoInit /\ DaemonInit /\ EventBusInit /\ AdapterInit /\ ServiceInit /\ ReconcilerInit
    /\ left = MaxRequests

Client(p) ==
    /\ left > 0
    /\ Request(p)
    /\ left' = left - 1
    /\ UNCHANGED recVars

\* The goroutine of a request or of a background start.
Goroutine(p) ==
    /\ \/ p \in Reqs /\ RequestStep(p)
       \/ p \in Ids /\ StarterStep(p)
       \/ CallStep(p) /\ UNCHANGED <<repoVars, svcVars>>
    /\ UNCHANGED <<recVars, left>>

NotificationLoop ==
    LoopStep /\ UNCHANGED <<repoVars, svcVars, recVars, left>>

PollLoop ==
    PollStep /\ UNCHANGED <<repoVars, svcVars, recVars, left>>

Reconcile ==
    ReconcilerStep /\ UNCHANGED <<daemonVars, adapterVars, svcVars, left>>

Daemon ==
    DaemonStep /\ UNCHANGED <<repoVars, events, adapterVars, svcVars, recVars, left>>

\* The program ends at any point and is started again: the tasks are what is
\* left, and the rows, as in Postgres, which implements this repository.  That a
\* download was started once is remembered by the model.
Restart ==
    /\ "crash" \in Faults
    /\ left > 0
    /\ left' = left - 1
    /\ svc' = [p \in Procs |->
                 IF p \in Ids /\ svc[p].pc # "idle" THEN [Idle EXCEPT !.pc = "done"] ELSE Idle]
    /\ startCancels' = {}
    /\ gidToID' = [g \in Gids |-> NoId]
    /\ call' = [w \in Workers |-> NoCall]
    /\ ctxDone' = {}
    /\ events' = <<>>
    /\ inHand' = NoEvent /\ judged' = FALSE
    /\ notes' = <<>> /\ online' = TRUE
    /\ UNCHANGED <<repoVars, task, owner, followedBy>>

\* All requests made are answered and everything they caused has been dealt with.
Quiet ==
    /\ \A p \in Procs : svc[p].pc \in {"idle", "done"}
    /\ \A w \in Loops : At(w, "idle")
    /\ notes = <<>>
    /\ events = <<>> /\ inHand = NoEvent

\* Clients need not make another request.
Rest == Quiet /\ UNCHANGED vars

Next ==
    \/ \E p \in Reqs : Client(p)
    \/ \E p \in Procs : Goroutine(p)
    \/ NotificationLoop
    \/ PollLoop
    \/ Reconcile
    \/ Daemon
    \/ Restart
    \/ Rest

Spec == Init /\ [][Next]_vars

\* The Go scheduler runs every goroutine that can run.  A full channel disables
\* its senders and enables them again, but serves them in the order they came:
\* strong fairness.  Clients and the daemon need not do anything.
Fairness ==
    /\ \A p \in Procs : SF_vars(Goroutine(p))
    /\ SF_vars(NotificationLoop)
    /\ SF_vars(PollLoop)
    /\ WF_vars(Reconcile)

FairSpec == Spec /\ Fairness
-----------------------------------------------------------------------------
\* The type invariant: every variable of every component.
TypeOK ==
    /\ RepoTypeOK /\ DaemonTypeOK /\ EventBusTypeOK /\ AdapterTypeOK
    /\ ServiceTypeOK /\ ReconcilerTypeOK
    /\ left \in 0..MaxRequests

Pending == {events[n] : n \in DOMAIN events} \cup ({inHand} \ {NoEvent})

Belongs(g, id) == g # NoGid => owner[g] = id

\* Wherever the program keeps a gid next to a download, the task works for
\* that download: in the rows, in gidToID, in the events on their way to the
\* reconciler and in the frames of calls and of the notification loop.  So
\* nothing that happens to one download is ever applied to another.
GidsBelong ==
    /\ \A i \in Rows : Belongs(byID[i].gid, i)
    /\ \A g \in Tracked : Belongs(g, gidToID[g])
    /\ \A e \in Pending : Belongs(e.gid, e.id) /\ Belongs(e.new, e.id)
    /\ \A w \in Workers : Belongs(call[w].gid, call[w].id) /\ Belongs(call[w].new, call[w].id)
    /\ \A p \in Procs : Belongs(svc[p].gid, svc[p].id)

\* The map startCancels (download.go 127-135, 328-333) holds the background
\* starts that run and that no Delete has cancelled: while a start runs, a
\* Delete that has found the row finds its cancel function, and none outlives
\* its start.  (A row may be deleted before its start is launched, download.go
\* 109-127: that Delete has nothing to cancel, and a later one finds no row.)
CancellableStarts ==
    startCancels = {i \in Ids : svc[i].pc \in {"starting", "cleanup"}} \ ctxDone

\* When Delete removes the row, the task whose gid it has read is over: a
\* Cancel that failed, unless for want of the task, keeps the row, and a
\* repeated Delete finds it (download.go 335-345, delete.go 22-25).
DeleteEndsTask ==
    [][\A p \in Reqs :
          In(p, "deleting") /\ ~In(p, "deleting")' /\ svc[p].gid # NoGid
            /\ Stored(svc[p].id) /\ byID'[svc[p].id] = NoRow
              => task[svc[p].gid] \notin Live]_vars

\* A download is started in the background at most once, however often its
\* Add is repeated while it starts, after it has started or after it failed
\* (download.go 114-116).
StartedOnce ==
    [][\A i \in Ids : At(i, "Start")' /\ ~At(i, "Start") => In(i, "idle")]_vars

\* A Start event that the reconciler is about to apply (reconciler.go 80-90,
\* 162) never meets a row that is Complete, though the Complete of a quick
\* download may overtake its Start on the channel.  It is about the event: a
\* request may still write Active over a Complete (download.go 218, 264).
StartMeetsNoComplete ==
    judged /\ inHand.type = "Start" /\ Stored(inHand.id) => row.status # "Complete"

\* While a plain task runs, the adapter tracks it or is on its way to: a
\* Cancel that fails, repeats or crosses a notification never makes the
\* adapter forget a task that goes on (ops.go 144-174, events.go 106-145).
LiveTasksTracked ==
    \A g \in Gids : task[g] \in Live =>
        g \in Tracked \/ \E p \in Procs : call[p].gid = g /\ call[p].pc \in {"told?", "track"}

\* A row says Complete only if a task of that download that was not a mere
\* metadata task ran to its end (events.go 72-106).
CompleteIsTrue ==
    \A i \in Rows : byID[i].status = "Complete" =>
        \E g \in Gids : owner[g] = i /\ task[g] \in {"done", "purged"} /\ followedBy[g] = NoGid

\* A metadata task and the real task that took over from it are never both
\* tracked, whichever of Start, Resume and the notification loop makes the
\* swap (ops.go 51-59, 107-121; events.go 73-88): no download counts twice.
TrackedOnce ==
    \A g \in Tracked : followedBy[g] \notin Tracked

\* Every request and every background start returns and the notification loop
\* gets done with every notification, although each may have to wait for room
\* on the events channel (reporter.go 21).
RequestsReturn ==
    /\ \A p \in Procs : svc[p].pc \notin {"idle", "done"} ~> svc[p].pc \in {"idle", "done"}
    /\ ~At(Loop, "idle") ~> At(Loop, "idle")

Completing(g) == \E n \in DOMAIN notes : notes[n] = [method |-> "onDownloadComplete", gid |-> g]

\* A Cancel, a Delete's own included, has found that task g is gone.
FoundMissing(p, g) == At(p, "untrack") /\ call[p].gid = g /\ call[p].result = "missing"

\* As long as the program runs, the completion of a tracked task reaches the
\* row, also when it overtakes the start that has yet to save the gid
\* (download.go 147, reconciler.go 176-187) ...
CompletionReported ==
    \A i \in Ids, g \in Gids :
        gidToID[g] = i /\ Completing(g)
          ~> \/ ~Stored(i)
             \/ byID[i].status = "Complete"
             \* ... unless the row has another gid, from another start, whose task
             \* may still run, or of the real task (reconciler.go 104-117, 182),
             \/ byID[i].gid \notin {NoGid, g}
             \* a Cancel or a Delete untracks g before the notification is read,
             \* though a Delete may then fail and keep the row (ops.go 151-159,
             \* events.go 65-69, delete.go 250),
             \/ \E p \in Reqs : FoundMissing(p, g)
             \* or the websocket ends.
             \/ ~online
=============================================================================
