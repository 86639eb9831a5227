---------------------------- MODULE Aria2Daemon ----------------------------
(***************************************************************************)
(* The aria2 daemon as the adapter uses it (external): the RPCs of ops.go  *)
(* and delete.go and the notifications events.go handles.  A task runs,    *)
(* may be paused, and ends; a magnet's metadata task ends by starting the  *)
(* real task and naming it in followedBy.  The daemon sends notifications  *)
(* over one websocket, in order.                                           *)
(***************************************************************************)
EXTENDS DownloadTypes

CONSTANTS
    Faults,         \* what may go wrong with a call, a subset of FaultKinds
    Magnets,        \* whether tasks may turn out to be metadata tasks
    Announced       \* the notification methods that are modelled

FaultKinds == {"refused",   \* an RPC fails and has no effect
               "lost",      \* an RPC takes effect, its answer does not arrive
               "query",     \* a tellStatus or getFiles fails
               "files",     \* the removal of a file fails
               "stream",    \* the websocket of the notifications ends
               "crash"}     \* Torrus ends, at any point, and is started again

Methods == {"onDownloadStart", "onDownloadPause", "onDownloadStop",
            "onDownloadComplete", "onDownloadError"}

ASSUME FaultsAssumption    == Faults \subseteq FaultKinds
ASSUME MagnetsAssumption   == Magnets \in BOOLEAN
ASSUME AnnouncedAssumption == Announced \subseteq Methods

VARIABLES
    task,           \* the state of each task
    owner,          \* the download a task works for: known to no program,
                    \* recorded to state what belongs to whom
    followedBy,     \* the real task a metadata task started
    notes,          \* notifications the adapter has not read yet
    online          \* the websocket is open

daemonVars == <<task, owner, followedBy, notes, online>>

Ended == {"done", "failed", "removed"}
Live  == {"active", "paused"}

DaemonTypeOK ==
    /\ task \in [Gids -> Live \cup Ended \cup {"none", "purged"}]
    /\ owner \in [Gids -> IdOrNone]
    /\ followedBy \in [Gids -> GidOrNone]
    /\ notes \in Seq([method: Methods, gid: Gids])
    /\ online \in BOOLEAN

DaemonInit ==
    /\ task = [g \in Gids |-> "none"]
    /\ owner = [g \in Gids |-> NoId]
    /\ followedBy = [g \in Gids |-> NoGid]
    /\ notes = <<>>
    /\ online = TRUE

Announce(m, g) ==
    /\ notes' = IF m \in Announced /\ online THEN Append(notes, [method |-> m, gid |-> g])
                ELSE notes
    /\ UNCHANGED online

FreeGids == {g \in Gids : task[g] = "none"}

NewTask(g, id) ==
    /\ g \in FreeGids
    /\ task' = [task EXCEPT ![g] = "active"]
    /\ owner' = [owner EXCEPT ![g] = id]
    /\ Announce("onDownloadStart", g)
    /\ UNCHANGED followedBy

\* A pause, unpause or remove RPC: a task in one of the states from moves to
\* the state to.  The answer is "missing" when there is no such task.
Command(g, from, to, m, answer) ==
    \/ /\ task[g] \in from
       /\ task' = [task EXCEPT ![g] = to]
       /\ Announce(m, g)
       /\ UNCHANGED <<owner, followedBy>>
       /\ answer = "ok" \/ (answer = "error" /\ "lost" \in Faults)
    \/ /\ UNCHANGED daemonVars
       /\ \/ answer = "missing" /\ task[g] \notin from
          \/ answer = "error" /\ "refused" \in Faults

\* removeDownloadResult
Purge(g) ==
    /\ task' = [task EXCEPT ![g] = IF @ \in Ended THEN "purged" ELSE @]
    /\ UNCHANGED <<owner, followedBy, notes, online>>

\* The followedBy a tellStatus may report; NoGid if it fails.
Told(g) ==
    (IF task[g] = "purged" THEN {NoGid} ELSE {followedBy[g]})
        \cup (IF "query" \in Faults THEN {NoGid} ELSE {})

IsReal(g) == \E m \in Gids : followedBy[m] = g

Finish(g) ==
    /\ task[g] = "active"
    /\ task' = [task EXCEPT ![g] = "done"]
    /\ Announce("onDownloadComplete", g)
    /\ UNCHANGED <<owner, followedBy>>

FinishMetadata(g, real) ==
    /\ Magnets
    /\ task[g] = "active" /\ ~IsReal(g)
    /\ real \in FreeGids
    /\ task' = [task EXCEPT ![g] = "done", ![real] = "active"]
    /\ owner' = [owner EXCEPT ![real] = owner[g]]
    /\ followedBy' = [followedBy EXCEPT ![g] = real]
    /\ Announce("onDownloadComplete", g)

Fail(g) ==
    /\ task[g] = "active"
    /\ task' = [task EXCEPT ![g] = "failed"]
    /\ Announce("onDownloadError", g)
    /\ UNCHANGED <<owner, followedBy>>

\* The websocket ends: what has not arrived is lost, and nothing reopens it.
EndStream ==
    /\ "stream" \in Faults /\ online
    /\ online' = FALSE
    /\ \E n \in 0..Len(notes) : notes' = SubSeq(notes, 1, n)
    /\ UNCHANGED <<task, owner, followedBy>>

DaemonStep ==
    \/ EndStream
    \/ \E g \in Gids :
          Finish(g) \/ Fail(g) \/ \E real \in Gids : FinishMetadata(g, real)
=============================================================================
