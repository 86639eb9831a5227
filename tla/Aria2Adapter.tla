---------------------------- MODULE Aria2Adapter ----------------------------
(***************************************************************************)
(* internal/downloader/aria2: the methods the service calls (ops.go,       *)
(* delete.go), the notification loop and the poll loop (events.go).  A     *)
(* call is a frame with a program counter; a step of it is one RPC, one    *)
(* critical section of a.mu or one send on the events channel, so calls,   *)
(* the loops and the daemon interleave as they can in the program.         *)
(*                                                                         *)
(* activeGIDs has the domain of gidToID (they are written in the same      *)
(* critical sections) and is not a variable; lastProg, which only decides  *)
(* whether the poll loop has progress to report, is a choice.              *)
(***************************************************************************)
EXTENDS Aria2Daemon, EventBus

CONSTANTS
    Reqs,           \* goroutines that serve HTTP requests
    Loop,           \* the notification loop
    Poll,           \* the poll loop
    Polling         \* whether it is modelled

Procs   == Reqs \cup Ids    \* the background start of a download goes by its id
Loops   == {Loop, Poll}
Workers == Procs \cup Loops

ASSUME WorkersAssumption ==
    Reqs \cap Ids = {} /\ Loops \cap Procs = {} /\ Loop # Poll

ASSUME PollingAssumption == Polling \in BOOLEAN

VARIABLES
    gidToID,        \* the map gidToID; NoId where it has no entry
    call,           \* the frame of each worker
    ctxDone         \* the calls whose context has been cancelled

adapterVars == <<gidToID, call, ctxDone>>

Calls == {"Start", "Pause", "Resume", "Cancel", "Delete"}

\* In a frame of a loop, op is the type of the event to report.
Frame == [pc: Calls \cup {"idle", "told?", "track", "repStart", "repMeta", "swap",
                             "repGid", "repPaused", "repProgress", "look", "repEnd",
                             "untrack", "purge", "return"},
          op: Calls \cup EventTypes \cup {"none"},
          id: IdOrNone, gid: GidOrNone, new: GidOrNone,
          result: {"ok", "error", "missing", "canceled"}]

NoCall == [pc |-> "idle", op |-> "none", id |-> NoId, gid |-> NoGid, new |-> NoGid,
           result |-> "ok"]

AdapterTypeOK ==
    /\ gidToID \in [Gids -> IdOrNone]
    /\ call \in [Workers -> Frame]
    /\ ctxDone \subseteq Procs

AdapterInit ==
    /\ gidToID = [g \in Gids |-> NoId]
    /\ call = [w \in Workers |-> NoCall]
    /\ ctxDone = {}

Tracked == {g \in Gids : gidToID[g] # NoId}
-----------------------------------------------------------------------------
At(w, pc)   == call[w].pc = pc
Goto(w, pc) == call' = [call EXCEPT ![w].pc = pc]

\* The service calls a method; it takes the frame back when pc is "return".
Invoke(p, op, id, gid) ==
    call' = [call EXCEPT ![p] = [NoCall EXCEPT !.pc = op, !.op = op, !.id = id, !.gid = gid]]

Return(w, result) ==
    call' = [call EXCEPT ![w] =
               IF w \in Loops THEN NoCall ELSE [@ EXCEPT !.pc = "return", !.result = result]]

TakeBack(p) == call' = [call EXCEPT ![p] = NoCall]

Send(w, type, new) ==
    Report([type |-> type, id |-> call[w].id, gid |-> call[w].gid, new |-> new])

\* Start: the daemon accepts the uri ...
AddUri(p) ==
    /\ At(p, "Start")
    /\ \E g \in FreeGids :
         /\ NewTask(g, call[p].id)
         /\ call' = [call EXCEPT ![p].pc = "told?", ![p].gid = g]
    /\ UNCHANGED <<gidToID, ctxDone, events>>

\* ... or it does not (a daemon out of gids is a bound of the model) ...
AddUriRefused(p) ==
    /\ At(p, "Start")
    /\ \/ ("refused" \in Faults \/ FreeGids = {}) /\ Return(p, "error")
       \/ p \in ctxDone /\ Return(p, "canceled")
    /\ UNCHANGED <<daemonVars, gidToID, ctxDone, events>>

\* ... or its answer, which has the gid, does not arrive.
AddUriLost(p) ==
    /\ At(p, "told?")
    /\ \/ "lost" \in Faults /\ Return(p, "error")
       \/ p \in ctxDone /\ Return(p, "canceled")
    /\ UNCHANGED <<daemonVars, gidToID, ctxDone, events>>

\* tellStatus right after addUri: a magnet may already have its real task.
\* A cancelled context fails this query, which is not an error.
AskFollowedBy(p) ==
    /\ At(p, "told?")
    /\ \E real \in Told(call[p].gid) \cup (IF p \in ctxDone THEN {NoGid} ELSE {}) :
         call' = [call EXCEPT ![p].pc = "track", ![p].gid = IF real = NoGid THEN @ ELSE real]
    /\ UNCHANGED <<daemonVars, gidToID, ctxDone, events>>

Track(p) ==
    /\ At(p, "track")
    /\ gidToID' = [gidToID EXCEPT ![call[p].gid] = call[p].id]
    /\ Goto(p, "repStart")
    /\ UNCHANGED <<daemonVars, ctxDone, events>>

ReportStart(p) ==
    /\ At(p, "repStart")
    /\ Send(p, "Start", NoGid)
    /\ Goto(p, "repMeta")
    /\ UNCHANGED <<daemonVars, gidToID, ctxDone>>

\* The last step of Start, of Resume and of a metadata completion.  There is
\* no event when neither a name nor files are known.
ReportMeta(w) ==
    /\ At(w, "repMeta")
    /\ Return(w, "ok")
    /\ \/ Send(w, "Meta", NoGid)
       \/ "query" \in Faults /\ UNCHANGED events
    /\ UNCHANGED <<daemonVars, gidToID, ctxDone>>

\* Pause and Resume: any failure is an error, a missing gid included.
Pause(p) ==
    /\ At(p, "Pause")
    /\ \E answer \in {"ok", "missing", "error"} :
         /\ Command(call[p].gid, {"active"}, "paused", "onDownloadPause", answer)
         /\ IF answer = "ok" THEN Goto(p, "repPaused") ELSE Return(p, "error")
    /\ UNCHANGED <<gidToID, ctxDone, events>>

ReportPaused(w) ==
    /\ At(w, "repPaused")
    /\ Send(w, "Paused", NoGid)
    /\ IF w = Loop THEN Goto(w, "repProgress") ELSE Return(w, "ok")
    /\ UNCHANGED <<daemonVars, gidToID, ctxDone>>

Unpause(p) ==
    /\ At(p, "Resume")
    /\ \E answer \in {"ok", "missing", "error"} :
         /\ Command(call[p].gid, {"paused"}, "active", "onDownloadStart", answer)
         /\ IF answer = "ok" THEN Goto(p, "look") ELSE Return(p, "error")
    /\ UNCHANGED <<gidToID, ctxDone, events>>

\* Mutant: a completion is taken for the end without asking.
LookAway(w) ==
    /\ At(w, "look")
    /\ Goto(w, IF w = Loop THEN "repEnd" ELSE "repMeta")
    /\ UNCHANGED <<daemonVars, gidToID, ctxDone, events>>

\* tellStatus after an unpause, and before a completion is taken for the end
\* of the download: followedBy says whether gid was a metadata task.
Look(w) ==
    /\ At(w, "look")
    /\ \E real \in Told(call[w].gid) :
         call' = [call EXCEPT ![w].new = real,
                              ![w].pc = IF real # NoGid THEN "swap"
                                        ELSE IF w = Loop THEN "repEnd" ELSE "repMeta"]
    /\ UNCHANGED <<daemonVars, gidToID, ctxDone, events>>

\* Mutant: the metadata gid stays in the map.
SwapKeepsOld(w) ==
    /\ At(w, "swap")
    /\ gidToID' = [gidToID EXCEPT ![call[w].new] = call[w].id]
    /\ Goto(w, "repGid")
    /\ UNCHANGED <<daemonVars, ctxDone, events>>

\* The real task takes over from its metadata task.
Swap(w) ==
    /\ At(w, "swap")
    /\ gidToID' = [gidToID EXCEPT ![call[w].gid] = NoId, ![call[w].new] = call[w].id]
    /\ Goto(w, "repGid")
    /\ UNCHANGED <<daemonVars, ctxDone, events>>

ReportGid(w) ==
    /\ At(w, "repGid")
    /\ Send(w, "GIDUpdate", call[w].new)
    /\ call' = [call EXCEPT ![w].pc = "repMeta", ![w].gid = call[w].new, ![w].new = NoGid]
    /\ UNCHANGED <<daemonVars, gidToID, ctxDone>>

\* Mutant: any failed Cancel untracks the gid, not only that of a missing one.
RemoveForgets(p) ==
    /\ At(p, "Cancel") \/ (At(p, "Delete") /\ call[p].gid # NoGid)
    /\ \E answer \in {"ok", "missing", "error"} :
         /\ Command(call[p].gid, Live, "removed", "onDownloadStop", answer)
         /\ call' = [call EXCEPT ![p].pc = IF answer = "ok" THEN "repEnd" ELSE "untrack",
                                 ![p].result = answer]
    /\ UNCHANGED <<gidToID, ctxDone, events>>

\* Cancel, and the first step of Delete for a download with a gid.  A missing
\* gid is untracked without an event, after another error it stays tracked.
Remove(p) ==
    /\ At(p, "Cancel") \/ (At(p, "Delete") /\ call[p].gid # NoGid)
    /\ \E answer \in {"ok", "missing", "error"} :
         /\ Command(call[p].gid, Live, "removed", "onDownloadStop", answer)
         /\ IF answer = "error" THEN Return(p, "error")
            ELSE call' = [call EXCEPT ![p].pc = IF answer = "ok" THEN "repEnd" ELSE "untrack",
                                      ![p].result = answer]
    /\ UNCHANGED <<gidToID, ctxDone, events>>

\* The terminal event of a completion, an error, a stop or a Cancel.
ReportEnd(w) ==
    /\ At(w, "repEnd")
    /\ Send(w, IF w = Loop THEN call[w].op ELSE "Cancelled", NoGid)
    /\ Goto(w, "untrack")
    /\ UNCHANGED <<daemonVars, gidToID, ctxDone>>

Untrack(w) ==
    /\ At(w, "untrack")
    /\ gidToID' = [gidToID EXCEPT ![call[w].gid] = NoId]
    /\ IF call[w].op = "Delete" THEN Goto(w, "purge") ELSE Return(w, call[w].result)
    /\ UNCHANGED <<daemonVars, ctxDone, events>>

\* The rest of Delete: the result is purged, which may fail and is ignored, then
\* files may be removed.
PurgeResult(p) ==
    /\ At(p, "purge") \/ (At(p, "Delete") /\ call[p].gid = NoGid)
    /\ \/ call[p].gid # NoGid /\ Purge(call[p].gid)
       \/ (call[p].gid = NoGid \/ "refused" \in Faults) /\ UNCHANGED daemonVars
    /\ \/ Return(p, "ok")
       \/ "files" \in Faults /\ Return(p, "error")
    /\ UNCHANGED <<gidToID, ctxDone, events>>
-----------------------------------------------------------------------------
\* What the loop makes of a notification about a tracked gid.
Reaction == [onDownloadComplete |-> [pc |-> "look",        op |-> "Complete"],
             onDownloadError    |-> [pc |-> "repEnd",      op |-> "Failed"],
             onDownloadStop     |-> [pc |-> "repEnd",      op |-> "Cancelled"],
             onDownloadPause    |-> [pc |-> "repPaused",   op |-> "Paused"],
             onDownloadStart    |-> [pc |-> "repProgress", op |-> "Progress"]]

\* Mutant: an unknown gid is taken for one of the downloads being started.
TakeNoteGuessing ==
    /\ At(Loop, "idle")
    /\ notes # <<>>
    /\ notes' = Tail(notes)
    /\ LET n == Head(notes) IN
         \E id \in IF gidToID[n.gid] # NoId THEN {gidToID[n.gid]}
                   ELSE {i \in Ids : At(i, "told?") \/ At(i, "track")} :
            call' = [call EXCEPT ![Loop] =
                       [NoCall EXCEPT !.pc = Reaction[n.method].pc, !.op = Reaction[n.method].op,
                                      !.id = id, !.gid = n.gid]]
    /\ UNCHANGED <<task, owner, followedBy, online, gidToID, ctxDone, events>>

\* handleNotification looks the gid up; one it does not track is dropped.
TakeNote ==
    /\ At(Loop, "idle")
    /\ notes # <<>>
    /\ notes' = Tail(notes)
    /\ LET n  == Head(notes)
           id == gidToID[n.gid]
       IN IF id = NoId THEN UNCHANGED call
          ELSE call' = [call EXCEPT ![Loop] =
                          [NoCall EXCEPT !.pc = Reaction[n.method].pc, !.op = Reaction[n.method].op,
                                         !.id = id, !.gid = n.gid]]
    /\ UNCHANGED <<task, owner, followedBy, online, gidToID, ctxDone, events>>

\* The poll loop asks for the progress of one gid after the other; a gid
\* that is no longer tracked when its turn comes is skipped.
PollTask ==
    /\ Polling
    /\ At(Poll, "idle")
    /\ \E g \in Tracked :
         call' = [call EXCEPT ![Poll] =
                    [NoCall EXCEPT !.pc = "repProgress", !.op = "Progress",
                                   !.id = gidToID[g], !.gid = g]]
    /\ UNCHANGED <<daemonVars, gidToID, ctxDone, events>>

\* No event when tellStatus fails, nor one from the poll loop when nothing has
\* changed since its last.
ReportProgress(w) ==
    /\ At(w, "repProgress")
    /\ Return(w, "ok")
    /\ \/ Send(w, "Progress", NoGid)
       \/ (w = Poll \/ "query" \in Faults) /\ UNCHANGED events
    /\ UNCHANGED <<daemonVars, gidToID, ctxDone>>

PollStep == PollTask \/ ReportProgress(Poll)

LoopStep ==
    \/ TakeNote
    \/ ReportProgress(Loop)
    \/ Look(Loop) \/ Swap(Loop) \/ ReportGid(Loop) \/ ReportMeta(Loop)
    \/ ReportPaused(Loop)
    \/ ReportEnd(Loop) \/ Untrack(Loop)

CallStep(p) ==
    \/ AddUri(p) \/ AddUriRefused(p) \/ AddUriLost(p) \/ AskFollowedBy(p)
    \/ Track(p) \/ ReportStart(p) \/ ReportMeta(p)
    \/ Pause(p) \/ ReportPaused(p)
    \/ Unpause(p) \/ Look(p) \/ Swap(p) \/ ReportGid(p)
    \/ Remove(p) \/ ReportEnd(p) \/ Untrack(p) \/ PurgeResult(p)
=============================================================================
