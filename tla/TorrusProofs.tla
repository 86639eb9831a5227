---------------------------- MODULE TorrusProofs ----------------------------
(***************************************************************************)
(* Proofs about the composed program, for any numbers of downloads, gids   *)
(* and requests, any room on the channel and every combination of faults.  *)
(*                                                                         *)
(* Inv is inductive.  It says at which counters a frame has a gid, that a  *)
(* service frame and the call it waits for agree, that every gid stands    *)
(* next to the download its task works for, and which background starts    *)
(* can still be cancelled.  The steps come in four kinds, each with one    *)
(* lemma for what it leaves alone: CallMoves for a step of the adapter,    *)
(* ServiceMoves for one of the service, ReconcileMoves for one of the      *)
(* reconciler and FramesKept for one of the daemon.  At the end RepoCall   *)
(* says how the program uses the repository, and what that does to rows.   *)
(***************************************************************************)
EXTENDS Torrus, SequenceTheorems, TLAPS

\* A gid has an owner once aria2 has handed it out, and a real task works for
\* the download of its metadata task.
DaemonInv ==
    \A g \in Gids :
        /\ owner[g] = NoId <=> task[g] = "none"
        /\ followedBy[g] # NoGid => owner[g] # NoId /\ owner[followedBy[g]] = owner[g]

\* The counters at which a frame is known to have a gid.
WithGid == {"Pause", "Resume", "Cancel", "told?", "track", "repStart", "repMeta", "look",
            "swap", "repGid", "repPaused", "repProgress", "repEnd", "untrack"}

\* What a frame of the adapter holds at each of its counters.
FrameInv(w) ==
    /\ call[w].pc = "idle" => call[w] = NoCall
    /\ call[w].pc # "idle" =>
         call[w].id \in Ids /\ call[w].op \in IF w \in Loops THEN EventTypes ELSE Calls
    /\ call[w].pc \in WithGid => call[w].gid \in Gids
    /\ call[w].pc \in {"swap", "repGid"} => call[w].new \in Gids

\* The counters of a Delete, and those at which its task is over.
DeletePcs == {"Delete", "repEnd", "untrack", "purge", "return"}

PastCancel(f) ==
    f.pc \in {"repEnd", "untrack", "purge"} \/ (f.pc = "return" /\ f.result # "error")

\* A goroutine waits for the adapter exactly when it has a call under way.
ServiceInv(p) ==
    /\ svc[p].pc \notin {"idle", "done"} \/ svc[p].gid # NoGid => svc[p].id \in Ids
    /\ svc[p].pc \in {"desire", "await", "settle"} => svc[p].wish \in Wishes
    /\ call[p].pc # "idle" <=> svc[p].pc \in {"await", "deleting", "starting"}
    /\ call[p].pc # "idle" => call[p].id = svc[p].id
    /\ svc[p].pc \in (IF p \in Ids THEN {"idle", "starting", "cleanup", "done"}
                      ELSE {"idle", "launch", "desire", "await", "settle", "cancelStart", "deleting"})
    /\ In(p, "starting") => svc[p].id = p
    /\ In(p, "deleting") =>
         call[p].op = "Delete" /\ call[p].gid = svc[p].gid /\ call[p].pc \in DeletePcs
    /\ In(p, "deleting") /\ svc[p].gid # NoGid /\ PastCancel(call[p]) => task[svc[p].gid] \notin Live

\* A download about to be started never was, and is about to be started once.
StartInv ==
    /\ CancellableStarts
    /\ ctxDone \subseteq Ids
    /\ \A i \in Ids : ~In(i, "idle") => i \in issued
    /\ \A i \in ctxDone : ~In(i, "idle")
    /\ \A p \in Reqs : In(p, "launch") =>
         /\ svc[p].id \in issued /\ In(svc[p].id, "idle")
         /\ \A q \in Reqs : In(q, "launch") /\ svc[q].id = svc[p].id => q = p

JudgeInv ==
    /\ judged => inHand.type \in TerminalTypes \cup {"Start"}
    /\ StartMeetsNoComplete

Inv ==
    /\ TypeOK
    /\ DaemonInv
    /\ \A w \in Workers : FrameInv(w)
    /\ \A p \in Procs : ServiceInv(p)
    /\ GidsBelong
    /\ StartInv
    /\ JudgeInv
-----------------------------------------------------------------------------
\* What every step of the daemon keeps: an owner once known, and the end of a
\* task.
Grows ==
    \A g \in Gids :
        /\ owner[g] # NoId => owner'[g] = owner[g]
        /\ task[g] \notin Live \cup {"none"} => task'[g] \notin Live \cup {"none"}

DaemonKeeps == DaemonTypeOK' /\ DaemonInv' /\ Grows

LEMMA DaemonIdle ==
    ASSUME DaemonTypeOK, DaemonInv, UNCHANGED <<task, owner, followedBy, online>>,
           notes' \in Seq([method: Methods, gid: Gids])
    PROVE  DaemonKeeps
  BY DEF DaemonTypeOK, DaemonInv, DaemonKeeps, Grows

\* A notification is appended, or not.
LEMMA AnnounceKeeps ==
    ASSUME DaemonTypeOK, NEW m \in Methods, NEW g \in Gids, Announce(m, g)
    PROVE  online' \in BOOLEAN /\ notes' \in Seq([method: Methods, gid: Gids])
  <1>1. [method |-> m, gid |-> g] \in [method: Methods, gid: Gids]
    OBVIOUS
  <1>2. notes \in Seq([method: Methods, gid: Gids]) /\ online \in BOOLEAN
    BY DEF DaemonTypeOK
  <1> HIDE DEF Methods
  <1>3. Append(notes, [method |-> m, gid |-> g]) \in Seq([method: Methods, gid: Gids])
    BY <1>1, <1>2
  <1> QED BY <1>2, <1>3 DEF Announce

\* addUri hands out a gid that belonged to nobody.
LEMMA NewTaskKeeps ==
    ASSUME DaemonTypeOK, DaemonInv, NEW g \in Gids, NEW id \in Ids, NewTask(g, id)
    PROVE  DaemonKeeps /\ owner'[g] = id
  <1>1. /\ task[g] = "none" /\ owner[g] = NoId
        /\ task' = [task EXCEPT ![g] = "active"]
        /\ owner' = [owner EXCEPT ![g] = id]
        /\ followedBy' = followedBy
    BY DEF NewTask, FreeGids, DaemonInv
  <1>2. DaemonTypeOK'
    BY <1>1, AnnounceKeeps DEF NewTask, DaemonTypeOK, Methods, IdOrNone, Live
  <1>3. DaemonInv'
    BY <1>1, IdsAssumption DEF DaemonInv, DaemonTypeOK, GidOrNone
  <1>4. Grows
    BY <1>1 DEF Grows, DaemonTypeOK
  <1> QED BY <1>1, <1>2, <1>3, <1>4 DEF DaemonKeeps, DaemonTypeOK

\* Pause, unpause and remove move a live task only; after a remove that did
\* not fail, the task is over.
LEMMA CommandKeeps ==
    ASSUME DaemonTypeOK, DaemonInv, NEW g \in Gids, NEW from \in SUBSET Live,
           NEW to \in Live \cup Ended, NEW m \in Methods, NEW answer,
           Command(g, from, to, m, answer)
    PROVE  /\ DaemonKeeps
           /\ from = Live /\ to = "removed" /\ answer # "error" => task'[g] \notin Live
  <1>1. CASE task[g] \in from /\ task' = [task EXCEPT ![g] = to] /\ Announce(m, g)
                /\ UNCHANGED <<owner, followedBy>>
    <2>1. DaemonTypeOK'
      BY <1>1, AnnounceKeeps DEF DaemonTypeOK
    <2>2. DaemonInv'
      BY <1>1 DEF DaemonInv, DaemonTypeOK, Live, Ended
    <2>3. Grows
      BY <1>1 DEF Grows, DaemonTypeOK
    <2> QED BY <1>1, <2>1, <2>2, <2>3 DEF DaemonKeeps, DaemonTypeOK, Live
  <1>2. CASE UNCHANGED daemonVars /\ ((answer = "missing" /\ task[g] \notin from) \/ answer = "error")
    BY <1>2 DEF daemonVars, DaemonKeeps, DaemonTypeOK, DaemonInv, Grows
  <1> QED BY <1>1, <1>2 DEF Command

LEMMA PurgeKeeps ==
    ASSUME DaemonTypeOK, DaemonInv, NEW g \in Gids, Purge(g)
    PROVE  DaemonKeeps
  BY DEF Purge, DaemonKeeps, DaemonTypeOK, DaemonInv, Grows, Live, Ended

\* The daemon's own steps.
LEMMA DaemonStepKeeps ==
    ASSUME DaemonTypeOK, DaemonInv, DaemonStep
    PROVE  DaemonKeeps
  <1>1. CASE EndStream
    <2> DEFINE Note == [method: Methods, gid: Gids]
    <2>1. notes \in Seq(Note)
      BY DEF DaemonTypeOK
    <2>2. PICK n \in 0..Len(notes) : notes' = SubSeq(notes, 1, n)
      BY <1>1 DEF EndStream
    <2> HIDE DEF Note
    <2>3. notes' \in Seq(Note)
      <3>1. \A i \in 1..n : i \in 1..Len(notes)
        BY <2>1, <2>2
      <3>2. \A i \in 1..n : notes[i] \in Note
        BY <2>1, <3>1, ElementOfSeq
      <3> QED BY <2>1, <2>2, <3>2, SubSeqProperties
    <2> USE DEF Note
    <2> QED BY <1>1, <2>3 DEF EndStream, DaemonTypeOK, DaemonInv, DaemonKeeps, Grows
  <1>2. ASSUME NEW g \in Gids, Finish(g)
        PROVE  DaemonKeeps
    BY <1>2, AnnounceKeeps
    DEF Finish, DaemonTypeOK, DaemonInv, DaemonKeeps, Grows, Methods, Live, Ended
  <1>3. ASSUME NEW g \in Gids, Fail(g)
        PROVE  DaemonKeeps
    BY <1>3, AnnounceKeeps
    DEF Fail, DaemonTypeOK, DaemonInv, DaemonKeeps, Grows, Methods, Live, Ended
  <1>4. ASSUME NEW g \in Gids, NEW real \in Gids, FinishMetadata(g, real)
        PROVE  DaemonKeeps
    <2>1. /\ task[g] = "active" /\ task[real] = "none" /\ g # real
          /\ owner[g] # NoId /\ owner[real] = NoId
          /\ task' = [task EXCEPT ![g] = "done", ![real] = "active"]
          /\ owner' = [owner EXCEPT ![real] = owner[g]]
          /\ followedBy' = [followedBy EXCEPT ![g] = real]
          /\ Announce("onDownloadComplete", g)
      BY <1>4 DEF FinishMetadata, FreeGids, DaemonInv
    <2>2. DaemonTypeOK'
      BY <2>1, AnnounceKeeps DEF DaemonTypeOK, Methods, Live, Ended, GidOrNone
    <2>3. DaemonInv'
      BY <2>1, GidsAssumption DEF DaemonTypeOK, DaemonInv, GidOrNone
    <2>4. Grows
      BY <2>1 DEF DaemonTypeOK, Grows, Live
    <2> QED BY <2>2, <2>3, <2>4 DEF DaemonKeeps
  <1> QED BY <1>1, <1>2, <1>3, <1>4 DEF DaemonStep
-----------------------------------------------------------------------------
\* Background starts, requests and loops are different workers.
LEMMA DifferentWorkers ==
    /\ Reqs \subseteq Procs /\ Ids \subseteq Procs
    /\ Procs \subseteq Workers /\ Loops \subseteq Workers
    /\ Loop \in Workers \ Procs /\ Poll \in Workers \ Procs
    /\ \A p \in Reqs : p \notin Ids
  BY WorkersAssumption DEF Procs, Workers, Loops

Mine(e) == Belongs(e.gid, e.id) /\ Belongs(e.new, e.id)

\* A gid that works for a download goes on to.
LEMMA BelongsKept ==
    ASSUME Grows, NEW g \in GidOrNone, NEW id \in Ids, Belongs(g, id)
    PROVE  Belongs(g, id)'
  BY IdsAssumption DEF Belongs, Grows, GidOrNone

\* What is on the way to the reconciler are events.
LEMMA PendingEvents ==
    ASSUME TypeOK, NEW e \in Pending
    PROVE  e \in Event /\ e.gid \in GidOrNone /\ e.new \in GidOrNone /\ e.id \in Ids
  <1>1. e \in Event
    <2>1. events \in Seq(Event) /\ inHand \in Event \cup {NoEvent}
      BY DEF TypeOK, EventBusTypeOK, ReconcilerTypeOK
    <2> HIDE DEF Event
    <2> QED BY <2>1 DEF Pending
  <1> QED BY <1>1 DEF Event, GidOrNone

\* The frames that a step of another worker leaves alone.
LEMMA FrameKept ==
    ASSUME Inv, Grows, NEW v \in Workers, call'[v] = call[v]
    PROVE  FrameInv(v)' /\ Mine(call[v])'
  <1>1. call[v] \in Frame /\ FrameInv(v) /\ Mine(call[v])
    BY DEF Inv, TypeOK, AdapterTypeOK, GidsBelong, Mine
  <1>2. FrameInv(v)'
    BY <1>1 DEF FrameInv
  <1>3. CASE call[v].pc = "idle"
    BY <1>1, <1>3 DEF FrameInv, NoCall, Mine, Belongs
  <1>4. CASE call[v].pc # "idle"
    <2>1. call[v].id \in Ids /\ call[v].gid \in GidOrNone /\ call[v].new \in GidOrNone
      BY <1>1, <1>4 DEF FrameInv, Frame
    <2>2. Belongs(call[v].gid, call[v].id)' /\ Belongs(call[v].new, call[v].id)'
      BY <1>1, <2>1, BelongsKept DEF Mine, Belongs
    <2> QED BY <1>2, <2>2 DEF Mine
  <1> QED BY <1>2, <1>3, <1>4

LEMMA ServiceKept ==
    ASSUME Inv, Grows, NEW p \in Procs, call'[p] = call[p], svc'[p] = svc[p]
    PROVE  ServiceInv(p)' /\ Belongs(svc[p].gid, svc[p].id)'
  <1>1. svc[p] \in ServiceFrame /\ ServiceInv(p) /\ Belongs(svc[p].gid, svc[p].id)
    BY DEF Inv, TypeOK, ServiceTypeOK, GidsBelong
  <1>2. CASE svc[p].gid = NoGid
    BY <1>1, <1>2 DEF ServiceInv, Belongs, In, At, PastCancel
  <1>3. CASE svc[p].gid # NoGid
    <2>1. svc[p].id \in Ids /\ svc[p].gid \in Gids
      BY <1>1, <1>3 DEF ServiceInv, ServiceFrame, GidOrNone
    <2>2. owner[svc[p].gid] = svc[p].id /\ task[svc[p].gid] # "none"
      BY <1>1, <1>3, <2>1, IdsAssumption DEF Belongs, Inv, DaemonInv
    <2>3. owner'[svc[p].gid] = svc[p].id
      BY <2>1, <2>2, IdsAssumption DEF Grows
    <2>4. task[svc[p].gid] \notin Live => task'[svc[p].gid] \notin Live
      BY <2>1, <2>2 DEF Grows
    <2> QED BY <1>1, <2>3, <2>4 DEF ServiceInv, Belongs, In, At, PastCancel
  <1> QED BY <1>2, <1>3

\* A step of the adapter: the frame of one worker, with what may go with it.
LEMMA CallMoves ==
    ASSUME Inv, NEW w \in Workers, NEW f \in Frame, call' = [call EXCEPT ![w] = f],
           DaemonKeeps, FrameInv(w)', Mine(call[w])', w \in Procs => ServiceInv(w)',
           gidToID' \in [Gids -> IdOrNone],
           \A g \in Gids : gidToID'[g] \in {NoId, gidToID[g], owner'[g]},
           EventBusTypeOK', \A e \in Pending' : e \in Pending \/ Mine(e)',
           UNCHANGED <<repoVars, svcVars, ctxDone, recVars, left>>
    PROVE  Inv'
  <1> USE DifferentWorkers
  <1>1. /\ UNCHANGED <<byID, fpIndex, issued, svc, startCancels, inHand, judged>>
        /\ Grows /\ call \in [Workers -> Frame]
    BY DEF repoVars, svcVars, recVars, DaemonKeeps, Inv, TypeOK, AdapterTypeOK
  <1>2. TypeOK'
    <2>1. call' \in [Workers -> Frame]
      BY <1>1
    <2>2. AdapterTypeOK'
      BY <2>1 DEF Inv, TypeOK, AdapterTypeOK
    <2>3. RepoTypeOK' /\ ServiceTypeOK' /\ ReconcilerTypeOK' /\ left' \in 0..MaxRequests
      BY <1>1 DEF Inv, TypeOK, RepoTypeOK, ServiceTypeOK, ReconcilerTypeOK
    <2> QED BY <2>2, <2>3 DEF TypeOK, DaemonKeeps
  <1>3. \A v \in Workers : FrameInv(v)' /\ Mine(call[v])'
    BY <1>1, FrameKept
  <1>4. \A p \in Procs : ServiceInv(p)' /\ Belongs(svc[p].gid, svc[p].id)'
    <2> SUFFICES ASSUME NEW p \in Procs
                 PROVE  ServiceInv(p)' /\ Belongs(svc[p].gid, svc[p].id)'
      OBVIOUS
    <2>1. CASE p # w
      BY <1>1, <2>1, ServiceKept
    <2>2. CASE p = w
      <3>1. svc[p] \in ServiceFrame /\ ServiceInv(p) /\ Belongs(svc[p].gid, svc[p].id)
        BY DEF Inv, TypeOK, ServiceTypeOK, GidsBelong
      <3>2. svc[p].gid \in GidOrNone /\ (svc[p].gid # NoGid => svc[p].id \in Ids)
        BY <3>1 DEF ServiceFrame, ServiceInv
      <3>3. Belongs(svc[p].gid, svc[p].id)'
        BY <1>1, <3>1, <3>2, BelongsKept DEF Belongs
      <3> QED BY <2>2, <3>3
    <2> QED BY <2>1, <2>2
  <1>5. GidsBelong'
    <2>1. \A i \in Rows' : Belongs(byID[i].gid, i)'
      <3> SUFFICES ASSUME NEW i \in Rows'
                   PROVE  Belongs(byID[i].gid, i)'
        OBVIOUS
      <3>1. i \in Ids /\ byID[i] \in Download /\ Belongs(byID[i].gid, i)
        BY <1>1 DEF Rows, Stored, Inv, TypeOK, RepoTypeOK, GidsBelong
      <3> QED BY <1>1, <3>1, BelongsKept DEF Download, Belongs
    <2>2. \A g \in Tracked' : Belongs(g, gidToID[g])'
      <3> SUFFICES ASSUME NEW g \in Gids, gidToID'[g] # NoId
                   PROVE  Belongs(g, gidToID[g])'
        BY DEF Tracked
      <3>1. CASE gidToID'[g] = owner'[g]
        BY <3>1 DEF Belongs
      <3>2. CASE gidToID'[g] = gidToID[g]
        <4>1. gidToID[g] \in Ids /\ Belongs(g, gidToID[g])
          BY <3>2 DEF Inv, TypeOK, AdapterTypeOK, IdOrNone, GidsBelong, Tracked
        <4> QED BY <1>1, <3>2, <4>1, BelongsKept DEF Belongs, GidOrNone
      <3> QED BY <3>1, <3>2
    <2>3. \A e \in Pending' : Belongs(e.gid, e.id)' /\ Belongs(e.new, e.id)'
      <3> SUFFICES ASSUME NEW e \in Pending'
                   PROVE  Mine(e)'
        BY DEF Mine
      <3>1. CASE e \in Pending
        <4>1. Mine(e)
          BY <3>1 DEF Inv, GidsBelong, Mine
        <4> QED BY <1>1, <3>1, <4>1, PendingEvents, BelongsKept DEF Mine, Inv
      <3> QED BY <3>1
    <2> QED BY <1>3, <1>4, <2>1, <2>2, <2>3 DEF GidsBelong, Mine
  <1>6. StartInv' /\ JudgeInv'
    BY <1>1
    DEF Inv, StartInv, JudgeInv, CancellableStarts, In, StartMeetsNoComplete, Stored, row
  <1> QED BY <1>2, <1>3, <1>4, <1>5, <1>6 DEF Inv, DaemonKeeps
-----------------------------------------------------------------------------
\* The frame f that a call of w goes on with.
Continues(w, f) ==
    /\ f \in Frame /\ f.pc # "idle" /\ f.id = call[w].id /\ f.op = call[w].op
    /\ f.pc \in WithGid => f.gid \in Gids
    /\ f.pc \in {"swap", "repGid"} => f.new \in Gids
    /\ f.gid # NoGid => owner'[f.gid] = f.id
    /\ f.new # NoGid => owner'[f.new] = f.id
    /\ w \in Procs /\ In(w, "deleting") =>
         /\ f.gid = call[w].gid /\ f.pc \in DeletePcs
         /\ f.gid # NoGid /\ PastCancel(f) => task'[f.gid] \notin Live

Goes(w, f) ==
    /\ call[w].pc # "idle"
    /\ call' = [call EXCEPT ![w] = f]
    /\ Continues(w, f) \/ (w \in Loops /\ f = NoCall)

LEMMA NextFrame ==
    ASSUME Inv, Grows, NEW w \in Workers, NEW f, Goes(w, f), UNCHANGED svc
    PROVE  /\ f \in Frame /\ FrameInv(w)' /\ Mine(call[w])'
           /\ w \in Procs => ServiceInv(w)'
  <1>1. /\ call[w] \in Frame /\ FrameInv(w) /\ call[w].pc # "idle" /\ call'[w] = f
        /\ w \in Loops => w \notin Procs
    BY WorkersAssumption DEF Inv, TypeOK, AdapterTypeOK, Goes
  <1>2. CASE w \in Loops /\ f = NoCall
    <2>1. f \in Frame
      BY <1>2 DEF NoCall, Frame, IdOrNone, GidOrNone
    <2> QED BY <1>1, <1>2, <2>1 DEF FrameInv, NoCall, Mine, Belongs, WithGid
  <1>3. CASE Continues(w, f)
    <2>1. FrameInv(w)' /\ Mine(call[w])'
      BY <1>1, <1>3 DEF FrameInv, Continues, Mine, Belongs
    <2>2. ASSUME w \in Procs
          PROVE  ServiceInv(w)'
      <3>1. ServiceInv(w)
        BY <2>2 DEF Inv
      <3> QED BY <1>1, <1>3, <2>2, <3>1 DEF ServiceInv, Continues, In, At
    <2> QED BY <1>3, <2>1, <2>2 DEF Continues
  <1> QED BY <1>2, <1>3 DEF Goes

\* What no step of the adapter writes.
others == <<repoVars, svcVars, recVars, left>>

\* A step with an RPC, or with nothing but its frame.
LEMMA RpcStep ==
    ASSUME Inv, NEW w \in Workers, NEW f, Goes(w, f), DaemonKeeps,
           UNCHANGED <<gidToID, ctxDone, events>>, UNCHANGED others
    PROVE  Inv'
  <1>1. /\ f \in Frame /\ FrameInv(w)' /\ Mine(call[w])'
        /\ w \in Procs => ServiceInv(w)'
    BY NextFrame DEF DaemonKeeps, others, svcVars
  <1>2. UNCHANGED <<repoVars, svcVars, ctxDone, recVars, left>>
    BY DEF others
  <1>3. gidToID' \in [Gids -> IdOrNone] /\ EventBusTypeOK'
    BY DEF Inv, TypeOK, AdapterTypeOK, EventBusTypeOK
  <1>4. Pending' = Pending
    BY DEF Pending, others, recVars
  <1> QED BY <1>1, <1>2, <1>3, <1>4, CallMoves DEF Goes

\* A critical section of a.mu.
LEMMA MapStep ==
    ASSUME Inv, NEW w \in Workers, NEW f, Goes(w, f), gidToID' \in [Gids -> IdOrNone],
           \A g \in Gids : gidToID'[g] \in {NoId, gidToID[g], owner[g]},
           UNCHANGED <<daemonVars, ctxDone, events>>, UNCHANGED others
    PROVE  Inv'
  <1>1. DaemonKeeps
    BY DaemonIdle DEF Inv, TypeOK, daemonVars, DaemonTypeOK
  <1>2. /\ f \in Frame /\ FrameInv(w)' /\ Mine(call[w])'
        /\ w \in Procs => ServiceInv(w)'
    BY <1>1, NextFrame DEF DaemonKeeps, others, svcVars
  <1>3. UNCHANGED <<repoVars, svcVars, ctxDone, recVars, left>>
    BY DEF others
  <1>4. EventBusTypeOK' /\ owner' = owner
    BY DEF Inv, TypeOK, EventBusTypeOK, daemonVars
  <1>5. Pending' = Pending
    BY DEF Pending, others, recVars
  <1> QED BY <1>1, <1>2, <1>3, <1>4, <1>5, CallMoves DEF Goes

\* A send on the events channel adds just its event to those on the way.
LEMMA ReportAdds ==
    ASSUME TypeOK, NEW e \in Event, Report(e), UNCHANGED inHand
    PROVE  EventBusTypeOK' /\ \A x \in Pending' : x \in Pending \/ x = e
  <1> DEFINE n == Len(events)
  <1>1. events \in Seq(Event) /\ n < Cap /\ events' = Append(events, e)
    BY DEF TypeOK, EventBusTypeOK, Report
  <1> HIDE DEF Event
  <1>2. /\ events' \in Seq(Event) /\ Len(events') = n + 1
        /\ \A i \in 1..n : events'[i] = events[i]
        /\ events'[n + 1] = e
    BY <1>1, AppendProperties
  <1>3. DOMAIN events = 1..n /\ DOMAIN events' = 1..(n + 1) /\ n \in Nat
    BY <1>1, <1>2
  <1>4. EventBusTypeOK'
    BY <1>1, <1>2, <1>3, CapAssumption DEF EventBusTypeOK
  <1>5. \A i \in DOMAIN events' : events'[i] = e \/ (i \in DOMAIN events /\ events'[i] = events[i])
    BY <1>2, <1>3
  <1> QED BY <1>4, <1>5 DEF Pending

LEMMA SendStep ==
    ASSUME Inv, NEW w \in Workers, NEW f, Goes(w, f), NEW e \in Event, Mine(e),
           Report(e) \/ UNCHANGED events,
           UNCHANGED <<daemonVars, gidToID, ctxDone>>, UNCHANGED others
    PROVE  Inv'
  <1>1. DaemonKeeps
    BY DaemonIdle DEF Inv, TypeOK, daemonVars, DaemonTypeOK
  <1>2. /\ f \in Frame /\ FrameInv(w)' /\ Mine(call[w])'
        /\ w \in Procs => ServiceInv(w)'
    BY <1>1, NextFrame DEF DaemonKeeps, others, svcVars
  <1>3. UNCHANGED <<repoVars, svcVars, ctxDone, recVars, left>>
    BY DEF others
  <1>4. gidToID' \in [Gids -> IdOrNone] /\ owner' = owner
    BY DEF Inv, TypeOK, AdapterTypeOK, daemonVars
  <1>5. EventBusTypeOK' /\ \A x \in Pending' : x \in Pending \/ Mine(x)'
    <2>1. Mine(e)'
      BY <1>4 DEF Mine, Belongs
    <2>2. CASE UNCHANGED events
      BY <2>2 DEF Inv, TypeOK, EventBusTypeOK, Pending, others, recVars
    <2>3. CASE Report(e)
      BY <2>1, <2>3, ReportAdds DEF Inv, others, recVars
    <2> QED BY <2>2, <2>3
  <1> QED BY <1>1, <1>2, <1>3, <1>4, <1>5, CallMoves DEF Goes
-----------------------------------------------------------------------------
\* What is known of a frame at work.
LEMMA AtWork ==
    ASSUME Inv, NEW w \in Workers, call[w].pc # "idle"
    PROVE  /\ call \in [Workers -> Frame] /\ call[w] \in Frame
           /\ FrameInv(w) /\ Mine(call[w]) /\ call[w].id \in Ids
           /\ call[w].gid \in GidOrNone /\ call[w].new \in GidOrNone
           /\ w \in Procs => ServiceInv(w)
  <1>1. call \in [Workers -> Frame] /\ call[w] \in Frame
    BY DEF Inv, TypeOK, AdapterTypeOK
  <1> QED BY <1>1 DEF Inv, FrameInv, GidsBelong, Mine, Frame

\* A frame that goes on with the same gids.
LEMMA SameGids ==
    ASSUME Inv, NEW w \in Workers, call[w].pc # "idle", Grows, NEW f \in Frame,
           w \in Procs /\ In(w, "deleting") =>
              f.pc \in DeletePcs /\ (f.gid # NoGid /\ PastCancel(f) => task'[f.gid] \notin Live),
           f.pc # "idle", f.id = call[w].id, f.op = call[w].op,
           f.gid = call[w].gid, f.new = call[w].new,
           f.pc \in WithGid => f.gid \in Gids,
           f.pc \in {"swap", "repGid"} => f.new \in Gids
    PROVE  Continues(w, f)
  <1>1. f.gid # NoGid => owner'[f.gid] = f.id
    BY AtWork, BelongsKept DEF Mine, Belongs
  <1>2. f.new # NoGid => owner'[f.new] = f.id
    BY AtWork, BelongsKept DEF Mine, Belongs
  <1> QED BY <1>1, <1>2 DEF Continues

\* Only a Delete is at the counters of a Delete.
LEMMA NotDeleting ==
    ASSUME Inv, NEW p \in Procs, call[p].pc \notin DeletePcs \/ call[p].op # "Delete"
    PROVE  ~In(p, "deleting")
  BY DEF Inv, ServiceInv

\* Start.
LEMMA AddUriKeeps ==
    ASSUME Inv, NEW p \in Procs, AddUri(p), UNCHANGED others
    PROVE  Inv'
  <1> USE DifferentWorkers
  <1>1. PICK g \in Gids : /\ NewTask(g, call[p].id)
                          /\ call' = [call EXCEPT ![p].pc = "told?", ![p].gid = g]
    BY DEF AddUri, FreeGids
  <1>2. At(p, "Start") /\ call[p].pc = "Start"
    BY DEF AddUri, At
  <1> DEFINE f == [call[p] EXCEPT !.pc = "told?", !.gid = g]
  <1>3. /\ call[p] \in Frame /\ call[p].id \in Ids /\ Mine(call[p])
        /\ call[p].new \in GidOrNone
    BY <1>2, AtWork
  <1>4. DaemonKeeps /\ owner'[g] = call[p].id
    BY <1>1, <1>3, NewTaskKeeps DEF Inv, TypeOK
  <1>5. ~In(p, "deleting")
    BY <1>2, NotDeleting DEF DeletePcs
  <1>6. Goes(p, f)
    <2>1. f \in Frame /\ f.pc = "told?" /\ f.gid = g /\ f.id = call[p].id /\ f.op = call[p].op
          /\ f.new = call[p].new
      BY <1>3 DEF Frame, GidOrNone
    <2>2. f.new # NoGid => owner'[f.new] = f.id
      BY <1>3, <1>4, <2>1, BelongsKept DEF Belongs, Mine, DaemonKeeps
    <2> QED BY <1>1, <1>2, <1>4, <1>5, <2>1, <2>2 DEF Goes, Continues
  <1> HIDE DEF f
  <1> QED BY <1>4, <1>6, RpcStep DEF AddUri

\* A call that returns with an error, outside a Delete.
LEMMA ReturnKeeps ==
    ASSUME Inv, NEW p \in Procs, call[p].pc # "idle", ~In(p, "deleting"),
           NEW r \in {"ok", "error", "missing", "canceled"}, Return(p, r), DaemonKeeps,
           UNCHANGED <<gidToID, ctxDone, events>>, UNCHANGED others
    PROVE  Inv'
  <1> DEFINE f == [call[p] EXCEPT !.pc = "return", !.result = r]
  <1>1. call' = [call EXCEPT ![p] = f]
    BY DifferentWorkers DEF Return, Loops
  <1>2. Goes(p, f)
    <2>1. call[p] \in Frame
      BY AtWork, DifferentWorkers
    <2>2. /\ f \in Frame /\ f.pc = "return" /\ f.id = call[p].id /\ f.op = call[p].op
          /\ f.gid = call[p].gid /\ f.new = call[p].new
      BY <2>1 DEF Frame
    <2> HIDE DEF f
    <2>3. Continues(p, f)
      BY <2>2, SameGids, DifferentWorkers DEF WithGid, DaemonKeeps
    <2> QED BY <1>1, <2>3 DEF Goes
  <1> HIDE DEF f
  <1> QED BY <1>2, RpcStep, DifferentWorkers

LEMMA DaemonUnchanged ==
    ASSUME Inv, UNCHANGED daemonVars
    PROVE  DaemonKeeps
  BY DaemonIdle DEF Inv, TypeOK, daemonVars, DaemonTypeOK

LEMMA AddUriFails ==
    ASSUME Inv, NEW p \in Procs, AddUriRefused(p) \/ AddUriLost(p), UNCHANGED others
    PROVE  Inv'
  <1>1. /\ Return(p, "error") \/ Return(p, "canceled")
        /\ call[p].pc \in {"Start", "told?"}
        /\ UNCHANGED <<daemonVars, gidToID, ctxDone, events>>
    BY DEF AddUriRefused, AddUriLost, At
  <1> QED BY <1>1, ReturnKeeps, DaemonUnchanged, NotDeleting DEF DeletePcs

\* The gid that aria2 names next works for the same download.
LEMMA ToldBelongs ==
    ASSUME Inv, NEW g \in Gids, NEW id \in Ids, Belongs(g, id), NEW real \in Told(g)
    PROVE  real \in GidOrNone /\ Belongs(real, id)
  BY GidsAssumption DEF Told, Belongs, Inv, DaemonInv, TypeOK, DaemonTypeOK, GidOrNone

LEMMA AskFollowedByKeeps ==
    ASSUME Inv, NEW p \in Procs, AskFollowedBy(p), UNCHANGED others
    PROVE  Inv'
  <1> USE DifferentWorkers
  <1>1. call[p].pc = "told?" /\ UNCHANGED <<daemonVars, gidToID, ctxDone, events>>
    BY DEF AskFollowedBy, At
  <1>2. /\ call[p] \in Frame /\ call[p].id \in Ids /\ Mine(call[p]) /\ call[p].gid \in Gids
    BY <1>1, AtWork DEF FrameInv, WithGid
  <1>3. PICK real \in Told(call[p].gid) \cup {NoGid} :
            call' = [call EXCEPT ![p].pc = "track", ![p].gid = IF real = NoGid THEN @ ELSE real]
    BY DEF AskFollowedBy
  <1> DEFINE g == IF real = NoGid THEN call[p].gid ELSE real
             f == [call[p] EXCEPT !.pc = "track", !.gid = g]
  <1>4. g \in Gids /\ Belongs(g, call[p].id)
    BY <1>2, <1>3, ToldBelongs DEF Mine, GidOrNone
  <1>5. ~In(p, "deleting") /\ owner' = owner
    BY <1>1, NotDeleting DEF DeletePcs, daemonVars
  <1>6. call' = [call EXCEPT ![p] = f]
    BY <1>3
  <1>7. Goes(p, f)
    <2>1. f \in Frame /\ f.pc = "track" /\ f.gid = g /\ f.id = call[p].id /\ f.op = call[p].op
          /\ f.new = call[p].new
      BY <1>2, <1>4 DEF Frame, GidOrNone
    <2>2. /\ f.gid # NoGid => owner'[f.gid] = f.id
          /\ f.new # NoGid => owner'[f.new] = f.id
      BY <1>2, <1>4, <1>5, <2>1 DEF Belongs, Mine
    <2> QED BY <1>1, <1>4, <1>5, <1>6, <2>1, <2>2 DEF Goes, Continues
  <1> HIDE DEF f
  <1> QED BY <1>1, <1>7, DaemonUnchanged, RpcStep

\* A frame that only moves on to another counter, outside a Delete.
LEMMA GotoGoes ==
    ASSUME Inv, Grows, NEW w \in Workers, call[w].pc # "idle",
           w \in Procs => ~In(w, "deleting"),
           NEW pc \in WithGid, Goto(w, pc), call[w].gid \in Gids,
           pc \in {"swap", "repGid"} => call[w].new \in Gids
    PROVE  Goes(w, [call[w] EXCEPT !.pc = pc])
  <1> DEFINE f == [call[w] EXCEPT !.pc = pc]
  <1>1. call[w] \in Frame
    BY AtWork
  <1>2. /\ f \in Frame /\ f.pc = pc /\ f.id = call[w].id /\ f.op = call[w].op
        /\ f.gid = call[w].gid /\ f.new = call[w].new /\ pc # "idle"
    BY <1>1 DEF Frame, WithGid, Calls
  <1>3. call' = [call EXCEPT ![w] = f]
    BY DEF Goto
  <1> HIDE DEF f
  <1>4. Continues(w, f)
    BY <1>2, SameGids
  <1>5. Goes(w, f)
    BY <1>3, <1>4 DEF Goes
  <1> QED BY <1>5 DEF f

LEMMA TrackKeeps ==
    ASSUME Inv, NEW p \in Procs, Track(p), UNCHANGED others
    PROVE  Inv'
  <1> USE DifferentWorkers
  <1>1. /\ call[p].pc = "track" /\ Goto(p, "repStart")
        /\ gidToID' = [gidToID EXCEPT ![call[p].gid] = call[p].id]
        /\ UNCHANGED <<daemonVars, ctxDone, events>>
    BY DEF Track, At
  <1>2. call[p].gid \in Gids /\ call[p].id \in Ids /\ owner[call[p].gid] = call[p].id
    BY <1>1, AtWork, GidsAssumption DEF FrameInv, WithGid, Mine, Belongs
  <1>3. Grows
    BY <1>1, DaemonUnchanged DEF DaemonKeeps
  <1>4. Goes(p, [call[p] EXCEPT !.pc = "repStart"])
    BY <1>1, <1>2, <1>3, GotoGoes, NotDeleting DEF DeletePcs, WithGid
  <1>5. /\ gidToID' \in [Gids -> IdOrNone]
        /\ \A g \in Gids : gidToID'[g] \in {NoId, gidToID[g], owner[g]}
    BY <1>1, <1>2 DEF Inv, TypeOK, AdapterTypeOK, IdOrNone
  <1> QED BY <1>1, <1>4, <1>5, MapStep

\* An event with the ids of the frame that sends it.
LEMMA EventIsMine ==
    ASSUME Inv, NEW w \in Workers, call[w].pc # "idle", call[w].gid \in Gids,
           NEW type \in EventTypes, NEW new \in {NoGid, call[w].new}
    PROVE  LET e == [type |-> type, id |-> call[w].id, gid |-> call[w].gid, new |-> new]
           IN  e \in Event /\ Mine(e)
  BY AtWork DEF Event, Mine, Belongs, GidOrNone

\* A step that reports an event, or none, and goes on or returns.
LEMMA ReportStep ==
    ASSUME Inv, NEW w \in Workers, call[w].gid \in Gids,
           NEW type \in EventTypes, NEW new \in {NoGid, call[w].new},
           Send(w, type, new) \/ UNCHANGED events, NEW f, Goes(w, f),
           UNCHANGED <<daemonVars, gidToID, ctxDone>>, UNCHANGED others
    PROVE  Inv'
  <1> DEFINE e == [type |-> type, id |-> call[w].id, gid |-> call[w].gid, new |-> new]
  <1>1. e \in Event /\ Mine(e)
    BY EventIsMine DEF Goes
  <1>2. Report(e) \/ UNCHANGED events
    BY DEF Send
  <1> HIDE DEF e
  <1> QED BY <1>1, <1>2, SendStep

LEMMA ReportStartKeeps ==
    ASSUME Inv, NEW p \in Procs, ReportStart(p), UNCHANGED others
    PROVE  Inv'
  <1> USE DifferentWorkers
  <1>1. /\ call[p].pc = "repStart" /\ Goto(p, "repMeta") /\ Send(p, "Start", NoGid)
        /\ UNCHANGED <<daemonVars, gidToID, ctxDone>>
    BY DEF ReportStart, At
  <1>2. call[p].gid \in Gids
    BY <1>1, AtWork DEF FrameInv, WithGid
  <1>3. Goes(p, [call[p] EXCEPT !.pc = "repMeta"])
    BY <1>1, <1>2, GotoGoes, NotDeleting, DaemonUnchanged DEF DeletePcs, WithGid, DaemonKeeps
  <1> QED BY <1>1, <1>2, <1>3, ReportStep DEF EventTypes

\* The frame of a call that returns.
LEMMA ReturnGoes ==
    ASSUME Inv, Grows, NEW w \in Workers, call[w].pc # "idle",
           w \in Procs => ~In(w, "deleting"),
           NEW r \in {"ok", "error", "missing", "canceled"}, Return(w, r)
    PROVE  \E f \in Frame : Goes(w, f)
  <1>1. CASE w \in Loops
    <2>1. NoCall \in Frame
      BY DEF NoCall, Frame, IdOrNone, GidOrNone
    <2> QED BY <1>1, <2>1 DEF Return, Goes
  <1>2. CASE w \notin Loops
    <2> DEFINE f == [call[w] EXCEPT !.pc = "return", !.result = r]
    <2>1. call' = [call EXCEPT ![w] = f]
      BY <1>2 DEF Return
    <2>2. call[w] \in Frame
      BY AtWork
    <2>3. /\ f \in Frame /\ f.pc = "return" /\ f.id = call[w].id /\ f.op = call[w].op
          /\ f.gid = call[w].gid /\ f.new = call[w].new
      BY <2>2 DEF Frame
    <2> HIDE DEF f
    <2>4. Continues(w, f)
      BY <2>3, SameGids DEF WithGid
    <2> QED BY <2>1, <2>3, <2>4 DEF Goes
  <1> QED BY <1>1, <1>2

LEMMA ReportMetaKeeps ==
    ASSUME Inv, NEW w \in Workers, ReportMeta(w), UNCHANGED others
    PROVE  Inv'
  <1>1. /\ call[w].pc = "repMeta" /\ Return(w, "ok")
        /\ Send(w, "Meta", NoGid) \/ UNCHANGED events
        /\ UNCHANGED <<daemonVars, gidToID, ctxDone>>
    BY DEF ReportMeta, At
  <1>2. call[w].gid \in Gids
    BY <1>1, AtWork DEF FrameInv, WithGid
  <1>3. PICK f \in Frame : Goes(w, f)
    BY <1>1, ReturnGoes, NotDeleting, DaemonUnchanged DEF DeletePcs, DaemonKeeps
  <1> QED BY <1>1, <1>2, <1>3, ReportStep DEF EventTypes

\* Pause and Resume.
LEMMA PauseKeeps ==
    ASSUME Inv, NEW p \in Procs, Pause(p) \/ Unpause(p), UNCHANGED others
    PROVE  Inv'
  <1> USE DifferentWorkers
  <1>1. ASSUME call[p].pc \in {"Pause", "Resume"}, UNCHANGED <<gidToID, ctxDone, events>>,
               NEW from \in SUBSET Live, NEW to \in Live \cup Ended, NEW m \in Methods,
               NEW answer, Command(call[p].gid, from, to, m, answer),
               NEW pc \in {"repPaused", "look"}, Goto(p, pc) \/ Return(p, "error")
        PROVE  Inv'
    <2>1. call[p].gid \in Gids /\ ~In(p, "deleting") /\ call[p].pc # "idle"
      BY <1>1, AtWork, NotDeleting DEF FrameInv, WithGid, DeletePcs
    <2>2. DaemonKeeps
      BY <1>1, <2>1, CommandKeeps DEF Inv, TypeOK
    <2>3. CASE Return(p, "error")
      BY <1>1, <2>1, <2>2, <2>3, ReturnKeeps
    <2>4. CASE Goto(p, pc)
      <3>1. Goes(p, [call[p] EXCEPT !.pc = pc])
        BY <1>1, <2>1, <2>2, <2>4, GotoGoes DEF WithGid, DaemonKeeps
      <3> QED BY <1>1, <2>2, <3>1, RpcStep
    <2> QED BY <1>1, <2>3, <2>4
  <1>2. CASE Pause(p)
    <2>1. PICK answer \in {"ok", "missing", "error"} :
            /\ Command(call[p].gid, {"active"}, "paused", "onDownloadPause", answer)
            /\ Goto(p, "repPaused") \/ Return(p, "error")
      BY <1>2 DEF Pause
    <2> QED BY <1>1, <1>2, <2>1 DEF Pause, At, Live, Methods
  <1>3. CASE Unpause(p)
    <2>1. PICK answer \in {"ok", "missing", "error"} :
            /\ Command(call[p].gid, {"paused"}, "active", "onDownloadStart", answer)
            /\ Goto(p, "look") \/ Return(p, "error")
      BY <1>3 DEF Unpause
    <2> QED BY <1>1, <1>3, <2>1 DEF Unpause, At, Live, Methods
  <1> QED BY <1>2, <1>3

LEMMA ReportPausedKeeps ==
    ASSUME Inv, NEW w \in Workers, ReportPaused(w), UNCHANGED others
    PROVE  Inv'
  <1>1. /\ call[w].pc = "repPaused" /\ Send(w, "Paused", NoGid)
        /\ Goto(w, "repProgress") \/ Return(w, "ok")
        /\ UNCHANGED <<daemonVars, gidToID, ctxDone>>
    BY DEF ReportPaused, At
  <1>2. call[w].gid \in Gids
    BY <1>1, AtWork DEF FrameInv, WithGid
  <1>3. \E f : Goes(w, f)
    BY <1>1, <1>2, ReturnGoes, GotoGoes, NotDeleting, DaemonUnchanged
    DEF DeletePcs, WithGid, DaemonKeeps
  <1> QED BY <1>1, <1>2, <1>3, ReportStep DEF EventTypes

\* tellStatus: the frame goes on with the gid it is told, if any.
LEMMA LookKeeps ==
    ASSUME Inv, NEW w \in Workers, Look(w), UNCHANGED others
    PROVE  Inv'
  <1>1. call[w].pc = "look" /\ UNCHANGED <<daemonVars, gidToID, ctxDone, events>>
    BY DEF Look, At
  <1>2. /\ call[w] \in Frame /\ call[w].id \in Ids /\ Mine(call[w]) /\ call[w].gid \in Gids
        /\ w \in Procs => ~In(w, "deleting")
    BY <1>1, AtWork, NotDeleting DEF FrameInv, WithGid, DeletePcs
  <1>3. PICK real \in Told(call[w].gid), pc \in {"swap", "repEnd", "repMeta"} :
          /\ call' = [call EXCEPT ![w].new = real, ![w].pc = pc]
          /\ pc = "swap" => real # NoGid
    BY DEF Look
  <1>4. real \in GidOrNone /\ Belongs(real, call[w].id)
    BY <1>2, <1>3, ToldBelongs DEF Mine
  <1> DEFINE f == [call[w] EXCEPT !.new = real, !.pc = pc]
  <1>5. /\ f \in Frame /\ f.pc = pc /\ f.id = call[w].id /\ f.op = call[w].op
        /\ f.gid = call[w].gid /\ f.new = real
    BY <1>2, <1>3, <1>4 DEF Frame
  <1>6. owner' = owner /\ call' = [call EXCEPT ![w] = f]
    BY <1>1, <1>3 DEF daemonVars
  <1> HIDE DEF f
  <1>7. Continues(w, f)
    BY <1>2, <1>3, <1>4, <1>5, <1>6 DEF Continues, Mine, Belongs, GidOrNone
  <1>8. Goes(w, f)
    BY <1>1, <1>6, <1>7 DEF Goes
  <1> QED BY <1>1, <1>8, DaemonUnchanged, RpcStep

LEMMA SwapKeeps ==
    ASSUME Inv, NEW w \in Workers, Swap(w), UNCHANGED others
    PROVE  Inv'
  <1>1. /\ call[w].pc = "swap" /\ Goto(w, "repGid")
        /\ gidToID' = [gidToID EXCEPT ![call[w].gid] = NoId, ![call[w].new] = call[w].id]
        /\ UNCHANGED <<daemonVars, ctxDone, events>>
    BY DEF Swap, At
  <1>2. /\ call[w].gid \in Gids /\ call[w].new \in Gids /\ call[w].id \in Ids
        /\ owner[call[w].new] = call[w].id
    BY <1>1, AtWork, GidsAssumption DEF FrameInv, WithGid, Mine, Belongs
  <1>3. Grows
    BY <1>1, DaemonUnchanged DEF DaemonKeeps
  <1>4. Goes(w, [call[w] EXCEPT !.pc = "repGid"])
    BY <1>1, <1>2, <1>3, GotoGoes, NotDeleting DEF DeletePcs, WithGid
  <1>5. /\ gidToID' \in [Gids -> IdOrNone]
        /\ \A g \in Gids : gidToID'[g] \in {NoId, gidToID[g], owner[g]}
    BY <1>1, <1>2 DEF Inv, TypeOK, AdapterTypeOK, IdOrNone
  <1> QED BY <1>1, <1>4, <1>5, MapStep

LEMMA ReportGidKeeps ==
    ASSUME Inv, NEW w \in Workers, ReportGid(w), UNCHANGED others
    PROVE  Inv'
  <1>1. /\ call[w].pc = "repGid" /\ Send(w, "GIDUpdate", call[w].new)
        /\ call' = [call EXCEPT ![w].pc = "repMeta", ![w].gid = call[w].new, ![w].new = NoGid]
        /\ UNCHANGED <<daemonVars, gidToID, ctxDone>>
    BY DEF ReportGid, At
  <1>2. /\ call[w] \in Frame /\ call[w].gid \in Gids /\ call[w].new \in Gids /\ Mine(call[w])
        /\ w \in Procs => ~In(w, "deleting")
    BY <1>1, AtWork, NotDeleting DEF FrameInv, WithGid, DeletePcs
  <1> DEFINE f == [call[w] EXCEPT !.pc = "repMeta", !.gid = call[w].new, !.new = NoGid]
  <1>3. /\ f \in Frame /\ f.pc = "repMeta" /\ f.id = call[w].id /\ f.op = call[w].op
        /\ f.gid = call[w].new /\ f.new = NoGid
    BY <1>2 DEF Frame, GidOrNone
  <1>4. owner' = owner /\ call' = [call EXCEPT ![w] = f]
    BY <1>1 DEF daemonVars
  <1> HIDE DEF f
  <1>5. Continues(w, f)
    BY <1>2, <1>3, <1>4 DEF Continues, Mine, Belongs
  <1>6. Goes(w, f)
    BY <1>1, <1>4, <1>5 DEF Goes
  <1> QED BY <1>1, <1>2, <1>6, ReportStep DEF EventTypes

\* A Delete that is past its Cancel stays so.
LEMMA StaysOver ==
    ASSUME Inv, Grows, NEW p \in Procs, In(p, "deleting"), call[p].gid # NoGid,
           PastCancel(call[p])
    PROVE  task'[call[p].gid] \notin Live
  <1>1. /\ call[p].gid = svc[p].gid /\ task[call[p].gid] \notin Live
        /\ call[p].pc # "idle"
    BY DEF Inv, ServiceInv, In
  <1>2. /\ call[p].gid \in Gids /\ owner[call[p].gid] = call[p].id /\ call[p].id \in Ids
    BY <1>1, AtWork, DifferentWorkers DEF GidOrNone, Mine, Belongs
  <1>3. task[call[p].gid] # "none"
    BY <1>2, IdsAssumption DEF Inv, DaemonInv
  <1> QED BY <1>1, <1>2, <1>3 DEF Grows

\* Cancel, and the Cancel of a Delete.
LEMMA RemoveKeeps ==
    ASSUME Inv, NEW p \in Procs, Remove(p), UNCHANGED others
    PROVE  Inv'
  <1> USE DifferentWorkers
  <1>1. /\ call[p].pc = "Cancel" \/ (call[p].pc = "Delete" /\ call[p].gid # NoGid)
        /\ UNCHANGED <<gidToID, ctxDone, events>>
    BY DEF Remove, At
  <1>2. PICK answer \in {"ok", "missing", "error"} :
          /\ Command(call[p].gid, Live, "removed", "onDownloadStop", answer)
          /\ IF answer = "error" THEN Return(p, "error")
             ELSE call' = [call EXCEPT ![p].pc = IF answer = "ok" THEN "repEnd" ELSE "untrack",
                                       ![p].result = answer]
    BY DEF Remove
  <1>3. call[p] \in Frame /\ call[p].gid \in Gids
    BY <1>1, AtWork DEF FrameInv, WithGid, GidOrNone
  <1>4. DaemonKeeps /\ (answer # "error" => task'[call[p].gid] \notin Live)
    BY <1>2, <1>3, CommandKeeps DEF Inv, TypeOK, Live, Ended, Methods
  <1> DEFINE pc == IF answer = "error" THEN "return"
                   ELSE IF answer = "ok" THEN "repEnd" ELSE "untrack"
             f  == [call[p] EXCEPT !.pc = pc, !.result = answer]
  <1>5. call' = [call EXCEPT ![p] = f]
    BY <1>2 DEF Return, Loops
  <1>6. /\ f \in Frame /\ f.pc = pc /\ f.id = call[p].id /\ f.op = call[p].op
        /\ f.gid = call[p].gid /\ f.new = call[p].new /\ f.result = answer
    BY <1>3 DEF Frame
  <1> HIDE DEF f
  <1>7. Continues(p, f)
    BY <1>1, <1>3, <1>4, <1>6, SameGids DEF DeletePcs, PastCancel, DaemonKeeps, WithGid
  <1>8. Goes(p, f)
    BY <1>1, <1>5, <1>7 DEF Goes
  <1> QED BY <1>1, <1>4, <1>8, RpcStep

LEMMA ReportEndKeeps ==
    ASSUME Inv, NEW w \in Workers, ReportEnd(w), UNCHANGED others
    PROVE  Inv'
  <1>1. /\ call[w].pc = "repEnd" /\ Goto(w, "untrack")
        /\ Send(w, IF w = Loop THEN call[w].op ELSE "Cancelled", NoGid)
        /\ UNCHANGED <<daemonVars, gidToID, ctxDone>>
    BY DEF ReportEnd, At
  <1>2. /\ call[w] \in Frame /\ call[w].gid \in Gids
        /\ w = Loop => call[w].op \in EventTypes
    BY <1>1, AtWork DEF FrameInv, WithGid, Loops
  <1>3. Grows
    BY <1>1, DaemonUnchanged DEF DaemonKeeps
  <1> DEFINE f == [call[w] EXCEPT !.pc = "untrack"]
             type == IF w = Loop THEN call[w].op ELSE "Cancelled"
  <1>4. /\ f \in Frame /\ f.pc = "untrack" /\ f.id = call[w].id /\ f.op = call[w].op
        /\ f.gid = call[w].gid /\ f.new = call[w].new
    BY <1>2 DEF Frame
  <1>5. call' = [call EXCEPT ![w] = f]
    BY <1>1 DEF Goto
  <1>6. type \in EventTypes
    BY <1>2 DEF EventTypes, TerminalTypes
  <1> HIDE DEF f
  <1>7. w \in Procs /\ In(w, "deleting") => task'[f.gid] \notin Live
    BY <1>1, <1>2, <1>3, <1>4, StaysOver, GidsAssumption DEF PastCancel
  <1>8. Continues(w, f)
    BY <1>1, <1>2, <1>3, <1>4, <1>7, SameGids DEF DeletePcs, WithGid
  <1>9. Goes(w, f)
    BY <1>1, <1>5, <1>8 DEF Goes
  <1> HIDE DEF type
  <1>10. Send(w, type, NoGid)
    BY <1>1 DEF type
  <1> QED BY <1>1, <1>2, <1>6, <1>9, <1>10, ReportStep

LEMMA UntrackKeeps ==
    ASSUME Inv, NEW w \in Workers, Untrack(w), UNCHANGED others
    PROVE  Inv'
  <1>1. /\ call[w].pc = "untrack"
        /\ gidToID' = [gidToID EXCEPT ![call[w].gid] = NoId]
        /\ IF call[w].op = "Delete" THEN Goto(w, "purge") ELSE Return(w, call[w].result)
        /\ UNCHANGED <<daemonVars, ctxDone, events>>
    BY DEF Untrack, At
  <1>2. call[w] \in Frame /\ call[w].gid \in Gids
    BY <1>1, AtWork DEF FrameInv, WithGid
  <1>3. Grows
    BY <1>1, DaemonUnchanged DEF DaemonKeeps
  <1>4. \E f : Goes(w, f)
    <2>1. CASE call[w].op = "Delete"
      <3> DEFINE f == [call[w] EXCEPT !.pc = "purge"]
      <3>1. /\ f \in Frame /\ f.pc = "purge" /\ f.id = call[w].id /\ f.op = call[w].op
            /\ f.gid = call[w].gid /\ f.new = call[w].new
        BY <1>2 DEF Frame
      <3>2. call' = [call EXCEPT ![w] = f]
        BY <1>1, <2>1 DEF Goto
      <3> HIDE DEF f
      <3>3. w \in Procs /\ In(w, "deleting") => task'[f.gid] \notin Live
        BY <1>1, <1>2, <1>3, <3>1, StaysOver, GidsAssumption DEF PastCancel
      <3>4. Continues(w, f)
        BY <1>1, <1>3, <3>1, <3>3, SameGids DEF DeletePcs, WithGid
      <3> QED BY <1>1, <3>2, <3>4 DEF Goes
    <2>2. CASE call[w].op # "Delete"
      <3>1. w \in Procs => ~In(w, "deleting")
        BY <2>2, NotDeleting
      <3>2. call[w].result \in {"ok", "error", "missing", "canceled"}
        BY <1>2 DEF Frame
      <3> QED BY <1>1, <1>3, <2>2, <3>1, <3>2, ReturnGoes
    <2> QED BY <2>1, <2>2
  <1>5. /\ gidToID' \in [Gids -> IdOrNone]
        /\ \A g \in Gids : gidToID'[g] \in {NoId, gidToID[g], owner[g]}
    BY <1>1, <1>2 DEF Inv, TypeOK, AdapterTypeOK, IdOrNone
  <1> QED BY <1>1, <1>4, <1>5, MapStep

LEMMA PurgeResultKeeps ==
    ASSUME Inv, NEW p \in Procs, PurgeResult(p), UNCHANGED others
    PROVE  Inv'
  <1> USE DifferentWorkers
  <1>1. /\ call[p].pc = "purge" \/ (call[p].pc = "Delete" /\ call[p].gid = NoGid)
        /\ UNCHANGED daemonVars \/ (call[p].gid # NoGid /\ Purge(call[p].gid))
        /\ UNCHANGED <<gidToID, ctxDone, events>>
    BY DEF PurgeResult, At
  <1>2. PICK r \in {"ok", "error"} : Return(p, r)
    BY DEF PurgeResult
  <1>3. call[p] \in Frame /\ call[p].gid \in GidOrNone
    BY <1>1, AtWork
  <1>4. DaemonKeeps
    BY <1>1, <1>3, DaemonUnchanged, PurgeKeeps DEF Inv, TypeOK, GidOrNone
  <1> DEFINE f == [call[p] EXCEPT !.pc = "return", !.result = r]
  <1>5. call' = [call EXCEPT ![p] = f]
    BY <1>2 DEF Return, Loops
  <1>6. /\ f \in Frame /\ f.pc = "return" /\ f.id = call[p].id /\ f.op = call[p].op
        /\ f.gid = call[p].gid /\ f.new = call[p].new
    BY <1>3 DEF Frame
  <1> HIDE DEF f
  <1>7. In(p, "deleting") /\ f.gid # NoGid => task'[f.gid] \notin Live
    BY <1>1, <1>4, <1>6, StaysOver DEF PastCancel, DaemonKeeps
  <1>8. Continues(p, f)
    BY <1>1, <1>4, <1>6, <1>7, SameGids DEF DeletePcs, WithGid, DaemonKeeps
  <1>9. Goes(p, f)
    BY <1>1, <1>5, <1>8 DEF Goes
  <1> QED BY <1>1, <1>4, <1>9, RpcStep
-----------------------------------------------------------------------------
\* A step that leaves all frames as they are.
LEMMA FramesKept ==
    ASSUME Inv, DaemonKeeps, UNCHANGED <<call, gidToID, ctxDone, events>>, UNCHANGED others
    PROVE  Inv'
  <1>1. /\ Loop \in Workers /\ Loop \notin Procs /\ call[Loop] \in Frame
        /\ call' = [call EXCEPT ![Loop] = call[Loop]]
    BY DifferentWorkers DEF Inv, TypeOK, AdapterTypeOK
  <1>2. FrameInv(Loop)' /\ Mine(call[Loop])'
    BY <1>1, FrameKept DEF DaemonKeeps
  <1>3. UNCHANGED <<repoVars, svcVars, ctxDone, recVars, left>> /\ Pending' = Pending
    BY DEF others, recVars, Pending
  <1>4. gidToID' \in [Gids -> IdOrNone] /\ EventBusTypeOK'
    BY DEF Inv, TypeOK, AdapterTypeOK, EventBusTypeOK
  <1> QED BY <1>1, <1>2, <1>3, <1>4, CallMoves

LEMMA DaemonActs ==
    ASSUME Inv, Daemon
    PROVE  Inv'
  <1>1. DaemonKeeps
    BY DaemonStepKeeps DEF Daemon, Inv, TypeOK
  <1> QED BY <1>1, FramesKept DEF Daemon, others, adapterVars

\* A loop takes up a gid that is tracked.
LEMMA LoopBegins ==
    ASSUME Inv, NEW w \in Loops, DaemonKeeps, NEW g \in Gids, gidToID[g] # NoId,
           NEW pc \in WithGid \ {"swap", "repGid"}, NEW op \in EventTypes,
           call' = [call EXCEPT ![w] = [NoCall EXCEPT !.pc = pc, !.op = op,
                                                      !.id = gidToID[g], !.gid = g]],
           UNCHANGED <<gidToID, ctxDone, events>>, UNCHANGED others
    PROVE  Inv'
  <1> DEFINE f == [NoCall EXCEPT !.pc = pc, !.op = op, !.id = gidToID[g], !.gid = g]
  <1>1. gidToID[g] \in Ids /\ owner[g] = gidToID[g]
    BY GidsAssumption DEF Inv, TypeOK, AdapterTypeOK, IdOrNone, GidsBelong, Tracked, Belongs
  <1>2. owner'[g] = gidToID[g]
    BY <1>1, IdsAssumption DEF DaemonKeeps, Grows
  <1>3. /\ f \in Frame /\ f.pc = pc /\ f.op = op /\ f.id = gidToID[g] /\ f.gid = g
        /\ f.new = NoGid
    BY <1>1 DEF NoCall, Frame, WithGid, Calls, IdOrNone, GidOrNone
  <1>4. w \in Workers /\ w \notin Procs
    BY DifferentWorkers DEF Loops
  <1> HIDE DEF f
  <1>5. call'[w] = f
    BY <1>4 DEF f, Inv, TypeOK, AdapterTypeOK
  <1>6. FrameInv(w)' /\ Mine(call[w])'
    <2>1. f.pc # "idle" /\ f.pc \notin {"swap", "repGid"}
      BY <1>3 DEF WithGid
    <2>2. FrameInv(w)'
      BY <1>1, <1>3, <1>5, <2>1 DEF FrameInv
    <2>3. Mine(call[w])'
      BY <1>2, <1>3, <1>5 DEF Mine, Belongs
    <2> QED BY <2>2, <2>3
  <1>7. UNCHANGED <<repoVars, svcVars, ctxDone, recVars, left>> /\ Pending' = Pending
    BY DEF others, recVars, Pending
  <1>8. gidToID' \in [Gids -> IdOrNone] /\ EventBusTypeOK'
    BY DEF Inv, TypeOK, AdapterTypeOK, EventBusTypeOK
  <1>9. call' = [call EXCEPT ![w] = f]
    BY DEF f
  <1> QED BY <1>3, <1>4, <1>6, <1>7, <1>8, <1>9, CallMoves

LEMMA TakeNoteKeeps ==
    ASSUME Inv, TakeNote, UNCHANGED others
    PROVE  Inv'
  <1> DEFINE n == Head(notes)
  <1>1. n \in [method: Methods, gid: Gids] /\ notes' \in Seq([method: Methods, gid: Gids])
    <2>1. notes \in Seq([method: Methods, gid: Gids]) /\ notes # <<>> /\ notes' = Tail(notes)
      BY DEF TakeNote, Inv, TypeOK, DaemonTypeOK
    <2> QED BY <2>1, HeadTailProperties
  <1>2. UNCHANGED <<task, owner, followedBy, online, gidToID, ctxDone, events>>
    BY DEF TakeNote
  <1>3. DaemonKeeps
    BY <1>1, <1>2, DaemonIdle DEF Inv, TypeOK
  <1>4. CASE gidToID[n.gid] = NoId
    BY <1>2, <1>3, <1>4, FramesKept DEF TakeNote
  <1>5. CASE gidToID[n.gid] # NoId
    <2>1. /\ Reaction[n.method].pc \in WithGid \ {"swap", "repGid"}
          /\ Reaction[n.method].op \in EventTypes
      BY <1>1 DEF Reaction, Methods, WithGid, EventTypes, TerminalTypes
    <2>2. call' = [call EXCEPT ![Loop] = [NoCall EXCEPT !.pc = Reaction[n.method].pc,
                                                        !.op = Reaction[n.method].op,
                                                        !.id = gidToID[n.gid], !.gid = n.gid]]
      BY <1>5 DEF TakeNote
    <2>3. n.gid \in Gids /\ Loop \in Loops
      BY <1>1 DEF Loops
    <2> HIDE DEF n
    <2> QED BY <1>2, <1>3, <1>5, <2>1, <2>2, <2>3, LoopBegins
  <1> QED BY <1>4, <1>5

LEMMA PollTaskKeeps ==
    ASSUME Inv, PollTask, UNCHANGED others
    PROVE  Inv'
  <1>1. PICK g \in Tracked :
          call' = [call EXCEPT ![Poll] = [NoCall EXCEPT !.pc = "repProgress", !.op = "Progress",
                                                        !.id = gidToID[g], !.gid = g]]
    BY DEF PollTask
  <1>2. g \in Gids /\ gidToID[g] # NoId /\ Poll \in Loops
    BY <1>1 DEF Tracked, Loops
  <1>3. DaemonKeeps
    BY DaemonUnchanged DEF PollTask
  <1> QED BY <1>1, <1>2, <1>3, LoopBegins DEF PollTask, WithGid, EventTypes

LEMMA ReportProgressKeeps ==
    ASSUME Inv, NEW w \in Workers, ReportProgress(w), UNCHANGED others
    PROVE  Inv'
  <1>1. /\ call[w].pc = "repProgress" /\ Return(w, "ok")
        /\ Send(w, "Progress", NoGid) \/ UNCHANGED events
        /\ UNCHANGED <<daemonVars, gidToID, ctxDone>>
    BY DEF ReportProgress, At
  <1>2. call[w].gid \in Gids
    BY <1>1, AtWork DEF FrameInv, WithGid
  <1>3. PICK f \in Frame : Goes(w, f)
    BY <1>1, ReturnGoes, NotDeleting, DaemonUnchanged DEF DeletePcs, DaemonKeeps
  <1> QED BY <1>1, <1>2, <1>3, ReportStep DEF EventTypes

\* Every step of the adapter, in a call or in one of its loops.
LEMMA AdapterKeeps ==
    ASSUME Inv, UNCHANGED others, LoopStep \/ PollStep \/ \E p \in Procs : CallStep(p)
    PROVE  Inv'
  <1> USE DifferentWorkers
  <1>1. CASE LoopStep
    BY <1>1, TakeNoteKeeps, ReportProgressKeeps, LookKeeps, SwapKeeps, ReportGidKeeps,
       ReportMetaKeeps, ReportPausedKeeps, ReportEndKeeps, UntrackKeeps DEF LoopStep
  <1>2. CASE PollStep
    BY <1>2, PollTaskKeeps, ReportProgressKeeps DEF PollStep
  <1>3. ASSUME NEW p \in Procs, CallStep(p)
        PROVE  Inv'
    BY <1>3, AddUriKeeps, AddUriFails, AskFollowedByKeeps, TrackKeeps, ReportStartKeeps,
       ReportMetaKeeps, PauseKeeps, ReportPausedKeeps, LookKeeps, SwapKeeps, ReportGidKeeps,
       RemoveKeeps, ReportEndKeeps, UntrackKeeps, PurgeResultKeeps DEF CallStep
  <1> QED BY <1>1, <1>2, <1>3
-----------------------------------------------------------------------------
\* What every step of the service keeps of the rows: their gids are their own
\* and none becomes Complete.
RowsKeep ==
    /\ RepoTypeOK'
    /\ issued \subseteq issued'
    /\ \A i \in Ids : byID'[i] # NoRow =>
         /\ Belongs(byID'[i].gid, i)
         /\ byID'[i].status = "Complete" => byID[i] # NoRow /\ byID[i].status = "Complete"

\* A step of the service leaves the daemon, the channel, gidToID and the
\* reconciler alone.
LEMMA ServiceMoves ==
    ASSUME Inv, RowsKeep, UNCHANGED <<daemonVars, events, gidToID>>, UNCHANGED recVars,
           left' \in 0..MaxRequests, ServiceTypeOK', call' \in [Workers -> Frame],
           ctxDone' \subseteq Procs, StartInv',
           \A w \in Workers : call'[w] = call[w] \/ (FrameInv(w)' /\ Mine(call[w])'),
           \A p \in Procs : \/ svc'[p] = svc[p] /\ call'[p] = call[p]
                            \/ ServiceInv(p)' /\ Belongs(svc[p].gid, svc[p].id)'
    PROVE  Inv'
  <1>1. DaemonKeeps /\ Grows /\ owner' = owner
    BY DaemonUnchanged DEF DaemonKeeps, daemonVars
  <1>2. TypeOK'
    BY <1>1 DEF TypeOK, RowsKeep, DaemonKeeps, Inv, EventBusTypeOK, AdapterTypeOK,
       ReconcilerTypeOK, recVars
  <1>3. \A w \in Workers : FrameInv(w)' /\ Mine(call[w])'
    BY <1>1, FrameKept
  <1>4. \A p \in Procs : ServiceInv(p)' /\ Belongs(svc[p].gid, svc[p].id)'
    BY <1>1, ServiceKept
  <1>5. GidsBelong'
    <2>1. \A i \in Rows' : Belongs(byID[i].gid, i)'
      BY <1>1 DEF RowsKeep, Rows, Stored, Belongs
    <2>2. \A g \in Tracked' : Belongs(g, gidToID[g])'
      BY <1>1 DEF Inv, GidsBelong, Tracked, Belongs
    <2>3. \A e \in Pending' : Belongs(e.gid, e.id)' /\ Belongs(e.new, e.id)'
      BY <1>1 DEF Inv, GidsBelong, Pending, recVars, Belongs
    <2> QED BY <1>3, <1>4, <2>1, <2>2, <2>3 DEF GidsBelong, Mine
  <1>6. JudgeInv'
    <2>1. judged /\ inHand.type = "Start" => inHand.id \in Ids
      BY DEF Inv, TypeOK, ReconcilerTypeOK, Event, NoEvent
    <2> QED BY <2>1 DEF Inv, JudgeInv, StartMeetsNoComplete, recVars, row, Stored, RowsKeep
  <1> QED BY <1>1, <1>2, <1>3, <1>4, <1>5, <1>6 DEF Inv, DaemonKeeps

\* A step that starts nothing.
LEMMA StartKept ==
    ASSUME Inv, issued \subseteq issued', UNCHANGED <<startCancels, ctxDone>>,
           \A i \in Ids : svc'[i].pc = svc[i].pc,
           \A q \in Reqs : svc'[q].pc = "launch" => svc'[q] = svc[q]
    PROVE  StartInv'
  <1>1. StartInv /\ \A i \in Ids : In(i, "idle")' <=> In(i, "idle")
    BY DEF Inv, In
  <1>2. \A q \in Reqs : In(q, "launch")' => In(q, "launch") /\ svc'[q] = svc[q]
    BY DEF In
  <1>3. CancellableStarts'
    BY <1>1 DEF StartInv, CancellableStarts
  <1>4. ctxDone' \subseteq Ids /\ (\A i \in Ids : ~In(i, "idle")' => i \in issued')
        /\ \A i \in ctxDone' : ~In(i, "idle")'
    BY <1>1 DEF StartInv
  <1>5. \A p \in Reqs : In(p, "launch")' =>
            /\ svc'[p].id \in issued' /\ In(svc[p].id, "idle")'
            /\ \A q \in Reqs : In(q, "launch")' /\ svc'[q].id = svc'[p].id => q = p
    <2> SUFFICES ASSUME NEW p \in Reqs, In(p, "launch")'
                 PROVE  /\ svc'[p].id \in issued' /\ In(svc[p].id, "idle")'
                        /\ \A q \in Reqs : In(q, "launch")' /\ svc'[q].id = svc'[p].id => q = p
      OBVIOUS
    <2>1. In(p, "launch") /\ svc'[p] = svc[p] /\ svc[p].id \in issued /\ In(svc[p].id, "idle")
      BY <1>1, <1>2 DEF StartInv
    <2>2. svc[p].id \in Ids
      BY <2>1 DEF Inv, TypeOK, RepoTypeOK
    <2>3. In(svc[p].id, "idle")'
      BY <2>1, <2>2 DEF In
    <2>4. \A q \in Reqs : In(q, "launch")' /\ svc'[q].id = svc'[p].id => q = p
      BY <1>1, <1>2, <2>1 DEF StartInv
    <2> QED BY <2>1, <2>3, <2>4
  <1> QED BY <1>3, <1>4, <1>5 DEF StartInv

\* The rows are kept by a step that does not write them ...
LEMMA RowsUnchanged ==
    ASSUME Inv, UNCHANGED repoVars
    PROVE  RowsKeep
  BY DEF Inv, TypeOK, RowsKeep, repoVars, RepoTypeOK, GidsBelong, Rows, Stored, Belongs

\* ... and by an Update that keeps the locator.
LEMMA UpdateMoves ==
    ASSUME TypeOK, NEW id \in Ids, NEW clone \in Download, Stored(id) => clone.loc = byID[id].loc
    PROVE  Set(id, clone) => /\ RepoTypeOK' /\ issued' = issued
                             /\ byID' = IF Stored(id) THEN [byID EXCEPT ![id] = clone] ELSE byID
  BY DEF TypeOK, RepoTypeOK, Set, Update, UpdateResult, Stored, repoVars

LEMMA SetKeeps ==
    ASSUME Inv, NEW id \in Ids, NEW clone, Set(id, clone),
           Stored(id) => /\ clone \in Download /\ clone.loc = byID[id].loc
                         /\ Belongs(clone.gid, id)
                         /\ clone.status = "Complete" => byID[id].status = "Complete"
    PROVE  RowsKeep
  <1>1. CASE ~Stored(id)
    BY <1>1, RowsUnchanged DEF Set
  <1>2. CASE Stored(id)
    <2>1. RepoTypeOK' /\ issued' = issued /\ byID' = [byID EXCEPT ![id] = clone]
      BY <1>2, UpdateMoves DEF Inv
    <2>2. byID \in [Ids -> Download \cup {NoRow}] /\ \A i \in Rows : Belongs(byID[i].gid, i)
      BY DEF Inv, TypeOK, RepoTypeOK, GidsBelong
    <2> QED BY <1>2, <2>1, <2>2 DEF RowsKeep, Rows, Stored
  <1> QED BY <1>1, <1>2
-----------------------------------------------------------------------------
\* A step of a request, which writes its own two frames.
RequestWrites(p, s, f) ==
    /\ svc' = [svc EXCEPT ![p] = s] /\ call' = [call EXCEPT ![p] = f]
    /\ UNCHANGED <<daemonVars, events, gidToID>> /\ UNCHANGED recVars
    /\ left' \in 0..MaxRequests /\ startCancels' \subseteq Ids /\ ctxDone' \subseteq Procs

LEMMA RequestMoves ==
    ASSUME Inv, NEW p \in Reqs, NEW s \in ServiceFrame, NEW f \in Frame,
           RequestWrites(p, s, f), RowsKeep, StartInv',
           FrameInv(p)', Mine(call[p])', ServiceInv(p)', Belongs(svc[p].gid, svc[p].id)'
    PROVE  Inv'
  <1>1. p \in Procs /\ p \in Workers
    BY DifferentWorkers
  <1>2. call' \in [Workers -> Frame] /\ ServiceTypeOK'
    BY <1>1 DEF Inv, TypeOK, AdapterTypeOK, ServiceTypeOK, RequestWrites
  <1>3. \A w \in Workers : call'[w] = call[w] \/ (FrameInv(w)' /\ Mine(call[w])')
    BY <1>1 DEF Inv, TypeOK, AdapterTypeOK, RequestWrites
  <1>4. \A q \in Procs : \/ svc'[q] = svc[q] /\ call'[q] = call[q]
                         \/ ServiceInv(q)' /\ Belongs(svc[q].gid, svc[q].id)'
    BY <1>1, DifferentWorkers DEF Inv, TypeOK, AdapterTypeOK, ServiceTypeOK, RequestWrites
  <1> QED BY <1>2, <1>3, <1>4, ServiceMoves DEF RequestWrites

\* It has no call under way afterwards ...
LEMMA RequestRests ==
    ASSUME Inv, NEW p \in Reqs, NEW s \in ServiceFrame, RequestWrites(p, s, NoCall),
           RowsKeep, StartInv', Belongs(s.gid, s.id),
           s.pc \in {"idle", "launch", "desire", "settle", "cancelStart"},
           s.pc # "idle" \/ s.gid # NoGid => s.id \in Ids,
           s.pc \in {"desire", "settle"} => s.wish \in Wishes
    PROVE  Inv'
  <1>1. /\ p \in Procs /\ p \in Workers /\ p \notin Ids
        /\ svc'[p] = s /\ call'[p] = NoCall /\ owner' = owner
    BY DifferentWorkers
    DEF RequestWrites, Inv, TypeOK, ServiceTypeOK, AdapterTypeOK, daemonVars
  <1>2. NoCall \in Frame /\ NoCall.pc = "idle" /\ NoCall.gid = NoGid /\ NoCall.new = NoGid
    BY DEF NoCall, Frame, IdOrNone, GidOrNone
  <1>3. FrameInv(p)' /\ Mine(call[p])'
    BY <1>1, <1>2 DEF FrameInv, WithGid, Mine, Belongs
  <1>4. ServiceInv(p)' /\ Belongs(svc[p].gid, svc[p].id)'
    BY <1>1, <1>2 DEF ServiceInv, In, Belongs
  <1> QED BY <1>2, <1>3, <1>4, RequestMoves

\* ... or it has begun one.
CallOf(op, s) == [NoCall EXCEPT !.pc = op, !.op = op, !.id = s.id, !.gid = s.gid]

LEMMA RequestCalls ==
    ASSUME Inv, NEW p \in Reqs, NEW s \in ServiceFrame, NEW op \in Calls,
           RequestWrites(p, s, CallOf(op, s)), RowsKeep, StartInv',
           s.id \in Ids, Belongs(s.gid, s.id),
           \/ s.pc = "await" /\ s.wish \in Wishes /\ op # "Delete"
                /\ (op = "Start" \/ s.gid # NoGid)
           \/ s.pc = "deleting" /\ op = "Delete"
    PROVE  Inv'
  <1> DEFINE f == CallOf(op, s)
  <1>1. /\ f \in Frame /\ f.pc = op /\ f.op = op /\ f.id = s.id /\ f.gid = s.gid
        /\ f.new = NoGid
    BY DEF CallOf, NoCall, Frame, ServiceFrame, Calls, IdOrNone, GidOrNone
  <1> HIDE DEF f
  <1>2. /\ p \in Procs /\ p \in Workers /\ p \notin Ids /\ p \notin Loops
        /\ svc'[p] = s /\ call'[p] = f /\ owner' = owner
    BY DifferentWorkers, WorkersAssumption
    DEF RequestWrites, Inv, TypeOK, ServiceTypeOK, AdapterTypeOK, daemonVars, f
  <1>3. op # "idle" /\ op \notin {"swap", "repGid"} /\ (op \in WithGid => s.gid \in Gids)
    BY DEF Calls, WithGid, ServiceFrame, GidOrNone
  <1>4. FrameInv(p)' /\ Mine(call[p])'
    BY <1>1, <1>2, <1>3 DEF FrameInv, Mine, Belongs
  <1>5. ServiceInv(p)' /\ Belongs(svc[p].gid, svc[p].id)'
    BY <1>1, <1>2, <1>3 DEF ServiceInv, In, Belongs, PastCancel, DeletePcs
  <1>6. RequestWrites(p, s, f)
    BY DEF f
  <1> QED BY <1>1, <1>4, <1>5, <1>6, RequestMoves

\* A frame without a call under way stays so.
LEMMA NoCallStays ==
    ASSUME Inv, NEW p \in Procs, svc[p].pc \notin {"await", "deleting", "starting"}, UNCHANGED call
    PROVE  call' = [call EXCEPT ![p] = NoCall]
  BY DifferentWorkers DEF Inv, ServiceInv, FrameInv, TypeOK, AdapterTypeOK

\* What is known of a request at work.
LEMMA RequestAtWork ==
    ASSUME Inv, NEW p \in Procs, svc[p].pc \notin {"idle", "done"}
    PROVE  /\ svc[p] \in ServiceFrame /\ svc[p].id \in Ids /\ svc[p].gid \in GidOrNone
           /\ ServiceInv(p) /\ Belongs(svc[p].gid, svc[p].id)
           /\ svc[p].pc \in {"desire", "await", "settle"} => svc[p].wish \in Wishes
  BY DEF Inv, ServiceInv, GidsBelong, TypeOK, ServiceTypeOK, ServiceFrame
-----------------------------------------------------------------------------
\* A created row is a download of its own, and has no gid.
LEMMA AddKeeps ==
    ASSUME Inv, NEW loc \in Locators, NEW status \in Posted, NEW id \in Ids, NEW created \in BOOLEAN,
           AddWithFingerprint([loc |-> loc, gid |-> NoGid, status |-> status, desired |-> status],
                              FpOf[loc], id, created)
    PROVE  RowsKeep /\ (created => id \notin issued /\ issued' = issued \cup {id})
  <1> DEFINE d == [loc |-> loc, gid |-> NoGid, status |-> status, desired |-> status]
  <1>1. CASE ~created
    BY <1>1, RowsUnchanged DEF AddWithFingerprint
  <1>2. CASE created
    <2>1. d \in Download /\ d.gid = NoGid /\ d.status # "Complete"
      BY PostedAssumption DEF Download, GidOrNone, Statuses, Desired, Wishes
    <2>2. FpOf[loc] \in Fingerprints
      BY FpOfAssumption
    <2> HIDE DEF d
    <2>3. /\ id \in Ids \ issued /\ issued' = issued \cup {id}
          /\ byID' = [byID EXCEPT ![id] = d]
          /\ fpIndex' = [fpIndex EXCEPT ![FpOf[loc]] = id]
      BY <1>2 DEF AddWithFingerprint, Insert, d
    <2>4. RepoTypeOK'
      BY <2>1, <2>2, <2>3 DEF Inv, TypeOK, RepoTypeOK, IdOrNone
    <2>5. \A i \in Ids : byID'[i] # NoRow =>
            /\ Belongs(byID'[i].gid, i)
            /\ byID'[i].status = "Complete" => byID[i] # NoRow /\ byID[i].status = "Complete"
      BY <2>1, <2>3 DEF Inv, TypeOK, RepoTypeOK, GidsBelong, Rows, Stored, Belongs
    <2> QED BY <2>3, <2>4, <2>5 DEF RowsKeep
  <1> QED BY <1>1, <1>2

LEMMA AddRequestKeeps ==
    ASSUME Inv, NEW p \in Reqs, NEW loc \in Locators, NEW status \in Posted,
           AddRequest(p, loc, status), UNCHANGED recVars, left' \in 0..MaxRequests
    PROVE  Inv'
  <1>1. PICK id \in Ids, created \in BOOLEAN :
         /\ AddWithFingerprint([loc |-> loc, gid |-> NoGid, status |-> status, desired |-> status],
                               FpOf[loc], id, created)
         /\ IF created /\ status = "Active" THEN Begin(p, "launch", id, NoGid, "none")
            ELSE UNCHANGED svc
    BY DEF AddRequest
  <1>2. RowsKeep /\ (created => id \notin issued /\ issued' = issued \cup {id})
    BY <1>1, AddKeeps
  <1>3. /\ In(p, "idle") /\ UNCHANGED <<daemonVars, events, gidToID>>
        /\ UNCHANGED <<call, ctxDone, startCancels>>
    BY DEF AddRequest, elsewhere
  <1>4. p \in Procs /\ p \notin Ids /\ svc \in [Procs -> ServiceFrame]
    BY DifferentWorkers DEF Inv, TypeOK, ServiceTypeOK
  <1>5. call' = [call EXCEPT ![p] = NoCall]
    BY <1>3, <1>4, NoCallStays DEF In
  <1>6. startCancels' \subseteq Ids /\ ctxDone' \subseteq Procs
    BY <1>3 DEF Inv, TypeOK, ServiceTypeOK, AdapterTypeOK
  <1>7. CASE created /\ status = "Active"
    <2> DEFINE s == [pc |-> "launch", id |-> id, gid |-> NoGid, wish |-> "none"]
    <2>1. s \in ServiceFrame /\ s.pc = "launch" /\ s.id = id /\ s.gid = NoGid
      BY DEF ServiceFrame, IdOrNone, GidOrNone
    <2>2. svc' = [svc EXCEPT ![p] = s]
      BY <1>1, <1>7 DEF Begin
    <2> HIDE DEF s
    <2>3. RequestWrites(p, s, NoCall)
      BY <1>3, <1>5, <1>6, <2>2 DEF RequestWrites
    <2>4. svc'[p] = s /\ \A q \in Procs \ {p} : svc'[q] = svc[q]
      BY <1>4, <2>2
    <2>5. /\ id \in issued' /\ In(id, "idle")'
          /\ \A q \in Reqs : In(q, "launch") => svc[q].id # id
      BY <1>2, <1>4, <1>7, <2>4, DifferentWorkers DEF Inv, StartInv, In
    <2>6. StartInv'
      <3>1. \A i \in Ids : svc'[i] = svc[i]
        BY <1>4, <2>4, DifferentWorkers
      <3>2. CancellableStarts' /\ ctxDone' \subseteq Ids
            /\ (\A i \in Ids : ~In(i, "idle")' => i \in issued')
            /\ \A i \in ctxDone' : ~In(i, "idle")'
        BY <1>2, <1>3, <3>1 DEF Inv, StartInv, CancellableStarts, In, RowsKeep
      <3>3. ASSUME NEW q \in Reqs, In(q, "launch")'
            PROVE  /\ svc'[q].id \in issued' /\ In(svc[q].id, "idle")'
                   /\ \A r \in Reqs : In(r, "launch")' /\ svc'[r].id = svc'[q].id => r = q
        <4>1. CASE q = p
          BY <2>1, <2>4, <2>5, <4>1, DifferentWorkers DEF In
        <4>2. CASE q # p
          <5>1. /\ svc'[q] = svc[q] /\ In(q, "launch")
                /\ svc[q].id \in issued /\ In(svc[q].id, "idle")
                /\ \A r \in Reqs : In(r, "launch") /\ svc[r].id = svc[q].id => r = q
            BY <2>4, <3>3, <4>2, DifferentWorkers DEF In, Inv, StartInv
          <5>2. svc[q].id \in Ids
            BY <5>1 DEF Inv, TypeOK, RepoTypeOK
          <5>3. svc[q].id # id
            BY <2>5, <5>1
          <5>4. \A r \in Reqs : In(r, "launch")' /\ svc'[r].id = svc'[q].id => r = q
            BY <2>1, <2>4, <5>1, <5>3, DifferentWorkers DEF In
          <5> QED BY <1>2, <3>1, <5>1, <5>2, <5>4 DEF In, RowsKeep
        <4> QED BY <4>1, <4>2
      <3> QED BY <3>2, <3>3 DEF StartInv
    <2> QED BY <1>2, <2>1, <2>3, <2>6, RequestRests DEF Belongs
  <1>8. CASE ~(created /\ status = "Active")
    <2>1. svc' = svc /\ svc' = [svc EXCEPT ![p] = svc[p]] /\ svc[p] \in ServiceFrame
      BY <1>1, <1>4, <1>8
    <2>2. StartInv'
      BY <1>2, <1>3, <2>1, StartKept DEF RowsKeep
    <2>3. RequestWrites(p, svc[p], NoCall)
      BY <1>3, <1>5, <1>6, <2>1 DEF RequestWrites
    <2>4. /\ Belongs(svc[p].gid, svc[p].id) /\ svc[p].pc = "idle"
          /\ svc[p].gid # NoGid => svc[p].id \in Ids
      BY <1>3, <1>4 DEF Inv, GidsBelong, ServiceInv, In
    <2> QED BY <1>2, <2>1, <2>2, <2>3, <2>4, RequestRests
  <1> QED BY <1>7, <1>8

\* What a request knows of a row that it has just read.
LEMMA RowRead ==
    ASSUME Inv, NEW id \in Ids, Stored(id)
    PROVE  byID[id] \in Download /\ byID[id].gid \in GidOrNone /\ Belongs(byID[id].gid, id)
  BY DEF Inv, TypeOK, RepoTypeOK, Stored, GidsBelong, Rows, Download

\* An update and a delete begin by reading the row.
LEMMA RequestBegins ==
    ASSUME Inv, NEW p \in Reqs, In(p, "idle"), NEW id \in Ids, Stored(id),
           NEW pc \in {"desire", "cancelStart"}, NEW wish \in Wishes \cup {"none"},
           pc = "desire" => wish \in Wishes,
           Begin(p, pc, id, byID[id].gid, wish),
           UNCHANGED <<elsewhere, call, ctxDone, startCancels, repoVars>>,
           UNCHANGED recVars, left' \in 0..MaxRequests
    PROVE  Inv'
  <1> DEFINE s == [pc |-> pc, id |-> id, gid |-> byID[id].gid, wish |-> wish]
  <1>1. byID[id].gid \in GidOrNone /\ Belongs(byID[id].gid, id)
    BY RowRead
  <1>2. s \in ServiceFrame /\ s.pc = pc /\ s.id = id /\ s.gid = byID[id].gid /\ s.wish = wish
    BY <1>1 DEF ServiceFrame, IdOrNone
  <1>3. p \in Procs /\ p \notin Ids /\ svc \in [Procs -> ServiceFrame]
    BY DifferentWorkers DEF Inv, TypeOK, ServiceTypeOK
  <1>4. svc' = [svc EXCEPT ![p] = s]
    BY DEF Begin
  <1> HIDE DEF s
  <1>5. call' = [call EXCEPT ![p] = NoCall]
    BY <1>3, NoCallStays DEF In
  <1>6. RowsKeep
    BY RowsUnchanged
  <1>7. StartInv'
    BY <1>2, <1>3, <1>4, <1>6, StartKept, DifferentWorkers DEF RowsKeep
  <1>8. RequestWrites(p, s, NoCall)
    BY <1>4, <1>5 DEF RequestWrites, elsewhere, Inv, TypeOK, ServiceTypeOK, AdapterTypeOK
  <1> QED BY <1>1, <1>2, <1>6, <1>7, <1>8, RequestRests

LEMMA ClientKeeps ==
    ASSUME Inv, NEW p \in Reqs, Client(p)
    PROVE  Inv'
  <1>1. UNCHANGED recVars /\ left' \in 0..MaxRequests
    BY MaxRequestsAssumption DEF Client, Inv, TypeOK
  <1>2. ASSUME NEW id \in Ids, NEW wish \in Ops \cap Wishes, UpdateRequest(p, id, wish)
        PROVE  Inv'
    BY <1>1, <1>2, RequestBegins DEF UpdateRequest
  <1>3. ASSUME NEW id \in Ids, DeleteRequest(p, id)
        PROVE  Inv'
    BY <1>1, <1>3, RequestBegins DEF DeleteRequest
  <1> QED BY <1>1, <1>2, <1>3, AddRequestKeeps DEF Client, Request
-----------------------------------------------------------------------------
\* A request that is answered, or goes on to settle the row.
LEMMA RequestGoesOn ==
    ASSUME Inv, NEW p \in Reqs, RowsKeep, EndRequest(p) \/ Step(p, "settle"),
           svc[p].pc \in {"desire", "await"} \/ EndRequest(p),
           call' = [call EXCEPT ![p] = NoCall],
           UNCHANGED <<elsewhere, ctxDone, startCancels>>, UNCHANGED <<recVars, left>>
    PROVE  Inv'
  <1>1. p \in Procs /\ p \notin Ids /\ svc \in [Procs -> ServiceFrame]
    BY DifferentWorkers DEF Inv, TypeOK, ServiceTypeOK
  <1>2. PICK s \in ServiceFrame :
          /\ svc' = [svc EXCEPT ![p] = s]
          /\ \/ s.pc = "idle" /\ s.gid = NoGid
             \/ s.pc = "settle" /\ s.wish \in Wishes /\ s.id \in Ids /\ Belongs(s.gid, s.id)
    <2>1. CASE EndRequest(p)
      <3>1. Idle \in ServiceFrame /\ Idle.pc = "idle" /\ Idle.gid = NoGid
        BY DEF Idle, ServiceFrame, IdOrNone, GidOrNone
      <3> QED BY <2>1, <3>1 DEF EndRequest
    <2>2. CASE Step(p, "settle") /\ svc[p].pc \in {"desire", "await"}
      <3> DEFINE s == [svc[p] EXCEPT !.pc = "settle"]
      <3>1. /\ svc[p] \in ServiceFrame /\ svc[p].id \in Ids /\ svc[p].wish \in Wishes
            /\ Belongs(svc[p].gid, svc[p].id)
        BY <1>1, <2>2, RequestAtWork
      <3>2. /\ s \in ServiceFrame /\ s.pc = "settle" /\ s.wish = svc[p].wish
            /\ s.id = svc[p].id /\ s.gid = svc[p].gid
        BY <3>1 DEF ServiceFrame
      <3>3. svc' = [svc EXCEPT ![p] = s]
        BY <2>2 DEF Step
      <3> QED BY <3>1, <3>2, <3>3
    <2> QED BY <2>1, <2>2
  <1>3. StartInv'
    BY <1>1, <1>2, StartKept, DifferentWorkers DEF RowsKeep
  <1>4. RequestWrites(p, s, NoCall)
    BY <1>2 DEF RequestWrites, elsewhere, Inv, TypeOK, ServiceTypeOK, AdapterTypeOK
  <1> QED BY <1>2, <1>3, <1>4, RequestRests DEF Belongs

LEMMA SetDesiredKeeps ==
    ASSUME Inv, NEW p \in Reqs, SetDesired(p), UNCHANGED <<recVars, left>>
    PROVE  Inv'
  <1> DEFINE f == svc[p]
             method == MethodFor(f.wish, f.gid)
  <1>1. /\ svc[p].pc = "desire" /\ p \in Procs /\ p \notin Ids
        /\ svc \in [Procs -> ServiceFrame]
        /\ UNCHANGED <<elsewhere, ctxDone, startCancels>>
    BY DifferentWorkers DEF SetDesired, In, Inv, TypeOK, ServiceTypeOK
  <1>2. /\ f \in ServiceFrame /\ f.id \in Ids /\ f.wish \in Wishes /\ f.gid \in GidOrNone
        /\ Belongs(f.gid, f.id)
    BY <1>1, RequestAtWork
  <1>3. CASE ~Stored(f.id)
    <2>1. EndRequest(p) /\ UNCHANGED <<call, repoVars>>
      BY <1>3 DEF SetDesired
    <2> QED BY <1>1, <2>1, NoCallStays, RowsUnchanged, RequestGoesOn
  <1>4. CASE Stored(f.id)
    <2> DEFINE clone == [byID[f.id] EXCEPT !.desired = f.wish]
    <2>1. /\ Update(f.id, clone)
          /\ IF method = "none" THEN Step(p, "settle") /\ UNCHANGED call
             ELSE Step(p, "await") /\ Invoke(p, method, f.id, f.gid)
      BY <1>4 DEF SetDesired
    <2>2. RowsKeep
      <3>1. byID[f.id] \in Download /\ Belongs(byID[f.id].gid, f.id)
        BY <1>2, <1>4, RowRead
      <3>2. /\ clone \in Download /\ clone.loc = byID[f.id].loc /\ clone.gid = byID[f.id].gid
            /\ clone.status = byID[f.id].status
        BY <1>2, <3>1 DEF Download, Desired
      <3> HIDE DEF clone
      <3>3. Set(f.id, clone)
        BY <1>4, <2>1 DEF Set
      <3> QED BY <1>2, <3>1, <3>2, <3>3, SetKeeps
    <2>3. CASE method = "none"
      BY <1>1, <2>1, <2>2, <2>3, NoCallStays, RequestGoesOn
    <2>4. CASE method # "none"
      <3> DEFINE s == [svc[p] EXCEPT !.pc = "await"]
      <3>1. /\ method \in Calls \ {"Delete"}
            /\ method = "Start" \/ f.gid # NoGid
        BY <1>2, <2>4 DEF MethodFor, Wishes, Calls
      <3>2. /\ s \in ServiceFrame /\ s.pc = "await" /\ s.id = f.id /\ s.gid = f.gid
            /\ s.wish = f.wish
        BY <1>2 DEF ServiceFrame
      <3>3. svc' = [svc EXCEPT ![p] = s]
        BY <2>1, <2>4 DEF Step
      <3> HIDE DEF s, method
      <3>4. call' = [call EXCEPT ![p] = CallOf(method, s)]
        BY <2>1, <2>4, <3>2 DEF Invoke, CallOf
      <3>5. StartInv'
        BY <1>1, <2>2, <3>2, <3>3, StartKept, DifferentWorkers DEF RowsKeep
      <3>6. RequestWrites(p, s, CallOf(method, s))
        BY <1>1, <3>3, <3>4
        DEF RequestWrites, elsewhere, Inv, TypeOK, ServiceTypeOK, AdapterTypeOK
      <3>7. method \in Calls /\ Belongs(s.gid, s.id)
        BY <1>2, <3>1, <3>2
      <3> QED BY <1>2, <2>2, <3>1, <3>2, <3>5, <3>6, <3>7, RequestCalls
    <2> QED BY <2>3, <2>4
  <1> QED BY <1>3, <1>4

\* SetFailed and SetGid.
LEMMA SetFailedKeeps ==
    ASSUME Inv, NEW id \in Ids, SetFailed(id)
    PROVE  RowsKeep
  <1> DEFINE clone == [byID[id] EXCEPT !.status = "Failed"]
  <1>1. ASSUME Stored(id)
        PROVE  /\ clone \in Download /\ clone.loc = byID[id].loc /\ Belongs(clone.gid, id)
               /\ clone.status # "Complete"
    BY <1>1, RowRead DEF Download, Statuses
  <1>2. Set(id, clone)
    BY DEF SetFailed
  <1> QED BY <1>1, <1>2, SetKeeps

LEMMA SetGidKeeps ==
    ASSUME Inv, NEW id \in Ids, NEW g \in GidOrNone, Belongs(g, id), SetGid(id, g)
    PROVE  RowsKeep
  <1> DEFINE clone == [byID[id] EXCEPT !.gid = g]
  <1>1. ASSUME Stored(id)
        PROVE  /\ clone \in Download /\ clone.loc = byID[id].loc /\ Belongs(clone.gid, id)
               /\ clone.status = byID[id].status
    BY <1>1, RowRead DEF Download
  <1>2. Set(id, clone)
    BY DEF SetGid
  <1> QED BY <1>1, <1>2, SetKeeps

LEMMA AwaitKeeps ==
    ASSUME Inv, NEW p \in Reqs, CallFailed(p) \/ SaveGid(p) \/ CallDone(p),
           UNCHANGED <<recVars, left>>
    PROVE  Inv'
  <1>1. /\ svc[p].pc = "await" /\ call[p].pc = "return"
        /\ EndRequest(p) \/ Step(p, "settle")
        /\ call' = [call EXCEPT ![p] = NoCall]
        /\ UNCHANGED <<elsewhere, ctxDone, startCancels>>
    BY DEF CallFailed, SaveGid, CallDone, In, Returned, At, TakeBack
  <1>2. /\ svc[p].id \in Ids /\ call[p].id = svc[p].id
        /\ call[p].gid \in GidOrNone /\ Mine(call[p])
    BY <1>1, RequestAtWork, AtWork, DifferentWorkers DEF ServiceInv
  <1>3. RowsKeep
    BY <1>2, SetFailedKeeps, SetGidKeeps, RowsUnchanged DEF CallFailed, SaveGid, CallDone, Mine
  <1> QED BY <1>1, <1>3, RequestGoesOn

LEMMA SettleKeeps ==
    ASSUME Inv, NEW p \in Reqs, Settle(p), UNCHANGED <<recVars, left>>
    PROVE  Inv'
  <1> DEFINE id == svc[p].id
             clone == Settled(byID[id], svc[p].wish)
  <1>1. /\ svc[p].pc = "settle" /\ EndRequest(p) /\ Set(id, clone) /\ p \in Procs
        /\ UNCHANGED <<elsewhere, call, ctxDone, startCancels>>
    BY DifferentWorkers DEF Settle, In
  <1>2. id \in Ids /\ svc[p].wish \in Wishes
    BY <1>1, RequestAtWork
  <1>3. ASSUME Stored(id)
        PROVE  /\ clone \in Download /\ clone.loc = byID[id].loc /\ Belongs(clone.gid, id)
               /\ clone.status # "Complete"
    <2>1. byID[id] \in Download /\ Belongs(byID[id].gid, id)
      BY <1>2, <1>3, RowRead
    <2> QED BY <1>2, <2>1 DEF Settled, Download, Statuses, Wishes, GidOrNone, Belongs
  <1> HIDE DEF clone
  <1>4. RowsKeep
    BY <1>1, <1>2, <1>3, SetKeeps
  <1> QED BY <1>1, <1>4, NoCallStays, RequestGoesOn

LEMMA DeleteRowKeeps ==
    ASSUME Inv, NEW p \in Reqs, DeleteRow(p), UNCHANGED <<recVars, left>>
    PROVE  Inv'
  <1>1. /\ svc[p].pc = "deleting" /\ EndRequest(p) /\ p \in Procs
        /\ call' = [call EXCEPT ![p] = NoCall]
        /\ Delete(svc[p].id) \/ UNCHANGED repoVars
        /\ UNCHANGED <<elsewhere, ctxDone, startCancels>>
    BY DifferentWorkers DEF DeleteRow, In, TakeBack
  <1>2. svc[p].id \in Ids
    BY <1>1, RequestAtWork
  <1>3. CASE UNCHANGED repoVars
    BY <1>1, <1>3, RowsUnchanged, RequestGoesOn
  <1>4. CASE Delete(svc[p].id) /\ Stored(svc[p].id)
    <2>1. /\ byID' = [byID EXCEPT ![svc[p].id] = NoRow]
          /\ fpIndex' = [fpIndex EXCEPT ![FpOf[byID[svc[p].id].loc]] = NoId]
          /\ UNCHANGED issued
      BY <1>4 DEF Delete
    <2>2. RowsKeep
      BY <1>2, <2>1 DEF RowsKeep, Inv, TypeOK, RepoTypeOK, GidsBelong, Rows, Stored, IdOrNone
    <2> QED BY <1>1, <2>2, RequestGoesOn
  <1> QED BY <1>1, <1>3, <1>4 DEF Delete
-----------------------------------------------------------------------------
\* The start of a download is its first and only one.
LEMMA LaunchKeeps ==
    ASSUME Inv, NEW p \in Reqs, Launch(p), UNCHANGED <<recVars, left>>
    PROVE  Inv'
  <1>0. PICK id \in Ids : id = svc[p].id
    BY RequestAtWork, DifferentWorkers DEF Launch, In
  <1> DEFINE s == [Idle EXCEPT !.pc = "starting", !.id = id]
             f == CallOf("Start", s)
  <1>1. /\ In(p, "launch") /\ startCancels' = startCancels \cup {id}
        /\ svc' = [svc EXCEPT ![p] = Idle, ![id] = s]
        /\ Invoke(id, "Start", id, NoGid)
        /\ UNCHANGED <<elsewhere, ctxDone, repoVars>>
    BY <1>0 DEF Launch
  <1>2. /\ p \in Procs /\ p \in Workers /\ p \notin Ids
        /\ svc \in [Procs -> ServiceFrame] /\ call \in [Workers -> Frame]
    BY DifferentWorkers DEF Inv, TypeOK, ServiceTypeOK, AdapterTypeOK
  <1>3. id \in Ids /\ id \in issued /\ In(id, "idle")
        /\ \A q \in Reqs : In(q, "launch") /\ svc[q].id = id => q = p
    BY <1>0, <1>1 DEF Inv, StartInv, In
  <1>4. id \in Procs /\ id \in Workers /\ id \notin Loops /\ id # p /\ id \notin ctxDone
    BY <1>2, <1>3, DifferentWorkers, WorkersAssumption DEF Inv, StartInv
  <1>5. /\ s \in ServiceFrame /\ s.pc = "starting" /\ s.id = id /\ s.gid = NoGid
    BY <1>3 DEF Idle, ServiceFrame, IdOrNone, GidOrNone
  <1>6. /\ f \in Frame /\ f.pc = "Start" /\ f.op = "Start" /\ f.id = id /\ f.gid = NoGid
        /\ f.new = NoGid
    BY <1>3, <1>5 DEF CallOf, NoCall, Frame, Calls, IdOrNone, GidOrNone
  <1>7. Idle \in ServiceFrame /\ Idle.pc = "idle" /\ Idle.gid = NoGid
    BY DEF Idle, ServiceFrame, IdOrNone, GidOrNone
  <1>8. call' = [call EXCEPT ![id] = f]
    BY <1>1, <1>5 DEF Invoke, CallOf
  <1> HIDE DEF s, f
  <1>9. /\ svc'[p] = Idle /\ svc'[id] = s
        /\ \A q \in Procs \ {p, id} : svc'[q] = svc[q]
        /\ svc' \in [Procs -> ServiceFrame]
    BY <1>1, <1>2, <1>4, <1>5, <1>7
  <1>10. /\ call'[id] = f /\ \A w \in Workers \ {id} : call'[w] = call[w]
         /\ call' \in [Workers -> Frame]
    BY <1>2, <1>4, <1>6, <1>8
  <1>11. StartInv'
    <2>1. CancellableStarts'
      BY <1>1, <1>2, <1>3, <1>4, <1>5, <1>9, DifferentWorkers
      DEF Inv, StartInv, CancellableStarts, In
    <2>2. ctxDone' \subseteq Ids /\ (\A i \in Ids : ~In(i, "idle")' => i \in issued')
          /\ \A i \in ctxDone' : ~In(i, "idle")'
      BY <1>1, <1>2, <1>3, <1>4, <1>9, DifferentWorkers DEF Inv, StartInv, In, repoVars
    <2>3. ASSUME NEW q \in Reqs, In(q, "launch")'
          PROVE  /\ svc'[q].id \in issued' /\ In(svc[q].id, "idle")'
                 /\ \A r \in Reqs : In(r, "launch")' /\ svc'[r].id = svc'[q].id => r = q
      <3>1. \A r \in Reqs : In(r, "launch")' => r # p /\ In(r, "launch") /\ svc'[r] = svc[r]
        BY <1>3, <1>7, <1>9, DifferentWorkers DEF In
      <3>2. /\ q # p /\ svc'[q] = svc[q] /\ In(q, "launch")
            /\ svc[q].id \in issued /\ In(svc[q].id, "idle")
            /\ \A r \in Reqs : In(r, "launch") /\ svc[r].id = svc[q].id => r = q
        BY <2>3, <3>1 DEF Inv, StartInv
      <3>3. svc[q].id \in Ids /\ svc[q].id # id /\ svc[q].id # p
        BY <1>2, <1>3, <3>2 DEF Inv, TypeOK, RepoTypeOK
      <3>4. In(svc[q].id, "idle")'
        BY <1>9, <3>2, <3>3, DifferentWorkers DEF In
      <3>5. svc'[q].id \in issued'
        BY <1>1, <3>2 DEF repoVars
      <3> QED BY <3>1, <3>2, <3>4, <3>5
    <2> QED BY <2>1, <2>2, <2>3 DEF StartInv
  <1>12. FrameInv(id)' /\ Mine(call[id])'
    BY <1>3, <1>4, <1>6, <1>10 DEF FrameInv, WithGid, Mine, Belongs, Calls
  <1>13. ServiceInv(id)' /\ Belongs(svc[id].gid, svc[id].id)'
    BY <1>3, <1>5, <1>6, <1>9, <1>10 DEF ServiceInv, In, Belongs
  <1>14. ServiceInv(p)' /\ Belongs(svc[p].gid, svc[p].id)'
    <2>1. call'[p] = call[p] /\ call[p].pc = "idle"
      BY <1>1, <1>2, <1>4, <1>10 DEF Inv, ServiceInv, In
    <2> QED BY <1>2, <1>7, <1>9, <2>1 DEF ServiceInv, In, Belongs
  <1>15. \A q \in Procs : \/ svc'[q] = svc[q] /\ call'[q] = call[q]
                          \/ ServiceInv(q)' /\ Belongs(svc[q].gid, svc[q].id)'
    BY <1>9, <1>10, <1>13, <1>14, DifferentWorkers
  <1>16. RowsKeep
    BY <1>1, RowsUnchanged
  <1>17. ServiceTypeOK' /\ ctxDone' \subseteq Procs /\ left' \in 0..MaxRequests
    BY <1>1, <1>3, <1>9 DEF ServiceTypeOK, Inv, TypeOK, AdapterTypeOK
  <1>18. /\ UNCHANGED <<daemonVars, events, gidToID>>
         /\ UNCHANGED recVars
    BY <1>1 DEF elsewhere
  <1> QED BY <1>10, <1>11, <1>12, <1>15, <1>16, <1>17, <1>18, ServiceMoves

\* The background start has returned, and cleans up.
LEMMA StarterMoves ==
    ASSUME Inv, NEW i \in Ids, NEW pc \in {"cleanup", "done"}, Step(i, pc),
           call' = [call EXCEPT ![i] = NoCall], RowsKeep,
           \/ pc = "cleanup" /\ In(i, "starting") /\ startCancels' = startCancels
           \/ pc = "done" /\ In(i, "cleanup") /\ startCancels' = startCancels \ {i},
           UNCHANGED <<elsewhere, ctxDone>>, UNCHANGED <<recVars, left>>
    PROVE  Inv'
  <1> DEFINE s == [svc[i] EXCEPT !.pc = pc]
  <1>1. /\ i \in Procs /\ i \in Workers /\ i \notin Reqs
        /\ svc \in [Procs -> ServiceFrame] /\ call \in [Workers -> Frame]
        /\ svc[i].pc \in {"starting", "cleanup"}
    BY DifferentWorkers DEF Inv, TypeOK, ServiceTypeOK, AdapterTypeOK, In
  <1>2. /\ svc[i].id \in Ids /\ Belongs(svc[i].gid, svc[i].id)
    BY <1>1, RequestAtWork
  <1>3. /\ s \in ServiceFrame /\ s.pc = pc /\ s.id = svc[i].id /\ s.gid = svc[i].gid
    BY <1>1 DEF ServiceFrame
  <1>4. svc' = [svc EXCEPT ![i] = s]
    BY DEF Step
  <1> HIDE DEF s
  <1>5. NoCall \in Frame /\ NoCall.pc = "idle" /\ NoCall.gid = NoGid /\ NoCall.new = NoGid
    BY DEF NoCall, Frame, IdOrNone, GidOrNone
  <1>6. /\ svc'[i] = s /\ call'[i] = NoCall
        /\ \A q \in Procs \ {i} : svc'[q] = svc[q]
        /\ \A w \in Workers \ {i} : call'[w] = call[w]
        /\ svc' \in [Procs -> ServiceFrame] /\ call' \in [Workers -> Frame]
    BY <1>1, <1>3, <1>4, <1>5
  <1>7. StartInv'
    <2>1. CancellableStarts'
      BY <1>1, <1>3, <1>6, DifferentWorkers DEF Inv, StartInv, CancellableStarts, In
    <2>2. ctxDone' \subseteq Ids /\ (\A j \in Ids : ~In(j, "idle")' => j \in issued')
          /\ \A j \in ctxDone' : ~In(j, "idle")'
      BY <1>1, <1>3, <1>6, DifferentWorkers DEF Inv, StartInv, In, RowsKeep
    <2>3. ASSUME NEW q \in Reqs, In(q, "launch")'
          PROVE  /\ svc'[q].id \in issued' /\ In(svc[q].id, "idle")'
                 /\ \A r \in Reqs : In(r, "launch")' /\ svc'[r].id = svc'[q].id => r = q
      <3>1. \A r \in Reqs : svc'[r] = svc[r]
        BY <1>1, <1>6, DifferentWorkers
      <3>2. /\ svc[q].id \in issued /\ In(svc[q].id, "idle")
            /\ \A r \in Reqs : In(r, "launch") /\ svc[r].id = svc[q].id => r = q
        BY <2>3, <3>1 DEF Inv, StartInv, In
      <3>3. svc[q].id \in Ids /\ svc[q].id # i
        BY <1>1, <3>2 DEF Inv, TypeOK, RepoTypeOK, In
      <3>4. In(svc[q].id, "idle")'
        BY <1>6, <3>2, <3>3, DifferentWorkers DEF In
      <3> QED BY <3>1, <3>2, <3>4 DEF In, RowsKeep
    <2> QED BY <2>1, <2>2, <2>3 DEF StartInv
  <1>8. owner' = owner
    BY DEF elsewhere, daemonVars
  <1>9. FrameInv(i)' /\ Mine(call[i])'
    BY <1>5, <1>6 DEF FrameInv, WithGid, Mine, Belongs
  <1>10. ServiceInv(i)' /\ Belongs(svc[i].gid, svc[i].id)'
    BY <1>2, <1>3, <1>5, <1>6, <1>8 DEF ServiceInv, In, Belongs
  <1>11. \A w \in Workers : call'[w] = call[w] \/ (FrameInv(w)' /\ Mine(call[w])')
    BY <1>6, <1>9
  <1>12. \A q \in Procs : \/ svc'[q] = svc[q] /\ call'[q] = call[q]
                          \/ ServiceInv(q)' /\ Belongs(svc[q].gid, svc[q].id)'
    BY <1>6, <1>10, DifferentWorkers
  <1>13. ServiceTypeOK' /\ ctxDone' \subseteq Procs /\ left' \in 0..MaxRequests
    BY <1>6 DEF ServiceTypeOK, Inv, TypeOK, AdapterTypeOK
  <1>14. UNCHANGED <<daemonVars, events, gidToID>> /\ UNCHANGED recVars
    BY DEF elsewhere
  <1> QED BY <1>6, <1>7, <1>11, <1>12, <1>13, <1>14, ServiceMoves

LEMMA StarterKeeps ==
    ASSUME Inv, NEW i \in Ids, StarterStep(i), UNCHANGED <<recVars, left>>
    PROVE  Inv'
  <1>1. CASE SettleStart(i)
    <2>1. /\ In(i, "starting") /\ call[i].pc = "return" /\ Step(i, "cleanup")
          /\ SetGid(i, call[i].gid) \/ SetFailed(i) \/ UNCHANGED repoVars
          /\ call' = [call EXCEPT ![i] = NoCall]
          /\ UNCHANGED <<elsewhere, ctxDone, startCancels>>
      BY <1>1 DEF SettleStart, Returned, At, TakeBack
    <2>2. Mine(call[i]) /\ call[i].gid \in GidOrNone /\ call[i].id = i
      BY <2>1, AtWork, DifferentWorkers DEF ServiceInv
    <2>3. RowsKeep
      BY <2>1, <2>2, SetGidKeeps, SetFailedKeeps, RowsUnchanged DEF Mine
    <2> QED BY <2>1, <2>3, StarterMoves
  <1>2. CASE Cleanup(i)
    <2>1. /\ In(i, "cleanup") /\ Step(i, "done") /\ startCancels' = startCancels \ {i}
          /\ UNCHANGED <<elsewhere, call, ctxDone, repoVars>>
      BY <1>2 DEF Cleanup
    <2>2. call' = [call EXCEPT ![i] = NoCall]
      BY <2>1, NoCallStays, DifferentWorkers DEF In
    <2> QED BY <2>1, <2>2, StarterMoves, RowsUnchanged
  <1> QED BY <1>1, <1>2 DEF StarterStep

\* A Delete cancels the start, if there is one, and calls the adapter.
LEMMA CancelStartKeeps ==
    ASSUME Inv, NEW p \in Reqs, CancelStart(p), UNCHANGED <<recVars, left>>
    PROVE  Inv'
  <1> DEFINE id == svc[p].id
             s == [svc[p] EXCEPT !.pc = "deleting"]
  <1>1. /\ In(p, "cancelStart")
        /\ ctxDone' = ctxDone \cup ({id} \cap startCancels)
        /\ startCancels' = startCancels \ {id}
        /\ Invoke(p, "Delete", id, svc[p].gid)
        /\ Step(p, "deleting")
        /\ UNCHANGED <<elsewhere, repoVars>>
    BY DEF CancelStart
  <1>2. p \in Procs /\ p \notin Ids /\ svc \in [Procs -> ServiceFrame]
    BY DifferentWorkers DEF Inv, TypeOK, ServiceTypeOK
  <1>3. svc[p] \in ServiceFrame /\ id \in Ids /\ Belongs(svc[p].gid, id)
    BY <1>1, <1>2, RequestAtWork DEF In
  <1>4. s \in ServiceFrame /\ s.pc = "deleting" /\ s.id = id /\ s.gid = svc[p].gid
    BY <1>3 DEF ServiceFrame
  <1>5. svc' = [svc EXCEPT ![p] = s]
    BY <1>1 DEF Step
  <1> HIDE DEF s
  <1>6. call' = [call EXCEPT ![p] = CallOf("Delete", s)]
    BY <1>1, <1>4 DEF Invoke, CallOf
  <1>7. svc'[p] = s /\ \A q \in Procs \ {p} : svc'[q] = svc[q]
    BY <1>2, <1>5
  <1>8. StartInv'
    <2>1. \A i \in Ids : svc'[i] = svc[i]
      BY <1>2, <1>7, DifferentWorkers
    <2>2. CancellableStarts'
      BY <1>1, <2>1 DEF Inv, StartInv, CancellableStarts
    <2>3. ctxDone' \subseteq Ids /\ \A i \in ctxDone' : ~In(i, "idle")'
      BY <1>1, <2>1 DEF Inv, StartInv, CancellableStarts, In
    <2>4. \A i \in Ids : ~In(i, "idle")' => i \in issued'
      BY <1>1, <2>1 DEF Inv, StartInv, In, repoVars
    <2>5. ASSUME NEW q \in Reqs, In(q, "launch")'
          PROVE  /\ svc'[q].id \in issued' /\ In(svc[q].id, "idle")'
                 /\ \A r \in Reqs : In(r, "launch")' /\ svc'[r].id = svc'[q].id => r = q
      <3>1. \A r \in Reqs : In(r, "launch")' => In(r, "launch") /\ svc'[r] = svc[r]
        BY <1>4, <1>7, DifferentWorkers DEF In
      <3>2. /\ svc'[q] = svc[q] /\ svc[q].id \in issued /\ In(svc[q].id, "idle")
            /\ \A r \in Reqs : In(r, "launch") /\ svc[r].id = svc[q].id => r = q
        BY <2>5, <3>1 DEF Inv, StartInv
      <3>3. svc[q].id \in Ids
        BY <3>2 DEF Inv, TypeOK, RepoTypeOK
      <3> QED BY <1>1, <2>1, <3>1, <3>2, <3>3 DEF In, repoVars
    <2> QED BY <2>2, <2>3, <2>4, <2>5 DEF StartInv
  <1>9. RequestWrites(p, s, CallOf("Delete", s))
    <2>1. startCancels' \subseteq Ids /\ ctxDone' \subseteq Procs
      BY <1>1, <1>3, DifferentWorkers DEF Inv, TypeOK, ServiceTypeOK, AdapterTypeOK
    <2> QED BY <1>1, <1>5, <1>6, <2>1 DEF RequestWrites, elsewhere, Inv, TypeOK
  <1>10. RowsKeep /\ "Delete" \in Calls
    BY <1>1, RowsUnchanged DEF Calls
  <1> QED BY <1>3, <1>4, <1>8, <1>9, <1>10, RequestCalls

\* Every step of a goroutine.
LEMMA GoroutineKeeps ==
    ASSUME Inv, NEW p \in Procs, Goroutine(p)
    PROVE  Inv'
  <1>1. UNCHANGED <<recVars, left>>
    BY DEF Goroutine
  <1>2. CASE p \in Reqs /\ RequestStep(p)
    BY <1>1, <1>2, LaunchKeeps, SetDesiredKeeps, AwaitKeeps, SettleKeeps, CancelStartKeeps,
       DeleteRowKeeps DEF RequestStep
  <1>3. CASE p \in Ids /\ StarterStep(p)
    BY <1>1, <1>3, StarterKeeps
  <1>4. CASE CallStep(p) /\ UNCHANGED <<repoVars, svcVars>>
    BY <1>1, <1>4, AdapterKeeps DEF others
  <1> QED BY <1>2, <1>3, <1>4 DEF Goroutine
-----------------------------------------------------------------------------
\* A step of the reconciler writes rows and takes events off the channel.
LEMMA ReconcileMoves ==
    ASSUME Inv, UNCHANGED <<daemonVars, adapterVars, svcVars, left>>,
           RepoTypeOK', issued' = issued, EventBusTypeOK', ReconcilerTypeOK',
           \A i \in Ids : byID'[i] # NoRow => Belongs(byID'[i].gid, i),
           Pending' \subseteq Pending, JudgeInv'
    PROVE  Inv'
  <1>1. DaemonKeeps /\ Grows /\ owner' = owner
    BY DaemonUnchanged DEF DaemonKeeps, daemonVars
  <1>2. UNCHANGED <<task, owner, followedBy, gidToID, call, ctxDone, svc, startCancels>>
    BY DEF daemonVars, adapterVars, svcVars
  <1>3. TypeOK'
    BY <1>1, <1>2 DEF TypeOK, DaemonKeeps, Inv, AdapterTypeOK, ServiceTypeOK
  <1>4. \A w \in Workers : FrameInv(w)' /\ Mine(call[w])'
    BY <1>1, <1>2, FrameKept
  <1>5. \A p \in Procs : ServiceInv(p)' /\ Belongs(svc[p].gid, svc[p].id)'
    BY <1>1, <1>2, ServiceKept, DifferentWorkers
  <1>6. GidsBelong'
    <2>1. \A i \in Rows' : Belongs(byID[i].gid, i)'
      BY <1>1 DEF Rows, Stored, Belongs
    <2>2. \A g \in Tracked' : Belongs(g, gidToID[g])'
      BY <1>2 DEF Inv, GidsBelong, Tracked, Belongs
    <2>3. \A e \in Pending' : Belongs(e.gid, e.id)' /\ Belongs(e.new, e.id)'
      BY <1>2 DEF Inv, GidsBelong, Belongs
    <2> QED BY <1>4, <1>5, <2>1, <2>2, <2>3 DEF GidsBelong, Mine
  <1>7. StartInv'
    BY <1>2 DEF Inv, StartInv, CancellableStarts, In
  <1> QED BY <1>1, <1>3, <1>4, <1>5, <1>6, <1>7 DEF Inv, DaemonKeeps

\* The event in hand, once there is one.
LEMMA HandKnown ==
    ASSUME Inv, inHand # NoEvent
    PROVE  inHand \in Event /\ inHand.id \in Ids /\ Mine(inHand) /\ inHand.new \in GidOrNone
  BY DEF Inv, TypeOK, ReconcilerTypeOK, Event, GidsBelong, Pending, Mine

LEMMA TakeEventKeeps ==
    ASSUME Inv, TakeEvent, UNCHANGED <<daemonVars, adapterVars, svcVars, left>>
    PROVE  Inv'
  <1>1. /\ inHand = NoEvent /\ events # <<>> /\ inHand' = Head(events)
        /\ events' = Tail(events) /\ UNCHANGED judged /\ UNCHANGED repoVars
    BY DEF TakeEvent
  <1>2. events \in Seq(Event) /\ Len(events) <= Cap
    BY DEF Inv, TypeOK, EventBusTypeOK
  <1> HIDE DEF Event
  <1>3. /\ Head(events) \in Event /\ Tail(events) \in Seq(Event)
        /\ Len(Tail(events)) = Len(events) - 1
        /\ \A i \in 1..Len(Tail(events)) : Tail(events)[i] = events[i + 1]
    BY <1>1, <1>2, HeadTailProperties
  <1>4. EventBusTypeOK' /\ inHand' \in Event
    BY <1>1, <1>2, <1>3, CapAssumption DEF EventBusTypeOK
  <1>5. Head(events) = events[1] /\ DOMAIN events = 1..Len(events) /\ Len(events) \in Nat
        /\ Len(events) > 0 /\ DOMAIN Tail(events) = 1..(Len(events) - 1)
    BY <1>1, <1>2, <1>3
  <1>6. Pending' \subseteq Pending
    <2>1. \A n \in DOMAIN events' : n + 1 \in DOMAIN events /\ events'[n] = events[n + 1]
      BY <1>1, <1>3, <1>5
    <2>2. 1 \in DOMAIN events /\ inHand' = events[1]
      BY <1>1, <1>5
    <2> QED BY <2>1, <2>2 DEF Pending
  <1>7. ~judged
    BY <1>1 DEF Inv, JudgeInv, NoEvent, TerminalTypes
  <1>8. JudgeInv' /\ ReconcilerTypeOK'
    <2>1. judged = FALSE /\ judged' = FALSE
      BY <1>1, <1>7 DEF Inv, TypeOK, ReconcilerTypeOK
    <2> QED BY <1>4, <2>1 DEF JudgeInv, StartMeetsNoComplete, ReconcilerTypeOK
  <1>9. RepoTypeOK' /\ issued' = issued
        /\ \A i \in Ids : byID'[i] # NoRow => Belongs(byID'[i].gid, i)
    BY <1>1, RowsUnchanged DEF RowsKeep, repoVars
  <1> QED BY <1>4, <1>6, <1>8, <1>9, ReconcileMoves

\* An event is done with: the row in hand gets a gid of its own, or none.
LEMMA RowWritten ==
    ASSUME Inv, UNCHANGED <<daemonVars, adapterVars, svcVars, left>>, UNCHANGED events,
           inHand # NoEvent, Finished, NEW clone,
           UpdateRow(clone) \/ UNCHANGED repoVars,
           Stored(inHand.id) /\ ~UNCHANGED repoVars =>
              clone \in Download /\ clone.loc = row.loc /\ Belongs(clone.gid, inHand.id)
    PROVE  Inv'
  <1>1. inHand' = NoEvent /\ judged' = FALSE /\ events' = events
    BY DEF Finished
  <1>2. inHand.id \in Ids
    BY HandKnown
  <1>3. RepoTypeOK' /\ issued' = issued
        /\ \A i \in Ids : byID'[i] # NoRow => Belongs(byID'[i].gid, i)
    <2>1. CASE UNCHANGED repoVars
      BY <2>1, RowsUnchanged DEF RowsKeep, repoVars
    <2>2. CASE UpdateRow(clone) /\ Stored(inHand.id) /\ ~UNCHANGED repoVars
      <3>1. /\ clone \in Download /\ clone.loc = byID[inHand.id].loc
            /\ Belongs(clone.gid, inHand.id)
        BY <2>2 DEF row
      <3>2. Set(inHand.id, clone)
        BY <2>2 DEF UpdateRow, Set
      <3>3. RepoTypeOK' /\ issued' = issued /\ byID' = [byID EXCEPT ![inHand.id] = clone]
        BY <1>2, <2>2, <3>1, <3>2, UpdateMoves DEF Inv
      <3>4. byID \in [Ids -> Download \cup {NoRow}] /\ \A i \in Rows : Belongs(byID[i].gid, i)
        BY DEF Inv, TypeOK, RepoTypeOK, GidsBelong
      <3> QED BY <1>2, <3>1, <3>3, <3>4 DEF Rows, Stored
    <2> QED BY <2>1, <2>2 DEF UpdateRow
  <1>4. Pending' \subseteq Pending
    BY <1>1 DEF Pending
  <1>5. EventBusTypeOK' /\ ReconcilerTypeOK' /\ JudgeInv'
    BY <1>1
    DEF Inv, TypeOK, EventBusTypeOK, ReconcilerTypeOK, JudgeInv, StartMeetsNoComplete
  <1> QED BY <1>3, <1>4, <1>5, ReconcileMoves

LEMMA ReconcileKeeps ==
    ASSUME Inv, Reconcile
    PROVE  Inv'
  <1>1. UNCHANGED <<daemonVars, adapterVars, svcVars, left>>
    BY DEF Reconcile
  <1>2. CASE TakeEvent
    BY <1>1, <1>2, TakeEventKeeps
  <1>3. CASE PassOver
    <2>1. inHand # NoEvent
      BY <1>3 DEF PassOver, Holding, NoEvent
    <2> QED BY <1>1, <1>3, <2>1, RowWritten DEF PassOver
  <1>4. CASE ApplyPaused
    <2> DEFINE clone == [row EXCEPT !.status = "Paused"]
    <2>1. inHand # NoEvent /\ Finished /\ UNCHANGED events /\ UpdateRow(clone)
      BY <1>4 DEF ApplyPaused, Holding, NoEvent
    <2>2. Stored(inHand.id) =>
            clone \in Download /\ clone.loc = row.loc /\ Belongs(clone.gid, inHand.id)
      BY <2>1, HandKnown, RowRead DEF row, Download, Statuses
    <2> QED BY <1>1, <2>1, <2>2, RowWritten
  <1>5. CASE ApplyGid
    <2> DEFINE clone == [row EXCEPT !.gid = inHand.new]
    <2>1. inHand # NoEvent /\ Finished /\ UNCHANGED events /\ UpdateRow(clone)
      BY <1>5 DEF ApplyGid, Holding, NoEvent
    <2>2. Stored(inHand.id) =>
            clone \in Download /\ clone.loc = row.loc /\ Belongs(clone.gid, inHand.id)
      BY <2>1, HandKnown, RowRead DEF row, Download, Mine
    <2> QED BY <1>1, <2>1, <2>2, RowWritten
  <1>6. CASE Judge
    <2>1. /\ inHand.type \in TerminalTypes \cup {"Start"} /\ ~judged /\ inHand # NoEvent
          /\ UNCHANGED repoVars /\ UNCHANGED events
      BY <1>6 DEF Judge, Holding, NoEvent, TerminalTypes
    <2>2. CASE Finished
      BY <1>1, <2>1, <2>2, RowWritten
    <2>3. CASE judged' = TRUE /\ inHand' = inHand /\ (inHand.type = "Start" => StartExpected)
      <3>1. JudgeInv'
        BY <2>1, <2>3 DEF JudgeInv, StartMeetsNoComplete, StartExpected, row, Stored, repoVars
      <3>2. RepoTypeOK' /\ issued' = issued
            /\ \A i \in Ids : byID'[i] # NoRow => Belongs(byID'[i].gid, i)
        BY <2>1, RowsUnchanged DEF RowsKeep, repoVars
      <3>3. EventBusTypeOK' /\ ReconcilerTypeOK' /\ Pending' \subseteq Pending
        BY <2>1, <2>3 DEF Inv, TypeOK, EventBusTypeOK, ReconcilerTypeOK, Pending
      <3> QED BY <1>1, <3>1, <3>2, <3>3, ReconcileMoves
    <2> QED BY <1>6, <2>2, <2>3 DEF Judge
  <1>7. CASE Apply
    <2> DEFINE clone == IF inHand.type = "Start" THEN [row EXCEPT !.status = "Active"]
                        ELSE [row EXCEPT !.status = inHand.type, !.gid = NoGid]
    <2>1. /\ inHand.type \in TerminalTypes \cup {"Start"} /\ inHand # NoEvent
          /\ Finished /\ UNCHANGED events /\ UpdateRow(clone)
      BY <1>7 DEF Apply, Inv, JudgeInv, NoEvent, TerminalTypes
    <2>2. Stored(inHand.id) =>
            clone \in Download /\ clone.loc = row.loc /\ Belongs(clone.gid, inHand.id)
      <3>1. Stored(inHand.id) => row \in Download /\ Belongs(row.gid, inHand.id)
        BY <2>1, HandKnown, RowRead DEF row
      <3> QED BY <2>1, <3>1 DEF Download, Statuses, TerminalTypes, GidOrNone, Belongs
    <2> HIDE DEF clone
    <2> QED BY <1>1, <2>1, <2>2, RowWritten
  <1> QED BY <1>2, <1>3, <1>4, <1>5, <1>6, <1>7 DEF Reconcile, ReconcilerStep
-----------------------------------------------------------------------------
LEMMA NoEvents ==
    /\ events = <<>> => EventBusTypeOK
    /\ events' = <<>> => EventBusTypeOK'
  <1>1. <<>> \in Seq(Event) /\ Len(<<>>) <= Cap
    BY EmptySeq, CapAssumption
  <1> QED BY <1>1 DEF EventBusTypeOK

LEMMA RestartKeeps ==
    ASSUME Inv, Restart
    PROVE  Inv'
  <1>1. /\ left > 0 /\ left' = left - 1
        /\ svc' = [p \in Procs |->
                     IF p \in Ids /\ svc[p].pc # "idle" THEN [Idle EXCEPT !.pc = "done"] ELSE Idle]
        /\ startCancels' = {} /\ gidToID' = [g \in Gids |-> NoId]
        /\ call' = [w \in Workers |-> NoCall] /\ ctxDone' = {}
        /\ events' = <<>> /\ inHand' = NoEvent /\ judged' = FALSE
        /\ notes' = <<>> /\ online' = TRUE
        /\ UNCHANGED <<task, owner, followedBy>> /\ UNCHANGED repoVars
    BY DEF Restart
  <1>2. DaemonTypeOK' /\ DaemonInv'
    BY <1>1 DEF Inv, TypeOK, DaemonTypeOK, DaemonInv
  <1>3. NoCall \in Frame /\ NoCall.pc = "idle" /\ NoCall.gid = NoGid /\ NoCall.new = NoGid
    BY DEF NoCall, Frame, IdOrNone, GidOrNone
  <1>4. \A p \in Procs : /\ svc'[p] \in ServiceFrame /\ svc'[p].gid = NoGid
                         /\ svc'[p].pc = IF p \in Ids /\ svc[p].pc # "idle" THEN "done" ELSE "idle"
    BY <1>1 DEF Idle, ServiceFrame, IdOrNone, GidOrNone
  <1>5. svc' \in [Procs -> ServiceFrame]
    BY <1>1, <1>4
  <1>6. TypeOK'
    <2>1. RepoTypeOK' /\ left' \in 0..MaxRequests
      BY <1>1, MaxRequestsAssumption DEF Inv, TypeOK, RepoTypeOK, repoVars
    <2>2. AdapterTypeOK'
      BY <1>1, <1>3 DEF AdapterTypeOK, IdOrNone
    <2>3. EventBusTypeOK'
      BY <1>1, NoEvents
    <2>4. ServiceTypeOK' /\ ReconcilerTypeOK'
      BY <1>1, <1>5 DEF ServiceTypeOK, ReconcilerTypeOK
    <2> QED BY <1>2, <2>1, <2>2, <2>3, <2>4 DEF TypeOK
  <1>7. \A w \in Workers : FrameInv(w)' /\ Mine(call[w])'
    BY <1>1, <1>3 DEF FrameInv, WithGid, Mine, Belongs
  <1>8. \A p \in Procs : ServiceInv(p)' /\ Belongs(svc[p].gid, svc[p].id)'
    BY <1>1, <1>3, <1>4, DifferentWorkers DEF ServiceInv, In, Belongs
  <1>9. GidsBelong'
    <2>1. \A i \in Rows' : Belongs(byID[i].gid, i)'
      BY <1>1 DEF Inv, GidsBelong, Rows, Stored, repoVars, Belongs
    <2>2. Tracked' = {} /\ Pending' = {}
      BY <1>1 DEF Tracked, Pending
    <2> QED BY <1>7, <1>8, <2>1, <2>2 DEF GidsBelong, Mine
  <1>10. StartInv'
    <2>1. \A i \in Ids : In(i, "idle")' <=> In(i, "idle")
      BY <1>4, DifferentWorkers DEF In
    <2>2. CancellableStarts'
      BY <1>1, <1>4, DifferentWorkers DEF CancellableStarts
    <2>3. \A p \in Reqs : ~In(p, "launch")'
      BY <1>4, DifferentWorkers DEF In
    <2> QED BY <1>1, <2>1, <2>2, <2>3 DEF Inv, StartInv, repoVars
  <1>11. JudgeInv'
    BY <1>1 DEF JudgeInv, StartMeetsNoComplete
  <1> QED BY <1>2, <1>6, <1>7, <1>8, <1>9, <1>10, <1>11 DEF Inv

LEMMA InitInv ==
    ASSUME Init
    PROVE  Inv
  <1>1. /\ byID = [i \in Ids |-> NoRow] /\ fpIndex = [f \in Fingerprints |-> NoId] /\ issued = {}
        /\ task = [g \in Gids |-> "none"] /\ owner = [g \in Gids |-> NoId]
        /\ followedBy = [g \in Gids |-> NoGid] /\ notes = <<>> /\ online = TRUE
        /\ events = <<>> /\ gidToID = [g \in Gids |-> NoId]
        /\ call = [w \in Workers |-> NoCall] /\ ctxDone = {}
        /\ svc = [p \in Procs |-> Idle] /\ startCancels = {}
        /\ inHand = NoEvent /\ judged = FALSE /\ left = MaxRequests
    BY DEF Init, RepoInit, DaemonInit, EventBusInit, AdapterInit, ServiceInit, ReconcilerInit
  <1>2. NoCall \in Frame /\ NoCall.pc = "idle" /\ NoCall.gid = NoGid /\ NoCall.new = NoGid
    BY DEF NoCall, Frame, IdOrNone, GidOrNone
  <1>3. Idle \in ServiceFrame /\ Idle.pc = "idle" /\ Idle.gid = NoGid
    BY DEF Idle, ServiceFrame, IdOrNone, GidOrNone
  <1>4. TypeOK /\ DaemonInv
    <2>1. DaemonTypeOK /\ DaemonInv
      BY <1>1 DEF DaemonTypeOK, DaemonInv, IdOrNone, GidOrNone
    <2>2. RepoTypeOK /\ AdapterTypeOK
      BY <1>1, <1>2 DEF RepoTypeOK, AdapterTypeOK, IdOrNone
    <2>3. EventBusTypeOK
      BY <1>1, NoEvents
    <2>4. ServiceTypeOK /\ ReconcilerTypeOK
      BY <1>1, <1>3 DEF ServiceTypeOK, ReconcilerTypeOK
    <2>5. left \in 0..MaxRequests
      BY <1>1, MaxRequestsAssumption
    <2> QED BY <2>1, <2>2, <2>3, <2>4, <2>5 DEF TypeOK
  <1>5. \A w \in Workers : FrameInv(w) /\ Mine(call[w])
    BY <1>1, <1>2 DEF FrameInv, WithGid, Mine, Belongs
  <1>6. \A p \in Procs : ServiceInv(p) /\ Belongs(svc[p].gid, svc[p].id)
    BY <1>1, <1>2, <1>3, DifferentWorkers DEF ServiceInv, In, Belongs
  <1>7. Rows = {} /\ Tracked = {} /\ Pending = {}
    BY <1>1 DEF Rows, Stored, Tracked, Pending
  <1>8. StartInv /\ JudgeInv
    BY <1>1, <1>3, DifferentWorkers
    DEF StartInv, CancellableStarts, In, JudgeInv, StartMeetsNoComplete
  <1> QED BY <1>4, <1>5, <1>6, <1>7, <1>8 DEF Inv, GidsBelong, Mine

LEMMA NextKeeps ==
    ASSUME Inv, [Next]_vars
    PROVE  Inv'
  <1>1. CASE NotificationLoop \/ PollLoop
    BY <1>1, AdapterKeeps DEF NotificationLoop, PollLoop, others
  <1>2. CASE UNCHANGED vars
    BY <1>2, DaemonUnchanged, FramesKept DEF vars, others, adapterVars
  <1> QED BY <1>1, <1>2, ClientKeeps, GoroutineKeeps, ReconcileKeeps, DaemonActs, RestartKeeps
          DEF Next, Rest
-----------------------------------------------------------------------------
\* Inv is an invariant: it holds at first and every step keeps it.
THEOREM Invariance == Spec => []Inv
  <1>1. Init => Inv
    BY InitInv
  <1>2. Inv /\ [Next]_vars => Inv'
    BY NextKeeps
  <1> QED BY <1>1, <1>2, PTL DEF Spec

\* Every variable of every component keeps its type (TypeOK).
THEOREM TypeCorrect == Spec => []TypeOK
  <1>1. Inv => TypeOK
    BY DEF Inv
  <1> QED BY <1>1, Invariance, PTL

\* A gid never stands next to a download that its task does not work for, in
\* a row, in gidToID, in an event or in a frame (GidsBelong).
THEOREM NothingMixedUp == Spec => []GidsBelong
  <1>1. Inv => GidsBelong
    BY DEF Inv
  <1> QED BY <1>1, Invariance, PTL

\* startCancels has the background starts that run and are not cancelled, no
\* more and no fewer (CancellableStarts; download.go 127-135, 328-333).
THEOREM StartsStayCancellable == Spec => []CancellableStarts
  <1>1. Inv => CancellableStarts
    BY DEF Inv, StartInv
  <1> QED BY <1>1, Invariance, PTL

\* No Start event is applied to a row that has become Complete meanwhile
\* (StartMeetsNoComplete; reconciler.go 80-90, 162).
THEOREM StartReopensNothing == Spec => []StartMeetsNoComplete
  <1>1. Inv => StartMeetsNoComplete
    BY DEF Inv, JudgeInv
  <1> QED BY <1>1, Invariance, PTL
-----------------------------------------------------------------------------
\* A request leaves the counter "deleting" by DeleteRow, or in a crash, which
\* deletes no row.
LEMMA DeletingEnds ==
    ASSUME Inv, Next, NEW p \in Reqs, In(p, "deleting"), ~In(p, "deleting")'
    PROVE  DeleteRow(p) \/ UNCHANGED repoVars
  <1> USE DifferentWorkers
  <1>1. svc \in [Procs -> ServiceFrame] /\ svc[p].pc = "deleting"
    BY DEF Inv, TypeOK, ServiceTypeOK, In
  <1>2. svc'[p] # svc[p]
    BY <1>1 DEF In
  <1>3. ASSUME NEW q \in Reqs, Client(q)
        PROVE  FALSE
    <2>1. q # p
      BY <1>1, <1>3 DEF Client, Request, AddRequest, UpdateRequest, DeleteRequest, In
    <2> QED BY <1>1, <1>2, <1>3, <2>1
            DEF Client, Request, AddRequest, UpdateRequest, DeleteRequest, Begin
  <1>4. ASSUME NEW q \in Reqs, RequestStep(q)
        PROVE  DeleteRow(p)
    <2>1. CASE q = p
      BY <1>1, <1>4, <2>1
      DEF RequestStep, Launch, SetDesired, CallFailed, SaveGid, CallDone, Settle, CancelStart, In
    <2>2. CASE q # p
      <3>1. CASE Launch(q)
        <4>1. svc[q].id \in Ids
          BY <3>1, RequestAtWork DEF Launch, In
        <4> QED BY <1>1, <1>2, <2>2, <3>1, <4>1 DEF Launch
      <3>2. CASE ~Launch(q)
        BY <1>1, <1>2, <1>4, <2>2, <3>2
        DEF RequestStep, SetDesired, CallFailed, SaveGid, CallDone, Settle, CancelStart,
            DeleteRow, Step, EndRequest
      <3> QED BY <3>1, <3>2
    <2> QED BY <2>1, <2>2
  <1>5. ASSUME NEW q \in Ids, StarterStep(q)
        PROVE  FALSE
    BY <1>1, <1>2, <1>5 DEF StarterStep, SettleStart, Cleanup, Step
  <1>6. CASE UNCHANGED svcVars
    BY <1>2, <1>6 DEF svcVars
  <1>7. CASE Restart
    BY <1>7 DEF Restart
  <1> QED BY <1>3, <1>4, <1>5, <1>6, <1>7
          DEF Next, Goroutine, NotificationLoop, PollLoop, Reconcile, Daemon, Rest, vars, svcVars

\* When a Delete removes the row, the task whose gid it has read is over
\* (DeleteEndsTask; download.go 335-345, delete.go 22-25).
THEOREM DeletedTaskIsOver == Spec => DeleteEndsTask
  <1> DEFINE Ends == \A p \in Reqs :
                In(p, "deleting") /\ ~In(p, "deleting")' /\ svc[p].gid # NoGid
                  /\ Stored(svc[p].id) /\ byID'[svc[p].id] = NoRow
                    => task[svc[p].gid] \notin Live
  <1>1. Inv /\ [Next]_vars => [Ends]_vars
    <2> SUFFICES ASSUME Inv, Next, NEW p \in Reqs, In(p, "deleting"), ~In(p, "deleting")',
                        svc[p].gid # NoGid, Stored(svc[p].id), byID'[svc[p].id] = NoRow
                 PROVE  task[svc[p].gid] \notin Live
      OBVIOUS
    <2>1. DeleteRow(p)
      BY DeletingEnds DEF repoVars, Stored
    <2>2. Returned(p, {"ok"})
      BY <2>1 DEF DeleteRow, repoVars, Stored
    <2>3. call[p].gid = svc[p].gid /\ PastCancel(call[p])
      BY <2>2, DifferentWorkers DEF Inv, ServiceInv, Returned, At, PastCancel
    <2> QED BY <2>3, DifferentWorkers DEF Inv, ServiceInv
  <1>2. Spec => [][Next]_vars
    BY DEF Spec
  <1>3. DeleteEndsTask <=> [][Ends]_vars
    BY DEF DeleteEndsTask
  <1> HIDE DEF Ends
  <1> QED BY <1>1, <1>2, <1>3, Invariance, PTL

\* No step of a call leads back to its first.
LEMMA CallsGoOn ==
    ASSUME TypeOK, NEW i \in Ids, NEW p \in Procs, CallStep(p), At(i, "Start")'
    PROVE  At(i, "Start")
  <1>1. /\ i \in Workers /\ p \in Workers /\ p \notin Loops /\ call \in [Workers -> Frame]
        /\ p # Loop /\ call[p] \in Frame
    BY DifferentWorkers, WorkersAssumption DEF TypeOK, AdapterTypeOK, Loops
  <1>2. ASSUME NEW r, Return(p, r)
        PROVE  call'[p].pc = "return" /\ \A w \in Workers \ {p} : call'[w] = call[w]
    BY <1>1, <1>2 DEF Return, Frame
  <1>3. ASSUME NEW pc, Goto(p, pc)
        PROVE  call'[p].pc = pc /\ \A w \in Workers \ {p} : call'[w] = call[w]
    BY <1>1, <1>3 DEF Goto, Frame
  <1>4. call'[p].pc # "Start" /\ \A w \in Workers \ {p} : call'[w] = call[w]
    <2>1. CASE AddUri(p) \/ AskFollowedBy(p) \/ Look(p) \/ ReportGid(p)
      <3>1. CASE AddUri(p)
        BY <1>1, <3>1 DEF AddUri, Frame
      <3>2. CASE AskFollowedBy(p)
        BY <1>1, <3>2 DEF AskFollowedBy, Frame
      <3>3. CASE Look(p)
        BY <1>1, <3>3 DEF Look, Frame
      <3>4. CASE ReportGid(p)
        BY <1>1, <3>4 DEF ReportGid, Frame
      <3> QED BY <2>1, <3>1, <3>2, <3>3, <3>4
    <2>2. CASE AddUriRefused(p) \/ AddUriLost(p) \/ ReportMeta(p) \/ PurgeResult(p)
      BY <1>2, <2>2 DEF AddUriRefused, AddUriLost, ReportMeta, PurgeResult
    <2>3. CASE Track(p) \/ ReportStart(p) \/ Swap(p) \/ ReportEnd(p)
      BY <1>3, <2>3 DEF Track, ReportStart, Swap, ReportEnd
    <2>4. CASE Pause(p) \/ Unpause(p) \/ ReportPaused(p) \/ Untrack(p)
      BY <1>1, <1>2, <1>3, <2>4 DEF Pause, Unpause, ReportPaused, Untrack
    <2>5. CASE Remove(p)
      <3>1. PICK answer \in {"ok", "missing", "error"} :
              IF answer = "error" THEN Return(p, "error")
              ELSE call' = [call EXCEPT ![p].pc = IF answer = "ok" THEN "repEnd" ELSE "untrack",
                                        ![p].result = answer]
        BY <2>5 DEF Remove
      <3>2. CASE answer = "error"
        BY <1>2, <3>1, <3>2
      <3>3. CASE answer # "error"
        BY <1>1, <3>1, <3>3 DEF Frame
      <3> QED BY <3>2, <3>3
    <2> QED BY <2>1, <2>2, <2>3, <2>4, <2>5 DEF CallStep
  <1> QED BY <1>1, <1>4 DEF At

\* A download is started in the background at most once (StartedOnce;
\* download.go 114-116): only Launch starts it, and only for the Add that
\* created it.
THEOREM StartsOnce == Spec => StartedOnce
  <1> DEFINE Once == \A i \in Ids : At(i, "Start")' /\ ~At(i, "Start") => In(i, "idle")
  <1>1. Inv /\ [Next]_vars => [Once]_vars
    <2> SUFFICES ASSUME Inv, Next, NEW i \in Ids, At(i, "Start")', ~At(i, "Start")
                 PROVE  In(i, "idle")
      OBVIOUS
    <2> USE DifferentWorkers
    <2>1. /\ TypeOK /\ call \in [Workers -> Frame] /\ i \in Workers /\ call'[i] # call[i]
          /\ i \notin Reqs /\ i \notin Loops /\ call'[i] # NoCall
      BY WorkersAssumption DEF Inv, TypeOK, AdapterTypeOK, At, NoCall
    <2>2. CASE UNCHANGED call
      BY <2>1, <2>2
    <2>3. ASSUME NEW p \in Reqs, RequestStep(p)
          PROVE  In(i, "idle")
      <3>1. CASE Launch(p)
        <4>1. PICK id \in Ids : id = svc[p].id
          BY <3>1, RequestAtWork DEF Launch, In
        <4>2. In(id, "idle")
          BY <3>1, <4>1 DEF Launch, Inv, StartInv
        <4>3. id = i
          BY <2>1, <3>1, <4>1 DEF Launch, Invoke
        <4> QED BY <4>2, <4>3
      <3>2. CASE ~Launch(p)
        BY <2>1, <2>3, <3>2
        DEF RequestStep, SetDesired, CallFailed, SaveGid, CallDone, Settle, CancelStart, DeleteRow,
            Invoke, TakeBack
      <3> QED BY <3>1, <3>2
    <2>4. ASSUME NEW j \in Ids, StarterStep(j)
          PROVE  FALSE
      BY <2>1, <2>4 DEF StarterStep, SettleStart, Cleanup, TakeBack
    <2>5. ASSUME NEW p \in Procs, CallStep(p)
          PROVE  FALSE
      BY <2>1, <2>5, CallsGoOn
    <2>6. CASE LoopStep \/ PollStep
      BY <2>1, <2>6
      DEF LoopStep, PollStep, TakeNote, PollTask, ReportProgress, Look, Swap, ReportGid, ReportMeta,
          ReportPaused, ReportEnd, Untrack, Return, Goto, Loops
    <2>7. CASE Restart
      BY <2>1, <2>7 DEF Restart
    <2>8. ASSUME NEW p \in Reqs, Client(p)
          PROVE  UNCHANGED call
      BY <2>8 DEF Client, Request, AddRequest, UpdateRequest, DeleteRequest
    <2> QED BY <2>2, <2>3, <2>4, <2>5, <2>6, <2>7, <2>8
            DEF Next, Goroutine, NotificationLoop, PollLoop, Reconcile, Daemon, Rest, vars,
                adapterVars
  <1>2. Spec => [][Next]_vars
    BY DEF Spec
  <1>3. StartedOnce <=> [][Once]_vars
    BY DEF StartedOnce
  <1> HIDE DEF Once
  <1> QED BY <1>1, <1>2, <1>3, Invariance, PTL
-----------------------------------------------------------------------------
\* The calls of the repository the program makes: an Add, an Update that keeps
\* the locator, a Delete of a stored row.
RepoCall ==
    \/ UNCHANGED repoVars
    \/ \E id \in Ids, d \in Download, created \in BOOLEAN :
         AddWithFingerprint(d, FpOf[d.loc], id, created)
    \/ \E id \in Rows, d \in Download : d.loc = byID[id].loc /\ Update(id, d)
    \/ \E id \in Rows : Delete(id)

LEMMA SetCalls ==
    ASSUME NEW id \in Ids, NEW clone, Set(id, clone),
           Stored(id) => clone \in Download /\ clone.loc = byID[id].loc
    PROVE  RepoCall
  BY DEF Set, RepoCall, Rows

\* SetFailed, SetGid and the row a wish leaves behind.
LEMMA ServiceSets ==
    ASSUME Inv, NEW id \in Ids
    PROVE  /\ SetFailed(id) => RepoCall
           /\ \A g \in GidOrNone : SetGid(id, g) => RepoCall
           /\ \A wish \in Wishes : Set(id, Settled(byID[id], wish)) => RepoCall
  <1>1. ASSUME Stored(id)
        PROVE  byID[id] \in Download
    BY <1>1, RowRead
  <1>2. SetFailed(id) => RepoCall
    <2> DEFINE clone == [byID[id] EXCEPT !.status = "Failed"]
    <2>1. Stored(id) => clone \in Download /\ clone.loc = byID[id].loc
      BY <1>1 DEF Download, Statuses
    <2> QED BY <2>1, SetCalls DEF SetFailed
  <1>3. ASSUME NEW g \in GidOrNone, SetGid(id, g)
        PROVE  RepoCall
    <2> DEFINE clone == [byID[id] EXCEPT !.gid = g]
    <2>1. Stored(id) => clone \in Download /\ clone.loc = byID[id].loc
      BY <1>1 DEF Download
    <2> QED BY <1>3, <2>1, SetCalls DEF SetGid
  <1>4. ASSUME NEW wish \in Wishes, Set(id, Settled(byID[id], wish))
        PROVE  RepoCall
    <2> DEFINE clone == Settled(byID[id], wish)
    <2>1. Stored(id) => clone \in Download /\ clone.loc = byID[id].loc
      BY <1>1 DEF Settled, Download, Statuses, Wishes, GidOrNone
    <2> HIDE DEF clone
    <2>2. Set(id, clone)
      BY <1>4 DEF clone
    <2> QED BY <2>1, <2>2, SetCalls
  <1> QED BY <1>2, <1>3, <1>4

\* A client's request stores a download, or only reads.
LEMMA ClientCalls ==
    ASSUME NEW p \in Reqs, Client(p)
    PROVE  RepoCall
  <1>1. ASSUME NEW loc \in Locators, NEW status \in Posted, AddRequest(p, loc, status)
        PROVE  RepoCall
    <2> DEFINE d == [loc |-> loc, gid |-> NoGid, status |-> status, desired |-> status]
    <2>1. d \in Download /\ d.loc = loc
      BY PostedAssumption DEF Download, GidOrNone, Statuses, Desired, Wishes
    <2>2. PICK id \in Ids, created \in BOOLEAN : AddWithFingerprint(d, FpOf[loc], id, created)
      BY <1>1 DEF AddRequest
    <2> HIDE DEF d
    <2>3. AddWithFingerprint(d, FpOf[d.loc], id, created)
      BY <2>1, <2>2
    <2> QED BY <2>1, <2>3 DEF RepoCall
  <1>2. CASE UNCHANGED repoVars
    BY <1>2 DEF RepoCall
  <1> QED BY <1>1, <1>2 DEF Client, Request, UpdateRequest, DeleteRequest

\* So do the requests and background starts at work ...
LEMMA GoroutineCalls ==
    ASSUME Inv, NEW p \in Procs, Goroutine(p)
    PROVE  RepoCall
  <1>0. UNCHANGED repoVars => RepoCall
    BY DEF RepoCall
  <1>1. CASE p \in Reqs /\ RequestStep(p)
    <2>1. CASE Launch(p) \/ CallDone(p) \/ CancelStart(p)
      BY <1>0, <2>1 DEF Launch, CallDone, CancelStart
    <2>2. CASE SetDesired(p)
      <3> DEFINE f == svc[p]
                 clone == [byID[f.id] EXCEPT !.desired = f.wish]
      <3>1. f.id \in Ids /\ f.wish \in Wishes
        BY <2>2, RequestAtWork DEF SetDesired, In
      <3>2. CASE ~Stored(f.id)
        BY <1>0, <2>2, <3>2 DEF SetDesired
      <3>3. CASE Stored(f.id)
        <4>1. clone \in Download /\ clone.loc = byID[f.id].loc
          BY <3>1, <3>3, RowRead DEF Download, Desired
        <4>2. Update(f.id, clone)
          BY <2>2, <3>3 DEF SetDesired
        <4> HIDE DEF clone
        <4> QED BY <3>1, <3>3, <4>1, <4>2 DEF RepoCall, Rows
      <3> QED BY <3>2, <3>3
    <2>3. CASE CallFailed(p) \/ SaveGid(p)
      <3>1. svc[p].pc = "await" /\ call[p].pc = "return"
        BY <2>3 DEF CallFailed, SaveGid, In, Returned, At
      <3>2. svc[p].id \in Ids /\ call[p].gid \in GidOrNone
        BY <3>1, RequestAtWork, AtWork, DifferentWorkers
      <3> QED BY <2>3, <3>2, ServiceSets DEF CallFailed, SaveGid
    <2>4. CASE Settle(p)
      <3>1. svc[p].id \in Ids /\ svc[p].wish \in Wishes
        BY <2>4, RequestAtWork DEF Settle, In
      <3> QED BY <2>4, <3>1, ServiceSets DEF Settle
    <2>5. CASE DeleteRow(p)
      <3>1. svc[p].id \in Ids
        BY <2>5, RequestAtWork DEF DeleteRow, In
      <3>2. Delete(svc[p].id) \/ UNCHANGED repoVars
        BY <2>5 DEF DeleteRow
      <3> QED BY <1>0, <3>1, <3>2 DEF Delete, RepoCall, Rows
    <2> QED BY <1>1, <2>1, <2>2, <2>3, <2>4, <2>5 DEF RequestStep
  <1>2. CASE p \in Ids /\ StarterStep(p)
    <2>1. CASE SettleStart(p)
      <3>1. /\ In(p, "starting") /\ call[p].pc = "return"
            /\ SetGid(p, call[p].gid) \/ SetFailed(p) \/ UNCHANGED repoVars
        BY <2>1 DEF SettleStart, Returned, At
      <3>2. call[p].gid \in GidOrNone
        BY <3>1, AtWork, DifferentWorkers
      <3> QED BY <1>0, <1>2, <3>1, <3>2, ServiceSets
    <2>2. CASE Cleanup(p)
      BY <1>0, <2>2 DEF Cleanup
    <2> QED BY <1>2, <2>1, <2>2 DEF StarterStep
  <1> QED BY <1>0, <1>1, <1>2 DEF Goroutine

\* ... and the reconciler.
LEMMA ReconcileCalls ==
    ASSUME Inv, Reconcile
    PROVE  RepoCall
  <1>1. ASSUME NEW clone, UpdateRow(clone), inHand # NoEvent,
               Stored(inHand.id) => clone \in Download /\ clone.loc = row.loc
        PROVE  RepoCall
    BY <1>1, HandKnown, SetCalls DEF UpdateRow, Set, row
  <1>2. CASE TakeEvent \/ PassOver \/ Judge
    BY <1>2 DEF TakeEvent, PassOver, Judge, RepoCall
  <1>3. CASE ApplyPaused
    <2> DEFINE clone == [row EXCEPT !.status = "Paused"]
    <2>1. inHand # NoEvent /\ UpdateRow(clone)
      BY <1>3 DEF ApplyPaused, Holding, NoEvent
    <2>2. Stored(inHand.id) => clone \in Download /\ clone.loc = row.loc
      BY <2>1, HandKnown, RowRead DEF row, Download, Statuses
    <2> QED BY <1>1, <2>1, <2>2
  <1>4. CASE ApplyGid
    <2> DEFINE clone == [row EXCEPT !.gid = inHand.new]
    <2>1. inHand # NoEvent /\ UpdateRow(clone)
      BY <1>4 DEF ApplyGid, Holding, NoEvent
    <2>2. Stored(inHand.id) => clone \in Download /\ clone.loc = row.loc
      BY <2>1, HandKnown, RowRead DEF row, Download
    <2> QED BY <1>1, <2>1, <2>2
  <1>5. CASE Apply
    <2> DEFINE clone == IF inHand.type = "Start" THEN [row EXCEPT !.status = "Active"]
                        ELSE [row EXCEPT !.status = inHand.type, !.gid = NoGid]
    <2>1. inHand.type \in TerminalTypes \cup {"Start"} /\ inHand # NoEvent /\ UpdateRow(clone)
      BY <1>5 DEF Apply, Inv, JudgeInv, NoEvent, TerminalTypes
    <2>2. Stored(inHand.id) => clone \in Download /\ clone.loc = row.loc
      <3>1. Stored(inHand.id) => row \in Download
        BY <2>1, HandKnown, RowRead DEF row
      <3> QED BY <2>1, <3>1 DEF Download, Statuses, TerminalTypes, GidOrNone
    <2> HIDE DEF clone
    <2> QED BY <1>1, <2>1, <2>2
  <1> QED BY <1>2, <1>3, <1>4, <1>5 DEF Reconcile, ReconcilerStep

LEMMA NextCalls ==
    ASSUME Inv, [Next]_vars
    PROVE  RepoCall
  <1>1. CASE NotificationLoop \/ PollLoop \/ Daemon \/ Restart \/ UNCHANGED vars
    BY <1>1 DEF NotificationLoop, PollLoop, Daemon, Restart, vars, repoVars, RepoCall
  <1> QED BY <1>1, ClientCalls, GoroutineCalls, ReconcileCalls DEF Next, Rest

\* The index leads from a fingerprint to an id if and only if that id is
\* stored and has that fingerprint (inmem.go 83-147).
RowsIndexed ==
    \A f \in Fingerprints, i \in Ids :
        fpIndex[f] = i <=> Stored(i) /\ FpOf[byID[i].loc] = f

StoreInv == RepoTypeOK /\ Rows \subseteq issued /\ RowsIndexed

\* A call keeps the index exact, and makes no row under an id issued before.
LEMMA CallKeepsStore ==
    ASSUME StoreInv, RepoCall
    PROVE  StoreInv' /\ \A i \in issued : ~Stored(i) => byID'[i] = NoRow
  <1>0. /\ byID \in [Ids -> Download \cup {NoRow}] /\ fpIndex \in [Fingerprints -> IdOrNone]
        /\ issued \subseteq Ids /\ Rows \subseteq issued /\ NoId \notin Ids
        /\ \A i \in Rows : byID[i] \in Download /\ FpOf[byID[i].loc] \in Fingerprints
    BY IdsAssumption, FpOfAssumption DEF StoreInv, RepoTypeOK, Rows, Stored, Download
  <1>1. CASE UNCHANGED repoVars
    BY <1>0, <1>1 DEF StoreInv, RepoTypeOK, RowsIndexed, Rows, Stored, repoVars
  <1>2. ASSUME NEW id \in Ids, NEW d \in Download, GetByFingerprint(FpOf[d.loc]) = NoId,
               Insert(id, d), fpIndex' = [fpIndex EXCEPT ![FpOf[d.loc]] = id]
        PROVE  StoreInv' /\ \A i \in issued : ~Stored(i) => byID'[i] = NoRow
    <2> DEFINE f == FpOf[d.loc]
    <2>1. f \in Fingerprints /\ d # NoRow /\ d \in Download
      BY FpOfAssumption, NoRowAssumption DEF Download
    <2>2. /\ id \notin issued /\ issued' = issued \cup {id}
          /\ byID' = [byID EXCEPT ![id] = d] /\ fpIndex' = [fpIndex EXCEPT ![f] = id]
      BY <1>2 DEF Insert
    <2>3. \A i \in Ids : ~(Stored(i) /\ FpOf[byID[i].loc] = f)
      BY <1>0, <1>2, <2>1 DEF StoreInv, RowsIndexed, GetByFingerprint, Stored, IdOrNone
    <2> HIDE DEF f
    <2>4. RepoTypeOK' /\ Rows' \subseteq issued' /\ \A i \in issued : ~Stored(i) => byID'[i] = NoRow
      BY <1>0, <2>1, <2>2 DEF RepoTypeOK, Rows, Stored, IdOrNone
    <2>5. RowsIndexed'
      <3> SUFFICES ASSUME NEW g \in Fingerprints, NEW i \in Ids
                   PROVE  fpIndex'[g] = i <=> byID'[i] # NoRow /\ FpOf[byID'[i].loc] = g
        BY DEF RowsIndexed, Stored
      <3>1. fpIndex[g] = i <=> Stored(i) /\ FpOf[byID[i].loc] = g
        BY DEF StoreInv, RowsIndexed
      <3>2. ~Stored(id)
        BY <1>0, <2>2 DEF Rows
      <3>3. f = FpOf[d.loc]
        BY DEF f
      <3> QED BY <1>0, <2>1, <2>2, <2>3, <3>1, <3>2, <3>3 DEF Stored
    <2> QED BY <2>4, <2>5 DEF StoreInv
  <1>3. ASSUME NEW id \in Rows, NEW d \in Download, d.loc = byID[id].loc, Update(id, d)
        PROVE  StoreInv' /\ \A i \in issued : ~Stored(i) => byID'[i] = NoRow
    <2>1. id \in Ids /\ Stored(id) /\ d # NoRow
      BY <1>3, NoRowAssumption DEF Rows
    <2>2. byID' = [byID EXCEPT ![id] = d] /\ UNCHANGED <<fpIndex, issued>>
      BY <1>3, <2>1 DEF Update, UpdateResult
    <2> QED BY <1>0, <1>3, <2>1, <2>2 DEF StoreInv, RepoTypeOK, RowsIndexed, Rows, Stored
  <1>4. ASSUME NEW id \in Rows, Delete(id)
        PROVE  StoreInv' /\ \A i \in issued : ~Stored(i) => byID'[i] = NoRow
    <2> DEFINE old == FpOf[byID[id].loc]
    <2>1. id \in Ids /\ Stored(id) /\ old \in Fingerprints
      BY <1>0 DEF Rows
    <2>2. /\ byID' = [byID EXCEPT ![id] = NoRow] /\ fpIndex' = [fpIndex EXCEPT ![old] = NoId]
          /\ issued' = issued
      BY <1>4, <2>1 DEF Delete
    <2>3. RepoTypeOK' /\ Rows' \subseteq issued' /\ \A i \in issued : ~Stored(i) => byID'[i] = NoRow
      BY <1>0, <2>1, <2>2 DEF RepoTypeOK, Rows, Stored, IdOrNone
    <2>4. RowsIndexed'
      <3> SUFFICES ASSUME NEW g \in Fingerprints, NEW i \in Ids
                   PROVE  fpIndex'[g] = i <=> byID'[i] # NoRow /\ FpOf[byID'[i].loc] = g
        BY DEF RowsIndexed, Stored
      <3>1. fpIndex[g] = i <=> Stored(i) /\ FpOf[byID[i].loc] = g
        BY DEF StoreInv, RowsIndexed
      <3>2. fpIndex[old] = id
        BY <2>1 DEF StoreInv, RowsIndexed
      <3> QED BY <1>0, <2>1, <2>2, <3>1, <3>2 DEF Stored
    <2> QED BY <2>3, <2>4 DEF StoreInv
  <1> QED BY <1>1, <1>2, <1>3, <1>4 DEF RepoCall, AddWithFingerprint

LEMMA StoreHolds == Spec => []StoreInv
  <1>1. Init => StoreInv
    BY IdsAssumption
    DEF Init, RepoInit, StoreInv, RepoTypeOK, RowsIndexed, Rows, Stored, IdOrNone
  <1>2. Inv /\ StoreInv /\ [Next]_vars => StoreInv'
    BY NextCalls, CallKeepsStore
  <1> QED BY <1>1, <1>2, Invariance, PTL DEF Spec

\* In the whole program, its requests, background starts and reconciler at
\* work together and restarted at any point, the index stays exact: a repeated
\* Add finds its download, and no two downloads share a fingerprint
\* (inmem.go 83-147, download.go 107-116).
THEOREM ProgramKeepsIndex == Spec => []RowsIndexed
  <1>1. StoreInv => RowsIndexed
    BY DEF StoreInv
  <1> QED BY <1>1, StoreHolds, PTL

\* No goroutine that still holds the id of a deleted download ever brings its
\* row back: not the late save of a gid or a status (download.go 141-152), nor
\* an event that was under way (reconciler.go 106-162; inmem.go 107).
NoneRevived == [][\A i \in issued : ~Stored(i) => byID'[i] = NoRow]_vars

\* A deleted row stays deleted, whatever is still under way for it (NoneRevived;
\* download.go 141-152, reconciler.go 106-162).
THEOREM DeletedRowsStayGone == Spec => NoneRevived
  <1> DEFINE Gone == \A i \in issued : ~Stored(i) => byID'[i] = NoRow
  <1>1. Inv /\ StoreInv /\ [Next]_vars => [Gone]_vars
    BY NextCalls, CallKeepsStore
  <1>2. Spec => [][Next]_vars
    BY DEF Spec
  <1>3. NoneRevived <=> [][Gone]_vars
    BY DEF NoneRevived
  <1> HIDE DEF Gone
  <1> QED BY <1>1, <1>2, <1>3, Invariance, StoreHolds, PTL
=============================================================================
