--------------------------- MODULE LiveTaskProofs ---------------------------
(***************************************************************************)
(* Proof that the adapter tracks every task that runs, or is on its way    *)
(* to, where nothing is lost.                                              *)
(*                                                                         *)
(* LiveInv says that an end announced by the daemon has happened           *)
(* (NotesOver), and that a frame on its way to untrack a gid leaves a task *)
(* that is over (FramesOver).                                              *)
(***************************************************************************)
EXTENDS TrackingProofs

\* No magnets, no answer lost, no restart and no Delete.
NothingLost == Magnets = FALSE /\ "lost" \notin Faults /\ "crash" \notin Faults /\ "Delete" \notin Ops

EndMethods == {"onDownloadComplete", "onDownloadError", "onDownloadStop"}

Over(g) == task[g] \notin Live \cup {"none"}

\* Without magnets there are no real tasks and no swaps.
NoneReal ==
    /\ \A g \in Gids : followedBy[g] = NoGid
    /\ \A w \in Workers : call[w].pc \notin {"swap", "repGid"}

NoDelete == ctxDone = {} /\ \A p \in Procs : ~In(p, "cancelStart")

\* What is announced to have ended has, and stays so.
NotesOver == \A n \in DOMAIN notes : notes[n].method \in EndMethods => Over(notes[n].gid)

\* A frame on its way to untrack its gid.
Leaving(w)  == call[w].pc \in {"repEnd", "untrack"} \/ (w = Loop /\ call[w].pc = "look")
FramesOver == \A w \in Workers : Leaving(w) => Over(call[w].gid)

LiveInv == NoneReal /\ NoDelete /\ NotesOver /\ FramesOver /\ LiveTasksTracked
-----------------------------------------------------------------------------
LEMMA NotesAre ==
    ASSUME Inv
    PROVE  /\ notes \in Seq([method: Methods, gid: Gids])
           /\ task \in [Gids -> Live \cup Ended \cup {"none", "purged"}]
           /\ \A n \in DOMAIN notes : notes[n].gid \in Gids
  <1>1. /\ notes \in Seq([method: Methods, gid: Gids])
        /\ task \in [Gids -> Live \cup Ended \cup {"none", "purged"}]
    BY DEF Inv, TypeOK, DaemonTypeOK
  <1>2. \A n \in DOMAIN notes : notes[n] \in [method: Methods, gid: Gids]
    <2> DEFINE Note == [method: Methods, gid: Gids]
    <2> HIDE DEF Note
    <2>1. notes \in Seq(Note)
      BY <1>1 DEF Note
    <2>2. \A n \in DOMAIN notes : notes[n] \in Note
      BY <2>1
    <2> QED BY <2>2 DEF Note
  <1> QED BY <1>1, <1>2

LEMMA OverStays ==
    ASSUME Grows, NEW g \in Gids, Over(g)
    PROVE  Over(g)'
  BY DEF Grows, Over

\* An announcement of an end comes with it.
LEMMA AnnounceOver ==
    ASSUME Inv, Grows, NotesOver, NEW m, NEW g \in Gids, Announce(m, g), m \in EndMethods => Over(g)'
    PROVE  NotesOver'
  <1> DEFINE n == [method |-> m, gid |-> g]
  <1>1. CASE notes' = notes
    BY <1>1, NotesAre, OverStays DEF NotesOver
  <1>2. CASE m \in Announced /\ notes' = Append(notes, n)
    <2>1. n \in [method: Methods, gid: Gids]
      BY <1>2, AnnouncedAssumption
    <2> DEFINE Note == [method: Methods, gid: Gids]
    <2> HIDE DEF n, Note
    <2>2. notes \in Seq(Note) /\ n \in Note
      BY <2>1, NotesAre DEF Note
    <2>3. /\ Len(notes) \in Nat /\ DOMAIN notes = 1..Len(notes)
          /\ DOMAIN notes' = 1..(Len(notes) + 1) /\ notes'[Len(notes) + 1] = n
          /\ \A i \in 1..Len(notes) : notes'[i] = notes[i]
      BY <1>2, <2>2, AppendProperties
    <2>4. \A i \in DOMAIN notes' : notes'[i] = n \/ (i \in DOMAIN notes /\ notes'[i] = notes[i])
      BY <2>3
    <2>5. n.method = m /\ n.gid = g
      BY DEF n
    <2> QED BY <2>4, <2>5, NotesAre, OverStays DEF NotesOver
  <1> QED BY <1>1, <1>2 DEF Announce

LEMMA NotesStay ==
    ASSUME Inv, Grows, NotesOver, notes' = notes
    PROVE  NotesOver'
  BY NotesAre, OverStays DEF NotesOver

\* A step of the adapter.
LEMMA AdapterLive ==
    ASSUME Inv, LiveInv, Grows, followedBy' = followedBy, ctxDone' = ctxDone, UNCHANGED others,
           NotesOver', NEW w \in Workers, NEW f, call' = [call EXCEPT ![w] = f],
           f.pc \notin {"swap", "repGid"},
           f.pc \in {"repEnd", "untrack"} \/ (w = Loop /\ f.pc = "look") =>
               f.gid \in Gids /\ Over(f.gid)',
           \A g \in Gids : task'[g] \in Live =>
               task[g] \in Live \/ (w \in Procs /\ f.gid = g /\ f.pc \in {"told?", "track"}),
           \A g \in Gids : gidToID[g] # NoId /\ gidToID'[g] = NoId => task'[g] \notin Live,
           call[w].pc \in {"told?", "track"} =>
               \/ f.gid = call[w].gid /\ f.pc \in {"told?", "track"}
               \/ gidToID'[call[w].gid] # NoId
    PROVE  LiveInv'
  <1>1. /\ call'[w] = f /\ \A v \in Workers \ {w} : call'[v] = call[v]
        /\ svc' = svc /\ Procs \subseteq Workers
    BY TypesKnown, DifferentWorkers DEF others, svcVars
  <1>2. NoneReal' /\ NoDelete'
    BY <1>1 DEF LiveInv, NoneReal, NoDelete, In
  <1>3. FramesOver'
    <2> SUFFICES ASSUME NEW v \in Workers, Leaving(v)'
                 PROVE  Over(call[v].gid)'
      BY DEF FramesOver
    <2>1. CASE v = w
      BY <1>1, <2>1 DEF Leaving, Over
    <2>2. CASE v # w
      <3>1. call'[v] = call[v] /\ Leaving(v)
        BY <1>1, <2>2 DEF Leaving
      <3>2. call[v].gid \in Gids /\ Over(call[v].gid)
        BY <3>1 DEF LiveInv, FramesOver, Leaving, Inv, FrameInv, WithGid
      <3>3. Over(call[v].gid)'
        BY <3>1, <3>2 DEF Over, Grows
      <3> QED BY <3>3
    <2> QED BY <2>1, <2>2
  <1>4. LiveTasksTracked'
    <2> SUFFICES ASSUME NEW g \in Gids, task'[g] \in Live, gidToID'[g] = NoId
                 PROVE  \E p \in Procs : call'[p].gid = g /\ call'[p].pc \in {"told?", "track"}
      BY DEF LiveTasksTracked, Tracked
    <2>1. CASE w \in Procs /\ f.gid = g /\ f.pc \in {"told?", "track"}
      BY <1>1, <2>1
    <2>2. CASE task[g] \in Live
      <3>1. gidToID[g] = NoId
        OBVIOUS
      <3>2. PICK p \in Procs : call[p].gid = g /\ call[p].pc \in {"told?", "track"}
        BY <2>2, <3>1 DEF LiveInv, LiveTasksTracked, Tracked
      <3> QED BY <1>1, <3>2
    <2> QED BY <2>1, <2>2
  <1> QED BY <1>2, <1>3, <1>4 DEF LiveInv

\* A step without a new task, after which the map is as before.
LEMMA QuietLive ==
    ASSUME Inv, LiveInv, Grows, UNCHANGED <<followedBy, ctxDone, notes, gidToID>>,
           UNCHANGED others, NEW w \in Workers, NEW f, call' = [call EXCEPT ![w] = f],
           f.pc \notin {"told?", "track", "swap", "repGid"}, call[w].pc \notin {"told?", "track"},
           f.pc \in {"repEnd", "untrack"} \/ (w = Loop /\ f.pc = "look") =>
               Leaving(w) /\ f.gid = call[w].gid,
           \A g \in Gids : task'[g] \in Live => task[g] \in Live
    PROVE  LiveInv'
  <1>1. NotesOver'
    BY NotesStay DEF LiveInv
  <1>2. Leaving(w) => call[w].gid \in Gids /\ Over(call[w].gid)
    BY DEF LiveInv, FramesOver, Leaving, Inv, FrameInv, WithGid
  <1>3. Leaving(w) => call[w].gid \in Gids /\ task'[call[w].gid] \notin Live \cup {"none"}
    BY <1>2 DEF Over, Grows
  <1>4. f.pc \in {"repEnd", "untrack"} \/ (w = Loop /\ f.pc = "look") =>
            f.gid \in Gids /\ task'[f.gid] \notin Live \cup {"none"}
    BY <1>3
  <1>5. f.pc \in {"repEnd", "untrack"} \/ (w = Loop /\ f.pc = "look") =>
            f.gid \in Gids /\ Over(f.gid)'
    BY <1>4 DEF Over
  <1> QED BY <1>1, <1>5, AdapterLive

LEMMA MovesLive ==
    ASSUME Inv, LiveInv, Grows, UNCHANGED <<followedBy, ctxDone, notes, gidToID>>,
           UNCHANGED others, NEW w \in Workers, call[w].pc \notin {"told?", "track"},
           \/ \E r : Return(w, r)
           \/ \E pc : /\ Goto(w, pc)
                      /\ pc \notin {"told?", "track", "swap", "repGid"}
                      /\ pc \in {"repEnd", "untrack"} \/ (w = Loop /\ pc = "look") => Leaving(w),
           \A g \in Gids : task'[g] \in Live => task[g] \in Live
    PROVE  LiveInv'
  <1>1. call[w] \in Frame
    BY TypesKnown
  <1>2. ASSUME NEW r, Return(w, r)
        PROVE  LiveInv'
    <2> DEFINE f == IF w \in Loops THEN NoCall ELSE [call[w] EXCEPT !.pc = "return", !.result = r]
    <2>1. call' = [call EXCEPT ![w] = f]
      BY <1>2 DEF Return
    <2>2. f.pc \in {"idle", "return"}
      BY <1>1 DEF NoCall, Frame
    <2> HIDE DEF f
    <2> QED BY <2>1, <2>2, QuietLive
  <1>3. ASSUME NEW pc, Goto(w, pc), pc \notin {"told?", "track", "swap", "repGid"},
               pc \in {"repEnd", "untrack"} \/ (w = Loop /\ pc = "look") => Leaving(w)
        PROVE  LiveInv'
    <2> DEFINE f == [call[w] EXCEPT !.pc = pc]
    <2>1. call' = [call EXCEPT ![w] = f]
      BY <1>3 DEF Goto
    <2>2. f.pc = pc /\ f.gid = call[w].gid
      BY <1>1 DEF Frame
    <2> HIDE DEF f
    <2> QED BY <1>3, <2>1, <2>2, QuietLive
  <1> QED BY <1>2, <1>3

\* The steps of the adapter that concern neither the daemon nor the map.
LEMMA ReportsLive ==
    ASSUME Inv, LiveInv, UNCHANGED others, NEW w \in Workers,
           \/ ReportStart(w) \/ ReportMeta(w) \/ ReportPaused(w) \/ ReportEnd(w)
           \/ ReportProgress(w) \/ AddUriRefused(w)
    PROVE  LiveInv'
  <1>1. /\ Grows /\ UNCHANGED <<followedBy, ctxDone, notes, gidToID>>
        /\ task' = task
    BY DaemonUnchanged DEF ReportStart, ReportMeta, ReportPaused, ReportEnd, ReportProgress,
                           AddUriRefused, DaemonKeeps, daemonVars
  <1>2. /\ call[w].pc \notin {"told?", "track"}
        /\ \/ \E r : Return(w, r)
           \/ Goto(w, "repMeta") \/ Goto(w, "repProgress")
           \/ Goto(w, "untrack") /\ Leaving(w)
    BY DEF ReportStart, ReportMeta, ReportPaused, ReportEnd, ReportProgress, AddUriRefused, At,
           Leaving
  <1> QED BY <1>1, <1>2, MovesLive

\* tellStatus names no real task.
LEMMA LookLive ==
    ASSUME Inv, LiveInv, UNCHANGED others, NEW w \in Workers, Look(w)
    PROVE  LiveInv'
  <1>1. call[w].pc = "look" /\ call[w].gid \in Gids /\ call[w] \in Frame
    BY TypesKnown DEF Look, At, Inv, FrameInv, WithGid
  <1>2. /\ Grows /\ UNCHANGED <<followedBy, ctxDone, notes, gidToID>> /\ task' = task
    BY DaemonUnchanged DEF Look, DaemonKeeps, daemonVars
  <1>3. Told(call[w].gid) \subseteq {NoGid}
    BY <1>1 DEF LiveInv, NoneReal, Told
  <1> DEFINE pc == IF w = Loop THEN "repEnd" ELSE "repMeta"
             f  == [call[w] EXCEPT !.new = NoGid, !.pc = pc]
  <1>4. call' = [call EXCEPT ![w] = f]
    BY <1>3 DEF Look
  <1>5. f.pc = pc /\ f.gid = call[w].gid
    BY <1>1 DEF Frame
  <1>6. w = Loop => Leaving(w)
    BY <1>1 DEF Leaving
  <1> HIDE DEF f
  <1> QED BY <1>1, <1>2, <1>4, <1>5, <1>6, QuietLive

\* A task begins, and the call that began it will track it.
LEMMA AddUriLive ==
    ASSUME Inv, LiveInv, UNCHANGED others, NEW p \in Procs, AddUri(p)
    PROVE  LiveInv'
  <1> USE DifferentWorkers
  <1>1. PICK g \in Gids : /\ NewTask(g, call[p].id)
                          /\ call' = [call EXCEPT ![p].pc = "told?", ![p].gid = g]
    BY DEF AddUri, FreeGids
  <1>2. /\ call[p].pc = "Start" /\ call[p].id \in Ids /\ UNCHANGED <<gidToID, ctxDone>>
        /\ call[p] \in Frame
    BY TypesKnown, AtWork DEF AddUri, At
  <1>3. Grows /\ followedBy' = followedBy
    BY <1>1, <1>2, NewTaskKeeps DEF Inv, TypeOK, DaemonKeeps, NewTask
  <1>4. NotesOver'
    BY <1>1, <1>3, AnnounceOver DEF NewTask, EndMethods, LiveInv
  <1> DEFINE f == [call[p] EXCEPT !.pc = "told?", !.gid = g]
  <1>5. f.pc = "told?" /\ f.gid = g /\ call' = [call EXCEPT ![p] = f]
    BY <1>1, <1>2 DEF Frame
  <1>6. \A h \in Gids : task'[h] \in Live => task[h] \in Live \/ h = g
    BY <1>1, NotesAre DEF NewTask
  <1> HIDE DEF f
  <1> QED BY <1>2, <1>3, <1>4, <1>5, <1>6, AdapterLive

LEMMA AskFollowedByLive ==
    ASSUME Inv, LiveInv, UNCHANGED others, NEW p \in Procs, AskFollowedBy(p)
    PROVE  LiveInv'
  <1> USE DifferentWorkers
  <1>1. call[p].pc = "told?" /\ call[p].gid \in Gids /\ call[p] \in Frame
    BY TypesKnown DEF AskFollowedBy, At, Inv, FrameInv, WithGid
  <1>2. /\ Grows /\ UNCHANGED <<followedBy, ctxDone, notes, gidToID>> /\ task' = task
    BY DaemonUnchanged DEF AskFollowedBy, DaemonKeeps, daemonVars
  <1>3. Told(call[p].gid) \subseteq {NoGid}
    BY <1>1 DEF LiveInv, NoneReal, Told
  <1> DEFINE f == [call[p] EXCEPT !.pc = "track"]
  <1>4. call' = [call EXCEPT ![p] = f]
    <2>1. PICK real \in Told(call[p].gid) \cup {NoGid} :
            call' = [call EXCEPT ![p].pc = "track", ![p].gid = IF real = NoGid THEN @ ELSE real]
      BY DEF AskFollowedBy
    <2>2. real = NoGid
      BY <1>3
    <2>3. [call[p] EXCEPT !.pc = "track", !.gid = call[p].gid] = f
      BY <1>1 DEF Frame
    <2>4. call' = [call EXCEPT ![p] = [call[p] EXCEPT !.pc = "track", !.gid = call[p].gid]]
      BY <2>1, <2>2
    <2> QED BY <2>3, <2>4
  <1>5. f.pc = "track" /\ f.gid = call[p].gid
    BY <1>1 DEF Frame
  <1>6. NotesOver'
    BY <1>2, NotesStay DEF LiveInv
  <1> HIDE DEF f
  <1> QED BY <1>1, <1>2, <1>4, <1>5, <1>6, AdapterLive

LEMMA TrackLive ==
    ASSUME Inv, LiveInv, UNCHANGED others, NEW p \in Procs, Track(p)
    PROVE  LiveInv'
  <1> USE DifferentWorkers
  <1>1. /\ call[p].pc = "track" /\ call[p].gid \in Gids /\ call[p].id \in Ids /\ call[p] \in Frame
        /\ gidToID' = [gidToID EXCEPT ![call[p].gid] = call[p].id] /\ Goto(p, "repStart")
    BY TypesKnown DEF Track, At, Inv, FrameInv, WithGid
  <1>2. /\ Grows /\ UNCHANGED <<followedBy, ctxDone, notes>> /\ task' = task
    BY DaemonUnchanged DEF Track, DaemonKeeps, daemonVars
  <1>3. /\ gidToID'[call[p].gid] # NoId
        /\ \A g \in Gids : gidToID[g] # NoId => gidToID'[g] # NoId
    BY <1>1, TypesKnown, IdsAssumption
  <1> DEFINE f == [call[p] EXCEPT !.pc = "repStart"]
  <1>4. call' = [call EXCEPT ![p] = f] /\ f.pc = "repStart"
    BY <1>1 DEF Goto, Frame
  <1>5. NotesOver'
    BY <1>2, NotesStay DEF LiveInv
  <1> HIDE DEF f
  <1> QED BY <1>1, <1>2, <1>3, <1>4, <1>5, AdapterLive

\* A gid is untracked when its task is over.
LEMMA UntrackLive ==
    ASSUME Inv, LiveInv, UNCHANGED others, NEW w \in Workers, Untrack(w)
    PROVE  LiveInv'
  <1>1. /\ call[w].pc = "untrack" /\ call[w].gid \in Gids /\ call[w] \in Frame
        /\ gidToID' = [gidToID EXCEPT ![call[w].gid] = NoId]
        /\ Goto(w, "purge") \/ Return(w, call[w].result)
    BY TypesKnown DEF Untrack, At, Inv, FrameInv, WithGid
  <1>2. /\ Grows /\ UNCHANGED <<followedBy, ctxDone, notes>> /\ task' = task
    BY DaemonUnchanged DEF Untrack, DaemonKeeps, daemonVars
  <1>3. task'[call[w].gid] \notin Live
    BY <1>1, <1>2 DEF LiveInv, FramesOver, Leaving, Over
  <1>4. \A g \in Gids : gidToID[g] # NoId /\ gidToID'[g] = NoId => task'[g] \notin Live
    BY <1>1, <1>3, TypesKnown
  <1>5. PICK f : call' = [call EXCEPT ![w] = f] /\ f.pc \in {"idle", "return", "purge"}
    <2>1. NoCall.pc = "idle" /\ [call[w] EXCEPT !.pc = "purge"].pc = "purge"
          /\ [call[w] EXCEPT !.pc = "return", !.result = call[w].result].pc = "return"
      BY <1>1 DEF NoCall, Frame
    <2>2. \/ call' = [call EXCEPT ![w] = NoCall]
          \/ call' = [call EXCEPT ![w] = [call[w] EXCEPT !.pc = "purge"]]
          \/ call' = [call EXCEPT ![w] = [call[w] EXCEPT !.pc = "return",
                                                         !.result = call[w].result]]
      BY <1>1 DEF Goto, Return
    <2> QED BY <2>1, <2>2
  <1>6. NotesOver'
    BY <1>2, NotesStay DEF LiveInv
  <1> QED BY <1>1, <1>2, <1>4, <1>5, <1>6, AdapterLive

LEMMA PurgeLive ==
    ASSUME Inv, LiveInv, UNCHANGED others, NEW p \in Procs, PurgeResult(p)
    PROVE  LiveInv'
  <1> USE DifferentWorkers
  <1>1. /\ UNCHANGED daemonVars \/ (call[p].gid # NoGid /\ Purge(call[p].gid))
        /\ Return(p, "ok") \/ Return(p, "error")
        /\ UNCHANGED <<gidToID, ctxDone>>
        /\ call[p].pc \notin {"told?", "track"}
    BY DEF PurgeResult, At
  <1>2. call[p].gid \in GidOrNone
    BY TypesKnown DEF Frame
  <1>3. Grows /\ UNCHANGED <<followedBy, notes>>
    BY <1>1, <1>2, DaemonUnchanged, PurgeKeeps
    DEF DaemonKeeps, daemonVars, Purge, Inv, TypeOK, GidOrNone
  <1>4. \A g \in Gids : task'[g] \in Live => task[g] \in Live
    BY <1>1, NotesAre DEF Purge, daemonVars, Live
  <1> QED BY <1>1, <1>3, <1>4, MovesLive

\* A command that takes effect and fails would be an answer lost.
LEMMA CommandLive ==
    ASSUME Inv, LiveInv, "lost" \notin Faults, NEW g \in Gids, NEW from \in SUBSET Live,
           NEW to \in Live \cup Ended, NEW m, NEW answer, Command(g, from, to, m, answer),
           m \in Methods, m \in EndMethods => to \in Ended
    PROVE  /\ Grows /\ followedBy' = followedBy /\ NotesOver'
           /\ \A h \in Gids : task'[h] \in Live => task[h] \in Live
           /\ answer = "missing" => task' = task /\ task[g] \notin from
           /\ answer = "ok" => task'[g] = to
  <1>1. Grows
    BY CommandKeeps DEF Inv, TypeOK, DaemonKeeps
  <1>2. CASE /\ task[g] \in from /\ task' = [task EXCEPT ![g] = to] /\ Announce(m, g)
             /\ UNCHANGED <<owner, followedBy>> /\ answer = "ok"
    <2>1. task'[g] = to /\ task[g] \in Live /\ \A h \in Gids \ {g} : task'[h] = task[h]
      BY <1>2, NotesAre
    <2>2. m \in EndMethods => Over(g)'
      BY <2>1 DEF Over, Live, Ended
    <2>3. NotesOver'
      BY <1>1, <1>2, <2>2, AnnounceOver DEF LiveInv
    <2> QED BY <1>1, <1>2, <2>1, <2>3
  <1>3. CASE UNCHANGED daemonVars /\ (answer = "missing" => task[g] \notin from) /\ answer # "ok"
    <2>1. NotesOver'
      BY <1>1, <1>3, NotesStay DEF LiveInv, daemonVars
    <2> QED BY <1>1, <1>3, <2>1 DEF daemonVars
  <1> QED BY <1>2, <1>3 DEF Command

LEMMA PauseLive ==
    ASSUME Inv, LiveInv, "lost" \notin Faults, UNCHANGED others, NEW p \in Procs,
           Pause(p) \/ Unpause(p)
    PROVE  LiveInv'
  <1> USE DifferentWorkers
  <1>1. call[p].pc \in {"Pause", "Resume"} /\ call[p].gid \in Gids /\ call[p] \in Frame
    BY TypesKnown DEF Pause, Unpause, At, Inv, FrameInv, WithGid
  <1>2. UNCHANGED <<gidToID, ctxDone>>
    BY DEF Pause, Unpause
  <1>3. Grows /\ followedBy' = followedBy /\ NotesOver'
        /\ \A h \in Gids : task'[h] \in Live => task[h] \in Live
    <2>1. CASE Pause(p)
      BY <1>1, <2>1, CommandLive DEF Pause, Live, Methods, EndMethods
    <2>2. CASE Unpause(p)
      BY <1>1, <2>2, CommandLive DEF Unpause, Live, Methods, EndMethods
    <2> QED BY <2>1, <2>2
  <1>4. PICK f : call' = [call EXCEPT ![p] = f] /\ f.pc \in {"repPaused", "look", "return"}
    <2>1. Goto(p, "repPaused") \/ Goto(p, "look") \/ Return(p, "error")
      BY DEF Pause, Unpause
    <2>2. /\ [call[p] EXCEPT !.pc = "repPaused"].pc = "repPaused"
          /\ [call[p] EXCEPT !.pc = "look"].pc = "look"
          /\ [call[p] EXCEPT !.pc = "return", !.result = "error"].pc = "return"
      BY <1>1 DEF Frame
    <2>3. \/ call' = [call EXCEPT ![p] = [call[p] EXCEPT !.pc = "repPaused"]]
          \/ call' = [call EXCEPT ![p] = [call[p] EXCEPT !.pc = "look"]]
          \/ call' = [call EXCEPT ![p] = [call[p] EXCEPT !.pc = "return", !.result = "error"]]
      BY <2>1 DEF Goto, Return, Loops
    <2> QED BY <2>2, <2>3
  <1> QED BY <1>1, <1>2, <1>3, <1>4, AdapterLive

\* After a Cancel that did not fail, the task is over.
LEMMA RemoveLive ==
    ASSUME Inv, LiveInv, "lost" \notin Faults, UNCHANGED others, NEW p \in Procs, Remove(p)
    PROVE  LiveInv'
  <1> USE DifferentWorkers
  <1>1. /\ call[p].pc = "Cancel" \/ (call[p].pc = "Delete" /\ call[p].gid # NoGid)
        /\ UNCHANGED <<gidToID, ctxDone>>
    BY DEF Remove, At
  <1>2. PICK answer \in {"ok", "missing", "error"} :
          /\ Command(call[p].gid, Live, "removed", "onDownloadStop", answer)
          /\ IF answer = "error" THEN Return(p, "error")
             ELSE call' = [call EXCEPT ![p].pc = IF answer = "ok" THEN "repEnd" ELSE "untrack",
                                       ![p].result = answer]
    BY DEF Remove
  <1>3. call[p] \in Frame /\ call[p].gid \in Gids /\ Mine(call[p]) /\ call[p].id \in Ids
    BY <1>1, AtWork DEF FrameInv, WithGid, GidOrNone
  <1>4. /\ Grows /\ followedBy' = followedBy /\ NotesOver'
        /\ \A h \in Gids : task'[h] \in Live => task[h] \in Live
        /\ answer = "missing" => task' = task /\ task[call[p].gid] \notin Live
        /\ answer = "ok" => task'[call[p].gid] = "removed"
    BY <1>2, <1>3, CommandLive DEF Live, Ended, Methods, EndMethods
  <1>5. answer # "error" => task'[call[p].gid] \notin Live \cup {"none"}
    <2>1. task[call[p].gid] # "none"
      BY <1>3, IdsAssumption, GidsAssumption DEF Mine, Belongs, Inv, DaemonInv
    <2> QED BY <1>2, <1>4, <2>1 DEF Live
  <1>6. PICK f : /\ call' = [call EXCEPT ![p] = f] /\ f.gid = call[p].gid
                 /\ f.pc \in {"return", "repEnd", "untrack"}
                 /\ answer = "error" => f.pc = "return"
    <2> DEFINE pc == IF answer = "error" THEN "return"
                     ELSE IF answer = "ok" THEN "repEnd" ELSE "untrack"
               f  == [call[p] EXCEPT !.pc = pc, !.result = answer]
    <2>1. call' = [call EXCEPT ![p] = f]
      BY <1>2 DEF Return, Loops
    <2>2. f.pc = pc /\ f.gid = call[p].gid
      BY <1>3 DEF Frame
    <2> HIDE DEF f
    <2> QED BY <2>1, <2>2
  <1>7. f.pc \in {"repEnd", "untrack"} => f.gid \in Gids /\ Over(f.gid)'
    BY <1>3, <1>5, <1>6 DEF Over
  <1> QED BY <1>1, <1>4, <1>6, <1>7, AdapterLive

\* The adapter as it is, and no new task.
LEMMA AsideLive ==
    ASSUME Inv, LiveInv, Grows, followedBy' = followedBy, UNCHANGED <<call, gidToID, ctxDone, svc>>,
           NotesOver', \A g \in Gids : task'[g] \in Live => task[g] \in Live
    PROVE  LiveInv'
  <1>1. NoneReal' /\ NoDelete'
    BY DEF LiveInv, NoneReal, NoDelete, In
  <1>2. FramesOver'
    <2> SUFFICES ASSUME NEW w \in Workers, Leaving(w)
                 PROVE  Over(call[w].gid)'
      BY DEF FramesOver, Leaving
    <2>1. call[w].gid \in Gids /\ Over(call[w].gid)
      BY DEF LiveInv, FramesOver, Leaving, Inv, FrameInv, WithGid
    <2> QED BY <2>1 DEF Over, Grows
  <1>3. LiveTasksTracked'
    BY DEF LiveInv, LiveTasksTracked, Tracked
  <1> QED BY <1>1, <1>2, <1>3 DEF LiveInv

\* A prefix or the rest of the notifications.
LEMMA FewerNotes ==
    ASSUME Inv, Grows, NotesOver,
           \A n \in DOMAIN notes' : \E m \in DOMAIN notes : notes'[n] = notes[m]
    PROVE  NotesOver'
  <1> SUFFICES ASSUME NEW n \in DOMAIN notes', notes'[n].method \in EndMethods
               PROVE  Over(notes[n].gid)'
    BY DEF NotesOver
  <1>1. PICK m \in DOMAIN notes : notes'[n] = notes[m]
    OBVIOUS
  <1>2. notes[m].gid \in Gids /\ Over(notes[m].gid)
    BY <1>1, NotesAre DEF NotesOver
  <1> QED BY <1>1, <1>2 DEF Over, Grows

LEMMA TakeNoteLive ==
    ASSUME Inv, LiveInv, UNCHANGED others, TakeNote
    PROVE  LiveInv'
  <1>1. /\ notes # <<>> /\ notes' = Tail(notes) /\ call[Loop].pc = "idle"
        /\ UNCHANGED <<task, owner, followedBy, gidToID, ctxDone>>
    BY DEF TakeNote, At
  <1>2. /\ 1 \in DOMAIN notes /\ Head(notes) = notes[1]
        /\ \A n \in DOMAIN notes' : n + 1 \in DOMAIN notes /\ notes'[n] = notes[n + 1]
    <2> DEFINE Note == [method: Methods, gid: Gids]
    <2>1. notes \in Seq(Note)
      BY NotesAre
    <2> HIDE DEF Note
    <2>2. /\ Len(notes) \in Nat /\ Len(notes) > 0 /\ DOMAIN notes = 1..Len(notes)
          /\ Head(notes) = notes[1]
          /\ DOMAIN notes' = 1..(Len(notes) - 1)
          /\ \A i \in 1..(Len(notes) - 1) : notes'[i] = notes[i + 1]
      BY <1>1, <2>1, HeadTailProperties
    <2> QED BY <2>2
  <1>3. Grows /\ LiveInv /\ NotesOver
    BY <1>1 DEF Grows, LiveInv
  <1>4. NotesOver'
    BY <1>2, <1>3, FewerNotes
  <1>5. PICK n : n = Head(notes)
    OBVIOUS
  <1>6. n.gid \in Gids /\ n.method \in Methods /\ (n.method \in EndMethods => Over(n.gid))
    <2>1. notes[1] \in [method: Methods, gid: Gids]
      <3> DEFINE Note == [method: Methods, gid: Gids]
      <3>1. notes \in Seq(Note)
        BY NotesAre
      <3> HIDE DEF Note
      <3>2. notes[1] \in Note
        BY <1>2, <3>1
      <3> QED BY <3>2 DEF Note
    <2> QED BY <1>2, <1>3, <1>5, <2>1 DEF NotesOver
  <1>7. CASE gidToID[n.gid] = NoId
    <2>1. UNCHANGED call
      BY <1>5, <1>7 DEF TakeNote
    <2> QED BY <1>1, <1>3, <1>4, <2>1, AsideLive DEF others, svcVars
  <1>8. CASE gidToID[n.gid] # NoId
    <2>1. PICK f : f = [NoCall EXCEPT !.pc = Reaction[n.method].pc, !.op = Reaction[n.method].op,
                                      !.id = gidToID[n.gid], !.gid = n.gid]
      OBVIOUS
    <2>2. call' = [call EXCEPT ![Loop] = f]
      BY <1>5, <1>8, <2>1 DEF TakeNote
    <2>3. f.gid = n.gid /\ f.pc = Reaction[n.method].pc
      BY <2>1 DEF NoCall
    <2>4. /\ f.pc \in {"look", "repEnd", "repPaused", "repProgress"}
          /\ f.pc \in {"look", "repEnd"} => n.method \in EndMethods
      BY <1>6, <2>3 DEF Reaction, Methods, EndMethods
    <2>5. f.pc \in {"look", "repEnd"} => f.gid \in Gids /\ Over(f.gid)'
      BY <1>1, <1>6, <2>3, <2>4 DEF Over
    <2>6. Loop \in Workers
      BY DifferentWorkers
    <2> QED BY <1>1, <1>3, <1>4, <2>2, <2>4, <2>5, <2>6, AdapterLive
  <1> QED BY <1>7, <1>8

LEMMA PollTaskLive ==
    ASSUME Inv, LiveInv, UNCHANGED others, PollTask
    PROVE  LiveInv'
  <1>1. PICK f : call' = [call EXCEPT ![Poll] = f] /\ f.pc = "repProgress"
    <2>1. PICK g \in Tracked :
            call' = [call EXCEPT ![Poll] = [NoCall EXCEPT !.pc = "repProgress", !.op = "Progress",
                                                          !.id = gidToID[g], !.gid = g]]
      BY DEF PollTask
    <2>2. [NoCall EXCEPT !.pc = "repProgress", !.op = "Progress",
                         !.id = gidToID[g], !.gid = g].pc = "repProgress"
      BY DEF NoCall
    <2> QED BY <2>1, <2>2
  <1>2. /\ Grows /\ UNCHANGED <<followedBy, ctxDone, notes, gidToID>> /\ task' = task
        /\ call[Poll].pc = "idle" /\ Poll \in Workers
    BY DaemonUnchanged, DifferentWorkers DEF PollTask, At, DaemonKeeps, daemonVars
  <1>3. Poll # Loop
    BY WorkersAssumption
  <1> QED BY <1>1, <1>2, <1>3, QuietLive

LEMMA AdapterKeepsLive ==
    ASSUME NothingLost, Inv, LiveInv, UNCHANGED others,
           LoopStep \/ PollStep \/ \E p \in Procs : CallStep(p)
    PROVE  LiveInv'
  <1>1. Loop \in Workers /\ Poll \in Workers
    BY DifferentWorkers
  <1>2. \A w \in Workers : ~Swap(w) /\ ~ReportGid(w)
    BY DEF LiveInv, NoneReal, Swap, ReportGid, At
  <1>3. \A p \in Procs : ~AddUriLost(p)
    BY DEF NothingLost, LiveInv, NoDelete, AddUriLost
  <1>4. CASE LoopStep \/ PollStep
    BY <1>1, <1>2, <1>4, TakeNoteLive, PollTaskLive, ReportsLive, LookLive, UntrackLive
    DEF LoopStep, PollStep
  <1>5. ASSUME NEW p \in Procs, CallStep(p)
        PROVE  LiveInv'
    <2>1. p \in Workers
      BY DifferentWorkers
    <2> QED BY <1>2, <1>3, <1>5, <2>1, AddUriLive, AskFollowedByLive, TrackLive, ReportsLive,
               PauseLive, LookLive, RemoveLive, UntrackLive, PurgeLive DEF CallStep, NothingLost
  <1> QED BY <1>4, <1>5
-----------------------------------------------------------------------------
LEMMA PrefixOfNotes ==
    ASSUME Inv, NEW n \in 0..Len(notes), notes' = SubSeq(notes, 1, n)
    PROVE  \A i \in DOMAIN notes' : i \in DOMAIN notes /\ notes'[i] = notes[i]
  <1> DEFINE Note == [method: Methods, gid: Gids]
  <1>1. notes \in Seq(Note)
    BY NotesAre
  <1> HIDE DEF Note
  <1>2. /\ Len(notes) \in Nat /\ DOMAIN notes = 1..Len(notes)
        /\ n \in Nat /\ n <= Len(notes) /\ \A i \in 1..n : notes[i] \in Note
    BY <1>1, ElementOfSeq
  <1>3. DOMAIN notes' = 1..n /\ \A i \in 1..n : notes'[i] = notes[i]
    BY <1>2, SubSeqProperties
  <1> QED BY <1>2, <1>3

LEMMA DaemonLive ==
    ASSUME NothingLost, Inv, LiveInv, Daemon
    PROVE  LiveInv'
  <1>1. DaemonStep /\ UNCHANGED adapterVars /\ UNCHANGED svcVars /\ NotesOver
    BY DEF Daemon, LiveInv
  <1>2. Grows
    BY <1>1, DaemonStepKeeps DEF DaemonKeeps, Inv, TypeOK
  <1>3. ASSUME NEW g \in Gids, Finish(g) \/ Fail(g)
        PROVE  LiveInv'
    <2>1. PICK to \in Ended, m \in Methods : task' = [task EXCEPT ![g] = to] /\ Announce(m, g)
      BY <1>3 DEF Finish, Fail, Ended, Methods
    <2>2. Over(g)' /\ \A h \in Gids : task'[h] \in Live => task[h] \in Live
      BY <2>1, NotesAre DEF Over, Live, Ended
    <2>3. NotesOver'
      BY <1>1, <1>2, <2>1, <2>2, AnnounceOver
    <2> QED BY <1>1, <1>2, <1>3, <2>2, <2>3, AsideLive DEF Finish, Fail, adapterVars, svcVars
  <1>4. CASE EndStream
    <2>1. PICK n \in 0..Len(notes) : notes' = SubSeq(notes, 1, n)
      BY <1>4 DEF EndStream
    <2>2. \A i \in DOMAIN notes' : i \in DOMAIN notes /\ notes'[i] = notes[i]
      BY <2>1, PrefixOfNotes
    <2>3. NotesOver'
      BY <1>1, <1>2, <2>2, FewerNotes
    <2> QED BY <1>1, <1>2, <1>4, <2>3, AsideLive DEF EndStream, adapterVars, svcVars
  <1> QED BY <1>1, <1>3, <1>4 DEF DaemonStep, FinishMetadata, NothingLost
-----------------------------------------------------------------------------
\* Steps of the service: a frame of the adapter begins a call or is taken back.
CallFresh(w) ==
    \/ call'[w] = call[w]
    \/ call[w].pc \notin {"told?", "track"} /\ call'[w].pc \in Calls \cup {"idle"}

NoCancels == \A p \in Procs : svc'[p].pc # "cancelStart"

LEMMA ServiceLive ==
    ASSUME Inv, LiveInv, UNCHANGED elsewhere, ctxDone' = ctxDone, NoCancels,
           \A w \in Workers : CallFresh(w)
    PROVE  LiveInv'
  <1>1. /\ UNCHANGED <<task, followedBy, notes, gidToID>> /\ Grows /\ Procs \subseteq Workers
    BY DaemonUnchanged, DifferentWorkers DEF elsewhere, daemonVars, DaemonKeeps
  <1>2. \A w \in Workers : call'[w] = call[w] \/ call'[w].pc \in Calls \cup {"idle"}
    BY DEF CallFresh
  <1>3. NoneReal' /\ NoDelete'
    BY <1>1, <1>2 DEF LiveInv, NoneReal, NoDelete, NoCancels, In, Calls
  <1>4. FramesOver'
    <2> SUFFICES ASSUME NEW w \in Workers, Leaving(w)'
                 PROVE  Over(call[w].gid)'
      BY DEF FramesOver
    <2>1. call'[w] = call[w]
      BY <1>2 DEF Leaving, Calls
    <2> QED BY <1>1, <2>1 DEF LiveInv, FramesOver, Leaving, Over
  <1>5. LiveTasksTracked'
    <2> SUFFICES ASSUME NEW g \in Gids, task[g] \in Live, gidToID[g] = NoId
                 PROVE  \E p \in Procs : call'[p].gid = g /\ call'[p].pc \in {"told?", "track"}
      BY <1>1 DEF LiveTasksTracked, Tracked
    <2>1. PICK p \in Procs : call[p].gid = g /\ call[p].pc \in {"told?", "track"}
      BY DEF LiveInv, LiveTasksTracked, Tracked
    <2>2. call'[p] = call[p]
      BY <1>1, <2>1 DEF CallFresh
    <2> QED BY <2>1, <2>2
  <1>6. NotesOver'
    BY <1>1, NotesStay DEF LiveInv
  <1> QED BY <1>3, <1>4, <1>5, <1>6 DEF LiveInv

LEMMA NoCancelNow ==
    ASSUME LiveInv
    PROVE  \A q \in Procs : svc[q].pc # "cancelStart"
  BY DEF LiveInv, NoDelete, In

\* One frame of the service moves.
LEMMA FrameCancelsNot ==
    ASSUME Inv, \A q \in Procs : svc[q].pc # "cancelStart", NEW p \in Procs,
           \/ UNCHANGED svc
           \/ EndRequest(p)
           \/ \E pc : pc # "cancelStart" /\ Step(p, pc)
           \/ \E pc, id, gid, wish : pc # "cancelStart" /\ Begin(p, pc, id, gid, wish)
    PROVE  NoCancels
  <1>1. svc \in [Procs -> ServiceFrame] /\ svc[p] \in ServiceFrame
    BY TypesKnown
  <1>2. \A q \in Procs : svc'[q] = svc[q] \/ svc'[q].pc # "cancelStart"
    <2>1. CASE EndRequest(p)
      <3>1. Idle.pc = "idle"
        BY DEF Idle
      <3> HIDE DEF Idle
      <3> QED BY <1>1, <2>1, <3>1 DEF EndRequest
    <2>2. ASSUME NEW pc, pc # "cancelStart", Step(p, pc)
          PROVE  \A q \in Procs : svc'[q] = svc[q] \/ svc'[q].pc # "cancelStart"
      BY <1>1, <2>2 DEF Step, ServiceFrame
    <2>3. ASSUME NEW pc, NEW id, NEW gid, NEW wish, pc # "cancelStart", Begin(p, pc, id, gid, wish)
          PROVE  \A q \in Procs : svc'[q] = svc[q] \/ svc'[q].pc # "cancelStart"
      BY <1>1, <2>3 DEF Begin
    <2> QED BY <2>1, <2>2, <2>3
  <1> QED BY <1>2 DEF NoCancels

LEMMA ClientLive ==
    ASSUME NothingLost, Inv, LiveInv, NEW p \in Reqs, Client(p)
    PROVE  LiveInv'
  <1>1. p \in Procs
    BY DifferentWorkers
  <1>2. /\ UNCHANGED elsewhere /\ UNCHANGED call /\ ctxDone' = ctxDone
        /\ \/ UNCHANGED svc
           \/ \E pc, id, gid, wish : pc # "cancelStart" /\ Begin(p, pc, id, gid, wish)
    BY DEF Client, Request, AddRequest, UpdateRequest, NothingLost
  <1>3. NoCancels
    BY <1>1, <1>2, FrameCancelsNot, NoCancelNow
  <1> QED BY <1>2, <1>3, ServiceLive DEF CallFresh

\* A call begins where there was none, and is taken back when it is over.
LEMMA CallsFresh ==
    ASSUME Inv, NEW p \in Procs, call[p].pc \in {"idle", "return"},
           TakeBack(p) \/ \E op \in Calls : \E id, gid : Invoke(p, op, id, gid)
    PROVE  \A w \in Workers : CallFresh(w)
  <1>1. p \in Workers /\ call \in [Workers -> Frame]
    BY TypesKnown, DifferentWorkers
  <1>2. CASE TakeBack(p)
    BY <1>1, <1>2 DEF TakeBack, CallFresh, NoCall
  <1>3. ASSUME NEW op \in Calls, NEW id, NEW gid, Invoke(p, op, id, gid)
        PROVE  \A w \in Workers : CallFresh(w)
    BY <1>1, <1>3 DEF Invoke, CallFresh, NoCall
  <1> QED BY <1>2, <1>3

LEMMA RequestLive ==
    ASSUME Inv, LiveInv, NEW p \in Reqs, RequestStep(p)
    PROVE  LiveInv'
  <1>1. p \in Procs
    BY DifferentWorkers
  <1>2. ~CancelStart(p)
    BY <1>1 DEF LiveInv, NoDelete, CancelStart
  <1>3. CASE Launch(p)
    <2>1. PICK id \in Ids : id = svc[p].id
      BY <1>1, <1>3, RequestAtWork DEF Launch, In
    <2>2. /\ svc' = [svc EXCEPT ![p] = Idle, ![id] = [Idle EXCEPT !.pc = "starting", !.id = id]]
          /\ Invoke(id, "Start", id, NoGid) /\ UNCHANGED elsewhere /\ ctxDone' = ctxDone
      BY <1>3, <2>1 DEF Launch
    <2>3. id \in Procs /\ call[id].pc = "idle"
      BY <1>1, <1>3, <2>1, DifferentWorkers DEF Launch, In, Inv, StartInv, ServiceInv
    <2>4. NoCancels
      <3>1. Idle.pc = "idle" /\ [Idle EXCEPT !.pc = "starting", !.id = id].pc = "starting"
        BY DEF Idle
      <3>2. \A q \in Procs : svc'[q] = svc[q] \/ svc'[q].pc \in {"idle", "starting"}
        BY <1>1, <2>2, <2>3, <3>1, TypesKnown
      <3> QED BY <3>2 DEF NoCancels, LiveInv, NoDelete, In
    <2>5. \A w \in Workers : CallFresh(w)
      BY <2>2, <2>3, CallsFresh DEF Calls
    <2> QED BY <2>2, <2>4, <2>5, ServiceLive
  <1>4. CASE SetDesired(p)
    <2>1. /\ svc[p].pc = "desire" /\ UNCHANGED elsewhere /\ ctxDone' = ctxDone
          /\ EndRequest(p) \/ Step(p, "settle") \/ Step(p, "await")
      BY <1>4 DEF SetDesired, In
    <2>2. call[p].pc = "idle" /\ svc[p].wish \in Wishes
      BY <1>1, <2>1, RequestAtWork DEF ServiceInv
    <2>3. UNCHANGED call \/ \E op \in Calls : \E id, gid : Invoke(p, op, id, gid)
      <3>1. MethodFor(svc[p].wish, svc[p].gid) \in Calls \cup {"none"}
        BY <2>2 DEF MethodFor, Wishes, Calls
      <3> HIDE DEF Calls
      <3> QED BY <1>4, <3>1 DEF SetDesired
    <2>4. NoCancels
      BY <1>1, <2>1, FrameCancelsNot, NoCancelNow
    <2>5. UNCHANGED call => \A w \in Workers : CallFresh(w)
      BY DEF CallFresh
    <2> QED BY <1>1, <2>1, <2>2, <2>3, <2>4, <2>5, CallsFresh, ServiceLive
  <1>5. CASE CallFailed(p) \/ SaveGid(p) \/ CallDone(p) \/ DeleteRow(p)
    <2>1. /\ call[p].pc = "return" /\ TakeBack(p) /\ UNCHANGED elsewhere /\ ctxDone' = ctxDone
          /\ EndRequest(p) \/ Step(p, "settle")
      BY <1>5 DEF CallFailed, SaveGid, CallDone, DeleteRow, Returned, At
    <2>2. NoCancels
      BY <1>1, <2>1, FrameCancelsNot, NoCancelNow
    <2> QED BY <1>1, <2>1, <2>2, CallsFresh, ServiceLive
  <1>6. CASE Settle(p)
    <2>1. EndRequest(p) /\ UNCHANGED elsewhere /\ UNCHANGED call /\ ctxDone' = ctxDone
      BY <1>6 DEF Settle
    <2>2. NoCancels
      BY <1>1, <2>1, FrameCancelsNot, NoCancelNow
    <2> QED BY <2>1, <2>2, ServiceLive DEF CallFresh
  <1> QED BY <1>2, <1>3, <1>4, <1>5, <1>6 DEF RequestStep

LEMMA GoroutineLive ==
    ASSUME NothingLost, Inv, LiveInv, NEW p \in Procs, Goroutine(p)
    PROVE  LiveInv'
  <1>1. CASE p \in Reqs /\ RequestStep(p)
    BY <1>1, RequestLive
  <1>2. CASE SettleStart(p)
    <2>1. /\ call[p].pc = "return" /\ TakeBack(p) /\ UNCHANGED elsewhere /\ ctxDone' = ctxDone
          /\ Step(p, "cleanup")
      BY <1>2 DEF SettleStart, Returned, At
    <2>2. NoCancels
      BY <2>1, FrameCancelsNot, NoCancelNow
    <2> QED BY <2>1, <2>2, CallsFresh, ServiceLive
  <1>3. CASE Cleanup(p)
    <2>1. Step(p, "done") /\ UNCHANGED elsewhere /\ UNCHANGED call /\ ctxDone' = ctxDone
      BY <1>3 DEF Cleanup
    <2>2. NoCancels
      BY <2>1, FrameCancelsNot, NoCancelNow
    <2> QED BY <2>1, <2>2, ServiceLive DEF CallFresh
  <1>4. CASE CallStep(p) /\ UNCHANGED <<repoVars, svcVars>>
    BY <1>4, AdapterKeepsLive DEF others, Goroutine
  <1> QED BY <1>1, <1>2, <1>3, <1>4 DEF Goroutine, StarterStep

LEMMA InitLive ==
    ASSUME Init
    PROVE  LiveInv
  <1>1. /\ followedBy = [g \in Gids |-> NoGid] /\ task = [g \in Gids |-> "none"]
        /\ call = [w \in Workers |-> NoCall] /\ notes = <<>> /\ ctxDone = {}
        /\ svc = [p \in Procs |-> Idle]
    BY DEF Init, DaemonInit, AdapterInit, ServiceInit
  <1>2. \A w \in Workers : call[w].pc = "idle"
    BY <1>1 DEF NoCall
  <1>3. \A p \in Procs : svc[p].pc = "idle"
    BY <1>1 DEF Idle
  <1>4. NoneReal /\ NoDelete /\ FramesOver
    BY <1>1, <1>2, <1>3 DEF NoneReal, NoDelete, FramesOver, Leaving, In
  <1>5. NotesOver /\ LiveTasksTracked
    BY <1>1 DEF NotesOver, LiveTasksTracked, Live
  <1> QED BY <1>4, <1>5 DEF LiveInv

LEMMA NextLive ==
    ASSUME NothingLost, Inv, LiveInv, [Next]_vars
    PROVE  LiveInv'
  <1>1. CASE NotificationLoop \/ PollLoop
    BY <1>1, AdapterKeepsLive DEF NotificationLoop, PollLoop, others
  <1>2. CASE Reconcile \/ UNCHANGED vars
    <2>1. UNCHANGED daemonVars /\ UNCHANGED adapterVars /\ UNCHANGED svcVars
      BY <1>2 DEF Reconcile, vars, daemonVars, adapterVars, svcVars
    <2>2. Grows /\ followedBy' = followedBy /\ task' = task
      BY <2>1, DaemonUnchanged DEF DaemonKeeps, daemonVars
    <2>3. NotesOver'
      BY <2>1, <2>2, NotesStay DEF LiveInv, daemonVars
    <2> QED BY <2>1, <2>2, <2>3, AsideLive DEF adapterVars, svcVars
  <1> QED BY <1>1, <1>2, ClientLive, GoroutineLive, DaemonLive DEF Next, Rest, Restart, NothingLost
-----------------------------------------------------------------------------
\* While a plain task runs, the adapter tracks it or is on its way to (ops.go
\* 144-174, events.go 106-145), whatever Starts, Pauses, Resumes and Cancels
\* race one another, the task's end and the loops, and although an RPC may be
\* refused, a query fail and the websocket end.  The conditions are needed: a
\* lost answer, a Delete that cancels a start, and a restart each leave a task
\* behind, and a real task runs for a while before the adapter hears of it.
THEOREM NoTaskForgotten ==
    ASSUME NothingLost
    PROVE  Spec => []LiveTasksTracked
  <1>1. Init => LiveInv
    BY InitLive
  <1>2. Inv /\ LiveInv /\ [Next]_vars => LiveInv'
    BY NextLive
  <1>3. LiveInv => LiveTasksTracked
    BY DEF LiveInv
  <1> QED BY <1>1, <1>2, <1>3, Invariance, PTL DEF Spec
=============================================================================
