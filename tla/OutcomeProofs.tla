--------------------------- MODULE OutcomeProofs ---------------------------
(***************************************************************************)
(* Proof that a row never says Complete without a download that ended,     *)
(* where every query is answered.                                          *)
(*                                                                         *)
(* OutcomeInv follows a completion from the daemon to the row: the         *)
(* notification, the frame of the loop before and after it asks for        *)
(* followedBy, the event on the channel; each speaks of a task that is     *)
(* done, and from the query on of one that was no metadata task.           *)
(***************************************************************************)
EXTENDS LiveTaskProofs

\* aria2 answers every query, and nobody deletes.
AnswersKnown == "query" \notin Faults /\ "Delete" \notin Ops

RealDone(g) == task[g] = "done" /\ followedBy[g] = NoGid

\* No call of Delete, so no result is purged.
CallsPlain ==
    /\ \A p \in Procs :
        /\ svc[p].pc # "cancelStart"
        /\ call[p].op # "Delete" /\ call[p].pc \notin {"Delete", "purge"}
    /\ \A g \in Gids : task[g] # "purged"

NotesDone == \A n \in DOMAIN notes :
                notes[n].method = "onDownloadComplete" => task[notes[n].gid] = "done"

\* What the notification loop knows before and after it asks for followedBy.
LoopKnows ==
    /\ At(Loop, "look") => task[call[Loop].gid] = "done"
    /\ At(Loop, "repEnd") /\ call[Loop].op = "Complete" => RealDone(call[Loop].gid)

EventsDone == \A e \in Pending : e.type = "Complete" => RealDone(e.gid)

OutcomeInv == CallsPlain /\ NotesDone /\ LoopKnows /\ EventsDone /\ CompleteIsTrue
-----------------------------------------------------------------------------
DoneStays ==
    \A g \in Gids :
        /\ task[g] = "done" => task'[g] = "done" /\ followedBy'[g] = followedBy[g]
        /\ task'[g] # "purged"
        /\ owner[g] # NoId => owner'[g] = owner[g]

LEMMA DoneUnchanged ==
    ASSUME Inv, OutcomeInv, UNCHANGED <<task, owner, followedBy>>
    PROVE  DoneStays
  BY DEF OutcomeInv, CallsPlain, DoneStays

LEMMA NotesDoneStay ==
    ASSUME Inv, NotesDone, DoneStays,
           \A n \in DOMAIN notes' : \E m \in DOMAIN notes : notes'[n] = notes[m]
    PROVE  NotesDone'
  <1> SUFFICES ASSUME NEW n \in DOMAIN notes', notes'[n].method = "onDownloadComplete"
               PROVE  task'[notes'[n].gid] = "done"
    BY DEF NotesDone
  <1>1. PICK m \in DOMAIN notes : notes'[n] = notes[m]
    OBVIOUS
  <1>2. notes[m].gid \in Gids /\ task[notes[m].gid] = "done"
    BY <1>1, NotesAre DEF NotesDone
  <1> QED BY <1>1, <1>2 DEF DoneStays

LEMMA AnnounceDone ==
    ASSUME Inv, NotesDone, DoneStays, NEW m, NEW g \in Gids, Announce(m, g),
           m = "onDownloadComplete" => task'[g] = "done"
    PROVE  NotesDone'
  <1> DEFINE n == [method |-> m, gid |-> g]
  <1>1. CASE notes' = notes
    BY <1>1, NotesDoneStay
  <1>2. CASE m \in Announced /\ notes' = Append(notes, n)
    <2>1. n \in [method: Methods, gid: Gids] /\ n.method = m /\ n.gid = g
      BY <1>2, AnnouncedAssumption
    <2> DEFINE Note == [method: Methods, gid: Gids]
    <2> HIDE DEF n, Note
    <2>2. notes \in Seq(Note) /\ n \in Note
      BY <2>1, NotesAre DEF Note
    <2>3. /\ Len(notes) \in Nat /\ DOMAIN notes = 1..Len(notes)
          /\ DOMAIN notes' = 1..(Len(notes) + 1) /\ notes'[Len(notes) + 1] = n
          /\ \A i \in 1..Len(notes) : notes'[i] = notes[i]
      BY <1>2, <2>2, AppendProperties
    <2>4. \A i \in DOMAIN notes' : notes'[i] = n \/ (i \in DOMAIN notes /\ notes'[i] = notes[i])
      BY <2>3
    <2>5. \A i \in DOMAIN notes : notes[i].method = "onDownloadComplete" =>
                                    task'[notes[i].gid] = "done"
      BY NotesAre DEF NotesDone, DoneStays
    <2> QED BY <2>1, <2>4, <2>5 DEF NotesDone
  <1> QED BY <1>1, <1>2 DEF Announce

LEMMA RowsStayTrue ==
    ASSUME Inv, OutcomeInv, DoneStays,
           \A i \in Ids : byID'[i] # NoRow /\ byID'[i].status = "Complete" =>
               \/ byID[i] # NoRow /\ byID[i].status = "Complete"
               \/ \E g \in Gids : owner[g] = i /\ RealDone(g)
    PROVE  CompleteIsTrue'
  <1> SUFFICES ASSUME NEW i \in Ids, byID'[i] # NoRow, byID'[i].status = "Complete"
               PROVE  \E g \in Gids : owner'[g] = i /\ task'[g] = "done" /\ followedBy'[g] = NoGid
    BY DEF CompleteIsTrue, Rows, Stored
  <1>1. PICK g \in Gids : owner[g] = i /\ task[g] = "done" /\ followedBy[g] = NoGid
    BY DEF OutcomeInv, CompleteIsTrue, CallsPlain, Rows, Stored, RealDone
  <1> QED BY <1>1, IdsAssumption DEF DoneStays

\* A step of the adapter.
LEMMA AdapterOutcome ==
    ASSUME Inv, OutcomeInv, DoneStays, NotesDone', UNCHANGED others,
           NEW w \in Workers, NEW f, call' = [call EXCEPT ![w] = f],
           w \in Procs => f.op # "Delete" /\ f.pc \notin {"Delete", "purge"},
           w = Loop /\ f.pc = "look" => task'[f.gid] = "done",
           w = Loop /\ f.pc = "repEnd" /\ f.op = "Complete" => RealDone(f.gid)',
           \A e \in Pending' : e \in Pending \/ (e.type = "Complete" => RealDone(e.gid)')
    PROVE  OutcomeInv'
  <1>1. /\ call'[w] = f /\ \A v \in Workers \ {w} : call'[v] = call[v]
        /\ svc' = svc /\ byID' = byID /\ Procs \subseteq Workers /\ Loop \in Workers
    BY TypesKnown, DifferentWorkers DEF others, svcVars, repoVars
  <1>2. CallsPlain'
    <2>1. \A v \in Procs : /\ svc[v].pc # "cancelStart"
                           /\ call[v].op # "Delete" /\ call[v].pc \notin {"Delete", "purge"}
      BY DEF OutcomeInv, CallsPlain
    <2>2. \A v \in Procs : call'[v].op # "Delete" /\ call'[v].pc \notin {"Delete", "purge"}
      BY <1>1, <2>1
    <2> QED BY <1>1, <2>1, <2>2 DEF CallsPlain, DoneStays
  <1>3. LoopKnows'
    <2>1. CASE w = Loop
      BY <1>1, <2>1 DEF LoopKnows, At, RealDone
    <2>2. CASE w # Loop
      <3>1. call'[Loop] = call[Loop]
        BY <1>1, <2>2
      <3>2. call[Loop].pc \in {"look", "repEnd"} => call[Loop].gid \in Gids
        BY <1>1 DEF Inv, FrameInv, WithGid
      <3>3. /\ call[Loop].pc = "look" => task[call[Loop].gid] = "done"
            /\ call[Loop].pc = "repEnd" /\ call[Loop].op = "Complete" =>
                 task[call[Loop].gid] = "done" /\ followedBy[call[Loop].gid] = NoGid
        BY DEF OutcomeInv, LoopKnows, At, RealDone
      <3>4. /\ call[Loop].pc = "look" => task'[call[Loop].gid] = "done"
            /\ call[Loop].pc = "repEnd" /\ call[Loop].op = "Complete" =>
                 task'[call[Loop].gid] = "done" /\ followedBy'[call[Loop].gid] = NoGid
        BY <3>2, <3>3 DEF DoneStays
      <3> QED BY <3>1, <3>4 DEF LoopKnows, At, RealDone
    <2> QED BY <2>1, <2>2
  <1>4. EventsDone'
    <2> SUFFICES ASSUME NEW e \in Pending', e.type = "Complete", e \in Pending
                 PROVE  RealDone(e.gid)'
      BY DEF EventsDone
    <2>1. e.gid \in Gids /\ RealDone(e.gid)
      <3>1. e \in Event
        BY PendingEvents DEF Inv
      <3> QED BY <3>1 DEF Event, OutcomeInv, EventsDone
    <2> QED BY <2>1 DEF RealDone, DoneStays
  <1>5. CompleteIsTrue'
    BY <1>1, RowsStayTrue
  <1> QED BY <1>2, <1>3, <1>4, <1>5 DEF OutcomeInv

\* Only the notification loop reports a completion.
Sends(w) ==
    \/ UNCHANGED events
    \/ \E type \in EventTypes, new \in {NoGid, call[w].new} :
         /\ Send(w, type, new)
         /\ type = "Complete" => w = Loop /\ call[w].pc = "repEnd" /\ call[w].op = "Complete"

LEMMA SendsDone ==
    ASSUME Inv, OutcomeInv, DoneStays, UNCHANGED inHand, NEW w \in Workers,
           call[w].pc \in WithGid \/ UNCHANGED events, Sends(w)
    PROVE  \A x \in Pending' : x \in Pending \/ (x.type = "Complete" => RealDone(x.gid)')
  <1>1. CASE UNCHANGED events
    BY <1>1 DEF Pending
  <1>2. ASSUME NEW type \in EventTypes, NEW new \in {NoGid, call[w].new}, Send(w, type, new),
               type = "Complete" => w = Loop /\ call[w].pc = "repEnd" /\ call[w].op = "Complete",
               call[w].pc \in WithGid
        PROVE  \A x \in Pending' : x \in Pending \/ (x.type = "Complete" => RealDone(x.gid)')
    <2>1. PICK e : e = [type |-> type, id |-> call[w].id, gid |-> call[w].gid, new |-> new]
      OBVIOUS
    <2>2. call[w].gid \in Gids /\ call[w].pc # "idle"
      BY <1>2 DEF Inv, FrameInv, WithGid
    <2>3. e \in Event
      BY <2>1, <2>2, EventIsMine
    <2>4. Report(e)
      BY <1>2, <2>1 DEF Send
    <2>5. \A x \in Pending' : x \in Pending \/ x = e
      BY <2>3, <2>4, ReportAdds DEF Inv
    <2>6. e.type = type /\ e.gid = call[w].gid
      BY <2>1
    <2>7. type = "Complete" => task[call[w].gid] = "done" /\ followedBy[call[w].gid] = NoGid
      BY <1>2 DEF OutcomeInv, LoopKnows, At, RealDone
    <2>8. e.type = "Complete" => RealDone(e.gid)'
      BY <2>2, <2>6, <2>7 DEF DoneStays, RealDone
    <2> QED BY <2>5, <2>8
  <1> QED BY <1>1, <1>2 DEF Sends

\* A step that changes no more than the counter of its frame.
LEMMA MovesOutcome ==
    ASSUME Inv, OutcomeInv, DoneStays, NotesDone', UNCHANGED others, NEW w \in Workers,
           call[w].pc \in WithGid \/ UNCHANGED events, Sends(w),
           \/ \E r : Return(w, r)
           \/ \E pc : /\ Goto(w, pc) /\ pc \notin {"Delete", "purge"}
                      /\ w = Loop => pc \notin {"look", "repEnd"}
    PROVE  OutcomeInv'
  <1>1. call[w] \in Frame /\ UNCHANGED inHand
    BY TypesKnown DEF others, recVars
  <1>2. w \in Procs => call[w].op # "Delete"
    BY DEF OutcomeInv, CallsPlain
  <1>3. PICK f : /\ call' = [call EXCEPT ![w] = f] /\ f.op \in {call[w].op, "none"}
                 /\ f.pc \notin {"Delete", "purge"}
                 /\ w = Loop => f.pc \notin {"look", "repEnd"}
    <2>1. ASSUME NEW r, Return(w, r)
          PROVE  \E f : /\ call' = [call EXCEPT ![w] = f] /\ f.op \in {call[w].op, "none"}
                        /\ f.pc \in {"idle", "return"}
      <3>1. PICK f : f = IF w \in Loops THEN NoCall
                         ELSE [call[w] EXCEPT !.pc = "return", !.result = r]
        OBVIOUS
      <3>2. f.op \in {call[w].op, "none"} /\ f.pc \in {"idle", "return"}
        BY <1>1, <3>1 DEF NoCall, Frame
      <3>3. call' = [call EXCEPT ![w] = f]
        BY <2>1, <3>1 DEF Return
      <3> QED BY <3>2, <3>3
    <2>2. ASSUME NEW pc, Goto(w, pc)
          PROVE  \E f : call' = [call EXCEPT ![w] = f] /\ f.op = call[w].op /\ f.pc = pc
      <3>1. PICK f : f = [call[w] EXCEPT !.pc = pc]
        OBVIOUS
      <3>2. f.op = call[w].op /\ f.pc = pc
        BY <1>1, <3>1 DEF Frame
      <3> QED BY <2>2, <3>1, <3>2 DEF Goto
    <2> QED BY <2>1, <2>2
  <1>4. \A x \in Pending' : x \in Pending \/ (x.type = "Complete" => RealDone(x.gid)')
    BY <1>1, SendsDone
  <1> QED BY <1>2, <1>3, <1>4, AdapterOutcome

LEMMA ReportsOutcome ==
    ASSUME Inv, OutcomeInv, UNCHANGED others, NEW w \in Workers,
           \/ ReportStart(w) \/ ReportMeta(w) \/ ReportPaused(w) \/ ReportEnd(w)
           \/ ReportProgress(w) \/ AddUriRefused(w) \/ AddUriLost(w) \/ Track(w) \/ Swap(w)
           \/ Untrack(w)
    PROVE  OutcomeInv'
  <1>1. UNCHANGED daemonVars
    BY DEF ReportStart, ReportMeta, ReportPaused, ReportEnd, ReportProgress, AddUriRefused,
           AddUriLost, Track, Swap, Untrack
  <1>2. DoneStays /\ NotesDone'
    BY <1>1, DoneUnchanged, NotesDoneStay DEF daemonVars, OutcomeInv
  <1>3. Sends(w) /\ (call[w].pc \in WithGid \/ UNCHANGED events)
    <2>1. CASE ReportEnd(w)
      <3>1. PICK type : Send(w, type, NoGid) /\ type = IF w = Loop THEN call[w].op ELSE "Cancelled"
        BY <2>1 DEF ReportEnd
      <3>2. call[w].pc = "repEnd"
        BY <2>1 DEF ReportEnd, At
      <3>3. type \in EventTypes
        BY <3>1, <3>2 DEF Inv, FrameInv, Loops, EventTypes, TerminalTypes
      <3> QED BY <3>1, <3>2, <3>3 DEF Sends, WithGid
    <2>2. CASE ReportStart(w) \/ ReportMeta(w) \/ ReportPaused(w) \/ ReportProgress(w)
      <3>1. /\ call[w].pc \in WithGid
            /\ \/ UNCHANGED events
               \/ Send(w, "Start", NoGid) \/ Send(w, "Meta", NoGid) \/ Send(w, "Paused", NoGid)
               \/ Send(w, "Progress", NoGid)
        BY <2>2 DEF ReportStart, ReportMeta, ReportPaused, ReportProgress, At, WithGid
      <3> QED BY <3>1 DEF Sends, EventTypes
    <2>3. CASE AddUriRefused(w) \/ AddUriLost(w) \/ Track(w) \/ Swap(w) \/ Untrack(w)
      BY <2>3 DEF AddUriRefused, AddUriLost, Track, Swap, Untrack, Sends
    <2> QED BY <2>1, <2>2, <2>3
  <1>4. \/ \E r : Return(w, r)
        \/ Goto(w, "repMeta") \/ Goto(w, "repProgress") \/ Goto(w, "untrack")
        \/ Goto(w, "repStart") \/ Goto(w, "repGid")
    <2>1. CASE Untrack(w)
      <3>1. call[w].op # "Delete"
        <4>1. w \in Procs => call[w].op # "Delete"
          BY DEF OutcomeInv, CallsPlain
        <4>2. w \in Loops => call[w].op \in EventTypes
          BY <2>1 DEF Untrack, At, Inv, FrameInv
        <4> QED BY <4>1, <4>2 DEF Workers, EventTypes, TerminalTypes
      <3> QED BY <2>1, <3>1 DEF Untrack
    <2>2. CASE ~Untrack(w)
      BY <2>2 DEF ReportStart, ReportMeta, ReportPaused, ReportEnd, ReportProgress, AddUriRefused,
             AddUriLost, Track, Swap
    <2> QED BY <2>1, <2>2
  <1> QED BY <1>2, <1>3, <1>4, MovesOutcome

\* Steps that give a frame of a call other gids.
LEMMA GidsOutcome ==
    ASSUME Inv, OutcomeInv, UNCHANGED others, NEW p \in Procs, AddUri(p) \/ AskFollowedBy(p)
    PROVE  OutcomeInv'
  <1> USE DifferentWorkers
  <1>1. call[p] \in Frame /\ call[p].op # "Delete" /\ UNCHANGED events /\ p # Loop
    BY TypesKnown DEF OutcomeInv, CallsPlain, AddUri, AskFollowedBy
  <1>2. DoneStays /\ NotesDone'
    <2>1. ASSUME NEW g \in Gids, NewTask(g, call[p].id)
          PROVE  DoneStays /\ NotesDone'
      <3>1. /\ task[g] = "none" /\ owner[g] = NoId /\ task' = [task EXCEPT ![g] = "active"]
            /\ owner' = [owner EXCEPT ![g] = call[p].id] /\ followedBy' = followedBy
            /\ Announce("onDownloadStart", g)
        BY <2>1 DEF NewTask, FreeGids, Inv, DaemonInv
      <3>2. DoneStays
        BY <3>1, NotesAre, TypesKnown DEF DoneStays, OutcomeInv, CallsPlain
      <3>3. NotesDone'
        BY <3>1, <3>2, AnnounceDone DEF OutcomeInv
      <3> QED BY <3>2, <3>3
    <2>2. CASE UNCHANGED daemonVars
      BY <2>2, DoneUnchanged, NotesDoneStay DEF daemonVars, OutcomeInv
    <2> QED BY <2>1, <2>2 DEF AddUri, AskFollowedBy, FreeGids
  <1>3. PICK f : call' = [call EXCEPT ![p] = f] /\ f.op = call[p].op /\ f.pc \in {"told?", "track"}
    <2>1. ASSUME NEW g, NEW pc \in {"told?", "track"},
                 call' = [call EXCEPT ![p].pc = pc, ![p].gid = g]
          PROVE  \E f : /\ call' = [call EXCEPT ![p] = f] /\ f.op = call[p].op
                        /\ f.pc \in {"told?", "track"}
      <3>1. PICK f : f = [call[p] EXCEPT !.pc = pc, !.gid = g]
        OBVIOUS
      <3>2. f.op = call[p].op /\ f.pc = pc
        BY <1>1, <3>1 DEF Frame
      <3> QED BY <2>1, <3>1, <3>2
    <2>2. \E pc \in {"told?", "track"} : \E g : call' = [call EXCEPT ![p].pc = pc, ![p].gid = g]
      BY DEF AddUri, AskFollowedBy
    <2> QED BY <2>1, <2>2
  <1>4. Pending' = Pending
    BY <1>1 DEF Pending, others, recVars
  <1> QED BY <1>1, <1>2, <1>3, <1>4, AdapterOutcome

LEMMA CommandOutcome ==
    ASSUME Inv, OutcomeInv, UNCHANGED others, NEW p \in Procs, Pause(p) \/ Unpause(p) \/ Remove(p)
    PROVE  OutcomeInv'
  <1> USE DifferentWorkers
  <1>1. /\ call[p] \in Frame /\ call[p].op # "Delete" /\ call[p].pc # "Delete"
        /\ UNCHANGED events /\ p # Loop
    BY TypesKnown DEF OutcomeInv, CallsPlain, Pause, Unpause, Remove
  <1>2. call[p].gid \in Gids
    BY <1>1 DEF Pause, Unpause, Remove, At, Inv, FrameInv, WithGid
  <1>3. PICK from \in SUBSET Live, to \in {"paused", "active", "removed"},
             m \in Methods \ {"onDownloadComplete"}, answer \in {"ok", "missing", "error"} :
          Command(call[p].gid, from, to, m, answer)
    <2>1. CASE Pause(p)
      BY <2>1 DEF Pause, Live, Methods
    <2>2. CASE Unpause(p)
      BY <2>2 DEF Unpause, Live, Methods
    <2>3. CASE Remove(p)
      BY <2>3 DEF Remove, Live, Methods
    <2> QED BY <2>1, <2>2, <2>3
  <1>4. DoneStays /\ NotesDone'
    <2>1. CASE /\ task[call[p].gid] \in from /\ task' = [task EXCEPT ![call[p].gid] = to]
               /\ Announce(m, call[p].gid) /\ UNCHANGED <<owner, followedBy>>
      <3>1. DoneStays
        BY <1>2, <2>1, NotesAre DEF DoneStays, OutcomeInv, CallsPlain, Live
      <3> QED BY <1>2, <2>1, <3>1, AnnounceDone DEF OutcomeInv
    <2>2. CASE UNCHANGED daemonVars
      BY <2>2, DoneUnchanged, NotesDoneStay DEF daemonVars, OutcomeInv
    <2> QED BY <1>3, <2>1, <2>2 DEF Command
  <1>5. PICK f : /\ call' = [call EXCEPT ![p] = f] /\ f.op = call[p].op
                 /\ f.pc \in {"repPaused", "look", "return", "repEnd", "untrack"}
    <2>1. ASSUME NEW pc \in {"repPaused", "look", "return", "repEnd", "untrack"}, NEW r,
                 \/ Goto(p, pc)
                 \/ call' = [call EXCEPT ![p].pc = pc, ![p].result = r]
          PROVE  \E f : /\ call' = [call EXCEPT ![p] = f] /\ f.op = call[p].op
                        /\ f.pc \in {"repPaused", "look", "return", "repEnd", "untrack"}
      <3>1. PICK f : f = IF Goto(p, pc) THEN [call[p] EXCEPT !.pc = pc]
                         ELSE [call[p] EXCEPT !.pc = pc, !.result = r]
        OBVIOUS
      <3>2. f.op = call[p].op /\ f.pc = pc
        BY <1>1, <3>1 DEF Frame
      <3>3. call' = [call EXCEPT ![p] = f]
        BY <2>1, <3>1 DEF Goto
      <3> QED BY <3>2, <3>3
    <2>2. \A r : Return(p, r) => call' = [call EXCEPT ![p].pc = "return", ![p].result = r]
      BY DEF Return, Loops
    <2>3. CASE Pause(p) \/ Unpause(p)
      <3>1. Goto(p, "repPaused") \/ Goto(p, "look") \/ Return(p, "error")
        BY <2>3 DEF Pause, Unpause
      <3> QED BY <2>1, <2>2, <3>1
    <2>4. CASE Remove(p)
      <3>1. \E a : \/ Return(p, "error")
                   \/ call' = [call EXCEPT ![p].pc = "repEnd", ![p].result = a]
                   \/ call' = [call EXCEPT ![p].pc = "untrack", ![p].result = a]
        BY <2>4 DEF Remove
      <3> QED BY <2>1, <2>2, <3>1
    <2> QED BY <2>3, <2>4
  <1>6. Pending' = Pending
    BY <1>1 DEF Pending, others, recVars
  <1> QED BY <1>1, <1>4, <1>5, <1>6, AdapterOutcome

\* A completed task without followedBy was no metadata task.
LEMMA LookOutcome ==
    ASSUME AnswersKnown, Inv, OutcomeInv, UNCHANGED others, NEW w \in Workers, Look(w)
    PROVE  OutcomeInv'
  <1>1. /\ call[w].pc = "look" /\ call[w].gid \in Gids /\ call[w] \in Frame
        /\ UNCHANGED daemonVars /\ UNCHANGED events
    BY TypesKnown DEF Look, At, Inv, FrameInv, WithGid
  <1>2. DoneStays /\ NotesDone'
    BY <1>1, DoneUnchanged, NotesDoneStay DEF daemonVars, OutcomeInv
  <1>3. Told(call[w].gid) = {followedBy[call[w].gid]}
    BY <1>1 DEF AnswersKnown, Told, OutcomeInv, CallsPlain
  <1>4. PICK real, pc :
          /\ real = followedBy[call[w].gid]
          /\ pc = IF real # NoGid THEN "swap" ELSE IF w = Loop THEN "repEnd" ELSE "repMeta"
          /\ call' = [call EXCEPT ![w].new = real, ![w].pc = pc]
    BY <1>3 DEF Look
  <1>5. PICK f : f = [call[w] EXCEPT !.new = real, !.pc = pc]
    OBVIOUS
  <1>6. f.pc = pc /\ f.gid = call[w].gid /\ f.op = call[w].op
    BY <1>1, <1>5 DEF Frame
  <1>7. call' = [call EXCEPT ![w] = f]
    BY <1>4, <1>5
  <1>8. w = Loop => task[f.gid] = "done"
    BY <1>1, <1>6 DEF OutcomeInv, LoopKnows, At
  <1>9. w = Loop /\ f.pc = "repEnd" => RealDone(f.gid)'
    BY <1>1, <1>4, <1>6, <1>8 DEF RealDone, daemonVars
  <1>10. /\ w \in Procs => f.op # "Delete" /\ f.pc \notin {"Delete", "purge"}
         /\ f.pc # "look"
    BY <1>4, <1>6 DEF OutcomeInv, CallsPlain
  <1>11. Pending' = Pending
    BY <1>1 DEF Pending, others, recVars
  <1> QED BY <1>2, <1>7, <1>9, <1>10, <1>11, AdapterOutcome

LEMMA ReportGidOutcome ==
    ASSUME Inv, OutcomeInv, UNCHANGED others, NEW w \in Workers, ReportGid(w)
    PROVE  OutcomeInv'
  <1>1. /\ call[w].pc = "repGid" /\ Send(w, "GIDUpdate", call[w].new) /\ call[w] \in Frame
        /\ call' = [call EXCEPT ![w].pc = "repMeta", ![w].gid = call[w].new, ![w].new = NoGid]
        /\ UNCHANGED daemonVars
    BY TypesKnown DEF ReportGid, At
  <1>2. DoneStays /\ NotesDone'
    BY <1>1, DoneUnchanged, NotesDoneStay DEF daemonVars, OutcomeInv
  <1>3. PICK f : f = [call[w] EXCEPT !.pc = "repMeta", !.gid = call[w].new, !.new = NoGid]
    OBVIOUS
  <1>4. call' = [call EXCEPT ![w] = f] /\ f.pc = "repMeta" /\ f.op = call[w].op
    BY <1>1, <1>3 DEF Frame
  <1>5. w \in Procs => f.op # "Delete"
    BY <1>4 DEF OutcomeInv, CallsPlain
  <1>6. Sends(w) /\ call[w].pc \in WithGid /\ UNCHANGED inHand
    BY <1>1 DEF Sends, EventTypes, WithGid, others, recVars
  <1>7. \A x \in Pending' : x \in Pending \/ (x.type = "Complete" => RealDone(x.gid)')
    BY <1>2, <1>6, SendsDone
  <1> QED BY <1>2, <1>4, <1>5, <1>7, AdapterOutcome

LEMMA LoopOutcome ==
    ASSUME Inv, OutcomeInv, UNCHANGED others, TakeNote \/ PollTask
    PROVE  OutcomeInv'
  <1>1. UNCHANGED <<task, owner, followedBy, events>> /\ DoneStays /\ Loop \notin Procs
        /\ Poll \notin Procs /\ Loop \in Workers /\ Poll \in Workers /\ Poll # Loop
        /\ Pending' = Pending
    BY DoneUnchanged, DifferentWorkers, WorkersAssumption
    DEF TakeNote, PollTask, daemonVars, Pending, others, recVars
  <1>2. CASE TakeNote
    <2>1. /\ notes # <<>> /\ notes' = Tail(notes)
          /\ notes[1] \in [method: Methods, gid: Gids] /\ 1 \in DOMAIN notes /\ Head(notes) = notes[1]
          /\ \A n \in DOMAIN notes' : n + 1 \in DOMAIN notes /\ notes'[n] = notes[n + 1]
      <3> DEFINE Note == [method: Methods, gid: Gids]
      <3>1. notes \in Seq(Note) /\ notes # <<>> /\ notes' = Tail(notes)
        BY <1>2, NotesAre DEF TakeNote
      <3> HIDE DEF Note
      <3>2. /\ Len(notes) \in Nat /\ Len(notes) > 0 /\ DOMAIN notes = 1..Len(notes)
            /\ Head(notes) = notes[1]
            /\ DOMAIN notes' = 1..(Len(notes) - 1)
            /\ \A i \in 1..(Len(notes) - 1) : notes'[i] = notes[i + 1]
        BY <3>1, HeadTailProperties
      <3>3. notes[1] \in Note
        BY <3>1, <3>2
      <3> QED BY <3>1, <3>2, <3>3 DEF Note
    <2>2. NotesDone'
      BY <1>1, <2>1, NotesDoneStay DEF OutcomeInv
    <2>3. PICK n : n = notes[1]
      OBVIOUS
    <2>4. /\ n.method \in Methods /\ n.gid \in Gids
          /\ n.method = "onDownloadComplete" => task'[n.gid] = "done"
      BY <1>1, <2>1, <2>3 DEF OutcomeInv, NotesDone
    <2>5. PICK f : f = IF gidToID[n.gid] = NoId THEN call[Loop]
                       ELSE [NoCall EXCEPT !.pc = Reaction[n.method].pc, !.op = Reaction[n.method].op,
                                           !.id = gidToID[n.gid], !.gid = n.gid]
      OBVIOUS
    <2>6. call' = [call EXCEPT ![Loop] = f]
      BY <1>1, <1>2, <2>1, <2>3, <2>5, TypesKnown DEF TakeNote
    <2>7. CASE gidToID[n.gid] = NoId
      <3>1. f.pc = "idle"
        BY <1>2, <2>5, <2>7 DEF TakeNote, At
      <3> QED BY <1>1, <2>2, <2>6, <3>1, AdapterOutcome
    <2>8. CASE gidToID[n.gid] # NoId
      <3>1. f.pc = Reaction[n.method].pc /\ f.op = Reaction[n.method].op /\ f.gid = n.gid
        BY <2>5, <2>8 DEF NoCall
      <3>2. /\ f.pc = "look" => n.method = "onDownloadComplete"
            /\ f.pc = "repEnd" => f.op # "Complete"
        BY <2>4, <3>1 DEF Reaction, Methods
      <3> QED BY <1>1, <2>2, <2>4, <2>6, <3>1, <3>2, AdapterOutcome
    <2> QED BY <2>7, <2>8
  <1>3. CASE PollTask
    <2>1. NotesDone'
      BY <1>1, <1>3, NotesDoneStay DEF PollTask, daemonVars, OutcomeInv
    <2>2. \E f : call' = [call EXCEPT ![Poll] = f]
      BY <1>3 DEF PollTask
    <2> QED BY <1>1, <2>1, <2>2, AdapterOutcome
  <1> QED BY <1>2, <1>3

LEMMA AdapterKeepsOutcome ==
    ASSUME AnswersKnown, Inv, OutcomeInv, UNCHANGED others,
           LoopStep \/ PollStep \/ \E p \in Procs : CallStep(p)
    PROVE  OutcomeInv'
  <1>1. Loop \in Workers /\ Poll \in Workers
    BY DifferentWorkers
  <1>2. CASE LoopStep \/ PollStep
    BY <1>1, <1>2, LoopOutcome, ReportsOutcome, LookOutcome, ReportGidOutcome DEF LoopStep, PollStep
  <1>3. ASSUME NEW p \in Procs, CallStep(p)
        PROVE  OutcomeInv'
    <2>1. p \in Workers /\ ~PurgeResult(p)
      BY DifferentWorkers DEF OutcomeInv, CallsPlain, PurgeResult, At
    <2> QED BY <1>3, <2>1, GidsOutcome, ReportsOutcome, CommandOutcome, LookOutcome,
               ReportGidOutcome DEF CallStep
  <1> QED BY <1>2, <1>3

\* Steps that leave the frames of the adapter and of the service alone.
LEMMA AsideOutcome ==
    ASSUME Inv, OutcomeInv, DoneStays, NotesDone', UNCHANGED <<call, svc>>,
           Pending' \subseteq Pending,
           \A i \in Ids : byID'[i] # NoRow /\ byID'[i].status = "Complete" =>
               \/ byID[i] # NoRow /\ byID[i].status = "Complete"
               \/ \E g \in Gids : owner[g] = i /\ RealDone(g)
    PROVE  OutcomeInv'
  <1>1. CallsPlain'
    BY DEF OutcomeInv, CallsPlain, DoneStays
  <1>2. LoopKnows'
    <2>1. call[Loop].pc \in {"look", "repEnd"} => call[Loop].gid \in Gids
      BY DifferentWorkers DEF Inv, FrameInv, WithGid
    <2> QED BY <2>1 DEF OutcomeInv, LoopKnows, At, RealDone, DoneStays
  <1>3. EventsDone'
    <2> SUFFICES ASSUME NEW e \in Pending', e.type = "Complete"
                 PROVE  RealDone(e.gid)'
      BY DEF EventsDone
    <2>1. e \in Pending /\ e \in Event
      BY PendingEvents DEF Inv
    <2> QED BY <2>1 DEF Event, OutcomeInv, EventsDone, RealDone, DoneStays
  <1>4. CompleteIsTrue'
    BY RowsStayTrue
  <1> QED BY <1>1, <1>2, <1>3, <1>4 DEF OutcomeInv

LEMMA DaemonOutcome ==
    ASSUME Inv, OutcomeInv, Daemon
    PROVE  OutcomeInv'
  <1>1. /\ DaemonStep /\ UNCHANGED <<call, svc>> /\ byID' = byID /\ Pending' = Pending
    BY DEF Daemon, adapterVars, svcVars, repoVars, recVars, Pending
  <1>2. DoneStays /\ NotesDone'
    <2>1. ASSUME NEW g \in Gids, Finish(g) \/ Fail(g)
          PROVE  DoneStays /\ NotesDone'
      <3>1. PICK to \in {"done", "failed"}, m \in Methods :
              /\ task' = [task EXCEPT ![g] = to] /\ Announce(m, g) /\ task[g] = "active"
              /\ m = "onDownloadComplete" => to = "done"
        BY <2>1 DEF Finish, Fail, Methods
      <3>2. DoneStays
        BY <2>1, <3>1, NotesAre DEF Finish, Fail, DoneStays, OutcomeInv, CallsPlain
      <3>3. m = "onDownloadComplete" => task'[g] = "done"
        BY <3>1, NotesAre
      <3> QED BY <3>1, <3>2, <3>3, AnnounceDone DEF OutcomeInv
    <2>2. ASSUME NEW g \in Gids, NEW real \in Gids, FinishMetadata(g, real)
          PROVE  DoneStays /\ NotesDone'
      <3>1. /\ task[g] = "active" /\ task[real] = "none" /\ owner[real] = NoId
            /\ task' = [task EXCEPT ![g] = "done", ![real] = "active"]
            /\ owner' = [owner EXCEPT ![real] = owner[g]]
            /\ followedBy' = [followedBy EXCEPT ![g] = real]
            /\ Announce("onDownloadComplete", g)
        BY <2>2 DEF FinishMetadata, FreeGids, Inv, DaemonInv
      <3>2. DoneStays
        BY <3>1, NotesAre, TypesKnown DEF DoneStays, OutcomeInv, CallsPlain
      <3>3. task'[g] = "done"
        BY <3>1, NotesAre
      <3> QED BY <3>1, <3>2, <3>3, AnnounceDone DEF OutcomeInv
    <2>3. CASE EndStream
      <3>1. PICK n \in 0..Len(notes) : notes' = SubSeq(notes, 1, n)
        BY <2>3 DEF EndStream
      <3>2. \A i \in DOMAIN notes' : i \in DOMAIN notes /\ notes'[i] = notes[i]
        BY <3>1, PrefixOfNotes
      <3>3. DoneStays
        BY <2>3, DoneUnchanged DEF EndStream
      <3> QED BY <3>2, <3>3, NotesDoneStay DEF OutcomeInv
    <2> QED BY <1>1, <2>1, <2>2, <2>3 DEF DaemonStep
  <1> QED BY <1>1, <1>2, AsideOutcome
-----------------------------------------------------------------------------
\* No step of the service makes a row Complete.
RowsHonest == \A i \in Ids : byID'[i] # NoRow /\ byID'[i].status = "Complete" =>
                                byID[i] # NoRow /\ byID[i].status = "Complete"

LEMMA SetHonest ==
    ASSUME Inv, NEW id \in Ids, NEW clone, Set(id, clone),
           Stored(id) /\ clone.status = "Complete" => byID[id].status = "Complete"
    PROVE  RowsHonest
  <1>1. byID \in [Ids -> Download \cup {NoRow}]
    BY DEF Inv, TypeOK, RepoTypeOK
  <1>2. byID' = byID \/ (Stored(id) /\ byID' = [byID EXCEPT ![id] = clone])
    BY DEF Set, Update, repoVars
  <1> QED BY <1>1, <1>2 DEF RowsHonest, Stored

\* SetFailed, SetGid, and the Updates of UpdateDesiredStatus.
LEMMA WritesHonest ==
    ASSUME Inv, NEW id \in Ids,
           \/ UNCHANGED repoVars
           \/ Delete(id)
           \/ SetFailed(id)
           \/ \E gid : SetGid(id, gid)
           \/ \E wish : Set(id, [byID[id] EXCEPT !.desired = wish])
           \/ \E wish \in Wishes : Set(id, Settled(byID[id], wish))
    PROVE  RowsHonest
  <1>1. ASSUME Stored(id)
        PROVE  byID[id] \in Download
    BY <1>1 DEF Inv, TypeOK, RepoTypeOK, Stored
  <1>2. CASE UNCHANGED repoVars
    BY <1>2 DEF RowsHonest, repoVars
  <1>3. CASE Delete(id)
    BY <1>3 DEF Delete, RowsHonest, repoVars, Inv, TypeOK, RepoTypeOK
  <1>4. CASE SetFailed(id)
    <2>1. PICK clone : clone = [byID[id] EXCEPT !.status = "Failed"]
      OBVIOUS
    <2>2. Stored(id) => clone.status = "Failed"
      BY <1>1, <2>1 DEF Download
    <2> QED BY <1>4, <2>1, <2>2, SetHonest DEF SetFailed
  <1>5. ASSUME NEW gid, SetGid(id, gid)
        PROVE  RowsHonest
    <2>1. PICK clone : clone = [byID[id] EXCEPT !.gid = gid]
      OBVIOUS
    <2>2. Stored(id) => clone.status = byID[id].status
      BY <1>1, <2>1 DEF Download
    <2> QED BY <1>5, <2>1, <2>2, SetHonest DEF SetGid
  <1>6. ASSUME NEW wish, Set(id, [byID[id] EXCEPT !.desired = wish])
        PROVE  RowsHonest
    <2>1. PICK clone : clone = [byID[id] EXCEPT !.desired = wish]
      OBVIOUS
    <2>2. Stored(id) => clone.status = byID[id].status
      BY <1>1, <2>1 DEF Download
    <2> QED BY <1>6, <2>1, <2>2, SetHonest
  <1>7. ASSUME NEW wish \in Wishes, Set(id, Settled(byID[id], wish))
        PROVE  RowsHonest
    <2>1. PICK clone : clone = Settled(byID[id], wish)
      OBVIOUS
    <2>2. Stored(id) => clone.status \in {wish, "Active"}
      BY <1>1, <2>1 DEF Settled, Download
    <2> QED BY <1>7, <2>1, <2>2, SetHonest DEF Wishes
  <1> QED BY <1>2, <1>3, <1>4, <1>5, <1>6, <1>7

\* A call begins, is taken back or goes on.
CallPlain(w) ==
    \/ call'[w] = call[w]
    \/ /\ w \in Procs /\ call'[w].op # "Delete" /\ call'[w].pc \notin {"Delete", "purge"}

LEMMA CallsBegin ==
    ASSUME Inv, NEW p \in Procs,
           \/ UNCHANGED call
           \/ TakeBack(p)
           \/ \E op \in Calls \ {"Delete"} : \E id, gid : Invoke(p, op, id, gid)
    PROVE  \A w \in Workers : CallPlain(w)
  <1>1. p \in Workers /\ call \in [Workers -> Frame]
    BY TypesKnown, DifferentWorkers
  <1>2. CASE UNCHANGED call
    BY <1>2 DEF CallPlain
  <1>3. CASE TakeBack(p)
    BY <1>1, <1>3 DEF TakeBack, CallPlain, NoCall
  <1>4. ASSUME NEW op \in Calls \ {"Delete"}, NEW id, NEW gid, Invoke(p, op, id, gid)
        PROVE  \A w \in Workers : CallPlain(w)
    BY <1>1, <1>4 DEF Invoke, CallPlain, NoCall, Calls
  <1> QED BY <1>2, <1>3, <1>4

LEMMA ServiceOutcome ==
    ASSUME Inv, OutcomeInv, UNCHANGED elsewhere, UNCHANGED recVars, NoCancels, RowsHonest,
           \A w \in Workers : CallPlain(w)
    PROVE  OutcomeInv'
  <1>1. /\ UNCHANGED <<task, owner, followedBy, notes, events, inHand>> /\ DoneStays
        /\ Procs \subseteq Workers /\ Loop \in Workers /\ Loop \notin Procs
    BY DoneUnchanged, DifferentWorkers DEF elsewhere, daemonVars, recVars
  <1>2. CallsPlain'
    <2>1. \A v \in Procs : call'[v].op # "Delete" /\ call'[v].pc \notin {"Delete", "purge"}
      BY <1>1 DEF OutcomeInv, CallsPlain, CallPlain
    <2> QED BY <1>1, <2>1 DEF CallsPlain, NoCancels, DoneStays
  <1>3. NotesDone' /\ EventsDone'
    BY <1>1 DEF OutcomeInv, NotesDone, EventsDone, Pending, RealDone
  <1>4. LoopKnows'
    <2>1. call'[Loop] = call[Loop]
      BY <1>1 DEF CallPlain
    <2> QED BY <1>1, <2>1 DEF OutcomeInv, LoopKnows, At, RealDone
  <1>5. CompleteIsTrue'
    BY <1>1, RowsStayTrue DEF RowsHonest
  <1> QED BY <1>2, <1>3, <1>4, <1>5 DEF OutcomeInv

LEMMA ClientOutcome ==
    ASSUME AnswersKnown, Inv, OutcomeInv, NEW p \in Reqs, Client(p)
    PROVE  OutcomeInv'
  <1>1. p \in Procs /\ UNCHANGED recVars /\ \A q \in Procs : svc[q].pc # "cancelStart"
    BY DifferentWorkers DEF Client, OutcomeInv, CallsPlain
  <1>2. /\ UNCHANGED elsewhere /\ UNCHANGED call
        /\ \/ UNCHANGED svc
           \/ \E pc, id, gid, wish : pc # "cancelStart" /\ Begin(p, pc, id, gid, wish)
    BY DEF Client, Request, AddRequest, UpdateRequest, AnswersKnown
  <1>3. NoCancels
    BY <1>1, <1>2, FrameCancelsNot
  <1>4. RowsHonest
    <2>1. ASSUME NEW loc \in Locators, NEW status \in Posted, AddRequest(p, loc, status)
          PROVE  RowsHonest
      BY <2>1, AddKeeps DEF AddRequest, RowsKeep, RowsHonest
    <2>2. CASE UNCHANGED repoVars
      BY <2>2 DEF RowsHonest, repoVars
    <2> QED BY <2>1, <2>2 DEF Client, Request, UpdateRequest, AnswersKnown
  <1> QED BY <1>1, <1>2, <1>3, <1>4, ServiceOutcome DEF CallPlain

LEMMA RequestOutcome ==
    ASSUME Inv, OutcomeInv, UNCHANGED recVars, NEW p \in Reqs, RequestStep(p)
    PROVE  OutcomeInv'
  <1>1. p \in Procs /\ \A q \in Procs : svc[q].pc # "cancelStart"
    BY DifferentWorkers DEF OutcomeInv, CallsPlain
  <1>2. ~CancelStart(p)
    BY <1>1 DEF CancelStart, In
  <1>3. svc[p].pc \notin {"idle", "done"} => svc[p].id \in Ids
    BY <1>1, RequestAtWork
  <1>4. CASE Launch(p)
    <2>1. PICK id \in Ids : id = svc[p].id
      BY <1>3, <1>4 DEF Launch, In
    <2>2. /\ svc' = [svc EXCEPT ![p] = Idle, ![id] = [Idle EXCEPT !.pc = "starting", !.id = id]]
          /\ Invoke(id, "Start", id, NoGid) /\ UNCHANGED elsewhere /\ UNCHANGED repoVars
      BY <1>4, <2>1 DEF Launch
    <2>3. id \in Procs
      BY DifferentWorkers
    <2>4. NoCancels
      <3>1. Idle.pc = "idle" /\ [Idle EXCEPT !.pc = "starting", !.id = id].pc = "starting"
        BY DEF Idle
      <3>2. \A q \in Procs : svc'[q] = svc[q] \/ svc'[q].pc \in {"idle", "starting"}
        BY <1>1, <2>2, <2>3, <3>1, TypesKnown
      <3> QED BY <1>1, <3>2 DEF NoCancels
    <2>5. \A w \in Workers : CallPlain(w)
      BY <2>2, <2>3, CallsBegin DEF Calls
    <2> QED BY <2>1, <2>2, <2>4, <2>5, WritesHonest, ServiceOutcome
  <1>5. CASE SetDesired(p)
    <2>1. /\ svc[p].pc = "desire" /\ UNCHANGED elsewhere
          /\ EndRequest(p) \/ Step(p, "settle") \/ Step(p, "await")
          /\ \/ UNCHANGED repoVars
             \/ Set(svc[p].id, [byID[svc[p].id] EXCEPT !.desired = svc[p].wish])
      BY <1>5 DEF SetDesired, In, Set
    <2>2. svc[p].wish \in Wishes
      BY <1>1, <2>1, RequestAtWork
    <2>3. UNCHANGED call \/ \E op \in Calls \ {"Delete"} : \E id, gid : Invoke(p, op, id, gid)
      <3>1. MethodFor(svc[p].wish, svc[p].gid) \in (Calls \ {"Delete"}) \cup {"none"}
        BY <2>2 DEF MethodFor, Wishes, Calls
      <3> HIDE DEF Calls
      <3> QED BY <1>5, <3>1 DEF SetDesired
    <2>4. NoCancels
      BY <1>1, <2>1, FrameCancelsNot
    <2>5. RowsHonest
      BY <1>3, <2>1, WritesHonest
    <2>6. \A w \in Workers : CallPlain(w)
      BY <1>1, <2>3, CallsBegin
    <2> QED BY <2>1, <2>4, <2>5, <2>6, ServiceOutcome
  <1>6. CASE CallFailed(p) \/ SaveGid(p) \/ CallDone(p) \/ DeleteRow(p)
    <2>1. /\ svc[p].pc \in {"await", "deleting"} /\ TakeBack(p) /\ UNCHANGED elsewhere
          /\ EndRequest(p) \/ Step(p, "settle")
      BY <1>6 DEF CallFailed, SaveGid, CallDone, DeleteRow, In
    <2>2. NoCancels
      BY <1>1, <2>1, FrameCancelsNot
    <2>3. RowsHonest
      BY <1>3, <1>6, <2>1, WritesHonest DEF CallFailed, SaveGid, CallDone, DeleteRow
    <2>4. \A w \in Workers : CallPlain(w)
      BY <1>1, <2>1, CallsBegin
    <2> QED BY <2>1, <2>2, <2>3, <2>4, ServiceOutcome
  <1>7. CASE Settle(p)
    <2>1. /\ svc[p].pc = "settle" /\ EndRequest(p) /\ UNCHANGED elsewhere /\ UNCHANGED call
          /\ Set(svc[p].id, Settled(byID[svc[p].id], svc[p].wish))
      BY <1>7 DEF Settle, In
    <2>2. svc[p].wish \in Wishes
      BY <1>1, <2>1, RequestAtWork
    <2>3. RowsHonest
      BY <1>3, <2>1, <2>2, WritesHonest
    <2>4. NoCancels
      BY <1>1, <2>1, FrameCancelsNot
    <2> QED BY <2>1, <2>3, <2>4, ServiceOutcome DEF CallPlain
  <1> QED BY <1>2, <1>4, <1>5, <1>6, <1>7 DEF RequestStep

LEMMA GoroutineOutcome ==
    ASSUME AnswersKnown, Inv, OutcomeInv, NEW p \in Procs, Goroutine(p)
    PROVE  OutcomeInv'
  <1>1. UNCHANGED recVars /\ \A q \in Procs : svc[q].pc # "cancelStart"
    BY DEF Goroutine, OutcomeInv, CallsPlain
  <1>2. CASE p \in Reqs /\ RequestStep(p)
    BY <1>1, <1>2, RequestOutcome
  <1>3. CASE p \in Ids /\ StarterStep(p)
    <2>1. /\ UNCHANGED elsewhere
          /\ Step(p, "cleanup") \/ Step(p, "done")
          /\ TakeBack(p) \/ UNCHANGED call
      BY <1>3 DEF StarterStep, SettleStart, Cleanup
    <2>2. RowsHonest
      BY <1>3, WritesHonest DEF StarterStep, SettleStart, Cleanup
    <2>3. NoCancels
      BY <1>1, <2>1, FrameCancelsNot
    <2>4. \A w \in Workers : CallPlain(w)
      BY <2>1, CallsBegin
    <2> QED BY <1>1, <2>1, <2>2, <2>3, <2>4, ServiceOutcome
  <1>4. CASE CallStep(p) /\ UNCHANGED <<repoVars, svcVars>>
    BY <1>4, AdapterKeepsOutcome DEF others, Goroutine
  <1> QED BY <1>2, <1>3, <1>4 DEF Goroutine
-----------------------------------------------------------------------------
\* Only the end of a task that was no metadata task makes a row Complete.
LEMMA ReconcileOutcome ==
    ASSUME Inv, OutcomeInv, Reconcile
    PROVE  OutcomeInv'
  <1>1. /\ UNCHANGED <<task, owner, followedBy, notes, call, svc>> /\ DoneStays
    BY DoneUnchanged DEF Reconcile, daemonVars, adapterVars, svcVars
  <1>2. NotesDone' /\ Pending' \subseteq Pending
    BY <1>1, PendingFalls DEF OutcomeInv, NotesDone
  <1>3. ASSUME NEW i \in Ids, byID'[i] # NoRow /\ byID'[i].status = "Complete"
        PROVE  \/ byID[i] # NoRow /\ byID[i].status = "Complete"
               \/ \E g \in Gids : owner[g] = i /\ RealDone(g)
    <2>1. CASE UNCHANGED repoVars
      BY <1>3, <2>1 DEF repoVars
    <2>2. CASE ~UNCHANGED repoVars
      <3>1. PICK clone : /\ inHand # NoEvent /\ Set(inHand.id, clone)
                         /\ \/ clone = [row EXCEPT !.status = "Paused"]
                            \/ clone = [row EXCEPT !.gid = inHand.new]
                            \/ clone = [row EXCEPT !.status = "Active"]
                            \/ clone = [row EXCEPT !.status = inHand.type, !.gid = NoGid]
        BY <2>2 DEF Reconcile, ReconcilerStep, TakeEvent, PassOver, ApplyPaused, ApplyGid, Judge,
                    Apply, Holding, NoEvent, Inv, JudgeInv, TerminalTypes, UpdateRow, Set
      <3>2. inHand.id \in Ids /\ inHand \in Pending /\ inHand.gid \in Gids
        BY <3>1, HandKnown DEF Pending, Event
      <3>3. inHand.type = "Complete" => RealDone(inHand.gid) /\ owner[inHand.gid] = inHand.id
        BY <3>2, GidsAssumption DEF OutcomeInv, EventsDone, Inv, GidsBelong, Belongs
      <3>4. Stored(inHand.id) => clone.status \in {row.status, "Paused", "Active", inHand.type}
        <4>1. Stored(inHand.id) => row \in Download
          BY <3>2 DEF Inv, TypeOK, RepoTypeOK, Stored, row
        <4> QED BY <3>1, <4>1 DEF Download
      <3>5. CASE Stored(inHand.id) /\ clone.status = "Complete" => row.status = "Complete"
        BY <1>3, <3>1, <3>2, <3>5, SetHonest DEF RowsHonest, row
      <3>6. CASE inHand.type = "Complete"
        <4>1. byID' = byID \/ byID' = [byID EXCEPT ![inHand.id] = clone]
          BY <3>1 DEF Set, Update, repoVars
        <4>2. byID'[i] = byID[i] \/ i = inHand.id
          BY <4>1 DEF Inv, TypeOK, RepoTypeOK
        <4> QED BY <1>3, <3>2, <3>3, <3>6, <4>2
      <3> QED BY <3>4, <3>5, <3>6
    <2> QED BY <2>1, <2>2
  <1> QED BY <1>1, <1>2, <1>3, AsideOutcome

LEMMA RestartOutcome ==
    ASSUME Inv, OutcomeInv, Restart
    PROVE  OutcomeInv'
  <1>1. /\ svc' = [p \in Procs |->
                     IF p \in Ids /\ svc[p].pc # "idle" THEN [Idle EXCEPT !.pc = "done"] ELSE Idle]
        /\ call' = [w \in Workers |-> NoCall] /\ events' = <<>> /\ inHand' = NoEvent
        /\ notes' = <<>> /\ UNCHANGED <<task, owner, followedBy>> /\ byID' = byID
    BY DEF Restart, repoVars
  <1>2. DoneStays /\ Procs \subseteq Workers /\ Loop \in Workers
    BY <1>1, DoneUnchanged, DifferentWorkers
  <1>3. CallsPlain'
    <2>1. Idle.pc = "idle" /\ [Idle EXCEPT !.pc = "done"].pc = "done"
          /\ NoCall.pc = "idle" /\ NoCall.op = "none"
      BY DEF Idle, NoCall
    <2>2. \A p \in Procs : svc'[p].pc \in {"idle", "done"} /\ call'[p] = NoCall
      BY <1>1, <1>2, <2>1
    <2> QED BY <1>2, <2>1, <2>2 DEF CallsPlain, DoneStays
  <1>4. LoopKnows'
    BY <1>1, <1>2 DEF LoopKnows, At, NoCall
  <1>5. NotesDone' /\ EventsDone'
    BY <1>1 DEF NotesDone, EventsDone, Pending
  <1>6. CompleteIsTrue'
    BY <1>1, <1>2, RowsStayTrue
  <1> QED BY <1>3, <1>4, <1>5, <1>6 DEF OutcomeInv

LEMMA InitOutcome ==
    ASSUME Init
    PROVE  OutcomeInv
  <1>1. /\ task = [g \in Gids |-> "none"] /\ call = [w \in Workers |-> NoCall] /\ notes = <<>>
        /\ svc = [p \in Procs |-> Idle] /\ events = <<>> /\ inHand = NoEvent
        /\ byID = [i \in Ids |-> NoRow] /\ Procs \subseteq Workers /\ Loop \in Workers
    BY DifferentWorkers DEF Init, DaemonInit, AdapterInit, ServiceInit, EventBusInit,
                            ReconcilerInit, RepoInit
  <1>2. CallsPlain
    BY <1>1 DEF CallsPlain, NoCall, Idle
  <1>3. LoopKnows
    BY <1>1 DEF LoopKnows, At, NoCall
  <1>4. NotesDone /\ EventsDone /\ CompleteIsTrue
    BY <1>1 DEF NotesDone, EventsDone, Pending, CompleteIsTrue, Rows, Stored
  <1> QED BY <1>2, <1>3, <1>4 DEF OutcomeInv

LEMMA NextOutcome ==
    ASSUME AnswersKnown, Inv, OutcomeInv, [Next]_vars
    PROVE  OutcomeInv'
  <1>1. CASE NotificationLoop \/ PollLoop
    BY <1>1, AdapterKeepsOutcome DEF NotificationLoop, PollLoop, others
  <1>2. CASE UNCHANGED vars
    <2>1. UNCHANGED <<task, owner, followedBy, notes, call, svc, byID>> /\ Pending' = Pending
      BY <1>2 DEF vars, daemonVars, adapterVars, svcVars, repoVars, recVars, Pending
    <2>2. DoneStays /\ NotesDone'
      BY <2>1, DoneUnchanged DEF OutcomeInv, NotesDone
    <2> QED BY <2>1, <2>2, AsideOutcome
  <1> QED BY <1>1, <1>2, ClientOutcome, GoroutineOutcome, DaemonOutcome, ReconcileOutcome,
             RestartOutcome DEF Next, Rest
-----------------------------------------------------------------------------
\* A row says Complete only when a task of that download that was no metadata
\* task has run to its end (events.go 72-106, reconciler.go 176-187), through
\* late and lost notifications, swaps, refused calls, lost answers and restarts.
\* The conditions are needed: to a notification loop whose query fails, or
\* whose task a Delete has purged, the end of a metadata task looks like the
\* end of the download.
THEOREM CompletionsAreTrue ==
    ASSUME AnswersKnown
    PROVE  Spec => []CompleteIsTrue
  <1>1. Init => OutcomeInv
    BY InitOutcome
  <1>2. Inv /\ OutcomeInv /\ [Next]_vars => OutcomeInv'
    BY NextOutcome
  <1>3. OutcomeInv => CompleteIsTrue
    BY DEF OutcomeInv
  <1> QED BY <1>1, <1>2, <1>3, Invariance, PTL DEF Spec
=============================================================================
