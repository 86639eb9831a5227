--------------------------- MODULE TrackingProofs ---------------------------
(***************************************************************************)
(* Proof that the adapter never tracks a metadata task next to its real    *)
(* task, under every fault, restart and interleaving of Start, Resume and  *)
(* the notification loop.                                                  *)
(*                                                                         *)
(* TrackInv says who can know the gids of a family, that is, of a metadata *)
(* task and of what came of it: a start that has yet to track its gid is   *)
(* the only one to know any of them (Secret, Public), families do not      *)
(* overlap, and a swap leads from a metadata task to its real task.        *)
(***************************************************************************)
EXTENDS TorrusProofs

\* A real task has one metadata task, which is over, and starts none itself.
RealsInv ==
    \A g \in Gids : followedBy[g] # NoGid =>
        /\ task[g] \notin Live \cup {"none"}
        /\ followedBy[followedBy[g]] = NoGid
        /\ \A h \in Gids : followedBy[h] = followedBy[g] => h = g

\* A metadata task and its real task.
Family(g) == {h \in Gids : h = g \/ followedBy[h] = g \/ followedBy[g] = h}

\* A start whose gid is not in the map yet.
Secret(w)   == call[w].pc \in {"told?", "track"}
Holds(w, g) == g \in {call[w].gid, call[w].new}

\* What is known of a gid outside such a start.
Public(g) ==
    \/ gidToID[g] # NoId
    \/ \E i \in Ids : byID[i] # NoRow /\ byID[i].gid = g
    \/ \E p \in Procs : svc[p].gid = g
    \/ \E e \in Pending : g \in {e.gid, e.new}
    \/ \E w \in Workers : ~Secret(w) /\ Holds(w, g)

\* A start that has yet to track its gid is the only one to know of the task,
\* its metadata task and its real task.
SecretsKept ==
    \A w \in Workers : Secret(w) =>
        \A g \in Family(call[w].gid) :
            /\ ~Public(g)
            /\ \A v \in Workers \ {w} : Secret(v) => ~Holds(v, g)

\* A swap is from a metadata task to its real task.
SwapKnown == \A w \in Workers : At(w, "swap") => call[w].new = followedBy[call[w].gid]

TrackInv == RealsInv /\ SecretsKept /\ SwapKnown /\ TrackedOnce
-----------------------------------------------------------------------------
LEMMA TypesKnown ==
    ASSUME Inv
    PROVE  /\ followedBy \in [Gids -> GidOrNone] /\ owner \in [Gids -> IdOrNone]
           /\ gidToID \in [Gids -> IdOrNone] /\ call \in [Workers -> Frame]
           /\ svc \in [Procs -> ServiceFrame] /\ NoGid \notin Gids
  BY GidsAssumption DEF Inv, TypeOK, DaemonTypeOK, AdapterTypeOK, ServiceTypeOK

\* Families do not overlap.
LEMMA FamilyMembers ==
    ASSUME Inv, RealsInv, NEW g \in Gids, NEW h \in Gids, NEW k \in Gids
    PROVE  /\ g \in Family(g)
           /\ g \in Family(h) => h \in Family(g)
           /\ g \in Family(h) /\ h \in Family(k) => g \in Family(k)
  BY TypesKnown DEF RealsInv, Family

\* The general case: what becomes known is of a family that was known, and a
\* start that keeps its secret goes over to a member of its family at most.
LEMMA SecretsStay ==
    ASSUME Inv, RealsInv, SecretsKept, followedBy' = followedBy,
           \A w \in Workers : Secret(w)' =>
               /\ Secret(w) /\ call[w].gid \in Gids /\ call'[w].gid \in Family(call[w].gid)
               /\ call'[w].new \in {NoGid, call[w].new},
           \A g \in Gids : Public(g)' =>
               \E h \in Gids : /\ g \in Family(h)
                               /\ \/ Public(h)
                                  \/ \E v \in Workers : Secret(v) /\ ~Secret(v)' /\ Holds(v, h)
    PROVE  SecretsKept'
  <1>1. \A g \in Gids : Family(g)' = Family(g)
    BY DEF Family
  <1> SUFFICES ASSUME NEW w \in Workers, Secret(w)', NEW g \in Family(call[w].gid)'
               PROVE  /\ ~Public(g)'
                      /\ \A v \in Workers \ {w} : Secret(v)' => ~Holds(v, g)'
    BY DEF SecretsKept
  <1> DEFINE m == call[w].gid
  <1>2. Secret(w) /\ m \in Gids /\ call'[w].gid \in Family(m) /\ g \in Gids
    BY DEF Family
  <1>3. g \in Family(m)
    <2>1. call'[w].gid \in Gids
      BY <1>2 DEF Family
    <2>2. g \in Family(call'[w].gid)
      BY <2>1, <1>1 DEF Family
    <2> QED BY <1>2, <2>1, <2>2, FamilyMembers
  <1>4. \A h \in Family(m) : /\ h \in Gids /\ ~Public(h)
                             /\ \A v \in Workers \ {w} : Secret(v) => ~Holds(v, h)
    BY <1>2 DEF SecretsKept, Family
  <1> HIDE DEF m
  <1>5. ~Public(g)'
    <2> SUFFICES ASSUME Public(g)'
                 PROVE  FALSE
      OBVIOUS
    <2>1. PICK h \in Gids : /\ g \in Family(h)
                            /\ \/ Public(h)
                               \/ \E v \in Workers : Secret(v) /\ ~Secret(v)' /\ Holds(v, h)
      BY <1>2
    <2>2. h \in Family(m)
      BY <1>2, <1>3, <2>1, FamilyMembers
    <2> QED BY <1>4, <2>1, <2>2
  <1>6. ASSUME NEW v \in Workers \ {w}, Secret(v)', Holds(v, g)'
        PROVE  FALSE
    <2>1. Secret(v) /\ call[v].gid \in Gids /\ call'[v].gid \in Family(call[v].gid)
          /\ call'[v].new \in {NoGid, call[v].new}
      BY <1>6
    <2>2. g \in {call'[v].gid, call'[v].new}
      BY <1>6 DEF Holds
    <2>3. CASE g = call'[v].gid
      <3>1. call[v].gid \in Family(m)
        BY <1>2, <1>3, <2>1, <2>3, FamilyMembers
      <3> QED BY <1>4, <2>1, <3>1 DEF Holds
    <2>4. CASE g = call'[v].new
      <3>1. g = call[v].new
        BY <1>2, <2>1, <2>4, GidsAssumption
      <3> QED BY <1>3, <1>4, <2>1, <3>1 DEF Holds
    <2> QED BY <2>2, <2>3, <2>4
  <1> QED BY <1>5, <1>6

\* The simpler case of a step after which no more is known.
LEMMA NothingNew ==
    ASSUME Inv, RealsInv, SecretsKept, followedBy' = followedBy,
           \A w \in Workers : Secret(w)' => call'[w] = call[w],
           \A g \in Gids : Public(g)' => Public(g)
    PROVE  SecretsKept'
  <1>1. \A w \in Workers : Secret(w)' =>
               /\ Secret(w) /\ call[w].gid \in Gids /\ call'[w].gid \in Family(call[w].gid)
               /\ call'[w].new \in {NoGid, call[w].new}
    <2> SUFFICES ASSUME NEW w \in Workers, Secret(w)'
                 PROVE  /\ Secret(w) /\ call[w].gid \in Gids /\ call'[w].gid \in Family(call[w].gid)
                        /\ call'[w].new \in {NoGid, call[w].new}
      OBVIOUS
    <2>1. call'[w] = call[w]
      OBVIOUS
    <2>2. Secret(w)
      BY <2>1 DEF Secret
    <2>3. call[w].gid \in Gids
      BY <2>2 DEF Inv, FrameInv, Secret, WithGid
    <2> QED BY <2>1, <2>2, <2>3, FamilyMembers
  <1>2. \A g \in Gids : Public(g)' => \E h \in Gids : g \in Family(h) /\ Public(h)
    BY FamilyMembers
  <1> QED BY <1>1, <1>2, SecretsStay

LEMMA RealsStay ==
    ASSUME RealsInv, Inv, followedBy' = followedBy, Grows
    PROVE  RealsInv'
  BY TypesKnown DEF RealsInv, Grows

LEMMA OnceStays ==
    ASSUME TrackedOnce, followedBy' = followedBy,
           \A g \in Gids : gidToID'[g] # NoId => gidToID[g] # NoId
    PROVE  TrackedOnce'
  BY DEF TrackedOnce, Tracked
-----------------------------------------------------------------------------
\* Steps of the adapter.

\* What follows the gids of w: those of its family that w holds or that are in the map.
Near(w, g) == \E h \in Gids : g \in Family(h) /\ (Holds(w, h) \/ gidToID[h] # NoId)

LEMMA AdapterTracks ==
    ASSUME Inv, TrackInv, Grows, followedBy' = followedBy, UNCHANGED others,
           NEW w \in Workers, NEW f, call' = [call EXCEPT ![w] = f],
           \A g \in Gids : g \in {f.gid, f.new} => Near(w, g),
           f.pc \in {"told?", "track"} =>
               Secret(w) /\ f.gid \in Family(call[w].gid) /\ f.new \in {NoGid, call[w].new},
           f.pc = "swap" => f.new = followedBy[f.gid],
           \A g \in Gids : gidToID'[g] # NoId =>
               gidToID[g] # NoId \/ (Holds(w, g) /\ f.pc \notin {"told?", "track"}),
           \A e \in Pending' : e \in Pending \/
               (~Secret(w) /\ \A g \in Gids : g \in {e.gid, e.new} => Holds(w, g)),
           TrackedOnce'
    PROVE  TrackInv'
  <1>1. /\ RealsInv /\ SecretsKept /\ SwapKnown /\ call \in [Workers -> Frame]
        /\ byID' = byID /\ svc' = svc
    BY TypesKnown DEF TrackInv, others, repoVars, svcVars
  <1>2. call'[w] = f /\ \A v \in Workers \ {w} : call'[v] = call[v]
    BY <1>1
  <1>3. RealsInv'
    BY <1>1, RealsStay
  <1>4. SwapKnown'
    BY <1>1, <1>2 DEF SwapKnown, At
  <1>5. \A v \in Workers : Secret(v) => call[v].gid \in Gids
    BY DEF Inv, FrameInv, Secret, WithGid
  <1>6. \A v \in Workers : Secret(v)' =>
               /\ Secret(v) /\ call[v].gid \in Gids /\ call'[v].gid \in Family(call[v].gid)
               /\ call'[v].new \in {NoGid, call[v].new}
    <2> SUFFICES ASSUME NEW v \in Workers, Secret(v)'
                 PROVE  /\ Secret(v) /\ call'[v].gid \in Family(call[v].gid)
                        /\ call'[v].new \in {NoGid, call[v].new}
      BY <1>5
    <2>1. CASE v = w
      BY <1>2, <2>1 DEF Secret
    <2>2. CASE v # w
      <3>1. call'[v] = call[v]
        BY <1>2, <2>2
      <3>2. Secret(v)
        BY <3>1 DEF Secret
      <3>3. call[v].gid \in Family(call[v].gid)
        BY <1>1, <1>5, <3>2, FamilyMembers
      <3> QED BY <3>1, <3>2, <3>3
    <2> QED BY <2>1, <2>2
  <1>7. \A g \in Gids : Public(g)' =>
               \E h \in Gids : /\ g \in Family(h)
                               /\ \/ Public(h)
                                  \/ \E v \in Workers : Secret(v) /\ ~Secret(v)' /\ Holds(v, h)
    <2> SUFFICES ASSUME NEW g \in Gids, Public(g)', ~Public(g)
                 PROVE  \E h \in Gids : /\ g \in Family(h)
                               /\ \/ Public(h)
                                  \/ \E v \in Workers : Secret(v) /\ ~Secret(v)' /\ Holds(v, h)
      BY <1>1, FamilyMembers
    <2>1. g \in Family(g)
      BY <1>1, FamilyMembers
    <2>2. \A h \in Gids : Holds(w, h) /\ ~Secret(w) => Public(h)
      BY DEF Public
    <2>3. CASE gidToID'[g] # NoId
      <3>1. Holds(w, g) /\ ~Secret(w)'
        BY <1>2, <2>3 DEF Public, Secret
      <3> QED BY <2>1, <2>2, <3>1
    <2>4. CASE \E e \in Pending' : g \in {e.gid, e.new}
      BY <2>1, <2>2, <2>4 DEF Public
    <2>5. CASE \E v \in Workers : ~Secret(v)' /\ Holds(v, g)'
      <3>1. PICK v \in Workers : ~Secret(v)' /\ Holds(v, g)'
        BY <2>5
      <3>2. v = w
        BY <1>2, <3>1 DEF Public, Secret, Holds
      <3>3. Near(w, g) /\ ~Secret(w)'
        BY <1>2, <3>1, <3>2 DEF Holds
      <3>4. PICK h \in Gids : g \in Family(h) /\ (Holds(w, h) \/ gidToID[h] # NoId)
        BY <3>3 DEF Near
      <3>5. Public(h) \/ (Secret(w) /\ ~Secret(w)' /\ Holds(w, h))
        BY <2>2, <3>3, <3>4 DEF Public
      <3> QED BY <3>4, <3>5
    <2>6. \/ gidToID'[g] # NoId
          \/ \E i \in Ids : byID[i] # NoRow /\ byID[i].gid = g
          \/ \E p \in Procs : svc[p].gid = g
          \/ \E e \in Pending' : g \in {e.gid, e.new}
          \/ \E v \in Workers : ~Secret(v)' /\ Holds(v, g)'
      BY <1>1 DEF Public
    <2> QED BY <2>3, <2>4, <2>5, <2>6 DEF Public
  <1>8. SecretsKept'
    BY <1>1, <1>6, <1>7, SecretsStay
  <1> QED BY <1>3, <1>4, <1>8 DEF TrackInv

\* The usual step of the adapter: no new gid in the frame, none in the map.
LEMMA SameTracks ==
    ASSUME Inv, TrackInv, Grows, followedBy' = followedBy, UNCHANGED others,
           NEW w \in Workers, NEW f, call' = [call EXCEPT ![w] = f],
           f.gid \in {NoGid, call[w].gid, call[w].new}, f.new \in {NoGid, call[w].new},
           f.pc \notin {"told?", "track", "swap"},
           \A g \in Gids : gidToID'[g] # NoId => gidToID[g] # NoId,
           \A e \in Pending' : e \in Pending \/
               (~Secret(w) /\ \A g \in Gids : g \in {e.gid, e.new} => Holds(w, g))
    PROVE  TrackInv'
  <1>1. TrackedOnce' /\ RealsInv
    BY OnceStays DEF TrackInv
  <1>2. \A g \in Gids : g \in {f.gid, f.new} => Near(w, g)
    <2> SUFFICES ASSUME NEW g \in Gids, g \in {f.gid, f.new}
                 PROVE  Near(w, g)
      OBVIOUS
    <2>1. Holds(w, g)
      BY GidsAssumption DEF Holds
    <2> QED BY <1>1, <2>1, FamilyMembers DEF Near
  <1> QED BY <1>1, <1>2, AdapterTracks

LEMMA ReturnFrame ==
    ASSUME Inv, NEW w \in Workers, NEW r, Return(w, r)
    PROVE  \E f : /\ call' = [call EXCEPT ![w] = f]
                  /\ f.gid \in {NoGid, call[w].gid} /\ f.new \in {NoGid, call[w].new}
                  /\ f.pc \notin {"told?", "track", "swap"}
  <1>1. call[w] \in Frame
    BY TypesKnown
  <1> DEFINE f == IF w \in Loops THEN NoCall ELSE [call[w] EXCEPT !.pc = "return", !.result = r]
  <1>2. /\ f.gid \in {NoGid, call[w].gid} /\ f.new \in {NoGid, call[w].new}
        /\ f.pc \notin {"told?", "track", "swap"}
    BY <1>1 DEF NoCall, Frame
  <1>3. call' = [call EXCEPT ![w] = f]
    BY DEF Return
  <1> QED BY <1>2, <1>3

LEMMA GotoFrame ==
    ASSUME Inv, NEW w \in Workers, NEW pc, pc \notin {"told?", "track", "swap"}, Goto(w, pc)
    PROVE  \E f : /\ call' = [call EXCEPT ![w] = f]
                  /\ f.gid \in {NoGid, call[w].gid} /\ f.new \in {NoGid, call[w].new}
                  /\ f.pc \notin {"told?", "track", "swap"}
  <1>1. call[w] \in Frame
    BY TypesKnown
  <1> DEFINE f == [call[w] EXCEPT !.pc = pc]
  <1>2. f.gid = call[w].gid /\ f.new = call[w].new /\ f.pc = pc
    BY <1>1 DEF Frame
  <1>3. call' = [call EXCEPT ![w] = f]
    BY DEF Goto
  <1> QED BY <1>2, <1>3
\* A frame with the gids it had, or fewer.
Plain(w) ==
    \E f : /\ call' = [call EXCEPT ![w] = f]
          /\ f.gid \in {NoGid, call[w].gid, call[w].new} /\ f.new \in {NoGid, call[w].new}
          /\ f.pc \notin {"told?", "track", "swap"}

LEMMA PlainFrames ==
    ASSUME Inv, NEW w \in Workers,
           \/ \E r : Return(w, r)
           \/ \E pc : pc \notin {"told?", "track", "swap"} /\ Goto(w, pc)
    PROVE  Plain(w)
  <1>1. ASSUME NEW r, Return(w, r)
        PROVE  Plain(w)
    BY <1>1, ReturnFrame DEF Plain
  <1>2. ASSUME NEW pc, pc \notin {"told?", "track", "swap"}, Goto(w, pc)
        PROVE  Plain(w)
    BY <1>2, GotoFrame DEF Plain
  <1> QED BY <1>1, <1>2

\* A step that reports nothing.
LEMMA QuietTracks ==
    ASSUME Inv, TrackInv, Grows, followedBy' = followedBy, UNCHANGED others,
           NEW w \in Workers, Plain(w), UNCHANGED events,
           \A g \in Gids : gidToID'[g] # NoId => gidToID[g] # NoId
    PROVE  TrackInv'
  <1>1. Pending' = Pending
    BY DEF Pending, others, recVars
  <1>2. PICK f : /\ call' = [call EXCEPT ![w] = f]
                 /\ f.gid \in {NoGid, call[w].gid, call[w].new} /\ f.new \in {NoGid, call[w].new}
                 /\ f.pc \notin {"told?", "track", "swap"}
    BY DEF Plain
  <1> QED BY <1>1, <1>2, SameTracks

\* A step that may report an event about its frame's gid.
LEMMA ReportTracks ==
    ASSUME Inv, TrackInv, UNCHANGED <<daemonVars, gidToID, ctxDone>>, UNCHANGED others,
           NEW w \in Workers, Plain(w), call[w].pc \in WithGid \ {"told?", "track"},
           NEW type \in EventTypes, NEW new \in {NoGid, call[w].new},
           Send(w, type, new) \/ UNCHANGED events
    PROVE  TrackInv'
  <1>1. Grows /\ followedBy' = followedBy /\ gidToID' = gidToID /\ UNCHANGED inHand
    BY DaemonUnchanged DEF DaemonKeeps, daemonVars, others, recVars
  <1>2. CASE UNCHANGED events
    BY <1>1, <1>2, QuietTracks
  <1>3. CASE Send(w, type, new)
    <2> DEFINE e == [type |-> type, id |-> call[w].id, gid |-> call[w].gid, new |-> new]
    <2>1. call[w].gid \in Gids /\ call[w].pc # "idle" /\ ~Secret(w)
      BY DEF Inv, FrameInv, WithGid, Secret
    <2>2. e \in Event /\ e.gid = call[w].gid /\ e.new = new
      BY <2>1, EventIsMine
    <2>3. Report(e)
      BY <1>3 DEF Send
    <2> HIDE DEF e
    <2>4. \A x \in Pending' : x \in Pending \/ x = e
      BY <1>1, <2>2, <2>3, ReportAdds DEF Inv
    <2>5. \A g \in Gids : g \in {e.gid, e.new} => Holds(w, g)
      BY <2>2, GidsAssumption DEF Holds
    <2>6. PICK f : /\ call' = [call EXCEPT ![w] = f]
                   /\ f.gid \in {NoGid, call[w].gid, call[w].new} /\ f.new \in {NoGid, call[w].new}
                   /\ f.pc \notin {"told?", "track", "swap"}
      BY DEF Plain
    <2> QED BY <1>1, <2>1, <2>4, <2>5, <2>6, SameTracks
  <1> QED BY <1>2, <1>3

LEMMA StartTracks ==
    ASSUME Inv, TrackInv, UNCHANGED others, NEW p \in Procs,
           AddUriRefused(p) \/ AddUriLost(p) \/ ReportStart(p)
    PROVE  TrackInv'
  <1> USE DifferentWorkers
  <1>1. CASE AddUriRefused(p) \/ AddUriLost(p)
    <2>1. /\ Return(p, "error") \/ Return(p, "canceled")
          /\ UNCHANGED <<daemonVars, gidToID, events>>
      BY <1>1 DEF AddUriRefused, AddUriLost
    <2>2. Plain(p)
      BY <2>1, PlainFrames
    <2>3. Grows /\ followedBy' = followedBy
      BY <2>1, DaemonUnchanged DEF DaemonKeeps, daemonVars
    <2> QED BY <2>1, <2>2, <2>3, QuietTracks
  <1>2. CASE ReportStart(p)
    <2>1. /\ call[p].pc = "repStart" /\ Goto(p, "repMeta") /\ Send(p, "Start", NoGid)
          /\ UNCHANGED <<daemonVars, gidToID, ctxDone>>
      BY <1>2 DEF ReportStart, At
    <2>2. Plain(p)
      BY <2>1, PlainFrames
    <2> QED BY <2>1, <2>2, ReportTracks DEF WithGid, EventTypes
  <1> QED BY <1>1, <1>2

\* Steps that report and go on or return.
LEMMA ReportsTrack ==
    ASSUME Inv, TrackInv, UNCHANGED others, NEW w \in Workers,
           ReportMeta(w) \/ ReportPaused(w) \/ ReportEnd(w) \/ ReportProgress(w)
    PROVE  TrackInv'
  <1>1. CASE ReportMeta(w)
    <2>1. /\ call[w].pc = "repMeta" /\ Return(w, "ok")
          /\ Send(w, "Meta", NoGid) \/ UNCHANGED events
          /\ UNCHANGED <<daemonVars, gidToID, ctxDone>>
      BY <1>1 DEF ReportMeta, At
    <2>2. Plain(w)
      BY <2>1, PlainFrames
    <2> QED BY <2>1, <2>2, ReportTracks DEF WithGid, EventTypes
  <1>2. CASE ReportPaused(w)
    <2>1. /\ call[w].pc = "repPaused"
          /\ Goto(w, "repProgress") \/ Return(w, "ok")
          /\ Send(w, "Paused", NoGid)
          /\ UNCHANGED <<daemonVars, gidToID, ctxDone>>
      BY <1>2 DEF ReportPaused, At
    <2>2. Plain(w)
      BY <2>1, PlainFrames
    <2> QED BY <2>1, <2>2, ReportTracks DEF WithGid, EventTypes
  <1>3. CASE ReportEnd(w)
    <2>1. PICK type : Send(w, type, NoGid) /\ type = IF w = Loop THEN call[w].op ELSE "Cancelled"
      BY <1>3 DEF ReportEnd
    <2>2. /\ call[w].pc = "repEnd" /\ Goto(w, "untrack")
          /\ UNCHANGED <<daemonVars, gidToID, ctxDone>>
      BY <1>3 DEF ReportEnd, At
    <2>3. type \in EventTypes
      BY <2>1, <2>2 DEF Inv, FrameInv, Loops, EventTypes, TerminalTypes
    <2>4. Plain(w)
      BY <2>2, PlainFrames
    <2> QED BY <2>1, <2>2, <2>3, <2>4, ReportTracks DEF WithGid
  <1>4. CASE ReportProgress(w)
    <2>1. /\ call[w].pc = "repProgress" /\ Return(w, "ok")
          /\ Send(w, "Progress", NoGid) \/ UNCHANGED events
          /\ UNCHANGED <<daemonVars, gidToID, ctxDone>>
      BY <1>4 DEF ReportProgress, At
    <2>2. Plain(w)
      BY <2>1, PlainFrames
    <2> QED BY <2>1, <2>2, ReportTracks DEF WithGid, EventTypes
  <1> QED BY <1>1, <1>2, <1>3, <1>4

LEMMA ReportGidTracks ==
    ASSUME Inv, TrackInv, UNCHANGED others, NEW w \in Workers, ReportGid(w)
    PROVE  TrackInv'
  <1>1. /\ call[w].pc = "repGid" /\ Send(w, "GIDUpdate", call[w].new)
        /\ call' = [call EXCEPT ![w].pc = "repMeta", ![w].gid = call[w].new, ![w].new = NoGid]
        /\ UNCHANGED <<daemonVars, gidToID, ctxDone>>
    BY DEF ReportGid, At
  <1> DEFINE f == [call[w] EXCEPT !.pc = "repMeta", !.gid = call[w].new, !.new = NoGid]
  <1>2. call[w] \in Frame /\ call' = [call EXCEPT ![w] = f]
    BY <1>1, TypesKnown
  <1>3. f.pc = "repMeta" /\ f.gid = call[w].new /\ f.new = NoGid
    BY <1>2 DEF Frame
  <1> HIDE DEF f
  <1>4. Plain(w)
    BY <1>2, <1>3 DEF Plain
  <1> QED BY <1>1, <1>4, ReportTracks DEF WithGid, EventTypes
\* Commands to the daemon and what follows them.
LEMMA CommandTracks ==
    ASSUME Inv, TrackInv, UNCHANGED others, NEW p \in Procs, Pause(p) \/ Unpause(p) \/ Remove(p)
    PROVE  TrackInv'
  <1> USE DifferentWorkers
  <1>1. PICK from \in SUBSET Live, to \in Live \cup Ended, m \in Methods,
            answer \in {"ok", "missing", "error"} :
          Command(call[p].gid, from, to, m, answer)
    <2>1. CASE Pause(p)
      BY <2>1 DEF Pause, Live, Methods
    <2>2. CASE Unpause(p)
      BY <2>2 DEF Unpause, Live, Methods
    <2>3. CASE Remove(p)
      BY <2>3 DEF Remove, Live, Ended, Methods
    <2> QED BY <2>1, <2>2, <2>3
  <1>2. call[p].gid \in Gids
    <2>1. call[p].pc \in WithGid \/ (call[p].pc = "Delete" /\ call[p].gid # NoGid)
      BY DEF Pause, Unpause, Remove, At, WithGid
    <2> QED BY <2>1, TypesKnown DEF Inv, FrameInv, Frame, GidOrNone
  <1>3. Grows /\ followedBy' = followedBy
    BY <1>1, <1>2, CommandKeeps DEF Inv, TypeOK, DaemonKeeps, Command, daemonVars
  <1>4. Plain(p)
    <2>1. CASE Pause(p) \/ Unpause(p)
      <3>1. \/ \E r : Return(p, r)
            \/ Goto(p, "repPaused") \/ Goto(p, "look")
        BY <2>1 DEF Pause, Unpause
      <3> QED BY <3>1, PlainFrames
    <2>2. CASE Remove(p)
      <3>1. PICK a : \/ Return(p, "error")
                          \/ call' = [call EXCEPT ![p].pc = IF a = "ok" THEN "repEnd"
                                                            ELSE "untrack",
                                                  ![p].result = a]
        BY <2>2 DEF Remove
      <3>2. CASE Return(p, "error")
        BY <3>2, PlainFrames
      <3>3. CASE call' = [call EXCEPT ![p].pc = IF a = "ok" THEN "repEnd" ELSE "untrack",
                                      ![p].result = a]
        <4> DEFINE f == [call[p] EXCEPT !.pc = IF a = "ok" THEN "repEnd" ELSE "untrack",
                                        !.result = a]
        <4>1. call' = [call EXCEPT ![p] = f]
          BY <3>3
        <4>2. f.gid = call[p].gid /\ f.new = call[p].new /\ f.pc \in {"repEnd", "untrack"}
          BY TypesKnown DEF Frame
        <4> QED BY <4>1, <4>2 DEF Plain
      <3> QED BY <3>1, <3>2, <3>3
    <2> QED BY <2>1, <2>2
  <1>5. UNCHANGED <<gidToID, events>>
    BY DEF Pause, Unpause, Remove
  <1> QED BY <1>3, <1>4, <1>5, QuietTracks

LEMMA UntrackTracks ==
    ASSUME Inv, TrackInv, UNCHANGED others, NEW w \in Workers, Untrack(w)
    PROVE  TrackInv'
  <1>1. /\ gidToID' = [gidToID EXCEPT ![call[w].gid] = NoId]
        /\ Goto(w, "purge") \/ Return(w, call[w].result)
        /\ UNCHANGED daemonVars /\ UNCHANGED events
    BY DEF Untrack
  <1>2. Plain(w)
    BY <1>1, PlainFrames
  <1>3. Grows /\ followedBy' = followedBy
    BY <1>1, DaemonUnchanged DEF DaemonKeeps, daemonVars
  <1>4. \A g \in Gids : gidToID'[g] # NoId => gidToID[g] # NoId
    BY <1>1, TypesKnown
  <1> QED BY <1>1, <1>2, <1>3, <1>4, QuietTracks

LEMMA PurgeTracks ==
    ASSUME Inv, TrackInv, UNCHANGED others, NEW p \in Procs, PurgeResult(p)
    PROVE  TrackInv'
  <1> USE DifferentWorkers
  <1>1. /\ UNCHANGED daemonVars \/ (call[p].gid # NoGid /\ Purge(call[p].gid))
        /\ Return(p, "ok") \/ Return(p, "error")
        /\ UNCHANGED <<gidToID, events>>
    BY DEF PurgeResult
  <1>2. Plain(p)
    BY <1>1, PlainFrames
  <1>3. call[p].gid \in GidOrNone
    BY TypesKnown DEF Frame
  <1>4. Grows /\ followedBy' = followedBy
    BY <1>1, <1>3, DaemonUnchanged, PurgeKeeps
    DEF DaemonKeeps, daemonVars, Purge, Inv, TypeOK, GidOrNone
  <1> QED BY <1>1, <1>2, <1>4, QuietTracks

\* tellStatus leads from a gid to its family.
LEMMA ToldFamily ==
    ASSUME Inv, NEW g \in Gids, NEW real \in Told(g), real # NoGid
    PROVE  real \in Gids /\ real = followedBy[g] /\ real \in Family(g)
  <1>1. real = followedBy[g]
    BY DEF Told
  <1> QED BY <1>1, TypesKnown DEF Family, GidOrNone

LEMMA AskFollowedByTracks ==
    ASSUME Inv, TrackInv, UNCHANGED others, NEW p \in Procs, AskFollowedBy(p)
    PROVE  TrackInv'
  <1> USE DifferentWorkers
  <1>1. /\ call[p].pc = "told?" /\ Secret(p) /\ call[p].gid \in Gids /\ RealsInv
        /\ UNCHANGED daemonVars /\ UNCHANGED <<gidToID, events>>
    BY DEF AskFollowedBy, At, Secret, Inv, FrameInv, WithGid, TrackInv
  <1>2. PICK real \in Told(call[p].gid) \cup {NoGid} :
            call' = [call EXCEPT ![p].pc = "track", ![p].gid = IF real = NoGid THEN @ ELSE real]
    BY DEF AskFollowedBy
  <1> DEFINE g == IF real = NoGid THEN call[p].gid ELSE real
             f == [call[p] EXCEPT !.pc = "track", !.gid = g]
  <1>3. g \in Family(call[p].gid)
    BY <1>1, <1>2, ToldFamily, FamilyMembers
  <1>4. call' = [call EXCEPT ![p] = f] /\ f.pc = "track" /\ f.gid = g /\ f.new = call[p].new
    <2>1. call[p] \in Frame
      BY TypesKnown
    <2>2. call' = [call EXCEPT ![p] = f]
      BY <1>2
    <2>3. f.pc = "track" /\ f.gid = g /\ f.new = call[p].new
      BY <2>1 DEF Frame
    <2> QED BY <2>2, <2>3
  <1>5. Grows /\ followedBy' = followedBy /\ gidToID' = gidToID /\ TrackedOnce'
    BY <1>1, DaemonUnchanged, OnceStays DEF DaemonKeeps, daemonVars, TrackInv
  <1>6. Pending' = Pending
    BY <1>1 DEF Pending, others, recVars
  <1> HIDE DEF f, g
  <1>7. \A h \in Gids : h \in {f.gid, f.new} => Near(p, h)
    <2>1. Holds(p, call[p].gid)
      BY DEF Holds
    <2>2. \A h \in Gids : h = call[p].new => Near(p, h)
      BY <1>1, FamilyMembers DEF Near, Holds
    <2> QED BY <1>1, <1>3, <1>4, <2>1, <2>2 DEF Near
  <1> QED BY <1>1, <1>3, <1>4, <1>5, <1>6, <1>7, AdapterTracks

LEMMA LookTracks ==
    ASSUME Inv, TrackInv, UNCHANGED others, NEW w \in Workers, Look(w)
    PROVE  TrackInv'
  <1>1. /\ call[w].pc = "look" /\ call[w].gid \in Gids /\ RealsInv
        /\ UNCHANGED daemonVars /\ UNCHANGED <<gidToID, events>>
    BY DEF Look, At, Inv, FrameInv, WithGid, TrackInv
  <1>2. PICK real \in Told(call[w].gid), pc \in {"swap", "repEnd", "repMeta"} :
          /\ call' = [call EXCEPT ![w].new = real, ![w].pc = pc]
          /\ pc = "swap" => real # NoGid
    BY DEF Look
  <1> DEFINE f == [call[w] EXCEPT !.new = real, !.pc = pc]
  <1>3. call' = [call EXCEPT ![w] = f] /\ f.pc = pc /\ f.gid = call[w].gid /\ f.new = real
    BY <1>2, TypesKnown DEF Frame
  <1> HIDE DEF f
  <1>4. Grows /\ followedBy' = followedBy /\ gidToID' = gidToID /\ TrackedOnce'
    BY <1>1, DaemonUnchanged, OnceStays DEF DaemonKeeps, daemonVars, TrackInv
  <1>5. Pending' = Pending
    BY <1>1 DEF Pending, others, recVars
  <1>6. \A h \in Gids : h \in {f.gid, f.new} => Near(w, h)
    <2>1. Holds(w, call[w].gid)
      BY DEF Holds
    <2>2. real # NoGid => real \in Family(call[w].gid)
      BY <1>1, ToldFamily
    <2>3. call[w].gid \in Family(call[w].gid)
      BY <1>1, FamilyMembers
    <2> QED BY <1>1, <1>3, <2>1, <2>2, <2>3, GidsAssumption DEF Near
  <1>7. f.pc = "swap" => f.new = followedBy[f.gid]
    BY <1>1, <1>2, <1>3, ToldFamily
  <1> QED BY <1>2, <1>3, <1>4, <1>5, <1>6, <1>7, AdapterTracks
\* The end of a secret: no member of the family is in the map.
LEMMA TrackTracks ==
    ASSUME Inv, TrackInv, UNCHANGED others, NEW p \in Procs, Track(p)
    PROVE  TrackInv'
  <1> USE DifferentWorkers
  <1>1. /\ call[p].pc = "track" /\ Secret(p) /\ call[p].gid \in Gids /\ call[p].id \in Ids
        /\ RealsInv /\ Goto(p, "repStart")
        /\ gidToID' = [gidToID EXCEPT ![call[p].gid] = call[p].id]
        /\ UNCHANGED daemonVars /\ UNCHANGED events
    BY DEF Track, At, Secret, Inv, FrameInv, WithGid, TrackInv
  <1>2. Grows /\ followedBy' = followedBy
    BY <1>1, DaemonUnchanged DEF DaemonKeeps, daemonVars
  <1>3. \A g \in Gids : gidToID'[g] # NoId => gidToID[g] # NoId \/ g = call[p].gid
    BY <1>1, TypesKnown
  <1>4. \A g \in Family(call[p].gid) : gidToID[g] = NoId
    BY <1>1 DEF TrackInv, SecretsKept, Public
  <1>5. TrackedOnce'
    <2> SUFFICES ASSUME NEW g \in Gids, gidToID'[g] # NoId, followedBy[g] \in Gids,
                        gidToID'[followedBy[g]] # NoId
                 PROVE  FALSE
      BY <1>2 DEF TrackedOnce, Tracked
    <2>1. gidToID[g] # NoId => gidToID[followedBy[g]] = NoId
      BY DEF TrackInv, TrackedOnce, Tracked
    <2>2. gidToID[g] # NoId => g \notin Family(call[p].gid)
      BY <1>4
    <2>3. gidToID[followedBy[g]] # NoId => followedBy[g] \notin Family(call[p].gid)
      BY <1>4
    <2>4. followedBy[g] # g
      BY GidsAssumption DEF TrackInv, RealsInv
    <2> QED BY <1>1, <1>3, <2>1, <2>2, <2>3, <2>4 DEF Family
  <1> DEFINE f == [call[p] EXCEPT !.pc = "repStart"]
  <1>6. call' = [call EXCEPT ![p] = f] /\ f.pc = "repStart" /\ f.gid = call[p].gid /\ f.new = call[p].new
    BY <1>1, TypesKnown DEF Goto, Frame
  <1> HIDE DEF f
  <1>7. Pending' = Pending
    BY <1>1 DEF Pending, others, recVars
  <1>8. \A g \in Gids : g \in {f.gid, f.new} => Near(p, g)
    BY <1>1, <1>6, FamilyMembers DEF Near, Holds
  <1>9. Holds(p, call[p].gid)
    BY DEF Holds
  <1> QED BY <1>2, <1>3, <1>5, <1>6, <1>7, <1>8, <1>9, AdapterTracks

\* The real task enters the map and its metadata task leaves it.
LEMMA SwapTracks ==
    ASSUME Inv, TrackInv, UNCHANGED others, NEW w \in Workers, Swap(w)
    PROVE  TrackInv'
  <1> DEFINE m == call[w].gid
             r == call[w].new
  <1>1. /\ call[w].pc = "swap" /\ Goto(w, "repGid") /\ m \in Gids /\ r \in Gids
        /\ gidToID' = [gidToID EXCEPT ![m] = NoId, ![r] = call[w].id]
        /\ UNCHANGED daemonVars /\ UNCHANGED events /\ RealsInv
        /\ r = followedBy[m]
    BY DEF Swap, At, Inv, FrameInv, WithGid, TrackInv, SwapKnown
  <1>2. Grows /\ followedBy' = followedBy
    BY <1>1, DaemonUnchanged DEF DaemonKeeps, daemonVars
  <1>3. \A g \in Gids : gidToID'[g] # NoId => g = r \/ (g # m /\ gidToID[g] # NoId)
    BY <1>1, TypesKnown
  <1>4. r # NoGid /\ followedBy[r] = NoGid /\ \A h \in Gids : followedBy[h] = r => h = m
    BY <1>1, GidsAssumption DEF RealsInv
  <1>5. r # m
    BY <1>1, <1>4
  <1> HIDE DEF m, r
  <1>6. TrackedOnce'
    <2> SUFFICES ASSUME NEW g \in Gids, gidToID'[g] # NoId, followedBy[g] \in Gids,
                        gidToID'[followedBy[g]] # NoId
                 PROVE  FALSE
      BY <1>2 DEF TrackedOnce, Tracked
    <2>1. gidToID[g] # NoId => gidToID[followedBy[g]] = NoId
      BY DEF TrackInv, TrackedOnce, Tracked
    <2> QED BY <1>1, <1>3, <1>4, <1>5, <2>1, GidsAssumption
  <1> DEFINE f == [call[w] EXCEPT !.pc = "repGid"]
  <1>7. call' = [call EXCEPT ![w] = f] /\ f.pc = "repGid" /\ f.gid = call[w].gid /\ f.new = call[w].new
    BY <1>1, TypesKnown DEF Goto, Frame
  <1> HIDE DEF f
  <1>8. Pending' = Pending
    BY <1>1 DEF Pending, others, recVars
  <1>9. \A g \in Gids : g \in {f.gid, f.new} => Near(w, g)
    BY <1>1, <1>7, FamilyMembers DEF Near, Holds
  <1>10. Holds(w, r)
    BY DEF Holds, r
  <1>11. \A g \in Gids : gidToID'[g] # NoId => gidToID[g] # NoId \/ Holds(w, g)
    BY <1>3, <1>10
  <1> QED BY <1>2, <1>6, <1>7, <1>8, <1>9, <1>11, AdapterTracks

\* Any step after which no more is known, of tasks and of gids.
LEMMA NothingLearnt ==
    ASSUME Inv, TrackInv, Grows, followedBy' = followedBy,
           \A w \in Workers : Secret(w)' \/ At(w, "swap")' => call'[w] = call[w],
           \A g \in Gids : gidToID'[g] # NoId => gidToID[g] # NoId,
           \A g \in Gids : Public(g)' => Public(g)
    PROVE  TrackInv'
  <1>1. RealsInv' /\ TrackedOnce'
    BY RealsStay, OnceStays DEF TrackInv
  <1>2. SecretsKept'
    BY NothingNew DEF TrackInv
  <1>3. SwapKnown'
    BY DEF TrackInv, SwapKnown, At
  <1> QED BY <1>1, <1>2, <1>3 DEF TrackInv

\* A step of the daemon that names no real task, or none at all.
LEMMA AsideTracks ==
    ASSUME Inv, TrackInv, Grows, UNCHANGED <<followedBy, events>>, UNCHANGED adapterVars,
           UNCHANGED others
    PROVE  TrackInv'
  <1>1. /\ call' = call /\ gidToID' = gidToID /\ byID' = byID /\ svc' = svc
        /\ events' = events /\ inHand' = inHand
    BY DEF adapterVars, others, repoVars, svcVars, recVars
  <1>2. \A g \in Gids : Public(g)' <=> Public(g)
    BY <1>1 DEF Public, Pending, Secret, Holds
  <1> QED BY <1>1, <1>2, NothingLearnt

\* The loops take up gids that are in the map.
LEMMA LoopTakes ==
    ASSUME Inv, TrackInv, UNCHANGED <<task, owner, followedBy, gidToID, events>>, UNCHANGED others,
           NEW w \in Loops, NEW g \in Gids, gidToID[g] # NoId,
           NEW pc, pc \notin {"told?", "track", "swap"}, NEW op, NEW id,
           call' = [call EXCEPT ![w] = [NoCall EXCEPT !.pc = pc, !.op = op, !.id = id, !.gid = g]]
    PROVE  TrackInv'
  <1> DEFINE f == [NoCall EXCEPT !.pc = pc, !.op = op, !.id = id, !.gid = g]
  <1>1. f.pc = pc /\ f.gid = g /\ f.new = NoGid
    BY DEF NoCall
  <1>2. call' = [call EXCEPT ![w] = f] /\ w \in Workers
    BY DifferentWorkers
  <1> HIDE DEF f
  <1>3. Pending' = Pending
    BY DEF Pending, others, recVars
  <1>4. \A h \in Gids : h \in {f.gid, f.new} => Near(w, h)
    BY <1>1, FamilyMembers, GidsAssumption DEF Near, TrackInv
  <1>5. Grows /\ TrackedOnce'
    BY OnceStays DEF Grows, TrackInv
  <1> QED BY <1>1, <1>2, <1>3, <1>4, <1>5, AdapterTracks

LEMMA LoopTracks ==
    ASSUME Inv, TrackInv, UNCHANGED others, TakeNote \/ PollTask
    PROVE  TrackInv'
  <1>1. CASE TakeNote
    <2> DEFINE n == Head(notes)
    <2>1. n \in [method: Methods, gid: Gids]
      <3>1. notes \in Seq([method: Methods, gid: Gids]) /\ notes # <<>>
        BY <1>1 DEF TakeNote, Inv, TypeOK, DaemonTypeOK
      <3> QED BY <3>1, HeadTailProperties
    <2>2. UNCHANGED <<task, owner, followedBy, gidToID, ctxDone, events>>
      BY <1>1 DEF TakeNote
    <2>3. CASE gidToID[n.gid] = NoId
      <3>1. UNCHANGED adapterVars
        BY <1>1, <2>2, <2>3 DEF TakeNote, adapterVars
      <3> QED BY <2>2, <3>1, AsideTracks DEF Grows
    <2>4. CASE gidToID[n.gid] # NoId
      <3>1. Reaction[n.method].pc \notin {"told?", "track", "swap"}
        BY <2>1 DEF Reaction, Methods
      <3>2. call' = [call EXCEPT ![Loop] = [NoCall EXCEPT !.pc = Reaction[n.method].pc,
                                                          !.op = Reaction[n.method].op,
                                                          !.id = gidToID[n.gid], !.gid = n.gid]]
        BY <1>1, <2>4 DEF TakeNote
      <3>3. n.gid \in Gids /\ Loop \in Loops
        BY <2>1 DEF Loops
      <3> HIDE DEF n
      <3> QED BY <2>2, <2>4, <3>1, <3>2, <3>3, LoopTakes
    <2> QED BY <2>3, <2>4
  <1>2. CASE PollTask
    <2>1. PICK g \in Tracked :
            call' = [call EXCEPT ![Poll] = [NoCall EXCEPT !.pc = "repProgress", !.op = "Progress",
                                                          !.id = gidToID[g], !.gid = g]]
      BY <1>2 DEF PollTask
    <2>2. g \in Gids /\ gidToID[g] # NoId /\ Poll \in Loops
      BY <2>1 DEF Tracked, Loops
    <2>3. UNCHANGED <<task, owner, followedBy, gidToID, events>>
      BY <1>2 DEF PollTask, daemonVars
    <2> QED BY <2>1, <2>2, <2>3, LoopTakes
  <1> QED BY <1>1, <1>2
-----------------------------------------------------------------------------
\* New tasks.

\* Nobody knows of a gid that has not been handed out.
LEMMA FreeUnknown ==
    ASSUME Inv, NEW g \in Gids, task[g] = "none"
    PROVE  /\ ~Public(g) /\ \A w \in Workers : ~Holds(w, g)
           /\ followedBy[g] = NoGid /\ \A h \in Gids : followedBy[h] # g
  <1>1. owner[g] = NoId
    BY DEF Inv, DaemonInv
  <1>2. \A id \in Ids : ~Belongs(g, id)
    BY <1>1, IdsAssumption, GidsAssumption DEF Belongs
  <1>3. \A w \in Workers : ~Holds(w, g)
    <2> SUFFICES ASSUME NEW w \in Workers, Holds(w, g)
                 PROVE  FALSE
      OBVIOUS
    <2>1. CASE call[w].pc = "idle"
      <3>1. call[w] = NoCall
        BY <2>1 DEF Inv, FrameInv
      <3> QED BY <3>1, GidsAssumption DEF Holds, NoCall
    <2>2. CASE call[w].pc # "idle"
      BY <1>2, <2>2, AtWork DEF Mine, Holds
    <2> QED BY <2>1, <2>2
  <1>4. gidToID[g] = NoId
    BY <1>2, TypesKnown DEF Inv, GidsBelong, Tracked, IdOrNone
  <1>5. \A i \in Ids : byID[i] # NoRow => byID[i].gid # g
    BY <1>2 DEF Inv, GidsBelong, Rows, Stored
  <1>6. \A p \in Procs : svc[p].gid # g
    BY <1>2, GidsAssumption DEF Inv, GidsBelong, ServiceInv
  <1>7. \A e \in Pending : g \notin {e.gid, e.new}
    <2> SUFFICES ASSUME NEW e \in Pending
                 PROVE  g \notin {e.gid, e.new}
      OBVIOUS
    <2>1. e.id \in Ids
      BY PendingEvents DEF Inv
    <2>2. Belongs(e.gid, e.id) /\ Belongs(e.new, e.id)
      BY DEF Inv, GidsBelong
    <2> QED BY <1>2, <2>1, <2>2
  <1>8. followedBy[g] = NoGid /\ \A h \in Gids : followedBy[h] # g
    BY <1>1, GidsAssumption DEF Inv, DaemonInv
  <1> QED BY <1>3, <1>4, <1>5, <1>6, <1>7, <1>8 DEF Public
LEMMA AddUriTracks ==
    ASSUME Inv, TrackInv, UNCHANGED others, NEW p \in Procs, AddUri(p)
    PROVE  TrackInv'
  <1> USE DifferentWorkers
  <1>1. PICK g \in Gids : /\ NewTask(g, call[p].id) /\ task[g] = "none"
                          /\ call' = [call EXCEPT ![p].pc = "told?", ![p].gid = g]
    BY DEF AddUri, FreeGids
  <1>2. /\ call[p].pc = "Start" /\ call[p].id \in Ids /\ UNCHANGED <<gidToID, events>>
        /\ call \in [Workers -> Frame] /\ call[p] \in Frame
    BY TypesKnown, AtWork DEF AddUri, At
  <1>3. Grows /\ followedBy' = followedBy
    BY <1>1, <1>2, NewTaskKeeps DEF Inv, TypeOK, DaemonKeeps, NewTask
  <1>4. RealsInv' /\ TrackedOnce'
    BY <1>2, <1>3, RealsStay, OnceStays DEF TrackInv
  <1> DEFINE f == [call[p] EXCEPT !.pc = "told?", !.gid = g]
  <1>5. f.pc = "told?" /\ f.gid = g /\ f.new = call[p].new
    BY <1>2 DEF Frame
  <1>6. call'[p] = f /\ \A v \in Workers \ {p} : call'[v] = call[v]
    BY <1>1, <1>2
  <1> HIDE DEF f
  <1>7. SwapKnown'
    BY <1>3, <1>5, <1>6 DEF TrackInv, SwapKnown, At
  <1>8. ~Public(g) /\ followedBy[g] = NoGid /\ \A h \in Gids : followedBy[h] # g
        /\ \A w \in Workers : ~Holds(w, g)
    BY <1>1, FreeUnknown
  <1>9. \A h \in Gids : Family(h)' = Family(h)
    BY <1>3 DEF Family
  <1>10. \A h \in Gids : Public(h)' => Public(h)
    <2>1. /\ gidToID' = gidToID /\ byID' = byID /\ svc' = svc /\ Pending' = Pending
      BY <1>2 DEF others, repoVars, svcVars, recVars, Pending
    <2>2. ~Secret(p) /\ Secret(p)'
      BY <1>2, <1>5, <1>6 DEF Secret
    <2>3. ASSUME NEW h \in Gids, NEW v \in Workers, ~Secret(v)', Holds(v, h)'
          PROVE  ~Secret(v) /\ Holds(v, h)
      <3>1. call'[v] = call[v]
        BY <1>6, <2>2, <2>3
      <3> QED BY <2>3, <3>1 DEF Secret, Holds
    <2> QED BY <2>1, <2>3 DEF Public
  <1>11. SecretsKept'
    <2> SUFFICES ASSUME NEW w \in Workers, Secret(w)', NEW h \in Family(call[w].gid)'
                 PROVE  ~Public(h)' /\ \A v \in Workers \ {w} : Secret(v)' => ~Holds(v, h)'
      BY DEF SecretsKept
    <2>1. CASE w = p
      <3>1. h = g
        BY <1>3, <1>5, <1>6, <1>8, <2>1, GidsAssumption DEF Family
      <3>2. \A v \in Workers \ {p} : ~Holds(v, g)'
        BY <1>6, <1>8 DEF Holds
      <3> QED BY <1>8, <1>10, <2>1, <3>1, <3>2
    <2>2. CASE w # p
      <3>1. call'[w] = call[w] /\ Secret(w) /\ h \in Gids
        BY <1>6, <2>2 DEF Secret, Family
      <3>2. h \in Family(call[w].gid)
        BY <1>3, <3>1 DEF Family
      <3>3. ~Public(h) /\ \A v \in Workers \ {w} : Secret(v) => ~Holds(v, h)
        BY <3>1, <3>2 DEF TrackInv, SecretsKept
      <3>4. h # g
        <4>1. call[w].gid # g
          BY <1>8, <3>1 DEF Holds
        <4>2. call[w].gid \in Gids
          BY <3>1 DEF Inv, FrameInv, Secret, WithGid
        <4> QED BY <1>8, <3>2, <4>1, <4>2, GidsAssumption DEF Family
      <3>5. ~Holds(p, h)'
        <4>1. h = call[p].new => Public(h)
          BY <1>2 DEF Public, Secret, Holds
        <4> QED BY <1>5, <1>6, <3>3, <3>4, <4>1 DEF Holds
      <3>6. \A v \in Workers \ {w, p} : Secret(v)' => ~Holds(v, h)'
        BY <1>6, <3>3 DEF Secret, Holds
      <3> QED BY <1>10, <3>1, <3>3, <3>5, <3>6
    <2> QED BY <2>1, <2>2
  <1> QED BY <1>4, <1>7, <1>11 DEF TrackInv

\* A metadata task ends and its real task begins.
LEMMA FinishMetadataTracks ==
    ASSUME Inv, TrackInv, UNCHANGED others, UNCHANGED <<events, adapterVars>>,
           NEW g \in Gids, NEW real \in Gids, FinishMetadata(g, real)
    PROVE  TrackInv'
  <1>1. /\ task[g] = "active" /\ task[real] = "none" /\ g # real
        /\ task' = [task EXCEPT ![g] = "done", ![real] = "active"]
        /\ followedBy' = [followedBy EXCEPT ![g] = real]
        /\ \A m \in Gids : followedBy[m] # g
    BY DEF FinishMetadata, FreeGids, IsReal
  <1>2. /\ call' = call /\ gidToID' = gidToID /\ byID' = byID /\ svc' = svc
        /\ events' = events /\ inHand' = inHand
    BY DEF adapterVars, others, repoVars, svcVars, recVars
  <1>3. /\ ~Public(real) /\ \A w \in Workers : ~Holds(w, real)
        /\ followedBy[real] = NoGid /\ \A h \in Gids : followedBy[h] # real
    BY <1>1, FreeUnknown
  <1>4. /\ followedBy[g] = NoGid /\ real # NoGid
        /\ followedBy'[g] = real /\ \A h \in Gids \ {g} : followedBy'[h] = followedBy[h]
        /\ \A h \in Gids : followedBy[h] \in Gids \/ followedBy[h] = NoGid
    BY <1>1, TypesKnown DEF TrackInv, RealsInv, Live, GidOrNone
  <1>5. /\ task'[g] = "done"
        /\ \A h \in Gids : task[h] \notin Live \cup {"none"} => task'[h] = task[h]
    BY <1>1 DEF Inv, TypeOK, DaemonTypeOK, Live
  <1>6. RealsInv'
    <2> SUFFICES ASSUME NEW h \in Gids, followedBy'[h] # NoGid
                 PROVE  /\ task'[h] \notin Live \cup {"none"}
                        /\ followedBy'[followedBy'[h]] = NoGid
                        /\ \A k \in Gids : followedBy'[k] = followedBy'[h] => k = h
      BY DEF RealsInv
    <2>1. CASE h = g
      BY <1>1, <1>3, <1>4, <1>5, <2>1 DEF Live
    <2>2. CASE h # g
      <3>1. /\ followedBy[h] # NoGid /\ followedBy[h] # g /\ followedBy[h] \in Gids
            /\ task[h] \notin Live \cup {"none"} /\ followedBy[followedBy[h]] = NoGid
            /\ \A k \in Gids : followedBy[k] = followedBy[h] => k = h
        BY <1>1, <1>4, <2>2 DEF TrackInv, RealsInv
      <3> QED BY <1>3, <1>4, <1>5, <2>2, <3>1
    <2> QED BY <2>1, <2>2
  <1>7. SwapKnown'
    <2> SUFFICES ASSUME NEW w \in Workers, At(w, "swap")
                 PROVE  call[w].new = followedBy'[call[w].gid]
      BY <1>2 DEF SwapKnown, At
    <2>1. /\ call[w].gid \in Gids /\ call[w].new \in Gids
          /\ call[w].new = followedBy[call[w].gid]
      BY DEF TrackInv, SwapKnown, At, Inv, FrameInv, WithGid
    <2> QED BY <1>4, <2>1, GidsAssumption
  <1>8. TrackedOnce'
    <2> SUFFICES ASSUME NEW h \in Gids, gidToID[h] # NoId, followedBy'[h] \in Gids,
                        gidToID[followedBy'[h]] # NoId
                 PROVE  FALSE
      BY <1>2 DEF TrackedOnce, Tracked
    <2>1. gidToID[real] = NoId
      BY <1>3 DEF Public
    <2> QED BY <1>4, <2>1 DEF TrackInv, TrackedOnce, Tracked
  <1>9. SecretsKept'
    <2> SUFFICES ASSUME NEW w \in Workers, Secret(w), NEW h \in Family(call[w].gid)'
                 PROVE  ~Public(h)' /\ \A v \in Workers \ {w} : Secret(v) => ~Holds(v, h)
      BY <1>2 DEF SecretsKept, Secret, Holds
    <2>1. call[w].gid \in Gids /\ call[w].gid # real /\ h \in Gids
      BY <1>2, <1>3 DEF Inv, FrameInv, Secret, WithGid, Holds, Family
    <2>2. h = real \/ h \in Family(call[w].gid)
      BY <1>2, <1>4, <2>1 DEF Family
    <2>3. Public(h)' => Public(h)
      BY <1>2 DEF Public, Pending, Secret, Holds
    <2> QED BY <1>3, <2>2, <2>3 DEF TrackInv, SecretsKept
  <1> QED BY <1>6, <1>7, <1>8, <1>9 DEF TrackInv

LEMMA DaemonTracks ==
    ASSUME Inv, TrackInv, Daemon
    PROVE  TrackInv'
  <1>1. DaemonStep /\ UNCHANGED <<events, adapterVars>> /\ UNCHANGED others
    BY DEF Daemon, others
  <1>2. Grows
    BY <1>1, DaemonStepKeeps DEF DaemonKeeps, Inv, TypeOK
  <1>3. CASE followedBy' = followedBy
    BY <1>1, <1>2, <1>3, AsideTracks DEF adapterVars
  <1>4. CASE \E g \in Gids, real \in Gids : FinishMetadata(g, real)
    BY <1>1, <1>4, FinishMetadataTracks
  <1> QED BY <1>1, <1>3, <1>4 DEF DaemonStep, EndStream, Finish, Fail

LEMMA AdapterKeepsTrack ==
    ASSUME Inv, TrackInv, UNCHANGED others,
           LoopStep \/ PollStep \/ \E p \in Procs : CallStep(p)
    PROVE  TrackInv'
  <1>1. Loop \in Workers /\ Poll \in Workers
    BY DifferentWorkers
  <1>2. CASE LoopStep \/ PollStep
    BY <1>1, <1>2, LoopTracks, LookTracks, SwapTracks, ReportGidTracks, ReportsTrack, UntrackTracks
    DEF LoopStep, PollStep
  <1>3. ASSUME NEW p \in Procs, CallStep(p)
        PROVE  TrackInv'
    <2>1. p \in Workers
      BY DifferentWorkers
    <2> QED BY <1>3, <2>1, AddUriTracks, StartTracks, AskFollowedByTracks, TrackTracks,
               ReportsTrack, CommandTracks, LookTracks, SwapTracks, ReportGidTracks,
               UntrackTracks, PurgeTracks DEF CallStep
  <1> QED BY <1>2, <1>3
-----------------------------------------------------------------------------
\* Steps of the service, the reconciler and the program as a whole.

RowsPublic == \A i \in Ids, g \in Gids : byID'[i] # NoRow /\ byID'[i].gid = g => Public(g)

FramesPublic == \A p \in Procs, g \in Gids : svc'[p].gid = g => Public(g)

\* A frame of the adapter is as before, or not secret and holds public gids.
CallPublic(w) ==
    \/ call'[w] = call[w]
    \/ /\ call'[w].pc \notin {"told?", "track", "swap"}
       /\ \A g \in Gids : g \in {call'[w].gid, call'[w].new} => Public(g)

LEMMA ServiceTracks ==
    ASSUME Inv, TrackInv, UNCHANGED elsewhere, UNCHANGED recVars,
           \A w \in Workers : CallPublic(w), FramesPublic, RowsPublic
    PROVE  TrackInv'
  <1>1. /\ followedBy' = followedBy /\ Grows /\ gidToID' = gidToID /\ Pending' = Pending
    BY DaemonUnchanged DEF elsewhere, daemonVars, DaemonKeeps, recVars, Pending
  <1>2. \A w \in Workers : Secret(w)' \/ At(w, "swap")' => call'[w] = call[w]
    BY DEF CallPublic, Secret, At
  <1>3. ASSUME NEW g \in Gids, NEW w \in Workers, ~Secret(w)', Holds(w, g)'
        PROVE  Public(g)
    BY <1>3 DEF CallPublic, Public, Secret, Holds
  <1>4. \A g \in Gids : Public(g)' => Public(g)
    BY <1>1, <1>3 DEF FramesPublic, RowsPublic, Public
  <1> QED BY <1>1, <1>2, <1>4, NothingLearnt

LEMMA KeptPublic ==
    /\ UNCHANGED repoVars => RowsPublic
    /\ UNCHANGED svc => FramesPublic
    /\ UNCHANGED call => \A w \in Workers : CallPublic(w)
  BY DEF RowsPublic, FramesPublic, CallPublic, repoVars, Public

LEMMA SetPublic ==
    ASSUME Inv, NEW id \in Ids, NEW clone, Set(id, clone),
           Stored(id) => \A g \in Gids : clone.gid = g => Public(g)
    PROVE  RowsPublic
  <1>1. byID \in [Ids -> Download \cup {NoRow}]
    BY DEF Inv, TypeOK, RepoTypeOK
  <1>2. byID' = byID \/ (Stored(id) /\ byID' = [byID EXCEPT ![id] = clone])
    BY DEF Set, Update, repoVars
  <1> QED BY <1>1, <1>2 DEF RowsPublic, Public

\* A gid of a stored row or of a frame is public.
LEMMA RowGid ==
    ASSUME Inv, NEW id \in Ids, Stored(id), NEW g \in Gids, byID[id].gid = g
    PROVE  Public(g)
  BY DEF Public, Stored

\* One frame of the service changes, to one with a public gid or none.
LEMMA FramePublic ==
    ASSUME Inv, NEW p \in Procs, NEW s, svc' = [svc EXCEPT ![p] = s],
           \A g \in Gids : s.gid = g => Public(g)
    PROVE  FramesPublic
  BY TypesKnown DEF FramesPublic, Public

LEMMA StepPublic ==
    ASSUME Inv, NEW p \in Procs, NEW pc, Step(p, pc) \/ EndRequest(p)
    PROVE  FramesPublic
  <1>1. CASE Step(p, pc)
    <2> DEFINE s == [svc[p] EXCEPT !.pc = pc]
    <2>1. svc[p] \in ServiceFrame
      BY TypesKnown
    <2>2. s.gid = svc[p].gid
      BY <2>1 DEF ServiceFrame
    <2>3. svc' = [svc EXCEPT ![p] = s]
      BY <1>1 DEF Step
    <2>4. \A g \in Gids : s.gid = g => Public(g)
      BY <2>2 DEF Public
    <2> HIDE DEF s
    <2> QED BY <2>3, <2>4, FramePublic
  <1>2. CASE EndRequest(p)
    <2>1. \A g \in Gids : Idle.gid # g
      BY GidsAssumption DEF Idle
    <2> QED BY <1>2, <2>1, FramePublic DEF EndRequest
  <1> QED BY <1>1, <1>2

LEMMA BeginPublic ==
    ASSUME Inv, NEW p \in Procs, NEW pc, NEW id, NEW gid, NEW wish, Begin(p, pc, id, gid, wish),
           \A g \in Gids : gid = g => Public(g)
    PROVE  FramesPublic
  <1> DEFINE s == [pc |-> pc, id |-> id, gid |-> gid, wish |-> wish]
  <1>1. svc' = [svc EXCEPT ![p] = s] /\ s.gid = gid
    BY DEF Begin
  <1> HIDE DEF s
  <1> QED BY <1>1, FramePublic

\* A call is made with a public gid or none, or taken back.
LEMMA CallsPublic ==
    ASSUME Inv, NEW p \in Procs, NEW op \in Calls, NEW id, NEW gid,
           Invoke(p, op, id, gid) \/ TakeBack(p), \A g \in Gids : gid = g => Public(g)
    PROVE  \A w \in Workers : CallPublic(w)
  <1>1. p \in Workers /\ call \in [Workers -> Frame]
    BY TypesKnown, DifferentWorkers
  <1>2. CASE TakeBack(p)
    BY <1>1, <1>2, GidsAssumption DEF TakeBack, CallPublic, NoCall
  <1>3. CASE Invoke(p, op, id, gid)
    BY <1>1, <1>3, GidsAssumption DEF Invoke, CallPublic, NoCall, Calls
  <1> QED BY <1>2, <1>3

LEMMA ClientTracks ==
    ASSUME Inv, TrackInv, NEW p \in Reqs, Client(p)
    PROVE  TrackInv'
  <1>1. UNCHANGED recVars /\ p \in Procs
    BY DifferentWorkers DEF Client
  <1>2. ASSUME NEW loc \in Locators, NEW status \in Posted, AddRequest(p, loc, status)
        PROVE  TrackInv'
    <2>1. PICK id \in Ids, created \in BOOLEAN :
            /\ AddWithFingerprint([loc |-> loc, gid |-> NoGid, status |-> status,
                                   desired |-> status], FpOf[loc], id, created)
            /\ Begin(p, "launch", id, NoGid, "none") \/ UNCHANGED svc
      BY <1>2 DEF AddRequest
    <2>2. RowsPublic
      <3>1. byID \in [Ids -> Download \cup {NoRow}]
        BY DEF Inv, TypeOK, RepoTypeOK
      <3>2. \/ byID' = byID
            \/ byID' = [byID EXCEPT ![id] = [loc |-> loc, gid |-> NoGid, status |-> status,
                                             desired |-> status]]
        BY <2>1 DEF AddWithFingerprint, Insert, repoVars
      <3> QED BY <3>1, <3>2, GidsAssumption DEF RowsPublic, Public
    <2>3. FramesPublic
      BY <1>1, <2>1, BeginPublic, KeptPublic, GidsAssumption
    <2>4. UNCHANGED elsewhere /\ UNCHANGED call
      BY <1>2 DEF AddRequest
    <2> QED BY <1>1, <2>2, <2>3, <2>4, KeptPublic, ServiceTracks
  <1>3. ASSUME NEW id \in Ids, NEW wish, UpdateRequest(p, id, wish) \/ DeleteRequest(p, id)
        PROVE  TrackInv'
    <2>1. Stored(id) /\ \E pc, x : Begin(p, pc, id, byID[id].gid, x)
      BY <1>3 DEF UpdateRequest, DeleteRequest
    <2>2. FramesPublic
      BY <1>1, <2>1, BeginPublic, RowGid
    <2>3. UNCHANGED elsewhere /\ UNCHANGED call /\ UNCHANGED repoVars
      BY <1>3 DEF UpdateRequest, DeleteRequest
    <2> QED BY <1>1, <2>2, <2>3, KeptPublic, ServiceTracks
  <1> QED BY <1>2, <1>3 DEF Client, Request
\* What a waiting request or start knows of its call.
LEMMA WaitingPublic ==
    ASSUME Inv, NEW p \in Procs, ~Secret(p)
    PROVE  \A g \in Gids : g \in {svc[p].gid, call[p].gid} => Public(g)
  <1>1. p \in Workers
    BY DifferentWorkers
  <1> QED BY <1>1 DEF Public, Holds

LEMMA RowSetPublic ==
    ASSUME Inv, NEW id \in Ids,
           \/ SetFailed(id)
           \/ \E gid : SetGid(id, gid) /\ \A g \in Gids : gid = g => Public(g)
    PROVE  RowsPublic
  <1>1. ASSUME Stored(id)
        PROVE  byID[id] \in Download
    BY <1>1 DEF Inv, TypeOK, RepoTypeOK, Stored
  <1>2. CASE SetFailed(id)
    <2> DEFINE clone == [byID[id] EXCEPT !.status = "Failed"]
    <2>1. Stored(id) => \A g \in Gids : clone.gid = g => Public(g)
      BY <1>1, RowGid DEF Download
    <2>2. Set(id, clone)
      BY <1>2 DEF SetFailed
    <2> QED BY <2>1, <2>2, SetPublic
  <1>3. ASSUME NEW gid, SetGid(id, gid), \A g \in Gids : gid = g => Public(g)
        PROVE  RowsPublic
    <2> DEFINE clone == [byID[id] EXCEPT !.gid = gid]
    <2>1. Stored(id) => \A g \in Gids : clone.gid = g => Public(g)
      BY <1>1, <1>3 DEF Download
    <2>2. Set(id, clone)
      BY <1>3 DEF SetGid
    <2> QED BY <2>1, <2>2, SetPublic
  <1> QED BY <1>2, <1>3

LEMMA AwaitTracks ==
    ASSUME Inv, TrackInv, UNCHANGED <<recVars, left>>, NEW p \in Reqs,
           CallFailed(p) \/ SaveGid(p) \/ CallDone(p)
    PROVE  TrackInv'
  <1>1. /\ svc[p].pc = "await" /\ call[p].pc = "return"
        /\ EndRequest(p) \/ Step(p, "settle")
        /\ TakeBack(p) /\ UNCHANGED elsewhere
    BY DEF CallFailed, SaveGid, CallDone, In, Returned, At
  <1>2. p \in Procs /\ svc[p].id \in Ids /\ ~Secret(p)
    BY <1>1, RequestAtWork, DifferentWorkers DEF Secret
  <1>3. RowsPublic
    BY <1>2, WaitingPublic, RowSetPublic, KeptPublic DEF CallFailed, SaveGid, CallDone
  <1>4. FramesPublic
    BY <1>1, <1>2, StepPublic
  <1>5. \A w \in Workers : CallPublic(w)
    BY <1>1, <1>2, CallsPublic, GidsAssumption DEF Calls
  <1> QED BY <1>1, <1>3, <1>4, <1>5, ServiceTracks

LEMMA SetDesiredTracks ==
    ASSUME Inv, TrackInv, UNCHANGED <<recVars, left>>, NEW p \in Reqs, SetDesired(p)
    PROVE  TrackInv'
  <1> DEFINE r == svc[p]
             clone == [byID[r.id] EXCEPT !.desired = r.wish]
             method == MethodFor(r.wish, r.gid)
  <1>1. /\ svc[p].pc = "desire" /\ UNCHANGED elsewhere
        /\ \/ EndRequest(p) /\ UNCHANGED <<call, repoVars>>
           \/ /\ Stored(r.id) /\ Update(r.id, clone)
              /\ \/ Step(p, "settle") /\ UNCHANGED call
                 \/ method # "none" /\ Step(p, "await") /\ Invoke(p, method, r.id, r.gid)
    BY DEF SetDesired, In
  <1>2. p \in Procs /\ r.id \in Ids /\ r.wish \in Wishes
    BY <1>1, RequestAtWork, DifferentWorkers
  <1>3. method \in Calls \cup {"none"}
    BY <1>2 DEF MethodFor, Wishes, Calls
  <1>4. \A g \in Gids : r.gid = g => Public(g)
    BY <1>2 DEF Public
  <1>5. RowsPublic
    <2>1. CASE UNCHANGED repoVars
      BY <2>1, KeptPublic
    <2>2. CASE Stored(r.id) /\ Update(r.id, clone)
      <3>1. byID[r.id] \in Download
        BY <1>2, <2>2 DEF Inv, TypeOK, RepoTypeOK, Stored
      <3>2. clone.gid = byID[r.id].gid
        BY <3>1 DEF Download
      <3>3. Set(r.id, clone)
        BY <2>2 DEF Set
      <3> HIDE DEF clone
      <3> QED BY <1>2, <2>2, <3>2, <3>3, SetPublic, RowGid
    <2> QED BY <1>1, <2>1, <2>2
  <1> HIDE DEF method, clone
  <1>6. FramesPublic
    BY <1>1, <1>2, StepPublic
  <1>7. \A w \in Workers : CallPublic(w)
    BY <1>1, <1>2, <1>3, <1>4, CallsPublic, KeptPublic
  <1> QED BY <1>1, <1>5, <1>6, <1>7, ServiceTracks
LEMMA SettleTracks ==
    ASSUME Inv, TrackInv, UNCHANGED <<recVars, left>>, NEW p \in Reqs, Settle(p)
    PROVE  TrackInv'
  <1> DEFINE id == svc[p].id
             clone == Settled(byID[id], svc[p].wish)
  <1>1. /\ svc[p].pc = "settle" /\ EndRequest(p) /\ Set(id, clone)
        /\ UNCHANGED elsewhere /\ UNCHANGED call
    BY DEF Settle, In
  <1>2. p \in Procs /\ id \in Ids
    BY <1>1, RequestAtWork, DifferentWorkers
  <1>3. ASSUME Stored(id), NEW g \in Gids, clone.gid = g
        PROVE  Public(g)
    <2>1. byID[id] \in Download
      BY <1>2, <1>3 DEF Inv, TypeOK, RepoTypeOK, Stored
    <2>2. clone.gid \in {NoGid, byID[id].gid}
      BY <2>1 DEF Settled, Download
    <2> QED BY <1>2, <1>3, <2>2, RowGid, GidsAssumption
  <1>4. RowsPublic
    BY <1>1, <1>2, <1>3, SetPublic
  <1>5. FramesPublic
    BY <1>1, <1>2, StepPublic
  <1> QED BY <1>1, <1>4, <1>5, KeptPublic, ServiceTracks

LEMMA DeleteTracks ==
    ASSUME Inv, TrackInv, UNCHANGED <<recVars, left>>, NEW p \in Reqs,
           CancelStart(p) \/ DeleteRow(p)
    PROVE  TrackInv'
  <1>1. p \in Procs /\ UNCHANGED elsewhere
    BY DifferentWorkers DEF CancelStart, DeleteRow
  <1>2. \A g \in Gids : svc[p].gid = g => Public(g)
    BY <1>1 DEF Public
  <1>3. FramesPublic
    BY <1>1, StepPublic DEF CancelStart, DeleteRow
  <1>4. \A w \in Workers : CallPublic(w)
    <2>1. CASE CancelStart(p)
      <3>1. Invoke(p, "Delete", svc[p].id, svc[p].gid)
        BY <2>1 DEF CancelStart
      <3> QED BY <1>1, <1>2, <3>1, CallsPublic DEF Calls
    <2>2. CASE DeleteRow(p)
      BY <1>1, <2>2, CallsPublic, GidsAssumption DEF DeleteRow, Calls
    <2> QED BY <2>1, <2>2
  <1>5. RowsPublic
    <2>1. CASE UNCHANGED repoVars
      BY <2>1, KeptPublic
    <2>2. CASE Delete(svc[p].id) /\ ~UNCHANGED repoVars
      <3>1. byID \in [Ids -> Download \cup {NoRow}]
        BY DEF Inv, TypeOK, RepoTypeOK
      <3>2. byID' = [byID EXCEPT ![svc[p].id] = NoRow]
        BY <2>2 DEF Delete
      <3> QED BY <3>1, <3>2 DEF RowsPublic, Public
    <2>3. UNCHANGED repoVars \/ Delete(svc[p].id)
      BY DEF CancelStart, DeleteRow
    <2> QED BY <2>1, <2>2, <2>3
  <1> QED BY <1>1, <1>3, <1>4, <1>5, ServiceTracks

LEMMA LaunchTracks ==
    ASSUME Inv, TrackInv, UNCHANGED <<recVars, left>>, NEW p \in Reqs, Launch(p)
    PROVE  TrackInv'
  <1>1. PICK id \in Ids : id = svc[p].id
    BY RequestAtWork, DifferentWorkers DEF Launch, In
  <1>2. /\ svc' = [svc EXCEPT ![p] = Idle, ![id] = [Idle EXCEPT !.pc = "starting", !.id = id]]
        /\ Invoke(id, "Start", id, NoGid)
        /\ UNCHANGED elsewhere /\ UNCHANGED repoVars
    BY <1>1 DEF Launch
  <1>3. p \in Procs /\ id \in Procs
    BY DifferentWorkers
  <1>4. FramesPublic
    <2>1. Idle.gid = NoGid /\ [Idle EXCEPT !.pc = "starting", !.id = id].gid = NoGid
      BY DEF Idle
    <2>2. \A q \in Procs : svc'[q] = svc[q] \/ svc'[q].gid = NoGid
      BY <1>2, <1>3, <2>1, TypesKnown
    <2> QED BY <2>2, GidsAssumption DEF FramesPublic, Public
  <1>5. \A w \in Workers : CallPublic(w)
    BY <1>2, <1>3, CallsPublic, GidsAssumption DEF Calls
  <1> QED BY <1>2, <1>4, <1>5, KeptPublic, ServiceTracks

LEMMA StarterTracks ==
    ASSUME Inv, TrackInv, UNCHANGED <<recVars, left>>, NEW id \in Ids, StarterStep(id)
    PROVE  TrackInv'
  <1>1. id \in Procs
    BY DifferentWorkers
  <1>2. CASE SettleStart(id)
    <2>1. /\ call[id].pc = "return" /\ Step(id, "cleanup") /\ TakeBack(id) /\ UNCHANGED elsewhere
          /\ SetGid(id, call[id].gid) \/ SetFailed(id) \/ UNCHANGED repoVars
      BY <1>2 DEF SettleStart, Returned, At
    <2>2. ~Secret(id)
      BY <2>1 DEF Secret
    <2>3. RowsPublic
      BY <1>1, <2>1, <2>2, WaitingPublic, RowSetPublic, KeptPublic
    <2>4. FramesPublic
      BY <1>1, <2>1, StepPublic
    <2>5. \A w \in Workers : CallPublic(w)
      BY <1>1, <2>1, CallsPublic, GidsAssumption DEF Calls
    <2> QED BY <2>1, <2>3, <2>4, <2>5, ServiceTracks
  <1>3. CASE Cleanup(id)
    <2>1. Step(id, "done") /\ UNCHANGED elsewhere /\ UNCHANGED call /\ UNCHANGED repoVars
      BY <1>3 DEF Cleanup
    <2>2. FramesPublic
      BY <1>1, <2>1, StepPublic
    <2> QED BY <2>1, <2>2, KeptPublic, ServiceTracks
  <1> QED BY <1>2, <1>3 DEF StarterStep

LEMMA GoroutineTracks ==
    ASSUME Inv, TrackInv, NEW p \in Procs, Goroutine(p)
    PROVE  TrackInv'
  <1>1. UNCHANGED <<recVars, left>>
    BY DEF Goroutine
  <1>2. CASE p \in Reqs /\ RequestStep(p)
    BY <1>1, <1>2, LaunchTracks, SetDesiredTracks, AwaitTracks, SettleTracks, DeleteTracks
    DEF RequestStep
  <1>3. CASE p \in Ids /\ StarterStep(p)
    BY <1>1, <1>3, StarterTracks
  <1>4. CASE CallStep(p) /\ UNCHANGED <<repoVars, svcVars>>
    BY <1>1, <1>4, AdapterKeepsTrack DEF others
  <1> QED BY <1>2, <1>3, <1>4 DEF Goroutine

\* The reconciler adds no event.
LEMMA PendingFalls ==
    ASSUME Inv, Reconcile
    PROVE  Pending' \subseteq Pending
  <1>1. CASE TakeEvent
    <2>1. events \in Seq(Event) /\ events # <<>>
          /\ inHand' = Head(events) /\ events' = Tail(events)
      BY <1>1 DEF TakeEvent, Inv, TypeOK, EventBusTypeOK
    <2> HIDE DEF Event
    <2>2. /\ inHand' = events[1] /\ Len(events) \in Nat /\ Len(events) > 0
          /\ DOMAIN events = 1..Len(events) /\ DOMAIN events' = 1..(Len(events) - 1)
          /\ \A i \in 1..(Len(events) - 1) : events'[i] = events[i + 1]
      BY <2>1, HeadTailProperties
    <2>3. \A n \in DOMAIN events' : n + 1 \in DOMAIN events /\ events'[n] = events[n + 1]
      BY <2>2
    <2>4. 1 \in DOMAIN events
      BY <2>2
    <2> QED BY <2>2, <2>3, <2>4 DEF Pending
  <1>2. CASE events' = events /\ inHand' \in {inHand, NoEvent}
    BY <1>2 DEF Pending
  <1>3. TakeEvent \/ (events' = events /\ inHand' \in {inHand, NoEvent})
    BY DEF Reconcile, ReconcilerStep, PassOver, ApplyPaused, ApplyGid, Judge, Apply, Finished
  <1> QED BY <1>1, <1>2, <1>3

LEMMA ReconcileTracks ==
    ASSUME Inv, TrackInv, Reconcile
    PROVE  TrackInv'
  <1>1. UNCHANGED <<daemonVars, adapterVars, svcVars, left>>
    BY DEF Reconcile
  <1>2. /\ followedBy' = followedBy /\ gidToID' = gidToID /\ call' = call /\ svc' = svc /\ Grows
    BY <1>1, DaemonUnchanged DEF daemonVars, adapterVars, svcVars, DaemonKeeps
  <1>3. Pending' \subseteq Pending
    BY PendingFalls
  <1>4. RowsPublic
    <2>1. CASE UNCHANGED repoVars
      BY <2>1, KeptPublic
    <2>2. CASE ~UNCHANGED repoVars
      <3>1. PICK clone : /\ inHand # NoEvent /\ UpdateRow(clone)
                         /\ \/ clone = [row EXCEPT !.status = "Paused"]
                            \/ clone = [row EXCEPT !.gid = inHand.new]
                            \/ clone = [row EXCEPT !.status = "Active"]
                            \/ clone = [row EXCEPT !.status = inHand.type, !.gid = NoGid]
        BY <2>2 DEF Reconcile, ReconcilerStep, TakeEvent, PassOver, ApplyPaused, ApplyGid, Judge,
                    Apply, Holding, NoEvent, Inv, JudgeInv, TerminalTypes
      <3>2. inHand.id \in Ids /\ inHand \in Pending
        BY <3>1, HandKnown DEF Pending
      <3>3. Set(inHand.id, clone)
        BY <3>1 DEF UpdateRow, Set
      <3>4. ASSUME Stored(inHand.id), NEW g \in Gids, clone.gid = g
            PROVE  Public(g)
        <4>1. row \in Download /\ row = byID[inHand.id]
          BY <3>2, <3>4 DEF Inv, TypeOK, RepoTypeOK, Stored, row
        <4>2. clone.gid \in {NoGid, row.gid, inHand.new}
          BY <3>1, <4>1 DEF Download
        <4>3. g = row.gid => Public(g)
          BY <3>2, <3>4, <4>1, RowGid
        <4> QED BY <3>2, <3>4, <4>2, <4>3, GidsAssumption DEF Public
      <3> QED BY <3>2, <3>3, <3>4, SetPublic
    <2> QED BY <2>1, <2>2
  <1>5. \A g \in Gids : Public(g)' => Public(g)
    BY <1>2, <1>3, <1>4 DEF Public, RowsPublic, Secret, Holds
  <1> QED BY <1>2, <1>5, NothingLearnt

LEMMA RestartTracks ==
    ASSUME Inv, TrackInv, Restart
    PROVE  TrackInv'
  <1>1. /\ svc' = [p \in Procs |->
                     IF p \in Ids /\ svc[p].pc # "idle" THEN [Idle EXCEPT !.pc = "done"] ELSE Idle]
        /\ gidToID' = [g \in Gids |-> NoId] /\ call' = [w \in Workers |-> NoCall]
        /\ events' = <<>> /\ inHand' = NoEvent
        /\ UNCHANGED <<task, owner, followedBy>> /\ UNCHANGED repoVars
    BY DEF Restart
  <1>2. \A g \in Gids : /\ \A w \in Workers : ~Secret(w)' /\ ~At(w, "swap")' /\ ~Holds(w, g)'
                        /\ \A p \in Procs : svc'[p].gid # g
                        /\ gidToID'[g] = NoId
    BY <1>1, GidsAssumption DEF NoCall, Idle, Secret, At, Holds
  <1>3. Pending' = {}
    BY <1>1 DEF Pending
  <1>4. \A g \in Gids : Public(g)' => Public(g)
    BY <1>1, <1>2, <1>3 DEF Public, repoVars
  <1>5. \A w \in Workers : ~Secret(w)' /\ ~At(w, "swap")'
    BY <1>1 DEF NoCall, Secret, At
  <1> QED BY <1>1, <1>2, <1>4, <1>5, NothingLearnt DEF Grows

LEMMA InitTracks ==
    ASSUME Init
    PROVE  TrackInv
  <1>1. /\ followedBy = [g \in Gids |-> NoGid] /\ gidToID = [g \in Gids |-> NoId]
        /\ call = [w \in Workers |-> NoCall]
    BY DEF Init, DaemonInit, AdapterInit
  <1>2. \A w \in Workers : ~Secret(w) /\ ~At(w, "swap")
    BY <1>1 DEF NoCall, Secret, At
  <1> QED BY <1>1, <1>2 DEF TrackInv, RealsInv, SecretsKept, SwapKnown, TrackedOnce, Tracked

LEMMA NextTracks ==
    ASSUME Inv, TrackInv, [Next]_vars
    PROVE  TrackInv'
  <1>1. CASE NotificationLoop \/ PollLoop
    BY <1>1, AdapterKeepsTrack DEF NotificationLoop, PollLoop, others
  <1>2. CASE UNCHANGED vars
    BY <1>2, DaemonUnchanged, AsideTracks DEF vars, others, daemonVars, DaemonKeeps
  <1> QED BY <1>1, <1>2, ClientTracks, GoroutineTracks, ReconcileTracks, DaemonTracks,
             RestartTracks DEF Next, Rest
-----------------------------------------------------------------------------
\* A metadata task and the real task that took over from it are never both
\* tracked, whichever of Start, Resume and the notification loop makes the
\* swap (ops.go 51-59, 107-121; events.go 73-88), across restarts and with
\* any failures of the daemon.
THEOREM SwapsAreWhole == Spec => []TrackedOnce
  <1>1. Init => TrackInv
    BY InitTracks
  <1>2. Inv /\ TrackInv /\ [Next]_vars => TrackInv'
    BY NextTracks
  <1>3. TrackInv => TrackedOnce
    BY DEF TrackInv
  <1> QED BY <1>1, <1>2, <1>3, Invariance, PTL DEF Spec
=============================================================================
