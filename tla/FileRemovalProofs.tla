------------------------- MODULE FileRemovalProofs -------------------------
(***************************************************************************)
(* Whatever rows, answers of aria2 and disk there are, and however many    *)
(* deletions run side by side and fail half way, nothing is removed that   *)
(* is not strictly below the target path.                                  *)
(*                                                                         *)
(* The invariant says so of all that has been removed and of all that a    *)
(* plan in work still means to remove.                                     *)
(***************************************************************************)
EXTENDS FileRemoval, SequenceTheorems, TLAPS

SafePaths == {p \in Paths : Safe(p)}

SafePlans == [unlink : Seq(SafePaths), sidecars : SUBSET SafePaths,
              prune : SUBSET SafePaths, root : Paths, owned : BOOLEAN]

RemovalInv ==
    /\ scene \in Scenes
    /\ files \subseteq Paths /\ dirs \subseteq Paths
    /\ frame \in [Deleters -> [d : Downloads \cup {NoDownload}, plan : SafePlans]]
    /\ StaysUnderBase

\* All below a path below the base is below the base.
LEMMA BelowSafe ==
    ASSUME NEW p \in SafePaths, NEW q \in Paths, q = p \/ Under(p, q)
    PROVE  Under(Base, q)
  BY BaseAssumption DEF SafePaths, Safe, Under, Paths

\* A file next to a path below the base is below the base.
LEMMA BesideSafe ==
    ASSUME NEW p \in SafePaths, NEW ext
    PROVE  Under(Base, Beside(p, ext))
  <1> DEFINE last == p[Len(p)] \o ext
             s    == Beside(p, ext)
  <1>1. p \in Seq(STRING) /\ Base \in Seq(STRING) /\ Len(Base) < Len(p)
    BY BaseAssumption DEF SafePaths, Safe, Under, Paths
  <1>2. s = [p EXCEPT ![Len(p)] = last]
    BY DEF Beside
  <1>3. s \in Seq(STRING \cup {last}) /\ Len(s) = Len(p)
    BY <1>1, <1>2
  <1>4. \A n \in 1..Len(Base) : s[n] = p[n]
    BY <1>1, <1>2
  <1> QED
    BY <1>1, <1>3, <1>4 DEF SafePaths, Safe, Under

\* The folders between a path and the base are below the base.
LEMMA ParentsSafe ==
    ASSUME NEW p \in SafePaths
    PROVE  Parents(p) \subseteq SafePaths
  <1>1. p \in Seq(STRING) /\ Base \in Seq(STRING) /\ Len(Base) < Len(p)
    BY BaseAssumption DEF SafePaths, Safe, Under, Paths
  <1>2. ASSUME NEW n \in Len(Base) + 1 .. Len(p) - 1
        PROVE  SubSeq(p, 1, n) \in SafePaths
    <2>1. /\ n \in Nat
          /\ SubSeq(p, 1, n) \in Seq(STRING)
          /\ Len(SubSeq(p, 1, n)) = n
          /\ \A m \in 1..n : SubSeq(p, 1, n)[m] = p[m]
      BY <1>1
    <2>2. \A m \in 1..Len(Base) : m \in 1..n /\ p[m] = Base[m]
      BY <1>1, <2>1 DEF SafePaths, Safe, Under
    <2>3. Under(Base, SubSeq(p, 1, n))
      BY <1>1, <2>1, <2>2 DEF Under
    <2> QED
      BY <2>1, <2>3 DEF SafePaths, Safe, Paths
  <1> QED
    BY <1>2 DEF Parents

\* The common folder of paths below the base is the base or below it.
LEMMA RootSafe ==
    ASSUME NEW paths \in SUBSET SafePaths
    PROVE  Root(paths) \in SafePaths \cup {Base}
  <1> DEFINE tops == {p[Len(Base) + 1] : p \in {q \in paths : Len(q) > Len(Base) + 1}}
  <1>1. CASE \E s \in tops : tops = {s}
    <2> DEFINE s == CHOOSE s \in tops : TRUE
    <2>1. s \in tops
      BY <1>1
    <2> HIDE DEF s
    <2>2. PICK p \in paths : Len(p) > Len(Base) + 1 /\ s = p[Len(Base) + 1]
      BY <2>1
    <2>3. p \in Seq(STRING) /\ Base \in Seq(STRING)
      BY BaseAssumption DEF SafePaths, Paths
    <2>4. s \in STRING
      BY <2>2, <2>3, ElementOfSeq, LenProperties
    <2>5. /\ Append(Base, s) \in Seq(STRING)
          /\ Len(Append(Base, s)) = Len(Base) + 1
          /\ \A n \in 1..Len(Base) : Append(Base, s)[n] = Base[n]
      BY <2>3, <2>4
    <2>6. Under(Base, Append(Base, s))
      BY <2>3, <2>5, LenProperties DEF Under
    <2>7. Append(Base, s) \in SafePaths
      BY <2>5, <2>6 DEF SafePaths, Safe, Paths
    <2>8. Root(paths) = Append(Base, s)
      BY <1>1 DEF Root, s
    <2> QED
      BY <2>7, <2>8
  <1>2. CASE ~ \E s \in tops : tops = {s}
    BY <1>2 DEF Root
  <1> QED
    BY <1>1, <1>2

\* A plan that is not refused removes what is below the base only.
LEMMA PlanSafe ==
    ASSUME NEW row \in Row, NEW told \in Told(row), ~Refused(row, told, Plan(row, told))
    PROVE  Plan(row, told) \in SafePlans
  <1> DEFINE targets == Targets(row, told)
             payload == [n \in DOMAIN targets |-> Normal(targets[n])]
             roots   == Roots(row)
             unlink  == payload \o roots
             root    == Root(ToSet(unlink))
             plan    == Plan(row, told)
             folders == UNION {Parents(p) : p \in ToSet(payload)}
  <1> HIDE DEF targets, payload, roots, unlink, root, plan, folders
  <1>1. targets \in Seq(Paths)
    <2>1. row.files \in Seq(Paths) /\ row.reported \in Seq(Paths)
      BY DEF Row
    <2>2. told \in Seq(Paths)
      <3>1. told = <<>> \/ told = row.reported
        BY DEF Told
      <3> QED
        BY <2>1, <3>1, EmptySeq
    <2>3. row.name \in Paths
      BY NamesAssumption DEF Row, Paths
    <2> QED
      BY <2>1, <2>2, <2>3 DEF targets, Targets
  <1>2. /\ payload \in Seq({payload[n] : n \in DOMAIN payload})
        /\ DOMAIN payload = DOMAIN targets
    BY <1>1 DEF payload
  <1>3. roots \in Seq(SafePaths)
    <2>1. Safe(Exact(row)) => Exact(row) \in SafePaths
      BY DEF SafePaths, Safe
    <2>2. TrimmedOwned(row) => Trimmed(row) \in SafePaths
      BY DEF TrimmedOwned, SafePaths, Safe
    <2> QED
      BY <2>1, <2>2 DEF roots, Roots
  <1>4. /\ plan.unlink = unlink
        /\ \A p \in plan.sidecars : p \in SafePaths
        /\ \A n \in DOMAIN targets : Safe(unlink[n])
    <2>1. plan.unlink = unlink
      BY DEF plan, Plan, unlink, payload, roots, targets
    <2> QED
      BY <2>1 DEF Refused, Strays, plan, targets, SafePaths, Safe
  <1>5. payload \in Seq(SafePaths)
    <2>1. roots \in Seq(SafePaths \cup {payload[n] : n \in DOMAIN payload})
      BY <1>3, SeqMonotonic
    <2>2. payload \in Seq(SafePaths \cup {payload[n] : n \in DOMAIN payload})
      BY <1>2, SeqMonotonic
    <2>3. \A n \in DOMAIN payload : unlink[n] = payload[n]
      BY <2>1, <2>2, ConcatProperties, LenProperties DEF unlink
    <2>4. \A n \in DOMAIN payload : payload[n] \in SafePaths
      BY <1>2, <1>4, <2>3 DEF SafePaths, Safe
    <2> QED
      BY <1>2, <2>4
  <1>6. unlink \in Seq(SafePaths)
    BY <1>3, <1>5 DEF unlink
  <1>7. root \in SafePaths \cup {Base}
    <2>1. ToSet(unlink) \subseteq SafePaths
      BY <1>6 DEF ToSet
    <2> QED
      BY <2>1, RootSafe DEF root
  <1>8. folders \subseteq SafePaths
    <2>1. ToSet(payload) \subseteq SafePaths
      BY <1>5 DEF ToSet
    <2> QED
      BY <2>1, ParentsSafe DEF folders
  <1> QED
    <2>1. plan = [unlink |-> unlink, sidecars |-> plan.sidecars, prune |-> plan.prune,
                  root |-> root, owned |-> plan.owned]
      BY DEF plan, Plan, unlink, root, payload, roots, targets
    <2>2. /\ plan.prune = ({root} \ {Base}) \cup folders
          /\ plan.owned \in BOOLEAN
      BY DEF plan, Plan, unlink, root, payload, roots, targets, folders
    <2>3. plan.prune \subseteq SafePaths
      BY <1>7, <1>8, <2>2
    <2>4. root \in Paths
      BY <1>7, BaseAssumption DEF SafePaths, Paths
    <2>5. plan \in SafePlans
      BY <1>4, <1>6, <2>1, <2>2, <2>3, <2>4 DEF SafePlans
    <2> QED
      BY <2>5 DEF plan

\* Initially nothing is removed and no plan is in work.
LEMMA InitSafe == Init => RemovalInv
  <1> SUFFICES ASSUME Init PROVE RemovalInv
    OBVIOUS
  <1>1. scene \in Scenes /\ files = scene.files /\ dirs = scene.dirs
    BY DEF Init
  <1>2. files \subseteq Paths /\ dirs \subseteq Paths
    BY <1>1, ScenesAssumption
  <1>3. StaysUnderBase
    BY <1>1 DEF StaysUnderBase, Lost
  <1>4. Idle \in [d : Downloads \cup {NoDownload}, plan : SafePlans]
    BY BaseAssumption, EmptySeq DEF Idle, NoPlan, SafePlans, Paths
  <1> QED
    BY <1>1, <1>2, <1>3, <1>4 DEF Init, RemovalInv

\* A step that takes away only what is below the base keeps the invariant.
LEMMA RemovalKeeps ==
    ASSUME RemovalInv, NEW gone, RemoveFromDisk(gone),
           \A q \in gone \cap (files \cup dirs) : Under(Base, q)
    PROVE  /\ files' \subseteq Paths /\ dirs' \subseteq Paths
           /\ UNCHANGED scene => StaysUnderBase'
  BY DEF RemovalInv, RemoveFromDisk, StaysUnderBase, Lost

\* Begin: a plan is taken up only if it is not refused.
LEMMA BeginSafe ==
    ASSUME RemovalInv, NEW w \in Deleters, NEW d \in Downloads, Begin(w, d)
    PROVE  RemovalInv'
  <1>1. scene.rows[d] \in Row
    BY ScenesAssumption DEF RemovalInv
  <1>2. PICK told \in Told(scene.rows[d]) :
          LET plan == Plan(scene.rows[d], told) IN
            IF Refused(scene.rows[d], told, plan) THEN UNCHANGED frame
            ELSE frame' = [frame EXCEPT ![w] = [d |-> d, plan |-> plan]]
    BY DEF Begin
  <1>3. frame' \in [Deleters -> [d : Downloads \cup {NoDownload}, plan : SafePlans]]
    <2>1. CASE Refused(scene.rows[d], told, Plan(scene.rows[d], told))
      BY <1>2, <2>1 DEF RemovalInv
    <2>2. CASE ~Refused(scene.rows[d], told, Plan(scene.rows[d], told))
      <3>1. Plan(scene.rows[d], told) \in SafePlans
        BY <1>1, <2>2, PlanSafe
      <3> QED
        BY <1>2, <2>2, <3>1 DEF RemovalInv
    <2> QED
      BY <2>1, <2>2
  <1>4. UNCHANGED <<scene, files, dirs>>
    BY DEF Begin
  <1> QED
    BY <1>3, <1>4 DEF RemovalInv, StaysUnderBase, Lost

\* A failed attempt leaves an idle deleter.
LEMMA FailSafe ==
    ASSUME RemovalInv, NEW w \in Deleters, Fail(w)
    PROVE  frame' \in [Deleters -> [d : Downloads \cup {NoDownload}, plan : SafePlans]]
  <1>1. Idle \in [d : Downloads \cup {NoDownload}, plan : SafePlans]
    BY BaseAssumption, EmptySeq DEF Idle, NoPlan, SafePlans, Paths
  <1> QED
    BY <1>1 DEF RemovalInv, Fail

\* RemoveAll takes a path of the plan and what is below it.
LEMMA UnlinkSafe ==
    ASSUME RemovalInv, NEW w \in Deleters, Unlink(w)
    PROVE  RemovalInv'
  <1> DEFINE unlink == frame[w].plan.unlink
             tree   == Tree(Head(unlink))
  <1>1. frame[w].plan \in SafePlans /\ unlink \in Seq(SafePaths) /\ unlink # <<>>
    BY DEF RemovalInv, SafePlans, Unlink, Todo
  <1>2. Head(unlink) \in SafePaths /\ Tail(unlink) \in Seq(SafePaths)
    BY <1>1
  <1>3. PICK left \in SUBSET tree :
          /\ RemoveFromDisk(tree \ left)
          /\ \/ Fail(w)
             \/ frame' = [frame EXCEPT ![w].plan.unlink = Tail(@)]
    <2>1. CASE Fail(w) /\ UNCHANGED <<files, dirs>>
      <3>1. RemoveFromDisk(tree \ tree)
        BY <2>1 DEF RemoveFromDisk
      <3> QED
        BY <2>1, <3>1
    <2>2. CASE \E left \in SUBSET tree :
                 /\ RemoveFromDisk(tree \ left)
                 /\ \/ Fail(w)
                    \/ frame' = [frame EXCEPT ![w].plan.unlink = Tail(@)]
      BY <2>2
    <2> QED
      BY <2>1, <2>2 DEF Unlink, Todo
  <1>4. \A q \in (tree \ left) \cap (files \cup dirs) : Under(Base, q)
    BY <1>2, BelowSafe DEF Tree, RemovalInv
  <1>5. frame' \in [Deleters -> [d : Downloads \cup {NoDownload}, plan : SafePlans]]
    <2>1. CASE Fail(w)
      BY <2>1, FailSafe
    <2>2. CASE frame' = [frame EXCEPT ![w].plan.unlink = Tail(@)]
      BY <1>1, <1>2, <2>2 DEF RemovalInv, SafePlans
    <2> QED
      BY <1>3, <2>1, <2>2
  <1> QED
    BY <1>3, <1>4, <1>5, RemovalKeeps DEF RemovalInv, Unlink

\* A sidecar of the plan is below the base.
LEMMA SidecarSafe ==
    ASSUME RemovalInv, NEW w \in Deleters, RemoveSidecar(w)
    PROVE  RemovalInv'
  <1>1. frame[w].plan \in SafePlans /\ frame[w].plan.sidecars \subseteq SafePaths
    BY DEF RemovalInv, SafePlans
  <1>2. PICK s \in frame[w].plan.sidecars :
          \/ /\ RemoveFromDisk({s})
             /\ frame' = [frame EXCEPT ![w].plan.sidecars = @ \ {s}]
          \/ Fail(w) /\ UNCHANGED <<files, dirs>>
    BY DEF RemoveSidecar, Todo
  <1>3. CASE /\ RemoveFromDisk({s})
             /\ frame' = [frame EXCEPT ![w].plan.sidecars = @ \ {s}]
    <2>1. Under(Base, s)
      BY <1>1 DEF SafePaths, Safe
    <2>2. frame' \in [Deleters -> [d : Downloads \cup {NoDownload}, plan : SafePlans]]
      BY <1>1, <1>3 DEF RemovalInv, SafePlans
    <2> QED
      BY <1>3, <2>1, <2>2, RemovalKeeps DEF RemovalInv, RemoveSidecar
  <1>4. CASE Fail(w) /\ UNCHANGED <<files, dirs>>
    BY <1>4, FailSafe DEF RemovalInv, RemoveSidecar, StaysUnderBase, Lost
  <1> QED
    BY <1>2, <1>3, <1>4

\* A folder of the plan and the root's sidecar are below the base.
LEMMA PruneSafe ==
    ASSUME RemovalInv, NEW w \in Deleters, Prune(w)
    PROVE  RemovalInv'
  <1>1. frame[w].plan \in SafePlans /\ frame[w].plan.prune \subseteq SafePaths
    BY DEF RemovalInv, SafePlans
  <1>2. PICK x \in frame[w].plan.prune :
          \/ /\ \/ \E gone \in SUBSET {Beside(x, ".aria2")} :
                     RemoveFromDisk({x} \cup {s \in gone : Removable(s)})
                \/ UNCHANGED <<files, dirs>>
             /\ frame' = [frame EXCEPT ![w].plan.prune = @ \ {x}]
          \/ Fail(w) /\ UNCHANGED <<files, dirs>>
    <2>1. \E y \in Deepest(frame[w].plan.prune) :
            \/ /\ \/ \E gone \in SUBSET {Beside(y, ".aria2")} :
                       RemoveFromDisk({y} \cup {s \in gone : Removable(s)})
                  \/ UNCHANGED <<files, dirs>>
               /\ frame' = [frame EXCEPT ![w].plan.prune = @ \ {y}]
            \/ Fail(w) /\ UNCHANGED <<files, dirs>>
      BY DEF Prune, Todo
    <2> QED
      BY <2>1 DEF Deepest
  <1>3. CASE frame' = [frame EXCEPT ![w].plan.prune = @ \ {x}]
    <2>1. frame' \in [Deleters -> [d : Downloads \cup {NoDownload}, plan : SafePlans]]
      BY <1>1, <1>3 DEF RemovalInv, SafePlans
    <2>2. ASSUME NEW gone \in SUBSET {Beside(x, ".aria2")},
                 RemoveFromDisk({x} \cup {s \in gone : Removable(s)})
          PROVE  RemovalInv'
      <3>1. Under(Base, x) /\ Under(Base, Beside(x, ".aria2"))
        BY <1>1, BesideSafe DEF SafePaths, Safe
      <3>2. \A q \in {x} \cup {s \in gone : Removable(s)} : Under(Base, q)
        BY <3>1
      <3> QED
        BY <2>1, <2>2, <3>2, RemovalKeeps DEF RemovalInv, Prune
    <2>3. CASE UNCHANGED <<files, dirs>>
      BY <2>1, <2>3 DEF RemovalInv, Prune, StaysUnderBase, Lost
    <2>4. CASE Fail(w) /\ UNCHANGED <<files, dirs>>
      BY <2>1, <2>4 DEF RemovalInv, Prune, StaysUnderBase, Lost
    <2> QED
      BY <1>2, <2>2, <2>3, <2>4
  <1>4. CASE Fail(w) /\ UNCHANGED <<files, dirs>>
    BY <1>4, FailSafe DEF RemovalInv, Prune, StaysUnderBase, Lost
  <1> QED
    BY <1>2, <1>3, <1>4

\* Every step keeps the invariant.
LEMMA StepSafe ==
    ASSUME RemovalInv, [Next]_vars
    PROVE  RemovalInv'
  <1>1. ASSUME NEW w \in Deleters, DeleteRow(w)
        PROVE  RemovalInv'
    <2>1. Idle \in [d : Downloads \cup {NoDownload}, plan : SafePlans]
      BY BaseAssumption, EmptySeq DEF Idle, NoPlan, SafePlans, Paths
    <2> QED
      BY <1>1, <2>1 DEF RemovalInv, DeleteRow, StaysUnderBase, Lost
  <1>2. CASE UNCHANGED vars
    BY <1>2 DEF RemovalInv, vars, StaysUnderBase, Lost
  <1> QED
    BY <1>1, <1>2, BeginSafe, UnlinkSafe, SidecarSafe, PruneSafe DEF Next, Rest

\* Delete with deleteFiles never removes the target path or anything outside
\* it (delete.go 63-75, 85-91, 231-235; README.md 76-77).
THEOREM NothingOutside == Spec => []StaysUnderBase
  <1>1. RemovalInv => StaysUnderBase
    BY DEF RemovalInv
  <1> QED
    BY <1>1, InitSafe, StepSafe, PTL DEF Spec
=============================================================================
