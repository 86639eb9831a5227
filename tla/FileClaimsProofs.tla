-------------------------- MODULE FileClaimsProofs --------------------------
(***************************************************************************)
(* What deletions remove and leave, for every row, answer of aria2 and     *)
(* disk and any number of deletions side by side: only what a deleted      *)
(* download can claim goes, what its row leads to is gone with the row,    *)
(* and no folder is left empty.                                            *)
(*                                                                         *)
(* Each of the three has an invariant that says of every plan in work what *)
(* it will still remove, and each step of the plan keeps it.  First come   *)
(* facts about filepath.Clean, about what a plan consists of, and that the *)
(* check of delete.go means of such paths what it says.                    *)
(***************************************************************************)
EXTENDS FileRemovalProofs, FiniteSetTheorems

\* Every nonempty set of natural numbers has a least element: what takes the
\* place of an induction theorem in the proofs about Clean.
LEMMA LeastNumber ==
    ASSUME NEW T \in SUBSET Nat, T # {}
    PROVE  \E m \in T : \A n \in T : m <= n
  <1> DEFINE R == StrictSubsetOrdering(Nat)
             F == FiniteSubsetsOf(Nat)
             U == {1..n : n \in T}
  <1>1. IsWellFoundedOn(R, F)
    BY FS_StrictSubsetOrderingWellFounded
  <1>2. U \subseteq F /\ U # {}
    <2>1. \A n \in T : (1..n) \subseteq Nat /\ IsFiniteSet(1..n)
      BY FS_Interval
    <2> QED
      BY <2>1 DEF FiniteSubsetsOf
  <1>3. PICK u \in U : \A v \in U : <<v, u>> \notin R
    <2> HIDE DEF R, F, U
    <2> QED
      BY <1>1, <1>2, WFMin
  <1>4. PICK m \in T : u = 1..m
    OBVIOUS
  <1>5. ASSUME NEW n \in T PROVE m <= n
    <2>1. ~(<<1..n, 1..m>> \in R)
      BY <1>3, <1>4
    <2>2. n < m => (1..n) \subseteq 1..m /\ m \in 1..m /\ m \notin 1..n
      OBVIOUS
    <2>3. n < m => <<1..n, 1..m>> \in R
      BY <2>2 DEF StrictSubsetOrdering
    <2> QED
      BY <2>1, <2>3
  <1> QED
    BY <1>5

\* Induction from 0 to N, for a set in place of a formula.
LEMMA UpwardsTo ==
    ASSUME NEW N \in Nat, NEW S, 0 \in S, \A n \in 1 .. N : n - 1 \in S => n \in S
    PROVE  \A n \in 0 .. N : n \in S
  <1> DEFINE T == (0 .. N) \ S
  <1> SUFFICES ASSUME T # {} PROVE FALSE
    OBVIOUS
  <1>1. PICK m \in T : \A n \in T : m <= n
    <2> HIDE DEF T
    <2>1. T \in SUBSET Nat
      BY DEF T
    <2> QED
      BY <2>1, LeastNumber
  <1>2. m # 0 /\ m \in 1 .. N /\ m - 1 \in 0 .. N /\ m - 1 \notin T
    BY <1>1
  <1> QED
    BY <1>1, <1>2

\* A name at the end leaves those before it in place.
LEMMA AppendName ==
    ASSUME NEW q \in Seq(STRING), NEW s \in STRING
    PROVE  /\ Append(q, s) \in Seq(STRING) /\ Len(Append(q, s)) = Len(q) + 1
           /\ \A n \in 1 .. Len(q) : Append(q, s)[n] = q[n]
           /\ Append(q, s)[Len(q) + 1] = s
  <1>1. Append(q, s) \in Seq(STRING) /\ Len(Append(q, s)) = Len(q) + 1
    BY AppendProperties
  <1>2. \A n \in 1 .. Len(q) : Append(q, s)[n] = q[n]
    BY AppendProperties
  <1>3. Append(q, s)[Len(q) + 1] = s
    BY AppendProperties
  <1> QED
    BY <1>1, <1>2, <1>3

\* A step of Clean yields a path that is at most one name longer.
LEMMA PushPath ==
    ASSUME NEW acc \in Paths, NEW name \in STRING
    PROVE  Push(acc, name) \in Paths /\ Len(Push(acc, name)) <= Len(acc) + 1
  <1>1. acc # <<>> => Front(acc) \in Paths /\ Len(Front(acc)) <= Len(acc)
    BY DEF Front, Paths
  <1>2. Append(acc, name) \in Paths /\ Len(Append(acc, name)) = Len(acc) + 1
    BY AppendName DEF Paths
  <1>3. Len(acc) \in Nat
    BY DEF Paths
  <1> QED
    BY <1>1, <1>2, <1>3 DEF Push

\* The recursive function of Clean exists: every prefix of p has one.
LEMMA CleanSteps ==
    ASSUME NEW p \in Paths
    PROVE  \E g \in [0 .. Len(p) -> Paths] :
             g = [n \in 0 .. Len(p) |-> IF n = 0 THEN <<>> ELSE Push(g[n - 1], p[n])]
  <1> DEFINE Steps(g, k) == g = [n \in 0 .. k |-> IF n = 0 THEN <<>> ELSE Push(g[n - 1], p[n])]
             Has(k) == \E g \in [0 .. k -> Paths] : Steps(g, k)
             S == {k \in 0 .. Len(p) : Has(k)}
  <1>1. Len(p) \in Nat /\ \A n \in 1 .. Len(p) : p[n] \in STRING
    BY DEF Paths
  <1>2. 0 \in S
    <2> DEFINE g == [n \in 0 .. 0 |-> <<>>]
    <2>1. g \in [0 .. 0 -> Paths]
      BY EmptySeq DEF Paths
    <2>2. Steps(g, 0)
      OBVIOUS
    <2>3. Has(0)
      BY <2>1, <2>2
    <2> QED
      BY <1>1, <2>3
  <1>3. ASSUME NEW m \in 1 .. Len(p), m - 1 \in S PROVE m \in S
    <2>1. PICK g \in [0 .. m - 1 -> Paths] : Steps(g, m - 1)
      BY <1>3
    <2> DEFINE h == [n \in 0 .. m |-> IF n = m THEN Push(g[m - 1], p[m]) ELSE g[n]]
    <2>2. Push(g[m - 1], p[m]) \in Paths
      <3>1. g[m - 1] \in Paths /\ p[m] \in STRING
        BY <1>1, <2>1
      <3> QED
        BY <3>1, PushPath
    <2>3. h \in [0 .. m -> Paths]
      BY <1>1, <2>1, <2>2
    <2>4. Steps(h, m)
      <3>1. \A n \in 0 .. m : n # m /\ n # 0 =>
              n \in 0 .. m - 1 /\ n - 1 \in 0 .. m - 1 /\ h[n] = g[n] /\ h[n - 1] = g[n - 1]
        BY <1>1
      <3>2. \A n \in 0 .. m : n # m /\ n # 0 => h[n] = Push(h[n - 1], p[n])
        BY <3>1, <2>1
      <3>3. h[m] = Push(h[m - 1], p[m]) /\ h[0] = <<>>
        BY <1>1, <2>1
      <3>4. \A n \in 0 .. m : h[n] = IF n = 0 THEN <<>> ELSE Push(h[n - 1], p[n])
        BY <3>2, <3>3
      <3> HIDE DEF h
      <3>5. h = [n \in 0 .. m |-> h[n]]
        BY <2>3
      <3> QED
        BY <3>4, <3>5
    <2>5. Has(m)
      BY <2>3, <2>4
    <2> QED
      BY <1>1, <2>5
  <1>4. \A n \in 0 .. Len(p) : n \in S
    <2> HIDE DEF S
    <2> QED
      BY <1>1, <1>2, <1>3, UpwardsTo
  <1>5. Has(Len(p))
    BY <1>1, <1>4
  <1> QED
    BY <1>5

\* The prefixes of p as Clean takes them, one name more each time.
LEMMA CleanRun ==
    ASSUME NEW p \in Paths
    PROVE  \E g \in [0 .. Len(p) -> Paths] :
             /\ g[0] = <<>> /\ Clean(p) = g[Len(p)]
             /\ \A n \in 1 .. Len(p) : g[n] = Push(g[n - 1], p[n])
  <1> DEFINE Steps(g) == g = [n \in 0 .. Len(p) |-> IF n = 0 THEN <<>> ELSE Push(g[n - 1], p[n])]
             upTo == CHOOSE g : Steps(g)
  <1>1. Len(p) \in Nat
    BY DEF Paths
  <1>2. Clean(p) = upTo[Len(p)]
    BY DEF Clean
  <1>3. PICK g \in [0 .. Len(p) -> Paths] : Steps(g)
    BY CleanSteps
  <1>4. Steps(upTo)
    BY <1>3
  <1> DEFINE Right == {n \in 0 .. Len(p) : upTo[n] = g[n]}
  <1>5. /\ upTo[0] = <<>> /\ g[0] = <<>>
        /\ \A n \in 1 .. Len(p) :
             upTo[n] = Push(upTo[n - 1], p[n]) /\ g[n] = Push(g[n - 1], p[n])
    <2>1. \A n \in 0 .. Len(p) : g[n] = IF n = 0 THEN <<>> ELSE Push(g[n - 1], p[n])
      BY <1>3
    <2>2. \A n \in 0 .. Len(p) : upTo[n] = IF n = 0 THEN <<>> ELSE Push(upTo[n - 1], p[n])
      <3> HIDE DEF upTo
      <3> QED
        BY <1>4
    <2> HIDE DEF upTo
    <2>3. 0 \in 0 .. Len(p) /\ \A n \in 1 .. Len(p) : n \in 0 .. Len(p) /\ n # 0
      BY <1>1
    <2> QED
      BY <2>1, <2>2, <2>3
  <1> HIDE DEF upTo
  <1>6. \A n \in 0 .. Len(p) : n \in Right
    <2>1. 0 \in Right
      BY <1>1, <1>5
    <2>2. \A n \in 1 .. Len(p) : n - 1 \in Right => n \in Right
      BY <1>1, <1>5
    <2> HIDE DEF Right
    <2> QED
      BY <1>1, <2>1, <2>2, UpwardsTo
  <1>7. Clean(p) = g[Len(p)]
    BY <1>1, <1>2, <1>6
  <1> QED
    BY <1>5, <1>7

\* filepath.Clean of a path is a path that is not longer.
LEMMA CleanPath ==
    ASSUME NEW p \in Paths
    PROVE  Clean(p) \in Paths /\ Len(Clean(p)) <= Len(p)
  <1>1. Len(p) \in Nat /\ \A n \in 1 .. Len(p) : p[n] \in STRING
    BY DEF Paths
  <1>2. PICK g \in [0 .. Len(p) -> Paths] :
             /\ g[0] = <<>> /\ Clean(p) = g[Len(p)]
             /\ \A n \in 1 .. Len(p) : g[n] = Push(g[n - 1], p[n])
    BY CleanRun
  <1> DEFINE S == {n \in 0 .. Len(p) : Len(g[n]) <= n}
  <1>3. 0 \in S
    BY <1>1, <1>2
  <1>4. ASSUME NEW n \in 1 .. Len(p), n - 1 \in S PROVE n \in S
    <2>1. n - 1 \in 0 .. Len(p) /\ n \in 0 .. Len(p) /\ Len(g[n - 1]) <= n - 1
      BY <1>1, <1>4
    <2>2. g[n - 1] \in Paths /\ g[n] \in Paths /\ p[n] \in STRING
      BY <1>1, <2>1
    <2>3. Len(g[n]) <= Len(g[n - 1]) + 1
      BY <1>2, <2>2, PushPath
    <2>4. Len(g[n]) \in Nat /\ Len(g[n - 1]) \in Nat
      BY <2>2 DEF Paths
    <2> QED
      BY <2>1, <2>3, <2>4
  <1>5. \A n \in 0 .. Len(p) : n \in S
    <2> HIDE DEF S
    <2> QED
      BY <1>1, <1>3, <1>4, UpwardsTo
  <1> QED
    BY <1>1, <1>2, <1>5

\* A clean path has no ".", a "/" only at the front and ".." only after "..".
Proper(q) ==
    \A k \in 1 .. Len(q) :
        /\ q[k] # "."
        /\ q[k] = "/" => k = 1
        /\ q[k] = ".." /\ k > 1 => q[k - 1] = ".."

\* A step of Clean keeps a path clean.
LEMMA PushProper ==
    ASSUME NEW acc \in Paths, NEW name \in STRING, Proper(acc)
    PROVE  Proper(Push(acc, name))
  <1>1. acc \in Seq(STRING) /\ Len(acc) \in Nat /\ (acc # <<>> => Len(acc) > 0)
    BY EmptySeq DEF Paths
  <1>2. acc # <<>> => /\ Len(Front(acc)) = Len(acc) - 1
                      /\ \A k \in 1 .. Len(acc) - 1 : Front(acc)[k] = acc[k]
    <2>1. \A k \in 1 .. Len(acc) - 1 : acc[k] \in STRING
      BY <1>1
    <2>2. Len(acc) - 1 \in Int /\ 1 \in Int
      BY <1>1
    <2>3. Len(Front(acc)) = IF 1 <= Len(acc) - 1 THEN Len(acc) - 1 - 1 + 1 ELSE 0
      BY <2>1, <2>2, SubSeqProperties DEF Front
    <2>4. \A k \in 1 .. Len(acc) - 1 - 1 + 1 : Front(acc)[k] = acc[1 + k - 1]
      BY <2>1, <2>2, SubSeqProperties DEF Front
    <2>5. acc # <<>> => Len(Front(acc)) = Len(acc) - 1
      <3> SUFFICES ASSUME acc # <<>> PROVE Len(Front(acc)) = Len(acc) - 1
        OBVIOUS
      <3>1. Len(acc) \in Nat /\ Len(acc) > 0
        BY <1>1
      <3>2. PICK n \in Nat : n = Len(acc)
        BY <3>1
      <3>3. Len(Front(acc)) = IF 1 <= n - 1 THEN n - 1 - 1 + 1 ELSE 0
        BY <2>3, <3>2
      <3> QED
        BY <3>1, <3>2, <3>3
    <2>6. ASSUME NEW k \in 1 .. Len(acc) - 1 PROVE Front(acc)[k] = acc[k]
      <3>1. k \in 1 .. Len(acc) - 1 - 1 + 1 /\ 1 + k - 1 = k
        BY <2>2
      <3> QED
        BY <2>4, <3>1
    <2> QED
      BY <2>5, <2>6
  <1>3. acc # <<>> => Proper(Front(acc))
    BY <1>1, <1>2 DEF Proper
  <1> DEFINE more == Append(acc, name)
  <1>4. /\ Len(more) = Len(acc) + 1 /\ more[Len(acc) + 1] = name
        /\ \A k \in 1 .. Len(acc) : more[k] = acc[k]
    <2>1. acc \in Seq(STRING)
      BY <1>1
    <2> QED
      BY <2>1, AppendName
  <1>5. ASSUME name # ".", name = "/" => acc = <<>>,
               name = ".." => acc = <<>> \/ Last(acc) = ".."
        PROVE  Proper(more)
    <2>1. acc = <<>> => Len(acc) = 0
      OBVIOUS
    <2>2. acc # <<>> => Last(acc) = acc[Len(acc)]
      BY DEF Last
    <2> SUFFICES ASSUME NEW k \in 1 .. Len(acc) + 1
                 PROVE  /\ more[k] # "."
                        /\ more[k] = "/" => k = 1
                        /\ more[k] = ".." /\ k > 1 => more[k - 1] = ".."
      BY <1>4 DEF Proper
    <2> HIDE DEF more
    <2>3. CASE k = Len(acc) + 1
      <3>1. /\ more[k] = name
            /\ k > 1 => Len(acc) \in 1 .. Len(acc) /\ k - 1 = Len(acc)
        <4>1. Len(acc) \in Nat
          BY <1>1
        <4>2. more[k] = name
          BY <1>4, <2>3
        <4> QED
          BY <4>1, <4>2, <2>3
      <3>3. k > 1 => acc # <<>> /\ more[k - 1] = acc[Len(acc)]
        BY <1>4, <2>1, <3>1
      <3>2. k # 1 => acc # <<>>
        BY <1>1, <2>1, <2>3
      <3> QED
        BY <1>5, <2>1, <2>2, <3>1, <3>2, <3>3
    <2>4. CASE k # Len(acc) + 1
      <3>1. k \in 1 .. Len(acc) /\ more[k] = acc[k]
        BY <1>1, <1>4, <2>4
      <3>2. k > 1 => k - 1 \in 1 .. Len(acc) /\ more[k - 1] = acc[k - 1]
        BY <1>1, <1>4, <3>1
      <3> QED
        BY <3>1, <3>2 DEF Proper
    <2> QED
      BY <2>3, <2>4
  <1> QED
    BY <1>3, <1>5 DEF Push

\* filepath.Clean makes every path clean.
LEMMA CleanProper ==
    ASSUME NEW p \in Paths
    PROVE  Proper(Clean(p))
  <1>1. Len(p) \in Nat /\ \A n \in 1 .. Len(p) : p[n] \in STRING
    BY DEF Paths
  <1>2. PICK g \in [0 .. Len(p) -> Paths] :
             /\ g[0] = <<>> /\ Clean(p) = g[Len(p)]
             /\ \A n \in 1 .. Len(p) : g[n] = Push(g[n - 1], p[n])
    BY CleanRun
  <1> DEFINE S == {n \in 0 .. Len(p) : Proper(g[n])}
  <1>3. 0 \in S
    BY <1>1, <1>2 DEF Proper
  <1>4. ASSUME NEW n \in 1 .. Len(p), n - 1 \in S PROVE n \in S
    <2>1. n - 1 \in 0 .. Len(p) /\ g[n - 1] \in Paths /\ Proper(g[n - 1]) /\ p[n] \in STRING
      BY <1>1, <1>4
    <2>2. Proper(Push(g[n - 1], p[n]))
      BY <2>1, PushProper
    <2>3. g[n] = Push(g[n - 1], p[n]) /\ n \in 0 .. Len(p)
      BY <1>1, <1>2
    <2> QED
      BY <2>2, <2>3
  <1>5. \A n \in 0 .. Len(p) : n \in S
    <2> HIDE DEF S
    <2> QED
      BY <1>1, <1>3, <1>4, UpwardsTo
  <1> QED
    BY <1>1, <1>2, <1>5

\* Cleaning a clean path changes nothing.
THEOREM CleanOnce ==
    ASSUME NEW q \in Paths, Proper(q)
    PROVE  Clean(q) = q
  <1>1. Len(q) \in Nat /\ q \in Seq(STRING) /\ \A n \in 1 .. Len(q) : q[n] \in STRING
    BY DEF Paths
  <1>2. PICK g \in [0 .. Len(q) -> Paths] :
             /\ g[0] = <<>> /\ Clean(q) = g[Len(q)]
             /\ \A n \in 1 .. Len(q) : g[n] = Push(g[n - 1], q[n])
    BY CleanRun
  <1> DEFINE S == {n \in 0 .. Len(q) : /\ Len(g[n]) = n
                                       /\ \A k \in 1 .. n : g[n][k] = q[k]}
  <1>3. 0 \in S
    BY <1>1, <1>2
  <1>4. ASSUME NEW n \in 1 .. Len(q), n - 1 \in S PROVE n \in S
    <2> DEFINE acc == g[n - 1]
    <2>1. /\ acc \in Seq(STRING) /\ Len(acc) = n - 1 /\ \A k \in 1 .. n - 1 : acc[k] = q[k]
          /\ q[n] \in STRING
      BY <1>1, <1>2, <1>4 DEF Paths
    <2>2. acc # <<>> => n > 1 /\ Last(acc) = q[n - 1]
      BY <1>1, <2>1 DEF Last
    <2>3. acc = <<>> => n = 1
      BY <1>1, <2>1
    <2>4. q[n] # "." /\ (q[n] = "/" => acc = <<>>)
      BY <1>1, <2>2 DEF Proper
    <2>5. q[n] = ".." => acc = <<>> \/ Last(acc) = ".."
      BY <1>1, <2>2 DEF Proper
    <2>6. g[n] = Append(acc, q[n])
      <3>1. g[n] = Push(acc, q[n])
        BY <1>2
      <3> HIDE DEF acc
      <3> QED
        BY <2>4, <2>5, <3>1 DEF Push
    <2>7. Len(g[n]) = n /\ \A k \in 1 .. n : g[n][k] = q[k]
      <3> HIDE DEF acc
      <3>1. /\ Len(Append(acc, q[n])) = n
            /\ \A k \in 1 .. n - 1 : Append(acc, q[n])[k] = acc[k]
            /\ Append(acc, q[n])[n] = q[n]
        BY <1>1, <2>1
      <3> QED
        BY <1>1, <2>1, <2>6, <3>1
    <2> QED
      BY <1>1, <2>7
  <1>5. \A n \in 0 .. Len(q) : n \in S
    <2> HIDE DEF S
    <2> QED
      BY <1>1, <1>3, <1>4, UpwardsTo
  <1>6. /\ Clean(q) \in Seq(STRING) /\ Len(Clean(q)) = Len(q)
        /\ \A k \in 1 .. Len(q) : Clean(q)[k] = q[k]
    BY <1>1, <1>2, <1>5 DEF Paths
  <1> QED
    BY <1>1, <1>6, SeqEqual

\* Where a row's name, its trimmed name and any listed path lead to is a path.
LEMMA NamePaths ==
    ASSUME NEW row \in Row
    PROVE  /\ Exact(row) \in Paths /\ Trimmed(row) \in Paths
           /\ PlainNames => /\ Len(Exact(row)) <= Len(Base) + 1
                            /\ Len(Trimmed(row)) <= Len(Base) + 1
  <1>1. row.name \in Names /\ Strip[row.name] \in Names
    BY StripAssumption DEF Row
  <1>2. ASSUME NEW name \in Names
        PROVE  /\ Clean(Base \o name) \in Paths
               /\ PlainNames => Len(Clean(Base \o name)) <= Len(Base) + 1
    <2>1. Base \in Paths /\ name \in Paths
      BY BaseAssumption, NamesAssumption DEF Paths
    <2>2. Base \o name \in Paths /\ Len(Base \o name) = Len(Base) + Len(name)
      BY <2>1 DEF Paths
    <2>3. Clean(Base \o name) \in Paths /\ Len(Clean(Base \o name)) <= Len(Base \o name)
      BY <2>2, CleanPath
    <2>4. PlainNames => Len(name) <= 1
      BY DEF PlainNames
    <2>5. Len(Base) \in Nat /\ Len(name) \in Nat /\ Len(Clean(Base \o name)) \in Nat
      BY <2>1, <2>3 DEF Paths
    <2> QED
      BY <2>2, <2>3, <2>4, <2>5
  <1> QED
    BY <1>1, <1>2 DEF Exact, Trimmed

\* A target is a path again, absolute or not.
LEMMA NormalPath ==
    ASSUME NEW p \in Paths
    PROVE  Normal(p) \in Paths
  <1>1. Base \o p \in Paths
    BY BaseAssumption DEF Paths
  <1>2. Clean(p) \in Paths /\ Clean(Base \o p) \in Paths
    BY <1>1, CleanPath
  <1> QED
    BY <1>2 DEF Normal

\* A plain name leads to the same path whether it is taken for a target or for
\* a name, or to one that is not below the base.
LEMMA PlainNameTarget ==
    ASSUME PlainNames, NEW row \in Row, Safe(Normal(row.name))
    PROVE  Normal(row.name) = Exact(row)
  <1>1. row.name \in Names /\ row.name \in Paths /\ Base \in Paths /\ Base # <<>>
    BY NamesAssumption, BaseAssumption DEF Row, Paths
  <1>2. ASSUME IsAbs(row.name) PROVE FALSE
    <2>1. Normal(row.name) \in Paths /\ Len(Normal(row.name)) <= Len(row.name)
      BY <1>1, <1>2, CleanPath DEF Normal
    <2>2. Len(row.name) <= 1 /\ Len(Base) >= 1
      BY <1>1, EmptySeq, LenProperties DEF PlainNames, Paths
    <2>3. Len(Base) < Len(Normal(row.name))
      BY DEF Safe, Under
    <2> QED
      BY <1>1, <2>1, <2>2, <2>3 DEF Paths
  <1> QED
    BY <1>2 DEF Normal, Exact

\* A control file below the base is next to a path below the base.
LEMMA BesideOnlySafe ==
    ASSUME NEW p \in Paths, NEW ext, Safe(Beside(p, ext))
    PROVE  p \in SafePaths
  <1> DEFINE s == Beside(p, ext)
  <1>1. /\ s \in Seq(STRING) /\ p \in Seq(STRING) /\ Base \in Seq(STRING)
        /\ Under(Base, s)
    BY BaseAssumption DEF Safe, Paths
  <1>2. DOMAIN s = DOMAIN p /\ \A n \in DOMAIN p : n # Len(p) => s[n] = p[n]
    BY DEF Beside
  <1>3. Len(s) = Len(p)
    <2> HIDE DEF s
    <2> QED
      BY <1>1, <1>2, LenProperties
  <1>4. Len(Base) \in Nat /\ Len(p) \in Nat /\ Len(Base) < Len(p)
    BY <1>1, <1>3 DEF Under
  <1>5. \A n \in 1..Len(Base) : n \in DOMAIN p /\ n # Len(p) /\ s[n] = Base[n]
    BY <1>1, <1>4 DEF Under
  <1>6. \A n \in 1..Len(Base) : p[n] = Base[n]
    <2> HIDE DEF s
    <2> QED
      BY <1>2, <1>5
  <1> QED
    BY <1>1, <1>4, <1>6 DEF SafePaths, Safe, Under, Paths

\* What a path below the base has above it are its parents.
LEMMA ParentsAll ==
    ASSUME NEW p \in SafePaths, NEW x \in Paths, Under(Base, x), Under(x, p)
    PROVE  x \in Parents(p)
  <1>1. /\ p \in Seq(STRING) /\ x \in Seq(STRING) /\ Base \in Seq(STRING)
        /\ Len(Base) < Len(x) /\ Len(x) < Len(p)
        /\ \A n \in 1..Len(x) : p[n] = x[n]
    BY BaseAssumption DEF SafePaths, Under, Paths
  <1>2. Len(x) \in Len(Base) + 1 .. Len(p) - 1
    BY <1>1
  <1>3. SubSeq(p, 1, Len(x)) = x
    <2>1. /\ SubSeq(p, 1, Len(x)) \in Seq(STRING)
          /\ Len(SubSeq(p, 1, Len(x))) = Len(x)
          /\ \A n \in 1..Len(x) : SubSeq(p, 1, Len(x))[n] = p[n]
      BY <1>1
    <2> QED
      BY <1>1, <2>1, SeqEqual
  <1> QED
    BY <1>2, <1>3 DEF Parents

\* A folder to prune for p is above p.
LEMMA ParentsUnder ==
    ASSUME NEW p \in SafePaths, NEW x \in Parents(p)
    PROVE  Under(x, p)
  <1>1. p \in Seq(STRING) /\ Base \in Seq(STRING)
    BY BaseAssumption DEF SafePaths, Paths
  <1>2. PICK n \in Len(Base) + 1 .. Len(p) - 1 : x = SubSeq(p, 1, n)
    BY DEF Parents
  <1>3. n \in Nat /\ Len(x) = n /\ n < Len(p) /\ \A m \in 1..n : x[m] = p[m]
    BY <1>1, <1>2
  <1> QED
    BY <1>3 DEF Under

\* Prefixes of prefixes are prefixes.
LEMMA UnderTransitive ==
    ASSUME NEW p \in Paths, NEW q \in Paths, NEW r \in Paths, Under(p, q), Under(q, r)
    PROVE  Under(p, r)
  BY DEF Under, Paths

\* The first path of a plan goes, the others stay.
LEMMA TailSet ==
    ASSUME NEW S, NEW s \in Seq(S), s # <<>>
    PROVE  ToSet(s) = {Head(s)} \cup ToSet(Tail(s))
  <1>1. /\ Len(s) \in Nat /\ Len(s) >= 1 /\ Head(s) = s[1]
        /\ Tail(s) \in Seq(S) /\ Len(Tail(s)) = Len(s) - 1
        /\ \A n \in 1 .. Len(s) - 1 : Tail(s)[n] = s[n + 1]
        /\ DOMAIN s = 1..Len(s) /\ DOMAIN Tail(s) = 1 .. Len(s) - 1
    BY HeadTailProperties, LenProperties, EmptySeq
  <1>2. ASSUME NEW n \in 1..Len(s) PROVE s[n] \in {Head(s)} \cup ToSet(Tail(s))
    <2>1. n # 1 => n - 1 \in 1 .. Len(s) - 1 /\ Tail(s)[n - 1] = s[n]
      BY <1>1
    <2> QED
      BY <1>1, <2>1 DEF ToSet
  <1>3. ASSUME NEW n \in 1 .. Len(s) - 1 PROVE Tail(s)[n] \in ToSet(s)
    <2>1. n + 1 \in 1 .. Len(s) /\ Tail(s)[n] = s[n + 1]
      BY <1>1
    <2>2. n + 1 \in DOMAIN s
      BY <1>1, <2>1
    <2> QED
      BY <2>1, <2>2 DEF ToSet
  <1>4. Head(s) \in ToSet(s)
    BY <1>1 DEF ToSet
  <1>5. /\ ToSet(s) = {s[n] : n \in 1..Len(s)}
        /\ ToSet(Tail(s)) = {Tail(s)[n] : n \in 1 .. Len(s) - 1}
    BY <1>1 DEF ToSet
  <1> QED
    BY <1>2, <1>3, <1>4, <1>5

\* The folder that holds all files is the base or above one of them.
LEMMA RootAbove ==
    ASSUME NEW paths \in SUBSET SafePaths, Root(paths) # Base
    PROVE  /\ Root(paths) \in SafePaths /\ Len(Root(paths)) = Len(Base) + 1
           /\ \E p \in paths : Under(Root(paths), p)
  <1> DEFINE tops == {p[Len(Base) + 1] : p \in {q \in paths : Len(q) > Len(Base) + 1}}
             s    == CHOOSE s \in tops : TRUE
  <1>1. (\E t \in tops : tops = {t}) /\ Root(paths) = Append(Base, s)
    BY DEF Root
  <1>2. s \in tops
    BY <1>1
  <1> HIDE DEF s
  <1>3. PICK p \in paths : Len(p) > Len(Base) + 1 /\ s = p[Len(Base) + 1]
    BY <1>2
  <1>4. /\ p \in Seq(STRING) /\ Base \in Seq(STRING) /\ Len(Base) \in Nat
        /\ \A n \in 1..Len(Base) : p[n] = Base[n]
    BY BaseAssumption DEF SafePaths, Safe, Under, Paths
  <1>5. s \in STRING
    BY <1>3, <1>4, ElementOfSeq, LenProperties
  <1>6. /\ Len(Append(Base, s)) = Len(Base) + 1
        /\ \A n \in 1 .. Len(Base) : Append(Base, s)[n] = Base[n]
        /\ Append(Base, s)[Len(Base) + 1] = s
    BY <1>4, <1>5, AppendName
  <1>7. Under(Append(Base, s), p)
    BY <1>3, <1>4, <1>6 DEF Under
  <1>8. Root(paths) \in SafePaths
    BY RootSafe
  <1> QED
    BY <1>1, <1>3, <1>6, <1>7, <1>8

\* The targets in their normal form, and the names that are the download's.
Payload(row, told) ==
    [n \in DOMAIN Targets(row, told) |-> Normal(Targets(row, told)[n])]

Own(row) ==
    (IF row.name # <<>> THEN {Exact(row)} ELSE {})
        \cup (IF TrimmedOwned(row) THEN {Trimmed(row)} ELSE {})

\* Whatever aria2 tells, the targets and what they lead to are lists of paths.
LEMMA TargetPaths ==
    ASSUME NEW row \in Row, NEW told \in Told(row)
    PROVE  Targets(row, told) \in Seq(Paths) /\ Payload(row, told) \in Seq(Paths)
  <1>1. Targets(row, told) \in Seq(Paths)
    <2>1. row.files \in Seq(Paths) /\ row.reported \in Seq(Paths) /\ row.name \in Paths
      BY NamesAssumption DEF Row, Paths
    <2>2. told \in Seq(Paths)
      <3>1. told = <<>> \/ told = row.reported
        BY DEF Told
      <3> QED
        BY <2>1, <3>1, EmptySeq
    <2> QED
      BY <2>1, <2>2 DEF Targets
  <1>2. \A n \in DOMAIN Targets(row, told) : Normal(Targets(row, told)[n]) \in Paths
    BY <1>1, NormalPath
  <1> QED
    BY <1>1, <1>2 DEF Payload

\* What a plan that is not refused consists of.
LEMMA PlanParts ==
    ASSUME NEW row \in Row, NEW told \in Told(row),
           NEW plan, plan = Plan(row, told), ~Refused(row, told, plan)
    PROVE  /\ plan \in SafePlans
           /\ ToSet(plan.unlink) = ToSet(Payload(row, told)) \cup Own(row)
           /\ plan.sidecars =
                (IF told # <<>> \/ row.files # <<>>
                 THEN {Beside(p, ".aria2") : p \in ToSet(Payload(row, told))} ELSE {})
                \cup UNION {Around(p, row) : p \in Own(row)}
           /\ plan.root = Root(ToSet(plan.unlink)) /\ plan.owned = (plan.root \in Own(row))
           /\ plan.prune = ({plan.root} \ {Base})
                             \cup UNION {Parents(p) : p \in ToSet(Payload(row, told))}
  <1>1. plan \in SafePlans
    BY PlanSafe
  <1>2. /\ plan.unlink = Payload(row, told) \o Roots(row)
        /\ plan.sidecars =
             (IF told # <<>> \/ row.files # <<>>
              THEN {Beside(p, ".aria2") : p \in ToSet(Payload(row, told))} ELSE {})
             \cup UNION {Around(p, row) : p \in Own(row)}
        /\ plan.root = Root(ToSet(plan.unlink)) /\ plan.owned = (plan.root \in Own(row))
        /\ plan.prune = ({plan.root} \ {Base})
                          \cup UNION {Parents(p) : p \in ToSet(Payload(row, told))}
    BY DEF Plan, Payload, Own
  <1>3. \A p \in Own(row) : Safe(p)
    <2>1. \A p \in Own(row) : Beside(p, ".aria2") \in plan.sidecars
      BY <1>2 DEF Around
    <2>2. \A p \in Own(row) : Safe(Beside(p, ".aria2")) /\ p \in Paths
      BY <2>1, NamePaths DEF Refused, Own
    <2> QED
      BY <2>2, BesideOnlySafe DEF SafePaths
  <1>4. Roots(row) \in Seq(Paths) /\ ToSet(Roots(row)) = Own(row)
    <2> DEFINE exact == Exact(row)
               trimmed == Trimmed(row)
    <2>1. exact \in Paths /\ trimmed \in Paths
      BY NamePaths
    <2> HIDE DEF exact, trimmed
    <2>2. row.name # <<>> => Safe(exact)
      BY <1>3 DEF Own, exact
    <2>3. /\ Roots(row) = (IF row.name # <<>> /\ Safe(exact) THEN <<exact>> ELSE <<>>)
                           \o (IF TrimmedOwned(row) THEN <<trimmed>> ELSE <<>>)
          /\ Own(row) = (IF row.name # <<>> THEN {exact} ELSE {})
                          \cup (IF TrimmedOwned(row) THEN {trimmed} ELSE {})
      BY DEF Roots, Own, exact, trimmed
    <2>4. CASE row.name # <<>> /\ TrimmedOwned(row)
      <3>1. Roots(row) = <<exact>> \o <<trimmed>> /\ Own(row) = {exact, trimmed}
        BY <2>2, <2>3, <2>4
      <3>2. /\ Roots(row) \in Seq(Paths) /\ Len(Roots(row)) = 2
            /\ Roots(row)[1] = exact /\ Roots(row)[2] = trimmed
        BY <2>1, <3>1
      <3>3. DOMAIN Roots(row) = {1, 2}
        BY <3>2, LenProperties
      <3> QED
        BY <3>1, <3>2, <3>3 DEF ToSet
    <2>5. CASE row.name # <<>> /\ ~TrimmedOwned(row)
      <3>1. Roots(row) = <<exact>> \o <<>> /\ Own(row) = {exact}
        BY <2>2, <2>3, <2>5
      <3>2. Roots(row) = <<exact>>
        BY <2>1, <3>1
      <3> QED
        BY <2>1, <3>1, <3>2 DEF ToSet
    <2>6. CASE row.name = <<>> /\ TrimmedOwned(row)
      <3>1. Roots(row) = <<>> \o <<trimmed>> /\ Own(row) = {trimmed}
        BY <2>3, <2>6
      <3>2. Roots(row) = <<trimmed>>
        BY <2>1, <3>1
      <3> QED
        BY <2>1, <3>1, <3>2 DEF ToSet
    <2>7. CASE row.name = <<>> /\ ~TrimmedOwned(row)
      <3>1. Roots(row) = <<>> \o <<>> /\ Own(row) = {}
        BY <2>3, <2>7
      <3>2. Roots(row) = <<>>
        BY <3>1
      <3> QED
        BY <2>1, <3>1, <3>2, EmptySeq DEF ToSet
    <2> QED
      BY <2>4, <2>5, <2>6, <2>7
  <1>5. Payload(row, told) \in Seq(Paths)
    BY TargetPaths
  <1>6. ToSet(plan.unlink) = ToSet(Payload(row, told)) \cup ToSet(Roots(row))
    <2> DEFINE pre == Payload(row, told)
               post == Roots(row)
               all == plan.unlink
    <2>1. pre \in Seq(Paths) /\ post \in Seq(Paths) /\ all = pre \o post
      BY <1>2, <1>4, <1>5
    <2> HIDE DEF pre, post, all
    <2>2. /\ all \in Seq(Paths) /\ Len(all) = Len(pre) + Len(post)
          /\ \A n \in 1..Len(pre) : all[n] = pre[n]
          /\ \A n \in Len(pre) + 1 .. Len(pre) + Len(post) : all[n] = post[n - Len(pre)]
          /\ \A n \in 1..Len(post) :
               n + Len(pre) \in Len(pre) + 1 .. Len(pre) + Len(post) /\ all[n + Len(pre)] = post[n]
      BY <2>1
    <2>3. /\ DOMAIN pre = 1..Len(pre) /\ DOMAIN post = 1..Len(post)
          /\ DOMAIN all = 1 .. Len(pre) + Len(post)
          /\ Len(pre) \in Nat /\ Len(post) \in Nat
      BY <2>1, <2>2, LenProperties
    <2>4. ASSUME NEW n \in DOMAIN all PROVE all[n] \in ToSet(pre) \cup ToSet(post)
      <3>1. n \in 1..Len(pre) \/ n - Len(pre) \in 1..Len(post)
        BY <2>3
      <3> QED
        BY <2>2, <2>3, <3>1 DEF ToSet
    <2>5. ASSUME NEW n \in DOMAIN pre PROVE pre[n] \in ToSet(all)
      BY <2>2, <2>3 DEF ToSet
    <2>6. ASSUME NEW n \in DOMAIN post PROVE post[n] \in ToSet(all)
      <3>1. n + Len(pre) \in DOMAIN all
        BY <2>3
      <3> QED
        BY <2>2, <2>3, <3>1 DEF ToSet
    <2>7. ToSet(all) = ToSet(pre) \cup ToSet(post)
      BY <2>4, <2>5, <2>6 DEF ToSet
    <2> QED
      BY <2>7 DEF pre, post, all
  <1> QED
    BY <1>1, <1>2, <1>4, <1>6

\* What is above a control file is above the file next to it.
LEMMA BesideUnder ==
    ASSUME NEW p \in SafePaths, NEW ext, NEW x \in Paths, Under(x, Beside(p, ext))
    PROVE  Under(x, p)
  <1> DEFINE last == p[Len(p)] \o ext
             s    == Beside(p, ext)
  <1>1. /\ p \in Seq(STRING) /\ x \in Seq(STRING) /\ Len(p) \in Nat /\ Len(x) \in Nat
        /\ Base \in Seq(STRING) /\ Len(Base) < Len(p)
    BY BaseAssumption DEF SafePaths, Safe, Under, Paths
  <1>2. s = [p EXCEPT ![Len(p)] = last]
    BY DEF Beside
  <1>3. s \in Seq(STRING \cup {last}) /\ Len(s) = Len(p)
    BY <1>1, <1>2
  <1>4. \A n \in 1..Len(p) : n # Len(p) => s[n] = p[n]
    BY <1>1, <1>2
  <1>5. Len(x) < Len(p) /\ \A n \in 1..Len(x) : s[n] = x[n]
    BY <1>3 DEF Under
  <1>6. \A n \in 1..Len(x) : n \in 1..Len(p) /\ n # Len(p)
    BY <1>1, <1>5
  <1>7. \A n \in 1..Len(x) : p[n] = x[n]
    <2> HIDE DEF s
    <2> QED
      BY <1>4, <1>5, <1>6
  <1> QED
    BY <1>5, <1>7 DEF Under

\* No name of the path is "." or "..": what it says is where it leads.
Straight(q) == \A k \in 1 .. Len(q) : q[k] \notin {".", ".."}

\* What is above a straight path is straight, and clean if that is.
LEMMA PrefixStraight ==
    ASSUME NEW x \in Paths, NEW p \in Paths, Under(x, p), Straight(p)
    PROVE  Straight(x) /\ (Proper(p) => Proper(x))
  <1>1. Len(x) \in Nat /\ Len(p) \in Nat /\ Len(x) < Len(p) /\ \A k \in 1..Len(x) : p[k] = x[k]
    BY DEF Under, Paths
  <1>2. Straight(x)
    BY <1>1 DEF Straight
  <1>3. ASSUME Proper(p), NEW k \in 1..Len(x)
        PROVE  /\ x[k] # "." /\ x[k] # ".."
               /\ x[k] = "/" => k = 1
    BY <1>1, <1>2, <1>3 DEF Proper, Straight
  <1> QED
    BY <1>2, <1>3 DEF Proper

\* isSafe (delete.go 63-75) compares names and asks no file system.  That is
\* enough for a clean path: it begins like the target path, so it has no ".."
\* that could lead out again, if the target path itself does not begin with one.
THEOREM SafeIsBelow ==
    ASSUME Base[1] # "..", NEW q \in Paths, Proper(q), Safe(q)
    PROVE  Straight(q)
  <1>1. Len(q) \in Nat /\ Len(Base) \in Nat /\ Len(Base) > 0
    BY BaseAssumption, EmptySeq DEF Paths
  <1>2. Len(q) > 0 /\ q[1] = Base[1]
    BY <1>1 DEF Safe, Under
  <1> DEFINE S == {n \in 0 .. Len(q) : n = 0 \/ q[n] # ".."}
  <1>3. ASSUME NEW n \in 1 .. Len(q), n - 1 \in S PROVE n \in S
    <2>1. CASE n = 1
      BY <1>1, <1>2, <2>1
    <2>2. CASE n # 1
      <3>1. n > 1 /\ n - 1 # 0
        BY <1>1, <2>2
      <3>2. q[n - 1] # ".."
        BY <1>3, <3>1
      <3> QED
        BY <1>1, <3>1, <3>2 DEF Proper
    <2> QED
      BY <2>1, <2>2
  <1>4. \A n \in 0 .. Len(q) : n \in S
    <2>1. 0 \in S
      BY <1>1
    <2> HIDE DEF S
    <2> QED
      BY <1>1, <1>3, <2>1, UpwardsTo
  <1>5. \A k \in 1 .. Len(q) : k \in 0 .. Len(q) /\ k # 0
    BY <1>1
  <1> QED
    BY <1>4, <1>5 DEF Proper, Straight

\* Targets and names are cleaned before anything is derived from them.
LEMMA NormalProper ==
    ASSUME NEW row \in Row, NEW told \in Told(row)
    PROVE  \A p \in ToSet(Payload(row, told)) \cup Own(row) : Proper(p)
  <1>1. ASSUME NEW p \in Paths PROVE Proper(Normal(p))
    <2>1. Base \o p \in Paths
      BY BaseAssumption DEF Paths
    <2> QED
      BY <2>1, CleanProper DEF Normal
  <1>2. \A n \in DOMAIN Targets(row, told) : Targets(row, told)[n] \in Paths
    BY TargetPaths
  <1>3. \A p \in ToSet(Payload(row, told)) : Proper(p)
    BY <1>1, <1>2 DEF Payload, ToSet
  <1>4. Proper(Exact(row)) /\ Proper(Trimmed(row))
    <2>1. row.name \in Names /\ Strip[row.name] \in Names
      BY StripAssumption DEF Row
    <2>2. Base \o row.name \in Paths /\ Base \o Strip[row.name] \in Paths
      BY <2>1, BaseAssumption, NamesAssumption DEF Paths
    <2> QED
      BY <2>2, CleanProper DEF Exact, Trimmed
  <1> QED
    BY <1>3, <1>4 DEF Own

\* Every path that Delete unlinks or prunes, and every folder it removes a
\* sidecar from, is free of "." and ".." in a plan that is not refused, so that
\* what begins like the target path lies below it (delete.go 84-91, 229-237,
\* 266-277), if the target path itself does not begin with "..".  A folder to
\* prune is clean already when Delete cleans it once more (delete.go 272).
THEOREM PlansGoStraight ==
    ASSUME Base[1] # "..", NEW row \in Row, NEW told \in Told(row),
           NEW plan, plan = Plan(row, told), ~Refused(row, told, plan)
    PROVE  /\ \A p \in ToSet(plan.unlink) \cup plan.prune : Straight(p)
           /\ \A s \in plan.sidecars : \A x \in Paths : Under(x, s) => Straight(x)
           /\ \A x \in plan.prune : Clean(x) = x
  <1>1. /\ plan \in SafePlans
        /\ ToSet(plan.unlink) = ToSet(Payload(row, told)) \cup Own(row)
        /\ plan.sidecars \subseteq {Beside(p, ".aria2") : p \in ToSet(plan.unlink)}
                                     \cup UNION {Around(p, row) : p \in ToSet(plan.unlink)}
        /\ plan.root = Root(ToSet(plan.unlink))
        /\ plan.prune \subseteq ({plan.root} \ {Base})
                                  \cup UNION {Parents(p) : p \in ToSet(plan.unlink)}
    BY PlanParts
  <1>2. ToSet(plan.unlink) \in SUBSET SafePaths /\ plan.prune \subseteq SafePaths
    <2>1. plan.unlink \in Seq(SafePaths) /\ plan.prune \subseteq SafePaths
      BY <1>1 DEF SafePlans
    <2> QED
      BY <2>1 DEF ToSet
  <1>3. \A p \in ToSet(plan.unlink) : Straight(p) /\ Proper(p)
    BY <1>1, <1>2, NormalProper, SafeIsBelow DEF SafePaths
  <1>4. ASSUME NEW x \in plan.prune PROVE Straight(x) /\ Proper(x)
    <2>1. x \in Paths /\ \A p \in ToSet(plan.unlink) : p \in Paths
      BY <1>2 DEF SafePaths
    <2>2. CASE x = plan.root /\ x # Base
      <3>1. \E p \in ToSet(plan.unlink) : Under(x, p)
        BY <1>1, <1>2, <2>2, RootAbove
      <3> QED
        BY <1>3, <2>1, <3>1, PrefixStraight
    <2>3. ASSUME NEW p \in ToSet(plan.unlink), x \in Parents(p)
          PROVE  Straight(x) /\ Proper(x)
      <3>1. Under(x, p)
        BY <1>2, <2>3, ParentsUnder
      <3> QED
        BY <1>3, <2>1, <3>1, PrefixStraight
    <2> QED
      BY <1>1, <2>2, <2>3
  <1>5. ASSUME NEW s \in plan.sidecars, NEW x \in Paths, Under(x, s) PROVE Straight(x)
    <2>1. PICK p \in ToSet(plan.unlink), ext \in {".aria2", ".torrent"} : s = Beside(p, ext)
      BY <1>1 DEF Around
    <2>2. Under(x, p) /\ p \in SafePaths
      BY <1>2, <1>5, <2>1, BesideUnder
    <2> QED
      BY <1>3, <2>2, PrefixStraight DEF SafePaths
  <1>6. \A x \in plan.prune : x \in Paths
    BY <1>2 DEF SafePaths
  <1> QED
    BY <1>3, <1>4, <1>5, <1>6, CleanOnce
-----------------------------------------------------------------------------
(***************************************************************************)
(* Only what a download can claim is removed.                              *)
(***************************************************************************)

Shrinks == files \subseteq scene.files /\ dirs \subseteq scene.dirs

\* Whatever a plan removes next is claimed by the row.  A folder to prune is
\* no file, or one of the paths to unlink is below it and its removal fails.
ProvenPlan(row, plan) ==
    /\ ToSet(plan.unlink) \subseteq Claims(row)
    /\ \A s \in plan.sidecars : \E c \in Claims(row) : s \in Around(c, row)
    /\ \A x \in plan.prune \cap files : \E p \in ToSet(plan.unlink) : Under(x, p)
    /\ plan.owned => plan.root \in Claims(row)

ProvenFrame(w) ==
    \/ frame[w] = Idle
    \/ /\ frame[w].d \in Downloads
       /\ tries[frame[w].d] < MaxTries
       /\ ProvenPlan(scene.rows[frame[w].d], frame[w].plan)

ProvenInv ==
    /\ RemovalInv
    /\ Shrinks
    /\ tries \in [Downloads -> 0 .. MaxTries]
    /\ \A w \in Deleters : ProvenFrame(w)
    /\ OnlyProven

\* The proof of a trimmed name is not lost by looking at the disk earlier.
LEMMA ProofBefore ==
    ASSUME NEW row \in Row, Shrinks, Proof(row, files, dirs)
    PROVE  Proof(row, scene.files, scene.dirs)
  <1> DEFINE t     == Trimmed(row)
             names == {Last(row.files[n]) : n \in DOMAIN row.files}
             now   == {Last(q) : q \in {f \in files : f = t \/ Under(t, f)}}
             once  == {Last(q) : q \in {f \in scene.files : f = t \/ Under(t, f)}}
  <1>1. CASE Beside(t, ".aria2") \in files \cup dirs
    BY <1>1 DEF Proof, Shrinks
  <1>2. CASE Cardinality(names \cap now) >= 2
    <2>1. IsFiniteSet(names)
      <3> DEFINE S == 1 .. Len(row.files)
                 f == [n \in S |-> Last(row.files[n])]
      <3>1. row.files \in Seq(Paths)
        BY DEF Row
      <3>2. DOMAIN row.files = S /\ Len(row.files) \in Nat
        BY <3>1, LenProperties
      <3>3. f \in Surjection(S, names)
        BY <3>2 DEF Surjection
      <3>4. IsFiniteSet(S)
        <4>1. 1 \in Int /\ Len(row.files) \in Int
          BY <3>2
        <4> QED
          BY <4>1, FS_Interval
      <3> QED
        BY <3>3, <3>4, FS_Surjection DEF ExistsSurjection
    <2>2. (names \cap now) \subseteq (names \cap once)
      BY DEF Shrinks
    <2> HIDE DEF names, now, once
    <2>3. IsFiniteSet(names \cap once)
      BY <2>1, FS_Subset
    <2>4. /\ Cardinality(names \cap now) <= Cardinality(names \cap once)
          /\ IsFiniteSet(names \cap now)
      BY <2>2, <2>3, FS_Subset
    <2>5. Cardinality(names \cap now) \in Nat /\ Cardinality(names \cap once) \in Nat
      BY <2>3, <2>4, FS_CardinalityType
    <2>6. Cardinality(names \cap once) >= 2
      BY <1>2, <2>4, <2>5
    <2> QED
      BY <2>6 DEF Proof, names, once
  <1> QED
    BY <1>1, <1>2 DEF Proof

\* What a plan removes as the download's own has been claimed.
LEMMA OwnClaimed ==
    ASSUME NEW row \in Row, Shrinks
    PROVE  Own(row) \subseteq Claims(row)
  <1>1. row.name # <<>> => Exact(row) \in Claims(row)
    BY DEF Claims, RowClaims
  <1>2. TrimmedOwned(row) => Trimmed(row) \in Claims(row)
    BY ProofBefore DEF TrimmedOwned, Claims
  <1> QED
    BY <1>1, <1>2 DEF Own

\* What the targets lead to is claimed by the row, be it aria2, the files or the
\* name they come from.
LEMMA PayloadClaimed ==
    ASSUME PlainNames, NEW row \in Row, NEW told \in Told(row),
           ToSet(Payload(row, told)) \subseteq SafePaths
    PROVE  ToSet(Payload(row, told)) \subseteq Claims(row)
  <1> DEFINE targets == Targets(row, told)
  <1>1. /\ ToSet(Payload(row, told)) = {Normal(targets[n]) : n \in DOMAIN targets}
        /\ told = <<>> \/ told = row.reported
    BY DEF Payload, ToSet, Told
  <1>2. CASE told # <<>>
    <2>1. targets = row.reported
      BY <1>1, <1>2 DEF Targets
    <2> QED
      BY <1>1, <2>1 DEF Claims
  <1>3. CASE told = <<>> /\ row.files # <<>>
    <2>1. targets = row.files
      BY <1>3 DEF Targets
    <2> QED
      BY <1>1, <2>1 DEF Claims, RowClaims
  <1>4. CASE told = <<>> /\ row.files = <<>> /\ row.name # <<>>
    <2>1. targets = <<row.name>>
      BY <1>4 DEF Targets
    <2>2. ToSet(Payload(row, told)) = {Normal(row.name)}
      BY <1>1, <2>1
    <2>3. Normal(row.name) = Exact(row)
      BY <2>2, PlainNameTarget DEF SafePaths
    <2> QED
      BY <1>4, <2>2, <2>3 DEF Claims, RowClaims
  <1>5. CASE told = <<>> /\ row.files = <<>> /\ row.name = <<>>
    <2>1. targets = <<>>
      BY <1>5 DEF Targets
    <2> QED
      BY <1>1, <2>1
  <1> QED
    BY <1>2, <1>3, <1>4, <1>5

\* A plan that is not refused removes only what its row claims.
LEMMA PlanProven ==
    ASSUME PlainNames, Shrinks, NEW row \in Row, NEW told \in Told(row),
           NEW plan, plan = Plan(row, told), ~Refused(row, told, plan)
    PROVE  ProvenPlan(row, plan)
  <1>1. /\ plan \in SafePlans
        /\ ToSet(plan.unlink) = ToSet(Payload(row, told)) \cup Own(row)
        /\ plan.sidecars =
             (IF told # <<>> \/ row.files # <<>>
              THEN {Beside(p, ".aria2") : p \in ToSet(Payload(row, told))} ELSE {})
             \cup UNION {Around(p, row) : p \in Own(row)}
        /\ plan.root = Root(ToSet(plan.unlink)) /\ plan.owned = (plan.root \in Own(row))
        /\ plan.prune = ({plan.root} \ {Base})
                          \cup UNION {Parents(p) : p \in ToSet(Payload(row, told))}
    BY PlanParts
  <1>2. ToSet(plan.unlink) \subseteq SafePaths
    BY <1>1 DEF SafePlans, ToSet
  <1>3. ToSet(Payload(row, told)) \subseteq Claims(row) /\ Own(row) \subseteq Claims(row)
    BY <1>1, <1>2, PayloadClaimed, OwnClaimed
  <1>4. ASSUME NEW s \in plan.sidecars PROVE \E c \in Claims(row) : s \in Around(c, row)
    BY <1>1, <1>3 DEF Around
  <1>5. ASSUME NEW x \in plan.prune PROVE \E p \in ToSet(plan.unlink) : Under(x, p)
    <2>1. CASE \E p \in ToSet(Payload(row, told)) : x \in Parents(p)
      BY <1>1, <1>2, <2>1, ParentsUnder
    <2>2. CASE x = plan.root /\ x # Base
      <3> DEFINE paths == ToSet(plan.unlink)
      <3>1. paths \in SUBSET SafePaths /\ Root(paths) # Base /\ x = Root(paths)
        BY <1>1, <1>2, <2>2
      <3> HIDE DEF paths
      <3>2. \E p \in paths : Under(x, p)
        BY <3>1, RootAbove
      <3> QED
        BY <3>2 DEF paths
    <2> QED
      BY <1>1, <2>1, <2>2
  <1> QED
    BY <1>1, <1>3, <1>4, <1>5 DEF ProvenPlan

\* A deleter at work has an attempt that is about a download.
LEMMA BusyFrame ==
    ASSUME NEW w \in Deleters, ProvenFrame(w),
           \/ Todo(w).unlink # <<>> \/ Todo(w).sidecars # {} \/ Todo(w).prune # {}
    PROVE  /\ frame[w].d \in Downloads /\ tries[frame[w].d] < MaxTries
           /\ ProvenPlan(scene.rows[frame[w].d], frame[w].plan)
  BY DEF ProvenFrame, Todo, Idle, NoPlan

\* What a step by one deleter has to show.
LEMMA ProvenStep ==
    ASSUME ProvenInv, RemovalInv', UNCHANGED scene, files' \subseteq files, dirs' \subseteq dirs,
           tries' \in [Downloads -> 0 .. MaxTries], \A d \in Downloads : tries'[d] <= tries[d],
           NEW w \in Deleters, ProvenFrame(w)',
           \A v \in Deleters : v # w => frame'[v] = frame[v],
           \A q \in files \ files' : \E d \in Downloads :
              /\ tries[d] < MaxTries
              /\ \E c \in Claims(scene.rows[d]) : Covers(c, scene.rows[d], q)
    PROVE  ProvenInv'
  <1>1. \A d \in Downloads : tries[d] < MaxTries => tries'[d] < MaxTries
    BY TriesAssumption DEF ProvenInv
  <1>2. \A row : Claims(row)' = Claims(row)
    BY DEF Claims
  <1>3. Shrinks'
    BY DEF ProvenInv, Shrinks
  <1>4. ASSUME NEW v \in Deleters, v # w PROVE ProvenFrame(v)'
    <2>1. ProvenFrame(v) /\ frame'[v] = frame[v]
      BY <1>4 DEF ProvenInv
    <2>2. CASE frame[v] = Idle
      BY <2>1, <2>2 DEF ProvenFrame, Idle, NoPlan
    <2>3. CASE frame[v] # Idle
      <3>1. PICK d, row, plan : d = frame[v].d /\ row = scene.rows[d] /\ plan = frame[v].plan
        OBVIOUS
      <3>2. d \in Downloads /\ tries[d] < MaxTries /\ ProvenPlan(row, plan)
        BY <2>1, <2>3, <3>1 DEF ProvenFrame
      <3>3. d = frame'[v].d /\ row = scene'.rows[d] /\ plan = frame'[v].plan
        BY <2>1, <3>1
      <3>4. ProvenPlan(row, plan)'
        BY <1>2, <3>2 DEF ProvenPlan
      <3> QED
        BY <1>1, <3>2, <3>3, <3>4 DEF ProvenFrame
    <2> QED
      BY <2>2, <2>3
  <1>5. OnlyProven'
    <2>1. ASSUME NEW q \in scene.files \ files'
          PROVE  \E d \in Downloads :
                    tries[d] < MaxTries /\ q \in Covered(Claims(scene.rows[d]), scene.rows[d])
      <3>1. CASE q \in files
        BY <2>1, <3>1 DEF Covered
      <3>2. CASE q \notin files
        BY <2>1, <3>2 DEF ProvenInv, OnlyProven
      <3> QED
        BY <3>1, <3>2
    <2>2. \A claims, row : Covered(claims, row)' = Covered(claims, row)
      BY DEF Covered
    <2>3. \A row : Covered(Claims(row), row)' = Covered(Claims(row), row)
      BY <1>2 DEF Covered
    <2> QED
      BY <1>1, <2>1, <2>3 DEF OnlyProven
  <1> QED
    BY <1>3, <1>4, <1>5 DEF ProvenInv

\* A plan is made of the download's claims, and its attempt has been counted.
LEMMA ProvenBegin ==
    ASSUME PlainNames, ProvenInv, RemovalInv', NEW w \in Deleters, NEW d \in Downloads, Begin(w, d)
    PROVE  ProvenInv'
  <1> DEFINE row == scene.rows[d]
  <1>1. row \in Row
    BY ScenesAssumption DEF ProvenInv, RemovalInv
  <1>2. PICK told \in Told(row) :
          IF Refused(row, told, Plan(row, told)) THEN UNCHANGED frame
          ELSE frame' = [frame EXCEPT ![w] = [d |-> d, plan |-> Plan(row, told)]]
    BY DEF Begin
  <1>3. /\ tries' = [tries EXCEPT ![d] = @ - 1] /\ tries[d] > 0 /\ frame[w] = Idle
        /\ UNCHANGED <<scene, files, dirs>>
    BY DEF Begin
  <1>4. /\ tries' \in [Downloads -> 0 .. MaxTries] /\ tries'[d] < MaxTries
        /\ \A e \in Downloads : tries'[e] <= tries[e]
    BY <1>3, TriesAssumption DEF ProvenInv
  <1>5. ProvenFrame(w)'
    <2>1. CASE Refused(row, told, Plan(row, told))
      BY <1>2, <1>3, <2>1 DEF ProvenFrame, Idle, NoPlan
    <2>2. CASE ~Refused(row, told, Plan(row, told))
      <3>1. PICK plan : plan = Plan(row, told)
        OBVIOUS
      <3>2. ProvenPlan(row, plan)
        BY <1>1, <2>2, <3>1, PlanProven DEF ProvenInv
      <3>3. frame'[w] = [d |-> d, plan |-> plan]
        BY <1>2, <2>2, <3>1 DEF ProvenInv, RemovalInv
      <3>4. \A r : Claims(r)' = Claims(r)
        BY <1>3 DEF Claims
      <3>5. frame'[w].d = d /\ frame'[w].plan = plan /\ scene'.rows[d] = row
        BY <1>3, <3>3
      <3>6. ProvenPlan(row, plan)'
        BY <1>3, <3>2, <3>4 DEF ProvenPlan
      <3> QED
        BY <1>4, <3>5, <3>6 DEF ProvenFrame
    <2> QED
      BY <2>1, <2>2
  <1>6. \A v \in Deleters : v # w => frame'[v] = frame[v]
    BY <1>2 DEF ProvenInv, RemovalInv
  <1> QED
    BY <1>3, <1>4, <1>5, <1>6, ProvenStep

\* A deleter that has given up, or is done, has no plan.
LEMMA ProvenIdle ==
    ASSUME ProvenInv, NEW w \in Deleters, frame' = [frame EXCEPT ![w] = Idle]
    PROVE  ProvenFrame(w)' /\ \A v \in Deleters : v # w => frame'[v] = frame[v]
  BY DEF ProvenFrame, Idle, NoPlan, ProvenInv, RemovalInv

\* RemoveAll takes a claimed path and what is below it.
LEMMA ProvenUnlink ==
    ASSUME ProvenInv, RemovalInv', NEW w \in Deleters, Unlink(w)
    PROVE  ProvenInv'
  <1> DEFINE d    == frame[w].d
             row  == scene.rows[d]
             plan == frame[w].plan
             path == Head(plan.unlink)
             tree == Tree(path)
  <1>1. plan.unlink # <<>> /\ UNCHANGED <<scene, tries>>
    BY DEF Unlink, Todo
  <1>2. d \in Downloads /\ tries[d] < MaxTries /\ ProvenPlan(row, plan)
    BY <1>1, BusyFrame DEF Todo, ProvenInv
  <1>3. /\ plan.unlink \in Seq(SafePaths)
        /\ frame[w] \in [d : Downloads \cup {NoDownload}, plan : SafePlans]
    BY DEF ProvenInv, RemovalInv, SafePlans
  <1>4. ToSet(plan.unlink) = {path} \cup ToSet(Tail(plan.unlink))
    BY <1>1, <1>3, TailSet
  <1>5. tries' \in [Downloads -> 0 .. MaxTries] /\ \A e \in Downloads : tries'[e] <= tries[e]
    BY <1>1, TriesAssumption DEF ProvenInv
  <1>6. CASE Fail(w) /\ UNCHANGED <<files, dirs>>
    BY <1>1, <1>5, <1>6, ProvenIdle, ProvenStep DEF Fail
  <1>7. ASSUME ~Blocked(path), NEW left \in SUBSET tree, RemoveFromDisk(tree \ left),
               \/ Fail(w)
               \/ frame' = [frame EXCEPT ![w].plan.unlink = Tail(@)]
        PROVE  ProvenInv'
    <2>1. files' \subseteq files /\ dirs' \subseteq dirs
      BY <1>7 DEF RemoveFromDisk
    <2>2. ASSUME NEW q \in files \ files'
          PROVE  \E c \in Claims(row) : Covers(c, row, q)
      <3>1. q = path \/ Under(path, q)
        BY <1>7 DEF RemoveFromDisk, Tree
      <3>2. path \in Claims(row)
        BY <1>2, <1>4 DEF ProvenPlan
      <3> QED
        BY <3>1, <3>2 DEF Covers
    <2>3. CASE Fail(w)
      BY <1>1, <1>2, <1>5, <2>1, <2>2, <2>3, ProvenIdle, ProvenStep DEF Fail
    <2>4. CASE frame' = [frame EXCEPT ![w].plan.unlink = Tail(@)]
      <3>1. /\ frame'[w].d = d /\ frame'[w].plan.unlink = Tail(plan.unlink)
            /\ frame'[w].plan.sidecars = plan.sidecars /\ frame'[w].plan.prune = plan.prune
            /\ frame'[w].plan.root = plan.root /\ frame'[w].plan.owned = plan.owned
            /\ \A v \in Deleters : v # w => frame'[v] = frame[v]
        BY <1>3, <2>4 DEF SafePlans, ProvenInv, RemovalInv
      <3>2. \A r : Claims(r)' = Claims(r)
        BY <1>1 DEF Claims
      <3>3. \A x \in plan.prune \cap files' : \E p \in ToSet(Tail(plan.unlink)) : Under(x, p)
        BY <1>2, <1>4, <1>7, <2>1 DEF ProvenPlan, Blocked
      <3>4. ToSet(Tail(plan.unlink)) \subseteq Claims(row)
        BY <1>2, <1>4 DEF ProvenPlan
      <3>5. PICK new : new = frame'[w].plan
        OBVIOUS
      <3>6. ProvenPlan(row, new)'
        BY <1>1, <1>2, <3>1, <3>2, <3>3, <3>4, <3>5 DEF ProvenPlan
      <3>7. ProvenFrame(w)'
        BY <1>1, <1>2, <3>1, <3>5, <3>6 DEF ProvenFrame
      <3> QED
        BY <1>1, <1>2, <1>5, <2>1, <2>2, <3>1, <3>7, ProvenStep
    <2> QED
      BY <1>7, <2>3, <2>4
  <1> QED
    BY <1>6, <1>7 DEF Unlink, Todo

\* A sidecar is next to a claimed path.
LEMMA ProvenSidecar ==
    ASSUME ProvenInv, RemovalInv', NEW w \in Deleters, RemoveSidecar(w)
    PROVE  ProvenInv'
  <1> DEFINE d    == frame[w].d
             row  == scene.rows[d]
             plan == frame[w].plan
  <1>1. plan.sidecars # {} /\ UNCHANGED <<scene, tries>>
    BY DEF RemoveSidecar, Todo
  <1>2. d \in Downloads /\ tries[d] < MaxTries /\ ProvenPlan(row, plan)
    BY <1>1, BusyFrame DEF Todo, ProvenInv
  <1>3. frame[w] \in [d : Downloads \cup {NoDownload}, plan : SafePlans]
    BY DEF ProvenInv, RemovalInv
  <1>4. tries' \in [Downloads -> 0 .. MaxTries] /\ \A e \in Downloads : tries'[e] <= tries[e]
    BY <1>1, TriesAssumption DEF ProvenInv
  <1>5. CASE Fail(w) /\ UNCHANGED <<files, dirs>>
    BY <1>1, <1>4, <1>5, ProvenIdle, ProvenStep DEF Fail
  <1>6. ASSUME NEW s \in plan.sidecars, RemoveFromDisk({s}),
               frame' = [frame EXCEPT ![w].plan.sidecars = @ \ {s}]
        PROVE  ProvenInv'
    <2>1. files' \subseteq files /\ dirs' \subseteq dirs
      BY <1>6 DEF RemoveFromDisk
    <2>2. ASSUME NEW q \in files \ files'
          PROVE  \E c \in Claims(row) : Covers(c, row, q)
      BY <1>2, <1>6 DEF RemoveFromDisk, ProvenPlan, Covers
    <2>3. /\ frame'[w].d = d /\ frame'[w].plan.unlink = plan.unlink
          /\ frame'[w].plan.sidecars = plan.sidecars \ {s} /\ frame'[w].plan.prune = plan.prune
          /\ frame'[w].plan.root = plan.root /\ frame'[w].plan.owned = plan.owned
          /\ \A v \in Deleters : v # w => frame'[v] = frame[v]
      BY <1>3, <1>6 DEF SafePlans, ProvenInv, RemovalInv
    <2>4. \A r : Claims(r)' = Claims(r)
      BY <1>1 DEF Claims
    <2>5. PICK new : new = frame'[w].plan
      OBVIOUS
    <2>6. ProvenPlan(row, new)'
      BY <1>1, <1>2, <2>1, <2>3, <2>4, <2>5 DEF ProvenPlan
    <2>7. ProvenFrame(w)'
      BY <1>1, <1>2, <2>3, <2>5, <2>6 DEF ProvenFrame
    <2> QED
      BY <1>1, <1>2, <1>4, <2>1, <2>2, <2>3, <2>7, ProvenStep
  <1> QED
    BY <1>5, <1>6 DEF RemoveSidecar, Todo

\* What is pruned is no file: unlinking a path below a file would have failed.
LEMMA ProvenPrune ==
    ASSUME ProvenInv, RemovalInv', NEW w \in Deleters, Prune(w)
    PROVE  ProvenInv'
  <1> DEFINE d    == frame[w].d
             row  == scene.rows[d]
             plan == frame[w].plan
  <1>1. /\ plan.unlink = <<>> /\ plan.prune # {} /\ UNCHANGED <<scene, tries>>
    BY DEF Prune, Todo, Deepest
  <1>2. d \in Downloads /\ tries[d] < MaxTries /\ ProvenPlan(row, plan)
    BY <1>1, BusyFrame DEF Todo, ProvenInv
  <1>3. frame[w] \in [d : Downloads \cup {NoDownload}, plan : SafePlans]
    BY DEF ProvenInv, RemovalInv
  <1>4. tries' \in [Downloads -> 0 .. MaxTries] /\ \A e \in Downloads : tries'[e] <= tries[e]
    BY <1>1, TriesAssumption DEF ProvenInv
  <1>5. CASE Fail(w) /\ UNCHANGED <<files, dirs>>
    BY <1>1, <1>4, <1>5, ProvenIdle, ProvenStep DEF Fail
  <1>6. ASSUME NEW x \in plan.prune,
               frame' = [frame EXCEPT ![w].plan.prune = @ \ {x}],
               \/ \E gone \in SUBSET (IF plan.owned /\ x = plan.root
                                      THEN {Beside(x, ".aria2")} ELSE {}) :
                    RemoveFromDisk({x} \cup {s \in gone : Removable(s)})
               \/ UNCHANGED <<files, dirs>>
        PROVE  ProvenInv'
    <2>1. files' \subseteq files /\ dirs' \subseteq dirs
      BY <1>6 DEF RemoveFromDisk
    <2>2. ASSUME NEW q \in files \ files'
          PROVE  \E c \in Claims(row) : Covers(c, row, q)
      <3>1. q = x \/ (plan.owned /\ x = plan.root /\ q = Beside(x, ".aria2"))
        BY <1>6 DEF RemoveFromDisk
      <3>2. q # x
        BY <1>1, <1>2 DEF ProvenPlan, ToSet
      <3>3. x \in Claims(row) /\ q \in Around(x, row)
        BY <1>2, <3>1, <3>2 DEF ProvenPlan, Around
      <3> QED
        BY <3>3 DEF Covers
    <2>3. /\ frame'[w].d = d /\ frame'[w].plan.unlink = plan.unlink
          /\ frame'[w].plan.sidecars = plan.sidecars /\ frame'[w].plan.prune = plan.prune \ {x}
          /\ frame'[w].plan.root = plan.root /\ frame'[w].plan.owned = plan.owned
          /\ \A v \in Deleters : v # w => frame'[v] = frame[v]
      BY <1>3, <1>6 DEF SafePlans, ProvenInv, RemovalInv
    <2>4. \A r : Claims(r)' = Claims(r)
      BY <1>1 DEF Claims
    <2>5. PICK new : new = frame'[w].plan
      OBVIOUS
    <2>6. ProvenPlan(row, new)'
      BY <1>1, <1>2, <2>1, <2>3, <2>4, <2>5 DEF ProvenPlan
    <2>7. ProvenFrame(w)'
      BY <1>1, <1>2, <2>3, <2>5, <2>6 DEF ProvenFrame
    <2> QED
      BY <1>1, <1>2, <1>4, <2>1, <2>2, <2>3, <2>7, ProvenStep
  <1> QED
    BY <1>5, <1>6 DEF Prune, Todo, Deepest

\* Deleting the row removes nothing from disk.
LEMMA ProvenDeleteRow ==
    ASSUME ProvenInv, RemovalInv', NEW w \in Deleters, DeleteRow(w)
    PROVE  ProvenInv'
  <1>1. tries' \in [Downloads -> 0 .. MaxTries] /\ \A e \in Downloads : tries'[e] <= tries[e]
    BY TriesAssumption DEF DeleteRow, ProvenInv
  <1> QED
    BY <1>1, ProvenIdle, ProvenStep DEF DeleteRow

\* Nothing is lost to begin with.
LEMMA ProvenInit == Init => ProvenInv
  <1> SUFFICES ASSUME Init PROVE ProvenInv
    OBVIOUS
  <1>1. tries \in [Downloads -> 0 .. MaxTries]
    BY TriesAssumption DEF Init
  <1>2. Shrinks /\ OnlyProven /\ \A w \in Deleters : ProvenFrame(w)
    BY DEF Init, Shrinks, OnlyProven, ProvenFrame
  <1> QED
    BY <1>1, <1>2, InitSafe DEF ProvenInv

\* Every step keeps the invariant.
LEMMA ProvenNext ==
    ASSUME PlainNames, ProvenInv, [Next]_vars
    PROVE  ProvenInv'
  <1>1. RemovalInv'
    BY StepSafe DEF ProvenInv
  <1>2. CASE UNCHANGED vars
    <2>1. UNCHANGED <<scene, files, dirs, stored, frame, tries, failed>>
      BY <1>2 DEF vars
    <2>2. Shrinks' = Shrinks
      BY <2>1 DEF Shrinks
    <2>3. \A row : Claims(row)' = Claims(row)
      BY <2>1 DEF Claims
    <2>4. OnlyProven' = OnlyProven
      BY <2>1, <2>3 DEF OnlyProven, Covered
    <2>5. \A w \in Deleters : ProvenFrame(w)' = ProvenFrame(w)
      BY <2>1, <2>3 DEF ProvenFrame, ProvenPlan
    <2> QED
      BY <1>1, <2>1, <2>2, <2>4, <2>5 DEF ProvenInv
  <1> QED
    BY <1>1, <1>2, ProvenBegin, ProvenUnlink, ProvenSidecar, ProvenPrune, ProvenDeleteRow
       DEF Next, Rest

\* Every file that deletions remove, however many run side by side, fail or are
\* repeated, is led to by the reported files, the row or the proven trimmed
\* name of a download somebody deletes (docs/operations.md 33-46), provided
\* that names are single names.  A folder is pruned only once no file stands
\* in its place.
THEOREM OnlyTheDownloads ==
    ASSUME PlainNames
    PROVE  Spec => []OnlyProven
  <1>1. ProvenInv => OnlyProven
    BY DEF ProvenInv
  <1>2. ProvenInv /\ [Next]_vars => ProvenInv'
    BY ProvenNext
  <1> QED
    BY <1>1, <1>2, ProvenInit, PTL DEF Spec
-----------------------------------------------------------------------------
(***************************************************************************)
(* What a deleted row leads to is gone.                                    *)
(***************************************************************************)

\* The row of d leads to everything d wrote.
LeadsToAll(d) ==
    scene.wrote[d] \subseteq Covered(RowClaims(scene.rows[d]), scene.rows[d])

\* The plan will still remove q.
Pending(plan, q) ==
    \/ q \in plan.sidecars
    \/ \E p \in ToSet(plan.unlink) : q = p \/ Under(p, q)

GoneFrame(w) ==
    \/ frame[w] = Idle
    \/ /\ frame[w].d \in Downloads
       /\ LeadsToAll(frame[w].d) =>
            \A q \in scene.wrote[frame[w].d] \cap files : Pending(frame[w].plan, q)

GoneInv == RemovalInv /\ (\A w \in Deleters : GoneFrame(w)) /\ DeletedMeansGone

\* Whatever aria2 answers, a plan that is not refused removes what the row leads
\* to, if row and report agree.
LEMMA PlanComplete ==
    ASSUME ReportsAgree, NEW s \in Scenes, NEW d \in Downloads,
           NEW row, row = s.rows[d], NEW told \in Told(row),
           NEW plan, plan = Plan(row, told), ~Refused(row, told, plan),
           NEW q \in s.wrote[d], \E c \in RowClaims(row) : Covers(c, row, q)
    PROVE  Pending(plan, q)
  <1>1. row \in Row
    BY ScenesAssumption
  <1>2. /\ ToSet(plan.unlink) = ToSet(Payload(row, told)) \cup Own(row)
        /\ plan.sidecars =
             (IF told # <<>> \/ row.files # <<>>
              THEN {Beside(p, ".aria2") : p \in ToSet(Payload(row, told))} ELSE {})
             \cup UNION {Around(p, row) : p \in Own(row)}
    BY <1>1, PlanParts
  <1>3. CASE row.name # <<>> /\ Covers(Exact(row), row, q)
    <2>1. Exact(row) \in Own(row)
      BY <1>3 DEF Own
    <2> QED
      BY <1>2, <1>3, <2>1 DEF Covers, Pending
  <1>4. CASE Listed(row.files, q) /\ (row.reported = <<>> \/ Listed(row.reported, q))
    <2>1. Listed(Targets(row, told), q) /\ (told # <<>> \/ row.files # <<>>)
      <3>1. told = <<>> \/ told = row.reported
        BY DEF Told
      <3>2. row.files # <<>>
        BY <1>4 DEF Listed
      <3> QED
        BY <1>4, <3>1, <3>2 DEF Targets
    <2>2. PICK n \in DOMAIN Targets(row, told) :
            LET p == Normal(Targets(row, told)[n]) IN
              q = p \/ Under(p, q) \/ q = Beside(p, ".aria2")
      BY <2>1 DEF Listed
    <2>3. Normal(Targets(row, told)[n]) \in ToSet(Payload(row, told))
      BY DEF Payload, ToSet
    <2> QED
      BY <1>2, <2>1, <2>2, <2>3 DEF Pending
  <1> QED
    BY <1>3, <1>4 DEF ReportsAgree

\* What a step by one deleter has to show.
LEMMA GoneStep ==
    ASSUME GoneInv, RemovalInv', UNCHANGED <<scene, stored>>, files' \subseteq files,
           NEW w \in Deleters, GoneFrame(w)',
           \A v \in Deleters : v # w => frame'[v] = frame[v]
    PROVE  GoneInv'
  <1>1. \A d : LeadsToAll(d)' <=> LeadsToAll(d)
    BY DEF LeadsToAll, Covered
  <1>2. ASSUME NEW v \in Deleters, v # w PROVE GoneFrame(v)'
    <2>1. PICK f : f = frame[v]
      OBVIOUS
    <2>2. frame'[v] = f
      BY <1>2, <2>1
    <2>3. GoneFrame(v)
      BY DEF GoneInv
    <2>4. CASE f = Idle
      BY <2>2, <2>4 DEF GoneFrame, Idle, NoPlan
    <2>5. CASE f # Idle
      <3>1. f.d \in Downloads
        BY <2>1, <2>3, <2>5 DEF GoneFrame
      <3>2. LeadsToAll(f.d) => \A q \in scene.wrote[f.d] \cap files : Pending(f.plan, q)
        BY <2>1, <2>3, <2>5 DEF GoneFrame
      <3>3. LeadsToAll(f.d)' => \A q \in scene'.wrote[f.d] \cap files' : Pending(f.plan, q)
        BY <1>1, <3>2
      <3>4. LeadsToAll(frame[v].d)' <=> LeadsToAll(f.d)'
        BY <2>2 DEF LeadsToAll
      <3> QED
        BY <2>2, <3>1, <3>3, <3>4 DEF GoneFrame
    <2> QED
      BY <2>4, <2>5
  <1>3. DeletedMeansGone'
    BY DEF GoneInv, DeletedMeansGone, Covered
  <1> QED
    BY <1>2, <1>3 DEF GoneInv

\* A deleter that gives up has nothing pending.
LEMMA GoneIdle ==
    ASSUME GoneInv, NEW w \in Deleters, frame' = [frame EXCEPT ![w] = Idle]
    PROVE  GoneFrame(w)' /\ \A v \in Deleters : v # w => frame'[v] = frame[v]
  BY DEF GoneFrame, Idle, NoPlan, GoneInv, RemovalInv

\* The deleter at work keeps all it has to remove but what has gone.
LEMMA GoneKeeps ==
    ASSUME GoneInv, UNCHANGED scene, files' \subseteq files,
           NEW w \in Deleters, frame[w] # Idle, NEW new, frame'[w] = new,
           new.d = frame[w].d,
           \A q \in files' : Pending(frame[w].plan, q) => Pending(new.plan, q)
    PROVE  GoneFrame(w)'
  <1>1. PICK d : d = frame[w].d
    OBVIOUS
  <1>2. d \in Downloads /\
        (LeadsToAll(d) => \A q \in scene.wrote[d] \cap files : Pending(frame[w].plan, q))
    BY <1>1 DEF GoneInv, GoneFrame
  <1>3. LeadsToAll(d)' <=> LeadsToAll(d)
    BY DEF LeadsToAll, Covered
  <1>4. LeadsToAll(d)' => \A q \in scene'.wrote[d] \cap files' : Pending(new.plan, q)
    BY <1>2, <1>3
  <1>5. frame'[w].d = d /\ frame'[w].plan = new.plan
    BY <1>1
  <1>6. LeadsToAll(frame[w].d)' <=> LeadsToAll(d)'
    BY <1>5 DEF LeadsToAll
  <1> QED
    BY <1>2, <1>4, <1>5, <1>6 DEF GoneFrame

\* A new plan covers everything its row leads to.
LEMMA GoneBegin ==
    ASSUME ReportsAgree, GoneInv, RemovalInv',
           NEW w \in Deleters, NEW d \in Downloads, Begin(w, d)
    PROVE  GoneInv'
  <1>1. PICK row : row = scene.rows[d]
    OBVIOUS
  <1>2. PICK told \in Told(row) :
          IF Refused(row, told, Plan(row, told)) THEN UNCHANGED frame
          ELSE frame' = [frame EXCEPT ![w] = [d |-> d, plan |-> Plan(row, told)]]
    BY <1>1 DEF Begin
  <1>3. frame[w] = Idle /\ UNCHANGED <<scene, files, dirs, stored>>
    BY DEF Begin
  <1>4. GoneFrame(w)'
    <2>1. CASE Refused(row, told, Plan(row, told))
      BY <1>2, <1>3, <2>1 DEF GoneFrame, Idle, NoPlan
    <2>2. CASE ~Refused(row, told, Plan(row, told))
      <3>1. PICK plan : plan = Plan(row, told)
        OBVIOUS
      <3>2. frame'[w] = [d |-> d, plan |-> plan]
        BY <1>2, <2>2, <3>1 DEF GoneInv, RemovalInv
      <3>3. frame'[w].d = d /\ frame'[w].plan = plan
        BY <3>2
      <3>4. scene \in Scenes
        BY DEF GoneInv, RemovalInv
      <3>5. LeadsToAll(d) => \A q \in scene.wrote[d] : Pending(plan, q)
        BY <1>1, <2>2, <3>1, <3>4, PlanComplete DEF LeadsToAll, Covered
      <3>6. LeadsToAll(frame[w].d)' <=> LeadsToAll(d)
        BY <1>3, <3>3 DEF LeadsToAll, Covered
      <3> QED
        BY <1>3, <3>3, <3>5, <3>6 DEF GoneFrame
    <2> QED
      BY <2>1, <2>2
  <1>5. \A v \in Deleters : v # w => frame'[v] = frame[v]
    BY <1>2 DEF GoneInv, RemovalInv
  <1> QED
    BY <1>3, <1>4, <1>5, GoneStep

\* What is unlinked is gone, what is left ends the attempt.
LEMMA GoneUnlink ==
    ASSUME GoneInv, RemovalInv', NEW w \in Deleters, Unlink(w)
    PROVE  GoneInv'
  <1> DEFINE plan == frame[w].plan
             path == Head(plan.unlink)
             tree == Tree(path)
  <1>1. plan.unlink # <<>> /\ UNCHANGED <<scene, stored>>
    BY DEF Unlink, Todo
  <1>2. frame[w] # Idle
    BY <1>1 DEF Idle, NoPlan
  <1>3. /\ plan.unlink \in Seq(SafePaths)
        /\ frame[w] \in [d : Downloads \cup {NoDownload}, plan : SafePlans]
    BY DEF GoneInv, RemovalInv, SafePlans
  <1>4. CASE Fail(w) /\ UNCHANGED <<files, dirs>>
    BY <1>1, <1>4, GoneIdle, GoneStep DEF Fail
  <1>5. ASSUME NEW left \in SUBSET tree, RemoveFromDisk(tree \ left), Fail(w)
        PROVE  GoneInv'
    BY <1>1, <1>5, GoneIdle, GoneStep DEF Fail, RemoveFromDisk
  <1>6. ASSUME RemoveFromDisk(tree), frame' = [frame EXCEPT ![w].plan.unlink = Tail(@)]
        PROVE  GoneInv'
    <2>1. PICK new : new = frame'[w]
      OBVIOUS
    <2>2. /\ new.d = frame[w].d /\ new.plan.unlink = Tail(plan.unlink)
          /\ new.plan.sidecars = plan.sidecars
          /\ \A v \in Deleters : v # w => frame'[v] = frame[v]
      BY <1>3, <1>6, <2>1 DEF SafePlans, GoneInv, RemovalInv
    <2>3. ToSet(plan.unlink) = {path} \cup ToSet(Tail(plan.unlink))
      BY <1>1, <1>3, TailSet
    <2>4. files' \subseteq files /\ \A q \in files' : ~(q = path \/ Under(path, q))
      BY <1>6 DEF RemoveFromDisk, Tree
    <2>5. \A q \in files' : Pending(plan, q) => Pending(new.plan, q)
      BY <2>2, <2>3, <2>4 DEF Pending
    <2>6. GoneFrame(w)'
      BY <1>1, <1>2, <2>1, <2>2, <2>4, <2>5, GoneKeeps
    <2> QED
      BY <1>1, <2>2, <2>4, <2>6, GoneStep
  <1>7. \/ Fail(w) /\ UNCHANGED <<files, dirs>>
        \/ \E left \in SUBSET tree :
             /\ RemoveFromDisk(tree \ left)
             /\ IF left # {} THEN Fail(w)
                ELSE frame' = [frame EXCEPT ![w].plan.unlink = Tail(@)]
    BY DEF Unlink, Todo
  <1>8. CASE RemoveFromDisk(tree \ {}) /\ frame' = [frame EXCEPT ![w].plan.unlink = Tail(@)]
    BY <1>6, <1>8 DEF RemoveFromDisk
  <1> QED
    BY <1>4, <1>5, <1>7, <1>8

\* A control file is gone, or the attempt ends.
LEMMA GoneSidecar ==
    ASSUME GoneInv, RemovalInv', NEW w \in Deleters, RemoveSidecar(w)
    PROVE  GoneInv'
  <1> DEFINE plan == frame[w].plan
  <1>1. plan.sidecars # {} /\ UNCHANGED <<scene, stored>>
    BY DEF RemoveSidecar, Todo
  <1>2. frame[w] # Idle
    BY <1>1 DEF Idle, NoPlan
  <1>3. frame[w] \in [d : Downloads \cup {NoDownload}, plan : SafePlans]
    BY DEF GoneInv, RemovalInv
  <1>4. CASE Fail(w) /\ UNCHANGED <<files, dirs>>
    BY <1>1, <1>4, GoneIdle, GoneStep DEF Fail
  <1>5. ASSUME NEW s \in plan.sidecars, RemoveFromDisk({s}),
               frame' = [frame EXCEPT ![w].plan.sidecars = @ \ {s}]
        PROVE  GoneInv'
    <2>1. PICK new : new = frame'[w]
      OBVIOUS
    <2>2. /\ new.d = frame[w].d /\ new.plan.unlink = plan.unlink
          /\ new.plan.sidecars = plan.sidecars \ {s}
          /\ \A v \in Deleters : v # w => frame'[v] = frame[v]
      BY <1>3, <1>5, <2>1 DEF SafePlans, GoneInv, RemovalInv
    <2>3. files' \subseteq files /\ s \notin files'
      BY <1>5 DEF RemoveFromDisk
    <2>4. \A q \in files' : Pending(plan, q) => Pending(new.plan, q)
      BY <2>2, <2>3 DEF Pending
    <2>5. GoneFrame(w)'
      BY <1>1, <1>2, <2>1, <2>2, <2>3, <2>4, GoneKeeps
    <2> QED
      BY <1>1, <2>2, <2>3, <2>5, GoneStep
  <1> QED
    BY <1>4, <1>5 DEF RemoveSidecar, Todo

\* Pruning comes when no file of the download is pending.
LEMMA GonePrune ==
    ASSUME GoneInv, RemovalInv', NEW w \in Deleters, Prune(w)
    PROVE  GoneInv'
  <1> DEFINE plan == frame[w].plan
  <1>1. plan.prune # {} /\ UNCHANGED <<scene, stored>> /\ files' \subseteq files
    BY DEF Prune, Todo, Deepest, RemoveFromDisk
  <1>2. frame[w] # Idle
    BY <1>1 DEF Idle, NoPlan
  <1>3. frame[w] \in [d : Downloads \cup {NoDownload}, plan : SafePlans]
    BY DEF GoneInv, RemovalInv
  <1>4. CASE Fail(w)
    BY <1>1, <1>4, GoneIdle, GoneStep DEF Fail
  <1>5. ASSUME NEW x, frame' = [frame EXCEPT ![w].plan.prune = @ \ {x}]
        PROVE  GoneInv'
    <2>1. PICK new : new = frame'[w]
      OBVIOUS
    <2>2. /\ new.d = frame[w].d /\ new.plan.unlink = plan.unlink
          /\ new.plan.sidecars = plan.sidecars
          /\ \A v \in Deleters : v # w => frame'[v] = frame[v]
      BY <1>3, <1>5, <2>1 DEF SafePlans, GoneInv, RemovalInv
    <2>3. \A q \in files' : Pending(plan, q) => Pending(new.plan, q)
      BY <2>2 DEF Pending
    <2>4. GoneFrame(w)'
      BY <1>1, <1>2, <2>1, <2>2, <2>3, GoneKeeps
    <2> QED
      BY <1>1, <2>2, <2>4, GoneStep
  <1> QED
    BY <1>4, <1>5 DEF Prune, Todo

\* The row goes when nothing is pending, that is when nothing is left.
LEMMA GoneDeleteRow ==
    ASSUME GoneInv, RemovalInv', NEW w \in Deleters, DeleteRow(w)
    PROVE  GoneInv'
  <1>1. PICK d : d = frame[w].d
    OBVIOUS
  <1>2. /\ frame[w] # Idle /\ frame[w].plan.unlink = <<>> /\ frame[w].plan.sidecars = {}
        /\ stored' = stored \ {d} /\ frame' = [frame EXCEPT ![w] = Idle]
        /\ UNCHANGED <<scene, files>>
    BY <1>1 DEF DeleteRow, Todo
  <1>3. LeadsToAll(d) => scene.wrote[d] \cap files = {}
    BY <1>1, <1>2 DEF GoneInv, GoneFrame, Pending, ToSet
  <1>4. DeletedMeansGone'
    BY <1>2, <1>3 DEF GoneInv, DeletedMeansGone, LeadsToAll, Covered
  <1>5. \A v \in Deleters : GoneFrame(v)'
    <2>1. GoneFrame(w)' /\ \A v \in Deleters : v # w => frame'[v] = frame[v]
      BY <1>2, GoneIdle
    <2>2. ASSUME NEW v \in Deleters, v # w PROVE GoneFrame(v)'
      <3>1. frame'[v] = frame[v] /\ GoneFrame(v)
        BY <2>1, <2>2 DEF GoneInv
      <3>2. Idle' = Idle
        BY DEF Idle, NoPlan
      <3>3. LeadsToAll(frame[v].d)' <=> LeadsToAll(frame[v].d)
        BY <1>2, <3>1 DEF LeadsToAll, Covered
      <3> QED
        BY <1>2, <3>1, <3>2, <3>3 DEF GoneFrame, Pending
    <2> QED
      BY <2>1, <2>2
  <1> QED
    BY <1>4, <1>5 DEF GoneInv

\* Every row exists to begin with.
LEMMA GoneInit == Init => GoneInv
  <1> SUFFICES ASSUME Init PROVE GoneInv
    OBVIOUS
  <1>1. DeletedMeansGone /\ \A w \in Deleters : GoneFrame(w)
    BY DEF Init, DeletedMeansGone, GoneFrame
  <1> QED
    BY <1>1, InitSafe DEF GoneInv

\* Every step keeps the invariant.
LEMMA GoneNext ==
    ASSUME ReportsAgree, GoneInv, [Next]_vars
    PROVE  GoneInv'
  <1>1. RemovalInv'
    BY StepSafe DEF GoneInv
  <1>2. CASE UNCHANGED vars
    <2>1. GoneInv' = GoneInv
      BY <1>2 DEF vars, GoneInv, RemovalInv, StaysUnderBase, Lost, DeletedMeansGone, Covered,
                  GoneFrame, LeadsToAll
    <2> QED
      BY <2>1
  <1> QED
    BY <1>1, <1>2, GoneBegin, GoneUnlink, GoneSidecar, GonePrune, GoneDeleteRow DEF Next, Rest

\* Once a row is gone, after however many attempts and with whatever answers of
\* aria2, nothing that the download wrote where its row leads is left on disk
\* (README.md 218), provided that row and report agree about it.
THEOREM DeletedIsGone ==
    ASSUME ReportsAgree
    PROVE  Spec => []DeletedMeansGone
  <1>1. GoneInv => DeletedMeansGone
    BY DEF GoneInv
  <1>2. GoneInv /\ [Next]_vars => GoneInv'
    BY GoneNext
  <1> QED
    BY <1>1, <1>2, GoneInit, PTL DEF Spec
-----------------------------------------------------------------------------
(***************************************************************************)
(* No folder that was emptied is left.                                     *)
(***************************************************************************)

\* The folders above what a plan removes are to be pruned after it.
Closed(plan) ==
    /\ \A p \in ToSet(plan.unlink) \cup plan.sidecars \cup plan.prune, x \in dirs :
          Under(Base, x) /\ Under(x, p) => x \in plan.prune
    /\ plan.owned => Len(plan.root) <= Len(Base) + 1

\* A folder below the base that had files and has nothing any more.
Emptied(x) ==
    Under(Base, x) /\ Inside(x, scene.files) # {} /\ Inside(x, files \cup dirs) = {}

FolderInv ==
    /\ RemovalInv
    /\ \A w \in Deleters : Closed(frame[w].plan)
    /\ failed = {} =>
         \A x \in dirs : Emptied(x) => \E w \in Deleters : x \in frame[w].plan.prune

\* Two folders of one path are one above the other.
LEMMA PrefixesCompare ==
    ASSUME NEW p \in Paths, NEW q \in Paths, NEW x \in Paths,
           Under(x, q), q = p \/ Under(p, q)
    PROVE  Under(x, p) \/ x = p \/ Under(p, x)
  <1>1. /\ p \in Seq(STRING) /\ q \in Seq(STRING) /\ x \in Seq(STRING)
        /\ Len(p) \in Nat /\ Len(q) \in Nat /\ Len(x) \in Nat
    BY DEF Paths
  <1>2. Len(x) < Len(q) /\ \A n \in 1..Len(x) : q[n] = x[n]
    BY DEF Under
  <1>3. Len(p) <= Len(q) /\ \A n \in 1..Len(p) : q[n] = p[n]
    BY <1>1 DEF Under
  <1>4. CASE Len(x) < Len(p)
    BY <1>1, <1>2, <1>3, <1>4 DEF Under
  <1>5. CASE Len(p) < Len(x)
    BY <1>1, <1>2, <1>3, <1>5 DEF Under
  <1>6. CASE Len(x) = Len(p)
    <2>1. \A n \in 1..Len(x) : x[n] = p[n]
      BY <1>2, <1>3, <1>6
    <2> QED
      BY <1>1, <1>6, <2>1, SeqEqual
  <1> QED
    BY <1>1, <1>4, <1>5, <1>6

\* Nothing is between the base and a path one name longer.
LEMMA NothingBetween ==
    ASSUME NEW p \in Paths, Len(p) <= Len(Base) + 1, NEW x \in Paths, Under(Base, x), Under(x, p)
    PROVE  FALSE
  <1>1. Len(Base) \in Nat /\ Len(x) \in Nat /\ Len(p) \in Nat
    BY BaseAssumption DEF Paths
  <1>2. Len(Base) < Len(x) /\ Len(x) < Len(p)
    BY DEF Under
  <1> QED
    BY <1>1, <1>2

\* A plan prunes every folder between the base and what it removes.
LEMMA PlanClosed ==
    ASSUME PlainNames, dirs \subseteq Paths, NEW row \in Row, NEW told \in Told(row),
           NEW plan, plan = Plan(row, told), ~Refused(row, told, plan)
    PROVE  Closed(plan)
  <1>1. /\ plan \in SafePlans
        /\ ToSet(plan.unlink) = ToSet(Payload(row, told)) \cup Own(row)
        /\ plan.sidecars =
             (IF told # <<>> \/ row.files # <<>>
              THEN {Beside(p, ".aria2") : p \in ToSet(Payload(row, told))} ELSE {})
             \cup UNION {Around(p, row) : p \in Own(row)}
        /\ plan.root = Root(ToSet(plan.unlink)) /\ plan.owned = (plan.root \in Own(row))
        /\ plan.prune = ({plan.root} \ {Base})
                          \cup UNION {Parents(p) : p \in ToSet(Payload(row, told))}
    BY PlanParts
  <1>2. ToSet(plan.unlink) \subseteq SafePaths /\ plan.prune \subseteq SafePaths
    BY <1>1 DEF SafePlans, ToSet
  <1>3. \A p \in Own(row) : p \in Paths /\ Len(p) <= Len(Base) + 1
    BY NamePaths DEF Own
  <1> DEFINE Above(p) == \A x \in dirs : Under(Base, x) /\ Under(x, p) => x \in plan.prune
  <1>4. ASSUME NEW p \in ToSet(Payload(row, told)) PROVE Above(p)
    BY <1>1, <1>2, ParentsAll
  <1>5. ASSUME NEW p \in Own(row) PROVE Above(p)
    BY <1>3, NothingBetween
  <1>6. ASSUME NEW s \in plan.sidecars PROVE Above(s)
    <2>1. PICK p \in ToSet(plan.unlink), ext \in {".aria2", ".torrent"} : s = Beside(p, ext)
      BY <1>1 DEF Around
    <2>2. \A x \in dirs : Under(x, s) => Under(x, p)
      BY <1>2, <2>1, BesideUnder
    <2> QED
      BY <1>1, <1>4, <1>5, <2>2
  <1>7. ASSUME NEW y \in plan.prune PROVE Above(y)
    <2>1. CASE \E p \in ToSet(Payload(row, told)) : y \in Parents(p)
      <3>1. PICK p \in ToSet(Payload(row, told)) : y \in Parents(p)
        BY <2>1
      <3>2. p \in Paths /\ y \in Paths /\ Under(y, p)
        BY <1>1, <1>2, <3>1, ParentsUnder DEF SafePaths
      <3>3. \A x \in dirs : Under(x, y) => Under(x, p)
        BY <3>2, UnderTransitive
      <3> QED
        BY <1>4, <3>3
    <2>2. CASE y = plan.root /\ y # Base
      <3> DEFINE paths == ToSet(plan.unlink)
      <3>1. paths \in SUBSET SafePaths /\ Root(paths) # Base /\ y = Root(paths)
        BY <1>1, <1>2, <2>2
      <3> HIDE DEF paths
      <3>2. y \in SafePaths /\ Len(y) = Len(Base) + 1
        BY <3>1, RootAbove
      <3>3. y \in Paths /\ Len(y) <= Len(Base) + 1
        BY <3>2, BaseAssumption DEF SafePaths
      <3> QED
        BY <3>3, NothingBetween
    <2>3. \/ y = plan.root /\ y # Base
          \/ \E p \in ToSet(Payload(row, told)) : y \in Parents(p)
      BY <1>1
    <2> HIDE DEF Above
    <2> QED
      BY <2>1, <2>2, <2>3
  <1>8. plan.owned => Len(plan.root) <= Len(Base) + 1
    BY <1>1, <1>3
  <1> HIDE DEF Above
  <1>9. \A p \in ToSet(plan.unlink) \cup plan.sidecars \cup plan.prune : Above(p)
    BY <1>1, <1>4, <1>5, <1>6, <1>7
  <1> QED
    BY <1>8, <1>9 DEF Closed, Above

\* What a step by one deleter has to show.
LEMMA FolderStep ==
    ASSUME FolderInv, RemovalInv', UNCHANGED scene, files' \subseteq files, dirs' \subseteq dirs,
           failed' = {} => failed = {},
           NEW w \in Deleters, NEW new, new = frame'[w].plan, Closed(new)',
           \A v \in Deleters : v # w => frame'[v] = frame[v],
           failed' = {} =>
              \A x \in dirs' : Under(Base, x) =>
                 /\ x \in frame[w].plan.prune /\ Inside(x, files \cup dirs) = {} => x \in new.prune
                 /\ \A q \in (files \cup dirs) \ (files' \cup dirs') :
                       Under(x, q) => x \in new.prune
    PROVE  FolderInv'
  <1>1. ASSUME NEW v \in Deleters PROVE Closed(frame[v].plan)'
    <2>1. CASE v = w
      BY <2>1 DEF Closed
    <2>2. CASE v # w
      <3>1. PICK plan : plan = frame[v].plan
        OBVIOUS
      <3>2. plan = frame'[v].plan
        BY <2>2, <3>1
      <3>3. Closed(plan)
        BY <3>1 DEF FolderInv
      <3> QED
        BY <3>2, <3>3 DEF Closed
    <2> QED
      BY <2>1, <2>2
  <1>2. ASSUME failed' = {}, NEW x \in dirs', Emptied(x)'
        PROVE  \E v \in Deleters : x \in frame'[v].plan.prune
    <2>1. /\ Under(Base, x) /\ x \in dirs /\ Inside(x, scene.files) # {}
          /\ Inside(x, files' \cup dirs') = {}
      BY <1>2 DEF Emptied
    <2>2. CASE Inside(x, files \cup dirs) = {}
      <3>1. PICK v \in Deleters : x \in frame[v].plan.prune
        BY <1>2, <2>1, <2>2 DEF FolderInv, Emptied
      <3>2. CASE v = w
        BY <1>2, <2>1, <2>2, <3>1, <3>2
      <3>3. CASE v # w
        BY <3>1, <3>3
      <3> QED
        BY <3>2, <3>3
    <2>3. CASE Inside(x, files \cup dirs) # {}
      <3>1. PICK q \in files \cup dirs : Under(x, q)
        BY <2>3 DEF Inside
      <3>2. q \notin files' \cup dirs'
        BY <2>1, <3>1 DEF Inside
      <3> QED
        BY <1>2, <2>1, <3>1, <3>2
    <2> QED
      BY <2>2, <2>3
  <1> QED
    BY <1>1, <1>2 DEF FolderInv

\* No plan, no folders to look after.
LEMMA IdleClosed == Closed(Idle.plan) /\ Closed(Idle.plan)'
  BY DEF Closed, Idle, NoPlan, ToSet

\* After a failure nothing is promised.
LEMMA FolderFail ==
    ASSUME FolderInv, RemovalInv', UNCHANGED scene, files' \subseteq files, dirs' \subseteq dirs,
           NEW w \in Deleters, Fail(w)
    PROVE  FolderInv'
  <1>1. failed' # {} /\ frame' = [frame EXCEPT ![w] = Idle]
    BY DEF Fail
  <1>2. frame'[w].plan = Idle.plan /\ \A v \in Deleters : v # w => frame'[v] = frame[v]
    BY <1>1 DEF FolderInv, RemovalInv
  <1>3. PICK new : new = Idle.plan
    OBVIOUS
  <1>4. Closed(new)'
    BY <1>3, IdleClosed DEF Idle, NoPlan
  <1> QED
    BY <1>1, <1>2, <1>3, <1>4, FolderStep

\* A new plan is closed.
LEMMA FolderBegin ==
    ASSUME PlainNames, FolderInv, RemovalInv', NEW w \in Deleters, NEW d \in Downloads, Begin(w, d)
    PROVE  FolderInv'
  <1>1. PICK row \in Row : row = scene.rows[d]
    BY ScenesAssumption DEF FolderInv, RemovalInv
  <1>2. PICK told \in Told(row) :
          IF Refused(row, told, Plan(row, told)) THEN UNCHANGED frame
          ELSE frame' = [frame EXCEPT ![w] = [d |-> d, plan |-> Plan(row, told)]]
    BY <1>1 DEF Begin
  <1>3. /\ frame[w] = Idle /\ UNCHANGED <<scene, files, dirs, stored>>
        /\ failed' = {} => failed = {}
    BY DEF Begin
  <1>4. PICK new : new = frame'[w].plan
    OBVIOUS
  <1>5. Closed(new)
    <2>1. CASE Refused(row, told, Plan(row, told))
      BY <1>2, <1>3, <1>4, <2>1, IdleClosed
    <2>2. CASE ~Refused(row, told, Plan(row, told))
      <3>1. frame'[w] = [d |-> d, plan |-> Plan(row, told)]
        BY <1>2, <2>2 DEF FolderInv, RemovalInv
      <3>2. new = Plan(row, told)
        BY <1>4, <3>1
      <3>3. dirs \subseteq Paths
        BY DEF FolderInv, RemovalInv
      <3> QED
        BY <2>2, <3>2, <3>3, PlanClosed
    <2> QED
      BY <2>1, <2>2
  <1>6. Closed(new)'
    BY <1>3, <1>5 DEF Closed
  <1>7. \A v \in Deleters : v # w => frame'[v] = frame[v]
    BY <1>2 DEF FolderInv, RemovalInv
  <1>8. frame[w].plan.prune = {}
    BY <1>3 DEF Idle, NoPlan
  <1> QED
    BY <1>3, <1>4, <1>6, <1>7, <1>8, FolderStep

\* The folders that RemoveAll may have emptied are still to be pruned.
LEMMA FolderUnlink ==
    ASSUME FolderInv, RemovalInv', NEW w \in Deleters, Unlink(w)
    PROVE  FolderInv'
  <1> DEFINE plan == frame[w].plan
             path == Head(plan.unlink)
             tree == Tree(path)
  <1>1. plan.unlink # <<>> /\ UNCHANGED scene
    BY DEF Unlink, Todo
  <1>2. /\ plan.unlink \in Seq(SafePaths)
        /\ frame[w] \in [d : Downloads \cup {NoDownload}, plan : SafePlans]
        /\ files \subseteq Paths /\ dirs \subseteq Paths
    BY DEF FolderInv, RemovalInv, SafePlans
  <1>3. CASE Fail(w) /\ UNCHANGED <<files, dirs>>
    BY <1>1, <1>3, FolderFail
  <1>4. ASSUME NEW left \in SUBSET tree, RemoveFromDisk(tree \ left), Fail(w)
        PROVE  FolderInv'
    BY <1>1, <1>4, FolderFail DEF RemoveFromDisk
  <1>5. ASSUME RemoveFromDisk(tree), frame' = [frame EXCEPT ![w].plan.unlink = Tail(@)],
               UNCHANGED failed
        PROVE  FolderInv'
    <2>1. PICK new : new = frame'[w].plan
      OBVIOUS
    <2>2. /\ new.unlink = Tail(plan.unlink) /\ new.sidecars = plan.sidecars
          /\ new.prune = plan.prune /\ new.owned = plan.owned /\ new.root = plan.root
          /\ \A v \in Deleters : v # w => frame'[v] = frame[v]
      BY <1>2, <1>5, <2>1 DEF SafePlans, FolderInv, RemovalInv
    <2>3. ToSet(plan.unlink) = {path} \cup ToSet(Tail(plan.unlink))
      BY <1>1, <1>2, TailSet
    <2>4. files' \subseteq files /\ dirs' \subseteq dirs
      BY <1>5 DEF RemoveFromDisk
    <2>5. Closed(plan)
      BY DEF FolderInv
    <2>6. Closed(new)'
      BY <2>2, <2>3, <2>4, <2>5 DEF Closed
    <2>7. ASSUME NEW x \in dirs', Under(Base, x),
                 NEW q \in (files \cup dirs) \ (files' \cup dirs'), Under(x, q)
          PROVE  x \in new.prune
      <3>1. q = path \/ Under(path, q)
        BY <1>5, <2>7 DEF RemoveFromDisk, Tree
      <3>2. x \in dirs /\ x \notin tree
        BY <1>5, <2>4, <2>7 DEF RemoveFromDisk
      <3>3. ~(x = path \/ Under(path, x))
        BY <3>2 DEF Tree
      <3>4. path \in Paths /\ q \in Paths /\ x \in Paths
        BY <1>1, <1>2, <2>7, <3>2 DEF SafePaths
      <3>5. Under(x, path)
        BY <2>7, <3>1, <3>3, <3>4, PrefixesCompare
      <3> QED
        BY <2>2, <2>3, <2>5, <2>7, <3>2, <3>5 DEF Closed
    <2> QED
      BY <1>1, <1>5, <2>1, <2>2, <2>4, <2>6, <2>7, FolderStep
  <1>6. \/ Fail(w) /\ UNCHANGED <<files, dirs>>
        \/ \E left \in SUBSET tree :
             /\ RemoveFromDisk(tree \ left)
             /\ IF left # {} THEN Fail(w)
                ELSE frame' = [frame EXCEPT ![w].plan.unlink = Tail(@)] /\ UNCHANGED failed
    BY DEF Unlink, Todo
  <1>7. CASE /\ RemoveFromDisk(tree \ {})
             /\ frame' = [frame EXCEPT ![w].plan.unlink = Tail(@)] /\ UNCHANGED failed
    BY <1>5, <1>7 DEF RemoveFromDisk
  <1> QED
    BY <1>3, <1>4, <1>6, <1>7

\* So are those a control file was the last in.
LEMMA FolderSidecar ==
    ASSUME FolderInv, RemovalInv', NEW w \in Deleters, RemoveSidecar(w)
    PROVE  FolderInv'
  <1> DEFINE plan == frame[w].plan
  <1>1. UNCHANGED scene
    BY DEF RemoveSidecar
  <1>2. frame[w] \in [d : Downloads \cup {NoDownload}, plan : SafePlans]
    BY DEF FolderInv, RemovalInv
  <1>3. CASE Fail(w) /\ UNCHANGED <<files, dirs>>
    BY <1>1, <1>3, FolderFail
  <1>4. ASSUME NEW s \in plan.sidecars, RemoveFromDisk({s}),
               frame' = [frame EXCEPT ![w].plan.sidecars = @ \ {s}], UNCHANGED failed
        PROVE  FolderInv'
    <2>1. PICK new : new = frame'[w].plan
      OBVIOUS
    <2>2. /\ new.unlink = plan.unlink /\ new.sidecars = plan.sidecars \ {s}
          /\ new.prune = plan.prune /\ new.owned = plan.owned /\ new.root = plan.root
          /\ \A v \in Deleters : v # w => frame'[v] = frame[v]
      BY <1>2, <1>4, <2>1 DEF SafePlans, FolderInv, RemovalInv
    <2>3. files' \subseteq files /\ dirs' \subseteq dirs
      BY <1>4 DEF RemoveFromDisk
    <2>4. Closed(plan)
      BY DEF FolderInv
    <2>5. Closed(new)'
      BY <2>2, <2>3, <2>4 DEF Closed
    <2>6. ASSUME NEW x \in dirs', Under(Base, x),
                 NEW q \in (files \cup dirs) \ (files' \cup dirs'), Under(x, q)
          PROVE  x \in new.prune
      <3>1. q = s /\ x \in dirs
        BY <1>4, <2>3, <2>6 DEF RemoveFromDisk
      <3> QED
        BY <1>4, <2>2, <2>4, <2>6, <3>1 DEF Closed
    <2> QED
      BY <1>1, <1>4, <2>1, <2>2, <2>3, <2>5, <2>6, FolderStep
  <1> QED
    BY <1>3, <1>4 DEF RemoveSidecar, Todo

\* The deepest folder goes first, so those above it are still to come.
LEMMA FolderPrune ==
    ASSUME FolderInv, RemovalInv', NEW w \in Deleters, Prune(w)
    PROVE  FolderInv'
  <1> DEFINE plan == frame[w].plan
  <1>1. UNCHANGED scene /\ plan.unlink = <<>> /\ plan.sidecars = {}
    BY DEF Prune, Todo
  <1>2. /\ frame[w] \in [d : Downloads \cup {NoDownload}, plan : SafePlans]
        /\ files \subseteq Paths /\ dirs \subseteq Paths
    BY DEF FolderInv, RemovalInv
  <1>3. CASE Fail(w) /\ UNCHANGED <<files, dirs>>
    BY <1>1, <1>3, FolderFail
  <1>4. ASSUME NEW y \in Deepest(plan.prune),
               \/ /\ Removable(y)
                  /\ \E gone \in SUBSET (IF plan.owned /\ y = plan.root
                                         THEN {Beside(y, ".aria2")} ELSE {}) :
                       RemoveFromDisk({y} \cup {s \in gone : Removable(s)})
               \/ ~Removable(y) /\ UNCHANGED <<files, dirs>>,
               frame' = [frame EXCEPT ![w].plan.prune = @ \ {y}], UNCHANGED failed
        PROVE  FolderInv'
    <2>1. PICK new : new = frame'[w].plan
      OBVIOUS
    <2>2. /\ new.unlink = plan.unlink /\ new.sidecars = plan.sidecars
          /\ new.prune = plan.prune \ {y} /\ new.owned = plan.owned /\ new.root = plan.root
          /\ \A v \in Deleters : v # w => frame'[v] = frame[v]
      BY <1>2, <1>4, <2>1 DEF SafePlans, FolderInv, RemovalInv
    <2>3. files' \subseteq files /\ dirs' \subseteq dirs
      BY <1>4 DEF RemoveFromDisk
    <2>4. Closed(plan)
      BY DEF FolderInv
    <2>5. y \in plan.prune /\ y \in SafePaths /\ \A z \in plan.prune : ~Under(y, z)
      BY <1>2, <1>4 DEF Deepest, SafePlans
    <2>6. Closed(new)'
      <3>1. ASSUME NEW p \in new.prune, NEW x \in dirs', Under(Base, x), Under(x, p)
            PROVE  x \in new.prune
        <4>1. p \in plan.prune /\ x \in dirs
          BY <2>2, <2>3, <3>1
        <4>2. x \in plan.prune
          BY <2>4, <3>1, <4>1 DEF Closed
        <4>3. x # y
          BY <2>5, <3>1, <4>1
        <4> QED
          BY <2>2, <4>2, <4>3
      <3>2. ToSet(new.unlink) = {} /\ new.sidecars = {}
        BY <1>1, <2>2 DEF ToSet
      <3> QED
        BY <2>2, <2>4, <3>1, <3>2 DEF Closed
    <2>7. ASSUME NEW x \in dirs', Under(Base, x),
                 NEW q \in (files \cup dirs) \ (files' \cup dirs'), Under(x, q)
          PROVE  x \in new.prune
      <3>1. \/ q = y
            \/ plan.owned /\ y = plan.root /\ q = Beside(y, ".aria2")
        BY <1>4, <2>7 DEF RemoveFromDisk
      <3>2. x \in dirs /\ x \in Paths /\ y \in Paths
        BY <1>2, <2>3, <2>5 DEF SafePaths
      <3>3. CASE q = y
        <4>1. x \in plan.prune
          BY <2>4, <2>5, <2>7, <3>2, <3>3 DEF Closed
        <4>2. x # y
          BY <2>7, <3>2, <3>3 DEF Under, Paths
        <4> QED
          BY <2>2, <4>1, <4>2
      <3>4. CASE plan.owned /\ y = plan.root /\ q = Beside(y, ".aria2")
        <4>1. Under(x, y)
          BY <2>5, <2>7, <3>2, <3>4, BesideUnder
        <4>2. Len(y) <= Len(Base) + 1
          BY <2>4, <3>4 DEF Closed
        <4> QED
          BY <2>7, <3>2, <4>1, <4>2, NothingBetween
      <3> QED
        BY <3>1, <3>3, <3>4
    <2>8. ASSUME NEW x \in dirs', x \in plan.prune, Inside(x, files \cup dirs) = {}
          PROVE  x \in new.prune
      <3>1. Removable(x)
        BY <2>3, <2>8 DEF Removable, Present, Tree, Inside
      <3>2. x # y
        BY <1>4, <2>8, <3>1 DEF RemoveFromDisk
      <3> QED
        BY <2>2, <2>8, <3>2
    <2> QED
      BY <1>1, <1>4, <2>1, <2>2, <2>3, <2>6, <2>7, <2>8, FolderStep
  <1> QED
    BY <1>3, <1>4 DEF Prune, Todo

\* A row is deleted when nothing is left to prune.
LEMMA FolderDeleteRow ==
    ASSUME FolderInv, RemovalInv', NEW w \in Deleters, DeleteRow(w)
    PROVE  FolderInv'
  <1>1. /\ frame[w].plan.prune = {} /\ frame' = [frame EXCEPT ![w] = Idle]
        /\ UNCHANGED <<scene, files, dirs, failed>>
    BY DEF DeleteRow, Todo
  <1>2. frame'[w].plan = Idle.plan /\ \A v \in Deleters : v # w => frame'[v] = frame[v]
    BY <1>1 DEF FolderInv, RemovalInv
  <1>3. PICK new : new = Idle.plan
    OBVIOUS
  <1>4. Closed(new)'
    BY <1>3, IdleClosed DEF Idle, NoPlan
  <1> QED
    BY <1>1, <1>2, <1>3, <1>4, FolderStep

\* No folder that had files is empty to begin with.
LEMMA FolderInit == Init => FolderInv
  <1> SUFFICES ASSUME Init PROVE FolderInv
    OBVIOUS
  <1>1. \A w \in Deleters : Closed(frame[w].plan)
    BY IdleClosed DEF Init
  <1>2. \A x \in dirs : ~Emptied(x)
    BY DEF Init, Emptied, Inside
  <1> QED
    BY <1>1, <1>2, InitSafe DEF FolderInv

\* Every step keeps the invariant.
LEMMA FolderNext ==
    ASSUME PlainNames, FolderInv, [Next]_vars
    PROVE  FolderInv'
  <1>1. RemovalInv'
    BY StepSafe DEF FolderInv
  <1>2. CASE UNCHANGED vars
    <2>1. FolderInv' = FolderInv
      BY <1>2 DEF vars, FolderInv, RemovalInv, StaysUnderBase, Lost, Closed, Emptied
    <2> QED
      BY <2>1
  <1> QED
    BY <1>1, <1>2, FolderBegin, FolderUnlink, FolderSidecar, FolderPrune, FolderDeleteRow
       DEF Next, Rest

\* When no deletion is at work and none has failed, no folder below the target
\* path that had files is left empty, whatever folders the deletions shared:
\* the last to remove something from a folder still has the folder to prune
\* (delete.go 266-303), provided that names are single names.
THEOREM NoFolderLeftEmpty ==
    ASSUME PlainNames
    PROVE  Spec => []NoEmptiedFolder
  <1>1. FolderInv => NoEmptiedFolder
    <2> SUFFICES ASSUME FolderInv, Quiet, failed = {}, NEW x \in dirs,
                        Under(Base, x), Inside(x, scene.files) # {},
                        Inside(x, files \cup dirs) = {}
                 PROVE  FALSE
      BY DEF NoEmptiedFolder
    <2>1. Emptied(x)
      BY DEF Emptied
    <2>2. PICK w \in Deleters : x \in frame[w].plan.prune
      BY <2>1 DEF FolderInv
    <2>3. frame[w].plan.prune = {}
      BY DEF Quiet, Idle, NoPlan
    <2> QED
      BY <2>2, <2>3
  <1>2. FolderInv /\ [Next]_vars => FolderInv'
    BY FolderNext
  <1> QED
    BY <1>1, <1>2, FolderInit, PTL DEF Spec
=============================================================================
