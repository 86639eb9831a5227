---------------------------- MODULE FileRemoval ----------------------------
(***************************************************************************)
(* internal/downloader/aria2/delete.go: what Delete with deleteFiles       *)
(* removes from disk once the task is cancelled and purged.  It plans      *)
(* which paths to remove, from what aria2 or the row says, then removes    *)
(* them one by one; a failure ends the attempt, the row stays and the      *)
(* client may delete again.  Several DELETE requests run side by side.     *)
(*                                                                         *)
(* A path is a sequence of names, "/" first when it is absolute.  The      *)
(* disk only loses files here: the tasks that wrote them are cancelled.    *)
(***************************************************************************)
EXTENDS Naturals, FiniteSets, Sequences, SequencesExt

CONSTANTS
    Base,           \* the downloads' TargetPath after filepath.Clean
    Downloads,
    NoDownload,
    Deleters,       \* goroutines that serve DELETE requests
    Scenes,         \* what disk and rows may look like to begin with
    Strip,          \* stripLeadingTags, a function on Names
    Names,          \* the values of Name; <<>> is the empty one
    MaxTries        \* a bound: attempts to delete one download

\* An empty TargetPath is refused by the service, "/" and "." are left out.
ASSUME BaseAssumption  == Base \in Seq(STRING) \ {<<>>, <<"/">>}
ASSUME NamesAssumption == Names \subseteq Seq(STRING)
ASSUME StripAssumption == Strip \in [Names -> Names]
ASSUME TriesAssumption == MaxTries \in Nat

Paths == Seq(STRING)

\* What the row of a download says, and what aria2 would answer to getFiles.
Row == [name: Names, files: Seq(Paths), reported: Seq(Paths), torrent: BOOLEAN]

\* A scene has the row of each download, the files and folders on disk and,
\* known to no program, the files that each download wrote.
ASSUME ScenesAssumption ==
    \A s \in Scenes :
        /\ s.rows \in [Downloads -> Row]
        /\ s.files \subseteq Paths /\ s.dirs \subseteq Paths
        /\ s.wrote \in [Downloads -> SUBSET Paths]

VARIABLES
    scene,          \* the scene the run began with
    files, dirs,    \* what is on disk
    stored,         \* the downloads whose row exists
    frame,          \* the attempt each deleter is at work on
    tries,          \* attempts left
    failed          \* the downloads an attempt to delete failed for

vars == <<scene, files, dirs, stored, frame, tries, failed>>
-----------------------------------------------------------------------------
IsAbs(p) == p # <<>> /\ p[1] = "/"

\* filepath.Clean, name by name.
Push(acc, name) ==
    CASE name = "." \/ (name = "/" /\ acc # <<>>) -> acc
      [] name = ".." /\ (acc = <<>> \/ Last(acc) = "..") -> Append(acc, name)
      [] name = ".." /\ acc # <<>> /\ Last(acc) = "/" -> acc
      [] name = ".." /\ acc # <<>> /\ Last(acc) \notin {"..", "/"} -> Front(acc)
      [] OTHER -> Append(acc, name)

Clean(p) ==
    LET upTo[n \in 0 .. Len(p)] == IF n = 0 THEN <<>> ELSE Push(upTo[n - 1], p[n])
    IN  upTo[Len(p)]

Normal(p) == Clean(IF IsAbs(p) THEN p ELSE Base \o p)

Under(dir, p) == Len(dir) < Len(p) /\ \A n \in 1..Len(dir) : p[n] = dir[n]

\* isSafe
Safe(p) == p \in Paths /\ Under(Base, p)

\* The path of a sidecar file next to p.
Beside(p, ext) == [p EXCEPT ![Len(p)] = @ \o ext]

Around(p, row) == {Beside(p, ".aria2")} \cup (IF row.torrent THEN {Beside(p, ".torrent")} ELSE {})

\* The folders between p and the base.
Parents(p) == {SubSeq(p, 1, n) : n \in Len(Base) + 1 .. Len(p) - 1}

Exact(row)   == Clean(Base \o row.name)
Trimmed(row) == Clean(Base \o Strip[row.name])

\* A sidecar next to the trimmed name, or two of the download's file names
\* below it, among these files and folders.
Proof(row, fs, ds) ==
    LET t     == Trimmed(row)
        names == {Last(row.files[n]) : n \in DOMAIN row.files}
        found == {Last(q) : q \in {f \in fs : f = t \/ Under(t, f)}}
    IN Beside(t, ".aria2") \in fs \cup ds \/ Cardinality(names \cap found) >= 2

\* Mutant: a folder of the trimmed name is taken without any proof.
TrimmedPresumed(row) ==
    Strip[row.name] \notin {<<>>, row.name} /\ Safe(Trimmed(row))

\* The trimmed name counts only with a proof on disk.
TrimmedOwned(row) ==
    /\ Strip[row.name] \notin {<<>>, row.name}
    /\ Safe(Trimmed(row))
    /\ Proof(row, files, dirs)

\* Mutant: the folder of the download's name is not tried.
RootsTrimmed(row) == IF TrimmedOwned(row) THEN <<Trimmed(row)>> ELSE <<>>

\* What the name leads to is removed as a whole.
Roots(row) ==
    (IF row.name # <<>> /\ Safe(Exact(row)) THEN <<Exact(row)>> ELSE <<>>)
        \o (IF TrimmedOwned(row) THEN <<Trimmed(row)>> ELSE <<>>)

\* What the paths to remove are derived from: aria2's answer, else the row's
\* files, else its name.
Targets(row, told) ==
    IF told # <<>> THEN told
    ELSE IF row.files # <<>> THEN row.files
    ELSE IF row.name # <<>> THEN <<row.name>> ELSE <<>>

\* The folder all files are in, if there is just one such folder in the base.
\* (The code passes over a folder whose name begins with "..", for it takes its
\* relative path for one that leads out.)
Root(paths) ==
    LET tops == {p[Len(Base) + 1] : p \in {q \in paths : Len(q) > Len(Base) + 1}}
    IN IF \E s \in tops : tops = {s} THEN Append(Base, CHOOSE s \in tops : TRUE) ELSE Base

\* Everything Delete decides before it removes anything.  A sidecar next to
\* the root is one next to the exact or trimmed name (delete.go 206, 221).
Plan(row, told) ==
    LET targets  == Targets(row, told)
        payload  == [n \in DOMAIN targets |-> Normal(targets[n])]
        unlink   == payload \o Roots(row)
        root     == Root(ToSet(unlink))
        \* the exact and the trimmed name, as far as they are the download's
        own      == (IF row.name # <<>> THEN {Exact(row)} ELSE {})
                    \cup (IF TrimmedOwned(row) THEN {Trimmed(row)} ELSE {})
    IN [unlink   |-> unlink,
        sidecars |-> (IF told # <<>> \/ row.files # <<>>
                      THEN {Beside(p, ".aria2") : p \in ToSet(payload)} ELSE {})
                     \cup UNION {Around(p, row) : p \in own},
        prune    |-> ({root} \ {Base}) \cup UNION {Parents(p) : p \in ToSet(payload)},
        root     |-> root,
        owned    |-> root \in own]

\* Mutant: a path outside the base is logged and removed all the same.
RefusedNever(row, told, plan) == FALSE

\* A target, a sidecar outside the base and nothing is removed.
Strays(row, told, plan) == \E n \in DOMAIN Targets(row, told) : ~Safe(plan.unlink[n])

Refused(row, told, plan) ==
    \/ Strays(row, told, plan)
    \/ \E p \in plan.sidecars : ~Safe(p)
-----------------------------------------------------------------------------
Present(p) == p \in files \cup dirs
Tree(p)    == {q \in files \cup dirs : q = p \/ Under(p, q)}

\* What os.Remove can remove: a file or an empty folder.
Removable(p) == Present(p) /\ Tree(p) = {p}

\* ENOTDIR: a path through a file is an error, unlike one that does not exist.
Blocked(p) == \E f \in files : Under(f, p)

RemoveFromDisk(gone) == files' = files \ gone /\ dirs' = dirs \ gone

NoPlan == [unlink |-> <<>>, sidecars |-> {}, prune |-> {}, root |-> Base, owned |-> FALSE]
Idle   == [d |-> NoDownload, plan |-> NoPlan]

Init ==
    /\ scene \in Scenes
    /\ files = scene.files
    /\ dirs = scene.dirs
    /\ stored = Downloads
    /\ frame = [w \in Deleters |-> Idle]
    /\ tries = [d \in Downloads |-> MaxTries]
    /\ failed = {}

\* getFilePaths: aria2 may know the task's files or not, for its result has
\* just been purged.
Told(row) == {<<>>, row.reported}

Begin(w, d) ==
    /\ frame[w] = Idle
    /\ d \in stored /\ tries[d] > 0
    /\ tries' = [tries EXCEPT ![d] = @ - 1]
    /\ \E told \in Told(scene.rows[d]) :
         LET row  == scene.rows[d]
             plan == Plan(row, told)
         IN IF Refused(row, told, plan)
            THEN failed' = failed \cup {d} /\ UNCHANGED frame
            ELSE frame' = [frame EXCEPT ![w] = [d |-> d, plan |-> plan]] /\ UNCHANGED failed
    /\ UNCHANGED <<scene, files, dirs, stored>>

Todo(w) == frame[w].plan

\* The first error ends the attempt.
Fail(w) ==
    /\ failed' = failed \cup {frame[w].d}
    /\ frame' = [frame EXCEPT ![w] = Idle]

\* RemoveAll: what is left of the tree when it fails keeps its folders.
Unlink(w) ==
    /\ Todo(w).unlink # <<>>
    /\ LET path == Head(Todo(w).unlink)
           tree == Tree(path)
       IN \/ Blocked(path) /\ Fail(w) /\ UNCHANGED <<files, dirs>>
          \/ /\ ~Blocked(path)
             /\ \E left \in SUBSET tree :
                  /\ \A q \in left, x \in tree : Under(x, q) => x \in left
                  /\ RemoveFromDisk(tree \ left)
                  /\ IF left # {} THEN Fail(w)
                     ELSE /\ frame' = [frame EXCEPT ![w].plan.unlink = Tail(@)]
                          /\ UNCHANGED failed
    /\ UNCHANGED <<scene, stored, tries>>

RemoveSidecar(w) ==
    /\ Todo(w).unlink = <<>>
    /\ \E s \in Todo(w).sidecars :
         \/ /\ ~Blocked(s)
            /\ Removable(s) \/ ~Present(s)
            /\ RemoveFromDisk({s})
            /\ frame' = [frame EXCEPT ![w].plan.sidecars = @ \ {s}]
            /\ UNCHANGED failed
         \/ (Present(s) \/ Blocked(s)) /\ Fail(w) /\ UNCHANGED <<files, dirs>>
    /\ UNCHANGED <<scene, stored, tries>>

\* Mutant: a folder may be tried before those below it.
DeepestAny(folders) == folders

\* Sorted by length: no folder comes before those below it.
Deepest(folders) == {x \in folders : \A y \in folders : ~Under(x, y)}

\* A folder that is gone or not empty is passed over.  The root's own sidecar
\* goes with the root, if it can.
Prune(w) ==
    /\ Todo(w).unlink = <<>> /\ Todo(w).sidecars = {}
    /\ \E x \in Deepest(Todo(w).prune) :
         \/ /\ ~Blocked(x)
            /\ \/ /\ Removable(x)
                  /\ \E gone \in SUBSET (IF Todo(w).owned /\ x = Todo(w).root
                                         THEN {Beside(x, ".aria2")} ELSE {}) :
                       RemoveFromDisk({x} \cup {s \in gone : Removable(s)})
               \/ ~Removable(x) /\ UNCHANGED <<files, dirs>>
            /\ frame' = [frame EXCEPT ![w].plan.prune = @ \ {x}]
            /\ UNCHANGED failed
         \/ (Present(x) \/ Blocked(x)) /\ Fail(w) /\ UNCHANGED <<files, dirs>>
    /\ UNCHANGED <<scene, stored, tries>>

\* All removed: the service deletes the row.
DeleteRow(w) ==
    /\ frame[w] # Idle
    /\ Todo(w).unlink = <<>> /\ Todo(w).sidecars = {} /\ Todo(w).prune = {}
    /\ stored' = stored \ {frame[w].d}
    /\ frame' = [frame EXCEPT ![w] = Idle]
    /\ UNCHANGED <<scene, files, dirs, tries, failed>>

Quiet == \A w \in Deleters : frame[w] = Idle

Rest == Quiet /\ UNCHANGED vars

Next ==
    \/ \E w \in Deleters :
         \/ \E d \in Downloads : Begin(w, d)
         \/ Unlink(w) \/ RemoveSidecar(w) \/ Prune(w) \/ DeleteRow(w)
    \/ Rest

Spec == Init /\ [][Next]_vars
-----------------------------------------------------------------------------
Lost == (scene.files \ files) \cup (scene.dirs \ dirs)

\* Nothing is ever removed but what lies strictly below the target path, the
\* target path itself included (README.md 76-77).
StaysUnderBase == \A q \in Lost : Under(Base, q)

\* The claims a download has by its row, by aria2 and by its trimmed name.
RowClaims(row) ==
    {Normal(row.files[n]) : n \in DOMAIN row.files}
        \cup (IF row.name = <<>> THEN {} ELSE {Exact(row)})

Claims(row) ==
    RowClaims(row) \cup {Normal(row.reported[n]) : n \in DOMAIN row.reported}
        \cup (IF Proof(row, scene.files, scene.dirs) THEN {Trimmed(row)} ELSE {})

\* A claim covers a path, all below it and its sidecars.
Covers(c, row, q) == q = c \/ Under(c, q) \/ q \in Around(c, row)

Covered(claims, row) == {q \in scene.files : \E c \in claims : Covers(c, row, q)}

\* A file is only removed for a download that is being deleted and whose
\* reported files, row or trimmed name, the latter with the proof there was
\* before anything was removed, lead to it (docs/operations.md 33-46).
OnlyProven ==
    \A q \in scene.files \ files :
        \E d \in Downloads :
            tries[d] < MaxTries /\ q \in Covered(Claims(scene.rows[d]), scene.rows[d])

\* When the row is gone nothing the download wrote is left, however many
\* attempts it took and whatever aria2 still knew, if what it wrote is where
\* its row leads (README.md 218).
DeletedMeansGone ==
    \A d \in Downloads \ stored :
        scene.wrote[d] \subseteq Covered(RowClaims(scene.rows[d]), scene.rows[d])
            => scene.wrote[d] \cap files = {}

Inside(x, disk) == {q \in disk : Under(x, q)}

\* No folder below the target path that Delete has emptied is left, unless an
\* attempt failed; deletions that share a folder leave it to the last of them.
NoEmptiedFolder ==
    Quiet /\ failed = {} =>
        \A x \in dirs :
            Under(Base, x) /\ Inside(x, scene.files) # {} => Inside(x, files \cup dirs) # {}
-----------------------------------------------------------------------------
(***************************************************************************)
(* What the theorems ask of rows, reports and disks, beyond their types.   *)
(***************************************************************************)

\* A name is one name and no path: aria2's info.name, or what filepath.Base
\* and path.Base return (files.go 131-157), a magnet's dn with a "/" left out.
PlainNames == \A n \in Names : Len(n) <= 1

\* One of these paths leads to q, or q is the control file of one.
Listed(list, q) ==
    \E n \in DOMAIN list :
        LET p == Normal(list[n]) IN q = p \/ Under(p, q) \/ q = Beside(p, ".aria2")

\* The name and the files of a row agree with aria2's report: what the name
\* does not lead to is listed in the row's files and, if there is one, in the
\* report.
ReportsAgree ==
    \A s \in Scenes, d \in Downloads :
        LET row == s.rows[d] IN
        \A q \in s.wrote[d] :
            (\E c \in RowClaims(row) : Covers(c, row, q)) =>
                \/ row.name # <<>> /\ Covers(Exact(row), row, q)
                \/ Listed(row.files, q) /\ (row.reported = <<>> \/ Listed(row.reported, q))
=============================================================================
