--------------------------- MODULE MCFileRemoval ---------------------------
(***************************************************************************)
(* What the disk of a downloader looks like: a file from a server, a       *)
(* torrent's folder, a folder whose name lost its tags with each kind of   *)
(* proof and with none, a folder two downloads share, and rows that lead   *)
(* out of the target path.  Download a is the one of interest, b its       *)
(* neighbour; everything else on disk is nobody's.                         *)
(***************************************************************************)
EXTENDS FileRemoval, TLC

CONSTANTS a, b, w1, w2

MCBase == <<"/", "dl">>
MCNames == {<<>>, <<"f">>, <<"g">>, <<"P">>, <<"Q">>, <<"[T] P">>, <<"..">>, <<".">>, <<"/">>}
MCStrip == [n \in MCNames |-> IF n = <<"[T] P">> THEN <<"P">> ELSE n]

In(rest) == MCBase \o rest

Http(f, reported) ==
    [name |-> <<f>>, files |-> <<<<f>>>>, reported |-> reported, torrent |-> FALSE]

Torrent(name, dir, names) ==
    [name |-> name, files |-> <<<<names[1]>>, <<names[2]>>>>,
     reported |-> <<In(<<dir, "s", names[1]>>), In(<<dir, names[2]>>)>>, torrent |-> TRUE]

\* A scene with the folders its files need, and with strays.
Scene(rowA, wroteA, rowB, wroteB) ==
    LET strays == {<<"/", "keep", "x">>, <<"/", "dl2">>, In(<<"h.aria2">>), In(<<"s.torrent">>)}
        fs     == wroteA \cup wroteB \cup strays
    IN [rows  |-> (a :> rowA) @@ (b :> rowB),
        wrote |-> (a :> wroteA) @@ (b :> wroteB),
        files |-> fs,
        dirs  |-> UNION {{SubSeq(f, 1, n) : n \in 1 .. Len(f) - 1} : f \in fs}]

G  == Http("g", <<In(<<"g">>)>>)
WG == {In(<<"g">>)}

InP == {In(<<"P", "s", "x">>), In(<<"P", "y">>)}

Side(rest) == {In(<<name>>) : name \in rest}

MCScenes ==
    {Scene(Http("f", <<In(<<"f">>)>>), {In(<<"f">>), In(<<"f.aria2">>)}, G, WG),
     Scene(Torrent(<<"P">>, "P", <<"x", "y">>), InP \cup Side({"P.aria2", "P.torrent"}), G, WG),
     \* tagged: proven by a sidecar, by two files, or not proven
     Scene(Torrent(<<"[T] P">>, "P", <<"x", "y">>), InP \cup Side({"P.aria2"}), G, WG),
     Scene(Torrent(<<"[T] P">>, "P", <<"x", "y">>), InP, G, WG),
     Scene([Torrent(<<"[T] P">>, "Q", <<"x", "z">>) EXCEPT !.reported = <<>>], {}, G, WG \cup InP),
     \* a folder two downloads share
     Scene(Http("f", <<In(<<"P", "f">>)>>), {In(<<"P", "f">>)},
           Http("g", <<In(<<"P", "s", "g">>)>>), {In(<<"P", "s", "g">>), In(<<"P", "s", "g.aria2">>)})}
    \cup
    \* a report of a path through the neighbour's file
    {Scene(Http("f", <<In(<<"g", "f">>)>>), {}, G, WG)}
    \cup
    \* a download whose name nobody knows yet
    {Scene([Http("f", rep) EXCEPT !.name = <<>>], {In(<<"f">>), In(<<"f.aria2">>)}, G, WG) :
        rep \in {<<>>, <<In(<<"f">>)>>}}
    \cup
    \* names and reports that lead out of the target path or to it
    {Scene([Http("f", rep) EXCEPT !.name = n, !.files = fs], {}, G, WG) :
        n \in {<<>>, <<"..">>, <<".">>, <<"/">>},
        fs \in {<<>>, <<<<"f">>>>},
        rep \in {<<>>, <<<<"/", "keep", "x">>>>, <<MCBase>>, <<In(<<"..", "dl2">>)>>}}

\* The scenes are ones the theorems about the file removal speak of.
ASSUME SceneConditions == PlainNames /\ ReportsAgree

Symmetry == Permutations(Deleters)
=============================================================================
