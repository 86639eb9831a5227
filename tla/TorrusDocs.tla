----------------------------- MODULE TorrusDocs -----------------------------
(***************************************************************************)
(* Statements of the documentation, comments and tests of the repository   *)
(* that the program does not keep: each has a run that finds the behaviour *)
(* against it.                                                             *)
(***************************************************************************)
EXTENDS Torrus

\* The reconciler applies the event in hand, one of these types, in this step.
Applies(types) ==
    /\ inHand.type \in types /\ Stored(inHand.id)
    /\ inHand' = NoEvent
    /\ byID' # byID

\* download.go 327: "Cancel any in-flight start operation to avoid racing with
\* deletion."  When all is quiet no task of a deleted download goes on.
DeleteStopsTasks ==
    Quiet => \A g \in Gids : task[g] \in Live => Stored(owner[g])

\* docs/events-and-states.md 31-32: "Terminal events are applied only if the
\* event's gid matches the repo's current gid."  The check is a Get before the
\* Update (reconciler.go 158-187): a row that had no gid at the check may have
\* another one when the event is applied.
EndMatchesGid ==
    [][Applies(TerminalTypes) => row.gid \in {NoGid, inHand.gid}]_vars

\* docs/events-and-states.md 33: "GIDUpdate events replace the stored gid when
\* downloaders swap IDs."  A start that saves the gid it was given before the
\* swap brings the old gid back (download.go 147).
SwapIsKept ==
    [][\A i \in Rows, m \in Gids :
          followedBy[m] # NoGid /\ byID[i].gid = followedBy[m]
            => byID'[i] = NoRow \/ byID'[i].gid # m]_vars

\* docs/persistence-and-repo.md 19: status is the "last known state from the
\* downloader".  A completion announced before Start has put the gid into
\* gidToID is dropped (events.go 65-69, ops.go 57-58) and not asked for again.
CompletionKnown ==
    \A i \in Ids, g \in Gids :
        owner[g] = i /\ task[g] = "done" ~> ~Stored(i) \/ byID[i].status = "Complete"
=============================================================================
