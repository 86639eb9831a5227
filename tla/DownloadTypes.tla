--------------------------- MODULE DownloadTypes ---------------------------
(***************************************************************************)
(* The vocabulary of Torrus: download ids, aria2 task ids (gids) and the   *)
(* status values of internal/data/download.go.  Go's empty string, in the  *)
(* places where it means "no id" and "no gid", is NoId and NoGid.          *)
(***************************************************************************)
EXTENDS Naturals, FiniteSets, Sequences

CONSTANTS
    Ids,    \* the uuids a repository may hand out
    Gids,   \* the task ids the aria2 daemon may hand out
    NoId,
    NoGid,
    Locators,       \* (Source, TargetPath) pairs as clients write them
    Fingerprints,
    FpOf,           \* fp.Fingerprint: spellings of one request share it
    NoRow           \* what a repository has at an id it does not hold

ASSUME IdsAssumption  == NoId \notin Ids
ASSUME GidsAssumption == NoGid \notin Gids

\* Values of Download.Status.  "Resume" is only ever a desired status.
Statuses == {"Queued", "Active", "Paused", "Complete", "Cancelled", "Failed"}

\* The desired statuses that UpdateDesiredStatus lets through.
Wishes == {"Active", "Resume", "Paused", "Cancelled"}

\* Values of Download.DesiredStatus in a stored row.
Desired == {"Queued"} \cup Wishes

IdOrNone  == Ids \cup {NoId}
GidOrNone == Gids \cup {NoGid}

\* The fields that requests, starts and events decide on.  Only the removal of
\* files reads Name and Files back (delete.go 41-48): module FileRemoval has
\* rows of its own with these.
Download == [loc: Locators, gid: GidOrNone, status: Statuses, desired: Desired]

ASSUME FpOfAssumption  == FpOf \in [Locators -> Fingerprints]
ASSUME NoRowAssumption == NoRow \notin Download
=============================================================================
