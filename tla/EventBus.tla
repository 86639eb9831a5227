------------------------------ MODULE EventBus ------------------------------
(***************************************************************************)
(* The channel between the downloader and the reconciler: cmd/main.go      *)
(* makes it, downloader/reporter.go sends on it.  A send on a full channel *)
(* blocks the goroutine that makes it, here by disabling its step.         *)
(***************************************************************************)
EXTENDS DownloadTypes

CONSTANT Cap        \* capacity of the channel (16 in main.go)

ASSUME CapAssumption == Cap \in Nat \ {0}

VARIABLE events

\* The types that end a download, and the others.
TerminalTypes == {"Complete", "Failed", "Cancelled"}
EventTypes    == TerminalTypes \cup {"Start", "Paused", "GIDUpdate", "Meta", "Progress"}

\* new is set in GIDUpdate events only.  The payloads of Meta and Progress
\* events are left out: no decision depends on them.
Event == [type: EventTypes, id: Ids, gid: Gids, new: GidOrNone]

EventBusTypeOK == events \in Seq(Event) /\ Len(events) <= Cap

EventBusInit == events = <<>>

EventOf(type, id, gid) == [type |-> type, id |-> id, gid |-> gid, new |-> NoGid]

\* Mutant: a sender does not wait for room.
ReportUnbounded(e) == events' = Append(events, e)

Report(e) ==
    /\ Len(events) < Cap
    /\ events' = Append(events, e)
=============================================================================
