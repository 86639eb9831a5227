----------------------------- MODULE Reconciler -----------------------------
(***************************************************************************)
(* internal/reconciler/reconciler.go: one goroutine that applies downloader*)
(* events to the repository.  A Start and a terminal event are judged by a *)
(* Get and applied by a later Update; other goroutines may change the row  *)
(* in between.                                                             *)
(***************************************************************************)
EXTENDS InMemRepo, EventBus

VARIABLES
    inHand,         \* the event handle is at work on, or NoEvent
    judged          \* it has passed its check and is about to be applied

recVars == <<inHand, judged>>

NoEvent == [type |-> "none", id |-> NoId, gid |-> NoGid, new |-> NoGid]

ReconcilerTypeOK ==
    /\ inHand \in Event \cup {NoEvent}
    /\ judged \in BOOLEAN

ReconcilerInit == inHand = NoEvent /\ judged = FALSE

row == byID[inHand.id]

Holding(types) == inHand.type \in types /\ ~judged

Finished == inHand' = NoEvent /\ judged' = FALSE

\* An Update of the row in hand; a missing row is logged and left alone.
UpdateRow(clone) == IF Stored(inHand.id) THEN Update(inHand.id, clone) ELSE UNCHANGED repoVars

TakeEvent ==
    /\ inHand = NoEvent
    /\ events # <<>>
    /\ inHand' = Head(events)
    /\ events' = Tail(events)
    /\ UNCHANGED <<judged, repoVars>>

\* Events that change no field the model has: Meta, Progress.
PassOver ==
    /\ Holding({"Meta", "Progress"})
    /\ Finished
    /\ UNCHANGED <<repoVars, events>>

ApplyPaused ==
    /\ Holding({"Paused"})
    /\ UpdateRow([row EXCEPT !.status = "Paused"])
    /\ Finished
    /\ UNCHANGED events

ApplyGid ==
    /\ Holding({"GIDUpdate"})
    /\ UpdateRow([row EXCEPT !.gid = inHand.new])
    /\ Finished
    /\ UNCHANGED events

\* Mutant: the status is not looked at.
StartDesired == Stored(inHand.id) /\ row.desired = "Active"

\* A Start counts only while the row waits for it.
StartExpected == Stored(inHand.id) /\ row.desired = "Active" /\ row.status = "Queued"

\* Mutant: a row without a gid matches no event.
EndMatches == Stored(inHand.id) /\ row.gid = inHand.gid

\* checkTerminal: the row has the event's gid, or none.
EndExpected == Stored(inHand.id) /\ row.gid \in {NoGid, inHand.gid}

\* Mutant: the Get is repeated until it finds the row.
JudgeRetrying ==
    /\ Holding(TerminalTypes \cup {"Start"})
    /\ IF ~Stored(inHand.id) THEN UNCHANGED recVars
       ELSE IF IF inHand.type = "Start" THEN StartExpected ELSE EndExpected
       THEN judged' = TRUE /\ UNCHANGED inHand
       ELSE Finished
    /\ UNCHANGED <<repoVars, events>>

Judge ==
    /\ Holding(TerminalTypes \cup {"Start"})
    /\ IF IF inHand.type = "Start" THEN StartExpected ELSE EndExpected
       THEN judged' = TRUE /\ UNCHANGED inHand
       ELSE Finished
    /\ UNCHANGED <<repoVars, events>>

Apply ==
    /\ judged
    /\ UpdateRow(IF inHand.type = "Start" THEN [row EXCEPT !.status = "Active"]
                 ELSE [row EXCEPT !.status = inHand.type, !.gid = NoGid])
    /\ Finished
    /\ UNCHANGED events

ReconcilerStep == TakeEvent \/ PassOver \/ ApplyPaused \/ ApplyGid \/ Judge \/ Apply
=============================================================================
