--------------------------- MODULE MCIntentRegistry ----------------------------
(***************************************************************************)
(* Bodies for TLC.  Two texts, one sub-text; a cron schedule to start with *)
(* and one to change to, and the same for event schedules.                 *)
(***************************************************************************)
EXTENDS IntentRegistry

CONSTANTS textA, textB, cron, cron2, event

MCTexts == {textA, textB}
MCSchedules == {cron, cron2, event}
MCEventSchedules == {event}

NewBody(schedule, alt) ==
    [main |-> textA, alt |-> alt, enabled |-> TRUE, schedule |-> schedule]

MCNewBodies == {NewBody(cron, Nothing), NewBody(event, textB)}

Unchanged == [main |-> NoChange, alt |-> NoChange, enabled |-> NoChange, schedule |-> NoChange]

MCChanges == {
    [Unchanged EXCEPT !.main = textB, !.alt = textA],
    [Unchanged EXCEPT !.alt = Nothing, !.enabled = FALSE],
    [Unchanged EXCEPT !.enabled = TRUE],
    [Unchanged EXCEPT !.schedule = cron2]}
=============================================================================
