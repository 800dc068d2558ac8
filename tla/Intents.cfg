SPECIFICATION Spec
CONSTANTS
    Intents = {i1}
    Requests = {r1, r2}
    Editors = {r1}
    Nothing = Nothing
    NoChange = NoChange
    Faults = {"qdrant", "sqlite", "scheduler"}
    textA = textA
    textB = textB
    cron = cron
    cron2 = cron2
    event = event
    Texts <- MCTexts
    Schedules <- MCSchedules
    EventSchedules <- MCEventSchedules
    NewBodies <- MCNewBodies
    Changes <- MCChanges
INVARIANTS TypeOK StoresFollowRows
PROPERTY DeletedStaysDeleted
