SPECIFICATION MailSpec
CONSTANTS
    event1 = event1
    run1 = run1
    run2 = run2
    job1 = job1
    cron1 = cron1
    handler1 = handler1
    Unstamped = Unstamped
    Events <- OneEvent
    Codes <- OneEvent
    Runs <- TwoRuns
    MaxAttempts = 2
    MaxKills = 2
    Jobs <- OneJob
    Cron <- OneCron
    Handlers <- OneHandler
    MaxTries = 2
    MaxCrashes = 1
CHECK_DEADLOCK FALSE
INVARIANTS
    MailTypeOK
    RepeatNeedsInterruption
    UnfinishedIsTracked
PROPERTIES
    OutboxIsAtLeastOnce
    ResetSparesTheLiving
    EventsEnd
    EmailIsAtLeastOnce
    FinishedIsNotResent
    MailEnds
