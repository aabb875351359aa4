SPECIFICATION FairSpec
CONSTANTS
    Jobs = {taker, loop}
    Loops = {loop}
    Notifiers = {task, isr}
    Waits = 2
    Period = 3
    MaxRuns = 2
    MaxSent = 3
INVARIANTS
    TypeOK
    NotificationReachesRun
    BenchTrue
PROPERTIES
    TakesLatest
    NotificationTaken
