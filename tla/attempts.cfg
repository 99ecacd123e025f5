\* Two projects, the first with an audit notice, and one slot; two attempts
\* in three ticks, every call on the rows may fail.
SPECIFICATION FairSpec
CONSTANTS
    N = 2
    Kind = "morning"
    NoticeEnabled <- FirstOnly
    Concurrency = 1
    MaxAttempts = 2
    Budget = 3
    RetryDelay = 1
    MaxRetryDelay = 1
    Delay <- DoublingDelay
    Slack = 1
    Faults = {"start", "finish", "cleanup"}
INVARIANTS RowsTellTheTruth
PROPERTIES BatchEnds
\* A batch that has returned does nothing more.
CHECK_DEADLOCK FALSE
