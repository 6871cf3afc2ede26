CONSTANTS
    MaxStartup = 9
    MaxGame = 2
SPECIFICATION LiveSpec
INVARIANT AcceptedIsReported
INVARIANT PlayFollowsReply
INVARIANT PlayOutlivesDeadline
INVARIANT NothingLeaks
PROPERTY ImplementsCommand
PROPERTY CommandReturns
CHECK_DEADLOCK FALSE
