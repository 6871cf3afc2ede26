CONSTANTS
    MaxFrames = 2
SPECIFICATION LiveSpec
INVARIANT Relayed
INVARIANT CloseCodeHonest
PROPERTY Teardown
PROPERTY SocketEndsWithSession
CHECK_DEADLOCK FALSE
PROPERTY VanishedBrowserNoticed
