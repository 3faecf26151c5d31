\* Channels of one frame, so a client falls behind while the handshake waits in
\* its channel; the log stream refuses its second connection.
SPECIFICATION FairSpec
CONSTANTS
    Requests = {r1, r2}
    Slots <- MCSlots
    Threshold = 2
    Buffer = 1
    QueueSize = 1
    MaxFrames = 1
    MaxNew = 1
    Nobody = Nobody
INVARIANTS EveryFrame BrokerSurvives LateGuesses
PROPERTIES ShutdownConverges
CHECK_DEADLOCK FALSE
