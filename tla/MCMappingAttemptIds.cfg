SPECIFICATION Spec
CONSTANTS
    Stack = "columnId"
    MaxBytes = 65536
    Sizes <- MCSizes
    Envelope = 676
    Headers = 896
    Ids = 544
    Binding = 187
    Stops <- MCStops
    Null = Null
INVARIANT
    EveryAttemptIsRecorded
