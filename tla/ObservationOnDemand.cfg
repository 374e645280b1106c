SPECIFICATION ObservationFairSpec
CONSTANTS
    Observers = {o1}
    Encoder = encoder
    Revisions = {0, 1}
    MaxFrames = 1
    MaxClears = 0
    MaxPolicies = 0
    MaxRequests = 1
    Nil = Nil
PROPERTY OnDemandObserverAnswered
CHECK_DEADLOCK FALSE
