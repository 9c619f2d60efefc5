CONSTANTS
    Users = {u1, u2}
    Founder = u1
    Requests = {r1, r2}
    MaxRequests = 4
    MaxFaults = 1
SPECIFICATION FairSpec
CHECK_DEADLOCK FALSE
INVARIANTS
    OneAtATime
    OwnerRemainsUncontested
PROPERTY RequestsEnd
