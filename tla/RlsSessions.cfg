CONSTANTS
    Users = {alice}
    Service = announcements
    Sessions = {s1, s2, s3, s4}
    Backends = {b1, b2}
    Nobody = nobody
    None = None
SPECIFICATION FairSpec
INVARIANTS
    RunsAsCaller
PROPERTY SessionsEnd
