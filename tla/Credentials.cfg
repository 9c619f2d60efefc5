CONSTANTS
    Users = {alice}
    Clients = {web, service}
    PublicClients = {web}
    Requests = {r1, r2}
    MaxSecrets = 4
    MaxExpired = 1
    None = None
SPECIFICATION Spec
SYMMETRY Symmetry
INVARIANTS
    SingleUse
    LiveTokens
PROPERTY CodesOfLiveSessions
