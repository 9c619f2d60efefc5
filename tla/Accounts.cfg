CONSTANTS
    Emails <- MCEmails
    Lower <- MCLower
    Handles = {h1, h2}
    Keys = {dark, last}
    Values = {on}
    Passwords = {p, q}
    Requests = {r1, r2}
    MaxUsers = 2
    MaxStarts = 6
    Null = null
    Absent = Absent
SPECIFICATION AccountsSpec
SYMMETRY Symmetry
INVARIANTS
    AddressesUnambiguous
PROPERTIES
    PatchesKeepOtherKeys
    PasswordsChangeKnowingly
CHECK_DEADLOCK FALSE
