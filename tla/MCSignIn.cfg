SPECIFICATION Spec
CONSTANTS
    u1 = u1
    u2 = u2
    s1 = s1
    s2 = s2
    k1 = k1
    k2 = k2
    mail2 = mail2
    mail = mail
    noEmail = noEmail
    none = none
    Requests = {r1, r2}
    Users = {u1, u2, u3}
    Passkeys = {k1, k2}
    Subjects = {s1, s2}
    Emails = {mail, mail2, noEmail}
    Address <- MCAddress
    NoEmail = noEmail
    Codes = {1, 2}
    None = none
    MfaFields = TRUE
    Starts <- MCStarts
SYMMETRY Symmetry
INVARIANTS
    RecoveryCodesAreSpent
    PasskeysKept
    ChallengesOnce
    OneAccountPerIdentity
CHECK_DEADLOCK FALSE
