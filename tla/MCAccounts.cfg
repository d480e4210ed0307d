SPECIFICATION MCSpec
CONSTANTS
    r1 = r1
    r2 = r2
    ann = ann
    bob = bob
    Requests = {r1, r2}
    Users = {ann, bob}
    Active = {ann}
    Emails = {"a", "b", "c"}
    Passwords = {"old", "new"}
    ClientPatches <- MCClientPatches
    MayFail = TRUE
    MaxKeys = 2
    MaxTokens = 2
SYMMETRY MCSymmetry
\* The keys run out: a request that needs another one waits for ever.
CHECK_DEADLOCK FALSE
INVARIANTS
    TokensDieWithPassword
    NewAddressRevokesTokens
PROPERTY
    RevokedForGood
