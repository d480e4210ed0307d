SPECIFICATION Spec
CONSTANTS
    c1 = c1
    c2 = c2
    i1 = i1
    i2 = i2
    k1 = k1
    k2 = k2
    Calls <- MCCalls
    OtpIds <- MCOtpIds
    Codes <- MCCodes
    Emails = {"a"}
    MaxAttempts = 2
    Duration = 1
    MaxTime = 2
SYMMETRY MCSymmetry
INVARIANTS
    OneTokenPerCode
    AttemptsBounded
PROPERTY
    LiveCodeKept
