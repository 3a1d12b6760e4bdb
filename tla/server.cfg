SPECIFICATION FairSpec
CONSTANTS
    c1 = c1
    c2 = c2
    Client = {c1, c2}
    GivenLimits = {"given"}
    DefaultLimits = "default"
    Mechanism = {"LOGIN", "PLAIN", "CRAM-MD5"}
    MaxTries = 2
    MaxErrors = 1
INVARIANTS
    StoredOnce
    AuthEnforced
PROPERTIES
    ConnectionServed
