SPECIFICATION Spec
CONSTANTS
    a1 = a1
    a2 = a2
    k1 = k1
    k2 = k2
    Admins <- MCAdmins
    Fingerprints <- MCFingerprints
    MaxSecret = 2
    MaxTime = 2
    Overlap = 1
    None = None
SYMMETRY Perms
INVARIANTS
    VerdictsAreTrue
    SecretsKeepTheirWindow
CHECK_DEADLOCK FALSE
