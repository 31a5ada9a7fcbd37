SPECIFICATION Spec
CONSTANTS
    alice = alice
    bob = bob
    secretFile = secretFile
    plainFile = plainFile
    secretPattern = secretPattern
    badPattern = badPattern
    None = None
    Users <- MCUsers
    Files <- MCFiles
    Patterns <- MCPatterns
    BadPatterns <- MCBadPatterns
    Matches <- MCMatches
INVARIANTS
    GateIsSound
PROPERTIES
    GateCloses
