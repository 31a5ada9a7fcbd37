--------------------------- MODULE MCSecretRotation ---------------------------
(***************************************************************************)
(* Two administrators, two rotations, a window of one clock unit.          *)
(***************************************************************************)
EXTENDS SecretRotation, TLC

CONSTANTS a1, a2, k1, k2

MCAdmins == {a1, a2}
MCFingerprints == {k1, k2}
Perms == Permutations(MCAdmins) \cup Permutations(MCFingerprints)
=============================================================================
