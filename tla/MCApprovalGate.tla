--------------------------- MODULE MCApprovalGate ---------------------------
(* Two commenters, two files, one pattern that matches one of them and one  *)
(* that does not compile.                                                   *)
EXTENDS ApprovalGate

CONSTANTS alice, bob, secretFile, plainFile, secretPattern, badPattern

MCUsers       == {alice, bob}
MCFiles       == {secretFile, plainFile}
MCPatterns    == {secretPattern, badPattern}
MCBadPatterns == {badPattern}
MCMatches     == {<<secretFile, secretPattern>>, <<plainFile, badPattern>>}
=============================================================================
