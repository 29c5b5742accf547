-------------------------- MODULE MCRefreshTokens ---------------------------
(***************************************************************************)
(* Small instances of RefreshTokens and TenantAccess.                      *)
(***************************************************************************)
EXTENDS RefreshTokens, TLC

CONSTANTS c1, c2, c3, d1, d2

CallSymmetry == Permutations(Calls) \cup Permutations(Devices)

=============================================================================
