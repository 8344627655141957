-------------------------- MODULE MCUnlockHandler --------------------------
(* UnlockHandler with two devices: one attachment of a phone to each.        *)
EXTENDS UnlockHandler, TLC

CONSTANTS d1, d2, caller

MCServers == {d1, d2}
MCSymmetry == Permutations(MCServers)
=============================================================================
