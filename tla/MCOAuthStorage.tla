--------------------------- MODULE MCOAuthStorage --------------------------
(***************************************************************************)
(* Values for the constants of OAuthStorage: four clients, of which two    *)
(* fit into the registry at a time.                                        *)
(***************************************************************************)
EXTENDS OAuthStorage, TLC

CONSTANTS c1, c2, c3, c4

FourClients == {c1, c2, c3, c4}
Symmetry == Permutations(FourClients)
============================================================================
