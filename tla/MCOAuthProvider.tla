-------------------------- MODULE MCOAuthProvider --------------------------
(***************************************************************************)
(* Values for the constants of OAuthProvider: three clients, of which two  *)
(* can register and one has both URIs, and two codes, of which one fits    *)
(* into the table at a time.  The codes are interchangeable, and so are    *)
(* the clients with one URI.                                               *)
(***************************************************************************)
EXTENDS OAuthProvider, TLC

CONSTANTS c1, c2, c3, u1, u2

ThreeClients == {c1, c2, c3}
TwoRedirects == {u1, u2}
RegisteredURIs == [c \in ThreeClients |-> IF c = c1 THEN {u1, u2} ELSE {u1}]
Symmetry == Permutations(Codes) \cup Permutations({c2, c3})
============================================================================
