-------------------------- MODULE MCHTTPTransport --------------------------
(***************************************************************************)
(* Values for the constants of HTTPTransport: a control message between    *)
(* two chunks, which are of one transfer or of two.                        *)
(***************************************************************************)
EXTENDS HTTPTransport

ChunkMessages == {1, 3}
============================================================================
