------------------------ MODULE MCDeviceTransfers ------------------------
(***************************************************************************)
(* Values for the constants of DeviceTransfers.  Sessions a1 and a2 both   *)
(* register as device "a" (a reconnection), b1 and c1 as "b" and "c".      *)
(***************************************************************************)
EXTENDS DeviceTransfers, TLC

CONSTANTS a, b, c, a1, a2, b1, c1

NameReconnect == a1 :> a @@ a2 :> a @@ b1 :> b
NamePair == a1 :> a @@ b1 :> b
NameThree == a1 :> a @@ b1 :> b @@ c1 :> c

\* Transfer ids are random, so no code depends on which is which.
TransferSymmetry == Permutations(Transfers)
=============================================================================
