-------------------------- MODULE MCDeviceRegistry --------------------------
(***************************************************************************)
(* Values for the constants of DeviceRegistry: hellos of a device a, and    *)
(* one of a device b.                                                       *)
(***************************************************************************)
EXTENDS DeviceRegistry

CONSTANTS a, b, a1, a2, b1

MCNames == {a, b}
MCSessions == {a1, a2, b1}
MCNameOf == [s \in MCSessions |-> IF s = b1 THEN b ELSE a]
=============================================================================
