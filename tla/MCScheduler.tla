----------------------------- MODULE MCScheduler -----------------------------
(***************************************************************************)
(* Small instances of MatrixScheduler for TLC: two jobs.  In the first     *)
(* topology each worker has its own device, in the second the workers of   *)
(* two jobs drive the same device.                                         *)
(***************************************************************************)
EXTENDS MatrixScheduler, TLC

CONSTANTS w1, w2, d1, d2, j1, j2

MCJobOf == (w1 :> j1) @@ (w2 :> j2)
OwnDevice == (w1 :> d1) @@ (w2 :> d2)
SharedDevice == (w1 :> d1) @@ (w2 :> d1)

NoDeviceLimit == (d1 :> 0) @@ (d2 :> 0)
OneLimitedDevice == (d1 :> 1) @@ (d2 :> 0)
=============================================================================
