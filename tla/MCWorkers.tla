------------------------------ MODULE MCWorkers ------------------------------
(***************************************************************************)
(* Small instances of SendWorkers for TLC: the worker of a job that may be *)
(* cancelled and the worker of another job, on phones of their own.        *)
(***************************************************************************)
EXTENDS SendWorkers, TLC

CONSTANTS w1, w2, d1, d2, j1, j2

MCJobOf == (w1 :> j1) @@ (w2 :> j2)
OwnDevice == (w1 :> d1) @@ (w2 :> d2)
NoDeviceLimit == (d1 :> 0) @@ (d2 :> 0)
=============================================================================
