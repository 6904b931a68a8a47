---------------------------- MODULE MCWorkerPod ----------------------------
(* Small instances of WorkerPod. *)
EXTENDS WorkerPod, TLC

Mode(r, w, l) == [reconcile |-> r, rewinds |-> w, late |-> l]

(* The revision may go back only with reconcile. *)
Healing == {Mode(TRUE, TRUE, FALSE), Mode(TRUE, FALSE, TRUE),
            Mode(FALSE, FALSE, TRUE), Mode(FALSE, FALSE, FALSE)}
Rewound == {Mode(FALSE, TRUE, FALSE)}
=============================================================================
