----------------------------- MODULE MCGateway -----------------------------
(* Small instances of Gateway for TLC: a primary and a cheaper backup. *)
EXTENDS Gateway, TLC

MCRate == 1 :> 2 @@ 2 :> 1

(* An answer of the primary costs one or two units, one of the backup one. *)
MCCallCost == 1 :> {1, 2} @@ 2 :> {1}

(* Without a budget nothing depends on what an answer costs. *)
MCFree == 1 :> {0} @@ 2 :> {0}
=============================================================================
