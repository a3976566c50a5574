-------------------------- MODULE MCCatalogScan --------------------------
EXTENDS CatalogScan, TLC

CONSTANTS p1, p2, v1, v2

(* Two versions of one size whose samples collide. *)
MCSize == [v \in Version |-> 1]
MCQuick == [v \in Version |-> "same"]
MCMid == [v \in Version |-> "same"]
MCFirstDisk == {(p1 :> v1) @@ (p2 :> None)}
MCTargets == {[kind |-> "file", set |-> {p1}], [kind |-> "dir", set |-> {p2}]}
=============================================================================
