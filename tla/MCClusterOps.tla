---------------------------- MODULE MCClusterOps ----------------------------
(* Requests for the runs of ClusterOps. *)
EXTENDS ClusterOps

CONSTANTS b1, b2

All == {[op |-> o, bucket |-> b1] : o \in {"bucket", "sample", "collection", "cert"}}
         \cup {[op |-> "sample", bucket |-> b2]}
=============================================================================
