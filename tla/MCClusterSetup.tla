--------------------------- MODULE MCClusterSetup ---------------------------
(* ClusterSetup with the requests of each run.                             *)
EXTENDS ClusterSetup

Plain == [services |-> N, rename |-> FALSE, storage |-> FALSE, modern |-> TRUE,
          user |-> "empty", bucket |-> "empty", preview |-> FALSE]
Full  == [Plain EXCEPT !.storage = TRUE, !.user = "named", !.bucket = "named",
                       !.preview = TRUE]

(* Every optional part present or absent, pointers missing, a miscount.    *)
AllConfigs ==
  {Plain, Full, [Full EXCEPT !.rename = TRUE], [Plain EXCEPT !.user = "nil"],
   [Full EXCEPT !.modern = FALSE, !.user = "nil", !.bucket = "nil"],
   [Plain EXCEPT !.services = N + 1]}

FewConfigs == {Plain, [Full EXCEPT !.storage = FALSE, !.user = "empty"]}

WithBucket == {[Plain EXCEPT !.bucket = "named"]}

=============================================================================
