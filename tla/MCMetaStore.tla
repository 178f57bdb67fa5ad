---------------------------- MODULE MCMetaStore ----------------------------
(* Three overlapping calls on two cluster ids; the times include odd ticks *)
(* (a fraction of a second), equal times and times in either order.        *)
EXTENDS MetaStore

MCCall ==
  [op : {"create", "update"}, cid : Cluster,
   meta : [owner : User, timeout : {2, 3, 5}]]

=============================================================================
