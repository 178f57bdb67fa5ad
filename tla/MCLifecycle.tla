---------------------------- MODULE MCLifecycle ----------------------------
(* Request sets for the runs of ClusterLifecycle. *)
EXTENDS ClusterLifecycle, TLC

CONSTANTS c1, c2, u1, u2

Ask(op, u, adm, c, n, d) ==
  [op |-> op, user |-> u, admin |-> adm, cid |-> c, size |-> n, dur |-> d]

(* One cluster: its creator u1, a stranger and an admin. *)
OneCluster ==
  {Ask("alloc", u1, FALSE, c1, MaxNodes, 1), Ask("alloc", u2, FALSE, c1, MaxNodes, 1),
   Ask("refresh", u1, FALSE, c1, 0, 2), Ask("refresh", u2, TRUE, c1, 0, -1),
   Ask("kill", u1, FALSE, c1, 0, 0), Ask("kill", u2, FALSE, c1, 0, 0)}

(* Requests that are refused, a cluster c1 that is allocated and refreshed, *)
(* and a cluster c2 that was there before the daemon, refreshed and killed. *)
TwoClusters ==
  {Ask("alloc", u1, FALSE, c1, 1, 1), Ask("refresh", u1, FALSE, c1, 0, 2)}
    \cup {Ask("alloc", u1, FALSE, c1, 1, MaxLease + 1), Ask("alloc", u1, FALSE, c1, 0, 1)}
    \cup {Ask("refresh", u1, FALSE, c2, 0, 2), Ask("refresh", u2, TRUE, c2, 0, -1)}
    \cup {Ask("kill", u1, adm, c2, 0, 0) : adm \in BOOLEAN}

(* A cluster and its owner's attempts to kill it. *)
Basic ==
  {Ask("alloc", u1, FALSE, c1, MaxNodes, 1), Ask("kill", u1, FALSE, c1, 0, 0)}

Symmetry == Permutations(Req)
=============================================================================
