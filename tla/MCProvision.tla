---------------------------- MODULE MCProvision ----------------------------
(* Requests, products files and builds for the runs of Provision. *)
EXTENDS Provision

stable  == Version(<<7, 0>>, "stable")
release == Version(<<7, 0>>, "release")
b1 == Version(<<7, 0, 0>>, "b1")
b2 == Version(<<7, 0, 0>>, "b2")
r6 == Version(<<6, 6, 0>>, "")

(* The stable build moves from b1 to b2; there is no release until then.   *)
TwoProducts ==
  <<[n \in {<<7, 0>>} |-> [stable |-> b1, release |-> NoVersion]],
    [n \in {<<7, 0>>} |-> [stable |-> b2, release |-> r6]]>>

Create(vs) == [op |-> "create", nodes |-> [i \in DOMAIN vs |-> <<vs[i], FALSE>>]]
Build(v, c) == [op |-> "build", nodes |-> <<<<v, c>>>>]

Requests ==
  {Create(<<stable, stable>>), Create(<<r6, release>>),
   Create(<<Version(<<7>>, "")>>), Create(<<b1, b1>>),
   [op |-> "create", nodes |-> <<<<b1, FALSE>>, <<b1, TRUE>>>>],
   Build(b1, FALSE), Build(b1, TRUE), Build(Version(<<7, 6, 0>>, "b1"), FALSE)}

AllBuilds ==
  {toURL(parseServerVersion(v, c)) : v \in {b1, b2, r6}, c \in BOOLEAN}

AllVersions == {stable, release, b1, b2, r6, Version(<<7>>, ""), Version(<<7, 6, 0>>, "b1")}

=============================================================================
