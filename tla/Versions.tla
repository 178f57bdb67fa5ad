------------------------------ MODULE Versions ------------------------------
(***************************************************************************)
(* Server versions as the daemon reads them (daemon/nodes.go).  A version  *)
(* string is the part before the dash, split at its dots (NaN stands for a *)
(* component that is no number), and the part after it ("" if there is no  *)
(* dash).                                                                  *)
(***************************************************************************)
EXTENDS Integers, Sequences

CONSTANT NoVersion   \* the empty string: no version

NaN == -1

Version(nums, tag) == [nums |-> nums, tag |-> tag]

versionToFlavor ==
  [major \in 4..7 |->
     IF major = 4 THEN [m \in {0, 5} |-> IF m = 0 THEN "sherlock" ELSE "watson"]
     ELSE IF major = 5 THEN [m \in {0, 5} |-> IF m = 0 THEN "spock" ELSE "vulcan"]
     ELSE IF major = 6 THEN [m \in {0, 5} |-> IF m = 0 THEN "alice" ELSE "mad-hatter"]
     ELSE [m \in {0} |-> "cheshire-cat"]]

(* The flavor, "error", or "panic" where the code indexes a component that *)
(* is not there.                                                           *)
flavorFromVersion(nums) ==
  LET major == nums[1]
      minor == IF nums[2] >= 5 THEN 5 ELSE 0
  IN  CASE major = NaN -> "error"
        [] major # NaN /\ Len(nums) < 2 -> "panic"
        [] major # NaN /\ Len(nums) >= 2 ->
             IF /\ nums[2] # NaN
                /\ major \in DOMAIN versionToFlavor
                /\ minor \in DOMAIN versionToFlavor[major]
             THEN versionToFlavor[major][minor] ELSE "error"

(* M.m-stable, M.m-release: what is looked up in the products file.        *)
IsAlias(v) == v.tag # "" /\ Len(v.nums) <= 2

(* products[nums][tag] where the file has such an entry.                   *)
aliasServerVersion(v, products) ==
  IF ~IsAlias(v) THEN v
  ELSE IF v.nums \in DOMAIN products /\ v.tag \in {"release", "stable"}
       THEN products[v.nums][v.tag]
       ELSE NoVersion

(* The NodeVersion, once there is a flavor.                                *)
parseServerVersion(v, ce) ==
  [version |-> v.nums, build |-> v.tag, flavor |-> flavorFromVersion(v.nums),
   edition |-> IF ce THEN "community" ELSE "enterprise"]

(* What distinguishes images; two editions share the tar file.             *)
toImageName(nv) == <<nv.edition, nv.version, nv.build>>
tarPath(nv)     == <<nv.version, nv.build>>

(* Where the package is (toURL and toPkgName): a release has no build, a   *)
(* build is found under its flavor.                                        *)
toURL(nv) ==
  IF nv.build = "" THEN <<nv.edition, nv.version>>
  ELSE <<nv.edition, nv.version, nv.build, nv.flavor>>

=============================================================================
