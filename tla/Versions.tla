------------------------------ MODULE Versions ------------------------------
(***************************************************************************)
(* Job versions (workspace/version.go), the specifiers of                  *)
(* backward_compatibility_from (workspace/version_specifier.go) and the    *)
(* min/max constraint of a hook's demand (workspace/demands.go).           *)
(*                                                                         *)
(* The text of a version is what its parser tells apart: the one to three  *)
(* release segments that are written, and the prerelease suffix, a number  *)
(* that stands for its place in the order of strings (0: there is none).   *)
(***************************************************************************)
EXTENDS Naturals, Sequences

Texts ==
  [segs : [1 .. 1 -> Nat] \cup [1 .. 2 -> Nat] \cup [1 .. 3 -> Nat], pre : Nat]
Versions == [major : Nat, minor : Nat, patch : Nat, pre : Nat]

(* Segments that are not written are zero. *)
ParseVersion(text) ==
  LET Segment(i) == IF i <= Len(text.segs) THEN text.segs[i] ELSE 0
  IN  [major |-> Segment(1), minor |-> Segment(2), patch |-> Segment(3),
       pre |-> text.pre]

DefaultAllocationVersion == [segs |-> <<0, 0, 0>>, pre |-> 0]

-----------------------------------------------------------------------------
(* Version.Compare: the release decides; of two equal releases a            *)
(* prerelease comes before the release, and prereleases compare as strings. *)
ReleaseBefore(v, w) ==
  \/ v.major < w.major
  \/ v.major = w.major /\ v.minor < w.minor
  \/ v.major = w.major /\ v.minor = w.minor /\ v.patch < w.patch

SameRelease(v, w) == v.major = w.major /\ v.minor = w.minor /\ v.patch = w.patch

PrereleaseBefore(v, w) == v.pre # 0 /\ (w.pre = 0 \/ v.pre < w.pre)

Before(v, w) == ReleaseBefore(v, w) \/ (SameRelease(v, w) /\ PrereleaseBefore(v, w))

AtMost(v, w) == ~Before(w, v)

-----------------------------------------------------------------------------
(* VersionSpecifier: an operator, the version and, for ~=, how many         *)
(* segments were written.                                                   *)
SpecifierOps == {"==", ">=", "<=", ">", "<", "~="}

ParseVersionSpecifier(op, text) ==
  [op |-> op, version |-> ParseVersion(text), segments |-> Len(text.segs)]

(* ~=1 admits everything below 2.0.0; ~=1.4 and ~=1.4.2 everything below    *)
(* 1.5.0.                                                                   *)
CompatibleUpper(anchor, segments) ==
  IF segments = 1
  THEN [major |-> anchor.major + 1, minor |-> 0, patch |-> 0, pre |-> 0]
  ELSE [major |-> anchor.major, minor |-> anchor.minor + 1, patch |-> 0, pre |-> 0]

CompatibleReleaseSatisfied(v, anchor, segments) ==
  AtMost(anchor, v) /\ Before(v, CompatibleUpper(anchor, segments))

SpecifierSatisfies(spec, v) ==
  CASE spec.op = "==" -> AtMost(v, spec.version) /\ AtMost(spec.version, v)
    [] spec.op = ">=" -> AtMost(spec.version, v)
    [] spec.op = "<=" -> AtMost(v, spec.version)
    [] spec.op = ">"  -> Before(spec.version, v)
    [] spec.op = "<"  -> Before(v, spec.version)
    [] spec.op = "~=" -> CompatibleReleaseSatisfied(v, spec.version, spec.segments)

(* An entry of the list holds when all its specifiers do, the list when one *)
(* entry does.                                                              *)
BackwardCompatibilitySatisfies(entries, v) ==
  \E set \in entries : \A spec \in set : SpecifierSatisfies(spec, v)

(* The bounds a demand may name, each a set that is empty when unset. *)
ConstraintConsistent(min, max) == \A a \in min, b \in max : AtMost(a, b)

ConstraintSatisfies(min, max, v) ==
  (\A a \in min : AtMost(a, v)) /\ (\A b \in max : AtMost(v, b))
=============================================================================
