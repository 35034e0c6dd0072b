----------------------------- MODULE MCPrograms -----------------------------
(* Instances of Programs for TLC. *)
EXTENDS Programs

(* Every construct by itself, every pair with an import of rospy, and what *)
(* cannot be migrated at all.                                              *)
MCContents ==
  {{"unreadable"}, {"syntax"}, {"symlink"}, {}} \union
  {{"import"} \union S : S \in {T \in SUBSET (Constructs \ {"unreadable", "syntax", "symlink"}) :
                                  Cardinality(T) <= 2}} \union
  {{"from", "reference"}, {"alias", "other"}, {"submodule", "reference"}}

(* For two files: tests apart, one for both, the first where the second    *)
(* node goes, and the second where the first node is.                      *)
MCLayouts == {<<3, 4>>, <<3, 3>>, <<2, 3>>, <<3, 1>>}
=============================================================================
