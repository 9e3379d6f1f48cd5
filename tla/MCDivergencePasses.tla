------------------------- MODULE MCDivergencePasses -------------------------
(* Small instances of DivergencePasses for TLC. *)
EXTENDS DivergencePasses
CONSTANTS barrier, new
Barriers == {barrier}
News == {new}
\* The barrier is where the new is, or in the entry, where nothing is rejected.
Placements == {p \in [{barrier, new} -> Block] : p[barrier] \in {1, p[new]}}
=============================================================================
