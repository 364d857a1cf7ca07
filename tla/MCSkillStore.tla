------------------------------ MODULE MCSkillStore ------------------------------
(* Instances of SkillStore for TLC: the constants are in the cfg files.    *)
EXTENDS SkillStore
=============================================================================
