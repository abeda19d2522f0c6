----------------------------- MODULE MCManifest -----------------------------
(* The instance of Manifest for TLC.  Name 2 is the upper-case spelling of  *)
(* name 1; name 3 is a long one; name 4 is offerable and not plannable, as  *)
(* COM followed by a superscript digit is; name 5 cannot be offered.        *)
EXTENDS Manifest

MCName == 1..5
MCFold == [n \in MCName |-> IF n = 2 THEN 1 ELSE n]
MCSize == [n \in MCName |-> IF n = 3 THEN 2 ELSE 1]
=============================================================================
