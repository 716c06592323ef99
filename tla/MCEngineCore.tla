---------------------------- MODULE MCEngineCore ----------------------------
(* Instances of EngineCore for TLC. *)
EXTENDS EngineCore

T(i)    == [id |-> i, mm |-> NoVisual]
V(i, m) == [id |-> i, mm |-> m]

(* Prompts that share all but the image behind one placeholder token, one  *)
(* of them longer by a token, so that they end in different blocks.        *)
ImagePrompts == { <<T(1), V(9, "a"), T(1), T(1)>>, <<T(1), V(9, "b"), T(1)>> }

(* A long prompt beside a short one.                                       *)
SizedPrompts == { <<T(1)>>, <<T(1), T(2), T(1), T(1)>> }
=============================================================================
