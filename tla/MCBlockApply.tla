---------------------------- MODULE MCBlockApply ----------------------------
(* Two markets; "a1" and "a2" are rows of market A, "b1" of market B. *)
EXTENDS BlockApply

MCOwner == [k \in Key |-> IF k = "b1" THEN "B" ELSE "A"]

=============================================================================
