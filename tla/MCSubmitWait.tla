---------------------------- MODULE MCSubmitWait ----------------------------
(***************************************************************************)
(* Two requests with the same signed transaction and a third with its own. *)
(***************************************************************************)
EXTENDS SubmitWait

MCRequest == {"r1", "r2", "r3"}
MCDigest == {"d1", "d2"}
MCDigestOf == [r \in MCRequest |-> IF r = "r3" THEN "d2" ELSE "d1"]

=============================================================================
