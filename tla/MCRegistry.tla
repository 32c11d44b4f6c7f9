----------------------------- MODULE MCRegistry -----------------------------
(* The third question reads like the second slug of the first one; the spot *)
(* markets 1 and 3 have the same name, 2 has none.                          *)
EXTENDS Registry, TLC

MCQuestion == 1 :> <<0>> @@ 2 :> <<0>> @@ 3 :> <<0, 2>>
MCNameOf == [s \in Spot |-> CASE s \in {1, 3} -> 1 [] s = 2 -> NoName [] OTHER -> s]

Of(kinds, ns) == [t : kinds, n : ns]
MCMixes ==
  {[events |-> Of({"spot"}, {1, 2, 3}) \union Of({"event", "order"}, {1}), asked |-> {1}],
   [events |-> Of({"event", "resolved"}, Event), asked |-> {}],
   [events |-> Of(Kinds, {0}) \union Of(Fills, {0, 1}), asked |-> {}]}
=============================================================================
