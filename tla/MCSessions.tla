----------------------------- MODULE MCSessions -----------------------------
(* An oracle feed, a paper house feed, one user in two spellings, and the *)
(* state of that user.                                                    *)
EXTENDS Sessions, TLC

MCFeed ==
  "oracle" :> [kind |-> "mark", topics |-> {"mark"}, stream |-> "oracle"]
  @@ "house" :> [kind |-> "mark", topics |-> {"house"}, stream |-> "house"]
  @@ "user" :> [kind |-> "user", topics |-> {"hub"}, stream |-> "user"]
  @@ "USER" :> [kind |-> "user", topics |-> {"hub"}, stream |-> "user"]
  @@ "state" :> [kind |-> "state", topics |-> {"hub", "stake"}, stream |-> "state"]
MCMixes ==
  {[keys |-> {"oracle"}, pubs |-> 3, reqs |-> 3], [keys |-> {"house"}, pubs |-> 3, reqs |-> 2],
   [keys |-> {"user", "USER"}, pubs |-> 2, reqs |-> 2], [keys |-> {"state"}, pubs |-> 2, reqs |-> 2]}
=============================================================================
