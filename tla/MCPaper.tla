------------------------------ MODULE MCPaper ------------------------------
EXTENDS Paper

MCMixes ==
  {[events |-> {"opened", "closed"}, gets |-> {"positions"}, quiet |-> {FALSE}, ticks |-> FALSE],
   [events |-> {"opened", "closed", "mark"}, gets |-> {}, quiet |-> BOOLEAN, ticks |-> TRUE],
   [events |-> {"opened", "liquidated", "fees"}, gets |-> {}, quiet |-> {FALSE}, ticks |-> TRUE],
   [events |-> {"queued", "harvested", "opened"}, gets |-> {}, quiet |-> {FALSE}, ticks |-> TRUE],
   [events |-> {"fees", "claimed", "mark"}, gets |-> {"house"}, quiet |-> BOOLEAN, ticks |-> TRUE]}
=============================================================================
