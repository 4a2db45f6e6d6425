------------------------- MODULE MCMigrationServer --------------------------
(* MigrationServer on a small instance: MCMigrationServer.cfg, and         *)
(* MCMigrationServerStored.cfg for what is stored without any fault.       *)
EXTENDS MigrationServer, TLC

CONSTANTS r1, o1, sat, sun

MCRepositories == {r1}
MCOrganisations == {o1}
MCDays == {sat, sun}

\* One day of the week; a window that spans midnight; one within a day.
MCTerms ==
  {[window |-> NoWindow, days |-> {sun}],
   [window |-> [start |-> 2, end |-> 1], days |-> {}],
   [window |-> [start |-> 0, end |-> 2], days |-> {}]}
=============================================================================
