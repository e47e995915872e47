--------------------------- MODULE MemoryIndexMC ---------------------------
(* The moments at which the files are written, by scenario. *)
EXTENDS MemoryIndex

Offline  == {<<"edit", "down">>, <<"remove", "down">>}
Quietly  == Offline \cup {<<"edit", "quiet">>, <<"remove", "quiet">>}
Orderly  == Quietly \cup {<<"touch", "quiet">>, <<"forget", "quiet">>}
Repeated == Orderly \cup {<<"touch", "busy">>}

Hasty    == Quietly \cup ({"edit", "remove"} \X {"syncing"}) \cup {<<"remove", "busy">>}

(* Kills and failing services; stores that refuse; one event for each write;   *)
(* repeated events; writers that do not wait.                                  *)
Considered ==
  {[deeds |-> Quietly, crash |-> TRUE, faults |-> {"embed", "upsert"}],
   [deeds |-> Quietly, crash |-> TRUE, faults |-> {"delete"}],
   [deeds |-> Quietly, crash |-> TRUE, faults |-> {"rows"}],
   [deeds |-> Orderly, crash |-> FALSE, faults |-> {}],
   [deeds |-> Repeated, crash |-> FALSE, faults |-> {}],
   [deeds |-> Hasty, crash |-> FALSE, faults |-> {}]}
=============================================================================
