------------------------- MODULE MCLocalAttestation -------------------------
(* Enclaves by name: u and h run the user code, s the sensor code. *)
EXTENDS LocalAttestation

MCIdentity == [e \in Enclaves |-> IF e \in {"u", "h"} THEN "user" ELSE "sensor"]
MCLoadOrder == <<"s", "u", "h">>
MCTrapData == Enclaves \cup {"main"}
=============================================================================
