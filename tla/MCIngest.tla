------------------------------ MODULE MCIngest ------------------------------
(***************************************************************************)
(* Instances of Ingest for TLC.  A fleet is a table of devices and rows;   *)
(* each .cfg picks one, the limits and the number of faults.               *)
(***************************************************************************)
EXTENDS IngestInvariant

Good(id, m) == [decodes |-> TRUE, eventId |-> id, machineId |-> m, ts |-> "rfc3339",
                kind |-> "known", schemaVersion |-> "known", seq |-> "valid",
                payload |-> "encodable"]

MCMachines == {"m1", "m2"}
MCEventIds == {"x", "y"}

(* One device of one tenant with a good row, a row that passes validation  *)
(* and cannot be encoded, and a row about another machine.                 *)
MixedTenantOf  == [d \in Devices |-> "t1"]
MixedMachineOf == [d \in Devices |-> "m1"]
MixedEvents    == {"good", "poison", "foreign"}
MixedOwner     == [e \in Events |-> "d1"]
MixedRaw == [e \in Events |->
    CASE e = "good"   -> [Good("x", "m1") EXCEPT !.kind = "unknown"]
      [] e = "poison" -> [Good("y", "m1") EXCEPT !.payload = "poison"]
      [] OTHER        -> Good("y", "m2")]

(* Two tenants that use the same machine id and the same eventId; the      *)
(* first one has a row that cannot be encoded as well.                     *)
TwinTenantOf  == [d \in Devices |-> IF d = "d1" THEN "t1" ELSE "t2"]
TwinMachineOf == [d \in Devices |-> "m1"]
TwinEvents    == {"e1", "e2", "e3"}
TwinOwner     == [e \in Events |-> IF e = "e3" THEN "d2" ELSE "d1"]
TwinRaw == [e \in Events |-> IF e = "e2" THEN [Good("y", "m1") EXCEPT !.payload = "poison"]
                             ELSE Good("x", "m1")]
=============================================================================
