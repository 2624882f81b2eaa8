---------------------------- MODULE MCUserInput -----------------------------
(* All the sources of schemas before a call that is refused at its second    *)
(* variable, and all the calls after one schema.                             *)
EXTENDS UserInput, MCRunOptions, MCSchemaSources

PlainSource == [given |-> "flags", table |-> TRUE, cols |-> <<[name |-> "a", type |-> "int", flags |-> <<>>]>>]
RefusedCall ==
  [cli      |-> NoValues,
   env      |-> [f \in EnvFields |-> IF f = "seed" THEN "garbage" ELSE Unset],
   schema   |-> [f \in SchemaFields |-> "other"],
   defaults |-> Defaults,
   plugins  |-> "none", noPlugins |-> FALSE]

MCAllCalls == MCCalls \cup {RefusedCall}

MCInit == /\ source = PlainSource \/ call = RefusedCall
          /\ UserInputInit
MCSpec == MCInit /\ [][UserInputNext]_<<vars, sourcesVars>>
=============================================================================
