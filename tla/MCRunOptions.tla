---------------------------- MODULE MCRunOptions ----------------------------
(* Calls that say of two fields whatever they like and nothing of the      *)
(* others: the fields meet only in the order of their errors.              *)
EXTENDS RunOptions

FieldPairs == { {"seed", "executor"}, {"chunk_size", "cpu_max"}, {"emit_schema", "sink"},
                {"mem_max", "cache_dir"} }

Defaults == [f \in Fields |-> IF f \in Optional THEN None ELSE "good"]
EnvTexts(f) == IF f \in Numbers THEN {Unset, "falsy", "odd", "garbage"}
               ELSE {Unset, "good", "garbage"}

CallsOn(pair) ==
  { [cli      |-> [f \in Fields |-> IF f \in pair THEN cli[f] ELSE None],
     env      |-> [f \in EnvFields |-> IF f \in pair THEN env[f] ELSE Unset],
     schema   |-> [f \in SchemaFields |-> IF f = "seed" THEN seed ELSE "other"],
     defaults |-> IF strange THEN [f \in Fields |-> IF f \in pair THEN "odd" ELSE Defaults[f]]
                  ELSE Defaults,
     plugins  |-> "some", noPlugins |-> strange] :
    cli \in [pair -> {None, "falsy", "odd", "other"}],
    env \in {e \in [pair -> UNION {EnvTexts(f) : f \in pair}] :
               \A f \in pair : e[f] \in EnvTexts(f)},
    seed \in {None, "falsy"}, strange \in BOOLEAN }

MCCalls == UNION {CallsOn(pair) : pair \in FieldPairs}
=============================================================================
