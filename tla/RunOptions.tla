----------------------------- MODULE RunOptions -----------------------------
(***************************************************************************)
(* Options of a run from the command line, the environment, the schema and *)
(* the defaults: resolve_run_options of src/src/dataipsum/config.py.       *)
(*                                                                         *)
(* The environment is parsed first, all of it, and each parser may raise;  *)
(* then the fields are resolved and validated one after the other, as the  *)
(* arguments of RunOptions are evaluated.  A value is reduced to what the  *)
(* parsers and validators tell apart.                                      *)
(***************************************************************************)
EXTENDS Naturals, Sequences

CONSTANT Calls   \* the calls that callers make

(* The arguments of RunOptions in the order of the call, but for           *)
(* allow_plugins, which comes from no layer.                               *)
FieldOrder == << "out_dir", "sink", "seed", "chunk_size", "executor", "cpu_max",
                 "mem_max", "max_rows", "llm_on_failure", "emit_schema", "dialect",
                 "cache_dir" >>

(* The fields that a variable sets, in the order of _read_env_overrides:   *)
(* those of _ENV_VAR_PARSERS and emit_schema.                              *)
EnvOrder == << "out_dir", "seed", "chunk_size", "executor", "cpu_max", "mem_max",
               "max_rows", "llm_on_failure", "dialect", "cache_dir", "emit_schema" >>

EnvFields    == {"out_dir", "seed", "chunk_size", "executor", "cpu_max", "mem_max",
                 "max_rows", "llm_on_failure", "dialect", "cache_dir", "emit_schema"}
Fields       == EnvFields \cup {"sink"}
SchemaFields == {"seed", "chunk_size"}
Percentages  == {"cpu_max", "mem_max"}
Numbers      == Percentages \cup {"seed", "chunk_size", "max_rows"}

(* "falsy" is 0, "" or (); "good" and "other" are values that the          *)
(* validators accept, "odd" one that they do not.                          *)
Values == {"falsy", "good", "other", "odd"}
None   == "None"
Malformed == "malformed"   \* the parser raises ValueError
Unset  == ""               \* a variable that is not set, or is empty
Texts  == Values \cup {Unset, "garbage"}

(* The validators of the constructor's arguments. *)
Valid == [f \in Fields |->
            CASE f = "executor"      -> {"good", "other"}
              [] f \in Percentages   -> {"good", "other"}
              [] f = "emit_schema"   -> {"falsy", "good", "other"}
              [] OTHER               -> Values]

(* What a parser makes of a variable that is set: int and float take       *)
(* numbers, _validate_executor the two executors, Path, str and the list   *)
(* of emit_schema anything.                                                *)
Parsed(f, text) ==
  CASE f \in Numbers    -> IF text = "garbage" THEN Malformed ELSE text
    [] f = "executor"   -> IF text \in Valid["executor"] THEN text ELSE Malformed
    [] OTHER            -> IF text = "garbage" THEN "odd" ELSE text

(* A schema always has a chunk_size, the defaults all that is not          *)
(* optional; they are a RunOptions, which validates nothing itself.        *)
Optional == SchemaFields \cup {"max_rows", "llm_on_failure", "dialect", "cache_dir"}
CallRecords ==
  [cli : [Fields -> Values \cup {None}], env : [EnvFields -> Texts],
   schema : {s \in [SchemaFields -> Values \cup {None}] : s["chunk_size"] # None},
   defaults : {d \in [Fields -> Values \cup {None}] :
                 \A f \in Fields \ Optional : d[f] # None},
   plugins : {"none", "some", "all"},   \* what DATAIPSUM_PLUGINS names
   noPlugins : BOOLEAN]                 \* cli_overrides["no_plugins"]

ASSUME CallsAssumption == Calls \subseteq CallRecords /\ Calls # {}

VARIABLES
  call,      \* the arguments of the call
  pc,        \* "env", "fields", "returned" or "raised"
  next,      \* position in EnvOrder or in FieldOrder
  envLayer,  \* _read_env_overrides: field to value, None where it has no key
  allowed,   \* allow_plugins
  options    \* the arguments evaluated so far

vars == <<call, pc, next, envLayer, allowed, options>>

TypeOK ==
  /\ call \in CallRecords
  /\ pc \in {"env", "fields", "returned", "raised"}
  /\ next \in 1..Len(FieldOrder) + 1
  /\ envLayer \in [Fields -> Values \cup {None}]
  /\ allowed \in {"none", "some", "all"}
  /\ options \in [Fields -> Values \cup {None}]

NoValues == [f \in Fields |-> None]

Init ==
  /\ call \in Calls
  /\ pc = "env"
  /\ next = 1
  /\ envLayer = NoValues
  /\ allowed = "none"
  /\ options = NoValues

Raise ==
  /\ pc' = "raised"
  /\ UNCHANGED <<call, next, envLayer, allowed, options>>

(* One variable: those that are not set, or empty, give no key. *)
ReadVariable ==
  /\ pc = "env" /\ next <= Len(EnvOrder)
  /\ LET f == EnvOrder[next]
         value == IF call.env[f] = Unset THEN None ELSE Parsed(f, call.env[f])
     IN \/ /\ value = Malformed
           /\ Raise
        \/ /\ value # Malformed
           /\ envLayer' = [envLayer EXCEPT ![f] = value]
           /\ next' = next + 1
           /\ UNCHANGED <<call, pc, allowed, options>>

AllowPlugins ==
  /\ pc = "env" /\ next > Len(EnvOrder)
  /\ allowed' = IF call.noPlugins THEN "none" ELSE call.plugins
  /\ pc' = "fields"
  /\ next' = 1
  /\ UNCHANGED <<call, envLayer, options>>

FromSchema(f) == IF f \in SchemaFields THEN call.schema[f] ELSE None

(* _resolve_field: the first layer whose value is not None. *)
BugResolvedTruthy(f) ==              \* "if value" instead of "is not None"
  LET Says(v) == v \notin {None, "falsy"}
  IN CASE Says(call.cli[f])      -> call.cli[f]
       [] Says(envLayer[f])      -> envLayer[f]
       [] Says(FromSchema(f))    -> FromSchema(f)
       [] OTHER                  -> call.defaults[f]
Resolved(f) ==
  IF call.cli[f] # None THEN call.cli[f]
  ELSE IF envLayer[f] # None THEN envLayer[f]
  ELSE IF FromSchema(f) # None THEN FromSchema(f)
  ELSE call.defaults[f]

ResolveField ==
  /\ pc = "fields" /\ next <= Len(FieldOrder)
  /\ LET f == FieldOrder[next]
     IN \/ /\ Resolved(f) \notin Valid[f] \cup {None}
           /\ Raise
        \/ /\ Resolved(f) \in Valid[f] \cup {None}
           /\ options' = [options EXCEPT ![f] = Resolved(f)]
           /\ next' = next + 1
           /\ UNCHANGED <<call, pc, envLayer, allowed>>

Return ==
  /\ pc = "fields" /\ next > Len(FieldOrder)
  /\ pc' = "returned"
  /\ UNCHANGED <<call, next, envLayer, allowed, options>>

Next == ReadVariable \/ AllowPlugins \/ ResolveField \/ Return

Spec == Init /\ [][Next]_vars

-----------------------------------------------------------------------------
EnvSays(f) ==
  IF f \notin EnvFields THEN None
  ELSE IF call.env[f] = Unset THEN None ELSE Parsed(f, call.env[f])

Layers == << call.cli, [f \in Fields |-> EnvSays(f)],
             [f \in Fields |-> FromSchema(f)], call.defaults >>

Precedence == INSTANCE OptionPrecedence
  WITH Values <- Values \cup {Malformed}, Silent <- None, Depth <- 4,
       Acceptable <- Valid,
       says <- Layers,
       answer <- IF pc = "returned" THEN options ELSE NoValues,
       verdict <- CASE pc = "returned" -> "answered"
                    [] pc = "raised"   -> "refused"
                    [] OTHER           -> "open"

(* Command line over environment over schema over defaults, zero, the      *)
(* empty list and None told apart, and a refusal only for a value that     *)
(* some layer holds and no validator or parser takes (config.py 133-164).  *)
ImplementsPrecedence == Precedence!Spec
=============================================================================
