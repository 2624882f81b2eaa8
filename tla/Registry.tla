------------------------------ MODULE Registry ------------------------------
(***************************************************************************)
(* The registry of generators, sinks, locales, LLM providers and toxicity  *)
(* classifiers: src/src/dataipsum/registry.py.                             *)
(*                                                                         *)
(* build_registry calls the register functions of the built-in packages    *)
(* and then loads the plugins that are allowed; a conflict of names or a   *)
(* plugin that does not import stops it halfway.  Whoever holds a Registry *)
(* may catch that error, register more by hand, or load the plugins again  *)
(* (register and load_plugins are public).                                 *)
(***************************************************************************)
EXTENDS Naturals, Sequences

CONSTANTS
  Namespaces,      \* "generators", "sinks", ...
  Names,           \* names to register under
  Values,          \* classes and objects registered
  Distributions,   \* names of installed distributions
  GeneratorPlugins, SinkPlugins,  \* entry_points(group), for the two groups
  MaxLoads         \* bound: calls of load_plugins in a behaviour

CONSTANTS Builtin, Nothing   \* BUILTIN_ORIGIN, and no value or origin

(* breaks says that EntryPoint.load() raises. *)
EntryPointRecords ==
  [namespace : {"generators", "sinks"}, name : Names, dist : Distributions,
   value : Values, breaks : BOOLEAN]

ASSUME RegistryAssumption ==
  /\ {"generators", "sinks"} \subseteq Namespaces
  /\ GeneratorPlugins \in Seq(EntryPointRecords)
  /\ SinkPlugins \in Seq(EntryPointRecords)
  /\ Builtin \notin Distributions
  /\ Nothing \notin Values \cup Distributions \cup {Builtin}
  /\ MaxLoads \in Nat

Keys    == Namespaces \X Names
Origins == Distributions \cup {Builtin}

VARIABLES
  entry,    \* the five dictionaries: key to value
  origin,   \* _origins: key to origin
  loaded,   \* loaded_plugins
  pc,       \* "builtins" and "loading" inside build_registry or load_plugins,
            \* "idle" when the caller has the registry
  env,      \* the distributions that DATAIPSUM_PLUGINS names (all for "*",
            \* none if it is not set), for the call of load_plugins
  noPlugins, \* whether --no-plugins was given
  todo,     \* entry points that the call of load_plugins has yet to visit
  warned,   \* entry points that it has passed over with a warning
  outcome,  \* how the last call ended
  loads     \* calls of load_plugins so far

tables  == <<entry, origin, loaded>>
loading == <<env, noPlugins, todo, warned, loads>>
vars    == <<tables, pc, loading, outcome>>

Records == [name : Names, origin : Distributions, namespace : Namespaces]

TypeOK ==
  /\ entry \in [Keys -> Values \cup {Nothing}]
  /\ origin \in [Keys -> Origins \cup {Nothing}]
  /\ loaded \in Seq(Records)
  /\ pc \in {"builtins", "loading", "idle"}
  /\ env \in SUBSET Distributions /\ noPlugins \in BOOLEAN
  /\ todo \in Seq(EntryPointRecords)
  /\ warned \in SUBSET EntryPointRecords
  /\ outcome \in {"none", "ok", "RegistryConflictError", "ImportError"}
  /\ loads \in 0..MaxLoads

Init ==
  /\ entry = [key \in Keys |-> Nothing]
  /\ origin = [key \in Keys |-> Nothing]
  /\ loaded = <<>>
  /\ pc = "builtins"
  /\ env = {} /\ noPlugins = TRUE
  /\ todo = <<>>
  /\ warned = {}
  /\ outcome = "none"
  /\ loads = 0

-----------------------------------------------------------------------------
BugTakenByBuiltin(key) == origin[key] = Builtin   \* only built-ins are protected
Taken(key) == origin[key] # Nothing

(* register, when the name is free. *)
Put(key, value, from) ==
  /\ entry' = [entry EXCEPT ![key] = value]
  /\ origin' = [origin EXCEPT ![key] = from]

(* register, by a built-in package or by hand: the origin is the default. *)
Register(key, value) ==
  /\ pc \in {"builtins", "idle"}
  /\ IF Taken(key)
     THEN /\ pc' = "idle"
          /\ outcome' = "RegistryConflictError"
          /\ UNCHANGED <<entry, origin>>
     ELSE /\ Put(key, value, Builtin)
          /\ outcome' = "none"
          /\ UNCHANGED pc
  /\ UNCHANGED <<loaded, loading>>

Allowed == IF noPlugins THEN {} ELSE env   \* resolve_allowed_plugins

(* load_plugins: the generators of every distribution, then the sinks. *)
LoadPlugins(named, off) ==
  /\ pc \in {"builtins", "idle"} /\ loads < MaxLoads
  /\ pc' = "loading"
  /\ env' = named
  /\ noPlugins' = off
  /\ todo' = GeneratorPlugins \o SinkPlugins
  /\ warned' = {}
  /\ outcome' = "none"
  /\ loads' = loads + 1
  /\ UNCHANGED tables

KeyOf(ep) == <<ep.namespace, ep.name>>

SkipPlugin ==
  /\ pc = "loading" /\ todo # <<>>
  /\ Head(todo).dist \notin Allowed
  /\ warned' = warned \cup {Head(todo)}
  /\ todo' = Tail(todo)
  /\ UNCHANGED <<tables, pc, env, noPlugins, outcome, loads>>

BugRecordsBeforeRegister ==   \* loaded_plugins.append before register can raise
  /\ pc = "loading" /\ todo # <<>>
  /\ Head(todo).dist \in Allowed
  /\ LET ep == Head(todo)
     IN  /\ loaded' = Append(loaded, [name |-> ep.name, origin |-> ep.dist,
                                      namespace |-> ep.namespace])
         /\ IF ep.breaks \/ Taken(KeyOf(ep))
            THEN pc' = "idle" /\ outcome' = "RegistryConflictError"
                 /\ UNCHANGED <<entry, origin, todo>>
            ELSE Put(KeyOf(ep), ep.value, ep.dist) /\ todo' = Tail(todo)
                 /\ UNCHANGED <<pc, outcome>>
  /\ UNCHANGED <<env, noPlugins, warned, loads>>

BugImportErrorSwallowed ==    \* a plugin that does not import is passed over silently
  /\ pc = "loading" /\ todo # <<>>
  /\ Head(todo).dist \in Allowed
  /\ LET ep == Head(todo)
     IN  IF ep.breaks
         THEN todo' = Tail(todo) /\ UNCHANGED <<tables, pc, outcome>>
         ELSE IF Taken(KeyOf(ep))
         THEN pc' = "idle" /\ outcome' = "RegistryConflictError" /\ UNCHANGED <<tables, todo>>
         ELSE /\ Put(KeyOf(ep), ep.value, ep.dist)
              /\ loaded' = Append(loaded, [name |-> ep.name, origin |-> ep.dist,
                                           namespace |-> ep.namespace])
              /\ todo' = Tail(todo)
              /\ UNCHANGED <<pc, outcome>>
  /\ UNCHANGED <<env, noPlugins, warned, loads>>

(* _load_entry_point: load, register and record, or stop at the first error; *)
(* whatever load() raises is an import error here.                           *)
LoadPlugin ==
  /\ pc = "loading" /\ todo # <<>>
  /\ Head(todo).dist \in Allowed
  /\ LET ep == Head(todo)
     IN  IF ep.breaks \/ Taken(KeyOf(ep))
         THEN /\ pc' = "idle"
              /\ outcome' = IF ep.breaks THEN "ImportError" ELSE "RegistryConflictError"
              /\ UNCHANGED <<tables, todo>>
         ELSE /\ Put(KeyOf(ep), ep.value, ep.dist)
              /\ loaded' = Append(loaded, [name |-> ep.name, origin |-> ep.dist,
                                           namespace |-> ep.namespace])
              /\ todo' = Tail(todo)
              /\ UNCHANGED <<pc, outcome>>
  /\ UNCHANGED <<env, noPlugins, warned, loads>>

FinishLoading ==
  /\ pc = "loading" /\ todo = <<>>
  /\ pc' = "idle"
  /\ outcome' = "ok"
  /\ UNCHANGED <<tables, loading>>

Next ==
  \/ \E key \in Keys, value \in Values : Register(key, value)
  \/ \E named \in SUBSET Distributions, off \in BOOLEAN : LoadPlugins(named, off)
  \/ SkipPlugin \/ LoadPlugin \/ FinishLoading

Spec == Init /\ [][Next]_vars

-----------------------------------------------------------------------------
(* Who registers a name first keeps it, value and origin: no plugin replaces *)
(* a built-in or another plugin, and no built-in a plugin, whatever is       *)
(* loaded or registered after, again, or after an error.                     *)
FirstComeFirstServed ==
  [][\A key \in Keys : origin[key] # Nothing =>
       entry'[key] = entry[key] /\ origin'[key] = origin[key]]_vars

(* loaded_plugins tells the truth although a load may stop anywhere: its     *)
(* records are the names whose origin is a distribution, each once, and the  *)
(* dictionaries hold a value for exactly the names that have an origin.      *)
RecordsTellTheTruth ==
  /\ \A key \in Keys : entry[key] = Nothing <=> origin[key] = Nothing
  /\ \A i \in DOMAIN loaded : origin[<<loaded[i].namespace, loaded[i].name>>] = loaded[i].origin
  /\ \A key \in Keys : origin[key] \in Distributions =>
       \E i \in DOMAIN loaded : key = <<loaded[i].namespace, loaded[i].name>>
  /\ \A i, j \in DOMAIN loaded :
       loaded[i].namespace = loaded[j].namespace /\ loaded[i].name = loaded[j].name => i = j

Elements(seq) == {seq[i] : i \in DOMAIN seq}

(* A load that ends well has dealt with every entry point: it is in the      *)
(* registry with its own value, or there was a warning for it.               *)
NoneForgotten ==
  pc = "idle" /\ outcome = "ok" =>
    \A ep \in Elements(GeneratorPlugins \o SinkPlugins) :
      ep \in warned \/ (entry[KeyOf(ep)] = ep.value /\ origin[KeyOf(ep)] = ep.dist)
=============================================================================
