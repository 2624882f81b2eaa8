--------------------------- MODULE RegistryProofs ---------------------------
(***************************************************************************)
(* Theorems of Registry for all namespaces, names, distributions and entry *)
(* points, and any number of loads: names are never taken over, the        *)
(* records of loaded plugins are exact, and no entry point is forgotten.   *)
(*                                                                         *)
(* RecordsTellTheTruth is inductive together with the types of its parts;  *)
(* NoneForgotten needs that, during a load, what is not in the queue any   *)
(* more has been dealt with (ProgressInv).                                 *)
(***************************************************************************)
EXTENDS Registry, TLAPS

TypeInv ==
  /\ entry \in [Keys -> Values \cup {Nothing}]
  /\ origin \in [Keys -> Origins \cup {Nothing}]
  /\ loaded \in Seq(Records)
  /\ todo \in Seq(EntryPointRecords)

Inv == TypeInv /\ RecordsTellTheTruth

LEMMA EntryPointsAreTyped == GeneratorPlugins \o SinkPlugins \in Seq(EntryPointRecords)
BY RegistryAssumption

(* The next entry point of a load. *)
LEMMA HeadFacts ==
  ASSUME TypeInv, todo # <<>>
  PROVE  /\ Head(todo) \in EntryPointRecords
         /\ KeyOf(Head(todo)) \in Keys
         /\ Tail(todo) \in Seq(EntryPointRecords)
<1>1. Head(todo) \in EntryPointRecords /\ Tail(todo) \in Seq(EntryPointRecords)
  BY DEF TypeInv
<1>2. Head(todo).namespace \in Namespaces /\ Head(todo).name \in Names
  BY <1>1, RegistryAssumption DEF EntryPointRecords
<1>3. QED
  BY <1>1, <1>2 DEF KeyOf, Keys

(* The dictionaries, the records and the queue of a load keep their types.   *)
THEOREM TypesStay == Spec => []TypeInv
<1>1. Init => TypeInv
  BY DEF Init, TypeInv
<1>2. TypeInv /\ [Next]_vars => TypeInv'
  <2> SUFFICES ASSUME TypeInv, [Next]_vars PROVE TypeInv'
    OBVIOUS
  <2> USE DEF TypeInv, tables, loading
  <2>1. ASSUME NEW key \in Keys, NEW value \in Values, Register(key, value) PROVE TypeInv'
    BY <2>1 DEF Register, Put, Origins
  <2>2. ASSUME NEW named, NEW off, LoadPlugins(named, off) PROVE TypeInv'
    BY <2>2, EntryPointsAreTyped DEF LoadPlugins
  <2>3. CASE SkipPlugin
    BY <2>3, HeadFacts DEF SkipPlugin
  <2>4. CASE LoadPlugin
    <3>1. /\ Head(todo) \in EntryPointRecords /\ KeyOf(Head(todo)) \in Keys
          /\ Tail(todo) \in Seq(EntryPointRecords)
      BY <2>4, HeadFacts DEF LoadPlugin
    <3>2. Head(todo).value \in Values /\ Head(todo).dist \in Origins
      BY <3>1 DEF EntryPointRecords, Origins
    <3>3. [name |-> Head(todo).name, origin |-> Head(todo).dist,
           namespace |-> Head(todo).namespace] \in Records
      BY <3>1, RegistryAssumption DEF EntryPointRecords, Records
    <3>4. CASE Head(todo).breaks \/ Taken(KeyOf(Head(todo)))
      BY <2>4, <3>4 DEF LoadPlugin
    <3>5. CASE ~(Head(todo).breaks \/ Taken(KeyOf(Head(todo))))
      <4>1. /\ entry' = [entry EXCEPT ![KeyOf(Head(todo))] = Head(todo).value]
            /\ origin' = [origin EXCEPT ![KeyOf(Head(todo))] = Head(todo).dist]
            /\ loaded' = Append(loaded, [name |-> Head(todo).name, origin |-> Head(todo).dist,
                                         namespace |-> Head(todo).namespace])
            /\ todo' = Tail(todo)
        BY <2>4, <3>5 DEF LoadPlugin, Put
      <4>2. entry' \in [Keys -> Values \cup {Nothing}]
        BY <3>2, <4>1
      <4>3. origin' \in [Keys -> Origins \cup {Nothing}]
        BY <3>2, <4>1
      <4>4. loaded' \in Seq(Records)
        BY <3>3, <4>1
      <4>5. QED
        BY <3>1, <4>1, <4>2, <4>3, <4>4
    <3>6. QED
      BY <3>4, <3>5
  <2>5. CASE FinishLoading
    BY <2>5 DEF FinishLoading
  <2>6. CASE UNCHANGED vars
    BY <2>6 DEF vars
  <2>7. QED
    BY <2>1, <2>2, <2>3, <2>4, <2>5, <2>6 DEF Next
<1>3. QED
  BY <1>1, <1>2, PTL DEF Spec

(* The registry's tables change only where a free name is put. *)
LEMMA OnlyFreeNames ==
  ASSUME TypeInv, [Next]_vars
  PROVE  \/ UNCHANGED <<entry, origin>>
         \/ \E key \in Keys, value \in Values, from \in Origins :
              ~Taken(key) /\ Put(key, value, from)
<1> USE DEF tables, loading
<1>1. ASSUME NEW key \in Keys, NEW value \in Values, Register(key, value)
      PROVE  UNCHANGED <<entry, origin>> \/ (~Taken(key) /\ Put(key, value, Builtin))
  BY <1>1 DEF Register
<1>2. CASE LoadPlugin
  <2>1. UNCHANGED <<entry, origin>>
        \/ (~Taken(KeyOf(Head(todo))) /\ Put(KeyOf(Head(todo)), Head(todo).value, Head(todo).dist))
    BY <1>2 DEF LoadPlugin
  <2>2. /\ KeyOf(Head(todo)) \in Keys /\ Head(todo).value \in Values /\ Head(todo).dist \in Origins
    BY <1>2, HeadFacts DEF LoadPlugin, EntryPointRecords, Origins
  <2>3. QED
    BY <2>1, <2>2
<1>3. ASSUME NEW named, NEW off, LoadPlugins(named, off) PROVE UNCHANGED <<entry, origin>>
  BY <1>3 DEF LoadPlugins
<1>4. CASE SkipPlugin \/ FinishLoading \/ UNCHANGED vars
  BY <1>4 DEF SkipPlugin, FinishLoading, vars
<1>5. QED
  BY <1>1, <1>2, <1>3, <1>4 DEF Next, Origins

(* A name keeps the value and the origin it was first registered with. *)
THEOREM NamesAreKept == Spec => FirstComeFirstServed
<1>1. TypeInv /\ [Next]_vars =>
        [\A key \in Keys : origin[key] # Nothing =>
           entry'[key] = entry[key] /\ origin'[key] = origin[key]]_vars
  <2> SUFFICES ASSUME TypeInv, [Next]_vars, NEW key \in Keys, origin[key] # Nothing
               PROVE  entry'[key] = entry[key] /\ origin'[key] = origin[key]
    OBVIOUS
  <2>1. CASE UNCHANGED <<entry, origin>>
    BY <2>1
  <2>2. ASSUME NEW free \in Keys, NEW value \in Values, NEW from \in Origins,
               ~Taken(free), Put(free, value, from)
        PROVE  entry'[key] = entry[key] /\ origin'[key] = origin[key]
    BY <2>2 DEF Taken, Put, TypeInv
  <2>3. QED
    BY <2>1, <2>2, OnlyFreeNames
<1>2. QED
  BY <1>1, TypesStay, PTL DEF Spec, FirstComeFirstServed

(* The name and namespace of a record. *)
KeyOfRecord(i) == <<loaded[i].namespace, loaded[i].name>>

LEMMA RegisterKeepsRecords ==
  ASSUME Inv, NEW key \in Keys, NEW value \in Values, Register(key, value)
  PROVE  RecordsTellTheTruth'
<1> USE DEF Inv, TypeInv, RecordsTellTheTruth
<1>1. CASE Taken(key)
  BY <1>1 DEF Register
<1>2. CASE ~Taken(key)
  <2>1. /\ entry' = [entry EXCEPT ![key] = value] /\ origin' = [origin EXCEPT ![key] = Builtin]
        /\ loaded' = loaded
    BY <1>2 DEF Register, Put
  <2>2. value # Nothing /\ Builtin # Nothing /\ Builtin \notin Distributions
    BY RegistryAssumption
  <2>3. \A i \in DOMAIN loaded : loaded[i] \in Records /\ loaded[i].origin \in Distributions
    <3>1. \A i \in DOMAIN loaded : loaded[i] \in Records
      OBVIOUS
    <3>2. \A r \in Records : r.origin \in Distributions
      BY DEF Records
    <3>3. QED
      BY <3>1, <3>2
  <2>4. \A i \in DOMAIN loaded : KeyOfRecord(i) # key
    BY <1>2, <2>3, RegistryAssumption DEF Taken, KeyOfRecord
  <2>5. \A i \in DOMAIN loaded : KeyOfRecord(i) \in Keys
    BY <2>3 DEF KeyOfRecord, Records, Keys
  <2>6. QED
    BY <2>1, <2>2, <2>4, <2>5 DEF KeyOfRecord
<1>3. QED
  BY <1>1, <1>2

LEMMA LoadKeepsRecords ==
  ASSUME Inv, LoadPlugin
  PROVE  RecordsTellTheTruth'
<1> USE DEF Inv, TypeInv, RecordsTellTheTruth
<1> DEFINE ep == Head(todo)
           rec == [name |-> ep.name, origin |-> ep.dist, namespace |-> ep.namespace]
<1>1. CASE ep.breaks \/ Taken(KeyOf(ep))
  BY <1>1 DEF LoadPlugin, tables
<1>2. CASE ~(ep.breaks \/ Taken(KeyOf(ep)))
  <2>1. /\ entry' = [entry EXCEPT ![KeyOf(ep)] = ep.value]
        /\ origin' = [origin EXCEPT ![KeyOf(ep)] = ep.dist]
        /\ loaded' = Append(loaded, rec)
    BY <1>2 DEF LoadPlugin, Put
  <2>2. /\ KeyOf(ep) \in Keys /\ ep.value \in Values /\ ep.dist \in Distributions
        /\ ep.value # Nothing /\ ep.dist # Nothing /\ ~Taken(KeyOf(ep))
    BY <1>2, HeadFacts, RegistryAssumption DEF LoadPlugin, EntryPointRecords
  <2>3. rec.origin = ep.dist /\ KeyOf(ep) = <<rec.namespace, rec.name>>
    BY DEF KeyOf
  <2> HIDE DEF ep, rec
  <2>4. /\ DOMAIN loaded' = 1 .. Len(loaded) + 1 /\ DOMAIN loaded = 1 .. Len(loaded)
        /\ \A i \in DOMAIN loaded : loaded'[i] = loaded[i]
        /\ loaded'[Len(loaded) + 1] = rec
        /\ Len(loaded) \in Nat
    BY <2>1
  <2>5. \A i \in DOMAIN loaded : loaded[i] \in Records
    OBVIOUS
  <2>6. \A i \in DOMAIN loaded : KeyOfRecord(i) # KeyOf(ep) /\ KeyOfRecord(i) \in Keys
    BY <2>2, <2>5, RegistryAssumption DEF KeyOfRecord, Taken, Records, Keys
  <2>7. \A key \in Keys : entry'[key] = Nothing <=> origin'[key] = Nothing
    BY <2>1, <2>2
  <2>8. \A i \in DOMAIN loaded' :
          origin'[<<loaded'[i].namespace, loaded'[i].name>>] = loaded'[i].origin
    <3> SUFFICES ASSUME NEW i \in DOMAIN loaded'
                 PROVE  origin'[<<loaded'[i].namespace, loaded'[i].name>>] = loaded'[i].origin
      OBVIOUS
    <3>1. CASE i \in DOMAIN loaded
      <4>1. loaded'[i] = loaded[i] /\ KeyOfRecord(i) \in Keys /\ KeyOfRecord(i) # KeyOf(ep)
        BY <2>4, <2>6, <3>1
      <4>2. origin'[KeyOfRecord(i)] = origin[KeyOfRecord(i)]
        BY <2>1, <4>1
      <4>3. origin[KeyOfRecord(i)] = loaded[i].origin
        BY <3>1 DEF KeyOfRecord
      <4>4. QED
        BY <4>1, <4>2, <4>3 DEF KeyOfRecord
    <3>2. CASE i = Len(loaded) + 1
      <4>1. loaded'[i] = rec /\ <<rec.namespace, rec.name>> = KeyOf(ep) /\ rec.origin = ep.dist
        BY <2>3, <2>4, <3>2
      <4>2. origin'[KeyOf(ep)] = ep.dist
        BY <2>1, <2>2
      <4>3. QED
        BY <4>1, <4>2
    <3>3. QED
      BY <2>4, <3>1, <3>2
  <2>9. \A key \in Keys : origin'[key] \in Distributions =>
          \E i \in DOMAIN loaded' : key = <<loaded'[i].namespace, loaded'[i].name>>
    <3> SUFFICES ASSUME NEW key \in Keys, origin'[key] \in Distributions
                 PROVE  \E i \in DOMAIN loaded' : key = <<loaded'[i].namespace, loaded'[i].name>>
      OBVIOUS
    <3>1. CASE key = KeyOf(ep)
      BY <2>3, <2>4, <3>1
    <3>2. CASE key # KeyOf(ep)
      <4>1. origin[key] \in Distributions
        BY <2>1, <3>2
      <4>2. PICK i \in DOMAIN loaded : key = <<loaded[i].namespace, loaded[i].name>>
        BY <4>1
      <4>3. QED
        BY <2>4, <4>2
    <3>3. QED
      BY <3>1, <3>2
  <2>10. \A i, j \in DOMAIN loaded' :
           loaded'[i].namespace = loaded'[j].namespace /\ loaded'[i].name = loaded'[j].name => i = j
    <3> SUFFICES ASSUME NEW i \in DOMAIN loaded', NEW j \in DOMAIN loaded',
                        loaded'[i].namespace = loaded'[j].namespace,
                        loaded'[i].name = loaded'[j].name
                 PROVE  i = j
      OBVIOUS
    <3>1. CASE i \in DOMAIN loaded /\ j \in DOMAIN loaded
      BY <2>4, <3>1
    <3>2. CASE i = Len(loaded) + 1 /\ j \in DOMAIN loaded
      BY <2>3, <2>4, <2>6, <3>2 DEF KeyOfRecord
    <3>3. CASE i \in DOMAIN loaded /\ j = Len(loaded) + 1
      BY <2>3, <2>4, <2>6, <3>3 DEF KeyOfRecord
    <3>4. QED
      BY <2>4, <3>1, <3>2, <3>3
  <2>11. QED
    BY <2>7, <2>8, <2>9, <2>10
<1>3. QED
  BY <1>1, <1>2

(* loaded_plugins and the dictionaries agree with _origins at every moment,  *)
(* also when a load or a registration stops with an error.                   *)
THEOREM RecordsAreExact == Spec => []RecordsTellTheTruth
<1>1. Init => RecordsTellTheTruth
  BY RegistryAssumption DEF Init, RecordsTellTheTruth
<1>2. Inv /\ [Next]_vars => RecordsTellTheTruth'
  <2> SUFFICES ASSUME Inv, [Next]_vars PROVE RecordsTellTheTruth'
    OBVIOUS
  <2>1. ASSUME NEW key \in Keys, NEW value \in Values, Register(key, value)
        PROVE  RecordsTellTheTruth'
    BY <2>1, RegisterKeepsRecords
  <2>2. ASSUME UNCHANGED tables PROVE RecordsTellTheTruth'
    BY <2>2 DEF Inv, RecordsTellTheTruth, tables
  <2>3. ASSUME NEW named, NEW off, LoadPlugins(named, off) PROVE RecordsTellTheTruth'
    BY <2>2, <2>3 DEF LoadPlugins
  <2>4. CASE SkipPlugin \/ FinishLoading \/ UNCHANGED vars
    BY <2>2, <2>4 DEF SkipPlugin, FinishLoading, vars, tables
  <2>5. QED
    BY <2>1, <2>3, <2>4, LoadKeepsRecords DEF Next
<1>3. QED
  BY <1>1, <1>2, TypesStay, PTL DEF Spec, Inv

(* Every variable has its type, in registrations and loads that end well or  *)
(* with an error.                                                            *)
THEOREM TypeCorrect == Spec => []TypeOK
<1>1. Init => TypeOK
  BY RegistryAssumption DEF Init, TypeOK
<1>2. TypeOK /\ TypeInv' /\ [Next]_vars => TypeOK'
  <2> SUFFICES ASSUME TypeOK, TypeInv', [Next]_vars PROVE TypeOK'
    OBVIOUS
  <2> USE DEF TypeOK, TypeInv, loading, tables
  <2>1. ASSUME NEW key \in Keys, NEW value \in Values, Register(key, value) PROVE TypeOK'
    BY <2>1 DEF Register
  <2>2. ASSUME NEW named \in SUBSET Distributions, NEW off \in BOOLEAN, LoadPlugins(named, off)
        PROVE  TypeOK'
    BY <2>2, RegistryAssumption DEF LoadPlugins
  <2>3. CASE SkipPlugin
    <3>1. Head(todo) \in EntryPointRecords
      BY <2>3, HeadFacts DEF SkipPlugin
    <3>2. QED
      BY <2>3, <3>1 DEF SkipPlugin
  <2>4. CASE LoadPlugin
    <3>1. Head(todo) \in EntryPointRecords
      BY <2>4, HeadFacts DEF LoadPlugin
    <3>2. /\ pc' \in {"loading", "idle"}
          /\ outcome' \in {"none", "ok", "RegistryConflictError", "ImportError"}
          /\ UNCHANGED <<env, noPlugins, warned, loads>>
      BY <2>4, <3>1 DEF LoadPlugin
    <3>3. QED
      BY <3>2
  <2>5. CASE FinishLoading
    BY <2>5 DEF FinishLoading
  <2>6. CASE UNCHANGED vars
    BY <2>6 DEF vars
  <2>7. QED
    BY <2>1, <2>2, <2>3, <2>4, <2>5, <2>6 DEF Next
<1>3. QED
  BY <1>1, <1>2, TypesStay, PTL DEF Spec

-----------------------------------------------------------------------------
(* What a load has done with an entry point: a warning, or its own value.    *)
DealtWith(ep) ==
  ep \in warned \/ (entry[KeyOf(ep)] = ep.value /\ origin[KeyOf(ep)] = ep.dist)

(* While a load goes on, every entry point is still to come or dealt with.   *)
ProgressInv ==
  pc = "loading" =>
    \A ep \in Elements(GeneratorPlugins \o SinkPlugins) : ep \in Elements(todo) \/ DealtWith(ep)

(* The head is what leaves the queue. *)
LEMMA HeadLeaves ==
  ASSUME TypeInv, todo # <<>>, todo' = Tail(todo), NEW ep \in Elements(todo)
  PROVE  ep = Head(todo) \/ ep \in Elements(todo')
<1>1. PICK i \in 1..Len(todo) : ep = todo[i]
  BY DEF Elements, TypeInv
<1>2. CASE i = 1
  BY <1>1, <1>2
<1>3. CASE i # 1
  <2>1. i - 1 \in DOMAIN Tail(todo) /\ Tail(todo)[i - 1] = todo[i]
    BY <1>1, <1>3 DEF TypeInv
  <2>2. QED
    BY <1>1, <2>1 DEF Elements
<1>4. QED
  BY <1>2, <1>3

(* The entry points have names and namespaces that the registry knows. *)
LEMMA EntryPointKeys ==
  ASSUME NEW ep \in Elements(GeneratorPlugins \o SinkPlugins)
  PROVE  ep \in EntryPointRecords /\ KeyOf(ep) \in Keys /\ ep.dist # Nothing
<1>1. ep \in EntryPointRecords
  BY EntryPointsAreTyped DEF Elements
<1>2. QED
  BY <1>1, RegistryAssumption DEF EntryPointRecords, KeyOf, Keys

(* What was dealt with stays so while the load goes on. *)
LEMMA DealtWithStays ==
  ASSUME TypeInv, [Next]_vars, warned \subseteq warned',
         NEW ep \in Elements(GeneratorPlugins \o SinkPlugins), DealtWith(ep)
  PROVE  DealtWith(ep)'
<1>1. CASE ep \in warned
  BY <1>1 DEF DealtWith
<1>2. CASE entry[KeyOf(ep)] = ep.value /\ origin[KeyOf(ep)] = ep.dist
  <2>1. KeyOf(ep) \in Keys /\ origin[KeyOf(ep)] # Nothing
    BY <1>2, EntryPointKeys
  <2>2. KeyOf(ep)' = KeyOf(ep)
    BY DEF KeyOf
  <2>3. CASE UNCHANGED <<entry, origin>>
    BY <1>2, <2>2, <2>3 DEF DealtWith
  <2>4. ASSUME NEW free \in Keys, NEW value \in Values, NEW from \in Origins,
               ~Taken(free), Put(free, value, from)
        PROVE  DealtWith(ep)'
    <3>1. free # KeyOf(ep)
      BY <2>1, <2>4 DEF Taken
    <3>2. entry'[KeyOf(ep)] = entry[KeyOf(ep)] /\ origin'[KeyOf(ep)] = origin[KeyOf(ep)]
      BY <2>1, <2>4, <3>1 DEF Put, TypeInv
    <3>3. QED
      BY <1>2, <2>2, <3>2 DEF DealtWith
  <2>5. QED
    BY <2>3, <2>4, OnlyFreeNames
<1>3. QED
  BY <1>1, <1>2 DEF DealtWith

(* Each step of a load deals with the entry point it takes off the queue.    *)
LEMMA ProgressStep == TypeInv /\ ProgressInv /\ [Next]_vars => ProgressInv'
<1> SUFFICES ASSUME TypeInv, ProgressInv, [Next]_vars, pc' = "loading",
                    NEW ep \in Elements(GeneratorPlugins \o SinkPlugins)
             PROVE  ep \in Elements(todo') \/ DealtWith(ep)'
  BY DEF ProgressInv, Elements
<1> USE DEF loading, tables
<1>1. ASSUME NEW named \in SUBSET Distributions, NEW off \in BOOLEAN, LoadPlugins(named, off)
      PROVE  ep \in Elements(todo')
  BY <1>1 DEF LoadPlugins
<1>2. CASE SkipPlugin \/ LoadPlugin
  <2>1. /\ pc = "loading" /\ todo # <<>> /\ todo' = Tail(todo) /\ warned \subseteq warned'
    BY <1>2 DEF SkipPlugin, LoadPlugin
  <2>2. ep \in Elements(todo) \/ DealtWith(ep)
    BY <2>1 DEF ProgressInv
  <2>3. CASE DealtWith(ep)
    BY <2>1, <2>3, DealtWithStays
  <2>4. CASE ep \in Elements(todo) /\ ep # Head(todo)
    BY <2>1, <2>4, HeadLeaves
  <2>5. CASE ep = Head(todo) /\ SkipPlugin
    BY <2>5 DEF SkipPlugin, DealtWith
  <2>6. CASE ep = Head(todo) /\ LoadPlugin
    <3>1. Put(KeyOf(ep), ep.value, ep.dist)
      BY <2>6 DEF LoadPlugin
    <3>2. KeyOf(ep)' = KeyOf(ep) /\ KeyOf(ep) \in Keys
      BY EntryPointKeys DEF KeyOf
    <3>3. QED
      BY <3>1, <3>2 DEF Put, DealtWith, TypeInv
  <2>7. QED
    BY <1>2, <2>2, <2>3, <2>4, <2>5, <2>6
<1>3. CASE UNCHANGED vars
  BY <1>3 DEF vars, ProgressInv, DealtWith, KeyOf
<1>4. ASSUME NEW key \in Keys, NEW value \in Values, Register(key, value) PROVE pc' # "loading"
  BY <1>4 DEF Register
<1>5. CASE FinishLoading
  BY <1>5 DEF FinishLoading
<1>6. QED
  BY <1>1, <1>2, <1>3, <1>4, <1>5 DEF Next

(* A load of plugins that ends well has forgotten no entry point.            *)
THEOREM EveryPluginDealtWith == Spec => []NoneForgotten
<1>1. Init => ProgressInv /\ NoneForgotten
  BY DEF Init, ProgressInv, NoneForgotten
<1>2. TypeInv /\ ProgressInv /\ NoneForgotten /\ [Next]_vars => NoneForgotten'
  <2> SUFFICES ASSUME TypeInv, ProgressInv, NoneForgotten, [Next]_vars PROVE NoneForgotten'
    OBVIOUS
  <2> USE DEF loading, tables
  <2>1. CASE FinishLoading
    <3>1. \A ep \in Elements(GeneratorPlugins \o SinkPlugins) : DealtWith(ep)
      BY <2>1 DEF FinishLoading, ProgressInv, Elements
    <3>2. QED
      BY <2>1, <3>1 DEF FinishLoading, NoneForgotten, DealtWith, KeyOf, Elements
  <2>2. ASSUME NEW key \in Keys, NEW value \in Values, Register(key, value)
        PROVE  outcome' # "ok"
    BY <2>2 DEF Register
  <2>3. ASSUME NEW named \in SUBSET Distributions, NEW off \in BOOLEAN, LoadPlugins(named, off)
        PROVE  outcome' # "ok"
    BY <2>3 DEF LoadPlugins
  <2>4. CASE SkipPlugin
    BY <2>4 DEF SkipPlugin, NoneForgotten
  <2>5. CASE LoadPlugin
    BY <2>5 DEF LoadPlugin, NoneForgotten
  <2>6. CASE UNCHANGED vars
    BY <2>6 DEF vars, NoneForgotten, KeyOf, Elements
  <2>7. QED
    BY <2>1, <2>2, <2>3, <2>4, <2>5, <2>6 DEF Next, NoneForgotten
<1>3. QED
  BY <1>1, <1>2, TypesStay, ProgressStep, PTL DEF Spec
=============================================================================
