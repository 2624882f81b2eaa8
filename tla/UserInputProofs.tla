-------------------------- MODULE UserInputProofs --------------------------
(***************************************************************************)
(* Theorems about what users write: the options of a run, the documents of *)
(* load_schema and the flags of build_inline_schema.                       *)
(*                                                                         *)
(* RunOptions: resolve_run_options implements OptionPrecedence, for any    *)
(* calls.  While the environment is read, the variables already met are in *)
(* envLayer as they were parsed, none of them malformed; afterwards the    *)
(* whole layer is, and the options settled so far are the values that win. *)
(*                                                                         *)
(* SchemaSources: for any documents and flags, layer 1 finds exactly what  *)
(* is wrong with what dicts and lists hold of a document, and an inline    *)
(* schema is what its flags say.                                           *)
(* LoadInv says of each outcome of load_schema which errors come with it;  *)
(* InlineInv follows the flags, where the columns parsed so far are those  *)
(* of the flags that do not fail (Comes).  What is proved about a walk is  *)
(* that a function satisfies its equation (DepthFrom, ScanFrom) and that   *)
(* no other does: of the nodes where two differ, take a deepest.  A walk   *)
(* goes from a node to its items, and what it meets is what the node       *)
(* reaches (Reaches, NextItem, BelowItem).                                 *)
(***************************************************************************)
EXTENDS UserInput, SequenceTheorems, FiniteSetTheorems,
        WellFoundedInduction, TLAPS

Read(i)    == envLayer[EnvOrder[i]] = EnvSays(EnvOrder[i])
Settled(i) == options[FieldOrder[i]] = Resolved(FieldOrder[i])
              /\ Resolved(FieldOrder[i]) \in Valid[FieldOrder[i]] \cup {None}

ReadSoFar    == pc = "env" => envLayer["sink"] = None
                              /\ \A i \in 1..Len(EnvOrder) : i < next => Read(i)
AllRead      == pc \in {"fields", "returned"} => \A f \in Fields : envLayer[f] = EnvSays(f)
SettledSoFar == pc \in {"fields", "returned"} =>
                  \A i \in 1..Len(FieldOrder) : i < next => Settled(i)
Complete     == pc = "returned" => next = Len(FieldOrder) + 1

IInv == TypeOK /\ ReadSoFar /\ AllRead /\ SettledSoFar /\ Complete

-----------------------------------------------------------------------------
(* The orders list the fields, and nothing else. *)
LEMMA Orders ==
  /\ Len(EnvOrder) = 11 /\ Len(FieldOrder) = 12
  /\ \A i \in 1..11 : EnvOrder[i] \in EnvFields
  /\ \A i \in 1..12 : FieldOrder[i] \in Fields
BY DEF EnvOrder, FieldOrder, EnvFields, Fields

LEMMA EnvOrderCovers == \A f \in EnvFields : \E i \in 1..11 : EnvOrder[i] = f
<1> SUFFICES ASSUME NEW f \in EnvFields PROVE \E i \in 1..11 : EnvOrder[i] = f
  OBVIOUS
<1>1. /\ EnvOrder[1] = "out_dir" /\ EnvOrder[2] = "seed" /\ EnvOrder[3] = "chunk_size"
      /\ EnvOrder[4] = "executor" /\ EnvOrder[5] = "cpu_max" /\ EnvOrder[6] = "mem_max"
      /\ EnvOrder[7] = "max_rows" /\ EnvOrder[8] = "llm_on_failure"
      /\ EnvOrder[9] = "dialect" /\ EnvOrder[10] = "cache_dir"
      /\ EnvOrder[11] = "emit_schema"
  BY DEF EnvOrder
<1> QED
  BY <1>1 DEF EnvFields

LEMMA FieldOrderCovers == \A f \in Fields : \E i \in 1..12 : FieldOrder[i] = f
<1> SUFFICES ASSUME NEW f \in Fields PROVE \E i \in 1..12 : FieldOrder[i] = f
  OBVIOUS
<1>1. /\ FieldOrder[1] = "out_dir" /\ FieldOrder[2] = "sink" /\ FieldOrder[3] = "seed"
      /\ FieldOrder[4] = "chunk_size" /\ FieldOrder[5] = "executor"
      /\ FieldOrder[6] = "cpu_max" /\ FieldOrder[7] = "mem_max"
      /\ FieldOrder[8] = "max_rows" /\ FieldOrder[9] = "llm_on_failure"
      /\ FieldOrder[10] = "emit_schema" /\ FieldOrder[11] = "dialect"
      /\ FieldOrder[12] = "cache_dir"
  BY DEF FieldOrder
<1> QED
  BY <1>1 DEF Fields, EnvFields

LEMMA ValidTyped == Valid \in [Fields -> SUBSET Values]
BY DEF Valid, Values

(* What a layer holds: a value, None or, in the environment, a text that   *)
(* no parser takes.                                                        *)
LEMMA LayersTyped ==
  ASSUME call \in CallRecords, NEW f \in Fields
  PROVE  /\ call.cli[f] \in Values \cup {None}
         /\ EnvSays(f) \in Values \cup {Malformed, None}
         /\ FromSchema(f) \in Values \cup {None}
         /\ call.defaults[f] \in Values \cup {None}
<1>1. call.cli[f] \in Values \cup {None} /\ call.defaults[f] \in Values \cup {None}
  BY DEF CallRecords
<1>2. FromSchema(f) \in Values \cup {None}
  BY DEF CallRecords, FromSchema, SchemaFields
<1>3. EnvSays(f) \in Values \cup {Malformed, None}
  <2>1. CASE f \notin EnvFields
    BY <2>1 DEF EnvSays
  <2>2. CASE f \in EnvFields
    <3>1. call.env[f] \in Texts
      BY <2>2 DEF CallRecords
    <3>2. CASE call.env[f] = Unset
      BY <2>2, <3>2 DEF EnvSays
    <3>3. CASE call.env[f] # Unset
      <4>1. call.env[f] \in Values \cup {"garbage"}
        BY <3>1, <3>3 DEF Texts
      <4>2. Parsed(f, call.env[f]) \in Values \cup {Malformed}
        BY <4>1, ValidTyped DEF Parsed, Values, Fields, EnvFields
      <4> QED
        BY <2>2, <3>3, <4>2 DEF EnvSays
    <3> QED
      BY <3>2, <3>3
  <2> QED
    BY <2>1, <2>2
<1> QED
  BY <1>1, <1>2, <1>3

LEMMA Distinct == None \notin Values \cup {Malformed} /\ Malformed \notin Values
BY DEF None, Malformed, Values

(* The winner is one of the layers, in the form of IsHighest. *)
LEMMA WinnerIsHighest ==
  ASSUME call \in CallRecords, NEW f \in Fields, envLayer[f] = EnvSays(f)
  PROVE  Precedence!IsHighest(f, Resolved(f))
<1>1. /\ Layers[1] = call.cli
      /\ Layers[2] = [g \in Fields |-> EnvSays(g)]
      /\ Layers[3] = [g \in Fields |-> FromSchema(g)]
      /\ Layers[4] = call.defaults
  BY DEF Layers
<1>2. /\ Layers[1][f] = call.cli[f] /\ Layers[2][f] = envLayer[f]
      /\ Layers[3][f] = FromSchema(f) /\ Layers[4][f] = call.defaults[f]
  BY <1>1
<1>3. CASE call.cli[f] # None
  <2>1. Resolved(f) = Layers[1][f]
    BY <1>2, <1>3 DEF Resolved
  <2> QED
    BY <1>2, <1>3, <2>1 DEF Precedence!IsHighest
<1>4. CASE call.cli[f] = None /\ envLayer[f] # None
  <2>1. Resolved(f) = Layers[2][f]
    BY <1>2, <1>4 DEF Resolved
  <2> QED
    BY <1>2, <1>4, <2>1 DEF Precedence!IsHighest
<1>5. CASE call.cli[f] = None /\ envLayer[f] = None /\ FromSchema(f) # None
  <2>1. Resolved(f) = Layers[3][f]
    BY <1>2, <1>5 DEF Resolved
  <2> QED
    BY <1>2, <1>5, <2>1 DEF Precedence!IsHighest
<1>6. CASE call.cli[f] = None /\ envLayer[f] = None /\ FromSchema(f) = None
  <2>1. Resolved(f) = Layers[4][f]
    BY <1>2, <1>6 DEF Resolved
  <2> QED
    BY <1>2, <1>6, <2>1 DEF Precedence!IsHighest
<1> QED
  BY <1>3, <1>4, <1>5, <1>6

-----------------------------------------------------------------------------
LEMMA InitIInv == Init => IInv
BY CallsAssumption, Orders
   DEF Init, IInv, TypeOK, ReadSoFar, AllRead, SettledSoFar, Complete, NoValues, Fields

LEMMA ReadVariableIInv == IInv /\ ReadVariable => IInv'
<1> SUFFICES ASSUME IInv, ReadVariable PROVE IInv'
  OBVIOUS
<1> USE DEF IInv
<1> DEFINE f == EnvOrder[next]
<1>1. pc = "env" /\ next \in 1..11
  BY Orders DEF ReadVariable, TypeOK
<1>2. f \in EnvFields /\ f \in Fields /\ f # "sink"
  BY <1>1, Orders DEF EnvFields, Fields
<1>3. CASE EnvSays(f) = Malformed
  <2>1. Raise
    BY <1>2, <1>3, Distinct DEF ReadVariable, EnvSays
  <2> QED
    BY <2>1 DEF Raise, TypeOK, ReadSoFar, AllRead, SettledSoFar, Complete
<1>4. CASE EnvSays(f) # Malformed
  <2>1. /\ envLayer' = [envLayer EXCEPT ![f] = EnvSays(f)]
        /\ next' = next + 1 /\ UNCHANGED <<call, pc, allowed, options>>
    BY <1>2, <1>4 DEF ReadVariable, EnvSays
  <2>2. EnvSays(f) \in Values \cup {None}
    BY <1>2, <1>4, LayersTyped DEF TypeOK
  <2>3. TypeOK'
    <3>1. next' \in 1..Len(FieldOrder) + 1
      BY <1>1, <2>1, Orders
    <3>2. envLayer' \in [Fields -> Values \cup {None}]
      BY <1>2, <2>1, <2>2 DEF TypeOK
    <3> QED
      BY <2>1, <3>1, <3>2 DEF TypeOK
  <2>4. ReadSoFar'
    <3>1. \A i \in 1..11 : i < next' => Read(i)'
      <4> SUFFICES ASSUME NEW i \in 1..11, i < next' PROVE Read(i)'
        OBVIOUS
      <4>1. EnvSays(EnvOrder[i])' = EnvSays(EnvOrder[i]) /\ EnvOrder[i] \in Fields
        BY <2>1, Orders DEF EnvSays, EnvOrder, EnvFields, Fields
      <4>2. CASE EnvOrder[i] = f
        BY <2>1, <4>1, <4>2, <1>2 DEF Read, TypeOK
      <4>3. CASE EnvOrder[i] # f
        <5>1. i < next
          BY <1>1, <2>1, <4>3 DEF TypeOK
        <5>2. Read(i)
          BY <1>1, <5>1, Orders DEF ReadSoFar
        <5> QED
          BY <2>1, <4>1, <4>3, <5>2 DEF Read, TypeOK
      <4> QED
        BY <4>2, <4>3
    <3>2. envLayer'["sink"] = None
      BY <1>1, <1>2, <2>1 DEF ReadSoFar, TypeOK, Fields
    <3> QED
      BY <3>1, <3>2, Orders DEF ReadSoFar
  <2> QED
    BY <1>1, <2>1, <2>3, <2>4 DEF AllRead, SettledSoFar, Complete
<1> QED
  BY <1>3, <1>4

LEMMA AllowPluginsIInv == IInv /\ AllowPlugins => IInv'
<1> SUFFICES ASSUME IInv, AllowPlugins PROVE IInv'
  OBVIOUS
<1> USE DEF IInv
<1>1. TypeOK'
  BY Orders DEF AllowPlugins, TypeOK, CallRecords
<1>2. \A f \in Fields : envLayer[f] = EnvSays(f)
  <2> SUFFICES ASSUME NEW f \in Fields PROVE envLayer[f] = EnvSays(f)
    OBVIOUS
  <2>1. CASE f \in EnvFields
    <3>1. PICK i \in 1..11 : EnvOrder[i] = f
      BY <2>1, EnvOrderCovers
    <3>2. Read(i)
      BY Orders DEF AllowPlugins, ReadSoFar, TypeOK
    <3> QED
      BY <3>1, <3>2 DEF Read
  <2>2. CASE f \notin EnvFields
    BY <2>2 DEF AllowPlugins, ReadSoFar, EnvSays, Fields
  <2> QED
    BY <2>1, <2>2
<1>3. AllRead'
  BY <1>2 DEF AllRead, AllowPlugins, EnvSays
<1>4. ReadSoFar' /\ SettledSoFar' /\ Complete'
  BY DEF AllowPlugins, ReadSoFar, SettledSoFar, Complete
<1> QED
  BY <1>1, <1>3, <1>4

LEMMA ResolveFieldIInv == IInv /\ ResolveField => IInv'
<1> SUFFICES ASSUME IInv, ResolveField PROVE IInv'
  OBVIOUS
<1> USE DEF IInv
<1> DEFINE f == FieldOrder[next]
<1>1. pc = "fields" /\ next \in 1..12 /\ f \in Fields
  BY Orders DEF ResolveField, TypeOK
<1>2. CASE Raise
  BY <1>2 DEF Raise, TypeOK, ReadSoFar, AllRead, SettledSoFar, Complete
<1>3. CASE ~Raise
  <2>1. /\ Resolved(f) \in Valid[f] \cup {None}
        /\ options' = [options EXCEPT ![f] = Resolved(f)]
        /\ next' = next + 1 /\ UNCHANGED <<call, pc, envLayer, allowed>>
    BY <1>3 DEF ResolveField
  <2>2. Resolved(f) \in Values \cup {None}
    BY <1>1, <2>1, ValidTyped
  <2>3. TypeOK'
    <3>1. next' \in 1..Len(FieldOrder) + 1
      BY <1>1, <2>1, Orders
    <3>2. options' \in [Fields -> Values \cup {None}]
      BY <1>1, <2>1, <2>2 DEF TypeOK
    <3> QED
      BY <2>1, <3>1, <3>2 DEF TypeOK
  <2>4. SettledSoFar'
    <3>1. ASSUME NEW g PROVE Resolved(g)' = Resolved(g)
      BY <2>1 DEF Resolved, FromSchema
    <3>2. \A i \in 1..12 : i < next' => Settled(i)'
      <4> SUFFICES ASSUME NEW i \in 1..12, i < next' PROVE Settled(i)'
        OBVIOUS
      <4>1. FieldOrder[i] \in Fields
        BY Orders
      <4>2. CASE FieldOrder[i] = f
        BY <1>1, <2>1, <3>1, <4>2 DEF Settled, TypeOK
      <4>3. CASE FieldOrder[i] # f
        <5>1. i < next
          BY <1>1, <2>1, <4>3 DEF TypeOK
        <5>2. Settled(i)
          BY <1>1, <5>1, Orders DEF SettledSoFar
        <5> QED
          BY <2>1, <3>1, <4>1, <4>3, <5>2 DEF Settled, TypeOK
      <4> QED
        BY <4>2, <4>3
    <3> QED
      BY <3>2, Orders DEF SettledSoFar
  <2>5. AllRead'
    BY <1>1, <2>1 DEF AllRead, EnvSays
  <2> QED
    BY <1>1, <2>1, <2>3, <2>4, <2>5 DEF ReadSoFar, Complete
<1> QED
  BY <1>2, <1>3

LEMMA ReturnIInv == IInv /\ Return => IInv'
<1> SUFFICES ASSUME IInv, Return PROVE IInv'
  OBVIOUS
<1> USE DEF IInv
<1>1. TypeOK' /\ ReadSoFar' /\ AllRead'
  BY DEF Return, TypeOK, ReadSoFar, AllRead, EnvSays
<1>2. SettledSoFar'
  BY DEF Return, SettledSoFar, Settled, Resolved, FromSchema
<1>3. Complete'
  BY Orders DEF Return, Complete, TypeOK
<1> QED
  BY <1>1, <1>2, <1>3

LEMMA StutterIInv == IInv /\ UNCHANGED vars => IInv'
<1> SUFFICES ASSUME IInv, UNCHANGED vars PROVE IInv'
  OBVIOUS
<1> USE DEF IInv, vars
<1>1. TypeOK' /\ AllRead' /\ Complete'
  BY DEF TypeOK, AllRead, EnvSays, Complete
<1>2. ReadSoFar'
  BY DEF ReadSoFar, Read, EnvSays
<1>3. SettledSoFar'
  BY DEF SettledSoFar, Settled, Resolved, FromSchema
<1> QED
  BY <1>1, <1>2, <1>3

LEMMA Invariance == Spec => []IInv
<1>1. IInv /\ [Next]_vars => IInv'
  BY ReadVariableIInv, AllowPluginsIInv, ResolveFieldIInv, ReturnIInv, StutterIInv DEF Next
<1> QED
  BY InitIInv, <1>1, PTL DEF Spec

(* The types of the state of resolve_run_options, for any calls.           *)
THEOREM TypeCorrect == Spec => []TypeOK
<1>1. IInv => TypeOK
  BY DEF IInv
<1> QED
  BY Invariance, <1>1, PTL

-----------------------------------------------------------------------------
(* A refusal has a cause: a malformed variable or the value that won. *)
LEMMA RaiseHasCause ==
  ASSUME IInv, Raise, ReadVariable \/ ResolveField
  PROVE  \E l \in 1..4, f \in Fields : Layers[l][f] \notin Valid[f] \cup {None}
<1> USE DEF IInv
<1>1. CASE ReadVariable
  <2> DEFINE f == EnvOrder[next]
  <2>1. next \in 1..11 /\ f \in EnvFields /\ f \in Fields
    BY <1>1, Orders DEF ReadVariable, TypeOK, Fields
  <2>2. EnvSays(f) = Malformed
    BY <1>1, <2>1 DEF ReadVariable, Raise, EnvSays, TypeOK
  <2>3. Layers[2][f] = Malformed
    BY <2>1, <2>2 DEF Layers
  <2> QED
    BY <2>1, <2>3, Distinct, ValidTyped
<1>2. CASE ResolveField
  <2> DEFINE f == FieldOrder[next]
  <2>1. next \in 1..12 /\ f \in Fields /\ pc = "fields"
    BY <1>2, Orders DEF ResolveField, TypeOK
  <2>2. Resolved(f) \notin Valid[f] \cup {None}
    BY <1>2, <2>1 DEF ResolveField, Raise, TypeOK
  <2>3. Precedence!IsHighest(f, Resolved(f))
    BY <2>1, WinnerIsHighest DEF AllRead, TypeOK
  <2> QED
    BY <2>1, <2>2, <2>3 DEF Precedence!IsHighest
<1> QED
  BY <1>1, <1>2

(* Both an answer and a refusal are steps of the abstract call, and all    *)
(* else stutters: what the layers say never changes.                       *)
LEMMA SayingsStay ==
  ASSUME UNCHANGED call
  PROVE  UNCHANGED Layers
BY DEF Layers, EnvSays, FromSchema

LEMMA InitRefines == Init => Precedence!Init
<1> SUFFICES ASSUME Init PROVE Precedence!Init
  OBVIOUS
<1>1. call \in CallRecords /\ pc = "env"
  BY CallsAssumption DEF Init
<1> DEFINE Sayings == [Fields -> Values \cup {Malformed} \cup {None}]
<1>2. /\ call.cli \in Sayings /\ call.defaults \in Sayings
  BY <1>1 DEF CallRecords
<1>3. /\ [f \in Fields |-> EnvSays(f)] \in Sayings
      /\ [f \in Fields |-> FromSchema(f)] \in Sayings
  BY <1>1, LayersTyped
<1>4. Layers \in [1..4 -> Sayings]
  BY <1>2, <1>3 DEF Layers
<1> QED
  BY <1>1, <1>4 DEF Precedence!Init, Precedence!Unanswered, NoValues

LEMMA ReturnRefines == IInv /\ Return => Precedence!Answer
<1> SUFFICES ASSUME IInv, Return PROVE Precedence!Answer
  OBVIOUS
<1> USE DEF IInv
<1>1. pc = "fields" /\ pc' = "returned" /\ next = 13 /\ options' = options
  BY Orders DEF Return, TypeOK
<1>2. ASSUME NEW f \in Fields
      PROVE  /\ Precedence!IsHighest(f, options[f])
             /\ options[f] \in Valid[f] \cup {None}
  <2>1. PICK i \in 1..12 : FieldOrder[i] = f
    BY FieldOrderCovers
  <2>2. Settled(i)
    BY <1>1, <2>1, Orders DEF SettledSoFar
  <2>3. envLayer[f] = EnvSays(f)
    BY <1>1 DEF AllRead
  <2> QED
    BY <2>1, <2>2, <2>3, WinnerIsHighest DEF Settled, TypeOK
<1>3. options \in [Fields -> Values \cup {Malformed} \cup {None}]
  BY DEF TypeOK
<1>4. UNCHANGED Layers
  BY SayingsStay DEF Return
<1> QED
  BY <1>1, <1>2, <1>3, <1>4 DEF Precedence!Answer

LEMMA RaiseRefines ==
  IInv /\ Raise /\ (ReadVariable \/ ResolveField) => Precedence!Refuse
<1> SUFFICES ASSUME IInv, Raise, ReadVariable \/ ResolveField PROVE Precedence!Refuse
  OBVIOUS
<1>1. pc \in {"env", "fields"} /\ pc' = "raised"
  BY DEF Raise, ReadVariable, ResolveField
<1>2. UNCHANGED Layers
  BY SayingsStay DEF Raise
<1> QED
  BY <1>1, <1>2, RaiseHasCause DEF Precedence!Refuse

LEMMA Stutters ==
  ASSUME UNCHANGED call, pc \in {"env", "fields"}, pc' \in {"env", "fields"}
  PROVE  /\ UNCHANGED Layers
         /\ UNCHANGED (IF pc = "returned" THEN options ELSE NoValues)
         /\ UNCHANGED (CASE pc = "returned" -> "answered"
                          [] pc = "raised"   -> "refused"
                          [] OTHER           -> "open")
BY SayingsStay DEF NoValues

(* resolve_run_options implements the precedence of the layers, for all    *)
(* calls and whatever the variables hold.                                  *)
THEOREM Refinement == Spec => ImplementsPrecedence
<1> DEFINE Observed == << Layers, IF pc = "returned" THEN options ELSE NoValues,
                          CASE pc = "returned" -> "answered"
                            [] pc = "raised"   -> "refused"
                            [] OTHER           -> "open" >>
<1>1. IInv /\ [Next]_vars => [Precedence!Next]_Observed
  <2> SUFFICES ASSUME IInv, [Next]_vars PROVE [Precedence!Next]_Observed
    OBVIOUS
  <2>1. CASE ReadVariable
    <3>1. CASE Raise
      BY <2>1, <3>1, RaiseRefines DEF Precedence!Next
    <3>2. CASE ~Raise
      BY <2>1, <3>2, Stutters DEF ReadVariable
    <3> QED
      BY <3>1, <3>2
  <2>2. CASE AllowPlugins
    BY <2>2, Stutters DEF AllowPlugins
  <2>3. CASE ResolveField
    <3>1. CASE Raise
      BY <2>3, <3>1, RaiseRefines DEF Precedence!Next
    <3>2. CASE ~Raise
      BY <2>3, <3>2, Stutters DEF ResolveField
    <3> QED
      BY <3>1, <3>2
  <2>4. CASE Return
    BY <2>4, ReturnRefines DEF Precedence!Next
  <2>5. CASE UNCHANGED vars
    BY <2>5, SayingsStay DEF vars
  <2> QED
    BY <2>1, <2>2, <2>3, <2>4, <2>5 DEF Next
<1> QED
  BY InitRefines, Invariance, <1>1, PTL DEF Spec, ImplementsPrecedence, Precedence!Spec

-----------------------------------------------------------------------------
(* SchemaSources. *)

(* What the flags before n come to: the errors, and the flags that make    *)
(* columns.                                                                *)
Fails(i)  == Failure(source.cols[i]) # "none"
Judged(n) == {Error(<<i>>, Failure(source.cols[i])) : i \in {j \in 1 .. n - 1 : Fails(j)}}
Good(n)   == {j \in 1 .. n - 1 : ~Fails(j)}
Made      == {ColumnOf(r) : r \in Range(source.cols)}

(* Each column parsed is that of a flag of its own.                        *)
Comes(place) ==
  /\ \A i, j \in DOMAIN parsed : place[i] = place[j] => i = j
  /\ \A j \in Good(index) : \E i \in DOMAIN parsed : place[i] = j
  /\ \A i \in DOMAIN parsed : parsed[i] = ColumnOf(source.cols[place[i]])

ParsedInv ==
  /\ index \in 1 .. Len(source.cols) + 1
  /\ parsed \in Seq(Made) /\ Len(parsed) < index
  /\ \E place \in [DOMAIN parsed -> Good(index)] : Comes(place)
  /\ Judged(index) = {} => /\ Len(parsed) = index - 1
                           /\ \A i \in DOMAIN parsed : parsed[i] = ColumnOf(source.cols[i])

TwoKeys == {e \in {Error(<<>>, "keys")} : Cardinality(Marked) > 1}

KeyInv ==
  /\ source.cols # <<>>
  /\ index = Len(source.cols) + 1
  /\ Judged(index) = {} /\ TwoKeys = {}
  /\ key = parsed[IF Marked # {} THEN Min(Marked) ELSE 1].name

InlineInv ==
  /\ phase \in {"call", "column", "table", "done"}
  /\ phase = "call" => parsed = <<>> /\ errors = {} /\ index = 1
  /\ ParsedInv
  /\ phase = "column" => source.cols # <<>> /\ errors = Judged(index)
  /\ phase = "table" \/ outcome = "ok" => KeyInv
  /\ phase = "table" => errors = {}
  /\ outcome = "ok" => ~TableIsRefused
  /\ outcome = "SchemaError" =>
       IF source.cols = <<>> THEN errors = {Error(<<>>, "no columns")}
       ELSE index = Len(source.cols) + 1 /\ errors = Judged(index) \cup TwoKeys /\ errors # {}
  /\ outcome \in {"none", "ok", "SchemaError", "PydanticError"}
  /\ outcome = "PydanticError" => errors = {}
  /\ outcome = "ok" => errors = {}

LoadInv ==
  /\ phase \in {"call", "limits", "structure", "done"}
  /\ phase # "done" => errors = {}
  /\ index = 1 /\ parsed = <<>>
  /\ phase \in {"limits", "structure"} => source.given = "dict" \/ source.text = "fine"
  /\ phase = "structure" \/ outcome = "ok" => LayerOneErrors = {}
  /\ outcome = "SchemaError" =>
       \/ /\ source.given = "dict" \/ source.text = "fine"
          /\ errors = IF LayerOneErrors # {} THEN LayerOneErrors ELSE {Error(<<>>, "structure")}
       \/ /\ source.given # "dict" /\ source.text # "fine"
          /\ errors = {Error(<<>>, source.text)}
  /\ outcome \in {"none", "ok", "SchemaError", "OSError", "ValueError", "RecursionError", "TypeError"}
  /\ outcome \in {"ok", "OSError", "ValueError", "RecursionError", "TypeError"} => errors = {}

SourceInv == \/ source \in Documents /\ LoadInv
             \/ source \in FlagLists /\ InlineInv

SourcesInv == SourceInv /\ (phase = "done" <=> outcome # "none")

-----------------------------------------------------------------------------
(* Inline schemas. *)
LEMMA FlagFacts ==
  ASSUME source \in FlagLists
  PROVE  /\ source.given = "flags"
         /\ source.cols \in Seq(Range(source.cols))
         /\ Len(source.cols) \in Nat /\ DOMAIN source.cols = 1 .. Len(source.cols)
         /\ source.cols = <<>> <=> Len(source.cols) = 0
         /\ \A i \in DOMAIN source.cols : source.cols[i] \in Range(source.cols)
<1>1. source.given = "flags" /\ source.cols \in Seq(Range(source.cols))
  BY SourcesAssumption
<1>2. QED
  BY <1>1, LenProperties, EmptySeq DEF Range

LEMMA OneFlagMore ==
  ASSUME NEW n \in Nat, n >= 1
  PROVE  /\ Judged(n + 1) = Judged(n) \cup (IF Fails(n) THEN {Error(<<n>>, Failure(source.cols[n]))} ELSE {})
         /\ Good(n + 1) = Good(n) \cup (IF Fails(n) THEN {} ELSE {n})
<1>1. 1 .. (n + 1) - 1 = (1 .. n - 1) \cup {n}
  OBVIOUS
<1>2. {j \in 1 .. (n + 1) - 1 : Fails(j)} =
        {j \in 1 .. n - 1 : Fails(j)} \cup (IF Fails(n) THEN {n} ELSE {})
  BY <1>1
<1>3. {j \in 1 .. (n + 1) - 1 : ~Fails(j)} =
        {j \in 1 .. n - 1 : ~Fails(j)} \cup (IF Fails(n) THEN {} ELSE {n})
  BY <1>1
<1>4. QED
  BY <1>2, <1>3, Zenon DEF Judged, Good

LEMMA InlineInit ==
  ASSUME SourcesInit, source \in FlagLists
  PROVE  InlineInv
<1>1. Len(source.cols) \in Nat
  BY FlagFacts
<1>2. /\ parsed = <<>> /\ index = 1 /\ errors = {} /\ phase = "call" /\ outcome = "none"
      /\ DOMAIN parsed = {} /\ Len(parsed) = 0 /\ parsed \in Seq(Made)
  BY EmptySeq DEF SourcesInit
<1>3. Good(index) = {} /\ Judged(index) = {}
  BY <1>2 DEF Good, Judged
<1>4. \E place \in [DOMAIN parsed -> Good(index)] : Comes(place)
  <2>1. [i \in DOMAIN parsed |-> i] \in [DOMAIN parsed -> Good(index)]
    BY <1>2
  <2>2. Comes([i \in DOMAIN parsed |-> i])
    BY <1>2, <1>3 DEF Comes
  <2>3. QED
    BY <2>1, <2>2
<1>5. ParsedInv
  <2>1. index \in 1 .. Len(source.cols) + 1 /\ Len(parsed) < index /\ Len(parsed) = index - 1
    BY <1>1, <1>2
  <2>2. \A i \in DOMAIN parsed : parsed[i] = ColumnOf(source.cols[i])
    BY <1>2
  <2>3. QED
    BY <1>2, <1>4, <2>1, <2>2, Zenon DEF ParsedInv
<1>6. QED
  BY <1>2, <1>5 DEF InlineInv

(* Steps that parse nothing. *)
LEMMA NothingParsed ==
  ASSUME ParsedInv, UNCHANGED <<source, index, parsed>>
  PROVE  /\ ParsedInv'
         /\ Judged(index)' = Judged(index) /\ TwoKeys' = TwoKeys
         /\ UNCHANGED key => KeyInv' = KeyInv /\ TableIsRefused' = TableIsRefused
<1>1. Judged(index)' = Judged(index) /\ Good(index)' = Good(index) /\ Made' = Made
  BY DEF Judged, Good, Made, Fails
<1>2. Marked' = Marked
  BY DEF Marked
<1>3. TwoKeys' = TwoKeys
  BY <1>2 DEF TwoKeys
<1>4. ASSUME NEW place PROVE Comes(place)' = Comes(place)
  BY <1>1 DEF Comes
<1>5. ParsedInv'
  BY <1>1, <1>4 DEF ParsedInv
<1>6. ASSUME UNCHANGED key PROVE KeyInv' = KeyInv /\ TableIsRefused' = TableIsRefused
  <2>1. KeyInv' = KeyInv
    BY <1>1, <1>2, <1>3, <1>6 DEF KeyInv
  <2>2. TableIsRefused' = TableIsRefused
    BY <1>6 DEF TableIsRefused
  <2>3. QED
    BY <2>1, <2>2
<1>7. QED
  BY <1>1, <1>3, <1>5, <1>6

LEMMA StartInlineStep ==
  ASSUME source \in FlagLists, InlineInv, StartInline, outcome = "none"
  PROVE  InlineInv'
<1>1. UNCHANGED <<source, index, parsed, key>> /\ ParsedInv /\ errors = {} /\ index = 1
  BY DEF StartInline, InlineInv
<1>2. ParsedInv' /\ Judged(index)' = Judged(index)
  BY <1>1, NothingParsed
<1>3. Judged(index) = {}
  BY <1>1 DEF Judged
<1>4. CASE source.cols = <<>>
  BY <1>1, <1>2, <1>4 DEF StartInline, End, InlineInv
<1>5. CASE source.cols # <<>>
  BY <1>1, <1>2, <1>3, <1>5 DEF StartInline, InlineInv
<1>6. QED
  BY <1>4, <1>5

LEMMA ParseColumnStep ==
  ASSUME source \in FlagLists, InlineInv, ParseColumn, outcome = "none"
  PROVE  InlineInv'
<1>1. /\ phase = "column" /\ index <= Len(source.cols) /\ index' = index + 1
      /\ UNCHANGED <<source, phase, key, outcome>>
      /\ ParsedInv /\ source.cols # <<>> /\ errors = Judged(index)
  BY DEF ParseColumn, InlineInv
<1>2. /\ index \in Nat /\ index >= 1 /\ index \in DOMAIN source.cols
      /\ parsed \in Seq(Made) /\ Len(parsed) < index /\ Len(parsed) \in Nat
      /\ DOMAIN parsed = 1 .. Len(parsed)
  BY <1>1, FlagFacts, LenProperties DEF ParsedInv
<1>3. PICK place \in [DOMAIN parsed -> Good(index)] : Comes(place)
  BY <1>1 DEF ParsedInv
<1>4. Made' = Made /\ Judged(index)' = Judged(index + 1) /\ Good(index)' = Good(index + 1)
  BY <1>1 DEF Made, Judged, Good, Fails
<1>5. index \notin Good(index) /\ Good(index) \subseteq 1 .. index - 1
  BY <1>2 DEF Good
<1>6. CASE Fails(index)
  <2>1. errors' = errors \cup {Error(<<index>>, Failure(raw))} /\ UNCHANGED parsed
    BY <1>6 DEF ParseColumn, Fails, raw
  <2>2. Judged(index)' = errors' /\ Judged(index)' # {} /\ Good(index)' = Good(index)
    <3>1. /\ Judged(index + 1) = Judged(index) \cup {Error(<<index>>, Failure(raw))}
          /\ Good(index + 1) = Good(index)
      BY <1>2, <1>6, OneFlagMore DEF raw
    <3>2. QED
      BY <1>1, <1>4, <2>1, <3>1
  <2>3. Comes(place)'
    BY <1>1, <1>3, <2>1, <2>2 DEF Comes
  <2>4. ParsedInv'
    <3>1. /\ index' \in 1 .. Len(source'.cols) + 1 /\ Len(parsed') < index'
          /\ parsed' \in Seq(Made')
      BY <1>1, <1>2, <1>4, <2>1, FlagFacts
    <3>2. \E there \in [DOMAIN parsed' -> Good(index)'] : Comes(there)'
      BY <1>3, <2>1, <2>2, <2>3
    <3>3. QED
      BY <2>2, <3>1, <3>2 DEF ParsedInv
  <2>5. QED
    BY <1>1, <2>2, <2>4 DEF InlineInv
<1>7. CASE ~Fails(index)
  <2> DEFINE c == ColumnOf(source.cols[index])   l == Len(parsed) + 1
  <2>1. parsed' = Append(parsed, c) /\ UNCHANGED errors
    BY <1>7 DEF ParseColumn, Fails, raw
  <2>2. Judged(index)' = Judged(index) /\ Good(index)' = Good(index) \cup {index}
    BY <1>1, <1>2, <1>4, <1>7, OneFlagMore
  <2>3. c \in Made
    BY <1>2, FlagFacts DEF Made
  <2>4. /\ parsed' \in Seq(Made) /\ Len(parsed') = l /\ DOMAIN parsed' = 1 .. l
        /\ parsed'[l] = c /\ \A i \in DOMAIN parsed : parsed'[i] = parsed[i]
    BY <1>2, <2>1, <2>3, AppendProperties
  <2>5. PICK there \in [DOMAIN parsed' -> Good(index)'] :
          there[l] = index /\ \A i \in DOMAIN parsed : there[i] = place[i]
    <3> DEFINE f == [i \in 1 .. l |-> IF i = l THEN index ELSE place[i]]
    <3>1. f \in [DOMAIN parsed' -> Good(index)']
      BY <1>2, <2>2, <2>4
    <3>2. f[l] = index /\ \A i \in DOMAIN parsed : f[i] = place[i]
      BY <1>2
    <3> HIDE DEF f
    <3>3. QED
      BY <3>1, <3>2
  <2> HIDE DEF c
  <2>6. Comes(there)'
    <3>1. \A i, j \in DOMAIN parsed' : there[i] = there[j] => i = j
      BY <1>2, <1>3, <1>5, <2>4, <2>5 DEF Comes
    <3>2. \A j \in Good(index)' : \E i \in DOMAIN parsed' : there[i] = j
      BY <1>2, <1>3, <2>2, <2>4, <2>5 DEF Comes
    <3>3. \A i \in DOMAIN parsed' : parsed'[i] = ColumnOf(source'.cols[there[i]])
      BY <1>1, <1>2, <1>3, <2>4, <2>5 DEF Comes, c
    <3>4. QED
      BY <2>5, <3>1, <3>2, <3>3 DEF Comes
  <2>7. ASSUME Judged(index) = {}
        PROVE  Len(parsed') = index' - 1 /\ \A i \in DOMAIN parsed' : parsed'[i] = ColumnOf(source'.cols[i])
    BY <1>1, <1>2, <2>4, <2>7 DEF ParsedInv, c
  <2>8. ParsedInv'
    <3>1. index' \in 1 .. Len(source'.cols) + 1 /\ Len(parsed') < index'
      BY <1>1, <1>2, <2>4, FlagFacts
    <3>2. QED
      BY <1>4, <2>2, <2>4, <2>5, <2>6, <2>7, <3>1 DEF ParsedInv
  <2>9. QED
    BY <1>1, <2>1, <2>2, <2>8 DEF InlineInv
<1>8. QED
  BY <1>6, <1>7

LEMMA ChooseKeyStep ==
  ASSUME source \in FlagLists, InlineInv, ChooseKey, outcome = "none"
  PROVE  InlineInv'
<1>1. /\ phase = "column" /\ index > Len(source.cols) /\ UNCHANGED <<source, index, parsed>>
      /\ ParsedInv /\ source.cols # <<>> /\ errors = Judged(index)
  BY DEF ChooseKey, InlineInv
<1>2. index = Len(source.cols) + 1
  BY <1>1, FlagFacts DEF ParsedInv
<1>3. ParsedInv' /\ Judged(index)' = Judged(index) /\ TwoKeys' = TwoKeys /\ Marked' = Marked
  BY <1>1, NothingParsed DEF Marked
<1>4. CASE errors \cup TwoKeys # {}
  <2>1. phase' = "done" /\ outcome' = "SchemaError" /\ errors' = errors \cup TwoKeys
    BY <1>4 DEF ChooseKey, End, TwoKeys
  <2>2. QED
    BY <1>1, <1>2, <1>3, <1>4, <2>1 DEF InlineInv
<1>5. CASE errors \cup TwoKeys = {}
  <2>1. /\ key' = parsed[IF Marked # {} THEN Min(Marked) ELSE 1].name
        /\ phase' = "table" /\ UNCHANGED <<errors, outcome>>
    BY <1>5 DEF ChooseKey, TwoKeys
  <2>2. KeyInv'
    BY <1>1, <1>2, <1>3, <1>5, <2>1 DEF KeyInv
  <2>3. QED
    BY <1>1, <1>3, <1>5, <2>1, <2>2 DEF InlineInv
<1>6. QED
  BY <1>4, <1>5

LEMMA BuildTableStep ==
  ASSUME source \in FlagLists, InlineInv, BuildTable, outcome = "none"
  PROVE  InlineInv'
<1>1. phase = "table" /\ UNCHANGED <<source, index, parsed, key>> /\ ParsedInv /\ KeyInv /\ errors = {}
  BY DEF BuildTable, InlineInv
<1>2. ParsedInv' /\ KeyInv' /\ TableIsRefused' = TableIsRefused
  BY <1>1, NothingParsed
<1>3. CASE TableIsRefused
  BY <1>1, <1>2, <1>3 DEF BuildTable, End, InlineInv
<1>4. CASE ~TableIsRefused
  BY <1>1, <1>2, <1>4 DEF BuildTable, End, InlineInv
<1>5. QED
  BY <1>3, <1>4

-----------------------------------------------------------------------------
(* Numbers. *)
LEMMA Least ==
  ASSUME NEW S \in SUBSET Nat, S # {}
  PROVE  \E n \in S : \A m \in S : n <= m
<1>1. \E n \in S : \A m \in S : <<m, n>> \notin OpToRel(<, Nat)
  BY NatLessThanWellFounded, WFMin
<1>2. \A m, n \in Nat : <<m, n>> \notin OpToRel(<, Nat) => n <= m
  BY DEF OpToRel
<1>3. QED
  BY <1>1, <1>2

LEMMA MaxIs ==
  ASSUME NEW S \in SUBSET Nat, S # {}, NEW b \in Nat, \A n \in S : n <= b
  PROVE  Max(S) \in S /\ \A n \in S : n <= Max(S)
<1> DEFINE D == {b - n : n \in S}
<1>1. PICK d \in D : \A e \in D : d <= e
  <2>1. \A n \in S : b - n \in Nat
    OBVIOUS
  <2>2. D \subseteq Nat /\ D # {}
    BY <2>1
  <2> HIDE DEF D
  <2>3. QED
    BY <2>2, Least
<1>2. PICK x \in S : d = b - x
  BY <1>1
<1>3. \A y \in S : x >= y
  <2>1. \A y \in S : d <= b - y
    BY <1>1
  <2>2. QED
    BY <1>2, <2>1
<1>4. Max(S) \in S /\ \A y \in S : Max(S) >= y
  BY <1>3 DEF Max
<1>5. QED
  BY <1>4

LEMMA MinIs ==
  ASSUME NEW S \in SUBSET Nat, S # {}
  PROVE  Min(S) \in S
BY Least DEF Min

(* A finite set has more than one element if two of its elements differ. *)
LEMMA MoreThanOne ==
  ASSUME NEW S, IsFiniteSet(S)
  PROVE  Cardinality(S) > 1 <=> \E x, y \in S : x # y
<1>1. Cardinality(S) \in Nat
  BY FS_CardinalityType
<1>2. Cardinality(S) = 0 <=> S = {}
  BY FS_EmptySet
<1>3. Cardinality(S) = 1 <=> \E x : S = {x}
  BY FS_Singleton
<1>4. QED
  BY <1>1, <1>2, <1>3

-----------------------------------------------------------------------------
(* The trees of documents. *)
LEMMA LimitsAre ==
  /\ MaxDepth \in Nat /\ StackDepth \in Nat /\ MaxDepth < StackDepth
  /\ MaxTables \in Nat /\ MaxColumns \in Nat /\ MaxParams \in Nat
BY SourcesAssumption

Nodes       == DOMAIN tree
Labels      == UNION {Range(p) : p \in Nodes}
Under(p, q) == Len(p) <= Len(q) /\ \A i \in 1 .. Len(p) : q[i] = p[i]

LEMMA TreeFacts ==
  ASSUME source \in Documents
  PROVE  /\ source.given # "flags"
         /\ IsFiniteSet(Nodes) /\ <<>> \in Nodes
         /\ \A p \in Nodes : p \in Seq(Labels) /\ Len(p) \in Nat /\ DOMAIN p = 1 .. Len(p)
         /\ \A p \in Nodes : p # <<>> => Front(p) \in Nodes /\ Len(p) > 0
<1>1. /\ source.given # "flags"
      /\ IsFiniteSet(Nodes) /\ <<>> \in Nodes
      /\ \A p \in Nodes : p \in Seq(Range(p))
      /\ \A p \in Nodes : p # <<>> => Front(p) \in Nodes
  BY SourcesAssumption DEF Nodes, tree
<1>2. ASSUME NEW p \in Nodes
      PROVE  p \in Seq(Labels) /\ Len(p) \in Nat /\ DOMAIN p = 1 .. Len(p) /\ (p # <<>> => Len(p) > 0)
  <2>1. Range(p) \subseteq Labels
    BY DEF Labels
  <2>2. p \in Seq(Labels)
    BY <1>1, <2>1, SeqMonotonic
  <2>3. QED
    BY <2>2, LenProperties, EmptySeq
<1>3. QED
  BY <1>1, <1>2

LEMMA PrefixIs ==
  ASSUME NEW K, NEW p \in Seq(K), NEW n \in 0 .. Len(p)
  PROVE  /\ SubSeq(p, 1, n) \in Seq(K) /\ Len(SubSeq(p, 1, n)) = n
         /\ \A i \in 1 .. n : SubSeq(p, 1, n)[i] = p[i]
<1>1. Len(p) \in Nat /\ \A i \in 1 .. n : p[i] \in K
  BY LenProperties, ElementOfSeq
<1>2. QED
  BY <1>1, SubSeqProperties

(* All prefixes of a node are nodes. *)
LEMMA PrefixesAreNodes ==
  ASSUME source \in Documents, NEW p \in Nodes, NEW n \in 0 .. Len(p)
  PROVE  SubSeq(p, 1, n) \in Nodes
<1> DEFINE Bad == {k \in 0 .. Len(p) : SubSeq(p, 1, Len(p) - k) \notin Nodes}
<1>1. p \in Seq(Labels) /\ Len(p) \in Nat
  BY TreeFacts
<1>2. SUFFICES ASSUME Bad # {} PROVE FALSE
  <2>1. Len(p) - n \in 0 .. Len(p) /\ Len(p) - (Len(p) - n) = n
    BY <1>1
  <2>2. QED
    BY <2>1
<1>3. PICK k \in Bad : \A m \in Bad : k <= m
  <2>1. Bad \in SUBSET Nat
    BY <1>1
  <2> HIDE DEF Bad
  <2>2. QED
    BY <1>2, <2>1, Least
<1>4. k # 0
  <2>1. SubSeq(p, 1, Len(p)) \in Nodes
    BY <1>1, SubSeqFull
  <2>2. Len(p) - 0 = Len(p)
    BY <1>1
  <2>3. QED
    BY <1>3, <2>1, <2>2
<1> DEFINE l == Len(p) - k   q == SubSeq(p, 1, l + 1)
<1>5. l \in 0 .. Len(p) - 1 /\ k - 1 \in 0 .. Len(p) /\ Len(p) - (k - 1) = l + 1
  BY <1>1, <1>3, <1>4
<1>6. q \in Nodes
  BY <1>3, <1>5
<1>7. q \in Seq(Labels) /\ Len(q) = l + 1 /\ \A i \in 1 .. l + 1 : q[i] = p[i]
  BY <1>1, <1>5, PrefixIs
<1>8. SubSeq(q, 1, l) = SubSeq(p, 1, l)
  <2> HIDE DEF q
  <2>1. /\ SubSeq(q, 1, l) \in Seq(Labels) /\ Len(SubSeq(q, 1, l)) = l
        /\ \A i \in 1 .. l : SubSeq(q, 1, l)[i] = q[i]
    <3>1. l \in 0 .. Len(q)
      BY <1>1, <1>5, <1>7
    <3>2. QED
      BY <1>7, <3>1, PrefixIs
  <2>2. /\ SubSeq(p, 1, l) \in Seq(Labels) /\ Len(SubSeq(p, 1, l)) = l
        /\ \A i \in 1 .. l : SubSeq(p, 1, l)[i] = p[i]
    BY <1>1, <1>5, PrefixIs
  <2> HIDE DEF l
  <2>3. \A i \in 1 .. l : SubSeq(q, 1, l)[i] = SubSeq(p, 1, l)[i]
    BY <1>5, <1>7, <2>1, <2>2
  <2>4. QED
    BY <2>1, <2>2, <2>3, SeqEqual
<1>9. SubSeq(q, 1, l) \in Nodes
  <2>1. q # <<>> /\ (l + 1) - 1 = l
    <3>1. l \in Nat /\ (l + 1) - 1 = l /\ l + 1 # 0
      BY <1>1, <1>5
    <3> HIDE DEF q, l
    <3>2. QED
      BY <1>7, <3>1, EmptySeq
  <2>2. Front(q) = SubSeq(q, 1, l)
    BY <1>7, <2>1 DEF Front
  <2>3. QED
    BY <1>6, <2>1, <2>2, TreeFacts
<1>10. QED
  BY <1>3, <1>8, <1>9

LEMMA SameNode ==
  ASSUME source \in Documents, NEW p \in Nodes, NEW q \in Nodes, Len(p) = Len(q), Under(p, q)
  PROVE  p = q
BY TreeFacts, SeqEqual DEF Under

LEMMA PrefixNode ==
  ASSUME source \in Documents, NEW q \in Nodes, NEW n \in 0 .. Len(q)
  PROVE  /\ SubSeq(q, 1, n) \in Nodes /\ Len(SubSeq(q, 1, n)) = n
         /\ Under(SubSeq(q, 1, n), q)
         /\ \A i \in 1 .. n : SubSeq(q, 1, n)[i] = q[i]
BY PrefixesAreNodes, TreeFacts, PrefixIs DEF Under

(* The node of a prefix is that prefix. *)
LEMMA UnderIsPrefix ==
  ASSUME source \in Documents, NEW p \in Nodes, NEW q \in Nodes, Under(p, q)
  PROVE  SubSeq(q, 1, Len(p)) = p
<1>1. Len(p) \in 0 .. Len(q)
  BY TreeFacts DEF Under
<1> DEFINE r == SubSeq(q, 1, Len(p))
<1>2. r \in Nodes /\ Len(r) = Len(p) /\ \A i \in 1 .. Len(p) : r[i] = q[i]
  BY <1>1, PrefixNode
<1> HIDE DEF r
<1>3. Under(p, r)
  BY <1>2, TreeFacts DEF Under
<1>4. p = r
  BY <1>2, <1>3, SameNode
<1>5. QED
  BY <1>4 DEF r

LEMMA ChildrenAre ==
  ASSUME source \in Documents, NEW p \in Nodes, NEW q \in Nodes
  PROVE  q \in Children(p) <=> Len(q) = Len(p) + 1 /\ Under(p, q)
<1>1. Len(p) \in Nat /\ Len(q) \in Nat /\ Len(<<>>) = 0
  BY TreeFacts
<1>2. q \in Children(p) <=> q # <<>> /\ Front(q) = p
  BY DEF Children, Nodes
<1>3. ASSUME q # <<>>, Front(q) = p PROVE Len(q) = Len(p) + 1 /\ Under(p, q)
  <2>1. Len(q) > 0 /\ Len(q) - 1 \in 0 .. Len(q) /\ p = SubSeq(q, 1, Len(q) - 1)
    BY <1>1, <1>3, TreeFacts DEF Front
  <2>2. Len(p) = Len(q) - 1 /\ Under(p, q)
    BY <2>1, PrefixNode
  <2>3. QED
    BY <1>1, <2>2
<1>4. ASSUME Len(q) = Len(p) + 1, Under(p, q) PROVE q # <<>> /\ Front(q) = p
  <2>1. q # <<>> /\ Len(q) - 1 = Len(p)
    BY <1>1, <1>4
  <2>2. QED
    BY <1>4, <2>1, UnderIsPrefix DEF Front
<1>5. QED
  BY <1>2, <1>3, <1>4

(* On the way from a node to one below lies a child. *)
LEMMA NextNode ==
  ASSUME source \in Documents, NEW p \in Nodes, NEW q \in Nodes, Under(p, q), p # q
  PROVE  /\ Len(p) < Len(q)
         /\ SubSeq(q, 1, Len(p) + 1) \in Children(p) /\ Under(SubSeq(q, 1, Len(p) + 1), q)
<1>1. Len(p) \in Nat /\ Len(q) \in Nat /\ Len(p) < Len(q)
  BY SameNode, TreeFacts DEF Under
<1> DEFINE c == SubSeq(q, 1, Len(p) + 1)
<1>2. /\ c \in Nodes /\ Len(c) = Len(p) + 1 /\ Under(c, q)
      /\ \A i \in 1 .. Len(p) + 1 : c[i] = q[i]
  <2>1. Len(p) + 1 \in 0 .. Len(q)
    BY <1>1
  <2>2. QED
    BY <2>1, PrefixNode
<1> HIDE DEF c
<1>3. Under(p, c)
  BY <1>1, <1>2 DEF Under
<1>4. QED
  BY <1>1, <1>2, <1>3, ChildrenAre DEF c

LEMMA BelowChild ==
  ASSUME source \in Documents, NEW p \in Nodes, NEW c \in Children(p)
  PROVE  /\ c \in Nodes /\ Len(c) = Len(p) + 1 /\ Under(p, c) /\ Front(c) = p
         /\ \A q \in Nodes : Under(c, q) => Under(p, q) /\ Len(p) < Len(q)
<1>1. c \in Nodes /\ Front(c) = p
  BY DEF Children, Nodes
<1>2. Len(c) = Len(p) + 1 /\ Under(p, c)
  BY <1>1, ChildrenAre
<1>3. \A q \in Nodes : Under(c, q) => Under(p, q) /\ Len(p) < Len(q)
  BY <1>1, <1>2, TreeFacts DEF Under
<1>4. QED
  BY <1>1, <1>2, <1>3

(* Where the walks of layer 1 come from a node: over dicts and lists only.  *)
Reaches(p, q) == Under(p, q) /\ \A n \in Len(p) .. Len(q) - 1 : tree[SubSeq(q, 1, n)] \in Walked

LEMMA ReachesItself ==
  ASSUME source \in Documents, NEW p \in Nodes
  PROVE  Reaches(p, p)
<1>1. Len(p) \in Nat
  BY TreeFacts
<1>2. Under(p, p) /\ Len(p) .. Len(p) - 1 = {}
  BY <1>1 DEF Under
<1>3. QED
  BY <1>2 DEF Reaches

LEMMA RootReaches ==
  ASSUME source \in Documents, NEW q \in Nodes
  PROVE  Reaches(<<>>, q) <=> Reached(q)
<1>1. Under(<<>>, q) /\ Len(<<>>) = 0
  BY TreeFacts, EmptySeq DEF Under
<1>2. QED
  BY <1>1 DEF Reaches, Reached

(* On the way from a node to one that it reaches lies an item.              *)
LEMMA NextItem ==
  ASSUME source \in Documents, NEW p \in Nodes, NEW q \in Nodes, Reaches(p, q), p # q
  PROVE  /\ Len(p) < Len(q)
         /\ SubSeq(q, 1, Len(p) + 1) \in Items(p) /\ Reaches(SubSeq(q, 1, Len(p) + 1), q)
<1> DEFINE c == SubSeq(q, 1, Len(p) + 1)
<1>1. Len(p) < Len(q) /\ c \in Children(p) /\ Under(c, q)
  BY NextNode DEF Reaches
<1>2. Len(p) \in Nat /\ Len(q) \in Nat /\ c \in Nodes /\ Len(c) = Len(p) + 1
  BY <1>1, BelowChild, TreeFacts
<1> HIDE DEF c
<1>3. tree[p] \in Walked
  <2>1. SubSeq(q, 1, Len(p)) = p
    BY UnderIsPrefix DEF Reaches
  <2>2. Len(p) \in Len(p) .. Len(q) - 1
    BY <1>1, <1>2
  <2>3. QED
    BY <2>1, <2>2 DEF Reaches
<1>4. Reaches(c, q)
  <2>1. \A n \in Len(c) .. Len(q) - 1 : n \in Len(p) .. Len(q) - 1
    BY <1>1, <1>2
  <2>2. QED
    BY <1>1, <2>1 DEF Reaches
<1>5. QED
  BY <1>1, <1>3, <1>4 DEF Items, c

LEMMA BelowItem ==
  ASSUME source \in Documents, NEW p \in Nodes, NEW c \in Items(p)
  PROVE  /\ c \in Nodes /\ Len(c) = Len(p) + 1 /\ Reaches(p, c) /\ Front(c) = p
         /\ \A q \in Nodes : Reaches(c, q) => Reaches(p, q) /\ Len(p) < Len(q)
<1>1. tree[p] \in Walked /\ c \in Children(p)
  BY DEF Items
<1>2. /\ c \in Nodes /\ Len(c) = Len(p) + 1 /\ Under(p, c) /\ Front(c) = p
      /\ \A q \in Nodes : Under(c, q) => Under(p, q) /\ Len(p) < Len(q)
  BY <1>1, BelowChild
<1>3. Len(p) \in Nat
  BY TreeFacts
<1>4. ASSUME NEW q \in Nodes, Reaches(c, q) PROVE Reaches(p, q) /\ Len(p) < Len(q)
  <2>1. Under(p, q) /\ Len(p) < Len(q) /\ Len(q) \in Nat
    BY <1>2, <1>4, TreeFacts DEF Reaches
  <2>2. ASSUME NEW n \in Len(p) .. Len(q) - 1 PROVE tree[SubSeq(q, 1, n)] \in Walked
    <3>1. CASE n = Len(p)
      <4>1. SubSeq(q, 1, n) = p
        BY <2>1, <3>1, UnderIsPrefix
      <4>2. QED
        BY <1>1, <4>1
    <3>2. CASE n # Len(p)
      <4>1. n \in Len(c) .. Len(q) - 1
        BY <1>2, <1>3, <2>1, <3>2
      <4>2. QED
        BY <1>4, <4>1 DEF Reaches
    <3>3. QED
      BY <3>1, <3>2
  <2>3. QED
    BY <2>1, <2>2 DEF Reaches
<1>5. Reaches(p, c)
  BY <1>2, <1>4, ReachesItself
<1>6. QED
  BY <1>2, <1>4, <1>5

(* A tree is finite: its depth is bounded. *)
LEMMA TreeHeight ==
  ASSUME source \in Documents
  PROVE  \E b \in Nat : \A p \in Nodes : Len(p) <= b
<1>1. PICK f \in Bijection(1 .. Cardinality(Nodes), Nodes) : Cardinality(Nodes) \in Nat
  BY TreeFacts, FS_CardinalityType DEF ExistsBijection
<1> DEFINE N == Cardinality(Nodes)
           Bounded(k) == \E b \in Nat : \A i \in 1 .. k : Len(f[i]) <= b
           Bad == {k \in 0 .. N : ~Bounded(k)}
<1>2. /\ N \in Nat /\ \A i \in 1 .. N : f[i] \in Nodes /\ Len(f[i]) \in Nat
      /\ \A p \in Nodes : \E i \in 1 .. N : f[i] = p
  BY <1>1, TreeFacts DEF Bijection, Surjection, Injection
<1> HIDE DEF N
<1>3. Bounded(0)
  OBVIOUS
<1>4. ASSUME NEW k \in 1 .. N, Bounded(k - 1) PROVE Bounded(k)
  <2>1. PICK b \in Nat : \A i \in 1 .. k - 1 : Len(f[i]) <= b
    BY <1>4
  <2>2. Len(f[k]) \in Nat /\ b + Len(f[k]) \in Nat
    BY <1>2
  <2>3. \A i \in 1 .. k : Len(f[i]) <= b + Len(f[k])
    <3>1. ASSUME NEW i \in 1 .. k PROVE Len(f[i]) <= b + Len(f[k])
      <4>1. Len(f[i]) \in Nat /\ (i = k \/ i \in 1 .. k - 1)
        BY <1>2
      <4>2. QED
        BY <2>1, <2>2, <4>1
    <3>2. QED
      BY <3>1
  <2>4. QED
    BY <2>2, <2>3
<1> HIDE DEF Bounded
<1>5. Bad = {}
  <2>1. SUFFICES ASSUME Bad # {} PROVE FALSE
    OBVIOUS
  <2>2. Bad \in SUBSET Nat
    OBVIOUS
  <2>3. PICK k \in Bad : \A m \in Bad : k <= m
    BY <2>1, <2>2, Least
  <2>4. k \in 1 .. N
    BY <1>2, <1>3, <2>3
  <2>5. k - 1 \in 0 .. N /\ k - 1 \notin Bad
    BY <1>2, <2>3, <2>4
  <2>6. QED
    BY <1>4, <2>3, <2>4, <2>5
<1>6. PICK b \in Nat : \A i \in 1 .. N : Len(f[i]) <= b
  <2>1. N \in 0 .. N
    BY <1>2
  <2>2. Bounded(N)
    BY <1>5, <2>1
  <2>3. QED
    BY <2>2 DEF Bounded
<1>7. QED
  BY <1>2, <1>6

-----------------------------------------------------------------------------
(* What a recursion over a tree computes.  Its equation determines it: two *)
(* functions that satisfy it agree, the deepest node where they differ     *)
(* having children where they do not.                                      *)
LEMMA Deepest ==
  ASSUME source \in Documents, NEW S \in SUBSET Nodes, S # {}
  PROVE  \E p \in S : \A q \in S : Len(q) <= Len(p)
<1>1. PICK b \in Nat : \A p \in Nodes : Len(p) <= b
  BY TreeHeight
<1> DEFINE L == {Len(p) : p \in S}
<1>2. L \in SUBSET Nat /\ L # {} /\ \A n \in L : n <= b
  BY <1>1, TreeFacts
<1> HIDE DEF L
<1>3. Max(L) \in L /\ \A n \in L : n <= Max(L)
  BY <1>1, <1>2, MaxIs
<1>4. QED
  BY <1>3 DEF L

IsDepth(f) ==
  f = [p \in Nodes |-> IF Items(p) = {} THEN Len(p) ELSE Max({f[q] : q \in Items(p)})]
Depths(p)  == {Len(q) : q \in {r \in Nodes : Reaches(p, r)}}
DepthFrom  == [p \in Nodes |-> Max(Depths(p))]

LEMMA DepthsBound ==
  ASSUME source \in Documents, NEW p \in Nodes
  PROVE  /\ Max(Depths(p)) \in Depths(p) /\ \A n \in Depths(p) : n <= Max(Depths(p))
         /\ Depths(p) \in SUBSET Nat /\ Len(p) \in Depths(p)
<1>1. Reaches(p, p) /\ Len(p) \in Nat
  BY TreeFacts, ReachesItself
<1>2. Depths(p) \in SUBSET Nat /\ Len(p) \in Depths(p)
  BY <1>1, TreeFacts DEF Depths
<1>3. PICK b \in Nat : \A q \in Nodes : Len(q) <= b
  BY TreeHeight
<1>4. \A n \in Depths(p) : n <= b
  BY <1>3 DEF Depths
<1>5. QED
  BY <1>2, <1>3, <1>4, MaxIs

LEMMA DepthIsUnique ==
  ASSUME source \in Documents, NEW f, NEW g, IsDepth(f), IsDepth(g)
  PROVE  f = g
<1> DEFINE Differ == {p \in Nodes : f[p] # g[p]}
<1>1. /\ f = [p \in Nodes |-> f[p]] /\ g = [p \in Nodes |-> g[p]]
      /\ \A p \in Nodes : f[p] = IF Items(p) = {} THEN Len(p) ELSE Max({f[q] : q \in Items(p)})
      /\ \A p \in Nodes : g[p] = IF Items(p) = {} THEN Len(p) ELSE Max({g[q] : q \in Items(p)})
  BY Zenon DEF IsDepth
<1>2. SUFFICES ASSUME Differ # {} PROVE FALSE
  BY <1>1
<1>3. PICK p \in Differ : \A q \in Differ : Len(q) <= Len(p)
  BY <1>2, Deepest
<1>4. \A c \in Items(p) : f[c] = g[c]
  <2>1. \A c \in Items(p) : c \in Nodes /\ Len(c) = Len(p) + 1 /\ Len(p) \in Nat
    BY BelowItem, TreeFacts
  <2>2. \A c \in Items(p) : c \notin Differ
    BY <1>3, <2>1
  <2>3. QED
    BY <2>1, <2>2
<1>5. {f[c] : c \in Items(p)} = {g[c] : c \in Items(p)}
  BY <1>4
<1>6. QED
  BY <1>1, <1>3, <1>5

LEMMA DepthExists ==
  ASSUME source \in Documents
  PROVE  IsDepth(DepthFrom)
<1>1. ASSUME NEW p \in Nodes, Items(p) = {} PROVE Max(Depths(p)) = Len(p)
  <2>1. \A q \in Nodes : Reaches(p, q) => q = p
    BY <1>1, NextItem
  <2>2. Max(Depths(p)) \in Depths(p)
    BY DepthsBound
  <2>3. QED
    BY <2>1, <2>2 DEF Depths
<1>2. ASSUME NEW p \in Nodes, Items(p) # {}
      PROVE  Max(Depths(p)) = Max({DepthFrom[c] : c \in Items(p)})
  <2> DEFINE M == {DepthFrom[c] : c \in Items(p)}   d == Max(Depths(p))
  <2>1. \A c \in Items(p) : c \in Nodes /\ Len(c) = Len(p) + 1 /\ \A q \in Nodes : Reaches(c, q) => Reaches(p, q)
    BY BelowItem
  <2>2. \A c \in Items(p) : DepthFrom[c] = Max(Depths(c))
    BY <2>1 DEF DepthFrom
  <2>3. d \in Nat /\ d \in Depths(p) /\ \A n \in Depths(p) : n <= d /\ n \in Nat
    BY DepthsBound
  <2>4. \A n \in M : n \in Depths(p)
    <3>1. ASSUME NEW c \in Items(p) PROVE DepthFrom[c] \in Depths(p)
      <4>1. DepthFrom[c] \in Depths(c)
        BY <2>1, <2>2, DepthsBound
      <4>2. QED
        BY <2>1, <4>1 DEF Depths
    <3>2. QED
      BY <3>1
  <2>5. \E n \in M : d <= n
    <3>1. PICK q \in Nodes : Reaches(p, q) /\ Len(q) >= Len(p) + 1 /\ Len(q) = d
      <4>1. PICK c \in Items(p) : TRUE
        BY <1>2
      <4>2. Len(c) \in Depths(p) /\ Len(p) \in Nat /\ Len(c) = Len(p) + 1
        <5>1. Reaches(p, c) /\ c \in Nodes
          BY BelowItem
        <5>2. QED
          BY <2>1, <5>1, TreeFacts DEF Depths
      <4>3. PICK q \in Nodes : Reaches(p, q) /\ Len(q) = d
        BY <2>3 DEF Depths
      <4>4. QED
        BY <2>3, <4>2, <4>3
    <3>2. p # q
      BY <3>1, TreeFacts
    <3>3. PICK c \in Items(p) : Reaches(c, q)
      BY <3>1, <3>2, NextItem
    <3>4. d \in Depths(c)
      BY <3>1, <3>3 DEF Depths
    <3>5. d <= DepthFrom[c]
      BY <2>1, <2>2, <3>4, DepthsBound
    <3>6. QED
      BY <3>5
  <2> HIDE DEF M, d
  <2>6. M # {} /\ M \in SUBSET Nat /\ \A n \in M : n <= d
    BY <2>3, <2>4, <2>5
  <2>7. Max(M) \in M /\ \A n \in M : n <= Max(M)
    BY <2>3, <2>6, MaxIs
  <2>8. d = Max(M)
    <3>1. PICK n \in M : d <= n
      BY <2>5
    <3>2. n <= Max(M) /\ Max(M) <= d /\ n \in Nat /\ Max(M) \in Nat
      BY <2>6, <2>7
    <3>3. QED
      BY <2>3, <3>1, <3>2
  <2>9. QED
    BY <2>8, Zenon DEF d, M
<1>3. QED
  BY <1>1, <1>2, Zenon DEF IsDepth, DepthFrom

(* The recursion of _max_depth gives the length of a longest path that is   *)
(* reached.                                                                 *)
LEMMA DepthIs ==
  ASSUME source \in Documents
  PROVE  \A n \in Nat : DepthOf > n <=> \E p \in Nodes : Reached(p) /\ Len(p) > n
<1>1. DepthOf = (CHOOSE f : IsDepth(f))[<<>>]
  BY Zenon DEF DepthOf, IsDepth, Nodes
<1>2. (CHOOSE f : IsDepth(f)) = DepthFrom
  <2>1. IsDepth(CHOOSE f : IsDepth(f))
    BY DepthExists
  <2>2. QED
    BY <2>1, DepthExists, DepthIsUnique
<1>3. DepthOf = Max(Depths(<<>>))
  BY <1>1, <1>2, TreeFacts DEF DepthFrom
<1>4. Depths(<<>>) = {Len(p) : p \in {r \in Nodes : Reached(r)}}
  BY RootReaches DEF Depths
<1>5. DepthOf \in Depths(<<>>) /\ \A n \in Depths(<<>>) : n <= DepthOf /\ n \in Nat
  BY <1>3, TreeFacts, DepthsBound
<1>6. QED
  BY <1>4, <1>5

IsScan(f) ==
  f = [p \in Nodes |->
         LET here == {q \in Items(p) : tree[p] = "map" /\ Last(q) \in Forbidden}
         IN  here \cup UNION {f[q] : q \in Items(p) \ here}]
Here(p)  == {q \in Items(p) : Secret(q)}
ScanFrom == [p \in Nodes |->
  {q \in Nodes : /\ Reaches(p, q) /\ Len(p) < Len(q) /\ Secret(q)
                 /\ \A n \in Len(p) + 1 .. Len(q) - 1 : ~Secret(SubSeq(q, 1, n))}]

LEMMA ScanEquation ==
  ASSUME NEW f
  PROVE  IsScan(f) <=> f = [p \in Nodes |-> Here(p) \cup UNION {f[q] : q \in Items(p) \ Here(p)}]
<1>1. \A p \in Nodes : {q \in Items(p) : tree[p] = "map" /\ Last(q) \in Forbidden} = Here(p)
  <2>1. \A p \in Nodes : \A q \in Items(p) : q # <<>> /\ Front(q) = p
    BY DEF Items, Children
  <2>2. QED
    BY <2>1 DEF Here, Secret
<1>2. QED
  BY <1>1 DEF IsScan

LEMMA ScanIsUnique ==
  ASSUME source \in Documents, NEW f, NEW g, IsScan(f), IsScan(g)
  PROVE  f = g
<1> DEFINE Differ == {p \in Nodes : f[p] # g[p]}
<1>1. /\ f = [p \in Nodes |-> Here(p) \cup UNION {f[q] : q \in Items(p) \ Here(p)}]
      /\ g = [p \in Nodes |-> Here(p) \cup UNION {g[q] : q \in Items(p) \ Here(p)}]
  BY ScanEquation
<1>2. /\ f = [p \in Nodes |-> f[p]] /\ g = [p \in Nodes |-> g[p]]
      /\ \A p \in Nodes : f[p] = Here(p) \cup UNION {f[q] : q \in Items(p) \ Here(p)}
      /\ \A p \in Nodes : g[p] = Here(p) \cup UNION {g[q] : q \in Items(p) \ Here(p)}
  BY <1>1, Zenon
<1>3. SUFFICES ASSUME Differ # {} PROVE FALSE
  BY <1>2
<1>4. PICK p \in Differ : \A q \in Differ : Len(q) <= Len(p)
  BY <1>3, Deepest
<1>5. \A c \in Items(p) : f[c] = g[c]
  <2>1. \A c \in Items(p) : c \in Nodes /\ Len(c) = Len(p) + 1 /\ Len(p) \in Nat
    BY BelowItem, TreeFacts
  <2>2. \A c \in Items(p) : c \notin Differ
    BY <1>4, <2>1
  <2>3. QED
    BY <2>1, <2>2
<1>6. {f[q] : q \in Items(p) \ Here(p)} = {g[q] : q \in Items(p) \ Here(p)}
  BY <1>5
<1>7. QED
  BY <1>2, <1>4, <1>6

LEMMA ScanExists ==
  ASSUME source \in Documents
  PROVE  IsScan(ScanFrom)
<1>1. ASSUME NEW p \in Nodes
      PROVE  ScanFrom[p] = Here(p) \cup UNION {ScanFrom[c] : c \in Items(p) \ Here(p)}
  <2> DEFINE Rest == UNION {ScanFrom[c] : c \in Items(p) \ Here(p)}
  <2>1. Len(p) \in Nat /\ \A q \in Nodes : Len(q) \in Nat
    BY TreeFacts
  <2>2. \A c \in Items(p) :
          /\ c \in Nodes /\ Len(c) = Len(p) + 1 /\ Reaches(p, c)
          /\ \A q \in Nodes : Reaches(c, q) => Reaches(p, q) /\ Len(p) < Len(q)
    BY BelowItem
  <2>3. ASSUME NEW q \in ScanFrom[p] PROVE q \in Here(p) \cup Rest
    <3> DEFINE c == SubSeq(q, 1, Len(p) + 1)
    <3>1. /\ q \in Nodes /\ Reaches(p, q) /\ Len(p) < Len(q) /\ Secret(q)
          /\ \A n \in Len(p) + 1 .. Len(q) - 1 : ~Secret(SubSeq(q, 1, n))
      BY DEF ScanFrom
    <3>2. c \in Items(p) /\ Reaches(c, q)
      BY <2>1, <3>1, NextItem
    <3>3. CASE Len(q) = Len(p) + 1
      <4>1. q = c
        BY <2>2, <3>2, <3>1, <3>3, SameNode DEF Reaches
      <4>2. QED
        BY <3>1, <3>2, <4>1 DEF Here
    <3>4. CASE Len(q) # Len(p) + 1
      <4>1. Len(p) + 1 \in Len(p) + 1 .. Len(q) - 1
        BY <2>1, <3>1, <3>4
      <4>2. ~Secret(c)
        BY <3>1, <4>1
      <4>3. c \in Items(p) \ Here(p)
        BY <3>2, <4>2 DEF Here
      <4> HIDE DEF c
      <4>4. Len(c) < Len(q) /\ \A n \in Len(c) + 1 .. Len(q) - 1 : ~Secret(SubSeq(q, 1, n))
        BY <2>1, <2>2, <3>1, <3>2, <3>4
      <4>5. q \in ScanFrom[c]
        BY <2>2, <3>1, <3>2, <4>4 DEF ScanFrom
      <4>6. QED
        BY <4>3, <4>5
    <3>5. QED
      BY <3>3, <3>4
  <2>4. ASSUME NEW q \in Here(p) PROVE q \in ScanFrom[p]
    <3>1. q \in Nodes /\ Reaches(p, q) /\ Len(p) < Len(q) /\ Secret(q)
      BY <2>1, <2>2 DEF Here
    <3>2. Len(p) + 1 .. Len(q) - 1 = {}
      BY <2>1, <2>2 DEF Here
    <3>3. QED
      BY <3>1, <3>2 DEF ScanFrom
  <2>5. ASSUME NEW c \in Items(p) \ Here(p), NEW q \in ScanFrom[c] PROVE q \in ScanFrom[p]
    <3>1. /\ c \in Nodes /\ q \in Nodes /\ Reaches(c, q) /\ Secret(q) /\ Len(c) < Len(q)
          /\ \A n \in Len(c) + 1 .. Len(q) - 1 : ~Secret(SubSeq(q, 1, n))
      BY <2>2 DEF ScanFrom
    <3>2. SubSeq(q, 1, Len(c)) = c /\ ~Secret(c)
      BY <3>1, UnderIsPrefix DEF Here, Reaches
    <3>3. \A n \in Len(p) + 1 .. Len(q) - 1 : ~Secret(SubSeq(q, 1, n))
      <4>1. ASSUME NEW n \in Len(p) + 1 .. Len(q) - 1 PROVE ~Secret(SubSeq(q, 1, n))
        <5>1. n = Len(c) \/ n \in Len(c) + 1 .. Len(q) - 1
          BY <2>1, <2>2
        <5>2. QED
          BY <3>1, <3>2, <5>1
      <4>2. QED
        BY <4>1
    <3>4. QED
      BY <2>2, <3>1, <3>3 DEF ScanFrom
  <2>6. QED
    BY <2>3, <2>4, <2>5
<1>2. ScanFrom = [p \in Nodes |-> ScanFrom[p]]
  BY DEF ScanFrom
<1>3. QED
  BY <1>1, <1>2, ScanEquation

(* The recursion of _scan_forbidden_secrets finds the keys that are forbidden, but   *)
(* for those below another such key.                                       *)
LEMMA ScanIs ==
  ASSUME source \in Documents
  PROVE  ForbiddenKeys = {q \in Nodes : Reached(q) /\ Secret(q) /\ \A n \in 1 .. Len(q) - 1 : ~Secret(SubSeq(q, 1, n))}
<1>1. ForbiddenKeys = (CHOOSE f : IsScan(f))[<<>>]
  BY Zenon DEF ForbiddenKeys, IsScan, Nodes
<1>2. (CHOOSE f : IsScan(f)) = ScanFrom
  <2>1. IsScan(CHOOSE f : IsScan(f))
    BY ScanExists
  <2>2. QED
    BY <2>1, ScanExists, ScanIsUnique
<1>3. ForbiddenKeys = {q \in Nodes : /\ Reaches(<<>>, q) /\ Len(<<>>) < Len(q) /\ Secret(q)
                                     /\ \A n \in Len(<<>>) + 1 .. Len(q) - 1 : ~Secret(SubSeq(q, 1, n))}
  BY <1>1, <1>2, TreeFacts DEF ScanFrom
<1>4. \A q \in Nodes : /\ Reaches(<<>>, q) <=> Reached(q)
                       /\ Secret(q) => Len(<<>>) < Len(q)
  BY TreeFacts, RootReaches DEF Secret
<1>5. Len(<<>>) + 1 = 1
  OBVIOUS
<1>6. QED
  BY <1>3, <1>4, <1>5

-----------------------------------------------------------------------------
(* The places of the tables, columns and params of a document. *)
LEMMA PrefixOfPrefix ==
  ASSUME source \in Documents, NEW q \in Nodes, NEW m \in 0 .. Len(q), NEW n \in 0 .. m
  PROVE  SubSeq(SubSeq(q, 1, m), 1, n) = SubSeq(q, 1, n)
<1> DEFINE a == SubSeq(q, 1, n)   b == SubSeq(q, 1, m)
<1>1. n \in 0 .. Len(q) /\ n <= m
  BY TreeFacts
<1>2. /\ a \in Nodes /\ Len(a) = n /\ \A i \in 1 .. n : a[i] = q[i]
      /\ b \in Nodes /\ Len(b) = m /\ \A i \in 1 .. m : b[i] = q[i]
  BY <1>1, PrefixNode
<1> HIDE DEF a, b
<1>3. Under(a, b)
  BY <1>1, <1>2 DEF Under
<1>4. SubSeq(b, 1, n) = a
  BY <1>2, <1>3, UnderIsPrefix
<1>5. QED
  BY <1>4 DEF a, b

LEMMA AppendNode ==
  ASSUME source \in Documents, NEW p \in Nodes, NEW q \in Nodes, NEW a
  PROVE  q = Append(p, a) <=> Len(q) = Len(p) + 1 /\ Under(p, q) /\ q[Len(p) + 1] = a
<1> DEFINE K == Labels \cup {a}   r == Append(p, a)
<1>1. p \in Seq(K) /\ q \in Seq(K) /\ a \in K /\ Len(p) \in Nat /\ Len(q) \in Nat
  BY TreeFacts, SeqMonotonic
<1> HIDE DEF K
<1>2. /\ r \in Seq(K) /\ Len(r) = Len(p) + 1 /\ r[Len(p) + 1] = a
      /\ \A i \in 1 .. Len(p) : r[i] = p[i]
  BY <1>1, AppendProperties
<1> HIDE DEF r
<1>3. ASSUME Len(q) = Len(p) + 1, Under(p, q), q[Len(p) + 1] = a PROVE q = r
  <2>1. \A i \in 1 .. Len(q) : q[i] = r[i]
    BY <1>1, <1>2, <1>3 DEF Under
  <2>2. QED
    BY <1>1, <1>2, <1>3, <2>1, SeqEqual
<1>4. ASSUME q = r PROVE Len(q) = Len(p) + 1 /\ Under(p, q) /\ q[Len(p) + 1] = a
  BY <1>1, <1>2, <1>4 DEF Under
<1>5. QED
  BY <1>3, <1>4 DEF r

LEMMA FirstNode ==
  ASSUME source \in Documents, NEW q \in Nodes, Len(q) > 0, q[1] = "tables"
  PROVE  SubSeq(q, 1, 1) = <<"tables">> /\ <<"tables">> \in Nodes
<1> DEFINE r == SubSeq(q, 1, 1)
<1>1. 1 \in 0 .. Len(q)
  BY TreeFacts
<1>2. r \in Nodes /\ Len(r) = 1 /\ r[1] = "tables"
  BY <1>1, PrefixNode
<1> HIDE DEF r
<1>3. Len(<<>>) = 0 /\ Under(<<>>, r) /\ <<>> \in Nodes
  BY <1>2, TreeFacts, EmptySeq DEF Under
<1>4. r = Append(<<>>, "tables")
  <2>1. r = Append(<<>>, "tables") <=> Len(r) = Len(<<>>) + 1 /\ Under(<<>>, r) /\ r[Len(<<>>) + 1] = "tables"
    BY <1>2, <1>3, AppendNode
  <2>2. Len(<<>>) + 1 = 1
    OBVIOUS
  <2>3. QED
    BY <1>2, <1>3, <2>1, <2>2
<1>5. Append(<<>>, "tables") = <<"tables">>
  OBVIOUS
<1>6. QED
  BY <1>2, <1>4, <1>5 DEF r

LEMMA TablesAre ==
  ASSUME source \in Documents
  PROVE  /\ Tables \subseteq Nodes
         /\ \A t \in Nodes : t \in Tables <=> Len(t) = 2 /\ t[1] = "tables" /\ tree[<<"tables">>] = "list"
         /\ \A t \in Tables : Front(t) = <<"tables">>
<1> DEFINE w == <<"tables">>
<1>1. Len(w) = 1 /\ w[1] = "tables"
  OBVIOUS
<1>2. Tables \subseteq Nodes
  BY DEF Tables, Children, Nodes
<1>3. ASSUME NEW t \in Tables
      PROVE  Len(t) = 2 /\ t[1] = "tables" /\ tree[w] = "list" /\ Front(t) = w
  <2>1. w \in Nodes /\ tree[w] = "list" /\ t \in Children(w)
    BY DEF Tables, Is, Nodes
  <2> HIDE DEF w
  <2>2. t \in Nodes /\ Len(t) = Len(w) + 1 /\ Under(w, t) /\ Front(t) = w
    BY <2>1, BelowChild
  <2>3. QED
    BY <1>1, <2>1, <2>2 DEF Under
<1>4. ASSUME NEW t \in Nodes, Len(t) = 2, t[1] = "tables", tree[w] = "list"
      PROVE  t \in Tables
  <2>1. w \in Nodes
    BY <1>4, FirstNode
  <2> HIDE DEF w
  <2>2. Under(w, t)
    BY <1>1, <1>4 DEF Under
  <2>3. t \in Children(w)
    <3>1. t \in Children(w) <=> Len(t) = Len(w) + 1 /\ Under(w, t)
      BY <2>1, ChildrenAre
    <3>2. QED
      BY <1>1, <1>4, <2>2, <3>1
  <2>4. QED
    BY <1>4, <2>1, <2>3 DEF Tables, Is, Nodes, w
<1>5. QED
  BY <1>2, <1>3, <1>4

LEMMA ColumnsAre ==
  ASSUME source \in Documents, NEW t \in Tables
  PROVE  /\ Columns(t) \subseteq Nodes
         /\ \A c \in Nodes : c \in Columns(t) <=>
              /\ Len(c) = 4 /\ SubSeq(c, 1, 2) = t /\ c[3] = "columns"
              /\ tree[t] = "map" /\ tree[SubSeq(c, 1, 3)] = "list"
         /\ \A c \in Columns(t) : Front(c) = Append(t, "columns")
<1> DEFINE w == Append(t, "columns")
<1>1. t \in Nodes /\ Len(t) = 2
  BY TablesAre
<1>2. Columns(t) \subseteq Nodes
  BY DEF Columns, Children, Nodes
<1>3. ASSUME NEW c \in Columns(t)
      PROVE  /\ Len(c) = 4 /\ SubSeq(c, 1, 2) = t /\ c[3] = "columns"
             /\ tree[t] = "map" /\ tree[SubSeq(c, 1, 3)] = "list" /\ Front(c) = w
  <2>1. w \in Nodes /\ tree[w] = "list" /\ tree[t] = "map" /\ c \in Children(w)
    BY DEF Columns, Is, Nodes
  <2>2. Len(w) = 3 /\ Under(t, w) /\ w[3] = "columns"
    <3>1. Len(w) = Len(t) + 1 /\ Under(t, w) /\ w[Len(t) + 1] = "columns"
      BY <1>1, <2>1, AppendNode
    <3>2. QED
      BY <1>1, <3>1
  <2> HIDE DEF w
  <2>3. c \in Nodes /\ Len(c) = 4 /\ Under(w, c) /\ Front(c) = w
    <3>1. c \in Nodes /\ Len(c) = Len(w) + 1 /\ Under(w, c) /\ Front(c) = w
      BY <2>1, BelowChild
    <3>2. QED
      BY <2>2, <3>1
  <2>4. Under(t, c) /\ c[3] = "columns"
    BY <1>1, <2>2, <2>3 DEF Under
  <2>5. SubSeq(c, 1, 3) = w /\ SubSeq(c, 1, 2) = t
    BY <1>1, <2>1, <2>2, <2>3, <2>4, UnderIsPrefix
  <2>6. QED
    BY <2>1, <2>3, <2>4, <2>5
<1>4. ASSUME NEW c \in Nodes,
             Len(c) = 4, SubSeq(c, 1, 2) = t, c[3] = "columns", tree[t] = "map", tree[SubSeq(c, 1, 3)] = "list"
      PROVE  c \in Columns(t)
  <2> DEFINE r == SubSeq(c, 1, 3)
  <2>1. r \in Nodes /\ Len(r) = 3 /\ Under(r, c) /\ \A i \in 1 .. 3 : r[i] = c[i]
    <3>1. 3 \in 0 .. Len(c)
      BY <1>4
    <3>2. QED
      BY <3>1, PrefixNode
  <2>2. \A i \in 1 .. 2 : c[i] = t[i]
    <3>1. 2 \in 0 .. Len(c)
      BY <1>4
    <3>2. QED
      BY <1>4, <3>1, PrefixNode
  <2> HIDE DEF r
  <2>3. Under(t, r)
    BY <1>1, <2>1, <2>2 DEF Under
  <2>4. r = w
    <3>1. \A q \in Nodes : q = w <=> Len(q) = Len(t) + 1 /\ Under(t, q) /\ q[Len(t) + 1] = "columns"
      BY <1>1, AppendNode
    <3>2. Len(t) + 1 = 3
      BY <1>1
    <3>3. r[3] = "columns"
      BY <1>4, <2>1
    <3> HIDE DEF w
    <3>4. QED
      BY <2>1, <2>3, <3>1, <3>2, <3>3
  <2>5. c \in Children(r)
    <3>1. c \in Children(r) <=> Len(c) = Len(r) + 1 /\ Under(r, c)
      BY <2>1, ChildrenAre
    <3>2. QED
      BY <1>4, <2>1, <3>1
  <2>6. QED
    BY <1>1, <1>4, <2>1, <2>4, <2>5 DEF Columns, Is, Nodes, r
<1>5. QED
  BY <1>2, <1>3, <1>4

LEMMA ParamsAre ==
  ASSUME source \in Documents, NEW c \in Nodes, Len(c) = 4
  PROVE  /\ Params(c) \subseteq Nodes
         /\ \A p \in Nodes : p \in Params(c) <=>
              /\ Len(p) = 5 /\ SubSeq(p, 1, 4) = c /\ p[5] = "params"
              /\ tree[c] = "map" /\ tree[p] = "map"
<1>1. Params(c) \subseteq Nodes
  BY DEF Params, Is, Nodes
<1>2. ASSUME NEW p \in Nodes
      PROVE  p = Append(c, "params") <=> Len(p) = 5 /\ SubSeq(p, 1, 4) = c /\ p[5] = "params"
  <2>1. ASSUME Len(p) = 5 PROVE Under(c, p) <=> SubSeq(p, 1, 4) = c
    <3>1. Under(c, p) => SubSeq(p, 1, 4) = c
      BY UnderIsPrefix
    <3>2. Under(SubSeq(p, 1, 4), p)
      <4>1. 4 \in 0 .. Len(p)
        BY <2>1
      <4>2. QED
        BY <4>1, PrefixNode
    <3>3. QED
      BY <3>1, <3>2
  <2>2. p = Append(c, "params") <=> Len(p) = 5 /\ Under(c, p) /\ p[5] = "params"
    <3>1. p = Append(c, "params") <=> Len(p) = Len(c) + 1 /\ Under(c, p) /\ p[Len(c) + 1] = "params"
      BY AppendNode
    <3>2. Len(c) + 1 = 5
      OBVIOUS
    <3>3. QED
      BY <3>1, <3>2
  <2>3. QED
    BY <2>1, <2>2
<1>3. \A p \in Nodes : p \in Params(c) <=> p = Append(c, "params") /\ tree[c] = "map" /\ tree[p] = "map"
  BY DEF Params, Is, Nodes
<1>4. QED
  BY <1>1, <1>2, <1>3

(* Whether a node is in a table, a column or params is said of its        *)
(* prefixes.                                                               *)
LEMMA PlacesAre ==
  ASSUME source \in Documents, NEW q \in Nodes
  PROVE  /\ InTable(q) <=> Len(q) > 1 /\ SubSeq(q, 1, 2) \in Tables
         /\ InColumn(q) <=> InTable(q) /\ Len(q) > 3 /\ SubSeq(q, 1, 4) \in Columns(SubSeq(q, 1, 2))
         /\ InParams(q) <=> InColumn(q) /\ Len(q) > 5 /\ SubSeq(q, 1, 5) \in Params(SubSeq(q, 1, 4))
<1>1. Len(q) \in Nat
  BY TreeFacts
<1>2. ASSUME NEW n \in 1 .. 5, n <= Len(q)
      PROVE  /\ SubSeq(q, 1, n) \in Nodes /\ Len(SubSeq(q, 1, n)) = n
             /\ \A i \in 1 .. n : SubSeq(q, 1, n)[i] = q[i]
             /\ \A m \in 0 .. n : SubSeq(SubSeq(q, 1, n), 1, m) = SubSeq(q, 1, m)
  BY <1>1, <1>2, PrefixNode, PrefixOfPrefix
<1>3. InTable(q) <=> Len(q) > 1 /\ SubSeq(q, 1, 2) \in Tables
  <2>1. ASSUME Len(q) > 1 PROVE InTable(q) <=> SubSeq(q, 1, 2) \in Tables
    <3> DEFINE t == SubSeq(q, 1, 2)
    <3>1. t \in Nodes /\ Len(t) = 2 /\ t[1] = q[1]
      BY <1>1, <1>2, <2>1
    <3>2. t \in Tables <=> Len(t) = 2 /\ t[1] = "tables" /\ tree[<<"tables">>] = "list"
      BY <3>1, TablesAre
    <3> HIDE DEF t
    <3>3. QED
      BY <2>1, <3>1, <3>2 DEF InTable, t
  <2>2. QED
    BY <2>1 DEF InTable
<1>4. InColumn(q) <=> InTable(q) /\ Len(q) > 3 /\ SubSeq(q, 1, 4) \in Columns(SubSeq(q, 1, 2))
  <2>1. ASSUME InTable(q), Len(q) > 3 PROVE InColumn(q) <=> SubSeq(q, 1, 4) \in Columns(SubSeq(q, 1, 2))
    <3> DEFINE t == SubSeq(q, 1, 2)   c == SubSeq(q, 1, 4)
    <3>1. t \in Tables
      BY <1>3, <2>1
    <3>2. c \in Nodes /\ Len(c) = 4 /\ c[3] = q[3] /\ SubSeq(c, 1, 2) = t /\ SubSeq(c, 1, 3) = SubSeq(q, 1, 3)
      BY <1>1, <1>2, <2>1
    <3> HIDE DEF t, c
    <3>3. c \in Columns(t) <=> /\ Len(c) = 4 /\ SubSeq(c, 1, 2) = t /\ c[3] = "columns"
                               /\ tree[t] = "map" /\ tree[SubSeq(c, 1, 3)] = "list"
      BY <3>1, <3>2, ColumnsAre
    <3>4. QED
      BY <2>1, <3>2, <3>3 DEF InColumn, t, c
  <2>2. QED
    BY <2>1 DEF InColumn
<1>5. InParams(q) <=> InColumn(q) /\ Len(q) > 5 /\ SubSeq(q, 1, 5) \in Params(SubSeq(q, 1, 4))
  <2>1. ASSUME InColumn(q), Len(q) > 5 PROVE InParams(q) <=> SubSeq(q, 1, 5) \in Params(SubSeq(q, 1, 4))
    <3> DEFINE c == SubSeq(q, 1, 4)   p == SubSeq(q, 1, 5)
    <3>1. c \in Nodes /\ Len(c) = 4
      BY <1>1, <1>2, <2>1
    <3>2. p \in Nodes /\ Len(p) = 5 /\ p[5] = q[5] /\ SubSeq(p, 1, 4) = c
      BY <1>1, <1>2, <2>1
    <3> HIDE DEF p, c
    <3>3. p \in Params(c) <=> /\ Len(p) = 5 /\ SubSeq(p, 1, 4) = c /\ p[5] = "params"
                              /\ tree[c] = "map" /\ tree[p] = "map"
      BY <3>1, <3>2, ParamsAre
    <3>4. QED
      BY <2>1, <3>2, <3>3 DEF InParams, p, c
  <2>2. QED
    BY <2>1 DEF InParams
<1>6. QED
  BY <1>3, <1>4, <1>5

LEMMA NotEmpty ==
  ASSUME NEW S, NEW limit \in Nat, Cardinality(S) > limit
  PROVE  \E x : x \in S
<1>1. S # {}
  BY FS_EmptySet
<1>2. QED
  BY <1>1

LEMMA TableErrors ==
  ASSUME source \in Documents
  PROVE  {e \in {Error(<<"tables">>, "tables")} : Cardinality(Tables) > MaxTables} =
         {Error(p, "tables") : p \in TooMany({q \in Nodes : InTable(q) /\ Len(q) = 2}, MaxTables, Front)}
<1>1. {q \in Nodes : InTable(q) /\ Len(q) = 2} = Tables
  <2>1. Tables \subseteq Nodes /\ \A t \in Tables : Len(t) = 2
    BY TablesAre
  <2>2. ASSUME NEW q \in Nodes, Len(q) = 2 PROVE InTable(q) <=> q \in Tables
    <3>1. q \in Tables <=> q[1] = "tables" /\ tree[<<"tables">>] = "list"
      BY <2>2, TablesAre
    <3>2. QED
      BY <2>2, <3>1 DEF InTable
  <2>3. QED
    BY <2>1, <2>2
<1>2. \A t \in Tables : Front(t) = <<"tables">>
  BY TablesAre
<1>3. \A t \in Tables : {r \in Tables : Front(r) = Front(t)} = Tables
  BY <1>2
<1>4. TooMany(Tables, MaxTables, Front) = {<<"tables">> : p \in {q \in Tables : Cardinality(Tables) > MaxTables}}
  BY <1>2, <1>3 DEF TooMany
<1>5. Tables = {} => ~(Cardinality(Tables) > MaxTables)
  BY FS_EmptySet, LimitsAre
<1>6. QED
  BY <1>1, <1>4, <1>5

LEMMA ColumnErrors ==
  ASSUME source \in Documents
  PROVE  {Error(Append(t, "columns"), "columns") : t \in {u \in Tables : Cardinality(Columns(u)) > MaxColumns}} =
         {Error(p, "columns") : p \in TooMany({q \in Nodes : InColumn(q) /\ Len(q) = 4}, MaxColumns, Front)}
<1> DEFINE S == {q \in Nodes : InColumn(q) /\ Len(q) = 4}
           Place(t) == Append(t, "columns")
           Many == {u \in Tables : Cardinality(Columns(u)) > MaxColumns}
<1>1. ASSUME NEW q \in S
      PROVE  /\ q \in Nodes /\ Len(q) = 4
             /\ SubSeq(q, 1, 2) \in Tables /\ q \in Columns(SubSeq(q, 1, 2))
  <2>1. q \in Nodes /\ Len(q) = 4 /\ InColumn(q) /\ q \in Seq(Labels)
    BY TreeFacts
  <2>2. SubSeq(q, 1, 4) = q
    BY <2>1, SubSeqFull
  <2>3. QED
    BY <2>1, <2>2, PlacesAre
<1>2. ASSUME NEW t \in Tables, NEW q \in Columns(t) PROVE q \in S /\ Front(q) = Place(t)
  <2>1. q \in Nodes /\ Len(q) = 4 /\ SubSeq(q, 1, 2) = t /\ Front(q) = Place(t)
    BY ColumnsAre
  <2>2. SubSeq(q, 1, 4) = q
    BY <2>1, TreeFacts, SubSeqFull
  <2>3. InTable(q) /\ InColumn(q)
    <3>1. SubSeq(q, 1, 2) \in Tables /\ SubSeq(q, 1, 4) \in Columns(SubSeq(q, 1, 2))
      BY <2>1, <2>2, Zenon
    <3>2. Len(q) > 1 /\ Len(q) > 3
      BY <2>1
    <3>3. QED
      BY <2>1, <3>1, <3>2, PlacesAre, Zenon
  <2>4. QED
    BY <2>1, <2>3
<1> HIDE DEF S
<1>3. \A q \in S : Front(q) = Place(SubSeq(q, 1, 2))
  BY <1>1, ColumnsAre
<1>4. ASSUME NEW t \in Tables PROVE {r \in S : Front(r) = Place(t)} = Columns(t)
  <2>1. ASSUME NEW q \in S, Front(q) = Place(t) PROVE q \in Columns(t)
    <3> DEFINE u == SubSeq(q, 1, 2)
    <3>1. u \in Tables /\ Front(q) = Place(u) /\ Front(q) = Place(t)
      BY <1>1, <1>3, <2>1
    <3>2. t \in Nodes /\ u \in Nodes /\ Len(t) = 2 /\ Len(u) = 2
      BY <3>1, TablesAre
    <3>3. t = u
      <4>1. Front(q) \in Nodes
        <5>1. q \in Nodes /\ Len(q) = 4
          BY <1>1
        <5>2. q # <<>>
          BY <5>1
        <5>3. QED
          BY <5>1, <5>2, TreeFacts
      <4> HIDE DEF u
      <4>2. Under(t, Front(q)) /\ Under(u, Front(q))
        BY <3>1, <3>2, <4>1, AppendNode
      <4>3. SubSeq(Front(q), 1, 2) = t /\ SubSeq(Front(q), 1, 2) = u
        BY <3>2, <4>1, <4>2, UnderIsPrefix
      <4>4. QED
        BY <4>3
    <3>4. QED
      BY <1>1, <3>3
  <2>2. QED
    BY <1>2, <2>1
<1>5. ASSUME NEW q \in S, Cardinality({r \in S : Front(r) = Front(q)}) > MaxColumns
      PROVE  \E t \in Many : Front(q) = Place(t)
  <2>1. SubSeq(q, 1, 2) \in Tables /\ Front(q) = Place(SubSeq(q, 1, 2))
    BY <1>1, <1>3
  <2>2. {r \in S : Front(r) = Front(q)} = Columns(SubSeq(q, 1, 2))
    BY <1>4, <2>1
  <2>3. QED
    BY <1>5, <2>1, <2>2
<1>6. ASSUME NEW t \in Many
      PROVE  \E q \in S : Front(q) = Place(t) /\ Cardinality({r \in S : Front(r) = Front(q)}) > MaxColumns
  <2>1. PICK q : q \in Columns(t)
    BY NotEmpty, LimitsAre
  <2>2. q \in S /\ Front(q) = Place(t)
    BY <1>2, <2>1
  <2>3. {r \in S : Front(r) = Front(q)} = Columns(t)
    BY <1>4, <2>2
  <2>4. QED
    BY <2>2, <2>3
<1> HIDE DEF Many, Place
<1>7. TooMany(S, MaxColumns, Front) = {Place(t) : t \in Many}
  BY <1>5, <1>6 DEF TooMany
<1>8. QED
  BY <1>7 DEF S, Many, Place

LEMMA ParamErrors ==
  ASSUME source \in Documents
  PROVE  {Error(p, "params") : p \in {q \in AllParams : Cardinality(Below(q)) > MaxParams}} =
         {Error(p, "params") : p \in
            TooMany({q \in Nodes : InParams(q)}, MaxParams, LAMBDA q : SubSeq(q, 1, 5))}
<1> DEFINE S == {q \in Nodes : InParams(q)}
           Place(q) == SubSeq(q, 1, 5)
           Many == {p \in AllParams : Cardinality(Below(p)) > MaxParams}
<1>1. ASSUME NEW q \in S PROVE q \in Nodes /\ Place(q) \in AllParams /\ Len(q) > 5
  <2>1. /\ q \in Nodes /\ Len(q) > 5 /\ SubSeq(q, 1, 2) \in Tables
        /\ SubSeq(q, 1, 4) \in Columns(SubSeq(q, 1, 2)) /\ SubSeq(q, 1, 5) \in Params(SubSeq(q, 1, 4))
    BY PlacesAre
  <2>2. QED
    BY <2>1 DEF AllParams
<1>2. ASSUME NEW p \in AllParams
      PROVE  /\ p \in Nodes /\ Len(p) = 5 /\ SubSeq(p, 1, 2) \in Tables
             /\ SubSeq(p, 1, 4) \in Columns(SubSeq(p, 1, 2)) /\ p \in Params(SubSeq(p, 1, 4))
  <2>0. PICK t \in Tables : \E c \in Columns(t) : p \in Params(c)
    BY DEF AllParams
  <2>1. PICK c \in Columns(t) : p \in Params(c)
    BY <2>0
  <2>2. c \in Nodes /\ Len(c) = 4 /\ SubSeq(c, 1, 2) = t
    BY ColumnsAre
  <2>3. p \in Nodes /\ Len(p) = 5 /\ SubSeq(p, 1, 4) = c
    BY <2>1, <2>2, ParamsAre
  <2>4. SubSeq(p, 1, 2) = SubSeq(SubSeq(p, 1, 4), 1, 2)
    <3>1. 4 \in 0 .. Len(p) /\ 2 \in 0 .. 4
      BY <2>3
    <3>2. QED
      BY <2>3, <3>1, PrefixOfPrefix
  <2>5. QED
    BY <2>1, <2>2, <2>3, <2>4
<1>3. ASSUME NEW p \in AllParams PROVE {q \in S : Place(q) = p} = Below(p)
  <2>1. ASSUME NEW q \in S, Place(q) = p PROVE q \in Below(p)
    <3>1. q \in Nodes /\ Len(q) > 5 /\ Len(q) \in Nat /\ Len(p) = 5 /\ p \in Seq(Labels)
      BY <1>1, <1>2, TreeFacts
    <3>2. SubSeq(p, 1, 5) = p
      BY <3>1, SubSeqFull
    <3>3. IsStrictPrefix(p, q)
      <4>1. SubSeq(p, 1, Len(p)) = SubSeq(q, 1, Len(p))
        BY <2>1, <3>1, <3>2
      <4>2. Len(p) <= Len(q) /\ p # q
        <5>1. Len(p) # Len(q)
          BY <3>1
        <5>2. QED
          BY <3>1, <5>1
      <4>3. QED
        BY <4>1, <4>2 DEF IsStrictPrefix, IsPrefix
    <3>4. QED
      BY <3>1, <3>3 DEF Below, Nodes
  <2>2. ASSUME NEW q \in Below(p) PROVE q \in S /\ Place(q) = p
    <3>1. q \in Nodes /\ q # p /\ Len(p) = 5 /\ Len(q) \in Nat /\ p \in Seq(Labels) /\ q \in Seq(Labels) /\ p \in Nodes
      BY <1>2, TreeFacts DEF Below, Nodes, IsStrictPrefix
    <3>2. Len(p) <= Len(q) /\ SubSeq(p, 1, 5) = SubSeq(q, 1, 5)
      BY <3>1 DEF Below, IsStrictPrefix, IsPrefix
    <3>3. SubSeq(p, 1, 5) = p
      BY <3>1, SubSeqFull
    <3>4. Len(q) > 5
      <4>1. Len(q) = 5 => SubSeq(q, 1, 5) = q
        BY <3>1, SubSeqFull
      <4>2. QED
        BY <3>1, <3>2, <3>3, <4>1
    <3>5. SubSeq(q, 1, 4) = SubSeq(p, 1, 4) /\ SubSeq(q, 1, 2) = SubSeq(p, 1, 2)
      <4>1. 5 \in 0 .. Len(q) /\ 4 \in 0 .. 5 /\ 2 \in 0 .. 5
        BY <3>1, <3>4
      <4>2. QED
        BY <3>1, <3>2, <3>3, <4>1, PrefixOfPrefix
    <3>6. SubSeq(q, 1, 2) \in Tables /\ SubSeq(q, 1, 4) \in Columns(SubSeq(q, 1, 2))
      BY <1>2, <3>5
    <3>7. SubSeq(q, 1, 5) \in Params(SubSeq(q, 1, 4))
      BY <1>2, <3>2, <3>3, <3>5
    <3>8. Len(q) > 1 /\ Len(q) > 3
      BY <3>1, <3>4
    <3>9. InParams(q)
      BY <3>1, <3>4, <3>6, <3>7, <3>8, PlacesAre, Zenon
    <3>10. QED
      BY <3>1, <3>2, <3>3, <3>9
  <2> HIDE DEF S
  <2>3. Below(p) \subseteq S
    BY <2>2
  <2>4. QED
    BY <2>1, <2>2
<1> HIDE DEF S, Place
<1>4. ASSUME NEW q \in S, Cardinality({r \in S : Place(r) = Place(q)}) > MaxParams
      PROVE  Place(q) \in Many
  BY <1>1, <1>3, <1>4
<1>5. ASSUME NEW p \in Many
      PROVE  \E q \in S : Place(q) = p /\ Cardinality({r \in S : Place(r) = Place(q)}) > MaxParams
  <2>1. PICK q : q \in {r \in S : Place(r) = p}
    BY <1>3, NotEmpty, LimitsAre
  <2>2. QED
    BY <1>3, <2>1
<1> HIDE DEF Many
<1>6. TooMany(S, MaxParams, Place) = Many
  BY <1>4, <1>5 DEF TooMany
<1>7. TooMany(S, MaxParams, LAMBDA q : SubSeq(q, 1, 5)) = Many
  BY <1>6 DEF TooMany, Place
<1>8. QED
  BY <1>7 DEF S, Many

(* Layer 1 finds what is wrong with a document. *)
LEMMA LayerOneIs ==
  ASSUME source \in Documents
  PROVE  LayerOneErrors = Wrong
<1>1. SecretErrors = {Error(p, "forbidden") : p \in {q \in Nodes : Reached(q) /\ Secret(q) /\
                        \A n \in 1 .. Len(q) - 1 : ~Secret(SubSeq(q, 1, n))}}
  BY ScanIs DEF SecretErrors
<1>2. {e \in {Error(<<>>, "depth")} : DepthOf > MaxDepth}
        = {Error(<<>>, "depth") : p \in {q \in Nodes : Reached(q) /\ Len(q) > MaxDepth}}
  <2>1. DepthOf > MaxDepth <=> \E p \in Nodes : Reached(p) /\ Len(p) > MaxDepth
    BY DepthIs, LimitsAre
  <2>2. QED
    BY <2>1
<1>3. LimitErrors =
        IF tree[<<>>] # "map" THEN {Error(<<>>, "mapping")}
        ELSE {Error(<<>>, "depth") : p \in {q \in Nodes : Reached(q) /\ Len(q) > MaxDepth}}
             \cup {Error(p, "tables") : p \in
                     TooMany({q \in Nodes : InTable(q) /\ Len(q) = 2}, MaxTables, Front)}
             \cup {Error(p, "columns") : p \in
                     TooMany({q \in Nodes : InColumn(q) /\ Len(q) = 4}, MaxColumns, Front)}
             \cup {Error(p, "params") : p \in
                     TooMany({q \in Nodes : InParams(q)}, MaxParams, LAMBDA q : SubSeq(q, 1, 5))}
  BY <1>2, TableErrors, ColumnErrors, ParamErrors, Zenon DEF LimitErrors
<1>4. QED
  BY <1>1, <1>3, Zenon DEF LayerOneErrors, Wrong, Nodes

-----------------------------------------------------------------------------
(* The invariant of load_schema. *)
LEMMA SameDocument ==
  ASSUME UNCHANGED source
  PROVE  LayerOneErrors' = LayerOneErrors
<1>1. tree' = tree
  BY DEF tree
<1>2. ASSUME NEW p PROVE Children(p)' = Children(p)
  BY <1>1 DEF Children
<1>3. DepthOf' = DepthOf
  BY DEF DepthOf, Items, Children, tree
<1>4. ForbiddenKeys' = ForbiddenKeys
  BY DEF ForbiddenKeys, Items, Children, tree
<1>5. ASSUME NEW p, NEW k PROVE Is(p, k)' = Is(p, k) /\ Below(p)' = Below(p)
  BY <1>1 DEF Is, Below
<1>6. Tables' = Tables
  BY <1>2, <1>5 DEF Tables
<1>7. ASSUME NEW p PROVE Columns(p)' = Columns(p) /\ Params(p)' = Params(p)
  BY <1>2, <1>5 DEF Columns, Params
<1>8. AllParams' = AllParams
  BY <1>6, <1>7 DEF AllParams
<1>9. SecretErrors' = SecretErrors
  BY <1>4 DEF SecretErrors
<1>10. LimitErrors' = LimitErrors
  <2>1. {Error(Append(t, "columns"), "columns") : t \in {u \in Tables : Cardinality(Columns(u)) > MaxColumns}}'
          = {Error(Append(t, "columns"), "columns") : t \in {u \in Tables : Cardinality(Columns(u)) > MaxColumns}}
    BY <1>6, <1>7 DEF Error
  <2>2. {Error(p, "params") : p \in {q \in AllParams : Cardinality(Below(q)) > MaxParams}}'
          = {Error(p, "params") : p \in {q \in AllParams : Cardinality(Below(q)) > MaxParams}}
    BY <1>5, <1>8 DEF Error
  <2>3. QED
    BY <1>1, <1>3, <1>6, <2>1, <2>2, Zenon DEF LimitErrors
<1>11. QED
  BY <1>9, <1>10 DEF LayerOneErrors

LEMMA LoadInit ==
  ASSUME SourcesInit, source \in Documents
  PROVE  LoadInv
BY DEF SourcesInit, LoadInv

LEMMA DumpFailsWith ==
  ASSUME DumpFails
  PROVE  \E e \in {"TypeError", "RecursionError"} : End(e, {})
BY DEF DumpFails, DumpErrors

LEMMA LoadSteps ==
  ASSUME source \in Documents, LoadInv, outcome = "none", LoadSchema
  PROVE  LoadInv' /\ UNCHANGED source
<1>1. LayerOneErrors' = LayerOneErrors /\ UNCHANGED <<source, index, parsed>>
  BY SameDocument DEF LoadSchema, ReadText, ReadDict, CheckLimits, BuildSchema
<1>2. CASE ReadText
  <2>1. source.text \in {"fine", "unreadable", "undecodable", "too long", "invalid", "anchor", "no date"}
    BY SourcesAssumption
  <2>2. CASE source.text = "unreadable"
    BY <1>1, <1>2, <2>2 DEF ReadText, End, LoadInv
  <2>7. CASE source.text \in {"undecodable", "no date"}
    BY <1>1, <1>2, <2>7 DEF ReadText, End, LoadInv
  <2>3. CASE source.text \in {"too long", "invalid", "anchor"}
    BY <1>1, <1>2, <2>3 DEF ReadText, End, LoadInv
  <2>4. CASE source.text = "fine" /\ \E p \in DOMAIN tree : Len(p) > StackDepth
    BY <1>1, <1>2, <2>4 DEF ReadText, End, LoadInv
  <2>5. CASE source.text = "fine" /\ ~(\E p \in DOMAIN tree : Len(p) > StackDepth)
    BY <1>1, <1>2, <2>5 DEF ReadText, End, LoadInv
  <2>6. QED
    BY <2>1, <2>2, <2>3, <2>4, <2>5, <2>7
<1>3. CASE ReadDict
  BY <1>1, <1>3 DEF ReadDict, End, LoadInv
<1>4. CASE CheckLimits
  <2>1. CASE DumpFails
    <3>1. PICK e \in {"TypeError", "RecursionError"} : End(e, {})
      BY <2>1, DumpFailsWith
    <3>2. QED
      BY <1>1, <1>4, <3>1 DEF CheckLimits, End, LoadInv
  <2>2. CASE ~DumpFails
    BY <1>1, <1>4, <2>2 DEF CheckLimits, End, LoadInv
  <2>3. QED
    BY <2>1, <2>2
<1>5. CASE BuildSchema
  BY <1>1, <1>5 DEF BuildSchema, End, LoadInv
<1>6. QED
  BY <1>1, <1>2, <1>3, <1>4, <1>5 DEF LoadSchema

-----------------------------------------------------------------------------
(* The invariant of both, and what follows from it. *)
LEMMA SourcesInvariance ==
  SourcesSpec => []SourcesInv
<1>1. ASSUME SourcesInit PROVE SourcesInv
  <2>1. phase = "call" /\ outcome = "none" /\ (source \in Documents \/ source \in FlagLists)
    BY <1>1 DEF SourcesInit
  <2>2. QED
    BY <1>1, <2>1, InlineInit, LoadInit DEF SourcesInv, SourceInv
<1>2. ASSUME SourcesInv, [SourcesNext]_sourcesVars PROVE SourcesInv'
  <2>1. CASE UNCHANGED sourcesVars
    <3>1. UNCHANGED <<source, phase, errors, index, parsed, key, outcome>>
      BY <2>1 DEF sourcesVars
    <3>2. CASE source \in Documents
      <4>1. LoadInv
        BY <1>2, <3>2, TreeFacts, FlagFacts DEF SourcesInv, SourceInv
      <4>2. LoadInv'
        BY <3>1, <4>1, SameDocument DEF LoadInv
      <4>3. QED
        BY <1>2, <3>1, <3>2, <4>2 DEF SourcesInv, SourceInv
    <3>3. CASE source \in FlagLists
      <4>1. InlineInv
        BY <1>2, <3>3, TreeFacts, FlagFacts DEF SourcesInv, SourceInv
      <4>2. InlineInv'
        <5>1. /\ ParsedInv' /\ Judged(index)' = Judged(index) /\ TwoKeys' = TwoKeys
              /\ KeyInv' = KeyInv /\ TableIsRefused' = TableIsRefused
          BY <3>1, <4>1, NothingParsed DEF InlineInv
        <5>2. QED
          BY <3>1, <4>1, <5>1 DEF InlineInv
      <4>3. QED
        BY <1>2, <3>1, <3>3, <4>2 DEF SourcesInv, SourceInv
    <3>4. QED
      BY <1>2, <3>2, <3>3 DEF SourcesInv, SourceInv
  <2>2. CASE LoadSchema
    <3>1. outcome = "none" /\ phase # "done" /\ source.given # "flags"
      <4>1. phase \in {"call", "limits", "structure"}
        BY <2>2 DEF LoadSchema, ReadText, ReadDict, CheckLimits, BuildSchema
      <4>2. source.given # "flags"
        <5>1. source \in FlagLists => source.given = "flags" /\ phase \notin {"limits", "structure"}
          <6>1. ASSUME source \in FlagLists PROVE InlineInv /\ source.given = "flags"
            BY <1>2, <6>1, FlagFacts, TreeFacts DEF SourcesInv, SourceInv
          <6>2. QED
            BY <6>1 DEF InlineInv
        <5>2. phase = "call" => source.given \in {"dict", "text", "path"}
          BY <2>2 DEF LoadSchema, ReadText, ReadDict, CheckLimits, BuildSchema
        <5>3. source \in Documents => source.given # "flags"
          BY TreeFacts
        <5>4. QED
          BY <1>2, <4>1, <5>1, <5>2, <5>3 DEF SourcesInv, SourceInv
      <4>3. QED
        BY <1>2, <4>1, <4>2 DEF SourcesInv
    <3>2. source \in Documents /\ LoadInv
      BY <1>2, <3>1, FlagFacts DEF SourcesInv, SourceInv
    <3>3. LoadInv' /\ UNCHANGED source
      BY <2>2, <3>1, <3>2, LoadSteps
    <3>4. phase' = "done" <=> outcome' # "none"
      <4>1. CASE DumpFails
        BY <4>1, DumpFailsWith DEF End
      <4>2. CASE ~DumpFails
        BY <1>2, <2>2, <3>1, <4>2 DEF LoadSchema, ReadText, ReadDict, CheckLimits, BuildSchema, End
      <4>3. QED
        BY <4>1, <4>2
    <3>5. QED
      BY <3>2, <3>3, <3>4 DEF SourcesInv, SourceInv
  <2>3. CASE BuildInlineSchema
    <3>1. outcome = "none" /\ source \in FlagLists /\ InlineInv
      <4>1. phase \in {"call", "column", "table"} /\ (phase = "call" => source.given = "flags")
        BY <2>3 DEF BuildInlineSchema, StartInline, ParseColumn, ChooseKey, BuildTable
      <4>2. ~(source \in Documents /\ LoadInv)
        BY <4>1, TreeFacts DEF LoadInv
      <4>3. QED
        BY <1>2, <4>1, <4>2 DEF SourcesInv, SourceInv
    <3>2. InlineInv' /\ UNCHANGED source
      BY <2>3, <3>1, StartInlineStep, ParseColumnStep, ChooseKeyStep, BuildTableStep
         DEF BuildInlineSchema, StartInline, ParseColumn, ChooseKey, BuildTable
    <3>3. phase' = "done" <=> outcome' # "none"
      BY <1>2, <2>3, <3>1 DEF SourcesInv, BuildInlineSchema, StartInline, ParseColumn, ChooseKey, BuildTable, End
    <3>4. QED
      BY <3>1, <3>2, <3>3 DEF SourcesInv, SourceInv
  <2>4. QED
    BY <1>2, <2>1, <2>2, <2>3 DEF SourcesNext
<1>3. QED
  BY <1>1, <1>2, PTL DEF SourcesSpec

(* Which part of the invariant applies is told by what was given.          *)
LEMMA SourceIs ==
  ASSUME SourcesInv
  PROVE  \/ source \in Documents /\ source.given # "flags" /\ LoadInv
         \/ source \in FlagLists /\ source.given = "flags" /\ InlineInv
BY TreeFacts, FlagFacts DEF SourcesInv, SourceInv

LEMMA ErrorIs ==
  ASSUME NEW p, NEW k
  PROVE  DOMAIN Error(p, k) = {"path", "kind"} /\ Error(p, k).path = p
BY DEF Error

(* The types of the state of load_schema and of build_inline_schema, for  *)
(* any documents and flags.                                                *)
THEOREM SourcesTypeCorrect == SourcesSpec => []SourcesTypeOK
<1>1. ASSUME SourcesInv PROVE SourcesTypeOK
  <2>1. CASE source \in Documents /\ source.given # "flags" /\ LoadInv
    <3>1. source.given \in {"dict", "text", "path"}
      BY <2>1, SourcesAssumption
    <3>2. \A e \in LayerOneErrors : DOMAIN e = {"path", "kind"}
      BY ErrorIs DEF LayerOneErrors, LimitErrors, SecretErrors
    <3>3. outcome = "SchemaError" => errors # {} /\ \A e \in errors : DOMAIN e = {"path", "kind"}
      BY <2>1, <3>2, ErrorIs DEF LoadInv
    <3>4. outcome # "SchemaError" => errors = {}
      BY <1>1, <2>1 DEF LoadInv, SourcesInv
    <3>5. index \in 1 .. 1 /\ Len(parsed) < index
      BY <2>1 DEF LoadInv
    <3>6. QED
      BY <1>1, <2>1, <3>1, <3>3, <3>4, <3>5 DEF SourcesInv, LoadInv, SourcesTypeOK
  <2>2. CASE source \in FlagLists /\ source.given = "flags" /\ InlineInv
    <3>1. index \in 1 .. Len(source.cols) + 1 /\ Len(parsed) < index
      BY <2>2 DEF InlineInv, ParsedInv
    <3>2. \A e \in Judged(index) \cup TwoKeys : DOMAIN e = {"path", "kind"}
      BY ErrorIs DEF Judged, TwoKeys
    <3>3. outcome = "SchemaError" => errors # {} /\ \A e \in errors : DOMAIN e = {"path", "kind"}
      <4>1. outcome = "SchemaError" =>
              \/ errors = {Error(<<>>, "no columns")}
              \/ errors = Judged(index) \cup TwoKeys /\ errors # {}
        BY <2>2 DEF InlineInv
      <4>2. QED
        BY <3>2, <4>1, ErrorIs
    <3>4. outcome # "SchemaError" => errors = {} \/ errors = Judged(index)
      BY <1>1, <2>2 DEF InlineInv, SourcesInv
    <3>5. QED
      BY <1>1, <2>2, <3>1, <3>2, <3>3, <3>4 DEF SourcesInv, InlineInv, SourcesTypeOK
  <2>3. QED
    BY <1>1, <2>1, <2>2, SourceIs
<1>2. QED
  BY <1>1, SourcesInvariance, PTL

(* _scan_forbidden_secrets, _max_depth and the limits of load_schema       *)
(* together refuse a document with exactly what is wrong with it, said of  *)
(* its paths one by one, those that dicts and lists lead to, and no        *)
(* document with such a fault goes on, for trees of any shape and size,    *)
(* tuples and odd containers anywhere in them, and any limits.             *)
THEOREM LayerOneExactness == SourcesSpec => []LayerOneIsExact
<1>1. ASSUME SourcesInv PROVE LayerOneIsExact
  <2>1. SUFFICES ASSUME source.given # "flags" PROVE LayerOneIsExact
    BY DEF LayerOneIsExact
  <2>2. source \in Documents /\ LoadInv
    BY <1>1, <2>1, SourceIs
  <2>3. LayerOneErrors = Wrong
    BY <2>2, LayerOneIs
  <2>4. QED
    BY <2>2, <2>3 DEF LoadInv, LayerOneIsExact
<1>2. QED
  BY <1>1, SourcesInvariance, PTL

(* Documents with nothing below a tuple or an odd container. *)
Plain == \A d \in Documents : \A p \in DOMAIN d.tree \ {<<>>} : d.tree[Front(p)] \in Walked

LEMMA PlainIsReached ==
  ASSUME Plain, source \in Documents, NEW q \in Nodes
  PROVE  Reached(q)
<1> SUFFICES ASSUME NEW n \in 0 .. Len(q) - 1 PROVE tree[SubSeq(q, 1, n)] \in Walked
  BY DEF Reached
<1> DEFINE r == SubSeq(q, 1, n + 1)
<1>1. Len(q) \in Nat /\ n + 1 \in 0 .. Len(q) /\ n \in 0 .. n + 1 /\ (n + 1) - 1 = n /\ n + 1 # 0
  BY TreeFacts
<1>2. r \in Nodes /\ Len(r) = n + 1 /\ SubSeq(r, 1, n) = SubSeq(q, 1, n)
  BY <1>1, PrefixNode, PrefixOfPrefix
<1> HIDE DEF r
<1>3. r # <<>> /\ Front(r) = SubSeq(q, 1, n)
  BY <1>1, <1>2 DEF Front
<1>4. tree[Front(r)] \in Walked
  BY <1>2, <1>3 DEF Plain, Nodes, tree
<1>5. QED
  BY <1>3, <1>4

(* What DD-00:693 says of a schema is true of documents in which only      *)
(* dicts and lists have something below them, of any shape and size:       *)
(* params that load_schema accepts hold no forbidden key.                  *)
THEOREM PlainDocumentsAreClean ==
  ASSUME Plain
  PROVE  SourcesSpec => []NothingForbiddenInParams
<1>1. ASSUME SourcesInv PROVE NothingForbiddenInParams
  <2>1. SUFFICES ASSUME source.given # "flags", outcome = "ok",
                        NEW p \in AllParams, NEW q \in Below(p), Secret(q)
                 PROVE  FALSE
    BY DEF NothingForbiddenInParams
  <2>2. source \in Documents /\ LoadInv
    BY <1>1, <2>1, SourceIs
  <2>3. Wrong = {}
    BY <2>1, <2>2, LayerOneIs DEF LoadInv
  <2>4. q \in Nodes /\ q \in Seq(Labels) /\ Len(q) \in Nat /\ Len(q) > 0
    <3>1. q \in Nodes /\ q # <<>>
      BY <2>1 DEF Below, Nodes, Secret
    <3>2. QED
      BY <2>2, <3>1, TreeFacts
  <2> DEFINE S == {n \in 1 .. Len(q) : Secret(SubSeq(q, 1, n))}
  <2>5. PICK m \in S : \A n \in S : m <= n
    <3>1. SubSeq(q, 1, Len(q)) = q
      BY <2>4, SubSeqFull
    <3>2. Len(q) \in S /\ S \in SUBSET Nat
      <4>1. Len(q) \in 1 .. Len(q)
        BY <2>4
      <4>2. Secret(SubSeq(q, 1, Len(q)))
        BY <2>1, <3>1, Zenon
      <4>3. QED
        BY <4>1, <4>2
    <3> HIDE DEF S
    <3>3. QED
      BY <3>2, Least
  <2> DEFINE r == SubSeq(q, 1, m)
  <2>6. m \in 1 .. Len(q) /\ m \in 0 .. Len(q) /\ Secret(r)
    BY <2>4, <2>5
  <2>7. r \in Nodes /\ Len(r) = m /\ Reached(r)
    BY <2>2, <2>4, <2>6, PrefixNode, PlainIsReached
  <2>8. ASSUME NEW n \in 1 .. Len(r) - 1 PROVE ~Secret(SubSeq(r, 1, n))
    <3>1. n \in 0 .. m /\ n \in 1 .. Len(q) /\ ~(m <= n)
      BY <2>4, <2>6, <2>7
    <3>2. ~Secret(SubSeq(q, 1, n))
      BY <2>5, <3>1
    <3>3. SubSeq(r, 1, n) = SubSeq(q, 1, n)
      BY <2>2, <2>4, <2>6, <3>1, PrefixOfPrefix
    <3>4. QED
      BY <3>2, <3>3
  <2> HIDE DEF r
  <2>9. Error(r, "forbidden") \in Wrong
    BY <2>6, <2>7, <2>8 DEF Wrong, Nodes
  <2>10. QED
    BY <2>3, <2>9
<1>2. QED
  BY <1>1, SourcesInvariance, PTL

(* The marked columns are those of the flags that say pk.                  *)
LEMMA TwoKeysAre ==
  ASSUME source \in FlagLists, ParsedInv, index = Len(source.cols) + 1
  PROVE  Cardinality(Marked) > 1 <=>
           \E i, j \in DOMAIN source.cols : i # j /\ \A n \in {i, j} :
             Failure(source.cols[n]) = "none" /\ Pk \in Range(source.cols[n].flags)
<1>1. PICK place \in [DOMAIN parsed -> Good(index)] : Comes(place)
  BY DEF ParsedInv
<1>2. Len(source.cols) \in Nat /\ DOMAIN source.cols = 1 .. index - 1
  BY FlagFacts
<1>3. parsed \in Seq(Made) /\ Len(parsed) \in Nat /\ DOMAIN parsed = 1 .. Len(parsed)
  BY LenProperties DEF ParsedInv
<1>4. IsFiniteSet(Marked)
  <2>1. Marked \subseteq 1 .. Len(parsed)
    BY <1>3 DEF Marked
  <2>2. QED
    <3>1. IsFiniteSet(1 .. Len(parsed))
      BY <1>3, FS_Interval
    <3>2. QED
      BY <2>1, <3>1, FS_Subset, Zenon
<1>5. \A i \in DOMAIN parsed : /\ place[i] \in DOMAIN source.cols /\ ~Fails(place[i])
                               /\ parsed[i].pk <=> Pk \in Range(source.cols[place[i]].flags)
  <2>1. ASSUME NEW i \in DOMAIN parsed
        PROVE  place[i] \in Good(index) /\ parsed[i] = ColumnOf(source.cols[place[i]])
    BY <1>1 DEF Comes
  <2>2. \A r : ColumnOf(r).pk = (Pk \in Range(r.flags))
    BY DEF ColumnOf
  <2>3. QED
    BY <1>2, <2>1, <2>2 DEF Good
<1>6. \A j \in DOMAIN source.cols : ~Fails(j) => \E i \in DOMAIN parsed : place[i] = j
  <2>1. \A j \in DOMAIN source.cols : ~Fails(j) => j \in Good(index)
    BY <1>2 DEF Good
  <2>2. QED
    BY <1>1, <2>1 DEF Comes
<1>7. \A i, j \in DOMAIN parsed : place[i] = place[j] => i = j
  BY <1>1 DEF Comes
<1>8. (\E i, j \in Marked : i # j) <=>
        \E i, j \in DOMAIN source.cols : i # j /\ \A n \in {i, j} : ~Fails(n) /\ Pk \in Range(source.cols[n].flags)
  <2>1. ASSUME NEW i \in Marked, NEW j \in Marked, i # j
        PROVE  \E k, l \in DOMAIN source.cols : k # l /\ \A n \in {k, l} : ~Fails(n) /\ Pk \in Range(source.cols[n].flags)
    BY <1>5, <1>7, <2>1 DEF Marked
  <2>2. ASSUME NEW k \in DOMAIN source.cols, NEW l \in DOMAIN source.cols, k # l,
               \A n \in {k, l} : ~Fails(n) /\ Pk \in Range(source.cols[n].flags)
        PROVE  \E i, j \in Marked : i # j
    <3>1. PICK i \in DOMAIN parsed : place[i] = k
      BY <1>6, <2>2
    <3>2. PICK j \in DOMAIN parsed : place[j] = l
      BY <1>6, <2>2
    <3>3. QED
      BY <1>5, <2>2, <3>1, <3>2 DEF Marked
  <2>3. QED
    BY <2>1, <2>2
<1>9. QED
  BY <1>4, <1>8, MoreThanOne DEF Fails

(* If build_inline_schema raises, its errors name the places of exactly    *)
(* the --col strings that fail, and speak of the key exactly if two of     *)
(* those that parse claim it, for any list of strings.                     *)
THEOREM FlagsAreJudged == SourcesSpec => []EachFlagIsJudged
<1>1. ASSUME SourcesInv PROVE EachFlagIsJudged
  <2>1. SUFFICES ASSUME source.given = "flags", outcome = "SchemaError", source.cols # <<>>
                 PROVE  EachFlagIsJudged
    BY DEF EachFlagIsJudged
  <2>2. source \in FlagLists /\ InlineInv
    BY <1>1, <2>1, SourceIs
  <2>3. ParsedInv /\ index = Len(source.cols) + 1 /\ errors = Judged(index) \cup TwoKeys
    BY <2>1, <2>2 DEF InlineInv
  <2>4. Len(source.cols) \in Nat /\ DOMAIN source.cols = 1 .. index - 1
    BY <2>2, <2>3, FlagFacts
  <2>5. \A i : <<i>> # <<>>
    OBVIOUS
  <2>6. /\ {e.path : e \in Judged(index)} = {<<i>> : i \in {j \in DOMAIN source.cols : Fails(j)}}
        /\ \A e \in Judged(index) : e.path # <<>>
    <3>1. {j \in 1 .. index - 1 : Fails(j)} = {j \in DOMAIN source.cols : Fails(j)}
      BY <2>4
    <3>2. \A i : Error(<<i>>, Failure(source.cols[i])).path = <<i>>
      BY ErrorIs
    <3>3. QED
      BY <2>5, <3>1, <3>2 DEF Judged
  <2>7. \A e \in TwoKeys : e.path = <<>>
    BY ErrorIs DEF TwoKeys
  <2>8. {e.path : e \in errors} \ {<<>>} = {<<i>> : i \in {j \in DOMAIN source.cols : Fails(j)}}
    BY <2>3, <2>6, <2>7
  <2>9. Error(<<>>, "keys") \in errors <=> Cardinality(Marked) > 1
    <3>1. Error(<<>>, "keys").path = <<>>
      BY DEF Error
    <3>2. QED
      BY <2>3, <2>6, <3>1 DEF TwoKeys
  <2>10. QED
    BY <2>2, <2>3, <2>8, <2>9, TwoKeysAre DEF EachFlagIsJudged, Fails
<1>2. QED
  BY <1>1, SourcesInvariance, PTL

(* Of two values of a key, the last counts. *)
LEMMA LastValueCounts ==
  ASSUME NEW r, r.flags \in Seq(Range(r.flags)),
         NEW n \in DOMAIN r.flags, r.flags[n] # Pk,
         \A m \in n + 1 .. Len(r.flags) : r.flags[m] = Pk \/ r.flags[m].key # r.flags[n].key
  PROVE  r.flags[n].key \in Keys(r) /\ ValueOf(r, r.flags[n].key) = r.flags[n].value
<1> DEFINE k == r.flags[n].key
           S == {i \in DOMAIN r.flags : r.flags[i].key = k /\ r.flags[i] # Pk}
<1>1. Len(r.flags) \in Nat /\ DOMAIN r.flags = 1 .. Len(r.flags)
  BY LenProperties
<1>2. S \in SUBSET Nat /\ S # {} /\ n \in S /\ \A i \in S : i <= Len(r.flags)
  BY <1>1
<1>3. \A i \in S : i <= n
  BY <1>1
<1> HIDE DEF S
<1>4. Max(S) \in S /\ \A i \in S : i <= Max(S)
  BY <1>1, <1>2, MaxIs
<1>5. Max(S) = n
  <2>1. n <= Max(S) /\ Max(S) <= n /\ n \in Nat /\ Max(S) \in Nat
    BY <1>2, <1>3, <1>4
  <2>2. QED
    BY <2>1
<1>6. ValueOf(r, k) = r.flags[n].value
  BY <1>5 DEF ValueOf, S
<1>7. k \in Keys(r)
  BY DEF Keys, Pairs, Range
<1>8. QED
  BY <1>6, <1>7

(* A column made of a flag has what the flag says, known keys in its       *)
(* fields, others in params.                                               *)
LEMMA ColumnIs ==
  ASSUME NEW r, NEW c, c = ColumnOf(r)
  PROVE  /\ c.name = r.name /\ c.type = r.type /\ c.pk = (Pk \in Range(r.flags))
         /\ DOMAIN c.fields \cup DOMAIN c.params = Keys(r)
         /\ \A k \in Keys(r) : (IF k \in Known THEN c.fields[k] ELSE c.params[k]) = ValueOf(r, k)
<1>1. /\ c.name = r.name /\ c.type = r.type /\ c.pk = (Pk \in Range(r.flags))
      /\ c.fields = [k \in Keys(r) \cap Known |-> ValueOf(r, k)]
      /\ c.params = [k \in Keys(r) \ Known |-> ValueOf(r, k)]
  BY DEF ColumnOf
<1>2. QED
  BY <1>1

(* The table that build_inline_schema returns has one column for each --col *)
(* string, in order, with the last value that it gives to each key, and    *)
(* the primary key that was asked for, for any list of strings.            *)
THEOREM InlineFaithfulness == SourcesSpec => []InlineIsFaithful
<1>1. ASSUME SourcesInv PROVE InlineIsFaithful
  <2>1. SUFFICES ASSUME source.given = "flags", outcome = "ok"
                 PROVE  InlineIsFaithful
    BY DEF InlineIsFaithful
  <2>2. source \in FlagLists /\ InlineInv
    BY <1>1, <2>1, SourceIs
  <2>3. ParsedInv /\ KeyInv /\ ~TableIsRefused
    BY <2>1, <2>2 DEF InlineInv
  <2>4. Len(source.cols) \in Nat /\ Len(source.cols) # 0 /\ DOMAIN source.cols = 1 .. Len(source.cols)
    BY <2>2, <2>3, FlagFacts DEF KeyInv
  <2>5. /\ index = Len(source.cols) + 1 /\ Judged(index) = {}
        /\ parsed \in Seq(Made) /\ Len(parsed) = index - 1
        /\ \A i \in DOMAIN parsed : parsed[i] = ColumnOf(source.cols[i])
    BY <2>3 DEF KeyInv, ParsedInv
  <2>6. Len(parsed) = Len(source.cols) /\ DOMAIN parsed = DOMAIN source.cols
    BY <2>4, <2>5, LenProperties
  <2>7. ASSUME NEW i \in DOMAIN parsed
        PROVE  LET r == source.cols[i]
                   both == [k \in DOMAIN parsed[i].fields \cup DOMAIN parsed[i].params |->
                              IF k \in Known THEN parsed[i].fields[k] ELSE parsed[i].params[k]]
               IN  /\ parsed[i].name = r.name /\ parsed[i].type = r.type
                   /\ \A n \in DOMAIN r.flags :
                        LET f      == r.flags[n]
                            isLast == \A m \in n + 1 .. Len(r.flags) : r.flags[m] = Pk \/ r.flags[m].key # f.key
                        IN  f # Pk /\ isLast => both[f.key] = f.value
    <3> DEFINE r == source.cols[i]
               both == [k \in DOMAIN parsed[i].fields \cup DOMAIN parsed[i].params |->
                          IF k \in Known THEN parsed[i].fields[k] ELSE parsed[i].params[k]]
    <3>1. parsed[i] = ColumnOf(r)
      BY <2>5
    <3>2. r.flags \in Seq(Range(r.flags))
      <4>1. r \in Range(source.cols)
        BY <2>2, <2>6, FlagFacts
      <4>2. QED
        BY <2>2, <4>1, SourcesAssumption
    <3> HIDE DEF r
    <3>3. parsed[i].name = r.name /\ parsed[i].type = r.type
      BY <3>1, ColumnIs
    <3>4. both = [k \in Keys(r) |-> ValueOf(r, k)]
      BY <3>1, ColumnIs
    <3> HIDE DEF both
    <3>5. ASSUME NEW n \in DOMAIN r.flags, r.flags[n] # Pk,
                 \A m \in n + 1 .. Len(r.flags) : r.flags[m] = Pk \/ r.flags[m].key # r.flags[n].key
          PROVE  both[r.flags[n].key] = r.flags[n].value
      BY <3>2, <3>4, <3>5, LastValueCounts
    <3>6. QED
      BY <3>3, <3>5, Zenon DEF r, both
  <2>8. PICK m \in DOMAIN parsed : key = parsed[m].name /\ (Marked # {} => m \in Marked)
    <3>1. CASE Marked # {}
      <4>1. Marked \in SUBSET Nat /\ Marked \subseteq DOMAIN parsed
        BY <2>4, <2>6 DEF Marked
      <4>2. Min(Marked) \in Marked
        BY <3>1, <4>1, MinIs
      <4>3. QED
        BY <2>3, <3>1, <4>1, <4>2 DEF KeyInv
    <3>2. CASE Marked = {}
      <4>1. 1 \in DOMAIN parsed
        BY <2>4, <2>6
      <4>2. QED
        BY <2>3, <3>2, <4>1 DEF KeyInv
    <3>3. QED
      BY <3>1, <3>2
  <2>9. Cardinality({i \in DOMAIN parsed : parsed[i].name = key}) = 1
    <3>1. \A i, j \in DOMAIN parsed : parsed[i].name = parsed[j].name => i = j
      BY <2>3 DEF TableIsRefused
    <3>2. {i \in DOMAIN parsed : parsed[i].name = key} = {m}
      BY <2>8, <3>1
    <3>3. QED
      BY <3>2, FS_Singleton
  <2>10. ASSUME NEW i \in DOMAIN source.cols, Pk \in Range(source.cols[i].flags)
         PROVE  source.cols[i].name = key
    <3>1. i \in Marked /\ parsed[i].name = source.cols[i].name
      BY <2>5, <2>6, <2>10, ColumnIs DEF Marked
    <3>2. ~(Cardinality(Marked) > 1)
      BY <2>3 DEF KeyInv, TwoKeys
    <3>3. IsFiniteSet(Marked)
      <4>1. IsFiniteSet(1 .. Len(source.cols)) /\ Marked \subseteq 1 .. Len(source.cols)
        BY <2>4, <2>6, FS_Interval DEF Marked
      <4>2. QED
        BY <4>1, FS_Subset, Zenon
    <3>4. i = m
      BY <2>8, <3>1, <3>2, <3>3, MoreThanOne
    <3>5. QED
      BY <2>8, <3>1, <3>4
  <2>11. QED
    BY <2>6, <2>7, <2>9, <2>10, Zenon DEF InlineIsFaithful
<1>2. QED
  BY <1>1, SourcesInvariance, PTL

-----------------------------------------------------------------------------
(* A schema first and the options of a run after it: seen alone, each of   *)
(* the two is as its own specification says, so all theorems above are     *)
(* true of UserInputSpec.                                                  *)
THEOREM UserInputIsBoth == UserInputSpec => Spec /\ SourcesSpec
<1>1. UserInputInit => Init /\ SourcesInit
  BY DEF UserInputInit
<1>2. [UserInputNext]_<<vars, sourcesVars>> => [Next]_vars /\ [SourcesNext]_sourcesVars
  BY Zenon DEF UserInputNext, MakeSchema, ResolveOptions
<1>3. QED
  BY <1>1, <1>2, PTL DEF UserInputSpec, Spec, SourcesSpec
=============================================================================
