---------------------------- MODULE SchemaSources ----------------------------
(***************************************************************************)
(* Where schemas come from: load_schema of src/src/dataipsum/schema/       *)
(* loader.py reads a document (a path, a text or a dict), looks it over    *)
(* as a tree (limits and forbidden keys, layer 1) and has Pydantic build   *)
(* the schema (layer 2); build_inline_schema of schema/inline.py makes a   *)
(* schema of one table from --col flags, one column at a time.             *)
(*                                                                         *)
(* A behaviour is one call.  What layer 2 decides about a document is in   *)
(* SchemaPipeline: here it may accept or refuse any.  A tree is a function *)
(* from paths, sequences of keys, to kinds of nodes; the keys of a list    *)
(* are its indexes, and a tree names the keys that layer 1 looks at.  A    *)
(* flag is a pair of a key and a value, or has no "="; sizes are numbers   *)
(* of nodes.                                                               *)
(***************************************************************************)
EXTENDS Naturals, FiniteSets, SequencesExt

CONSTANTS
  Documents,    \* sources of load_schema
  FlagLists,    \* sources of build_inline_schema
  Forbidden,    \* _FORBIDDEN_SECRET_FIELDS
  MaxDepth,     \* MAX_DEPTH: 20
  StackDepth,   \* depth at which a recursion exhausts the interpreter's stack
  MaxTables,    \* MAX_TABLES
  MaxColumns,   \* MAX_COLUMNS_PER_TABLE
  MaxParams,    \* MAX_PARAMS_BYTES
  Known,        \* the keys of _KNOWN_FIELD_PARSERS, null_ratio among them
  Unparsable,   \* pairs <<key, value>> that int or float refuses
  Refused,      \* pairs that ColumnSpec refuses, and names that are no identifiers
  LLMTypes      \* types that begin with llm_

NoValue == "no value"            \* of a flag without "="
Pk      == [key |-> "pk", value |-> NoValue]

(* A dict or a list, which layer 1 walks; a tuple, which SafeLoader makes  *)
(* of !!pairs and !!omap; a scalar of JSON; or odd, what is no JSON: a     *)
(* date, bytes, a set, another container of a dict that a caller gives.    *)
Kinds == {"map", "list", "tuple", "scalar", "odd"}

ASSUME SourcesAssumption ==
  /\ \A d \in Documents :
       /\ d.given \in {"dict", "text", "path"}
       /\ d.text \in {"fine", "unreadable", "undecodable", "too long", "invalid", "anchor", "no date"}
       /\ d.tree \in [DOMAIN d.tree -> Kinds] /\ IsFiniteSet(DOMAIN d.tree)
       /\ \A p \in DOMAIN d.tree : p \in Seq(Range(p))
       /\ <<>> \in DOMAIN d.tree
       /\ \A p \in DOMAIN d.tree \ {<<>>} :
            Front(p) \in DOMAIN d.tree /\ d.tree[Front(p)] # "scalar"
  /\ \A f \in FlagLists :
       /\ f.given = "flags" /\ f.table \in BOOLEAN
       /\ f.cols \in Seq(Range(f.cols))
       /\ \A r \in Range(f.cols) : r.flags \in Seq(Range(r.flags))
  /\ {MaxDepth, StackDepth, MaxTables, MaxColumns, MaxParams} \subseteq Nat
  /\ MaxDepth < StackDepth

VARIABLES
  source,   \* the argument of the call
  phase,    \* "call", "limits", "structure", "column", "table", "done"
  errors,   \* those collected so far: path and kind
  index,    \* the flag to parse next, from 1
  parsed,   \* the columns parsed so far
  key,      \* the column of the primary key
  outcome   \* how the call ended

sourcesVars == <<source, phase, errors, index, parsed, key, outcome>>

SourcesTypeOK ==
  /\ source.given \in {"dict", "text", "path", "flags"}
  /\ phase \in {"call", "limits", "structure", "column", "table", "done"}
  /\ \A e \in errors : DOMAIN e = {"path", "kind"}
  /\ index \in 1 .. (IF source.given = "flags" THEN Len(source.cols) + 1 ELSE 1)
  /\ Len(parsed) < index
  /\ outcome \in {"none", "ok", "SchemaError", "OSError", "ValueError", "RecursionError", "TypeError",
                  "PydanticError"}
  /\ phase = "done" <=> outcome # "none"
  /\ outcome = "SchemaError" => errors # {}

SourcesInit ==
  /\ source \in Documents \/ source \in FlagLists
  /\ phase = "call"
  /\ errors = {}
  /\ index = 1
  /\ parsed = <<>>
  /\ key = NoValue
  /\ outcome = "none"

Error(path, kind) == [path |-> path, kind |-> kind]

End(result, found) ==
  /\ phase' = "done"
  /\ outcome' = result
  /\ errors' = found

-----------------------------------------------------------------------------
(* load_schema, layer 1. *)
tree == source.tree

Children(p) == {q \in DOMAIN tree \ {<<>>} : Front(q) = p}
Is(p, kind) == p \in DOMAIN tree /\ tree[p] = kind

(* Where the walks of layer 1 go on from a node. *)
Walked   == {"map", "list"}
Items(p) == IF tree[p] \in Walked THEN Children(p) ELSE {}

BugDepthOf ==                                 \* default=0 for an empty mapping
  LET depth[p \in DOMAIN tree] ==
        IF Items(p) # {} THEN Max({depth[q] : q \in Items(p)})
        ELSE IF tree[p] = "map" THEN 0 ELSE Len(p)
  IN  depth[<<>>]

DepthOf ==
  LET depth[p \in DOMAIN tree] ==
        IF Items(p) = {} THEN Len(p) ELSE Max({depth[q] : q \in Items(p)})
  IN  depth[<<>>]

(* The keys that are forbidden, but for those below another such key. *)
ForbiddenKeys ==
  LET scan[p \in DOMAIN tree] ==
        LET here == {q \in Items(p) : tree[p] = "map" /\ Last(q) \in Forbidden}
        IN  here \cup UNION {scan[q] : q \in Items(p) \ here}
  IN  scan[<<>>]

Tables     == IF Is(<<"tables">>, "list") THEN Children(<<"tables">>) ELSE {}
Columns(t) == IF Is(t, "map") /\ Is(Append(t, "columns"), "list")
              THEN Children(Append(t, "columns")) ELSE {}
Params(c)  == {p \in {Append(c, "params")} : Is(c, "map") /\ Is(p, "map")}
AllParams  == UNION {UNION {Params(c) : c \in Columns(t)} : t \in Tables}

Below(p) == {q \in DOMAIN tree : IsStrictPrefix(p, q)}

(* What json.dumps raises: it walks tuples too, and stops at what is odd. *)
Dumped(p)     == {q \in Below(p) : \A r \in Below(p) : IsStrictPrefix(r, q) => tree[r] # "odd"}
DumpErrors(p) == {"TypeError" : q \in {r \in Dumped(p) : tree[r] = "odd"}}
                 \cup {"RecursionError" : q \in {r \in Dumped(p) : Len(r) > StackDepth}}

LimitErrors ==
  IF tree[<<>>] # "map" THEN {Error(<<>>, "mapping")}
  ELSE {e \in {Error(<<>>, "depth")} : DepthOf > MaxDepth}
       \cup {e \in {Error(<<"tables">>, "tables")} : Cardinality(Tables) > MaxTables}
       \cup {Error(Append(t, "columns"), "columns") : t \in {u \in Tables : Cardinality(Columns(u)) > MaxColumns}}
       \cup {Error(p, "params") : p \in {q \in AllParams : Cardinality(Below(q)) > MaxParams}}

SecretErrors == {Error(p, "forbidden") : p \in ForbiddenKeys}

LayerOneErrors == LimitErrors \cup SecretErrors

(* The parser of YAML recurses on every node of a text, and SafeLoader     *)
(* raises more than YAMLError: read_text and an impossible date give a     *)
(* ValueError.  _max_depth recurses on what it walks of a dict.            *)
ReadText ==
  /\ phase = "call" /\ source.given \in {"text", "path"}
  /\ CASE source.text = "unreadable"                 -> End("OSError", {})
       [] source.text \in {"undecodable", "no date"} -> End("ValueError", {})
       [] source.text \in {"too long", "invalid", "anchor"} ->
            End("SchemaError", {Error(<<>>, source.text)})
       [] source.text = "fine" /\ (\E p \in DOMAIN tree : Len(p) > StackDepth) ->
            End("RecursionError", {})
       [] OTHER -> phase' = "limits" /\ UNCHANGED <<errors, outcome>>
  /\ UNCHANGED <<source, index, parsed, key>>

ReadDict ==
  /\ phase = "call" /\ source.given = "dict"
  /\ IF DepthOf > StackDepth THEN End("RecursionError", {})
                             ELSE phase' = "limits" /\ UNCHANGED <<errors, outcome>>
  /\ UNCHANGED <<source, index, parsed, key>>

(* The first params that json.dumps cannot measure end the call. *)
DumpFails ==
  /\ tree[<<>>] = "map"
  /\ \E p \in AllParams : \E e \in DumpErrors(p) : End(e, {})

CheckLimits ==
  /\ phase = "limits"
  /\ \/ DumpFails
     \/ /\ tree[<<>>] = "map" => \A p \in AllParams : DumpErrors(p) = {}
        /\ IF LayerOneErrors # {} THEN End("SchemaError", LayerOneErrors)
           ELSE phase' = "structure" /\ UNCHANGED <<errors, outcome>>
  /\ UNCHANGED <<source, index, parsed, key>>

BugBuildSchema ==                             \* the errors of Pydantic are not passed on
  /\ phase = "structure"
  /\ End("ok", {}) \/ End("SchemaError", {})
  /\ UNCHANGED <<source, index, parsed, key>>

BuildSchema ==
  /\ phase = "structure"
  /\ \/ End("ok", {})
     \/ End("SchemaError", {Error(<<>>, "structure")})
  /\ UNCHANGED <<source, index, parsed, key>>

-----------------------------------------------------------------------------
(* build_inline_schema. *)
raw         == source.cols[index]
Pairs(r)    == {f \in Range(r.flags) : f # Pk}
Keys(r)     == {f.key : f \in Pairs(r)}

(* Of two values of a key, the last counts. *)
BugValueOf(r, k) == r.flags[Min({i \in DOMAIN r.flags : r.flags[i].key = k /\ r.flags[i] # Pk})].value
ValueOf(r, k)    == r.flags[Max({i \in DOMAIN r.flags : r.flags[i].key = k /\ r.flags[i] # Pk})].value

ColumnOf(r) ==
  [name |-> r.name, type |-> r.type, pk |-> Pk \in Range(r.flags),
   fields |-> [k \in Keys(r) \cap Known |-> ValueOf(r, k)],
   params |-> [k \in Keys(r) \ Known |-> ValueOf(r, k)]]

(* What _parse_column makes of a string; ColumnSpec's error is a ValueError. *)
Failure(r) ==
  CASE r.name = "" \/ r.type = ""                            -> "format"
    [] \E f \in Pairs(r) : f.value = NoValue                 -> "flag"
    [] \E f \in Pairs(r) : f.key = ""                        -> "empty key"
    [] \E f \in Pairs(r) : <<f.key, f.value>> \in Unparsable -> "value"
    [] \/ <<"name", r.name>> \in Refused
       \/ \E k \in Keys(r) \cap Known : <<k, ValueOf(r, k)>> \in Refused -> "column"
    [] OTHER                                                 -> "none"

StartInline ==
  /\ phase = "call" /\ source.given = "flags"
  /\ IF source.cols = <<>> THEN End("SchemaError", {Error(<<>>, "no columns")})
                           ELSE phase' = "column" /\ UNCHANGED <<errors, outcome>>
  /\ UNCHANGED <<source, index, parsed, key>>

BugParseColumn ==                             \* the position among those parsed
  /\ phase = "column" /\ index <= Len(source.cols)
  /\ IF Failure(raw) = "none"
     THEN parsed' = Append(parsed, ColumnOf(raw)) /\ UNCHANGED errors
     ELSE errors' = errors \cup {Error(<<Len(parsed) + 1>>, Failure(raw))} /\ UNCHANGED parsed
  /\ index' = index + 1
  /\ UNCHANGED <<source, phase, key, outcome>>

ParseColumn ==
  /\ phase = "column" /\ index <= Len(source.cols)
  /\ IF Failure(raw) = "none"
     THEN parsed' = Append(parsed, ColumnOf(raw)) /\ UNCHANGED errors
     ELSE errors' = errors \cup {Error(<<index>>, Failure(raw))} /\ UNCHANGED parsed
  /\ index' = index + 1
  /\ UNCHANGED <<source, phase, key, outcome>>

Marked == {i \in DOMAIN parsed : parsed[i].pk}

ChooseKey ==
  /\ phase = "column" /\ index > Len(source.cols)
  /\ LET found == errors \cup {e \in {Error(<<>>, "keys")} : Cardinality(Marked) > 1}
     IN  IF found # {} THEN End("SchemaError", found) /\ UNCHANGED key
         ELSE /\ key' = parsed[IF Marked # {} THEN Min(Marked) ELSE 1].name
              /\ phase' = "table" /\ UNCHANGED <<errors, outcome>>
  /\ UNCHANGED <<source, index, parsed>>

(* The validators of TableSpec and Schema that a table of flags can break,   *)
(* those of its name and its rows (table) included.                          *)
TableIsRefused ==
  \/ ~source.table
  \/ Len(parsed) > MaxColumns
  \/ \E i, j \in DOMAIN parsed : i # j /\ parsed[i].name = parsed[j].name
  \/ \E i \in DOMAIN parsed :
       /\ parsed[i].name = key /\ "null_ratio" \in DOMAIN parsed[i].fields
       /\ parsed[i].fields["null_ratio"] # "0"
  \/ \E i \in DOMAIN parsed : parsed[i].type \in LLMTypes

BuildTable ==
  /\ phase = "table"
  /\ IF TableIsRefused THEN End("PydanticError", {}) ELSE End("ok", {})
  /\ UNCHANGED <<source, index, parsed, key>>

LoadSchema        == ReadText \/ ReadDict \/ CheckLimits \/ BuildSchema
BuildInlineSchema == StartInline \/ ParseColumn \/ ChooseKey \/ BuildTable
SourcesNext       == LoadSchema \/ BuildInlineSchema

SourcesSpec == SourcesInit /\ [][SourcesNext]_sourcesVars

-----------------------------------------------------------------------------
(* What is wrong with a document in layer 1, said of its paths one by one:   *)
(* of those that dicts and lists lead to.                                    *)
Reached(p) == \A n \in 0 .. Len(p) - 1 : tree[SubSeq(p, 1, n)] \in Walked
Secret(p)  == p # <<>> /\ tree[Front(p)] = "map" /\ Last(p) \in Forbidden
InTable(p) == Len(p) > 1 /\ p[1] = "tables" /\ tree[<<"tables">>] = "list"
InColumn(p) == /\ InTable(p) /\ Len(p) > 3 /\ p[3] = "columns"
               /\ tree[SubSeq(p, 1, 2)] = "map" /\ tree[SubSeq(p, 1, 3)] = "list"
InParams(p) == /\ InColumn(p) /\ Len(p) > 5 /\ p[5] = "params"
               /\ tree[SubSeq(p, 1, 4)] = "map" /\ tree[SubSeq(p, 1, 5)] = "map"
TooMany(S, limit, Place(_)) ==
  {Place(p) : p \in {q \in S : Cardinality({r \in S : Place(r) = Place(q)}) > limit}}

Wrong ==
  LET nodes == DOMAIN tree
  IN  {Error(p, "forbidden") : p \in {q \in nodes : Reached(q) /\ Secret(q) /\
          \A n \in 1 .. Len(q) - 1 : ~Secret(SubSeq(q, 1, n))}}
      \cup IF tree[<<>>] # "map" THEN {Error(<<>>, "mapping")}
           ELSE {Error(<<>>, "depth") : p \in {q \in nodes : Reached(q) /\ Len(q) > MaxDepth}}
                \cup {Error(p, "tables") : p \in
                        TooMany({q \in nodes : InTable(q) /\ Len(q) = 2}, MaxTables, Front)}
                \cup {Error(p, "columns") : p \in
                        TooMany({q \in nodes : InColumn(q) /\ Len(q) = 4}, MaxColumns, Front)}
                \cup {Error(p, "params") : p \in
                        TooMany({q \in nodes : InParams(q)}, MaxParams, LAMBDA q : SubSeq(q, 1, 5))}

(* load_schema accumulates all the errors of layer 1: a document of which    *)
(* the recursions come to an end is refused with each thing that is wrong    *)
(* with it where dicts and lists lead, however its containers are mixed, and *)
(* becomes a schema only with none: from a dict no less than from a text.    *)
(* Of what a tuple or an odd container holds it says nothing                 *)
(* (NothingForbiddenInParams).                                               *)
LayerOneIsExact ==
  source.given # "flags" =>
    /\ phase = "structure" \/ outcome = "ok" => Wrong = {}
    /\ outcome = "SchemaError" /\ source.text = "fine" =>
         errors = IF Wrong # {} THEN Wrong ELSE {Error(<<>>, "structure")}

(* "The schema does not accept fields api_key, password or token" (DD-00:693) *)
(* and test_rejeita_password_e_token_em_qualquer_lugar (token anywhere, in    *)
(* params in particular): params that ColumnSpec takes as they are hold no    *)
(* such key at any depth.  The scan of loader.py:95-121 passes by tuples.     *)
NothingForbiddenInParams ==
  source.given # "flags" /\ outcome = "ok" =>
    \A p \in AllParams : \A q \in Below(p) : ~Secret(q)

(* build_inline_schema says at once what is wrong with each flag, by its     *)
(* place, however many fail and wherever they are.                           *)
EachFlagIsJudged ==
  source.given = "flags" /\ outcome = "SchemaError" /\ source.cols # <<>> =>
    /\ {e.path : e \in errors} \ {<<>>} =
         {<<i>> : i \in {j \in DOMAIN source.cols : Failure(source.cols[j]) # "none"}}
    /\ Error(<<>>, "keys") \in errors <=>
         \E i, j \in DOMAIN source.cols : i # j /\ \A n \in {i, j} :
           Failure(source.cols[n]) = "none" /\ Pk \in Range(source.cols[n].flags)

(* An inline schema is what the flags say: the columns in their order, each  *)
(* value given last under its key, once, and a key that is one column: the   *)
(* one that is marked, if any.                                               *)
InlineIsFaithful ==
  source.given = "flags" /\ outcome = "ok" =>
    /\ Len(parsed) = Len(source.cols)
    /\ \A i \in DOMAIN parsed :
         LET r == source.cols[i]
             both == [k \in DOMAIN parsed[i].fields \cup DOMAIN parsed[i].params |->
                        IF k \in Known THEN parsed[i].fields[k] ELSE parsed[i].params[k]]
         IN  /\ parsed[i].name = r.name /\ parsed[i].type = r.type
             /\ \A n \in DOMAIN r.flags :
                  LET f      == r.flags[n]
                      isLast == \A m \in n + 1 .. Len(r.flags) : r.flags[m] = Pk \/ r.flags[m].key # f.key
                  IN  f # Pk /\ isLast => both[f.key] = f.value
    /\ Cardinality({i \in DOMAIN parsed : parsed[i].name = key}) = 1
    /\ \A i \in DOMAIN source.cols : Pk \in Range(source.cols[i].flags) => source.cols[i].name = key
=============================================================================
