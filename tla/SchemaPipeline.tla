--------------------------- MODULE SchemaPipeline ---------------------------
(***************************************************************************)
(* What happens to a schema before any data are generated: load_schema and *)
(* validate of src/src/dataipsum/schema/loader.py, and the validators,     *)
(* validate_with_registry and normalize_schema of schema/models.py.        *)
(*                                                                         *)
(* A caller loads a document, may validate it at any moment, and           *)
(* normalises it: the columns that generators and planner imply are        *)
(* appended to each table, on a copy that no validator looks at.  Nothing  *)
(* stops a caller from validating or normalising the result again.         *)
(*                                                                         *)
(* Fields that are refused on their own (an identifier, a ratio) are left  *)
(* out; the limits of depth, sizes and secrets are in SchemaSources, the   *)
(* cycle search in DependencyOrder: here a cycle is a set of columns that  *)
(* depend on one another.                                                  *)
(***************************************************************************)
EXTENDS Naturals, Sequences

CONSTANTS
  Names,       \* names of columns and tables
  Types,       \* types of columns, registered or not
  LLMTypes,    \* those that begin with llm_
  Documents,   \* what load_schema is given
  Contexts,    \* the registries and planners that the caller may have
  NoContext,   \* ctx = None
  MaxTables,   \* MAX_TABLES: 200
  MaxColumns   \* MAX_COLUMNS_PER_TABLE: 500

ColumnSpecs == [name : Names, type : Types, nullable : BOOLEAN]   \* null_ratio > 0

(* rows and rows_from are there or not; key are the columns of the primary  *)
(* key.  A table has a relation and a via where it has rows_from.           *)
Relations  == {"none", "one_to_one", "one_to_many", "many_to_many", "thread"}
TableSpecs == [name : Names, rows : BOOLEAN, relation : Relations, via : Names,
               thread : BOOLEAN, composite : BOOLEAN, key : SUBSET Names,
               columns : Seq(ColumnSpecs)]
Schemas    == [tables : Seq(TableSpecs), llm : BOOLEAN]

(* A context is what the contracts of Generator and Planner answer: columns *)
(* implied and names depended on, by registered type; the types whose       *)
(* generator refuses the invalid_ratio, format or params of the column; and *)
(* the columns that the planner implies, by the relation of the table.      *)
ASSUME PipelineAssumption ==
  /\ LLMTypes \subseteq Types
  /\ Documents \subseteq Schemas /\ \A doc \in Documents : doc.tables # <<>>
  /\ NoContext \notin Contexts
  /\ \A c \in Contexts :
       /\ c.implied \in [DOMAIN c.implied -> Seq(ColumnSpecs)]
       /\ c.planned \in [Relations -> Seq(ColumnSpecs)]
       /\ c.depends \in [DOMAIN c.implied -> SUBSET Names]
       /\ c.refuses \subseteq DOMAIN c.implied /\ DOMAIN c.implied \subseteq Types
  /\ MaxTables \in Nat /\ MaxColumns \in Nat

VARIABLES
  ctx,        \* the ValidationContext of the caller, or NoContext
  document,   \* what the caller loads
  tables,     \* schema.tables, <<>> before load_schema has returned one
  accepted,   \* has validate found the loaded schema valid, with ctx?
  outcome,    \* how the last call ended
  reported,   \* the errors it raised or returned: table, column, kind
  \* normalize_schema
  pc,         \* "idle", or what it does for table number index
  index,      \* table_index + 1
  column,     \* the column whose generator is asked next
  combined,   \* implied columns yet to look at
  seen,       \* implied columns kept
  normalized  \* normalized_tables

call == <<outcome, reported>>
loop == <<index, column, combined, seen, normalized>>
vars == <<ctx, document, tables, accepted, call, pc, loop>>

TypeOK ==
  /\ ctx \in Contexts \cup {NoContext}
  /\ document \in Documents
  /\ tables \in Seq(TableSpecs)
  /\ accepted \in BOOLEAN
  /\ outcome \in {"none", "ok", "report", "SchemaError"}
  /\ \A e \in reported : e.table \in Nat /\ e.column \in Nat
  /\ pc \in {"idle", "generators", "dedup"}
  /\ index \in 1 .. Len(tables) + 1
  /\ column \in Nat \ {0}
  /\ combined \in Seq(ColumnSpecs)
  /\ seen \in Seq(ColumnSpecs)
  /\ normalized \in Seq(TableSpecs)

Init ==
  /\ ctx \in Contexts \cup {NoContext}
  /\ document \in Documents
  /\ tables = <<>>
  /\ accepted = FALSE
  /\ outcome = "none"
  /\ reported = {}
  /\ pc = "idle"
  /\ index = 1
  /\ column = 1
  /\ combined = <<>>
  /\ seen = <<>>
  /\ normalized = <<>>

-----------------------------------------------------------------------------
NamesIn(columns) == {columns[i].name : i \in DOMAIN columns}
Unique(columns)  == \A i, j \in DOMAIN columns : columns[i].name = columns[j].name => i = j
Error(t, c, k)   == [table |-> t, column |-> c, kind |-> k]

(* Layer 1. *)
LimitErrors(doc) ==
  {e \in {Error(0, 0, "tables")} : Len(doc.tables) > MaxTables}
  \cup {Error(t, 0, "columns") : t \in {u \in DOMAIN doc.tables : Len(doc.tables[u].columns) > MaxColumns}}

(* Layer 2: the validators of TableSpec, in order; then those of Schema. *)
TableRules  == <<"rows", "thread", "composite", "duplicates", "null_ratio">>
SchemaRules == <<"names", "llm">>

NotNull(table) == table.key \cup (IF table.relation = "none" THEN {} ELSE {table.via})

TableBreaks(table, rule) ==
  \/ rule = "rows"       /\ (table.rows <=> table.relation # "none")
  \/ rule = "thread"     /\ table.thread /\ table.relation # "thread"
  \/ rule = "composite"  /\ table.composite /\ table.relation # "many_to_many"
  \/ rule = "duplicates" /\ ~Unique(table.columns)
  \/ rule = "null_ratio" /\ \E i \in DOMAIN table.columns :
                              table.columns[i].nullable /\ table.columns[i].name \in NotNull(table)

SchemaBreaks(doc, rule) ==
  \/ rule = "names" /\ ~Unique(doc.tables)
  \/ rule = "llm"   /\ ~doc.llm /\ \E t \in DOMAIN doc.tables :
                         \E i \in DOMAIN doc.tables[t].columns :
                           doc.tables[t].columns[i].type \in LLMTypes

BrokenRules(table) == {r \in DOMAIN TableRules : TableBreaks(table, TableRules[r])}
BrokenSchemaRules(doc) == {r \in DOMAIN SchemaRules : SchemaBreaks(doc, SchemaRules[r])}

TableErrors(t, rules) == {Error(t, 0, TableRules[r]) : r \in rules}
SchemaErrors(rules)   == {Error(0, 0, SchemaRules[r]) : r \in rules}

(* Pydantic: a validator that raises ends the validation of its model, and a *)
(* table that fails ends that of the schema.                                 *)
First(rules) == {r \in rules : \A q \in rules : r <= q}

StructureErrors(doc) ==
  LET ofTables == UNION {TableErrors(t, First(BrokenRules(doc.tables[t]))) : t \in DOMAIN doc.tables}
  IN  IF ofTables # {} THEN ofTables ELSE SchemaErrors(First(BrokenSchemaRules(doc)))

LoadErrors == IF LimitErrors(document) # {} THEN LimitErrors(document)
                                            ELSE StructureErrors(document)

LoadSchema ==
  /\ pc = "idle" /\ tables = <<>>
  /\ reported' = LoadErrors
  /\ IF LoadErrors = {}
     THEN tables' = document.tables /\ outcome' = "ok"
     ELSE outcome' = "SchemaError" /\ UNCHANGED tables
  /\ UNCHANGED <<ctx, document, accepted, pc, loop>>

-----------------------------------------------------------------------------
Registered == DOMAIN ctx.implied

BugMissing(columns, depended) ==   \* implied columns forgiven before they are there
  ~(depended \subseteq NamesIn(columns) \cup
      UNION {NamesIn(ctx.planned[r]) : r \in Relations})
Missing(columns, depended) == ~(depended \subseteq NamesIn(columns))

(* Layers 3 and 4: _validate_column_capabilities and _validate_depends_on. *)
ColumnErrors(columns, i) ==
  LET type == columns[i].type
  IN  IF type \notin Registered THEN {"type"}
      ELSE {kind \in {"params", "missing", "llm"} :
              \/ kind = "params"  /\ type \in ctx.refuses
              \/ kind = "missing" /\ Missing(columns, ctx.depends[type])
              \/ kind = "llm"     /\ \E j \in DOMAIN columns :
                   columns[j].name \in ctx.depends[type] /\ columns[j].type \in LLMTypes}

HasCycle(columns) ==
  \E S \in (SUBSET {i \in DOMAIN columns : columns[i].type \in Registered}) \ {{}} :
    \A i \in S : \E j \in S : columns[j].name \in ctx.depends[columns[i].type]

ColumnReports(columns, t) ==
  UNION {{Error(t, i, kind) : kind \in ColumnErrors(columns, i)} : i \in DOMAIN columns}
CycleReports(columns, t) == {e \in {Error(t, 0, "cycle")} : HasCycle(columns)}

RegistryErrors(ts) ==
  UNION {ColumnReports(ts[t].columns, t) \cup CycleReports(ts[t].columns, t) : t \in DOMAIN ts}

(* The planner may have any errors of its own. *)
Validate ==
  /\ pc = "idle" /\ tables # <<>>
  /\ \E ofPlanner \in SUBSET {Error(0, 0, "planner")} :
       reported' = IF ctx = NoContext THEN {} ELSE RegistryErrors(tables) \cup ofPlanner
  /\ outcome' = "report"
  /\ accepted' = (accepted \/ (ctx # NoContext /\ tables = document.tables /\ reported' = {}))
  /\ UNCHANGED <<ctx, document, tables, pc, loop>>

-----------------------------------------------------------------------------
NormalizeWithoutContext ==
  /\ pc = "idle" /\ tables # <<>> /\ ctx = NoContext
  /\ outcome' = "ok"
  /\ reported' = {}
  /\ UNCHANGED <<ctx, document, tables, accepted, pc, loop>>

CallNormalize ==
  /\ pc = "idle" /\ tables # <<>> /\ ctx # NoContext
  /\ pc' = "generators"
  /\ index' = 1
  /\ column' = 1
  /\ combined' = <<>>
  /\ seen' = <<>>
  /\ normalized' = <<>>
  /\ outcome' = "none"
  /\ reported' = {}
  /\ UNCHANGED <<ctx, document, tables, accepted>>

Table == tables[index]

Implied(spec) == IF spec.type \in Registered THEN ctx.implied[spec.type] ELSE <<>>

AskGenerator ==
  /\ pc = "generators" /\ index <= Len(tables) /\ column <= Len(Table.columns)
  /\ combined' = combined \o Implied(Table.columns[column])
  /\ column' = column + 1
  /\ UNCHANGED <<ctx, document, tables, accepted, call, pc, index, seen, normalized>>

AskPlanner ==
  /\ pc = "generators" /\ index <= Len(tables) /\ column > Len(Table.columns)
  /\ combined' = combined \o ctx.planned[Table.relation]
  /\ pc' = "dedup"
  /\ UNCHANGED <<ctx, document, tables, accepted, call, index, column, seen, normalized>>

(* The first of the implied columns with a name is kept: seen.setdefault. *)
BugKeepAll(kept, spec)  == Append(kept, spec)
BugKeepLast(kept, spec) == Append(SelectSeq(kept, LAMBDA s : s.name # spec.name), spec)
Keep(kept, spec) == IF spec.name \in NamesIn(kept) THEN kept ELSE Append(kept, spec)

KeepImplied ==
  /\ pc = "dedup" /\ combined # <<>>
  /\ seen' = Keep(seen, Head(combined))
  /\ combined' = Tail(combined)
  /\ UNCHANGED <<ctx, document, tables, accepted, call, pc, index, column, normalized>>

BugCollides(table, implied) == FALSE       \* no look at the declared names
Collides(table, implied) == NamesIn(table.columns) \cap NamesIn(implied) # {}

BugGrownBefore(table, implied) == [table EXCEPT !.columns = implied \o @]
Grown(table, implied) == [table EXCEPT !.columns = @ \o implied]

(* A collision is an error of the table, and the next table has its turn. *)
EndTable ==
  /\ pc = "dedup" /\ combined = <<>>
  /\ IF Collides(Table, seen)
     THEN /\ reported' = reported \cup {Error(index, 0, "collision")}
          /\ UNCHANGED normalized
     ELSE /\ normalized' = Append(normalized, Grown(Table, seen))
          /\ UNCHANGED reported
  /\ pc' = "generators"
  /\ index' = index + 1
  /\ column' = 1
  /\ seen' = <<>>
  /\ UNCHANGED <<ctx, document, tables, accepted, outcome, combined>>

BugRaiseFirst ==             \* the first collision raises
  /\ pc = "generators" /\ reported # {}
  /\ pc' = "idle"
  /\ outcome' = "SchemaError"
  /\ UNCHANGED <<ctx, document, tables, accepted, reported, loop>>

RaiseCollisions ==
  /\ pc = "generators" /\ index > Len(tables) /\ reported # {}
  /\ pc' = "idle"
  /\ outcome' = "SchemaError"
  /\ UNCHANGED <<ctx, document, tables, accepted, reported, loop>>

ReturnNormalized ==
  /\ pc = "generators" /\ index > Len(tables) /\ reported = {}
  /\ tables' = normalized
  /\ pc' = "idle"
  /\ outcome' = "ok"
  /\ UNCHANGED <<ctx, document, accepted, reported, loop>>

Normalize == NormalizeWithoutContext \/ CallNormalize \/ AskGenerator \/ AskPlanner
             \/ KeepImplied \/ EndTable \/ RaiseCollisions \/ ReturnNormalized
Next == LoadSchema \/ Validate \/ Normalize

Spec == Init /\ [][Next]_vars

-----------------------------------------------------------------------------
Elements(seq) == {seq[i] : i \in DOMAIN seq}

ByGenerators(table) == UNION {Elements(Implied(spec)) : spec \in Elements(table.columns)}
ByPlanner(table)    == Elements(ctx.planned[table.relation])
ImpliedNames(table) == {spec.name : spec \in ByGenerators(table) \cup ByPlanner(table)}

(* The columns that the user declared stay where they are and as they are,   *)
(* whatever is normalised, refused or normalised again: they decide the      *)
(* order of the output and the slots of the draws.                           *)
DeclaredKept ==
  tables # <<>> =>
    /\ DOMAIN tables = DOMAIN document.tables
    /\ \A t \in DOMAIN tables :
         LET declared == document.tables[t].columns
         IN  /\ tables[t] = [document.tables[t] EXCEPT !.columns = tables[t].columns]
             /\ Len(declared) <= Len(tables[t].columns)
             /\ SubSeq(tables[t].columns, 1, Len(declared)) = declared

(* No table ever has two columns of a name, though the validator that says   *)
(* so does not see the columns that normalisation adds (model_copy).         *)
NamesStayUnique ==
  /\ Unique(tables)
  /\ \A t \in DOMAIN tables : Unique(tables[t].columns)

(* A normalised table has all its implied columns, and where a generator and *)
(* the planner imply the same name, the generator's.                         *)
ImpliedComplete ==
  pc = "idle" /\ outcome = "ok" /\ ctx # NoContext /\ index > Len(tables) =>
    \A t \in DOMAIN tables :
      LET declared == document.tables[t]
          added    == Elements(tables[t].columns) \ Elements(declared.columns)
      IN  /\ NamesIn(tables[t].columns) = NamesIn(declared.columns) \cup ImpliedNames(declared)
          /\ \A spec \in added :
               \/ spec \in ByGenerators(declared)
               \/ spec \in ByPlanner(declared)
                  /\ \A other \in ByGenerators(declared) : other.name # spec.name

(* normalize_schema raises with all the tables that collide, the later ones  *)
(* too, and has changed nothing.                                             *)
CollisionsAreAll ==
  pc = "idle" /\ outcome = "SchemaError" /\ tables # <<>> =>
    reported = {Error(t, 0, "collision") : t \in
                 {u \in DOMAIN tables : NamesIn(tables[u].columns) \cap ImpliedNames(tables[u]) # {}}}

(* A schema grows once: a second normalisation, as of the schema that a      *)
(* manifest records, refuses or changes nothing, even if implied columns     *)
(* imply columns themselves.                                                 *)
GrowsOnce ==
  [][tables # <<>> /\ tables # document.tables => tables' = tables]_vars

(* What validate said of the declared columns holds after normalisation: the *)
(* columns that it adds change no dependency of theirs for the worse.        *)
AcceptedStaysAccepted ==
  accepted => \A e \in RegistryErrors(tables) :
    e.kind = "cycle" \/ e.column > Len(document.tables[e.table].columns)
=============================================================================
