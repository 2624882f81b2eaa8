------------------------------ MODULE UserInput ------------------------------
(***************************************************************************)
(* What a user writes, up to the options of a run: a schema, from          *)
(* load_schema or build_inline_schema, and the options.                    *)
(* resolve_run_options takes a Schema and keeps nothing of its own: it can *)
(* be called once one of the other two has returned.                       *)
(***************************************************************************)
EXTENDS RunOptions, SchemaSources

UserInputInit == SourcesInit /\ Init

MakeSchema     == SourcesNext /\ UNCHANGED vars
ResolveOptions == outcome = "ok" /\ Next /\ UNCHANGED sourcesVars
UserInputNext  == MakeSchema \/ ResolveOptions

UserInputSpec == UserInputInit /\ [][UserInputNext]_<<vars, sourcesVars>>
=============================================================================
