\* One schema and one call for its options; when they have returned it stops: no deadlock check.
SPECIFICATION MCSpec
CONSTANTS
  Calls <- MCAllCalls
  Documents <- MCDocuments
  FlagLists <- MCFlagLists
  Forbidden = {"token", "password", "api_key"}
  MaxDepth = 6
  StackDepth = 7
  MaxTables = 1
  MaxColumns = 2
  MaxParams = 1
  Known = {"null_ratio", "max_length"}
  Unparsable <- MCUnparsable
  Refused <- MCRefused
  LLMTypes = {"llm_text"}
CHECK_DEADLOCK FALSE
INVARIANTS SourcesTypeOK LayerOneIsExact EachFlagIsJudged InlineIsFaithful
PROPERTY ImplementsPrecedence
