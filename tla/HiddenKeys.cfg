\* Two documents that differ in the tag of one node; a call that has returned stops.
SPECIFICATION SourcesSpec
CONSTANTS
  Documents <- MCPairs
  FlagLists = {}
  Forbidden = {"token", "password", "api_key"}
  MaxDepth = 9
  StackDepth = 10
  MaxTables = 1
  MaxColumns = 2
  MaxParams = 5
  Known = {"null_ratio", "max_length"}
  Unparsable <- MCUnparsable
  Refused <- MCRefused
  LLMTypes = {"llm_text"}
CHECK_DEADLOCK FALSE
INVARIANT NothingForbiddenInParams
