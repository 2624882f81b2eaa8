SPECIFICATION Spec
CONSTANTS
  Names <- MCNames
  Types <- MCTypes
  LLMTypes = {"llm_text"}
  Documents <- MCDocuments
  Contexts <- MCContexts
  NoContext = NoContext
  MaxTables = 2
  MaxColumns = 3
INVARIANTS DeclaredKept NamesStayUnique ImpliedComplete CollisionsAreAll AcceptedStaysAccepted
PROPERTY GrowsOnce
