SPECIFICATION Spec
CONSTANTS
  Words = {"A", "B", "x", "y", "U16", "String"}
  FreeWords = {"A", "U16"}
  Literals = {"a", "p"}
  Lower <- MCLower
  Schemas <- MCSchemas
  Documents <- MCDocuments
  None = None
  MaxTokens = 13
INVARIANT TypeOK
INVARIANT ParsedAsRead
INVARIANT SchemasAccepted
INVARIANT PrefixesResolved
INVARIANT ValidationExact
CHECK_DEADLOCK FALSE
