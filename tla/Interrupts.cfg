CONSTANTS
  NUM_TERMINALS = 2
  MaxProcesses = 2
  MaxDepth = 2
SPECIFICATION Spec
INVARIANTS
  ReadyWhenOn
  HandlersRunAlone
PROPERTIES
  RequestsServed
