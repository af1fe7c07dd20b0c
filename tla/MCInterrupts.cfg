SPECIFICATION Spec
CONSTANTS
  Levels = {0, 1}
  PswValues <- MCPsw
  MaxSlack = 2
INVARIANTS
  CacheFresh
  BitStringNotMixedUp
PROPERTIES
  InterruptsAreLegal
  InterruptsAreTaken
