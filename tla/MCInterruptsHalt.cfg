SPECIFICATION Spec
CONSTANTS
  Levels = {0, 1}
  PswValues <- MCPsw
  MaxSlack = 2
PROPERTY HaltEndsWithInterrupt
