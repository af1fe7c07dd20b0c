SPECIFICATION Spec
CONSTANTS
  CodeWords = 26
  MaxBlockHW = 8
  MaxOps = 3
  HtabSize = 4
  PrologueHW = 1
  ExitHW = 1
  RomLen = 8
  Rom <- RomMixed
  RomPcs = {0, 1, 3, 4, 5, 6, 10}
  OtherPcs = {100}
INVARIANT EveryBlockReturns
