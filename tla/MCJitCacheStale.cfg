SPECIFICATION Spec
CONSTANTS
  CodeWords = 4096
  MaxBlockHW = 512
  MaxOps = 48
  HtabSize = 64
  PrologueHW = 10
  ExitHW = 8
  RomLen = 300
  Rom <- RomAdds
  RomPcs = {0, 23, 71, 119, 167}
  OtherPcs = {100}
INVARIANT EveryReturnedBlockIntact
