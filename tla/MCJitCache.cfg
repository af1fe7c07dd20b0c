SPECIFICATION Spec
CONSTANTS
  CodeWords = 34
  MaxBlockHW = 11
  MaxOps = 3
  HtabSize = 4
  PrologueHW = 1
  ExitHW = 1
  RomLen = 9
  Rom <- RomShort
  RomPcs = {0, 1, 3, 4, 5, 7}
  OtherPcs = {100}
INVARIANTS
  BufferNotOverrun
  LookupReturnsItsCode
  EmptyBlocksAtEnd
PROPERTY TranslationEnds
