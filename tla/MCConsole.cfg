CONSTANTS
    W = 12
    ImmBits = 4
    MemSize = 32
    E = 5
    Words = {0, 1, 2, 11, 12, 1365, 2047, 2048, 2730, 4094, 4095}
    Floats = {0, 2048, 1, 64, 65, 127, 128, 1983, 1920, 959, 960, 961, 965, 1023, 1024, 1030, 3008, 3071, 4031, 2112, 2175, 480, 500, 1500, 1663, 1664, 3712, 1984, 900, 2500}
    Junk = {0, 5}
    Tile = 4
    Cells = 2
    Screen = 12
    Objects = 8
    Worlds = 4
    Blocks = 2
    Margin = 1
    MaxTime = 32
    Regs = {0, 1, 2, 26, 27, 28, 29, 30, 31}
    States <- Tried
    Code <- CodeOf
    Kinds = {"integer", "float", "bits", "scene", "frames", "modes", "memory", "state"}
    Sizes <- CartridgeSizes
    Written <- WrittenAddresses
    Read <- ReadAddresses
    Bytes = {17}
    Halfwords <- WrittenHalfwords
    Jumps <- JumpTargets
    MaxWritten = 3
    MaxAhead = 12
SPECIFICATION ConsoleSpec
INVARIANTS
    ArithmeticIsExact
    JitAgrees
    FloatsRounded
    BitStringsWhole
    PictureExact
    MemoryWhole
    StateRestored
