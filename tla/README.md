# TLA+ models of the Virtual Boy core for Playdate

The repository is a Playdate port of mednafen's Virtual Boy emulator.  This
directory holds TLA+ modules of its own logic, the TLC runs that check them on
small instances, and TLAPS proofs of the properties that matter most.  There
are no tests in the repository and its only document is `NOTES.md`, so every
definition here is translated from the code.

## 1. The system

One thread does almost everything: Playdate calls `update` (src/main.c) once a
frame, which runs `vb_run_frame` (src/vb_core.cpp), which runs the V810
interpreter/JIT until the frame is over, draws the result and pushes the
samples.  A second thread of the sound system calls `audio_callback`.

| component | code | state | operations | what it talks to |
|---|---|---|---|---|
| front end | src/main.c, src/vb_input.c, src/vb_display.c | ROM buffer, loaded flag | `eventHandler`, `update`, ROM search and loading | calls the core; menu and lifecycle events |
| frame loop and scheduler | src/vb_core.cpp | `next_vip_ts`, `next_timer_ts`, `next_input_ts`, idle-skip state | `vb_run_frame`, `EventHandler`, `VB_SetEvent`, `ForceEventUpdates`, `RebaseTS` | calls the devices' `_Update`, is called back by them through `VB_SetEvent` and `VB_ExitLoop` |
| interrupt controller | src/vb_core.cpp | `IRQ_Asserted`, `ilevel` | `VBIRQ_Assert`, `RecalcIntLevel` | devices raise lines, the CPU polls `IPendingCache` |
| memory map | src/vb_core.cpp, vip.c, v810_cpu.cpp | WRAM, cartridge, video memory, WCR, `FastMap` | `MemRead*`, `MemWrite*`, `HWCTRL_*`, `SetFastMap`, `vb_load_rom_data` | dispatches to the devices; the interpreter fetches through `FastMap` |
| CPU | hw_cpu/v810 | registers, PSW, `Halted`, `IPendingCache`, bit-string state | `Run_Fast`, `Exception`, `SetInt`, the opcodes | memory map, JIT hook |
| JIT | src/v810_jit.c | code buffer, block table | `jit_lookup`, `jit_translate` | called before each interpreted instruction; emitted code calls `jit_mem_*` |
| interval timer | vb/timer.c | counter, reload, divider, status | `TIMER_Update`, `_Read`, `_Write`, `_ResetTS` | scheduler, interrupt controller |
| game pad port | vb/input.c | shift register, latch, control | `VBINPUT_Update`, `_Read`, `_Write`, `_Frame`, `_ResetTS` | scheduler, interrupt controller |
| video (VIP) | vb/vip.c, vb/vip_draw.inc | display column counter, drawing state, frame buffers, interrupt registers, caches of palettes, brightness and colours | `VIP_Update`, `VIP_DrawBlock`, register access, settings, `VIP_StartFrame` | scheduler, interrupt controller, `VB_ExitLoop` |
| sound (VSU) | vb/vsu.c | six channels, envelopes, sweep, noise | `VSU_Write`, `VSU_Update`, `VSU_EndFrame` | Blip_Buffer |
| audio ring | src/vb_audio.c | 4096-sample ring, two indices | `vb_audio_push`, `audio_callback` | main thread and sound thread |
| save states | state.c, `StateAction`s | memory stream, section descriptors | `MDFNSS_SaveSM`, `MDFNSS_LoadSM` | every component's `StateAction` |

What is hard, component by component (PROJECT.json lists each hazard at its
line, with the property that would catch it):

- **Laziness.** The CPU runs many cycles at a time, and every device catches up
  when it is touched, when its deadline comes and when a frame ends.  Each
  device is right if no program could tell it from one clocked every cycle; the
  scheduler is right if no deadline is missed by more than one unit of work.
- **Rebasing.** Every frame ends by moving all timestamps back to 0, each by
  hand: the clock, three deadlines, three or four `last_ts`.
- **Cached decisions.** `IPendingCache`, `next_event_ts`, the JIT's block table
  are copies of something that changes elsewhere.
- **Halted for two reasons.** The `HALT` instruction, a fatal exception and the
  injected idle halt share one variable.
- **Two counters, one loop.** `VIP_Update` advances drawing and display
  together; the swap of the frame buffers is right only while they stay in step.
- **Two threads, no lock.** The audio ring.
- **Everything twice.**  Each translated instruction must do what the
  interpreter does, flag by flag; a line of pixels is drawn eight at a time or
  one at a time; an address has mirrors and a fetch has a map of its own.
- **Ends of ranges.**  Division, rounding, bit strings across words, clipping
  and parallax: what a few hand-written tests seldom reach.

What would make each component right: the scheduler misses no deadline and ends
every frame; an interrupt is taken exactly when registers and lines say so; a
lookup returns the intact code of its PC and that code does what the
interpreter does; a device cannot be told from one clocked every cycle; an
instruction computes what the integers, the rationals and the bits say; a
picture is what maps, objects and registers define pixel by pixel; a read gives
what was last written; a loaded state is the saved one; the audio ring is a
queue.

## 2. Plan

Built, in order of importance:

1. `EventLoop` -- who runs when; everything else relies on its contract.
2. `Interrupts` -- how a line reaches the program.
3. `JitCache` -- the code cache, the only self-modifying memory.
4. `Timer`, `InputPort`, `Vip`, `Vsu` -- the devices, each against an abstract
   specification: `TickTimer`, `PadPort`, `DoubleBuffer`, `SoundChannel`.
5. `AudioRing`, against `SampleFifo`.
6. `Alu`, `Thumb`, `SoftFloat`, `BitStrings` -- what an instruction computes,
   interpreted and translated; `Arithmetic` -- the integer instructions against
   the integers.
7. `VipDraw`, `Video` -- pixels, from worlds and objects to the surface.
8. `Memory` and, with a program that uses it, `Bus`; `StateFile` -- the address
   space; states saved and loaded.

9. Proofs, in the same order; the three lazily updated devices rest on a common
   account of loops, `Loops`.

All of it is built.  What is only model-checked, and what stands in the way of a
proof, is said at the end of section 6.

## 3. Modules

Each variable has the name of the C variable it stands for, each action the
name of the function or, in the interpreter, of the opcode.  PROJECT.json "map"
gives the lines of every definition.

| module | stands for | abstract or reference definition | proofs |
|---|---|---|---|
| `EventLoop` | `vb_run_frame`, `Run_Fast`'s loops, `EventHandler`, `VB_SetEvent`, `RebaseTS` | | `EventLoopProofs` |
| `Interrupts` | `VBIRQ_Assert`, `SetInt`, `IPendingCache`, PSW, exceptions, bit strings | | `InterruptsProofs` |
| `JitCache` | `jit_lookup`, `jit_translate`'s loop, `jit_init` | | `ProcessorProofs` |
| `Timer` | timer.c | `TickTimer`, one clock at a time | `DevicesProofs` |
| `InputPort` | input.c | `PadPort`, one clock at a time | `DevicesProofs` |
| `Vip` | `VIP_Update`, the registers that steer it, `VIP_ResetTS` | `DoubleBuffer` | `VipProofs` |
| `Vsu` | `VSU_Update`, `VSU_Write`, `VSU_EndFrame`, one channel | `SoundChannel`, operators, one cycle at a time | `VsuProofs` |
| `AudioRing` | vb_audio.c, one load or store a step | `SampleFifo` | `DevicesProofs` |
| `Devices` | `Timer`, `InputPort` and `AudioRing` side by side, each with its fairness | | `DevicesProofs` |
| `Loops` | no code: facts about a function that repeats the body of a loop | | in itself |
| `Alu` | the integer opcodes of v810_oploop.inc | the integers, in `Arithmetic` | `ProcessorProofs` |
| `Arithmetic` | an instruction of a program at a time, any of `Alu` in any state | the integers | `ProcessorProofs` |
| `Thumb` | the emitters of v810_jit.c, and what the emitted code does | `Arithmetic`, the same instruction interpreted | `ProcessorProofs` |
| `SoftFloat` | `fpu_subop`, softfloat.c | the rationals | |
| `BitStrings` | `bstr_subop`, `DO_BSTR`, `Do_BSTR_Search` | bit by bit | |
| `VipDraw` | vip_draw.inc | pixel by pixel | |
| `Video` | palettes, brightness, settings, blocks and columns copied to the surface, vip.c | pixel by pixel | |
| `Memory` | `MemRead*`, `MemWrite*`, `VIP_Read*`, `VIP_Write*`, `vb_load_rom_data`, `SetFastMap` | | |
| `Bus` | a program on `Memory`: writes, jumps, fetches | the last byte written to a canonical address | `BusProofs` |
| `Cartridge` | `round_up_pow2` and the sizes it lets pass | | |
| `StateFile` | state.c, the `StateAction`s' variables | variables by name | |

The other reference definitions of the second half are in the MC modules `MCCpu`
and `MCConsole`, beside the properties that use them.

**EventLoop.**  `phase` is the position in `vb_run_frame` and `Run`; a *unit* is
an interpreted instruction or a translated block.  A device is known by its
contract only: `due` is when it really needs an update, `next_ts` what the
scheduler was told.  `AccessTimer` (a register access that updates the timer
and tells the scheduler nothing) and `EnableTimer` (which calls `VB_SetEvent`)
are apart because the code makes that difference.  A unit that comes back costs
at least one clock; `EnterStuckBlock` is the entering of a translated block that
does not come back (section 7), after which `Spin` is all there is.  The contract
is what the device modules show: their next deadline is after the update and within their
period, and no device needs anything before it.

**Interrupts.**  The clock is reduced to `slack`, the cycles before the next
event.  Memory accesses of an instruction may raise and drop any line.
`IPendingCache` is recomputed exactly where the code recomputes it, which is not
everywhere: `SetIdleHalt` and `Exception` set it by hand or not at all.

**JitCache.**  A block is its place in the buffer; the ghost `code` says whether
its halfwords are still its own and whether control leaves it through an exit.
`EmitInstr` is one turn of the translator's loop, with the emitted size of the
instruction taken from the constant `Rom`.  `overlong` records that some block
outgrew its eviction window, which the code does not prevent.  The ghost also
counts the instructions of a block, for the empty ones at the end of the buffer.

**Timer, InputPort.**  `Cycle` moves the CPU clock; `Read`, the `Write*`,
`Event` and `EndFrame` are the only callers of the update, which iterates the
body of the C loop.  An event may be late by `MaxUnit` cycles: that is
`EventLoop!EventsOnTime`.

**Vip.**  A round of `VIP_Update`'s loop is a step (`Round`), entered from
`EventHandler` or `ForceEventUpdates`; the program runs in between and meets
registers as they were at `last_ts`.  `Ints` are the interrupts that an instance
follows: the code keeps a bit for each and lets none act on another, so a run
may follow two of the five and still see every late update; the proofs are for
any set of them.

**Vsu.**  One channel of each kind ("wave" for 0 to 3, "sweep" for 4, "noise"
for 5); the channels share only the stop register.  A cycle here is four of the
CPU's (`(timestamp + VSU_CycleFix) >> 2`).  What a silent channel holds and the
next note overwrites is normalised (`Kept`).

**AudioRing.**  The two halves of a sample are stored, loaded and published in
separate steps.  `unplayed` is a ghost that counts what is published and not
yet played.

**Alu, Thumb, SoftFloat, BitStrings.**  A machine state is a record of
registers, flag bits of PSW, pc, timestamp and memory, and an instruction is a
function from states to states, as the interpreter's opcodes are.  `Thumb` is
the same for a translated block: `Emitted` gives the list of ARM instructions
for one V810 instruction, `Run` executes it, with the four scratch registers, the
APSR and calls of `jit_mem_*`, which leave something in the scratch registers and
the flags (`junk`, part of an instruction's description; 0: registers preserved).
The ARM instructions themselves are external.  Words are `W` bits wide, 32 in the code
and 12 in the runs, floats have `E` exponent bits instead of 8; halves, quarters
and shift counts scale with them, so that an operand at the end of its
range is one of a few and not of 2^32.  `Arithmetic` is one instruction of
`Alu` after another, each from any of the constant `States`: the registers,
memory and flags before it (`was`), the instruction (`job`) and what it left
(`c`).  `Thumb` adds to that step what the translated code of the instruction
leaves (`jit`, `ExecuteBoth`); `MCCpu` gives both the states and the instructions
to try.  A bit string is executed in turns: up to the next event at a word
boundary, then again, from registers that an interrupt handler has meanwhile
used.

**VipDraw, Video.**  The video memory is a record of maps, characters, objects,
worlds and registers.  `BGFrom` draws a line of a background in the steps of
the C loop, a whole character where it fits and single pixels at the ends;
`WorldsFrom` goes through the worlds from the last.  `Video` keeps each cache
(`gplt`, `jplt`, `BrightnessCache`, `ColorLUT`, `BrightCLUT`, the chosen copy
function) apart from the registers and settings it is made from, and recomputes
it only where the code does.

**Memory, Bus.**  Real addresses, of signed 32-bit words; only bytes that were
written are kept.  A cell is an array of the code and an offset into it.  The
registers of the devices are not kept here and `MemoryWhole` says nothing of what
they read as (`IsRegister`); nor does the video unit draw into its frame buffers
behind the program's back, as it does in `Vip`.  Masks
of the code are written as remainders.  `at` is the place of the fetch: a mapping
and an offset, as the interpreter's `PC_ptr`, which runs on over the end of a
mapping into the trampoline, whose invalid opcode looks the address up again.
`flat` is the history of writes, by `Canonical` address: the memory map a second
time, as the hardware has it, and not as the code computes it.  A cartridge is
inserted once; its size is any of the constant `Sizes`.

**StateFile.**  A stream is a sequence of units: a name takes one unit a letter,
a size one unit, so that the arithmetic of seeking is kept and its byte order is
not.  Links between lists are flattened.

## 4. Runs

All passing runs explore their state space to the end.  None disables the
deadlock check.

| run | bounds | what it shows |
|---|---|---|
| `jit_cache` | 34 halfwords, windows of 11, 3 instructions a block, 4 slots, 7 PCs | the buffer is never overrun, a lookup returns the intact code of its PC, empty blocks lie at the end of the buffer and nowhere else, translation ends |
| `event_loop` | frames of 5, units of 3, periods of 3, 4 and 2 | deadlines, asserts of `RebaseTS`, frame budget, halts; frames end unless the CPU is stuck in a block |
| `devices` | timer: counter of 2 bits, periods of 3, 1 and 2, events late by 1, frames of 3; pad: 2 bits of 2 cycles, events late by 3, frames of 4; ring: 4 slots, 2 samples a frame, calls of up to 3, 5 labels | timer and pad port implement `TickTimer` and `PadPort`, lines and deadlines follow registers, timers fire, reads end and interrupt; the ring implements `SampleFifo` and every sample is played |
| `interrupts` | 2 lines, 3 status words, 2 instructions between events | `IPendingCache` is fresh, interrupts legal and taken, bit strings not mixed up |
| `vip` | 2 columns of 2 cycles, 2 blocks of 5, units of 3 (`MaxUnit`), a budget of 19, two interrupts (`Ints`), game frames of one or two frames | drawing in step, swaps whole, frames before the budget, registers in phase with the clock and line and status in time although updates are late by more than a column, a drawing ends |
| `vsu` | frequencies of 2 bits, dividers of 2, envelope of 1 bit, frames of 2 | lazy is cycle by cycle; timed notes end on their cycle |
| `console` | words of 12 bits, floats of 5 and 6 bits, 11 and 30 operands, characters of 4 by 4, maps of 2 by 2, a screen of 12 by 8, streams cut at 17 places; of memory 3 addresses written (`MaxWritten`) and 12 bytes fetched from a jump on (`MaxAhead`) | the seven properties below |
| `jit_stale_block`, `jit_fall_through`, `halt_cleared`, `jit_flags`, `search_down` | | the violations of section 7 |

`devices` and `console` each hold several parts that share no state; a behaviour
is one part at a time.  The parts of `console` have one property each, in which
the outcome of an operation is compared with a definition that computes it
another way:

- `ArithmeticIsExact`: sums, differences, shifts, products and quotients against
  the integers; conditions after a comparison against the relations they name;
  operations on bits against the sets of places that hold a one; a word of
  memory exchanged if and only if it is the one expected.
- `JitAgrees`: registers, memory, pc, clocks and the flags S and Z of the
  translated instruction against the interpreted one, for each instruction,
  each condition and each combination of flags.  It leaves open the clocks of
  loads and stores; and when a callee uses r3 (`Junk`), it says what the register
  of `LD_W` holds instead of the word (`LeftIn`).
- `FloatsRounded`: the exact rational, rounded to nearest even by a definition
  that does not shift or jam; exceptions keep registers and pc.
- `BitStringsWhole`: every bit of source, destination and what surrounds it,
  after any number of suspensions and interrupts.
- `PictureExact`: the shade of each pixel from the worlds, maps, objects and
  registers, for scenes of three worlds and two groups of objects; the colours
  on the Playdate surface after any order of register writes, column tables,
  loaded states and a new cartridge; the place and colour of each pixel in the
  five 3D modes.
- `MemoryWhole`: a read through any mirror, of anything but a device's
  register, against the history of writes; both halfwords of an instruction
  against a read, or, for the second one behind the end of a mapping, against
  the trampoline; which sizes of cartridge are accepted.
- `StateRestored`: layouts that lack sections or variables, have others, or have
  them at another size and place, and streams cut short.

Why the bounds are enough.  The devices' behaviour depends on the order of
things within a period and on coincidences (an update that meets a deadline
exactly, one that has to catch up with two periods, a frame that ends in the
middle of one, a block that ends with a column): the constants are the smallest
at which each of these happens in some step and not in others.  In the timer
the fast period is no longer than an event may be late, so one update expires
twice; in the pad port a late update shifts in the whole register; in `vip` the
block length is odd and the column length even, and a unit may be longer than
a column, so that an update is late by a whole column and does the rounds of
several at once, and the budget is the least that a frame and the longest unit
leave room for; in `vsu` a frame is longer than
the shortest wave step, `LatchFreq` lies inside the range of frequencies, and a
sweep overflows.  In `event_loop` a unit may outlast two
periods and a frame is several columns long.  `jit_cache` has PCs that collide
in a slot, blocks ended by a branch, by `MaxOps` and by the interpreter, and a
buffer that wraps after three blocks.  In the audio ring the backlog is
`RING_LEN` - 1, the most the index arithmetic can tell from empty; labels
outnumber the samples alive.

In `console` the words are those where an operation changes its mind: 0, 1, the
ends of the signed and the unsigned range and their neighbours, shift counts of
the width and one less, alternating bits.  The floats are the zeros, the least
and the greatest of every kind, neighbours of a power of two, ties, reserved
operands, and pairs far enough apart that only the sticky bit is left.  Bit
strings start at the first, a middle and the last bit of a word and are shorter
than a word, longer, and of several.  A world lies at the left edge, off it by
less than a character and wrapped around; scrolling begins inside a character;
parallax is 0 or -1; maps come as one beside another or below.  What is scaled
keeps its proportions: a line holds three characters, so that it has ends and a
middle.  Memory offers cartridges below and at the limits of 256 bytes, a page
of 64K and 16M; fetches begin close before the end of each mapping.

Every property has at least one seeded fault (the definitions named in each
module's header or before the definition they stand for), which its run detects.

## 5. Fairness

Everything but the audio callback runs on one thread: whichever step it can take
next, it takes, and Playdate calls for the next frame.  `EventLoop`, `Vip` and
`Interrupts` state this as weak fairness of the steps of the emulator (all
of `Next` where only one thing can be going on).  `Timer` and `InputPort` ask
that cycles pass, that due events are handled (`EventLoop!FrameEnds` and
`EventsOnTime`), and that a frame ends when it cannot grow.  That cycles pass is
an assumption about the program, here and in `Vip` and `Interrupts`: the code
guarantees it unless the CPU enters a translated block that does not come back
(section 7).  `EventLoop` makes no such assumption; there the CPU may get stuck in
any unit, and `FrameEnds` says that nothing else keeps a frame from ending.  Nothing is assumed
of the program: its register accesses have no fairness, and properties about
devices left alone say so (`<>[][Machine]_vars`, `<>[][~Program]_vars`).
`JitCache` asks that a translation in progress goes on.  `AudioRing` asks that
the sound system goes on calling back, not that the emulator goes on pushing.
`Devices` states these for whichever device runs.  The parts of `MCConsole`
are safety only.

## 6. Proofs

| theorem | says, for every value of the constants |
|---|---|
| `EventLoopProofs!SchedulingSafe` | types, `EventsOnTime`, `RebaseAsserts`, `FrameBounded` |
| `EventLoopProofs!RebaseSound`, `FrameOverrun`, `ClockForward` | `RebaseAsserts`, `FrameBounded` and `ClockMonotone` on their own |
| `EventLoopProofs!TimeSound` | `ClockMonotone`, `HaltNeverOversleeps` |
| `InterruptsProofs!InterruptsCoherent` | types, `CacheFresh`, `BitStringNotMixedUp` |
| `InterruptsProofs!BitStringKept` | `BitStringNotMixedUp` on its own |
| `InterruptsProofs!InterruptsLegal` | `InterruptsAreLegal` |
| `ProcessorProofs!BufferSafe` | types, `BufferNotOverrun` |
| `ProcessorProofs!CacheCoherent` | `LookupReturnsItsCode`, `CachedBlocksDisjoint` |
| `ProcessorProofs!EmptyBlocksWhere` | `EmptyBlocksAtEnd` |
| `ProcessorProofs!ArithmeticExact` | `ArithmeticIsExact`, at the code's 32 bits and at 8, 12 and 16 |
| `ProcessorProofs!TranslationAgrees` | `JitAgrees`, at the same widths; of `LD_W`, when the callee uses r3, what is left of the word |
| `VipProofs!VipSafe` | types, `LineTracksPending`, `DrawingInStep` |
| `VipProofs!VipOnTime` | `BudgetNeverReached`, `SboutSoonOver` |
| `VipProofs!VipInPhase` | `RegistersInPhase` |
| `VipProofs!VipLineTracked`, `BlockStatusEnds` | `LineTracksPending` and `SboutSoonOver` on their own: the status of a block is over `SboutClocks` and the lateness of an update, a column and a unit, after its beginning |
| `VipProofs!VipImplementsDoubleBuffer` | `ImplementsDoubleBuffer` |
| `DevicesProofs!RingSafe` | types, the position of `ring_write`, what each thread has stored or loaded |
| `DevicesProofs!RingImplementsFifo` | `RingIsFifo` |
| `DevicesProofs!DevicesTyped` | `DevicesTypeOK`: types, with no counter below zero, no bit beyond the register, no device updated beyond now, no index outside the ring |
| `DevicesProofs!TimerLineTracked` | `LineTracksTimer` |
| `DevicesProofs!TimerImplementsTicks` | `Timer` implements `TickTimer` (`LazyIsTickByTick`) |
| `DevicesProofs!NextBitScheduled` | `NextBitIsScheduled` |
| `DevicesProofs!PadImplementsTicks` | `InputPort` implements `PadPort` (`PadIsTickByTick`) |
| `VsuProofs!VsuTyped` | `TypeOK` of `Vsu` |
| `VsuProofs!NotesOnTime` | `NotesEndOnTime` |
| `VsuProofs!LazyChannel` | `LazyIsTickByTick` of `Vsu` |
| `BusProofs!BusInvariant` | the mappings of the cartridge, the agreement of memory and history wherever bytes are kept, the place of the next fetch |
| `BusProofs!BusWhole` | `MemoryWhole` |

The assumptions are those of the modules (`BoundsAssumption`,
`NoEventAssumption`, `InterruptsAssumption`, `SizesAssumption`,
`RomAssumption`, `VipAssumption`, `RingAssumption`, `DevicesAssumption`,
`VsuAssumption`, `BusAssumption`, `ArithmeticAssumption`, `ThumbAssumption`), which hold of the
code's constants; TLC evaluates each of them on the instances.
`TimerAssumption` has the fast period no longer than the slow one (400 and 2000
cycles): the divider a slow timer is left with must be one `TypeOK` allows.
`VipAssumption` needs a unit of CPU work of at most 400000 - 397824 = 2176 cycles.  `RingAssumption`
has the backlog below `RING_LEN`, which is an assumption about the sound system:
no line of the code enforces it.  `ArithmeticAssumption` says of `States` only
that registers hold words and memory holds bytes, of `Code` only that an
instruction names registers there are and that the immediate of format V is a
halfword, and of the registers that 0, 30 and 31 exist, which the opcodes name
themselves; memory is of any size that holds a word; the width
is 32, or 8, 12 or 16, so that the runs' instance is one of those proved.
`ThumbAssumption` adds that PSW is a word and that pc and the instruction after
it do not wrap, which holds of code in the cartridge, the only code that
`jit_lookup` has translated.

- *EventLoop.*  Inductive is `CoverInv`: `next_event_ts <= next_ts[d] <= due[d]`
  for every device at every step of every frame, so the CPU stops no later than
  the scheduler's entry of a device, and that is no later than the device needs.
  `EventsOnTime` alone says nothing of the state between units; `PhaseInv`
  carries what the position in the loop says of the clock.
- *Interrupts.*  `CacheFresh` is not inductive: `SetIdleHalt` overwrites a fatal
  halt without recomputing `IPendingCache`.  `FatalInv` says why that is
  harmless: a fatal halt implies NP, which masks every interrupt by itself.
- *JitCache.*  The invariant follows a translation: the block being filled lies
  in its window (`FillingInv`) and no other cached block does (`WindowInv`),
  until some block is `overlong`.  All statements about intact code are
  conditional on that, as the code is, and no theorem assumes that the window
  holds the longest block: with the source's sizes it does not.
  `EmptyBlocksAtEnd` rests on `BegunInv` and `EmptyInv`: a translation that starts in
  the last places before the wrap finds no room for one instruction, and every
  other finds room for one or meets the interpreter's first.
- *Vip.*  The proof follows two positions, of the beam and of the drawing;
  each round adds the same clocks to both, so that a drawing begun with a frame
  is over before the next begins, and the swap finds it complete.  `Ahead` bounds
  how far the displayed position is from the clock of its frame: what one frame
  overruns is taken into the next and does not add up.  The products
  of the positions are isolated in `NextMultiple` and `MultipleMonotone`.
- *AudioRing.*  The unplayed samples fill the slots from `ring_read` up to
  `ring_write` (`RingInv`), fewer than the ring has, so the slot being written
  is none of them (`FreeSlotsKept`); `PushInv` and `CallInv` say which halves
  each thread has stored or loaded, and that the callback's count, taken once,
  stays below what is there.  Publishing is then a push of the queue, freeing a
  slot a play, and every other step a stutter.

- *Loops.*  An update of a device is a `while` loop, modelled as a recursive
  function that repeats the loop's body.  The library's induction theorems have
  operators for parameters; `Loops` states induction with a *set* in the place of
  the predicate, derives it from a well-founded order on the naturals, and says
  of a loop, given as a function `f` on a set `S` with a bound `m` of the rounds
  left: it is done after that many rounds (`DoneInTime`); a set that holds the
  states in which it is done, and every state whose successor it holds, holds
  them all (`LoopInduction`); and it ends where it would after one round less
  or more (`LoopEnds`, `SameEnds`).
- *Timer, InputPort.*  `TimerInv` adds to the types that the line is up only for
  a request and that the scheduler's entry is no later than the next count;
  `PadInv` is the types and `NextBitIsScheduled`, which is inductive with them.
  The refinement maps a state to the one it would be in had it caught up now
  (`Caught`, `PadNow`).  It rests on one fact, proved through `Loops`: to catch up
  to one moment and from there to a later one leads where catching up to the
  later one at once leads (`SettleTwice`, `ShiftTwice`).  So a register access
  that updates the device first leaves the mapped state alone, a `Cycle` is one
  count, and a write acts on the state that it finds caught up.
- *Vsu.*  `VsuInv` is the types with every counter of a playing channel
  positive.  An update goes in chunks, each up to the nearest expiry; a chunk of
  n clocks is one clock followed by a chunk of n - 1 (`ChunkAgain`), so an update
  is as many single clocks as have passed (`AfterRepeats`), which is how
  `SoundChannel` is defined.  For a single clock the dividers that count down
  are compared with the age of the note that counts up (`AgeTells`, `NoteTells`).
  `NotesEndOnTime` follows from the same repetition: each clock takes one from
  `ClocksLeft`, whichever dividers expire in it.

- *Bus.*  `BusInv` is that memory and history agree at every address that has a
  byte
  (`Agrees`), that the mappings are those of the cartridge (`CartridgeInv`), and
  where the next fetch is (`PlaceInv`).  `ReadsWhole` alone is not inductive: it
  speaks of the addresses in `Read`, and a write reaches mirrors that are not
  among them.  The proof gives every address a `Place` in memory, from the code,
  and a canonical address, from the hardware's map, and shows that two addresses
  have one byte exactly when they have one canonical address (`SameByte`: an
  address and its canonical address have the same place, `SamePlace`, and a place
  gives the canonical address back, `HomeIs`).  Halfwords are two bytes because
  no even address is the last of a page (`EvenPairs`).  A fetch that runs on
  stays where a new lookup would find it (`Onward`) until it leaves the mapping,
  by at most two bytes, where the trampoline waits; the second halfword of an
  instruction is the first of the place two bytes on (`SecondHalfword`), so one
  lemma serves for both.  `BusAssumption` says that
  the sizes are the powers of two from 2^8 to 2^24 and that instructions and
  halfwords lie at even addresses; that `round_up_pow2` lets just these sizes
  pass uses bit operations and is checked by TLC (`Cartridge`, in the run
  `console`).

- *Arithmetic.*  Inductive is `Executed`: what the machine shows is what `Execute`
  makes of the state before, an instruction of `Code` in one of the `States`.
  That this is what the integers say is shown group by group (`SumsExact`,
  `ComparisonsExact`, `ShiftsExact`, `ProductsExact`, `UnsignedDivisionExact`,
  `SignedDivisionExact`, `ExchangesExact`), with `WrittenIs` for what a later
  write of register 30 or of register 0 does to the result.  The program status
  word is a number whose bits `SetFlag` changes one at a time: `SetFlagIs` says
  that it changes that bit and no other, `FlagsAre` puts the four together.
  Carry and overflow are statements about remainders of 2^W that are linear once
  the width is a number, so that `SumIs` and `DifferenceIs` go through the widths;
  the sign rule of the code, an exclusive or of sign bits, is compared there
  with the range of the exact sum.  Shifts, products and quotients are not
  linear.  A power is split where the count splits it (`WidthSplits`: 2^n *
  2^(W-n) = 2^W), products are bounded first (`ProductBounds`) and then treated as
  plain numbers, and the quotient towards zero is described by its remainder
  (`QuotIs`).  Of division the provers know little more than its definition;
  `QuotientIs` and its relatives say that a quotient is the only number with a
  remainder in range.  Addresses wrap over the memory, and the four bytes of a
  word stay apart in any that holds a word (`PlacesApart`).  `And` is a sum over
  bits by a recursive function, and `Or` and `Xor` are what it leaves of a sum.
  An induction up to the width, over sets of numbers in the place of predicates
  (`InductionUpTo`), shows that a word is the sum of its bits (`WordIsSum`) and
  that a sum of noughts and ones has the bits it is made of (`SumBits`); so two
  words with one set of places are one word (`SameBits`), and `LogicExact` is about
  those sets.

- *Thumb.*  Inductive is `TranslatedRan`: the machine `c` is what the interpreter
  and `jit` what the emitted block makes of one state and one instruction.
  `Leads(code, junk, s, t)` says that a block takes the scratch state `s` to `t`.
  It holds of one instruction by the meaning of that instruction (`LeadsLdrPreg`,
  `LeadsData`, ...) and of two blocks one after the other if it holds of each, so a
  block is followed as it was emitted, piece by piece, and `Run` is never
  unrolled.  The pieces that emitters share have a lemma each: two operands
  brought to r0 and r1, the clock, the exit, and `emit_psw_flags`, after which PSW
  has Z and N of the APSR as Z and S (`StoresFlags`): the rotation that loses
  carry and overflow (section 7) does not disturb those two.  What the interpreter
  does is brought to the same form (`Gives`: a value in a register, two flags, the next
  pc and a clock), and the two meet in `Agrees`, group of instructions by group.
  `SETF` and `BCOND` compute the eight conditions from the bits of PSW by masks,
  shifts and exclusive ors; `Holds` states a condition as a number of those bits,
  `Finds` that code brings it to r1, `Tests` that code shows it in the flag Z.
  A shift by a register is taken modulo the width, and its block may clear CY
  afterwards, which leaves Z and S (`ClearsCarry`).  Loads and stores compute the aligned address of the interpreter
  (`AddressIs`), and a word goes by two halfwords: the second is at the next
  address because an aligned one does not wrap (`NextHalfword`).  What a callee
  leaves in r1 to r3 is any word; `LD_W` agrees in the register it loads when they
  are preserved, and otherwise holds there the right high halfword joined with
  that word (`WordLoadMatches`, `LeftIn`).

Only model-checked, and why:

- liveness (`FrameEnds`, `InterruptsAreTaken`, `TranslationEnds`,
  `EnabledTimerFires`, `ReadsEnd`, `DrawingEnds`, `EverySamplePlayed`): these need
  fairness and ENABLED, which the prover does not handle;
- `BitStringsWhole`: turns are RECURSIVE definitions over the words and bits of a
  string;
- `FloatsRounded`: products and quotients of significands, aligned and rounded by
  loops over their bits;
- `PictureExact`, `StateRestored`: recursive definitions over data (a line, a
  list of objects, a stream of sections) compared with others; `VipDraw` and
  `Video` use bit operations (`Bitwise`) besides, for which the prover has no
  theory.

## 7. Where code and comments disagree

With a run that shows it:

- **Eviction window** (`jit_stale_block`).  `jit_lookup` evicts what overlaps
  the next 512 halfwords, `jit_translate` may emit 48 instructions of up to 26
  halfwords: a later block overwrites one that stays cached.  The run uses the
  source's own sizes, with a smaller buffer.
- **Blocks without an exit** (`jit_fall_through`).  An instruction left to the
  interpreter ends the block without an exit.
- **HALT ends with any event** (`halt_cleared`).  `SetIdleHalt` overwrites
  `Halted` at every event, and so the halt of a fatal exception too.
- **Translated flags** (`jit_flags`).  The emitted code rotates the four flags
  over the whole register and masks the low bits, which loses carry and overflow
  (src/src/v810_jit.c:210).  `JitAgrees` therefore speaks of S and Z only.
- **Searching down** (`search_down`).  On the way down bit 0 of a word is read
  from the word below it (src/mednafen/hw_cpu/v810/v810_cpu.cpp:751).
  `BitStringsWhole` therefore speaks of upward searches only.

Met while modelling, with no run of their own:

- A block that starts in the last places before the wrap translates no instruction
  and is cached (src/src/v810_jit.c:499); the dispatcher runs it for ever at no
  clocks and `vb_run_frame` does not return.  `EmptyBlocksAtEnd` says where this
  happens, `EventLoop!EnterStuckBlock` what comes of it.
- `LD_W` keeps half of its result in a register that calls may clobber
  (src/src/v810_jit.c:977).  With `Junk` the model shows it and `JitAgrees` says
  what is lost; whether a build does depends on its compiler.
- Loads and stores of a translated block cost the clocks of a first access,
  since a block does not know `lastop`; `JitAgrees` leaves their clocks out.
- An instruction of two halfwords at the very end of a mapping takes its second
  half from the trampoline, where a read would go on in the mirror and the
  translator would read the cartridge's first halfword
  (src/mednafen/hw_cpu/v810/v810_cpu.cpp:339).  `MemoryWhole` says so.
- An affine line that does not rotate and lies off the maps is not drawn at all,
  where a rotating one would show the overplane character
  (src/mednafen/vb/vip_draw.inc:187); `PictureExact` takes it as it is.
- A load of a state that fails has overwritten the sections before the failing
  one (src/mednafen/state.c:430).
- `EventHandler`'s comment speaks of a silent VIP answering `VB_EVENT_NONONO`
  (src/src/vb_core.cpp:360); `VIP_Update` always answers with the next column.
- `NOTES.md` calls the JIT abandoned; src/src/vb_core.cpp:542 still installs it.
- `vb_audio_push` never looks at `ring_read`: a callback late by `RING_LEN`
  samples makes the ring look empty.
- With `InstantReadHack` the two bytes of the pad register may come from two
  frames (src/mednafen/vb/input.c:75).
- A sound channel that stops itself inside an update goes on with its envelope
  to the end of the batch (src/mednafen/vb/vsu.c:306), so the level it leaves
  for the next note depends on when the update ran.

## 8. Not modelled

- The accurate mode of the CPU and its instruction cache
  (`VB_V810_EMU_MODE_ACCURATE`), which this core never selects.
- Of softfloat.c, the functions and arms nothing reaches: subnormals,
  infinities, NaNs, square roots, doubles.
- Of the video: gamma, pixel formats, the packing of four pixels to a byte,
  `VB_SCANLINES` other than 0, and vb_display.c's dithering onto the Playdate
  screen.
- Sound levels, wave data, the noise register's bits, Blip_Buffer.
- main.c and vb_input.c: menus, the choice of a file and a table of buttons, all
  against the Playdate system, which has no source here.  The core's side of
  loading, `vb_load_rom_data` and `VB_Power`, is in `Memory`.
- The `StateAction`s of timer, pad and sound unit, which nothing calls.
- Cheats (replaced by a stub), settings, shims, libretro-common, the build.
- Memory ordering of the two threads: stores are visible in program order; the
  two indices are `volatile`, the samples are not.
