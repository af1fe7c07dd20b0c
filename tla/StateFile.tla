----------------------------- MODULE StateFile -----------------------------
(***************************************************************************)
(* Saved states, mednafen/state.c and the StateAction of vb_core.cpp and   *)
(* of v810_cpu.cpp.  A stream is a sequence of units with a place in it; a *)
(* name takes its letters and the size of a section or a variable one      *)
(* unit.                                                                   *)
(*                                                                         *)
(* A layout is the sequence of the sections that a program keeps, each     *)
(* with a name of SectionWidth letters and its variables: name, size and   *)
(* whether there is a place for it (the processor's cache has none in fast *)
(* mode).  mem gives each section's name a function from its variables'    *)
(* names to their units.                                                   *)
(*                                                                         *)
(* ReadVariableSloppy is a seeded fault: it stands for the definition      *)
(* after it in a run that must then fail.                                  *)
(***************************************************************************)
LOCAL INSTANCE Integers
LOCAL INSTANCE Sequences
LOCAL INSTANCE SequencesExt

SectionWidth == 2       \* 32 bytes
Magic == <<77, 1>>      \* the header of 32 bytes: "MDFNSVST", then the size

Stream(units) == [data |-> units, loc |-> 0, ok |-> TRUE, got |-> <<>>]

smem_read(st, n) ==
  IF n + st.loc > Len(st.data) THEN [st EXCEPT !.ok = FALSE, !.got = <<>>]
  ELSE [st EXCEPT !.ok = TRUE, !.got = SubSeq(st.data, st.loc + 1, st.loc + n), !.loc = @ + n]

smem_write(st, units) ==
  LET end == st.loc + Len(units)
  IN [st EXCEPT !.data = SubSeq(@, 1, st.loc) \o units \o SubSeq(@, end + 1, Len(@)), !.loc = end]

smem_seek(st, to) ==
  [st EXCEPT !.ok = to <= Len(st.data), !.loc = IF to > Len(st.data) THEN Len(st.data) ELSE to]

smem_write32le(st, b) == smem_write(st, <<b>>)
smem_read32le(st) == smem_read(st, 1)

-----------------------------------------------------------------------------
(* Saving. *)
SubWrite(st, vars, values) ==
  LET write(at, var) == IF var.size = 0 \/ ~var.placed THEN at
                        ELSE smem_write(smem_write32le(smem_write(at, <<Len(var.name)>> \o var.name), var.size),
                                        values[var.name])
  IN FoldLeft(write, st, vars)

WriteStateChunk(st, section, values) ==
  LET start == smem_write32le(smem_write(st, section.name), 0)
      end == SubWrite(start, section.vars, values)
  IN smem_seek(smem_write32le(smem_seek(end, start.loc - 1), end.loc - start.loc), end.loc)

-----------------------------------------------------------------------------
(* Loading.  The values read so far are a function values. *)
FindSF(name, vars) == {i \in DOMAIN vars : vars[i].size # 0 /\ vars[i].placed /\ vars[i].name = name}

(* The value of a variable: as many units as it has, or left out. *)
ReadVariableSloppy(st, values, vars, name, size) ==
  LET found == FindSF(name, vars)
      var == vars[CHOOSE i \in found : \A k \in found : i <= k]
      data == smem_read(st, var.size)
  IN IF found = {} THEN <<smem_seek(st, st.loc + size), values>>
     ELSE <<[data EXCEPT !.ok = TRUE], IF data.ok THEN [values EXCEPT ![name] = data.got] ELSE values>>

ReadVariable(st, values, vars, name, size) ==
  LET found == FindSF(name, vars)
      var == vars[CHOOSE i \in found : \A k \in found : i <= k]
      data == smem_read(st, var.size)
  IN IF found = {} \/ var.size # size THEN <<smem_seek(st, st.loc + size), values>>
     ELSE <<[data EXCEPT !.ok = TRUE], IF data.ok THEN [values EXCEPT ![name] = data.got] ELSE values>>

(* A variable whose units are missing is not an error by itself: what       *)
(* follows is read as the next variable.                                    *)
RECURSIVE ReadStateChunk(_, _, _, _)
ReadStateChunk(st, values, vars, end) ==
  IF st.loc >= end THEN <<[st EXCEPT !.ok = TRUE], values>>
  ELSE LET length == smem_read(st, 1)
           name == smem_read(length, length.got[1])
           size == smem_read32le(name)
           onward(read) == IF ~read[1].ok THEN read ELSE ReadStateChunk(read[1], read[2], vars, end)
       IN IF ~length.ok \/ ~name.ok THEN <<[st EXCEPT !.ok = FALSE], values>>
          ELSE onward(ReadVariable(size, values, vars, name.got, IF size.ok THEN size.got[1] ELSE 0))

(* Looks for the section from the stream's place on, and goes back there. *)
RECURSIVE FindSection(_, _, _, _)
FindSection(st, section, values, total) ==
  LET name == smem_read(st, SectionWidth)
      size == smem_read32le(name)
      sum == total + size.got[1] + SectionWidth + 1
      next == smem_seek(size, size.loc + size.got[1])
      back(read) == IF read[1].ok THEN <<smem_seek(read[1], read[1].loc - sum), read[2]>> ELSE read
  IN CASE ~name.ok -> <<[smem_seek(name, name.loc - total) EXCEPT !.ok = FALSE], values>>
       [] name.ok /\ ~size.ok -> <<size, values>>
       [] size.ok /\ name.got = section.name ->
              back(ReadStateChunk(size, values, section.vars, size.loc + size.got[1]))
       [] OTHER -> IF next.ok THEN FindSection(next, section, values, sum) ELSE <<next, values>>

MDFNSS_StateAction_internal(st, load, section, values) ==
  IF load THEN FindSection(st, section, values, 0)
  ELSE <<[WriteStateChunk(st, section, values) EXCEPT !.ok = TRUE], values>>
MDFNSS_StateAction(st, load, section, values) == MDFNSS_StateAction_internal(st, load, section, values)

-----------------------------------------------------------------------------
(* The sections in turn, whether or not one fails; all must be whole. *)
StateAction(st, load, layout, mem) ==
  LET kept(acc, name, one) == <<one[1], [acc[2] EXCEPT ![name] = one[2]], acc[3] /\ one[1].ok>>
      turn(acc, section) ==
          kept(acc, section.name, MDFNSS_StateAction(acc[1], load, section, acc[2][section.name]))
  IN FoldLeft(turn, <<st, mem, TRUE>>, layout)

MDFNSS_SaveSM(layout, mem) ==
  LET sized(st) == smem_write32le(smem_seek(st, 1), st.loc).data
  IN sized(StateAction(smem_write(Stream(<<>>), <<Magic[1], 0>>), FALSE, layout, mem)[1])

MDFNSS_LoadSM(file, layout, mem) ==
  LET header == smem_read(Stream(file), 2)
      answer(done) == <<done[3], done[2]>>
  IN IF ~header.ok \/ header.got[1] # Magic[1] THEN <<FALSE, mem>>
     ELSE answer(StateAction(header, TRUE, layout, mem))

-----------------------------------------------------------------------------
(* The time of the next event around a saved state, and the limits that a  *)
(* wrong one meets; Never is 0x7FFFFFFF.                                   *)
NextEventDelta(next_event_ts, timestamp) == next_event_ts - timestamp
NextEventAfter(delta, timestamp, Never) ==
  LET late == IF timestamp + delta > Never THEN Never ELSE timestamp + delta
  IN IF late < timestamp THEN timestamp ELSE late
=============================================================================
