----------------------------- MODULE MCConsole -----------------------------
(***************************************************************************)
(* The parts of the console around the processor, for TLC, one at a time:  *)
(* a picture drawn from the video memory; frames with register writes,     *)
(* settings and loaded states between them; a field of columns in each of  *)
(* the 3D modes; writes, reads and fetches through the memory map; states  *)
(* saved by one layout of sections and loaded by another.                  *)
(***************************************************************************)
EXTENDS MCCpu, Video, Bus, Cartridge, StateFile, FiniteSets, Sequences

ASSUME DrawAssumption

VARIABLES v, surface, block,            \* the picture
          saved, loaded                 \* a saved state and what loading it gave
picture == <<v, surface, block>>
cpu == <<c, was, job, jit>>
console == <<picture, memory, saved, loaded>>

------------------------------------------------------------------------------
(* The video memory: characters without symmetry, a map of all of them. *)
Characters == [n \in 0..3 |-> [y \in 0 .. Tile - 1 |-> [x \in 0 .. Tile - 1 |-> ((n * (x + 2 * y)) + (x * y)) % 4]]]
CellOf(n) == [char |-> ((n * n) + (n \div 5)) % 4, hflip |-> n % 2 = 1, vflip |-> n % 3 = 1, pal |-> n % 4]
CellMap == [n \in 0 .. 16 * Cells * Cells - 1 |-> CellOf(n)]
AffineRows == [k \in 0 .. Rows - 1 |->
    [mx |-> 8 * k + 3, mp |-> k - 3, my |-> 16 * k - 40, dx |-> 512 - 100 * k, dy |-> IF k % 2 = 0 THEN 0 ELSE 60 * k - 200]]
Sprites == [n \in 0 .. Objects - 1 |->
    [jx |-> (5 * n + 1020) % 1024, jp |-> n % 3, jy |-> (3 * n + 254) % 256, cell |-> CellOf(n + 1),
     lron |-> [lr \in 0..1 |-> n % 4 # lr]]]

World(bgm) == [bgm |-> bgm, end |-> FALSE, over |-> FALSE, base |-> 0, scx |-> 0, scy |-> 0, char |-> 7,
               gx |-> 0, gp |-> 0, gy |-> 0, mx |-> 0, mp |-> 0, my |-> 0, width |-> Screen, height |-> 7,
               lron |-> [lr \in 0..1 |-> TRUE]]
End == [World(0) EXCEPT !.end = TRUE]

Power == [VB3DMode |-> "ANAGLYPH", VB3DReverse |-> 0, VBPrescale |-> 1, VBSBS_Separation |-> 0,
          Anaglyph_Colors |-> [lr \in 0..1 |-> IF lr = 0 THEN Channels ELSE {}], Default_Color |-> Channels,
          ParallaxDisabled |-> FALSE, InstantDisplayHack |-> TRUE, AllowDrawSkip |-> TRUE,
          VidSettingsDirty |-> TRUE, Playdate |-> TRUE, Copy |-> "none", DisplayActive |-> TRUE,
          ColorLUT |-> [lr \in 0..1 |-> {}], BrightnessCache |-> Zeros,
          BrightCLUT |-> [lr \in 0..1 |-> [k \in 0..3 |-> Black]],
          BRTA |-> 0, BRTB |-> 0, BRTC |-> 0, REST |-> 0, Repeat |-> 0, SPT |-> Zeros, BKCOL |-> 0,
          GPLT |-> Zeros, JPLT |-> Zeros, gplt |-> [k \in 0..3 |-> Zeros], jplt |-> [k \in 0..3 |-> Zeros],
          chr |-> Characters, cells |-> CellMap, rows |-> AffineRows, bias |-> [n \in 0 .. 2 * Rows - 1 |-> n - 5],
          oam |-> Sprites, worlds |-> [n \in 0 .. Worlds - 1 |-> End],
          ct |-> [lr \in 0..1 |-> [n \in 0 .. Screen \div 4 |-> 0]],
          AnaSlowBuf |-> [x \in Visible |-> [y \in 0 .. Height - 1 |-> 0]],
          FB |-> [lr \in 0..1 |-> [x \in Visible |-> [y \in 0 .. Height - 1 |-> 0]]]]
NoSurface == [p \in {} |-> Black]
Nothing == [none |-> TRUE]
ConsoleInit ==
        /\ Init /\ v = Power /\ surface = NoSurface /\ block = 0
        /\ BusInit /\ saved = Nothing /\ loaded = Nothing

Palettes4(on) == [on EXCEPT !.GPLT = [k \in 0..3 |-> <<228, 108, 200, 56>>[k + 1]],
                            !.JPLT = [k \in 0..3 |-> <<144, 228, 76, 180>>[k + 1]]]
Ready(on) == StartFrame(VIP_StateAction(Palettes4(on), [BRTA |-> 3, BRTB |-> 5, BRTC |-> 7]), TRUE)

------------------------------------------------------------------------------
(* A picture of every kind of world between two groups of objects. *)
Scene(w, third) ==
    [Power EXCEPT !.Playdate = FALSE, !.BKCOL = 1, !.SPT = [k \in 0..3 |-> <<2, 3, third, 6>>[k + 1]],
        !.Anaglyph_Colors = [lr \in 0..1 |-> Channels],
        !.worlds = [n \in 0 .. Worlds - 1 |-> CASE n = Worlds - 1 -> World(3)
                                                [] n = Worlds - 2 -> w
                                                [] n = Worlds - 3 -> [World(3) EXCEPT !.lron[1] = FALSE]
                                                [] OTHER -> End]]

DrawScene ==
    /\ "scene" \in Kinds /\ stage = "idle" /\ stage' = "drawn" /\ block' \in 0 .. Blocks - 1
    /\ \E bgm \in 0..2, sc \in 0..1, over \in BOOLEAN, at_x \in {<<1, 3>>, <<1, 2040>>, <<2043, 10>>}, gp \in {0, 511}, mx \in {3, 254},
          gy \in {2, 2047} :
           LET w == [World(bgm) EXCEPT !.scx = sc, !.scy = 1 - sc, !.over = over, !.gx = at_x[1], !.gp = gp, !.gy = gy,
                                       !.mx = mx, !.mp = gp, !.my = 2 * mx + gy, !.width = at_x[2], !.height = 9 - at_x[2],
                                       !.base = mx % 4]
           IN v' = DrawnToFB(Ready(Scene(w, 3 + (gp % 3))), block', FALSE)
    /\ UNCHANGED surface

------------------------------------------------------------------------------
(* Frames on the Playdate. *)
Settle == Ready([Power EXCEPT !.worlds = Scene(World(0), 4).worlds, !.SPT = Scene(World(0), 4).SPT])
StartRunning == /\ "frames" \in Kinds /\ stage = "idle" /\ stage' = "run"
                /\ v' = Settle /\ surface' = Cleared([Settle EXCEPT !.VidSettingsDirty = TRUE], NoSurface)
                /\ UNCHANGED block

Values == {<<"BRTA", 0, 9>>, <<"BRTC", 0, 30>>, <<"REST", 0, 3>>, <<"GPLT", 1, 27>>, <<"JPLT", 2, 99>>, <<"SPT", 3, 1029>>}
Access == /\ stage = "run" /\ UNCHANGED <<stage, surface, block>>
          /\ \E r \in Values : \/ v' = WriteRegister(v, r[1], r[2], r[3])
                               \/ v' = VIP_SetRegister(v, r[1], r[2], r[3])
LoadState == /\ stage = "run" /\ UNCHANGED <<stage, surface, block>>
             /\ v' = VIP_StateAction(v, [Unset EXCEPT !.BRTA = 4, !.Repeat = 2, !.GPLT[2] = 120])
NextColumns == /\ stage = "run" /\ UNCHANGED <<stage, surface, block>>
               /\ \E n \in {0, 1, 255} : v' = DisplayEye([v EXCEPT !.ct[0][0] = n, !.ct[0][1] = n, !.ct[0][2] = n],
                                                          surface, 0, FALSE)[1]
\* Another cartridge: power, settings, and the first frame of a new format.
Reload == /\ stage = "run" /\ UNCHANGED <<stage, block>>
          /\ LET fresh == VIP_SetDefaultColor(VIP_SetAnaglyphColors(VIP_Power(v), Channels, {}), Channels)
             IN v' = StartFrame(fresh, TRUE) /\ surface' = Cleared(fresh, surface)
DrawFrame == /\ stage = "run" /\ stage' = "painted" /\ block' \in 0 .. Blocks - 1
             /\ surface' = DrawnToSurface(v, surface, block', FALSE) /\ UNCHANGED v

------------------------------------------------------------------------------
(* A field in each of the 3D modes. *)
Buffer == [lr \in 0..1 |-> [x \in Visible |-> [y \in 0 .. Height - 1 |-> (x + 3 * y + lr + (x * y) \div 4) % 4]]]
DisplayField ==
    /\ "modes" \in Kinds /\ stage = "idle" /\ stage' = "shown" /\ UNCHANGED block
    /\ \E mode \in {"ANAGLYPH", "CSCOPE", "SIDEBYSIDE", "VLI", "HLI"}, reverse \in 0..1, prescale \in {1, 5},
          left \in {{"r"}, Channels}, right \in {{}, {"r", "g"}}, hack \in BOOLEAN :
        /\ mode = "ANAGLYPH" \/ (left = Channels /\ right = {})
        /\ LET set == VIP_SetAnaglyphColors(VIP_Set3DMode([Power EXCEPT !.FB = Buffer, !.Playdate = FALSE,
                          !.BRTA = 3, !.BRTB = 9, !.BRTC = 20, !.InstantDisplayHack = hack, !.DisplayActive = (reverse = 0 \/ hack),
                          !.ct = [lr \in 0..1 |-> [n \in 0 .. Screen \div 4 |-> n % 2]]], mode, reverse, prescale, 2),
                          left, right)
               begun == StartFrame(set, FALSE)
               clear == Cleared(set, NoSurface)
               one == DisplayEye(begun, clear, 0, FALSE)
               two == DisplayEye(one[1], one[2], 1, FALSE)
               all == IF hack THEN InstantDisplay(begun, clear, FALSE) ELSE two
           IN v' = all[1] /\ surface' = all[2]

------------------------------------------------------------------------------
(* Writes of bytes and halfwords, in the mirrors as well, and fetches across *)
(* the ends of the mappings.                                                 *)
Mirrored(a) == a - 2^27
CartridgeSizes == {size \in {100, 128, 256, 768, 131072, 2^24, 2^25} : Accepted(size)}
WrittenAddresses == {Start(5), Start(5) + 65534, Mirrored(Start(5) + 65536), Start(6) + 65534, Start(7) + 4, 24576, 57346, 90112, 122880,
                     98302, 32768, 65536, 262142, 458754, 495616, 507904, 327680, Start(2) + 36, Start(1)}
ReadAddresses == WrittenAddresses \cup {491520, 499714, 499712, 24578, 122882, 131070, 131072, Start(3), Mirrored(65536),
                     Mirrored(Start(6) + 131070), Start(6) + 65535, Start(7), Start(7) + 65540, -16, -2, Mirrored(Mirrored(Start(5)))}
WrittenHalfwords == {<<34, 51>>}
JumpTargets == {-16, Start(5) + 65532, Start(5) - 4, Mirrored(Start(6)) - 4, Start(7) + 131068, Start(4)}

LoadCartridge == "memory" \in Kinds /\ stage = "idle" /\ stage' = "memory" /\ Insert
\* A program that goes on from where it starts has written to region 5 alone.
UseMemory == /\ stage = "memory" /\ UNCHANGED stage
             /\ WriteByte \/ WriteHalfword \/ JumpTo \/ Fetch
             /\ at'.pc = -16 \/ \A p \in DOMAIN flat' : Region(p) = 5

------------------------------------------------------------------------------
(* A state saved by a program whose sections and variables are not quite   *)
(* those of the program that loads it.                                     *)
Var(name, size) == [name |-> name, size |-> size, placed |-> TRUE]
MAIN == <<1, 1>>    V810 == <<2, 1>>    VSU == <<3, 1>>
PC == <<4>>         DELTA == <<5>>      TS == <<6, 6>>      CACHE == <<7>>     RAM == <<1, 1>>
Current == <<[name |-> MAIN, vars |-> <<Var(RAM, 3), Var(<<8>>, 0), Var(TS, 1)>>],
             [name |-> V810, vars |-> <<Var(PC, 1), [Var(CACHE, 2) EXCEPT !.placed = FALSE], Var(DELTA, 1)>>],
             [name |-> VSU, vars |-> <<Var(TS, 1), Var(RAM, 2)>>]>>
Never == 50
Older == {Current[1].vars, <<Var(TS, 1), Var(RAM, 3)>>, <<Var(RAM, 2), Var(TS, 1)>>, <<Var(RAM, 4), Var(<<9, 9>>, 2), Var(TS, 1)>>}
Others == {Current[2].vars, <<Var(PC, 1), Var(CACHE, 2), Var(DELTA, 1)>>}
Contents(layout, base) ==
    [s \in {layout[i].name : i \in DOMAIN layout} |->
        LET section == layout[CHOOSE i \in DOMAIN layout : layout[i].name = s]
        IN [x \in {section.vars[i].name : i \in DOMAIN section.vars} |->
              LET size == section.vars[CHOOSE i \in DOMAIN section.vars : section.vars[i].name = x].size
              IN [k \in 1 .. size |-> base + 10 * s[1] + 3 * x[1] + k]]]

SaveThenLoad ==
    /\ "state" \in Kinds /\ stage = "idle" /\ stage' = "loaded" /\ UNCHANGED <<picture, memory>>
    /\ \E main \in Older, processor \in Others, order \in {<<1, 2, 3>>, <<3, 4, 2, 1>>, <<4, 1, 2, 3>>, <<2, 3>>}, cut \in 0..16,
          next \in {3, 20, Never}, then \in {3, 40} :
        LET sections == <<[name |-> MAIN, vars |-> main], [name |-> V810, vars |-> processor], Current[3],
                          [name |-> <<9, 1>>, vars |-> <<Var(TS, 2)>>]>>
            layout == [i \in DOMAIN order |-> sections[order[i]]]
            old == [Contents(layout, 100) EXCEPT ![V810][DELTA] = <<NextEventDelta(next, 3)>>]
            now == Contents(Current, 200)
            short(file) == SubSeq(file, 1, Len(file) - cut)
            outcome(result) == [ok |-> result[1], before |-> now, mem |-> result[2], ts |-> then,
                                next |-> NextEventAfter(result[2][V810][DELTA][1], then, Never)]
        IN /\ saved' = [layout |-> layout, mem |-> old, whole |-> cut = 0, next |-> next]
           /\ loaded' = outcome(MDFNSS_LoadSM(short(MDFNSS_SaveSM(layout, old)), Current, now))

FinishPart == /\ stage \in {"drawn", "painted", "shown", "memory", "loaded"} /\ stage' = "idle"
          /\ v' = Power /\ surface' = NoSurface /\ block' = 0
          /\ mem' = Fresh(0) /\ at' = FastMap(Fresh(0), -16) /\ flat' = [p \in {} |-> 0] /\ saved' = Nothing /\ loaded' = Nothing

PartNext ==
        \/ /\ DrawScene \/ StartRunning \/ Access \/ LoadState \/ NextColumns \/ Reload \/ DrawFrame \/ DisplayField
           /\ UNCHANGED <<memory, saved, loaded>>
        \/ /\ LoadCartridge \/ UseMemory
           /\ UNCHANGED <<picture, saved, loaded>>
        \/ SaveThenLoad \/ FinishPart
ConsoleNext == (Next /\ UNCHANGED console) \/ (PartNext /\ UNCHANGED cpu)
ConsoleSpec == ConsoleInit /\ [][ConsoleNext]_<<vars, console>>

------------------------------------------------------------------------------
(* A pixel at a time, from the registers. *)
Clear == -1
ColourOf(register, cell, sx, sy) ==
    LET t == Texel(v, cell, sx, sy) IN IF t = 0 THEN Clear ELSE PaletteOf(register[cell.pal])[t]
Eye(lr, n) == IF v.ParallaxDisabled THEN 0 ELSE IF lr = 1 THEN Sign(9, n) ELSE -Sign(9, n)
FromMaps(w, px, py, plane) ==
    LET size(k) == Map * 2^k
        sx == px % (IF w.over THEN plane ELSE size(w.scx))
        sy == py % (IF w.over THEN plane ELSE size(w.scy))
    IN IF sx < size(w.scx) /\ sy < size(w.scy) THEN ColourOf(v.GPLT, MapCell(v, w.base, w.scx, sx, sy), sx, sy)
       ELSE ColourOf(v.GPLT, v.cells[w.char], sx, sy)
\* A line that does not rotate and lies off the maps is not drawn at all.
LostLine(w, p, plane) == p.dy = 0 /\ w.over /\ (p.my \div 8) % plane >= Map * 2^w.scy

OfWorld(w, lr, x, y, group) ==
    LET gy == Sign(11, w.gy)
        first == Sign(10, Sign(11, w.gx) + Eye(lr, w.gp))
        inside == x >= first /\ x <= first + U16(Sign(11, w.width)) /\ U16(y - gy) <= w.height % 1024
        p == v.rows[(y - gy) % Rows]
        along == (x - first) + IF (p.mp >= 0) = (lr = 1) THEN LET m == p.mp IN IF m < 0 THEN -m ELSE m ELSE 0
        bias == IF w.bgm = 1 THEN v.bias[((y - gy) * 2 + lr) % (2 * Rows)] ELSE 0
        ahead == (v.SPT[group] - (IF group = 0 THEN Objects - 1 ELSE v.SPT[group - 1])) % Objects
        drawn == [n \in 0 .. (IF ahead = 0 THEN Objects ELSE ahead) - 1 |-> v.oam[(v.SPT[group] - n) % Objects]]
        ofObject(o) == LET ox == Sign(10, o.jx + IF lr = 1 THEN o.jp ELSE -o.jp)   oy == (y - o.jy) % 256
                       IN IF o.lron[lr] /\ oy < Tile /\ x \in ox .. ox + Tile - 1 THEN ColourOf(v.JPLT, o.cell, x - ox, oy)
                          ELSE Clear
        hits == {n \in DOMAIN drawn : ofObject(drawn[n]) # Clear}
    IN CASE ~w.lron[lr] -> Clear
         [] w.bgm = 3 -> IF w.lron[lr] /\ hits # {} THEN ofObject(drawn[CHOOSE n \in hits : \A k \in hits : k <= n]) ELSE Clear
         [] w.bgm # 3 /\ ~inside -> Clear
         [] w.bgm = 2 -> IF LostLine(w, p, 256 * Map) THEN Clear
                         ELSE FromMaps(w, (p.mx * 64 + p.dx * along) \div 512, (p.my * 64 + p.dy * along) \div 512, 256 * Map)
         [] OTHER -> FromMaps(w, (w.mx + Eye(lr, w.mp) + bias) + (x - first), w.my + (y - gy), 16 * Map)

ShadeAt(lr, x, y) ==
    LET alive == {n \in 0 .. Worlds - 1 : \A e \in n .. Worlds - 1 : ~v.worlds[e].end}
        group(n) == GreaterOf(0, 3 - Cardinality({k \in alive : k > n /\ v.worlds[k].bgm = 3}))
        hits == {n \in alive : OfWorld(v.worlds[n], lr, x, y, group(n)) # Clear}
        top == CHOOSE n \in hits : \A k \in hits : n <= k
    IN IF hits = {} THEN v.BKCOL ELSE OfWorld(v.worlds[top], lr, x, y, group(top))

\* The part of MaxTime during which a shade is lit, moment by moment.
LevelOf(k, repeat) ==
    LET round == v.BRTA + v.BRTB + v.BRTC + v.REST + 5
        on(u) == CASE k = 1 -> u \in 0 .. v.BRTA - 1
                   [] k = 2 -> u \in v.BRTA + 1 .. v.BRTA + v.BRTB
                   [] k = 3 -> u \in 1 .. v.BRTA + v.BRTB + v.BRTC
                   [] OTHER -> FALSE
    IN (255 * Cardinality({t \in 0 .. MaxTime - 1 : t \div round <= repeat /\ on(t % round)})) \div MaxTime

\* What a position of the surface shows: the sum over the eyes in an anaglyph,
\* elsewhere the pixel of the eye that the position belongs to.
ShownAt(X, Y) ==
    LET level(lr, x, y) == IF v.DisplayActive THEN LevelOf(v.FB[lr][x][y], v.ct[lr][x \div 4]) ELSE 0
        eye(second) == IF second THEN 1 - v.VB3DReverse ELSE v.VB3DReverse
        one(lr, x, y) == IF x \in Visible /\ y \in 0 .. Height - 1 THEN Shade(v.Default_Color, level(lr, x, y)) ELSE Black
        colour(lr) == v.Anaglyph_Colors[(lr + v.VB3DReverse) % 2]
        width == DisplayRect(v)[1]
        P == 2 * v.VBPrescale
    IN CASE v.VB3DMode = "ANAGLYPH" ->
                [k \in Channels |-> LesserOf(255, Shade(colour(0), level(0, X, Y))[k] + Shade(colour(1), level(1, X, Y))[k])]
         [] v.VB3DMode = "SIDEBYSIDE" -> IF X < Screen THEN one(eye(FALSE), X, Y)
                                         ELSE one(eye(TRUE), (X - Screen) - v.VBSBS_Separation, Y)
         [] v.VB3DMode = "VLI" -> one(eye(X % 2 = 1), X \div P, Y)
         [] v.VB3DMode = "HLI" -> one(eye(Y % 2 = 1), X, Y \div P)
         [] v.VB3DMode = "CSCOPE" -> IF 2 * X < width THEN one(eye(FALSE), (Screen - 1) - Y, X - Margin)
                                     ELSE one(eye(TRUE), Y, (width - Margin - 1) - X)

\* What is drawn, eight pixels at a time and from cached palettes, is the
\* picture that the worlds, maps, objects and registers define pixel by pixel; on
\* the surface it has the brightness that the registers define, after any order
\* of register writes, column tables, loaded states and a new cartridge; and each
\* 3D mode puts every pixel of both eyes in its place (vip_draw.inc, vip.c).
PictureExact ==
    /\ stage = "drawn" => \A lr \in 0..1, x \in Visible, y \in block * Tile .. (block * Tile + Tile) - 1 :
                              v.FB[lr][x][y] = ShadeAt(lr, x, y)
    /\ stage = "painted" => \A x \in Visible, y \in block * Tile .. (block * Tile + Tile) - 1 :
                              surface[x, y] = Shade(v.Anaglyph_Colors[0], LevelOf(ShadeAt(0, x, y), v.Repeat))
    /\ stage = "shown" => DOMAIN surface = Area(v) /\ \A p \in Area(v) : surface[p] = ShownAt(p[1], p[2])

------------------------------------------------------------------------------
\* A state is accepted when every section of the program is whole in it. Then a
\* variable that it has at the program's size has the saved value, any other
\* keeps its own, and the next event is as far off as it was, or at the limit
\* (state.c, v810_cpu.cpp).
StateRestored ==
    stage = "loaded" =>
      LET names == {saved.layout[i].name : i \in DOMAIN saved.layout}
          kept(s, x) == \E i \in DOMAIN saved.layout : saved.layout[i].name = s
                           /\ \E k \in DOMAIN saved.layout[i].vars : saved.layout[i].vars[k].name = x
                                 /\ saved.layout[i].vars[k].size = Len(loaded.before[s][x])
      IN /\ saved.whole => loaded.ok = (\A i \in DOMAIN Current : Current[i].name \in names)
         /\ ~saved.whole => ~loaded.ok
         /\ loaded.next \in loaded.ts .. Never
         /\ loaded.ok => \A i \in DOMAIN Current : \A k \in DOMAIN Current[i].vars :
               LET s == Current[i].name   x == Current[i].vars[k].name
               IN loaded.mem[s][x] = IF kept(s, x) /\ Current[i].vars[k].placed THEN saved.mem[s][x] ELSE loaded.before[s][x]
         /\ loaded.ok => loaded.next - loaded.ts = LesserOf(saved.next - 3, Never - loaded.ts)
=============================================================================
