------------------------------- MODULE Video -------------------------------
(***************************************************************************)
(* How drawn pixels become colours of the surface, mednafen/vb/vip.c:      *)
(* palette and brightness registers with the caches made from them, the    *)
(* settings and colour tables, the copy of a finished block and of a       *)
(* displayed column in each of the 3D modes.                               *)
(*                                                                         *)
(* A colour gives each channel a level; gamma is left out.  FB is the      *)
(* frame buffer drawn and displayed, its pixels not packed in bytes; which *)
(* of the two that is, is the subject of Vip.  v.Playdate tells the builds *)
(* with TARGET_PLAYDATE from the others.                                   *)
(***************************************************************************)
EXTENDS VipDraw

LOCAL INSTANCE FiniteSetsExt
LOCAL INSTANCE Bitwise

CONSTANTS Blocks,   \* 28
          Margin,   \* 16: at the sides of the CyberScope picture
          MaxTime   \* 128: the time a column is lit

Height == Blocks * Tile
Channels == {"r", "g", "b"}
Shade(colour, level) == [c \in Channels |-> IF c \in colour THEN level ELSE 0]
Black == Shade({}, 0)

-----------------------------------------------------------------------------
(* Tables and caches. *)
(* ColorLUT and ColorLUTNoGC: the colours they were made for. *)
MakeColorLUT(v) ==
  [v EXCEPT !.ColorLUT = [lr \in 0..1 |-> IF v.VB3DMode = "ANAGLYPH" THEN v.Anaglyph_Colors[(lr + v.VB3DReverse) % 2]
                                          ELSE v.Default_Color]]
AnaSlowColorLUT(v, l, r) ==
  [c \in Channels |-> LesserOf(255, Shade(v.ColorLUT[0], l)[c] + Shade(v.ColorLUT[1], r)[c])]

(* The time that shade k is lit: Repeat + 1 rounds of the three pulses, of *)
(* which what lies after MaxTime is cut off.                               *)
RecalcBrightnessCache(v) ==
  LET round == v.BRTA + v.BRTB + v.BRTC + v.REST + 5
      cut(from, to) == GreaterOf(0, LesserOf(to, MaxTime) - from)
      lit(k, t) == CASE k = 1 -> cut(t, t + v.BRTA)
                     [] k = 2 -> cut(t + v.BRTA + 1, t + v.BRTA + 1 + v.BRTB)
                     [] k = 3 -> cut(t + 1, t + v.BRTA + v.BRTB + v.BRTC + 1)
                     [] OTHER -> 0
      starts == {i * round : i \in {i \in 0 .. v.Repeat : i * round < MaxTime}}
      level == [k \in 0..3 |-> (255 * MapThenSumSet(LAMBDA t : lit(k, t), starts)) \div MaxTime]
  IN [v EXCEPT !.BrightnessCache = level,
               !.BrightCLUT = [lr \in 0..1 |-> [k \in 0..3 |-> Shade(v.ColorLUT[lr], level[k])]]]

PaletteOf(value) == [i \in 0..3 |-> (value \div 4^i) % 4]
RecalcPalette(v, k) == [v EXCEPT !.gplt[k] = PaletteOf(v.GPLT[k]), !.jplt[k] = PaletteOf(v.JPLT[k])]

Recalc3DModeStuff(v) ==
  LET slow == v.Anaglyph_Colors[0] \intersect v.Anaglyph_Colors[1] # {}
  IN RecalcBrightnessCache([v EXCEPT !.Copy = IF v.VB3DMode = "ANAGLYPH" /\ slow THEN "ANAGLYPH_SLOW" ELSE v.VB3DMode])

-----------------------------------------------------------------------------
(* Registers and settings. *)
Brightness == {"BRTA", "BRTB", "BRTC", "REST"}
Palettes == {"GPLT", "JPLT"}

WriteRegister(v, reg, k, V) ==
  CASE reg \in Brightness -> RecalcBrightnessCache([v EXCEPT ![reg] = V % 256])
    [] reg \in Palettes -> RecalcPalette([v EXCEPT ![reg][k] = (V % 256) - (V % 4)], k)
    [] reg = "SPT" -> [v EXCEPT !.SPT[k] = V % 1024]
    [] reg = "BKCOL" -> [v EXCEPT !.BKCOL = V % 4]

(* The debugger's access does the same to these registers. *)
VIP_SetRegister(v, reg, k, V) == WriteRegister(v, reg, k, V)

ReadRegister(v, reg, k) == IF reg \in Palettes \cup {"SPT"} THEN v[reg][k] ELSE v[reg]
VIP_GetRegister(v, reg, k) == ReadRegister(v, reg, k)

Zeros == [k \in 0..3 |-> 0]
Unset == [BRTA |-> 0, BRTB |-> 0, BRTC |-> 0, REST |-> 0, Repeat |-> 0,
          GPLT |-> Zeros, JPLT |-> Zeros, SPT |-> Zeros, BKCOL |-> 0]

Replaced(v, regs) == [f \in DOMAIN v |-> IF f \in DOMAIN regs THEN regs[f] ELSE v[f]]
RECURSIVE RecalcPalettes(_, _)
RecalcPalettes(v, k) == IF k = 4 THEN v ELSE RecalcPalettes(RecalcPalette(v, k), k + 1)

(* Brightness is not recalculated: StartFrame does so for a new video format. *)
VIP_Power(v) == RecalcPalettes(Replaced(v, Unset), 0)

VIP_StateAction(v, regs) == RecalcPalettes(RecalcBrightnessCache(Replaced(v, regs)), 0)

VIP_Set3DMode(v, mode, reverse, prescale, separation) ==
  [v EXCEPT !.VB3DMode = mode, !.VB3DReverse = reverse, !.VBPrescale = prescale, !.VBSBS_Separation = separation,
            !.VidSettingsDirty = TRUE]
VIP_SetParallaxDisable(v, disabled) == [v EXCEPT !.ParallaxDisabled = disabled]
VIP_SetDefaultColor(v, colour) == [v EXCEPT !.Default_Color = colour, !.VidSettingsDirty = TRUE]
VIP_SetAnaglyphColors(v, l, r) == [v EXCEPT !.Anaglyph_Colors = [lr \in 0..1 |-> IF lr = 0 THEN l ELSE r], !.VidSettingsDirty = TRUE]

-----------------------------------------------------------------------------
(* A frame begins. *)
DisplayRect(v) ==
  CASE v.VB3DMode = "VLI" -> <<2 * Screen * v.VBPrescale, Height>>
    [] v.VB3DMode = "HLI" -> <<Screen, 2 * Height * v.VBPrescale>>
    [] v.VB3DMode = "CSCOPE" -> <<2 * (Height + 2 * Margin), Screen>>
    [] v.VB3DMode = "SIDEBYSIDE" -> <<2 * Screen + v.VBSBS_Separation, Height>>
    [] OTHER -> <<Screen, Height>>
Area(v) == (0 .. DisplayRect(v)[1] - 1) \X (0 .. DisplayRect(v)[2] - 1)

StartFrame(v, changed) ==
  LET made == IF changed \/ v.VidSettingsDirty THEN Recalc3DModeStuff(MakeColorLUT(v)) ELSE v
  IN [made EXCEPT !.VidSettingsDirty = FALSE]
Cleared(v, s) == IF v.VidSettingsDirty THEN [p \in Area(v) |-> Black] ELSE s

-----------------------------------------------------------------------------
(* A block is finished: to the surface on the Playdate, else to the buffer. *)
Skipped(v, skip) == skip /\ v.InstantDisplayHack /\ v.AllowDrawSkip

DrawnToSurface(v, s, block, skip) ==
  LET lines == VIP_DrawBlock(v, block)
  IN IF Skipped(v, skip) \/ ~v.Playdate THEN s
     ELSE [p \in DOMAIN s |-> IF p[2] \div Tile = block THEN v.BrightCLUT[0][lines[p[2] % Tile][0][p[1]]] ELSE s[p]]

DrawnToFB(v, block, skip) ==
  LET lines == VIP_DrawBlock(v, block)
      kept(lr) == lr = 1 /\ v.Anaglyph_Colors[1] = {}
  IN IF Skipped(v, skip) \/ v.Playdate THEN v
     ELSE [v EXCEPT !.FB = [lr \in 0..1 |-> [x \in Visible |-> [y \in 0 .. Height - 1 |->
              IF y \div Tile # block \/ kept(lr) THEN v.FB[lr][x][y] ELSE lines[y % Tile][lr][x]]]]]

-----------------------------------------------------------------------------
(* A column of an eye is displayed. *)
Pixel(v, lr, col, y) == v.FB[lr][col][y]
Lit(v, colours, shade) == IF v.DisplayActive THEN colours[shade] ELSE Black

(* The surface with colour(y) at every place(y). *)
Put(s, place(_), colour(_)) ==
  [p \in DOMAIN s |-> LET ys == {y \in 0 .. Height - 1 : p \in place(y)}
                      IN IF ys = {} THEN s[p] ELSE colour(CHOOSE y \in ys : TRUE)]

Anaglyph(v, s, col, lr) ==
  LET at(y) == {<<col, y>>}
      mine(y) == Lit(v, v.BrightCLUT[lr], Pixel(v, lr, col, y))
      both(y) == [c \in Channels |-> s[col, y][c] | mine(y)[c]]
      unlit == \A k \in 1..3 : v.BrightCLUT[1][k] = Black
  IN IF lr = 0 THEN Put(s, at, mine) ELSE IF unlit THEN s ELSE Put(s, at, both)

Levels(v, col, lr) == [y \in 0 .. Height - 1 |-> IF v.DisplayActive THEN v.BrightnessCache[Pixel(v, lr, col, y)] ELSE 0]
AnaglyphSlow(v, s, col) ==
  LET at(y) == {<<col, y>>}
      sum(y) == AnaSlowColorLUT(v, v.AnaSlowBuf[col][y], Levels(v, col, 1)[y])
  IN Put(s, at, sum)

CScope(v, s, col, lr, dest) ==
  LET at(y) == {IF dest = 1 THEN <<DisplayRect(v)[1] - Margin - 1 - y, col>> ELSE <<Margin + y, Screen - 1 - col>>}
      mine(y) == Lit(v, v.BrightCLUT[lr], Pixel(v, lr, col, y))
  IN Put(s, at, mine)

SideBySide(v, s, col, lr, dest) ==
  LET at(y) == {<<col + IF dest = 1 THEN Screen + v.VBSBS_Separation ELSE 0, y>>}
      mine(y) == Lit(v, v.BrightCLUT[lr], Pixel(v, lr, col, y))
  IN Put(s, at, mine)

VLI(v, s, col, lr, dest) ==
  LET at(y) == {<<col * 2 * v.VBPrescale + dest + 2 * ps, y>> : ps \in 0 .. v.VBPrescale - 1}
      mine(y) == Lit(v, v.BrightCLUT[0], Pixel(v, lr, col, y))
  IN Put(s, at, mine)

(* HLILUT repeats each pixel of a byte as the loop beyond a prescale of 4 does. *)
HLI(v, s, col, lr, dest) ==
  LET at(y) == {<<col, dest + 2 * (y * v.VBPrescale + ps)>> : ps \in 0 .. v.VBPrescale - 1}
      mine(y) == Lit(v, v.BrightCLUT[0], Pixel(v, lr, col, y))
  IN Put(s, at, mine)

CopyFBColumnToTarget(v, s, col, lr) ==
  LET dest == (lr + v.VB3DReverse) % 2
  IN CASE v.Copy = "ANAGLYPH_SLOW" -> IF lr = 0 THEN s ELSE AnaglyphSlow(v, s, col)
       [] v.Copy = "CSCOPE" -> CScope(v, s, col, lr, dest)
       [] v.Copy = "SIDEBYSIDE" -> SideBySide(v, s, col, lr, dest)
       [] v.Copy = "VLI" -> VLI(v, s, col, lr, dest)
       [] v.Copy = "HLI" -> HLI(v, s, col, lr, dest)
       [] OTHER -> Anaglyph(v, s, col, lr)
Buffered(v, col, lr) ==
  IF v.Copy = "ANAGLYPH_SLOW" /\ lr = 0 THEN [v EXCEPT !.AnaSlowBuf[col] = Levels(v, col, 0)] ELSE v

(* Every fourth column brings a new Repeat. *)
ColumnTable(v, col, lr) ==
  IF col % 4 = 0 /\ v.ct[lr][col \div 4] # v.Repeat THEN RecalcBrightnessCache([v EXCEPT !.Repeat = v.ct[lr][col \div 4]])
  ELSE v

(* The columns of an eye, from col on; shown tells whether they are copied. *)
RECURSIVE ColumnsFrom(_, _, _, _, _)
ColumnsFrom(v, s, col, lr, shown) ==
  IF col = Screen THEN <<v, s>>
  ELSE LET w == ColumnTable(v, col, lr)
       IN ColumnsFrom(IF shown THEN Buffered(w, col, lr) ELSE w,
                      IF shown THEN CopyFBColumnToTarget(w, s, col, lr) ELSE s, col + 1, lr, shown)

DisplayEye(v, s, lr, skip) == ColumnsFrom(v, s, 0, lr, ~skip /\ ~v.InstantDisplayHack)

(* The display hack: both eyes at the start of a frame, the Repeat of the  *)
(* display kept.                                                           *)
InstantDisplay(v, s, skip) ==
  IF skip \/ ~v.InstantDisplayHack \/ v.Playdate THEN <<v, s>>
  ELSE LET left == ColumnsFrom(v, s, 0, 0, TRUE)
           both == ColumnsFrom(left[1], left[2], 0, 1, TRUE)
       IN <<RecalcBrightnessCache([both[1] EXCEPT !.Repeat = v.Repeat]), both[2]>>
=============================================================================
