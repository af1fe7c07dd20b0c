------------------------------ MODULE VipDraw ------------------------------
(***************************************************************************)
(* What VIP_DrawBlock paints, mednafen/vb/vip_draw.inc: the 32 worlds from *)
(* the last to the first, each a background, an affine background or a     *)
(* group of objects, over both eyes' lines of one block.                   *)
(*                                                                         *)
(* v is the video memory: chr, the characters as rows of pixels; cells,    *)
(* the background maps; rows, the affine parameters; bias, the HBias       *)
(* table; oam, the objects; worlds; with SPT, BKCOL, the palette caches    *)
(* and the settings.  Characters, maps, screen and tables are smaller than *)
(* the console's; coordinates keep their widths.                           *)
(*                                                                         *)
(* WholeTileEarly is a seeded fault: it stands for the definition after it *)
(* in a run that must then fail.                                           *)
(***************************************************************************)
EXTENDS Integers

LOCAL INSTANCE Bitwise

CONSTANTS Tile,     \* 8: lines and columns of a character, lines of a block
          Cells,    \* 64: characters along a side of a map
          Screen,   \* 384
          Objects,  \* 1024
          Worlds    \* 32

ASSUME DrawAssumption ==
  /\ {Tile, Cells, Screen, Objects, Worlds} \subseteq Nat \ {0}
  /\ Screen % Tile = 0

Map == Tile * Cells

(* Lines of the tables of an affine or HBias world; addresses wrap. *)
Rows == 8

(* sign_x_to_s32, and a value kept in a uint16. *)
Sign(bits, n) == LET u == n % 2^bits IN IF u < 2^(bits - 1) THEN u ELSE u - 2^bits
U16(n) == n % 65536

LesserOf(a, b) == IF a < b THEN a ELSE b
GreaterOf(a, b) == IF a > b THEN a ELSE b

(* A line of DrawingBuffers, with the padding DrawOBJ may write to. *)
Line == 1 - Tile .. (Screen + Tile) - 2
Visible == 0 .. Screen - 1

(* The cell of pixel (sx, sy) in the maps from base; a map number is an OR *)
(* of base with the row and the column of maps.                            *)
MapCell(v, base, scx, sx, sy) ==
  LET map == (base | ((sy \div Map) * 2^scx) | (sx \div Map)) % 16
  IN v.cells[(map * Cells + (sy % Map) \div Tile) * Cells + (sx % Map) \div Tile]

(* A pixel of a character, flipped as its cell says. *)
Texel(v, cell, sx, sy) ==
  LET flip(on, k) == IF on THEN Tile - 1 - k ELSE k
  IN v.chr[cell.char][flip(cell.vflip, sy % Tile)][flip(cell.hflip, sx % Tile)]

Painted(t, x, palette, texel) == IF texel = 0 THEN t ELSE [t EXCEPT ![x] = palette[texel]]

-----------------------------------------------------------------------------
WholeTileEarly(q, x, sx) == sx % Tile = 0 /\ x + Tile <= q.final + 2

(* A character that begins here and fits: its pixels are copied at once. *)
WholeTile(q, x, sx) == sx % Tile = 0 /\ x + (Tile - 1) <= q.final

RECURSIVE Spread(_, _, _, _, _, _)
Spread(v, t, cell, x, sy, k) ==
  IF k = Tile THEN t
  ELSE Spread(v, Painted(t, x + k, v.gplt[cell.pal], Texel(v, cell, k, sy)), cell, x, sy, k + 1)

RECURSIVE BGFrom(_, _, _, _, _)
BGFrom(v, t, q, x, raw) ==
  LET sx == raw % q.maskx
      cell == IF sx < q.sizex /\ q.sy < q.sizey THEN MapCell(v, q.base, q.scx, sx, q.sy)
              ELSE v.cells[q.char]
  IN CASE x > q.final -> t
       [] x <= q.final /\ WholeTile(q, x, sx) ->
              BGFrom(v, Spread(v, t, cell, x, q.sy, 0), q, x + Tile, sx + Tile)
       [] OTHER -> BGFrom(v, Painted(t, x, v.gplt[cell.pal], Texel(v, cell, sx, q.sy)), q, x + 1, sx + 1)

(* The first and last columns of a window. *)
StartX(dest) == GreaterOf(dest, 0)
FinalX(dest, width) == LesserOf(dest + width, Screen - 1)

DrawBG(v, t, RealY, w, SourceX, SourceY, DestX, DestY) ==
  LET dest == Sign(10, DestX)
      size(k) == Map * 2^k
      mask(k) == IF w.over THEN 16 * Map ELSE size(k)
      q == [base |-> w.base, scx |-> w.scx, char |-> w.char, sizex |-> size(w.scx), sizey |-> size(w.scy),
            maskx |-> mask(w.scx), sy |-> SourceY % mask(w.scy), final |-> FinalX(dest, U16(w.width))]
  IN IF U16(RealY - DestY) > w.height THEN t
     ELSE BGFrom(v, t, q, StartX(dest), IF dest < 0 THEN SourceX - dest ELSE SourceX)

-----------------------------------------------------------------------------
RECURSIVE AffineFrom(_, _, _, _, _, _)
AffineFrom(v, t, q, x, rawx, rawy) ==
  LET fx == rawx % q.maskx   fy == rawy % q.masky
      cell == IF fx < q.sizex /\ fy < q.sizey THEN MapCell(v, q.base, q.scx, fx \div 512, fy \div 512)
              ELSE v.cells[q.char]
  IN IF x > q.final THEN t
     ELSE AffineFrom(v, Painted(t, x, v.gplt[cell.pal], Texel(v, cell, fx \div 512, fy \div 512)),
                     q, x + 1, fx + q.dx, fy + q.dy)

(* Nine bits of fraction.  A row without rotation that lies outside the    *)
(* maps is left out, over the plane as well.                               *)
DrawAffine(v, t, RealY, lr, w, DestX, DestY) ==
  LET p == v.rows[(RealY - DestY) % Rows]
      mp == IF v.ParallaxDisabled THEN 0 ELSE p.mp
      dest == Sign(10, DestX)
      shift == (IF dest < 0 THEN -dest ELSE 0)
               + (IF mp >= 0 /\ lr = 1 THEN mp ELSE IF mp < 0 /\ lr = 0 THEN -mp ELSE 0)
      size(k) == Map * 2^k * 512
      mask(k) == IF w.over THEN 256 * Map * 512 ELSE size(k)
      x == p.mx * 64 + p.dx * shift
      y == p.my * 64 + p.dy * shift
      q == [base |-> w.base, scx |-> w.scx, char |-> w.char, sizex |-> size(w.scx), sizey |-> size(w.scy),
            maskx |-> mask(w.scx), masky |-> mask(w.scy), final |-> FinalX(dest, U16(w.width)),
            dx |-> p.dx, dy |-> p.dy]
  IN IF U16(RealY - DestY) > w.height \/ (p.dy = 0 /\ y % q.masky >= q.sizey) THEN t
     ELSE AffineFrom(v, t, q, StartX(dest), x, y)

-----------------------------------------------------------------------------
(* One object on both eyes' lines of fb. *)
ObjectLine(v, t, o, lr, tile_y) ==
  LET jp == IF v.ParallaxDisabled THEN 0 ELSE o.jp
      x == Sign(10, IF lr = 1 THEN o.jx + jp ELSE o.jx - jp)
      seen == x >= 1 - Tile /\ x < Screen
      at(k) == Texel(v, o.cell, k - x, tile_y)
  IN IF ~seen THEN t
     ELSE [k \in Line |-> IF k \in x .. x + Tile - 1 /\ at(k) # 0 THEN v.jplt[o.cell.pal][at(k)] ELSE t[k]]

RECURSIVE ObjectsFrom(_, _, _, _, _, _)
ObjectsFrom(v, fb, Y, lron, oam, end) ==
  LET o == v.oam[oam]
      tile_y == (Y - o.jy) % 256
      drawn == IF tile_y >= Tile THEN fb
               ELSE [lr \in 0..1 |-> IF o.lron[lr] /\ lron[lr] THEN ObjectLine(v, fb[lr], o, lr, tile_y) ELSE fb[lr]]
      next == (oam - 1) % Objects
  IN IF next = end THEN drawn ELSE ObjectsFrom(v, drawn, Y, lron, next, end)

(* A group ends before the start of the one below it. *)
DrawOBJ(v, fb, Y, lron, which) ==
  ObjectsFrom(v, fb, Y, lron, v.SPT[which], IF which = 0 THEN Objects - 1 ELSE v.SPT[which - 1])

-----------------------------------------------------------------------------
(* A world on line y of the screen. *)
WorldLine(v, fb, w, Y, which) ==
  LET gx == Sign(11, w.gx)   gy == Sign(11, w.gy)
      eye(lr, n) == IF v.ParallaxDisabled THEN 0 ELSE IF lr = 1 THEN Sign(9, n) ELSE -Sign(9, n)
      lron == [lr \in 0..1 |-> w.lron[lr] /\ (lr = 0 \/ v.Anaglyph_Colors[1] # {})]
      srcX(lr) == Sign(16, w.mx + eye(lr, w.mp) + IF w.bgm = 1 THEN v.bias[((Y - gy) * 2 + lr) % (2 * Rows)] ELSE 0)
      srcY == Sign(16, w.my + (Y - gy))
      world == [w EXCEPT !.width = Sign(11, w.width), !.height = w.height % 1024]
      line(lr) == CASE ~lron[lr] -> fb[lr]
                    [] lron[lr] /\ w.bgm = 2 -> DrawAffine(v, fb[lr], Y, lr, world, gx + eye(lr, w.gp), gy)
                    [] OTHER -> DrawBG(v, fb[lr], Y, world, srcX(lr), srcY, gx + eye(lr, w.gp), gy)
  IN IF w.bgm = 3 THEN DrawOBJ(v, fb, Y, lron, which) ELSE [lr \in 0..1 |-> line(lr)]

RECURSIVE WorldsFrom(_, _, _, _, _)
WorldsFrom(v, block, lines, world, which) ==
  IF world < 0 \/ v.worlds[world].end THEN lines
  ELSE LET w == v.worlds[world]
       IN WorldsFrom(v, block, [y \in 0 .. Tile - 1 |-> WorldLine(v, lines[y], w, block * Tile + y, which)],
                     world - 1, IF w.bgm = 3 /\ which > 0 THEN which - 1 ELSE which)

(* The lines of a block for each eye, on BKCOL; nobody reads the right     *)
(* eye's when its colour is black.                                         *)
VIP_DrawBlock(v, block) ==
  WorldsFrom(v, block, [y \in 0 .. Tile - 1 |-> [lr \in 0..1 |-> [x \in Line |-> v.BKCOL]]], Worlds - 1, 3)
=============================================================================
