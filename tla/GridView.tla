------------------------------- MODULE GridView -------------------------------
(***************************************************************************)
(* Where the grid is on the screen.  TileRenderer draws each site as a     *)
(* square of atomSize pixels, tile by tile from windowTL on, with or       *)
(* without their caches (separated); GridRenderer and GridPanel tell what  *)
(* is at a pixel, each in a way of its own.  An operator takes the record  *)
(* u of what the user interface works on (GuiDriver's variable ui).        *)
(***************************************************************************)
EXTENDS Integers, SequencesExt, FiniteSetsExt

CONSTANTS
  TileSide,          \* live sites on a side of a tile
  CacheWidth,        \* EVENT_WINDOW_RADIUS, the width of a tile's caches
  MAX_ATOM_SIZE,
  CAMERA_SLOW_SPEED,
  CAMERA_FAST_SPEED
ASSUME TilesHaveSites == TileSide \in Nat \ {0}

Nowhere == <<-1, -1>>
Moved(pt, from, to) == <<pt[1] - from[1] + to[1], pt[2] - from[2] + to[2]>>
Scaled(n, pt) == <<n * pt[1], n * pt[2]>>

TileOf(pt) == <<pt[1] \div TileSide, pt[2] \div TileSide>>
TilesOf(grid) == {TileOf(pt) : pt \in DOMAIN grid}

Element(label) == [label |-> label, date |-> 1]
Empty == Element("Empty")
GetDefaultAtom(element) == [type |-> element, bits |-> 0]
PlaceAtom(u, atom, pt) == [u EXCEPT !.grid[pt] = atom]

\* Row after row, as PaintAtom and Write go over them.
Before(p, q) == p[2] < q[2] \/ (p[2] = q[2] /\ p[1] < q[1])
Rows(points) ==
  [i \in 1..Cardinality(points) |->
     CHOOSE pt \in points : Cardinality({p \in points : Before(p, pt)}) = i - 1]

\* Atoms from one tile to the next, and from a tile's edge to its first live site.
Spacing(u) == IF u.separated THEN TileSide + 2 * CacheWidth + 1 ELSE TileSide
Margin(u)  == IF u.separated THEN CacheWidth ELSE 0

\* RenderTile and RenderAtoms: the square of a site, and the sites drawn at a pixel.
CornerOf(u, pt) ==
  LET Along(i) == TileOf(pt)[i] * Spacing(u) + Margin(u) + (pt[i] % TileSide)
  IN  Moved(Scaled(u.atomSize, <<Along(1), Along(2)>>), <<0, 0>>, u.windowTL)
DrawnAt(u, at) ==
  {pt \in DOMAIN u.grid : \A i \in 1..2 : at[i] - CornerOf(u, pt)[i] \in 0..u.atomSize - 1}

\* The division is unsigned: to the left of the grid or above it, it gives what is
\* far off to the other side, and not the grid's first row or column.
FarOff == 2^20
ClickPointToAtom(u, at) ==
  LET d == Moved(at, u.windowTL, <<0, 0>>)
      Along(i) == IF d[i] < 0 /\ u.atomSize > 1 THEN FarOff ELSE d[i] \div u.atomSize
  IN  <<Along(1), Along(2)>>

\* The first edge at or past the pixel ends the tile, so that a tile's first line of
\* pixels is taken for the tile before, and the grid's for none.
TileAt(u, at) ==
  LET d == Moved(at, u.windowTL, <<0, 0>>)
      Tiles(i) == Max({tile[i] : tile \in TilesOf(u.grid)}) + 1
      Edges(i) == {n \in 0..Tiles(i) : n * Spacing(u) * u.atomSize >= d[i]}
      Along(i) == IF Edges(i) = {} THEN -1 ELSE Min(Edges(i)) - 1
  IN  IF d[1] > 0 /\ d[2] > 0 THEN <<Along(1), Along(2)>> ELSE Nowhere
SelectTile(u, at) == [u EXCEPT !.selectedTile = TileAt(u, at)]

\* Where there is no tile, unsigned numbers again make it a site off the grid.
SelectAtom(u, at) ==
  LET d == Moved(at, u.windowTL, <<0, 0>>)
      side == Spacing(u) * u.atomSize
      Along(i) == IF TileAt(u, at)[i] < 0 THEN FarOff
                  ELSE ((d[i] % side) + TileAt(u, at)[i] * side) \div u.atomSize
  IN  IF u.separated THEN u ELSE [u EXCEPT !.selectedAtom = <<Along(1), Along(2)>>]

\* The atom under the pointer keeps its place; its corner comes to be at the pointer.
ChangeAtomSize(u, increase, around) ==
  LET Toward0(n) == IF n >= 0 THEN n \div u.atomSize ELSE -(-n \div u.atomSize)
      d       == Moved(around, u.windowTL, <<0, 0>>)
      atomLoc == <<Toward0(d[1]), Toward0(d[2])>>
      amount  == IF u.atomSize < 10 THEN 1 ELSE u.atomSize \div 10
      size    == Max({1, Min({MAX_ATOM_SIZE, u.atomSize + (IF increase THEN amount ELSE -amount)})})
  IN  [u EXCEPT !.atomSize = size, !.windowTL = Moved(around, Scaled(size, atomLoc), <<0, 0>>)]

\* The arrow keys move the camera, so the grid goes the other way.
MoveCamera(u, keys) ==
  LET speed == IF "shift" \in keys THEN CAMERA_FAST_SPEED ELSE CAMERA_SLOW_SPEED
      Pull(key) == IF key \in keys THEN speed ELSE 0
  IN  [u EXCEPT !.windowTL = Moved(@, <<Pull("right"), Pull("down")>>, <<Pull("left"), Pull("up")>>)]

\* With ctrl the grid follows the mouse from where both were at the last press of the
\* left button on the grid, which need not be the press that began this drag.
BeginDrag(u, at) == [u EXCEPT !.dragStart = at, !.gridStart = u.windowTL]
DragGrid(u, at) == [u EXCEPT !.windowTL = Moved(at, u.dragStart, u.gridStart)]
=============================================================================
