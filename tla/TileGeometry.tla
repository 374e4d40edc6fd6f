---------------------------- MODULE TileGeometry ----------------------------
(***************************************************************************)
(* The geometry every Tile and the Grid share: the eight directions of     *)
(* Dirs, the regions of a tile (cache, shared, visible, hidden), which     *)
(* tiles are connected, which connections an event must lock, and which    *)
(* neighbours a changed site is sent to.  A point is a pair <<x, y>>; a    *)
(* tile's points include its caches, as Tile::m_atoms does.  Only pure     *)
(* definitions: no state.                                                  *)
(***************************************************************************)
EXTENDS Integers

CONSTANTS
  R,            \* EVENT_WINDOW_RADIUS
  TILE_WIDTH,   \* sites on a side of a tile, caches included
  GRID_WIDTH,   \* tiles in a row of the grid
  GRID_HEIGHT   \* tiles in a column of the grid

(***************************************************************************)
(* The visible bands (3R deep on either side) must not overlap, or a       *)
(* centre would need two opposite locks and RegionAt names only one.  The  *)
(* code never tests this; every configuration of the drivers meets it      *)
(* (R = 4, TILE_WIDTH = 40 by default).                                    *)
(***************************************************************************)
ASSUME GeometryAssumption ==
  /\ R \in Nat \ {0}
  /\ TILE_WIDTH \in Nat
  /\ TILE_WIDTH >= 6 * R
  /\ GRID_WIDTH \in Nat \ {0}
  /\ GRID_HEIGHT \in Nat \ {0}

OWNED_SIDE == TILE_WIDTH - 2 * R
-----------------------------------------------------------------------------
(* Directions *)

NORTH     == 0
NORTHEAST == 1
EAST      == 2
SOUTHEAST == 3
SOUTH     == 4
SOUTHWEST == 5
WEST      == 6
NORTHWEST == 7
DIR_COUNT == 8

Dir   == 0 .. DIR_COUNT - 1
NoDir == -1       \* the (Dir)-1 that RegionAt returns

IsCorner(d)    == d % 2 = 1
CWDir(d)       == (d + 1) % DIR_COUNT
CCWDir(d)      == (d + DIR_COUNT - 1) % DIR_COUNT
OppositeDir(d) == (d + DIR_COUNT \div 2) % DIR_COUNT

\* The two components of Dirs::FillDir.
DX(d) == IF d \in {NORTHEAST, EAST, SOUTHEAST} THEN 1
         ELSE IF d \in {SOUTHWEST, WEST, NORTHWEST} THEN -1 ELSE 0
DY(d) == IF d \in {SOUTHEAST, SOUTH, SOUTHWEST} THEN 1
         ELSE IF d \in {NORTHWEST, NORTH, NORTHEAST} THEN -1 ELSE 0

FromOffset(dx, dy) == CHOOSE d \in Dir : DX(d) = dx /\ DY(d) = dy
-----------------------------------------------------------------------------
(* Tiles of the grid and their connections *)

Tiles == (0 .. GRID_WIDTH - 1) \X (0 .. GRID_HEIGHT - 1)

Neighbor(t, d) == <<t[1] + DX(d), t[2] + DY(d)>>

\* Grid::Reinit connects a tile to every one of its eight neighbours that is
\* inside the grid, and to nothing else.
IsConnected(t, d) == Neighbor(t, d) \in Tiles

\* One Connection object serves both ends; it is named by the pair of tiles.
ConnectionOf(t, d) == {t, Neighbor(t, d)}
Connections == {ConnectionOf(t, d) : t \in Tiles, d \in Dir} \cap SUBSET Tiles
-----------------------------------------------------------------------------
(* Points of a tile *)

TilePoints == (0 .. TILE_WIDTH - 1) \X (0 .. TILE_WIDTH - 1)

\* Those that are not in a cache (Tile::IsOwnedSite): the possible centres.
OwnedPoints == (R .. TILE_WIDTH - R - 1) \X (R .. TILE_WIDTH - R - 1)

\* The side of a band `reach` deep that a coordinate falls in.
SideOf(v, reach) == IF v < reach THEN -1
                    ELSE IF v >= TILE_WIDTH - reach THEN 1 ELSE 0

RegionAt(p, reach) ==
  IF SideOf(p[1], reach) = 0 /\ SideOf(p[2], reach) = 0
  THEN NoDir
  ELSE FromOffset(SideOf(p[1], reach), SideOf(p[2], reach))

CacheAt(p)   == RegionAt(p, R)
SharedAt(p)  == RegionAt(p, 2 * R)
VisibleAt(p) == RegionAt(p, 3 * R)

InTile(p)     == p \in TilePoints
InCache(p)    == SideOf(p[1], R) # 0 \/ SideOf(p[2], R) # 0
IsInHidden(p) == SideOf(p[1], 3 * R) = 0 /\ SideOf(p[2], 3 * R) = 0

IsLiveSite(t, p) == InTile(p) /\ (InCache(p) => IsConnected(t, CacheAt(p)))

\* Where the neighbour in direction d keeps the same site.
GetNeighborLoc(d, p) == <<p[1] - DX(d) * OWNED_SIDE, p[2] - DY(d) * OWNED_SIDE>>

Magnitude(i) == IF i < 0 THEN -i ELSE i
Manhattan(p, q) == Magnitude(p[1] - q[1]) + Magnitude(p[2] - q[2])

\* The event window around centre c, which is an owned point.
Window(c) ==
  {p \in (c[1] - R .. c[1] + R) \X (c[2] - R .. c[2] + R) : Manhattan(p, c) <= R}

\* Where MDist puts window site p among the sites of a window centred at c:
\* by distance, then column, then row.
MDistBefore(c, p, q) ==
  \/ Manhattan(p, c) < Manhattan(q, c)
  \/ /\ Manhattan(p, c) = Manhattan(q, c)
     /\ p[1] < q[1] \/ (p[1] = q[1] /\ p[2] < q[2])
-----------------------------------------------------------------------------
(* Grid coordinates *)

\* The grid-wide coordinates of point p of tile t, caches included, and back
\* for the tile that owns a site (Grid::MapGridToTile).
ToGrid(t, p) == <<t[1] * OWNED_SIDE + p[1] - R, t[2] * OWNED_SIDE + p[2] - R>>

GridSites == (0 .. GRID_WIDTH * OWNED_SIDE - 1) \X (0 .. GRID_HEIGHT * OWNED_SIDE - 1)

TileOwning(g)  == <<g[1] \div OWNED_SIDE, g[2] \div OWNED_SIDE>>
SiteInTile(g)  == <<(g[1] % OWNED_SIDE) + R, (g[2] % OWNED_SIDE) + R>>
-----------------------------------------------------------------------------
(* Locks and sends *)

\* Tile::HasAnyConnections.
HasAnyConnections(t, d) ==
  \/ IsConnected(t, d)
  \/ IsCorner(d) /\ (IsConnected(t, CCWDir(d)) \/ IsConnected(t, CWDir(d)))

\* (Variant with a mistake: a corner's first connection only.)
LockCount_One(d) == 1

\* The connections LockRegion locks for a region: a face's own, or a corner's
\* three from its counter-clockwise side on; LockDirAt(d, i) is the i-th.
LockCount(d)    == IF IsCorner(d) THEN 3 ELSE 1
LockDirAt(d, i) == IF IsCorner(d) THEN (CCWDir(d) + i) % DIR_COUNT ELSE d
LockSet(d)      == {LockDirAt(d, i) : i \in 0 .. LockCount(d) - 1}

\* (Variant with a mistake: the neighbours across a corner are left out.)
SendDirs_NoCorner(t, p) ==
  {d \in Dir : /\ IsConnected(t, d)
               /\ \/ d = WEST /\ p[1] < 2 * R
                  \/ d = EAST /\ p[1] >= TILE_WIDTH - 2 * R
                  \/ d = NORTH /\ p[2] < 2 * R
                  \/ d = SOUTH /\ p[2] >= TILE_WIDTH - 2 * R}

\* The neighbours SendRelevantAtoms sends point p of tile t to.
SendDirs(t, p) ==
  LET west  == IsConnected(t, WEST) /\ p[1] < 2 * R
      east  == ~west /\ IsConnected(t, EAST) /\ p[1] >= TILE_WIDTH - 2 * R
      north == IsConnected(t, NORTH) /\ p[2] < 2 * R
      south == IsConnected(t, SOUTH) /\ p[2] >= TILE_WIDTH - 2 * R
  IN  {d \in Dir :
         \/ d = WEST /\ west
         \/ d = EAST /\ east
         \/ d = NORTH /\ north
         \/ d = SOUTH /\ south /\ (north => east)
         \/ d = NORTHWEST /\ west /\ north
         \/ d = SOUTHWEST /\ west /\ south /\ ~north
         \/ d = NORTHEAST /\ east /\ north
         \/ d = SOUTHEAST /\ east /\ south}

\* The order of the sends of one site: the east or west face, the corner,
\* then the north or south face.
SendRank(d) == IF d \in {WEST, EAST} THEN 0 ELSE IF IsCorner(d) THEN 1 ELSE 2
=============================================================================
