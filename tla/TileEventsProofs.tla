-------------------------- MODULE TileEventsProofs --------------------------
(***************************************************************************)
(* Proofs about TileEvents, for every grid size, tile width, radius, set   *)
(* of atoms, behaviours and sites followed.  First the geometry of the     *)
(* tiles; what matters of it is OverlapIsLocked: two windows of different  *)
(* tiles that share a site make both tiles lock the one connection between *)
(* them.  Then IInv, the invariant of the protocol, and what follows; and  *)
(* with IInv known, the copies of a site, what a buffer holds at most, and *)
(* that the tiles implement the one grid of SharedGrid.                    *)
(***************************************************************************)
EXTENDS TileEvents, FiniteSetTheorems, FunctionTheorems, TLAPS

USE DEF NORTH, NORTHEAST, EAST, SOUTHEAST, SOUTH, SOUTHWEST, WEST, NORTHWEST,
        DIR_COUNT
-----------------------------------------------------------------------------
(* Directions *)

\* A direction's offset is a step to one of the eight neighbours, and its
\* opposite (Dirs::OppositeDir) is the step back.
LEMMA DirOffsets ==
  ASSUME NEW d \in Dir
  PROVE  /\ DX(d) \in {-1, 0, 1} /\ DY(d) \in {-1, 0, 1}
         /\ DX(d) # 0 \/ DY(d) # 0
         /\ OppositeDir(d) \in Dir
         /\ DX(OppositeDir(d)) = -DX(d) /\ DY(OppositeDir(d)) = -DY(d)
         /\ OppositeDir(OppositeDir(d)) = d
  BY DEF Dir, DX, DY, OppositeDir

\* No two directions have the same offset.
LEMMA DirDetermined ==
  ASSUME NEW d \in Dir, NEW e \in Dir, DX(d) = DX(e), DY(d) = DY(e)
  PROVE  d = e
  BY DEF Dir, DX, DY

\* Dirs::FromOffset inverts Dirs::FillDir.
LEMMA FromOffsetCorrect ==
  ASSUME NEW dx \in {-1, 0, 1}, NEW dy \in {-1, 0, 1}, dx # 0 \/ dy # 0
  PROVE  /\ FromOffset(dx, dy) \in Dir
         /\ DX(FromOffset(dx, dy)) = dx
         /\ DY(FromOffset(dx, dy)) = dy
  <1>1. \E d \in Dir : DX(d) = dx /\ DY(d) = dy
    <2>1. CASE dx = 0  BY <2>1 DEF Dir, DX, DY
    <2>2. CASE dx = 1  BY <2>2 DEF Dir, DX, DY
    <2>3. CASE dx = -1  BY <2>3 DEF Dir, DX, DY
    <2>4. QED  BY <2>1, <2>2, <2>3
  <1>2. QED  BY <1>1 DEF FromOffset

\* The connections of a region are directions.
LEMMA LockDirs ==
  ASSUME NEW r \in Dir
  PROVE  /\ LockCount(r) \in {1, 3}
         /\ \A i \in 0 .. LockCount(r) - 1 : LockDirAt(r, i) \in Dir
         /\ LockSet(r) \subseteq Dir
  BY DEF Dir, LockCount, LockDirAt, LockSet, IsCorner, CCWDir

\* The connections of a region differ, so that LockRegion tries none twice.
LEMMA LockDirsDiffer ==
  ASSUME NEW r \in Dir,
         NEW i \in 0 .. LockCount(r) - 1, NEW j \in 0 .. LockCount(r) - 1,
         LockDirAt(r, i) = LockDirAt(r, j)
  PROVE  i = j
  BY DEF Dir, LockCount, LockDirAt, IsCorner, CCWDir

\* A region's connections are those in each direction that goes no other way
\* than the region does.
LEMMA LockSetCovers ==
  ASSUME NEW r \in Dir, NEW d \in Dir,
         DX(d) \in {0, DX(r)}, DY(d) \in {0, DY(r)}
  PROVE  \E i \in 0 .. LockCount(r) - 1 : d = LockDirAt(r, i)
  <1>1. CASE ~IsCorner(r)
    <2>1. d = r  BY <1>1 DEF Dir, DX, DY, IsCorner
    <2>2. QED  BY <1>1, <2>1 DEF LockCount, LockDirAt
  <1>2. CASE IsCorner(r)
    <2>1. \/ d = LockDirAt(r, 0) \/ d = LockDirAt(r, 1) \/ d = LockDirAt(r, 2)
      BY <1>2 DEF Dir, DX, DY, IsCorner, LockDirAt, CCWDir
    <2>2. QED  BY <1>2, <2>1 DEF LockCount
  <1>3. QED  BY <1>1, <1>2

\* An event that locks nothing for want of connections has none among those
\* its region stands for.
LEMMA AnyConnection ==
  ASSUME NEW t, NEW r \in Dir, NEW i \in 0 .. LockCount(r) - 1,
         IsConnected(t, LockDirAt(r, i))
  PROVE  HasAnyConnections(t, r)
  <1>1. CASE ~IsCorner(r)  BY <1>1 DEF LockCount, LockDirAt, HasAnyConnections
  <1>2. CASE IsCorner(r)
    <2>1. LockDirAt(r, i) \in {CCWDir(r), r, CWDir(r)}
      BY <1>2 DEF Dir, LockCount, LockDirAt, IsCorner, CCWDir, CWDir
    <2>2. QED  BY <1>2, <2>1 DEF HasAnyConnections
  <1>3. QED  BY <1>1, <1>2
-----------------------------------------------------------------------------
(* Tiles and connections *)

\* The connection of two tiles is the same object from both ends.
LEMMA ConnectionEnds ==
  ASSUME NEW t \in Tiles, NEW d \in Dir, IsConnected(t, d)
  PROVE  /\ Neighbor(t, d) \in Tiles
         /\ Neighbor(t, d) # t
         /\ Neighbor(Neighbor(t, d), OppositeDir(d)) = t
         /\ IsConnected(Neighbor(t, d), OppositeDir(d))
         /\ ConnectionOf(Neighbor(t, d), OppositeDir(d)) = ConnectionOf(t, d)
         /\ ConnectionOf(t, d) \in Connections
  <1> DEFINE u == Neighbor(t, d)
  <1>1. u \in Tiles  BY DEF IsConnected
  <1>2. /\ GRID_WIDTH \in Nat /\ GRID_HEIGHT \in Nat
        /\ t[1] \in Int /\ t[2] \in Int /\ t = <<t[1], t[2]>>
    BY GeometryAssumption DEF Tiles
  <1>3. u # t  BY <1>2, DirOffsets DEF Neighbor
  <1>4. Neighbor(u, OppositeDir(d)) = t  BY <1>2, DirOffsets DEF Neighbor
  <1>5. ConnectionOf(u, OppositeDir(d)) = ConnectionOf(t, d)
    BY <1>4 DEF ConnectionOf
  <1>6. ConnectionOf(t, d) \in Connections
    BY <1>1 DEF ConnectionOf, Connections
  <1>7. QED  BY <1>1, <1>3, <1>4, <1>5, <1>6 DEF IsConnected

\* A tile has one connection in each direction, and they all differ.
LEMMA ConnectionsDiffer ==
  ASSUME NEW t \in Tiles, NEW d \in Dir, NEW e \in Dir,
         ConnectionOf(t, d) = ConnectionOf(t, e)
  PROVE  d = e
  <1>1. /\ GRID_WIDTH \in Nat /\ GRID_HEIGHT \in Nat
        /\ t[1] \in Int /\ t[2] \in Int /\ t = <<t[1], t[2]>>
    BY GeometryAssumption DEF Tiles
  <1>2. Neighbor(t, d) # t /\ Neighbor(t, e) # t  BY <1>1, DirOffsets DEF Neighbor
  <1>3. Neighbor(t, d) = Neighbor(t, e)  BY <1>2 DEF ConnectionOf
  <1>4. DX(d) = DX(e) /\ DY(d) = DY(e)  BY <1>1, <1>3, DirOffsets DEF Neighbor
  <1>5. QED  BY <1>4, DirDetermined
-----------------------------------------------------------------------------
(* Windows that overlap *)

LEMMA Sizes ==
  /\ R \in Nat /\ R >= 1
  /\ TILE_WIDTH \in Nat /\ TILE_WIDTH >= 6 * R
  /\ OWNED_SIDE \in Nat /\ OWNED_SIDE >= 4 * R
  /\ TILE_WIDTH = OWNED_SIDE + 2 * R
  /\ GRID_WIDTH \in Nat /\ GRID_HEIGHT \in Nat
  BY GeometryAssumption DEF OWNED_SIDE

\* What the region of a point says of its two coordinates.
LEMMA RegionSides ==
  ASSUME NEW p, NEW reach, SideOf(p[1], reach) # 0 \/ SideOf(p[2], reach) # 0
  PROVE  /\ RegionAt(p, reach) \in Dir
         /\ DX(RegionAt(p, reach)) = SideOf(p[1], reach)
         /\ DY(RegionAt(p, reach)) = SideOf(p[2], reach)
  <1>1. SideOf(p[1], reach) \in {-1, 0, 1} /\ SideOf(p[2], reach) \in {-1, 0, 1}
    BY DEF SideOf
  <1>2. QED  BY <1>1, FromOffsetCorrect DEF RegionAt

\* Tiles i < j along one axis can share a site of two windows only if they are
\* adjacent, and the centres then lie in the visible bands at their common edge.
LEMMA AxisAbove ==
  ASSUME NEW i \in Int, NEW j \in Int, i < j,
         NEW a \in R .. TILE_WIDTH - R - 1, NEW v \in a - R .. a + R,
         NEW b \in R .. TILE_WIDTH - R - 1, NEW w \in b - R .. b + R,
         i * OWNED_SIDE + v - R = j * OWNED_SIDE + w - R
  PROVE  j = i + 1 /\ SideOf(a, 3 * R) = 1 /\ SideOf(b, 3 * R) = -1
  <1> DEFINE n == OWNED_SIDE
             k == j - i
  <1>1. /\ R \in Int /\ R >= 1 /\ n \in Int /\ n >= 4 * R
        /\ TILE_WIDTH = n + 2 * R /\ TILE_WIDTH \in Int
    BY Sizes
  <1> HIDE DEF n
  <1>2. a \in Int /\ v \in Int /\ b \in Int /\ w \in Int  BY <1>1
  <1>3. k \in Int /\ k >= 1 /\ j = i + k  OBVIOUS
  <1>4. j * n = i * n + k * n
    <2> HIDE DEF k
    <2>1. j * n = (i + k) * n  BY <1>3
    <2>2. (i + k) * n = i * n + k * n  BY <1>1, <1>3
    <2>3. QED  BY <2>1, <2>2
  <1>5. i * n \in Int /\ k * n \in Int
    <2> HIDE DEF k
    <2> QED  BY <1>1, <1>3
  <1>6. i * n + v - R = j * n + w - R  BY DEF n
  <1>7. v = k * n + w
    <2> HIDE DEF k
    <2> QED  BY <1>1, <1>2, <1>4, <1>5, <1>6
  <1>8. /\ v <= n + 2 * R - 1 /\ v <= a + R
        /\ w >= 0 /\ b <= w + R
    BY <1>1, <1>2
  <1>9. k = 1
    <2> HIDE DEF k
    <2>1. SUFFICES ASSUME k >= 2 PROVE FALSE  BY <1>3
    <2>2. k * n >= 2 * n
      <3>1. PICK m \in Nat : k = 2 + m
        <4>1. k - 2 \in Nat /\ k = 2 + (k - 2)  BY <1>3, <2>1
        <4>2. QED  BY <4>1
      <3>2. k * n = 2 * n + m * n
        <4>1. (2 + m) * n = 2 * n + m * n  BY <1>1, <3>1
        <4>2. QED  BY <3>1, <4>1
      <3>3. m * n >= 0 /\ m * n \in Int  BY <1>1, <3>1
      <3>4. QED  BY <1>1, <3>2, <3>3
    <2>3. QED  BY <1>1, <1>2, <1>5, <1>7, <1>8, <2>2
  <1>10. v = n + w
    <2>1. 1 * n = n  BY <1>1
    <2>2. k * n = 1 * n  BY <1>9
    <2>3. QED  BY <1>7, <2>1, <2>2
  <1>11. a >= TILE_WIDTH - 3 * R /\ b < 3 * R  BY <1>1, <1>2, <1>8, <1>10
  <1>12. SideOf(a, 3 * R) = 1 /\ SideOf(b, 3 * R) = -1
    BY <1>1, <1>2, <1>11, Sizes DEF SideOf
  <1>13. QED  BY <1>3, <1>9, <1>12

\* The same whichever of the two comes first.
LEMMA AxisOverlap ==
  ASSUME NEW i \in Int, NEW j \in Int,
         NEW a \in R .. TILE_WIDTH - R - 1, NEW v \in a - R .. a + R,
         NEW b \in R .. TILE_WIDTH - R - 1, NEW w \in b - R .. b + R,
         i * OWNED_SIDE + v - R = j * OWNED_SIDE + w - R
  PROVE  /\ j - i \in {-1, 0, 1}
         /\ j # i => /\ SideOf(a, 3 * R) = j - i
                     /\ SideOf(b, 3 * R) = i - j
  <1>1. CASE i < j  BY <1>1, AxisAbove
  <1>2. CASE j < i
    <2>1. i = j + 1 /\ SideOf(b, 3 * R) = 1 /\ SideOf(a, 3 * R) = -1
      BY <1>2, AxisAbove
    <2>2. QED  BY <2>1
  <1>3. CASE i = j  BY <1>3
  <1>4. QED  BY <1>1, <1>2, <1>3

\* The window of an owned point, and grid coordinates, by axis.
LEMMA WindowSites ==
  ASSUME NEW t \in Tiles, NEW c \in OwnedPoints, NEW p \in Window(c)
  PROVE  /\ c[1] \in R .. TILE_WIDTH - R - 1 /\ c[2] \in R .. TILE_WIDTH - R - 1
         /\ p[1] \in c[1] - R .. c[1] + R /\ p[2] \in c[2] - R .. c[2] + R
         /\ ToGrid(t, p)[1] = t[1] * OWNED_SIDE + p[1] - R
         /\ ToGrid(t, p)[2] = t[2] * OWNED_SIDE + p[2] - R
  BY DEF OwnedPoints, Window, ToGrid

\* Two events of different tiles that share a site both need locks, and each
\* locks, among others, the connection between the two tiles: t's direction
\* towards u is one of t's region, u's direction towards t one of u's.
THEOREM OverlapIsLocked ==
  ASSUME NEW t \in Tiles, NEW u \in Tiles, t # u,
         NEW c \in OwnedPoints, NEW e \in OwnedPoints,
         NEW p \in Window(c), NEW q \in Window(e),
         ToGrid(t, p) = ToGrid(u, q)
  PROVE  \E d \in Dir :
           /\ IsConnected(t, d)
           /\ u = Neighbor(t, d)
           /\ ~IsInHidden(c) /\ VisibleAt(c) \in Dir
           /\ ~IsInHidden(e) /\ VisibleAt(e) \in Dir
           /\ \E i \in 0 .. LockCount(VisibleAt(c)) - 1 :
                d = LockDirAt(VisibleAt(c), i)
           /\ \E i \in 0 .. LockCount(VisibleAt(e)) - 1 :
                OppositeDir(d) = LockDirAt(VisibleAt(e), i)
  <1> DEFINE dx == u[1] - t[1]
             dy == u[2] - t[2]
             d == FromOffset(dx, dy)
  <1>1. /\ t[1] \in Int /\ t[2] \in Int /\ t = <<t[1], t[2]>>
        /\ u[1] \in Int /\ u[2] \in Int /\ u = <<u[1], u[2]>>
    BY GeometryAssumption DEF Tiles
  <1>2. /\ dx \in {-1, 0, 1}
        /\ dx # 0 => SideOf(c[1], 3 * R) = dx /\ SideOf(e[1], 3 * R) = -dx
    <2>1. t[1] * OWNED_SIDE + p[1] - R = u[1] * OWNED_SIDE + q[1] - R
      BY WindowSites
    <2>2. /\ u[1] - t[1] \in {-1, 0, 1}
          /\ u[1] # t[1] => /\ SideOf(c[1], 3 * R) = u[1] - t[1]
                            /\ SideOf(e[1], 3 * R) = t[1] - u[1]
      BY <1>1, <2>1, WindowSites, AxisOverlap
    <2>3. QED  BY <1>1, <2>2
  <1>3. /\ dy \in {-1, 0, 1}
        /\ dy # 0 => SideOf(c[2], 3 * R) = dy /\ SideOf(e[2], 3 * R) = -dy
    <2>1. t[2] * OWNED_SIDE + p[2] - R = u[2] * OWNED_SIDE + q[2] - R
      BY WindowSites
    <2>2. /\ u[2] - t[2] \in {-1, 0, 1}
          /\ u[2] # t[2] => /\ SideOf(c[2], 3 * R) = u[2] - t[2]
                            /\ SideOf(e[2], 3 * R) = t[2] - u[2]
      BY <1>1, <2>1, WindowSites, AxisOverlap
    <2>3. QED  BY <1>1, <2>2
  <1>4. dx # 0 \/ dy # 0  BY <1>1
  <1> HIDE DEF dx, dy
  <1>5. d \in Dir /\ DX(d) = dx /\ DY(d) = dy
    BY <1>2, <1>3, <1>4, FromOffsetCorrect
  <1> HIDE DEF d
  <1>6. /\ OppositeDir(d) \in Dir
        /\ DX(OppositeDir(d)) = -dx /\ DY(OppositeDir(d)) = -dy
    BY <1>5, DirOffsets
  <1>7. u = Neighbor(t, d)
    <2>1. u[1] = t[1] + dx /\ u[2] = t[2] + dy  BY <1>1 DEF dx, dy
    <2>2. QED  BY <1>1, <1>5, <2>1 DEF Neighbor
  <1>8. IsConnected(t, d)  BY <1>7 DEF IsConnected
  <1>9. SideOf(c[1], 3 * R) # 0 \/ SideOf(c[2], 3 * R) # 0
    BY <1>2, <1>3, <1>4
  <1>10. SideOf(e[1], 3 * R) # 0 \/ SideOf(e[2], 3 * R) # 0
    BY <1>2, <1>3, <1>4
  <1>11. ~IsInHidden(c) /\ ~IsInHidden(e)  BY <1>9, <1>10 DEF IsInHidden
  <1>12. /\ VisibleAt(c) \in Dir
         /\ DX(VisibleAt(c)) = SideOf(c[1], 3 * R)
         /\ DY(VisibleAt(c)) = SideOf(c[2], 3 * R)
    BY <1>9, RegionSides DEF VisibleAt
  <1>13. /\ VisibleAt(e) \in Dir
         /\ DX(VisibleAt(e)) = SideOf(e[1], 3 * R)
         /\ DY(VisibleAt(e)) = SideOf(e[2], 3 * R)
    BY <1>10, RegionSides DEF VisibleAt
  <1>14. \E i \in 0 .. LockCount(VisibleAt(c)) - 1 : d = LockDirAt(VisibleAt(c), i)
    <2>1. DX(d) \in {0, DX(VisibleAt(c))} /\ DY(d) \in {0, DY(VisibleAt(c))}
      BY <1>2, <1>3, <1>5, <1>12
    <2>2. QED  BY <1>5, <1>12, <2>1, LockSetCovers
  <1>15. \E i \in 0 .. LockCount(VisibleAt(e)) - 1 :
           OppositeDir(d) = LockDirAt(VisibleAt(e), i)
    <2>1. /\ DX(OppositeDir(d)) \in {0, DX(VisibleAt(e))}
          /\ DY(OppositeDir(d)) \in {0, DY(VisibleAt(e))}
      BY <1>2, <1>3, <1>6, <1>13
    <2>2. QED  BY <1>6, <1>13, <2>1, LockSetCovers
  <1>16. QED  BY <1>5, <1>7, <1>8, <1>11, <1>12, <1>13, <1>14, <1>15
-----------------------------------------------------------------------------
(* Sends stay within the locks *)

\* What SendRelevantAtoms tests of a direction it sends to.
LEMMA SendTests ==
  ASSUME NEW t, NEW p, NEW d \in SendDirs(t, p)
  PROVE  /\ d \in Dir
         /\ DX(d) = -1 => p[1] < 2 * R /\ IsConnected(t, WEST)
         /\ DX(d) = 1 => p[1] >= TILE_WIDTH - 2 * R /\ IsConnected(t, EAST)
         /\ DY(d) = -1 => p[2] < 2 * R /\ IsConnected(t, NORTH)
         /\ DY(d) = 1 => p[2] >= TILE_WIDTH - 2 * R /\ IsConnected(t, SOUTH)
  BY DEF SendDirs, DX, DY

\* A tile is connected across a face where the grid goes on.
LEMMA FaceConnected ==
  ASSUME NEW t \in Tiles
  PROVE  /\ IsConnected(t, WEST) => t[1] - 1 >= 0
         /\ IsConnected(t, EAST) => t[1] + 1 <= GRID_WIDTH - 1
         /\ IsConnected(t, NORTH) => t[2] - 1 >= 0
         /\ IsConnected(t, SOUTH) => t[2] + 1 <= GRID_HEIGHT - 1
  <1>1. /\ t[1] \in 0 .. GRID_WIDTH - 1 /\ t[2] \in 0 .. GRID_HEIGHT - 1
        /\ GRID_WIDTH \in Nat /\ GRID_HEIGHT \in Nat
    BY Sizes DEF Tiles
  <1>2. /\ Neighbor(t, WEST) = <<t[1] - 1, t[2]>>
        /\ Neighbor(t, EAST) = <<t[1] + 1, t[2]>>
        /\ Neighbor(t, NORTH) = <<t[1], t[2] - 1>>
        /\ Neighbor(t, SOUTH) = <<t[1], t[2] + 1>>
    BY <1>1 DEF Neighbor, DX, DY
  <1>3. QED  BY <1>1, <1>2 DEF IsConnected, Tiles

\* A site is sent only to tiles there are: where there is a neighbour on two
\* adjacent sides there is one at the corner between them.
LEMMA SendConnected ==
  ASSUME NEW t \in Tiles, NEW p, NEW d \in SendDirs(t, p)
  PROVE  d \in Dir /\ IsConnected(t, d)
  <1>1. /\ t[1] \in 0 .. GRID_WIDTH - 1 /\ t[2] \in 0 .. GRID_HEIGHT - 1
        /\ GRID_WIDTH \in Nat /\ GRID_HEIGHT \in Nat
    BY Sizes DEF Tiles
  <1>2. d \in Dir  BY SendTests
  <1>3. t[1] + DX(d) \in 0 .. GRID_WIDTH - 1
    <2>1. DX(d) = -1 => t[1] - 1 >= 0  BY <1>1, SendTests, FaceConnected
    <2>2. DX(d) = 1 => t[1] + 1 <= GRID_WIDTH - 1  BY <1>1, SendTests, FaceConnected
    <2>3. QED  BY <1>1, <1>2, <2>1, <2>2, DirOffsets
  <1>4. t[2] + DY(d) \in 0 .. GRID_HEIGHT - 1
    <2>1. DY(d) = -1 => t[2] - 1 >= 0  BY <1>1, SendTests, FaceConnected
    <2>2. DY(d) = 1 => t[2] + 1 <= GRID_HEIGHT - 1  BY <1>1, SendTests, FaceConnected
    <2>3. QED  BY <1>1, <1>2, <2>1, <2>2, DirOffsets
  <1>5. QED  BY <1>2, <1>3, <1>4 DEF IsConnected, Neighbor, Tiles

\* Every tile an event reports to is across a connection the event has locked.
THEOREM SendsAreLocked ==
  ASSUME NEW t \in Tiles, NEW c \in OwnedPoints, NEW p \in Window(c),
         NEW d \in SendDirs(t, p)
  PROVE  /\ d \in Dir /\ IsConnected(t, d)
         /\ ~IsInHidden(c) /\ VisibleAt(c) \in Dir
         /\ HasAnyConnections(t, VisibleAt(c))
         /\ \E i \in 0 .. LockCount(VisibleAt(c)) - 1 : d = LockDirAt(VisibleAt(c), i)
  <1>1. d \in Dir /\ IsConnected(t, d)  BY SendConnected
  <1>2. /\ c[1] \in R .. TILE_WIDTH - R - 1 /\ c[2] \in R .. TILE_WIDTH - R - 1
        /\ p[1] \in c[1] - R .. c[1] + R /\ p[2] \in c[2] - R .. c[2] + R
    BY DEF OwnedPoints, Window
  <1>3. DX(d) # 0 => SideOf(c[1], 3 * R) = DX(d)
    <2>1. DX(d) = -1 => c[1] < 3 * R  BY <1>2, SendTests, Sizes
    <2>2. DX(d) = 1 => c[1] >= TILE_WIDTH - 3 * R  BY <1>2, SendTests, Sizes
    <2>3. QED  BY <1>1, <1>2, <2>1, <2>2, DirOffsets, Sizes DEF SideOf
  <1>4. DY(d) # 0 => SideOf(c[2], 3 * R) = DY(d)
    <2>1. DY(d) = -1 => c[2] < 3 * R  BY <1>2, SendTests, Sizes
    <2>2. DY(d) = 1 => c[2] >= TILE_WIDTH - 3 * R  BY <1>2, SendTests, Sizes
    <2>3. QED  BY <1>1, <1>2, <2>1, <2>2, DirOffsets, Sizes DEF SideOf
  <1>5. SideOf(c[1], 3 * R) # 0 \/ SideOf(c[2], 3 * R) # 0
    BY <1>1, <1>3, <1>4, DirOffsets
  <1>6. /\ VisibleAt(c) \in Dir
        /\ DX(VisibleAt(c)) = SideOf(c[1], 3 * R)
        /\ DY(VisibleAt(c)) = SideOf(c[2], 3 * R)
    BY <1>5, RegionSides DEF VisibleAt
  <1>7. \E i \in 0 .. LockCount(VisibleAt(c)) - 1 : d = LockDirAt(VisibleAt(c), i)
    BY <1>1, <1>3, <1>4, <1>6, LockSetCovers
  <1>8. HasAnyConnections(t, VisibleAt(c))  BY <1>1, <1>6, <1>7, AnyConnection
  <1>9. QED  BY <1>1, <1>5, <1>6, <1>7, <1>8 DEF IsInHidden
-----------------------------------------------------------------------------
(* Helpers: what the operators of the model return *)

\* A point and its offset from another.
LEMMA Offsets ==
  ASSUME NEW c \in Int \X Int
  PROVE  /\ \A p \in Int \X Int : /\ Offset(c, p) \in Int \X Int
                                  /\ Displace(c, Offset(c, p)) = p
                                  /\ Manhattan(Offset(c, p), <<0, 0>>) = Manhattan(p, c)
         /\ \A rel \in Int \X Int : /\ Displace(c, rel) \in Int \X Int
                                    /\ Manhattan(Displace(c, rel), c) = Manhattan(rel, <<0, 0>>)
  <1>1. c[1] \in Int /\ c[2] \in Int  OBVIOUS
  <1>2. ASSUME NEW p \in Int \X Int
        PROVE  /\ Offset(c, p) \in Int \X Int
               /\ Displace(c, Offset(c, p)) = p
               /\ Manhattan(Offset(c, p), <<0, 0>>) = Manhattan(p, c)
    <2>1. p = <<p[1], p[2]>> /\ p[1] \in Int /\ p[2] \in Int  OBVIOUS
    <2>2. Displace(c, Offset(c, p)) = <<c[1] + (p[1] - c[1]), c[2] + (p[2] - c[2])>>
      BY DEF Displace, Offset
    <2>3. c[1] + (p[1] - c[1]) = p[1] /\ c[2] + (p[2] - c[2]) = p[2]  BY <1>1, <2>1
    <2>4. Manhattan(Offset(c, p), <<0, 0>>) = Manhattan(p, c)
      BY <1>1, <2>1 DEF Manhattan, Offset
    <2>5. QED  BY <1>1, <2>1, <2>2, <2>3, <2>4 DEF Offset
  <1>3. ASSUME NEW rel \in Int \X Int
        PROVE  /\ Displace(c, rel) \in Int \X Int
               /\ Manhattan(Displace(c, rel), c) = Manhattan(rel, <<0, 0>>)
    <2>1. rel[1] \in Int /\ rel[2] \in Int  OBVIOUS
    <2>2. QED  BY <1>1, <2>1 DEF Displace, Manhattan
  <1>4. QED  BY <1>2, <1>3

\* A behaviour changes atoms of its window to atoms.
LEMMA ResultType ==
  ASSUME NEW S, S \subseteq Int \X Int, NEW f \in [S -> Atoms], NEW c \in Int \X Int,
         NEW b \in Behaviours, Applies(f, c, b)
  PROVE  Result(f, c, b) \in [S -> Atoms]
  <1>1. ASSUME NEW p \in S PROVE Behave(f, c, b, p) \in Atoms
    <2> DEFINE rel == Offset(c, p)
    <2>1. p \in Int \X Int /\ Displace(c, rel) = p  BY <1>1, Offsets
    <2>2. rel \in DOMAIN b.moved => f[Displace(c, b.moved[rel])] \in Atoms
      <3>1. SUFFICES ASSUME rel \in DOMAIN b.moved
                     PROVE  f[Displace(c, b.moved[rel])] \in Atoms
        OBVIOUS
      <3>2. Displace(c, b.moved[rel]) \in S  BY <1>1, <2>1, <3>1 DEF Applies
      <3>3. QED  BY <3>2
    <2>3. rel \in DOMAIN b.set => b.set[rel] \in Atoms  BY BehaviourAssumption
    <2>4. f[p] \in Atoms  BY <1>1
    <2> HIDE DEF rel
    <2>5. CASE rel \in DOMAIN b.set  BY <2>3, <2>5 DEF Behave, rel
    <2>6. CASE rel \in DOMAIN b.moved \ DOMAIN b.set  BY <2>2, <2>6 DEF Behave, rel
    <2>7. CASE rel \notin DOMAIN b.set /\ rel \notin DOMAIN b.moved
      BY <2>4, <2>7 DEF Behave, rel
    <2>8. QED  BY <2>5, <2>6, <2>7
  <1>2. Empty \in Atoms  BY BehaviourAssumption
  <1>3. QED  BY <1>1, <1>2 DEF Result

\* A site that a window is centred at is one its tile owns.
LEMMA SiteInTileOwned ==
  ASSUME NEW g \in GridSites
  PROVE  SiteInTile(g) \in OwnedPoints
  <1>1. g[1] \in Int /\ g[2] \in Int  BY Sizes DEF GridSites
  <1>2. OWNED_SIDE \in Nat /\ OWNED_SIDE > 0  BY Sizes
  <1>3. /\ g[1] % OWNED_SIDE \in 0 .. OWNED_SIDE - 1
        /\ g[2] % OWNED_SIDE \in 0 .. OWNED_SIDE - 1
    BY <1>1, <1>2
  <1>4. QED  BY <1>3, Sizes DEF SiteInTile, OwnedPoints

LEMMA OwnedInTile == OwnedPoints \subseteq TilePoints
  BY Sizes DEF OwnedPoints, TilePoints

\* The next connection a pass visits, or the end of the pass, always exists.
LEMMA NextScanFound ==
  ASSUME NEW t, NEW d \in 0 .. DIR_COUNT
  PROVE  /\ NextScan(t, d) \in d .. DIR_COUNT
         /\ NextScan(t, d) = DIR_COUNT \/ IsConnected(t, NextScan(t, d))
         /\ \A f \in d .. NextScan(t, d) - 1 : ~IsConnected(t, f)
  <1> DEFINE Last(a, e) == /\ e = DIR_COUNT \/ IsConnected(t, e)
                           /\ \A f \in a .. e - 1 : ~IsConnected(t, f)
             Found(a) == \E e \in a .. DIR_COUNT : Last(a, e)
  <1> HIDE DEF Found
  <1>1. Found(8)  BY DEF Found
  <1>2. \A a \in 0 .. 7, b \in 1 .. 8 : b = a + 1 /\ Found(b) => Found(a)
    <2>1. SUFFICES ASSUME NEW a \in 0 .. 7, NEW e \in a + 1 .. DIR_COUNT,
                          Last(a + 1, e)
                   PROVE  Found(a)
      BY DEF Found
    <2>2. CASE IsConnected(t, a)
      <3>1. Last(a, a)  BY <2>2
      <3>2. QED  BY <3>1 DEF Found
    <2>3. CASE ~IsConnected(t, a)
      <3>1. Last(a, e)  BY <2>1, <2>3
      <3>2. QED  BY <3>1 DEF Found
    <2>4. QED  BY <2>2, <2>3
  <1>3. Found(7)
    <2>1. 7 \in 0 .. 7 /\ 8 \in 1 .. 8 /\ 8 = 7 + 1  OBVIOUS
    <2>2. 8 = 7 + 1 /\ Found(8) => Found(7)  BY <1>2, <2>1
    <2>3. QED  BY <1>1, <2>1, <2>2
  <1>4. Found(6)  BY <1>2, <1>3
  <1>5. Found(5)  BY <1>2, <1>4
  <1>6. Found(4)  BY <1>2, <1>5
  <1>7. Found(3)  BY <1>2, <1>6
  <1>8. Found(2)  BY <1>2, <1>7
  <1>9. Found(1)  BY <1>2, <1>8
  <1>10. Found(0)  BY <1>2, <1>9
  <1>11. Found(d)
    <2>1. d \in {0, 1, 2, 3, 4, 5, 6, 7, 8}  OBVIOUS
    <2>2. QED
      BY <1>1, <1>3, <1>4, <1>5, <1>6, <1>7, <1>8, <1>9, <1>10, <2>1
  <1>12. QED  BY <1>11 DEF Found, NextScan

LEMMA VisibleAtType ==
  ASSUME NEW p
  PROVE  /\ VisibleAt(p) \in Dir \cup {NoDir}
         /\ ~IsInHidden(p) => VisibleAt(p) \in Dir
  BY RegionSides DEF VisibleAt, RegionAt, IsInHidden

LEMMA PacketTypes ==
  ASSUME NEW g \in 0 .. GENERATIONS - 1, NEW d \in Dir,
         NEW p \in TilePoints, NEW a \in Atoms
  PROVE  /\ WritePacket(g, d, GetNeighborLoc(d, p), a) \in Packets
         /\ CompletePacket(g, d) \in Packets
         /\ AckPacket(g, d) \in Packets
  <1>1. GetNeighborLoc(d, p) \in Int \X Int
    BY Sizes, DirOffsets DEF GetNeighborLoc, TilePoints
  <1>2. NoPoint \in Int \X Int  BY DEF NoPoint
  <1>3. QED
    BY <1>1, <1>2, BehaviourAssumption
    DEF WritePacket, CompletePacket, AckPacket, Packet, Packets
-----------------------------------------------------------------------------
(* Types *)

\* A tile's own coordinates of a site and the grid's convert into each other.
LEMMA GridRoundTrip ==
  ASSUME NEW t \in Tiles
  PROVE  /\ \A g \in GridSites : ToGrid(t, CopyOf(t, g)) = g
         /\ \A p \in TilePoints : CopyOf(t, ToGrid(t, p)) = p
  <1>1. t[1] \in Int /\ t[2] \in Int  BY Sizes DEF Tiles
  <1> DEFINE x == t[1] * OWNED_SIDE
             y == t[2] * OWNED_SIDE
  <1>2. x \in Int /\ y \in Int /\ R \in Int  BY <1>1, Sizes
  <1>3. /\ \A g : CopyOf(t, g) = <<g[1] - x + R, g[2] - y + R>>
        /\ \A p : ToGrid(t, p) = <<x + p[1] - R, y + p[2] - R>>
    BY DEF CopyOf, ToGrid
  <1> HIDE DEF x, y
  <1>4. ASSUME NEW g \in Int \X Int
        PROVE  /\ ToGrid(t, CopyOf(t, g)) = g
               /\ CopyOf(t, ToGrid(t, g)) = g
    <2>1. g = <<g[1], g[2]>> /\ g[1] \in Int /\ g[2] \in Int  OBVIOUS
    <2>2. /\ CopyOf(t, g) = <<g[1] - x + R, g[2] - y + R>>
          /\ ToGrid(t, g) = <<x + g[1] - R, y + g[2] - R>>
      BY <1>3
    <2>3. /\ ToGrid(t, CopyOf(t, g)) = <<x + (g[1] - x + R) - R, y + (g[2] - y + R) - R>>
          /\ CopyOf(t, ToGrid(t, g)) = <<(x + g[1] - R) - x + R, (y + g[2] - R) - y + R>>
      BY <1>3, <2>2
    <2>4. QED  BY <1>2, <2>1, <2>3
  <1>5. GridSites \subseteq Int \X Int /\ TilePoints \subseteq Int \X Int
    BY DEF GridSites, TilePoints
  <1>6. QED  BY <1>4, <1>5

\* The points of a tile that are followed are those of its sites followed.
LEMMA LocalsWatched ==
  ASSUME NEW t \in Tiles
  PROVE  /\ Locals(t) \subseteq TilePoints
         /\ \A p \in TilePoints : p \in Locals(t) <=> ToGrid(t, p) \in Watched
  <1>1. Watched \subseteq GridSites  BY TilesAssumption
  <1>2. QED  BY <1>1, GridRoundTrip DEF Locals

LEMMA TypeInit == Init => TypeOK
  <1> SUFFICES ASSUME Init PROVE TypeOK  OBVIOUS
  <1>1. \A t \in Tiles : atoms[t] \in [Locals(t) -> Atoms]
    BY LocalsWatched DEF Init
  <1>2. /\ NoPoint \in TilePoints \cup {NoPoint} /\ NoDir \in Dir \cup {NoDir}
        /\ <<>> \in Seq(Packets) /\ NORTH \in 0 .. DIR_COUNT
        /\ GENERATIONS \in Nat /\ GENERATIONS >= 1
    BY TilesAssumption
  <1>3. QED  BY <1>1, <1>2 DEF Init, TypeOK

Labels == {"idle", "lock", "unwind", "execute", "report", "flush", "unlock"}

\* The pieces the actions share: moving to another phase, leaving the event,
\* releasing a connection, sending a packet.
LEMMA GotoType ==
  ASSUME TypeOK, NEW t \in Tiles, NEW l \in Labels, Goto(t, l)
  PROVE  pc' \in [Tiles -> Labels]
  BY DEF TypeOK, Goto, Labels

LEMMA LeaveType ==
  ASSUME TypeOK, NEW t \in Tiles, Leave(t)
  PROVE  /\ pc' \in [Tiles -> Labels]
         /\ center' \in [Tiles -> TilePoints \cup {NoPoint}]
         /\ region' \in [Tiles -> Dir \cup {NoDir}]
         /\ scan' \in [Tiles -> 0 .. DIR_COUNT]
  BY DEF TypeOK, Leave, Labels

LEMMA UnlockDirType ==
  ASSUME TypeOK, NEW t \in Tiles, NEW d, UnlockDir(t, d)
  PROVE  /\ lock' \in [Connections -> Tiles \cup {NoTile}]
         /\ iLocked' \in [Tiles -> SUBSET Dir]
  <1>1. CASE IsConnected(t, d)
    <2>1. lock' \in [Connections -> Tiles \cup {NoTile}]
      BY <1>1 DEF TypeOK, UnlockDir
    <2>2. iLocked' \in [Tiles -> SUBSET Dir]
      <3>1. iLocked[t] \ {d} \in SUBSET Dir  BY DEF TypeOK
      <3>2. iLocked' = [iLocked EXCEPT ![t] = iLocked[t] \ {d}]
        BY <1>1 DEF UnlockDir
      <3>3. QED  BY <3>1, <3>2 DEF TypeOK
    <2>3. QED  BY <2>1, <2>2
  <1>2. CASE ~IsConnected(t, d)  BY <1>2 DEF TypeOK, UnlockDir
  <1>3. QED  BY <1>1, <1>2

LEMMA QueueAppend ==
  ASSUME NEW q \in [Tiles -> [Dir -> Seq(Packets)]], NEW u, NEW e,
         NEW packet \in Packets
  PROVE  [q EXCEPT ![u][e] = Append(@, packet)] \in [Tiles -> [Dir -> Seq(Packets)]]
  <1>1. CASE u \in Tiles /\ e \in Dir
    <2>1. Append(q[u][e], packet) \in Seq(Packets)  BY <1>1
    <2>2. QED  BY <2>1
  <1>2. CASE u \in Tiles /\ e \notin Dir
    <2>1. [q[u] EXCEPT ![e] = Append(@, packet)] = q[u]  BY <1>2
    <2>2. QED  BY <2>1
  <1>3. CASE u \notin Tiles  BY <1>3
  <1>4. QED  BY <1>1, <1>2, <1>3

LEMMA SendType ==
  ASSUME TypeOK, NEW t \in Tiles, NEW d, NEW packet \in Packets,
         Send(t, d, packet)
  PROVE  queue' \in [Tiles -> [Dir -> Seq(Packets)]]
  BY QueueAppend DEF TypeOK, Send

LEMMA PlaceAtomType ==
  ASSUME TypeOK, NEW t \in Tiles, NEW p, NEW a \in Atoms, PlaceAtom(t, p, a)
  PROVE  /\ DOMAIN atoms' = Tiles
         /\ \A u \in Tiles : atoms'[u] \in [Locals(u) -> Atoms]
  <1>1. Place(atoms[t], p, a) \in [Locals(t) -> Atoms]  BY DEF TypeOK, Place
  <1>2. QED  BY <1>1 DEF PlaceAtom, TypeOK

LEMMA ReceiveType ==
  ASSUME TypeOK, NEW t \in Tiles, NEW d \in Dir, queue[t][d] # <<>>,
         ReceivePacket(t, d, Head(queue[t][d]))
  PROVE  /\ DOMAIN atoms' = Tiles
         /\ \A u \in Tiles : atoms'[u] \in [Locals(u) -> Atoms]
         /\ queue' \in [Tiles -> [Dir -> Seq(Packets)]]
  <1> DEFINE packet == Head(queue[t][d])
             rest == [queue EXCEPT ![t][d] = Tail(@)]
             back == OppositeDir(packet.neighbor)
             ack == AckPacket(packet.generation, back)
             answered == [rest EXCEPT ![Neighbor(t, back)][OppositeDir(back)] =
                            Append(@, ack)]
  <1>1. packet \in Packets /\ Tail(queue[t][d]) \in Seq(Packets)  BY DEF TypeOK
  <1>2. /\ packet.generation \in 0 .. GENERATIONS - 1 /\ packet.neighbor \in Dir
        /\ packet.atom \in Atoms
    BY <1>1 DEF Packets
  <1>3. rest \in [Tiles -> [Dir -> Seq(Packets)]]
    BY <1>1 DEF TypeOK
  <1>4. ack \in Packets
    <2>1. back \in Dir  BY <1>2, DirOffsets
    <2>2. QED
      BY <1>2, <2>1, BehaviourAssumption DEF AckPacket, Packet, Packets, NoPoint
  <1>5. queue' = rest \/ queue' = answered  BY DEF ReceivePacket
  <1>6. \/ UNCHANGED atoms
        \/ PlaceAtom(t, packet.location, packet.atom)
    BY DEF ReceivePacket
  <1> HIDE DEF packet, rest, back, ack
  <1>7. answered \in [Tiles -> [Dir -> Seq(Packets)]]
    BY <1>3, <1>4, QueueAppend
  <1>8. QED  BY <1>2, <1>3, <1>5, <1>6, <1>7, PlaceAtomType DEF TypeOK

LEMMA TypeStep ==
  ASSUME TypeOK, EventInv, [Next]_vars
  PROVE  TypeOK'
  <1>1. ASSUME NEW t \in Tiles, NEW g \in EventCenters, CreateRandomWindow(t, g)
        PROVE  TypeOK'
    <2>1. SiteInTile(g) \in TilePoints
      BY SiteInTileOwned, OwnedInTile, TilesAssumption
    <2>2. VisibleAt(SiteInTile(g)) \in Dir \cup {NoDir}  BY VisibleAtType
    <2>3. /\ center' \in [Tiles -> TilePoints \cup {NoPoint}]
          /\ region' \in [Tiles -> Dir \cup {NoDir}]
      BY <1>1, <2>1, <2>2 DEF CreateRandomWindow, TypeOK
    <2>4. pc' \in [Tiles -> Labels]
      BY <1>1, GotoType DEF CreateRandomWindow, Labels
    <2>5. QED
      BY <1>1, <2>3, <2>4 DEF CreateRandomWindow, lockVars, reportVars, TypeOK, Labels
  <1>2. ASSUME NEW t \in Tiles, TryLock(t)
        PROVE  TypeOK'
    <2>1. LockDir(t) \in Dir /\ step[t] + 1 \in 0 .. 3
      <3>1. region[t] \in Dir /\ step[t] \in 0 .. LockCount(region[t]) - 1
        BY <1>2 DEF TryLock, EventInv, EventOK, TypeOK
      <3>2. QED  BY <3>1, LockDirs DEF LockDir
    <2>2. /\ lock' \in [Connections -> Tiles \cup {NoTile}]
          /\ iLocked' \in [Tiles -> SUBSET Dir]
          /\ step' \in [Tiles -> 0 .. 3]
      <3>1. step' \in [Tiles -> 0 .. 3]  BY <1>2, <2>1 DEF TryLock, TypeOK
      <3>2. iLocked' \in [Tiles -> SUBSET Dir]
        <4>1. iLocked[t] \cup {LockDir(t)} \in SUBSET Dir  BY <2>1 DEF TypeOK
        <4>2. \/ iLocked' = [iLocked EXCEPT ![t] = iLocked[t] \cup {LockDir(t)}]
              \/ iLocked' = iLocked
          BY <1>2 DEF TryLock
        <4> DEFINE more == iLocked[t] \cup {LockDir(t)}
        <4>3. more \in SUBSET Dir  BY <4>1
        <4>4. iLocked' = [iLocked EXCEPT ![t] = more] \/ iLocked' = iLocked
          BY <4>2
        <4> HIDE DEF more
        <4>5. QED  BY <4>3, <4>4 DEF TypeOK
      <3>3. lock' \in [Connections -> Tiles \cup {NoTile}]
        BY <1>2 DEF TryLock, TypeOK
      <3>4. QED  BY <3>1, <3>2, <3>3
    <2>3. pc' \in [Tiles -> Labels]  BY <1>2, GotoType DEF TryLock, Labels
    <2>4. QED  BY <1>2, <2>2, <2>3 DEF TryLock, reportVars, TypeOK, Labels
  <1>3. ASSUME NEW t \in Tiles, LockBusy(t)
        PROVE  TypeOK'
    <2>1. CASE Leave(t)
      BY <1>3, <2>1, LeaveType DEF LockBusy, lockVars, reportVars, TypeOK, Labels
    <2>2. CASE Goto(t, "unwind") /\ UNCHANGED <<center, region, scan>>
      BY <1>3, <2>2, GotoType DEF LockBusy, lockVars, reportVars, TypeOK, Labels
    <2>3. QED  BY <1>3, <2>1, <2>2 DEF LockBusy
  <1>4. ASSUME NEW t \in Tiles, Unwind(t)
        PROVE  TypeOK'
    <2>1. step[t] \in 1 .. 3  BY <1>4 DEF Unwind, EventInv, EventOK, TypeOK
    <2>2. step' \in [Tiles -> 0 .. 3]  BY <1>4, <2>1 DEF Unwind, TypeOK
    <2>3. /\ lock' \in [Connections -> Tiles \cup {NoTile}]
          /\ iLocked' \in [Tiles -> SUBSET Dir]
      BY <1>4, UnlockDirType DEF Unwind
    <2>4. CASE Leave(t)
      BY <1>4, <2>2, <2>3, <2>4, LeaveType DEF Unwind, reportVars, TypeOK, Labels
    <2>5. CASE UNCHANGED <<pc, center, region, scan>>
      BY <1>4, <2>2, <2>3, <2>5 DEF Unwind, reportVars, TypeOK
    <2>6. QED  BY <1>4, <2>4, <2>5 DEF Unwind
  <1>5. ASSUME NEW t \in Tiles, NEW b \in Behaviours, Execute(t, b)
        PROVE  TypeOK'
    <2>0. center[t] \in Int \X Int /\ Locals(t) \subseteq Int \X Int
      BY <1>5 DEF TypeOK, TilePoints, NoPoint, Locals
    <2>1. DOMAIN atoms' = Tiles /\ \A u \in Tiles : atoms'[u] \in [Locals(u) -> Atoms]
      BY <1>5, <2>0, ResultType DEF Execute, TypeOK
    <2>2. Reached(t, center[t]) \subseteq Dir  BY DEF Reached, SendDirs
    <2>3. owed' \in [Tiles -> SUBSET Dir] /\ waitWord' \in [Tiles -> SUBSET Dir]
      BY <1>5, <2>2 DEF Execute, TypeOK
    <2>4. /\ outbox' \in [Tiles -> SUBSET (Dir \X TilePoints)]
          /\ \A u \in Tiles : \A s \in outbox'[u] : s[2] \in Locals(u)
      <3> DEFINE new == UNION {SendDirs(t, p) \X {p} : p \in Window(center[t]) \cap Locals(t)}
      <3>1. \A s \in new : s \in Dir \X TilePoints /\ s[2] \in Locals(t)
        BY LocalsWatched DEF SendDirs
      <3>2. outbox' = [outbox EXCEPT ![t] = new]  BY <1>5 DEF Execute
      <3> HIDE DEF new
      <3>3. QED  BY <3>1, <3>2 DEF TypeOK
    <2>5. pc' \in [Tiles -> Labels]  BY <1>5, GotoType DEF Execute, Labels
    <2>6. QED
      BY <1>5, <2>1, <2>3, <2>4, <2>5 DEF Execute, lockVars, TypeOK, Labels
  <1>6. ASSUME NEW t \in Tiles, SendAtom(t)
        PROVE  TypeOK'
    <2>1. PICK s \in outbox[t] :
            /\ outbox' = [outbox EXCEPT ![t] = @ \ {s}]
            /\ IF IsConnected(t, s[1])
               THEN Send(t, s[1], WritePacket(generation[t], s[1],
                                     GetNeighborLoc(s[1], s[2]), atoms[t][s[2]]))
               ELSE UNCHANGED queue
      BY <1>6 DEF SendAtom
    <2>2. /\ s[1] \in Dir /\ s[2] \in TilePoints /\ s[2] \in Locals(t)
          /\ generation[t] \in 0 .. GENERATIONS - 1
      BY DEF TypeOK
    <2>3. atoms[t][s[2]] \in Atoms  BY <2>2 DEF TypeOK
    <2>4. queue' \in [Tiles -> [Dir -> Seq(Packets)]]
      <3>1. WritePacket(generation[t], s[1], GetNeighborLoc(s[1], s[2]), atoms[t][s[2]])
              \in Packets
        BY <2>2, <2>3, PacketTypes
      <3>2. QED  BY <2>1, <3>1, SendType DEF TypeOK
    <2>5. /\ outbox' \in [Tiles -> SUBSET (Dir \X TilePoints)]
          /\ \A u \in Tiles : \A r \in outbox'[u] : r[2] \in Locals(u)
      BY <2>1 DEF TypeOK
    <2>6. QED  BY <1>6, <2>4, <2>5 DEF SendAtom, lockVars, TypeOK
  <1>7. ASSUME NEW t \in Tiles, SendEndEventPacket(t)
        PROVE  TypeOK'
    <2>1. PICK d \in owed[t] :
            /\ owed' = [owed EXCEPT ![t] = @ \ {d}]
            /\ IF IsConnected(t, d)
               THEN Send(t, d, CompletePacket(generation[t], d))
               ELSE UNCHANGED queue
      BY <1>7 DEF SendEndEventPacket
    <2>2. d \in Dir /\ generation[t] \in 0 .. GENERATIONS - 1  BY DEF TypeOK
    <2>3. queue' \in [Tiles -> [Dir -> Seq(Packets)]]
      <3>1. CompletePacket(generation[t], d) \in Packets
        BY <2>2, BehaviourAssumption DEF CompletePacket, Packet, Packets, NoPoint
      <3>2. QED  BY <2>1, <3>1, SendType DEF TypeOK
    <2>4. owed' \in [Tiles -> SUBSET Dir]  BY <2>1 DEF TypeOK
    <2>5. QED  BY <1>7, <2>3, <2>4 DEF SendEndEventPacket, lockVars, TypeOK
  <1>8. ASSUME NEW t \in Tiles, StartFlush(t)
        PROVE  TypeOK'
    <2>1. scan' \in [Tiles -> 0 .. DIR_COUNT]
      BY <1>8, NextScanFound DEF StartFlush, TypeOK
    <2>2. pc' \in [Tiles -> Labels]  BY <1>8, GotoType DEF StartFlush, Labels
    <2>3. QED
      BY <1>8, <2>1, <2>2 DEF StartFlush, lockVars, reportVars, TypeOK, Labels
  <1>9. ASSUME NEW t \in Tiles, ReadPacket(t)
        PROVE  TypeOK'
    <2>1. /\ DOMAIN atoms' = Tiles
          /\ \A u \in Tiles : atoms'[u] \in [Locals(u) -> Atoms]
          /\ queue' \in [Tiles -> [Dir -> Seq(Packets)]]
      BY <1>9, ReceiveType DEF ReadPacket
    <2>2. waitWord' \in [Tiles -> SUBSET Dir]  BY <1>9 DEF ReadPacket, TypeOK
    <2>3. QED  BY <1>9, <2>1, <2>2 DEF ReadPacket, lockVars, TypeOK
  <1>10. ASSUME NEW t \in Tiles, ScanNext(t)
         PROVE  TypeOK'
    <2>1. scan[t] + 1 \in 0 .. DIR_COUNT  BY <1>10 DEF ScanNext, Dir
    <2>2. scan' \in [Tiles -> 0 .. DIR_COUNT]
      BY <1>10, <2>1, NextScanFound DEF ScanNext, TypeOK
    <2>3. QED  BY <1>10, <2>2 DEF ScanNext, lockVars, reportVars, TypeOK
  <1>11. ASSUME NEW t \in Tiles, EndPass(t)
         PROVE  TypeOK'
    <2>1. CASE /\ scan' = [scan EXCEPT ![t] = NextScan(t, NORTH)]
               /\ UNCHANGED <<pc, center, region, step>>
      <3>1. scan' \in [Tiles -> 0 .. DIR_COUNT]
        BY <2>1, NextScanFound DEF TypeOK
      <3>2. QED  BY <1>11, <2>1, <3>1 DEF EndPass, reportVars, TypeOK
    <2>2. CASE /\ Goto(t, "unlock")
               /\ step' = [step EXCEPT ![t] = 0]
               /\ UNCHANGED <<center, region, scan>>
      <3>1. pc' \in [Tiles -> Labels] /\ step' \in [Tiles -> 0 .. 3]
        BY <2>2, GotoType DEF TypeOK, Labels
      <3>2. QED  BY <1>11, <2>2, <3>1 DEF EndPass, reportVars, TypeOK, Labels
    <2>3. CASE Leave(t) /\ UNCHANGED step
      BY <1>11, <2>3, LeaveType DEF EndPass, reportVars, TypeOK, Labels
    <2>4. QED  BY <1>11, <2>1, <2>2, <2>3 DEF EndPass
  <1>12. ASSUME NEW t \in Tiles, Unlock(t)
         PROVE  TypeOK'
    <2>1. /\ lock' \in [Connections -> Tiles \cup {NoTile}]
          /\ iLocked' \in [Tiles -> SUBSET Dir]
      BY <1>12, UnlockDirType DEF Unlock
    <2>2. CASE step' = [step EXCEPT ![t] = 0] /\ Leave(t)
      BY <1>12, <2>1, <2>2, LeaveType DEF Unlock, reportVars, TypeOK, Labels
    <2>3. CASE /\ step[t] + 1 # LockCount(region[t])
               /\ step' = [step EXCEPT ![t] = @ + 1]
               /\ UNCHANGED <<pc, center, region, scan>>
      <3>1. step[t] + 1 \in 0 .. 3
        <4>1. region[t] \in Dir /\ step[t] \in 0 .. LockCount(region[t]) - 1
          BY <1>12 DEF Unlock, EventInv, EventOK, TypeOK
        <4>2. QED  BY <4>1, LockDirs
      <3>2. step' \in [Tiles -> 0 .. 3]  BY <2>3, <3>1 DEF TypeOK
      <3>3. QED  BY <1>12, <2>1, <2>3, <3>2 DEF Unlock, reportVars, TypeOK
    <2>4. QED  BY <1>12, <2>2, <2>3 DEF Unlock
  <1>13. ASSUME Clear
         PROVE  TypeOK'
    <2>1. \A u \in Tiles : (generation[u] + 1) % GENERATIONS \in 0 .. GENERATIONS - 1
      BY TilesAssumption DEF TypeOK
    <2>2. /\ generation' \in [Tiles -> 0 .. GENERATIONS - 1]
          /\ DOMAIN atoms' = Tiles
          /\ \A u \in Tiles : atoms'[u] \in [Locals(u) -> Atoms]
      BY <1>13, <2>1, BehaviourAssumption DEF Clear
    <2>3. QED  BY <1>13, <2>2 DEF Clear, lockVars, reportVars, TypeOK
  <1>14. ASSUME NEW g \in Watched, NEW a \in Atoms, Edit(g, a)
         PROVE  TypeOK'
    <2>1. /\ DOMAIN atoms' = Tiles
          /\ \A u \in Tiles : atoms'[u] \in [Locals(u) -> Atoms]
      <3> DEFINE p == SiteInTile(g)
                 placed == {<<TileOwning(g), p>>} \cup
                   {<<Neighbor(TileOwning(g), d), GetNeighborLoc(d, p)>> :
                      d \in {e \in EditDirs(p) : IsConnected(TileOwning(g), e)}}
      <3>1. atoms' = [t \in Tiles |->
                       [q \in Locals(t) |-> IF <<t, q>> \in placed /\ IsLiveSite(t, q)
                                             THEN a ELSE atoms[t][q]]]
        BY <1>14 DEF Edit
      <3> HIDE DEF placed
      <3>2. QED  BY <3>1 DEF TypeOK
    <2>2. QED  BY <1>14, <2>1 DEF Edit, lockVars, reportVars, TypeOK
  <1>15. ASSUME UNCHANGED vars
         PROVE  TypeOK'
    BY <1>15 DEF vars, TypeOK
  <1>16. QED
    BY <1>1, <1>2, <1>3, <1>4, <1>5, <1>6, <1>7, <1>8, <1>9, <1>10, <1>11,
       <1>12, <1>13, <1>14, <1>15 DEF Next, Step
-----------------------------------------------------------------------------
(* Phases of an event *)

\* A step of another thread leaves a tile's event as it is.
LEMMA EventFrame ==
  ASSUME NEW u, EventOK(u),
         pc'[u] = pc[u], center'[u] = center[u], region'[u] = region[u],
         step'[u] = step[u], outbox'[u] = outbox[u], owed'[u] = owed[u],
         waitWord'[u] = waitWord[u]
  PROVE  EventOK(u)'
  BY DEF EventOK, HeldDirs, HeldSteps

LEMMA NoPointOutside == NoPoint \notin TilePoints /\ NoPoint \notin OwnedPoints
  BY Sizes DEF NoPoint, TilePoints, OwnedPoints

LEMMA EventInit == Init => EventInv
  BY DEF Init, EventInv, EventOK

\* Leaving an event, its thread having nothing locked and nothing to report.
LEMMA LeaveEvent ==
  ASSUME TypeOK, NEW t \in Tiles, Leave(t), step'[t] = 0,
         outbox'[t] = {}, owed'[t] = {}, waitWord'[t] = {}
  PROVE  EventOK(t)'
  BY DEF TypeOK, Leave, EventOK

LEMMA EventStep ==
  ASSUME TypeOK, EventInv, [Next]_vars
  PROVE  EventInv'
  <1> SUFFICES ASSUME NEW u \in Tiles PROVE EventOK(u)'
    BY DEF EventInv
  <1> EventOK(u)  BY DEF EventInv
  <1>1. ASSUME NEW t \in Tiles, NEW g \in EventCenters, CreateRandomWindow(t, g)
        PROVE  EventOK(u)'
    <2> DEFINE c == SiteInTile(g)
    <2>1. CASE u = t
      <3>1. c \in OwnedPoints /\ c # NoPoint
        BY SiteInTileOwned, TilesAssumption, NoPointOutside
      <3>2. center'[t] = c  BY <1>1 DEF CreateRandomWindow, TypeOK
      <3>3. /\ pc[t] = "idle" /\ region[t] = NoDir /\ step'[t] = 0
            /\ outbox'[t] = {} /\ owed'[t] = {} /\ waitWord'[t] = {}
        BY <1>1, <2>1 DEF CreateRandomWindow, EventOK, lockVars, reportVars
      <3>4. CASE NeedsLock(t, c)
        <4>1. VisibleAt(c) \in Dir  BY <3>4, VisibleAtType DEF NeedsLock
        <4>2. pc'[t] = "lock" /\ region'[t] = VisibleAt(c)
          BY <1>1, <3>4 DEF CreateRandomWindow, Goto, TypeOK
        <4>3. NeedsLock(t, c)' /\ VisibleAt(c) # NoDir
          BY <3>4, <4>1 DEF Dir, NoDir, NeedsLock
        <4>4. 0 \in 0 .. LockCount(VisibleAt(c)) - 1  BY <4>1, LockDirs
        <4>5. QED  BY <2>1, <3>1, <3>2, <3>3, <4>2, <4>3, <4>4 DEF EventOK
      <3>5. CASE ~NeedsLock(t, c)
        <4>1. pc'[t] = "execute" /\ region'[t] = NoDir
          BY <1>1, <3>3, <3>5 DEF CreateRandomWindow, Goto, TypeOK
        <4>2. QED  BY <2>1, <3>1, <3>2, <3>3, <3>5, <4>1 DEF EventOK
      <3>6. QED  BY <3>4, <3>5
    <2>2. CASE u # t
      BY <1>1, <2>2, EventFrame
      DEF CreateRandomWindow, Goto, TypeOK, lockVars, reportVars
    <2>3. QED  BY <2>1, <2>2
  <1>2. ASSUME NEW t \in Tiles, TryLock(t)
        PROVE  EventOK(u)'
    <2>1. CASE u = t
      <3>1. /\ pc[t] = "lock" /\ region[t] \in Dir /\ center[t] # NoPoint
            /\ step[t] \in 0 .. LockCount(region[t]) - 1
        BY <1>2, <2>1 DEF TryLock, EventOK, TypeOK
      <3>2. LockCount(region[t]) \in {1, 3}  BY <3>1, LockDirs
      <3>3. step'[t] = step[t] + 1  BY <1>2 DEF TryLock, TypeOK
      <3>4. pc'[t] = IF step'[t] = LockCount(region[t]) THEN "execute" ELSE "lock"
        BY <1>2, <3>3 DEF TryLock, Goto, TypeOK
      <3>5. UNCHANGED <<center, region, outbox, owed, waitWord>>
        BY <1>2 DEF TryLock, reportVars
      <3>6. QED  BY <2>1, <3>1, <3>2, <3>3, <3>4, <3>5 DEF EventOK
    <2>2. CASE u # t
      BY <1>2, <2>2, EventFrame DEF TryLock, Goto, TypeOK, reportVars
    <2>3. QED  BY <2>1, <2>2
  <1>3. ASSUME NEW t \in Tiles, LockBusy(t)
        PROVE  EventOK(u)'
    <2>1. CASE u = t /\ step[t] = 0
      <3>1. /\ step'[t] = 0 /\ outbox'[t] = {} /\ owed'[t] = {} /\ waitWord'[t] = {}
        BY <1>3, <2>1 DEF LockBusy, EventOK, lockVars, reportVars
      <3>2. Leave(t)  BY <1>3, <2>1 DEF LockBusy
      <3>3. QED  BY <2>1, <3>1, <3>2, LeaveEvent
    <2>2. CASE u = t /\ step[t] # 0
      <3>1. pc'[t] = "unwind" /\ UNCHANGED <<center, region, step, outbox, owed, waitWord>>
        BY <1>3, <2>2 DEF LockBusy, Goto, TypeOK, lockVars, reportVars
      <3>2. /\ pc[t] = "lock" /\ region[t] \in Dir
            /\ step[t] \in 1 .. LockCount(region[t]) - 1
        BY <1>3, <2>2 DEF LockBusy, EventOK, TypeOK
      <3>3. QED  BY <2>2, <3>1, <3>2 DEF EventOK
    <2>3. CASE u # t
      BY <1>3, <2>3, EventFrame DEF LockBusy, Leave, Goto, TypeOK, lockVars, reportVars
    <2>4. QED  BY <2>1, <2>2, <2>3
  <1>4. ASSUME NEW t \in Tiles, Unwind(t)
        PROVE  EventOK(u)'
    <2>1. CASE u = t /\ step[t] = 1
      <3>1. /\ step'[t] = 0 /\ outbox'[t] = {} /\ owed'[t] = {} /\ waitWord'[t] = {}
        BY <1>4, <2>1 DEF Unwind, EventOK, TypeOK, reportVars
      <3>2. Leave(t)  BY <1>4, <2>1 DEF Unwind
      <3>3. QED  BY <2>1, <3>1, <3>2, LeaveEvent
    <2>2. CASE u = t /\ step[t] # 1
      <3>1. /\ step'[t] = step[t] - 1
            /\ UNCHANGED <<pc, center, region, outbox, owed, waitWord>>
        BY <1>4, <2>2 DEF Unwind, TypeOK, reportVars
      <3>2. /\ pc[t] = "unwind" /\ region[t] \in Dir
            /\ step[t] \in 1 .. LockCount(region[t]) - 1
        BY <1>4, <2>2 DEF Unwind, EventOK, TypeOK
      <3>3. step'[t] \in 1 .. LockCount(region[t]) - 1
        BY <2>2, <3>1, <3>2, LockDirs
      <3>4. QED  BY <2>2, <3>1, <3>2, <3>3 DEF EventOK
    <2>3. CASE u # t
      BY <1>4, <2>3, EventFrame DEF Unwind, Leave, TypeOK, reportVars
    <2>4. QED  BY <2>1, <2>2, <2>3
  <1>5. ASSUME NEW t \in Tiles, NEW b \in Behaviours, Execute(t, b)
        PROVE  EventOK(u)'
    <2>1. CASE u = t
      <3> DEFINE c == center[t]
      <3>1. pc[t] = "execute" /\ c # NoPoint /\ c \in OwnedPoints
        BY <1>5, <2>1 DEF Execute, EventOK
      <3>2. /\ pc'[t] = "report" /\ owed'[t] = Reached(t, c) /\ waitWord'[t] = Reached(t, c)
            /\ UNCHANGED <<center, region, step>>
        BY <1>5 DEF Execute, Goto, TypeOK, lockVars
      <3>3. ASSUME NEW d \in Reached(t, c)
            PROVE  d \in HeldDirs(t)' /\ IsConnected(t, d)
        <4>1. PICK p \in Window(c) : d \in SendDirs(t, p)  BY DEF Reached
        <4>2. /\ d \in Dir /\ IsConnected(t, d) /\ NeedsLock(t, c) /\ VisibleAt(c) \in Dir
              /\ \E i \in 0 .. LockCount(VisibleAt(c)) - 1 : d = LockDirAt(VisibleAt(c), i)
          BY <3>1, <4>1, SendsAreLocked DEF NeedsLock
        <4>3. region[t] = VisibleAt(c) /\ region[t] # NoDir
          BY <2>1, <3>1, <4>2 DEF EventOK, Dir, NoDir
        <4>4. step[t] = LockCount(region[t])  BY <2>1, <3>1, <4>3 DEF EventOK
        <4>5. d \in HeldDirs(t)'
          BY <3>2, <4>2, <4>3, <4>4 DEF HeldDirs, HeldSteps
        <4>6. QED  BY <4>2, <4>5
      <3>4. \A s \in outbox'[t] : s[1] \in owed'[t]
        <4>1. outbox'[t] = UNION {SendDirs(t, p) \X {p} : p \in Window(c) \cap Locals(t)}
          BY <1>5 DEF Execute, TypeOK
        <4>2. QED  BY <3>2, <4>1 DEF Reached
      <3>5. QED  BY <2>1, <3>1, <3>2, <3>3, <3>4 DEF EventOK
    <2>2. CASE u # t
      BY <1>5, <2>2, EventFrame DEF Execute, Goto, TypeOK, lockVars
    <2>3. QED  BY <2>1, <2>2
  <1>6. ASSUME NEW t \in Tiles, SendAtom(t)
        PROVE  EventOK(u)'
    <2>1. /\ UNCHANGED <<pc, center, region, step, owed, waitWord>>
          /\ outbox'[t] \subseteq outbox[t] /\ pc[t] = "report"
          /\ u # t => outbox'[u] = outbox[u]
      BY <1>6 DEF SendAtom, lockVars, TypeOK
    <2>2. CASE u = t  BY <2>1, <2>2 DEF EventOK, HeldDirs, HeldSteps
    <2>3. CASE u # t  BY <2>1, <2>3, EventFrame
    <2>4. QED  BY <2>2, <2>3
  <1>7. ASSUME NEW t \in Tiles, SendEndEventPacket(t)
        PROVE  EventOK(u)'
    <2>1. /\ UNCHANGED <<pc, center, region, step, outbox, waitWord>>
          /\ owed'[t] \subseteq owed[t] /\ pc[t] = "report" /\ outbox[t] = {}
          /\ u # t => owed'[u] = owed[u]
      BY <1>7 DEF SendEndEventPacket, lockVars, TypeOK
    <2>2. CASE u = t  BY <2>1, <2>2 DEF EventOK, HeldDirs, HeldSteps
    <2>3. CASE u # t  BY <2>1, <2>3, EventFrame
    <2>4. QED  BY <2>2, <2>3
  <1>8. ASSUME NEW t \in Tiles, StartFlush(t)
        PROVE  EventOK(u)'
    <2>1. /\ pc'[t] = "flush" /\ outbox[t] = {} /\ owed[t] = {}
          /\ UNCHANGED <<center, region, step, outbox, owed, waitWord>>
          /\ u # t => pc'[u] = pc[u]
      BY <1>8 DEF StartFlush, Goto, TypeOK, EventInv, EventOK, lockVars, reportVars
    <2>2. CASE u = t
      BY <1>8, <2>1, <2>2 DEF StartFlush, EventOK, HeldDirs, HeldSteps
    <2>3. CASE u # t  BY <2>1, <2>3, EventFrame
    <2>4. QED  BY <2>2, <2>3
  <1>9. ASSUME NEW t \in Tiles, ReadPacket(t)
        PROVE  EventOK(u)'
    <2>1. /\ UNCHANGED <<pc, center, region, step, outbox, owed>>
          /\ waitWord'[t] \subseteq waitWord[t] /\ pc[t] = "flush"
          /\ u # t => waitWord'[u] = waitWord[u]
      BY <1>9 DEF ReadPacket, lockVars, TypeOK
    <2>2. CASE u = t  BY <2>1, <2>2 DEF EventOK, HeldDirs, HeldSteps
    <2>3. CASE u # t  BY <2>1, <2>3, EventFrame
    <2>4. QED  BY <2>2, <2>3
  <1>10. ASSUME NEW t \in Tiles, ScanNext(t)
         PROVE  EventOK(u)'
    BY <1>10, EventFrame DEF ScanNext, lockVars, reportVars
  <1>11. ASSUME NEW t \in Tiles, EndPass(t)
         PROVE  EventOK(u)'
    <2>1. CASE waitWord[t] # {}
      BY <1>11, <2>1, EventFrame DEF EndPass, reportVars
    <2>2. CASE u = t /\ waitWord[t] = {} /\ region[t] # NoDir
      <3>1. /\ pc'[t] = "unlock" /\ step'[t] = 0 /\ pc[t] = "flush"
            /\ UNCHANGED <<center, region, outbox, owed, waitWord>>
        BY <1>11, <2>2 DEF EndPass, Goto, TypeOK, reportVars
      <3>2. 0 \in 0 .. LockCount(region[t]) - 1
        <4>1. region[t] \in Dir  BY <2>2 DEF TypeOK
        <4>2. LockCount(region[t]) \in {1, 3}  BY <4>1, LockDirs
        <4>3. QED  BY <4>2
      <3>3. QED  BY <2>2, <3>1, <3>2 DEF EventOK
    <2>3. CASE u = t /\ waitWord[t] = {} /\ region[t] = NoDir
      <3>1. /\ step'[t] = 0 /\ outbox'[t] = {} /\ owed'[t] = {} /\ waitWord'[t] = {}
        BY <1>11, <2>3 DEF EndPass, EventOK, reportVars
      <3>2. Leave(t)  BY <1>11, <2>3 DEF EndPass
      <3>3. QED  BY <2>3, <3>1, <3>2, LeaveEvent
    <2>4. CASE u # t
      BY <1>11, <2>4, EventFrame DEF EndPass, Goto, Leave, TypeOK, reportVars
    <2>5. QED  BY <2>1, <2>2, <2>3, <2>4
  <1>12. ASSUME NEW t \in Tiles, Unlock(t)
         PROVE  EventOK(u)'
    <2>1. CASE u = t /\ step[t] + 1 = LockCount(region[t])
      <3>1. /\ step'[t] = 0 /\ outbox'[t] = {} /\ owed'[t] = {} /\ waitWord'[t] = {}
        BY <1>12, <2>1 DEF Unlock, EventOK, TypeOK, reportVars
      <3>2. Leave(t)  BY <1>12, <2>1 DEF Unlock
      <3>3. QED  BY <2>1, <3>1, <3>2, LeaveEvent
    <2>2. CASE u = t /\ step[t] + 1 # LockCount(region[t])
      <3>1. /\ step'[t] = step[t] + 1 /\ pc[t] = "unlock"
            /\ UNCHANGED <<pc, center, region, outbox, owed, waitWord>>
        BY <1>12, <2>2 DEF Unlock, TypeOK, reportVars
      <3>2. step[t] + 1 \in 0 .. LockCount(region[t]) - 1
        <4>1. region[t] \in Dir /\ step[t] \in 0 .. LockCount(region[t]) - 1
          BY <2>2, <3>1 DEF EventOK, TypeOK
        <4>2. QED  BY <2>2, <4>1, LockDirs
      <3>3. QED  BY <2>2, <3>1, <3>2 DEF EventOK
    <2>3. CASE u # t
      BY <1>12, <2>3, EventFrame DEF Unlock, Leave, TypeOK, reportVars
    <2>4. QED  BY <2>1, <2>2, <2>3
  <1>13. ASSUME Clear
         PROVE  EventOK(u)'
    BY <1>13, EventFrame DEF Clear, lockVars, reportVars
  <1>14. ASSUME NEW g \in Watched, NEW a \in Atoms, Edit(g, a)
         PROVE  EventOK(u)'
    BY <1>14, EventFrame DEF Edit, lockVars, reportVars
  <1>15. ASSUME UNCHANGED vars
         PROVE  EventOK(u)'
    BY <1>15, EventFrame DEF vars
  <1>16. QED
    BY <1>1, <1>2, <1>3, <1>4, <1>5, <1>6, <1>7, <1>8, <1>9, <1>10, <1>11,
       <1>12, <1>13, <1>14, <1>15 DEF Next, Step
-----------------------------------------------------------------------------
(* Locks *)

LEMMA NoTileOutside == NoTile \notin Tiles
  BY Sizes DEF NoTile, Tiles

LEMMA LockInit == Init => HeldInv /\ OwnerInv
  <1> SUFFICES ASSUME Init PROVE HeldInv /\ OwnerInv  OBVIOUS
  <1>1. \A t \in Tiles : HeldDirs(t) = {}  BY DEF Init, HeldDirs, HeldSteps
  <1>2. HeldInv  BY <1>1 DEF Init, HeldInv
  <1>3. OwnerInv
    <2>1. \A t \in Tiles, d \in Dir :
            IsConnected(t, d) => lock[ConnectionOf(t, d)] # t
      BY ConnectionEnds, NoTileOutside DEF Init
    <2>2. QED  BY <2>1 DEF Init, OwnerInv
  <1>4. QED  BY <1>2, <1>3

\* Locking a free connection, or releasing one, keeps both ends' views right.
LEMMA LockChange ==
  ASSUME TypeOK, OwnerInv, NEW t \in Tiles, NEW d \in Dir, IsConnected(t, d),
         NEW v \in {t, NoTile}, lock[ConnectionOf(t, d)] \in {t, NoTile},
         lock' = [lock EXCEPT ![ConnectionOf(t, d)] = v],
         iLocked' = [iLocked EXCEPT ![t] = IF v = t THEN @ \cup {d} ELSE @ \ {d}]
  PROVE  OwnerInv'
  <1> DEFINE k == ConnectionOf(t, d)
  <1>1. t # NoTile  BY NoTileOutside
  <1>2. ASSUME NEW u \in Tiles, NEW e \in Dir, IsConnected(u, e)
        PROVE  lock'[ConnectionOf(u, e)] = u <=> e \in iLocked'[u]
    <2>1. lock[ConnectionOf(u, e)] = u <=> e \in iLocked[u]  BY <1>2 DEF OwnerInv
    <2>2. ConnectionOf(u, e) \in Connections  BY <1>2, ConnectionEnds
    <2>3. CASE u = t /\ e = d
      <3>1. lock'[k] = v  BY <2>2, <2>3 DEF TypeOK
      <3>2. d \in iLocked'[t] <=> v = t  BY DEF TypeOK
      <3>3. QED  BY <2>3, <3>1, <3>2
    <2>4. CASE u = t /\ e # d
      <3>1. ConnectionOf(u, e) # k  BY <2>4, ConnectionsDiffer
      <3>2. lock'[ConnectionOf(u, e)] = lock[ConnectionOf(u, e)]
        BY <2>2, <3>1 DEF TypeOK
      <3>3. e \in iLocked'[u] <=> e \in iLocked[u]  BY <2>4 DEF TypeOK
      <3>4. QED  BY <2>1, <3>2, <3>3
    <2>5. CASE u # t
      <3>1. iLocked'[u] = iLocked[u]  BY <2>5 DEF TypeOK
      <3>2. lock'[ConnectionOf(u, e)] = u <=> lock[ConnectionOf(u, e)] = u
        <4>1. u # NoTile  BY NoTileOutside
        <4>2. QED  BY <2>2, <2>5, <4>1 DEF TypeOK
      <3>3. QED  BY <2>1, <3>1, <3>2
    <2>6. QED  BY <2>3, <2>4, <2>5
  <1>3. \A j \in Connections : lock'[j] \in j \cup {NoTile}
    <2>1. t \in k  BY DEF ConnectionOf
    <2>2. QED  BY <2>1 DEF TypeOK, OwnerInv
  <1>4. QED  BY <1>2, <1>3 DEF OwnerInv

\* A thread that goes forward holds one connection more, if there is one.
LEMMA HeldMore ==
  ASSUME TypeOK, EventInv, NEW t \in Tiles, TryLock(t)
  PROVE  HeldDirs(t)' = HeldDirs(t) \cup {LockDir(t)} /\ LockDir(t) \in Dir
  <1>1. /\ pc[t] = "lock" /\ region[t] \in Dir
        /\ step[t] \in 0 .. LockCount(region[t]) - 1 /\ step[t] \in Nat
    BY DEF TryLock, EventInv, EventOK, TypeOK
  <1>2. /\ step'[t] = step[t] + 1 /\ region'[t] = region[t]
        /\ pc'[t] \in {"lock", "execute"}
    BY DEF TryLock, Goto, TypeOK
  <1>3. HeldSteps(t) = 0 .. step[t] - 1 /\ HeldSteps(t)' = 0 .. step[t]
    BY <1>1, <1>2 DEF HeldSteps
  <1>4. 0 .. step[t] = (0 .. step[t] - 1) \cup {step[t]}  BY <1>1
  <1>5. HeldDirs(t)' = {LockDirAt(region[t], i) : i \in 0 .. step[t]}
    BY <1>2, <1>3 DEF HeldDirs
  <1>6. QED  BY <1>1, <1>3, <1>4, <1>5, LockDirs DEF HeldDirs, LockDir

\* One that rewinds, or unlocks, holds one less, and held it.
LEMMA HeldLess ==
  ASSUME TypeOK, EventInv, NEW t \in Tiles,
         NEW d,
         \/ Unwind(t) /\ d = LastLocked(t)
         \/ Unlock(t) /\ d = LockDir(t)
  PROVE  /\ HeldDirs(t)' = HeldDirs(t) \ {d}
         /\ d \in Dir /\ d \in HeldDirs(t)
  <1> DEFINE r == region[t]
             n == LockCount(r)
  <1>1. /\ r \in Dir /\ n \in {1, 3} /\ step[t] \in 0 .. 3
        /\ \A i \in 0 .. n - 1 : LockDirAt(r, i) \in Dir
        /\ \A i, j \in 0 .. n - 1 : LockDirAt(r, i) = LockDirAt(r, j) => i = j
    <2>1. r \in Dir /\ step[t] \in 0 .. 3
      BY DEF Unwind, Unlock, EventInv, EventOK, TypeOK
    <2>2. QED  BY <2>1, LockDirs, LockDirsDiffer
  <1>2. CASE Unwind(t) /\ d = LastLocked(t)
    <2>1. step[t] \in 1 .. n - 1 /\ pc[t] = "unwind"
      BY <1>2 DEF Unwind, EventInv, EventOK
    <2>2. HeldDirs(t) = {LockDirAt(r, i) : i \in 0 .. step[t] - 1}
      BY <2>1 DEF HeldDirs, HeldSteps
    <2>3. HeldDirs(t)' = {LockDirAt(r, i) : i \in 0 .. step[t] - 2}
      <3>1. step'[t] = step[t] - 1  BY <1>2 DEF Unwind, TypeOK
      <3>2. step[t] # 1 => region'[t] = r /\ pc'[t] = "unwind"
        BY <1>2, <2>1 DEF Unwind
      <3>3. step[t] = 1 => pc'[t] = "idle"  BY <1>2 DEF Unwind, Leave, TypeOK
      <3>4. CASE step[t] = 1
        <4>1. HeldSteps(t)' = {} /\ 0 .. step[t] - 2 = {}
          BY <3>1, <3>3, <3>4 DEF HeldSteps
        <4>2. QED  BY <4>1 DEF HeldDirs
      <3>5. CASE step[t] # 1
        <4>1. HeldSteps(t)' = 0 .. step[t] - 2
          BY <2>1, <3>1, <3>2, <3>5, <1>1 DEF HeldSteps
        <4>2. QED  BY <3>2, <3>5, <4>1 DEF HeldDirs
      <3>6. QED  BY <3>4, <3>5
    <2>4. d = LockDirAt(r, step[t] - 1)  BY <1>2 DEF LastLocked
    <2> HIDE DEF r, n
    <2>5. QED  BY <1>1, <2>1, <2>2, <2>3, <2>4
  <1>3. CASE Unlock(t) /\ d = LockDir(t)
    <2>1. step[t] \in 0 .. n - 1 /\ pc[t] = "unlock"
      BY <1>3 DEF Unlock, EventInv, EventOK
    <2>2. HeldDirs(t) = {LockDirAt(r, i) : i \in step[t] .. n - 1}
      BY <2>1 DEF HeldDirs, HeldSteps
    <2>3. HeldDirs(t)' = {LockDirAt(r, i) : i \in step[t] + 1 .. n - 1}
      <3>1. CASE step[t] + 1 = n
        <4>1. step'[t] = 0 /\ pc'[t] = "idle"
          BY <1>3, <3>1 DEF Unlock, Leave, TypeOK
        <4>2. HeldSteps(t)' = {} /\ step[t] + 1 .. n - 1 = {}
          BY <1>1, <3>1, <4>1 DEF HeldSteps
        <4>3. QED  BY <4>2 DEF HeldDirs
      <3>2. CASE step[t] + 1 # n
        <4>1. step'[t] = step[t] + 1 /\ pc'[t] = "unlock" /\ region'[t] = r
          BY <1>3, <2>1, <3>2 DEF Unlock, TypeOK
        <4>2. QED  BY <4>1 DEF HeldDirs, HeldSteps
      <3>3. QED  BY <3>1, <3>2
    <2>4. d = LockDirAt(r, step[t])  BY <1>3 DEF LockDir
    <2> HIDE DEF r, n
    <2>5. QED  BY <1>1, <2>1, <2>2, <2>3, <2>4
  <1>4. QED  BY <1>2, <1>3

\* A thread holds the same while its phase, region and step stay.
LEMMA HeldFrame ==
  ASSUME NEW u, pc'[u] = pc[u], region'[u] = region[u], step'[u] = step[u]
  PROVE  HeldDirs(u)' = HeldDirs(u)
  BY DEF HeldDirs, HeldSteps

\* A thread that has got to no connection holds none.
LEMMA HeldNone ==
  ASSUME NEW u, pc[u] # "unlock", step[u] = 0
  PROVE  HeldDirs(u) = {}
  BY DEF HeldDirs, HeldSteps

\* Nothing is locked or released, and no thread's phase says otherwise.
LEMMA LockFrame ==
  ASSUME HeldInv, OwnerInv, UNCHANGED <<lock, iLocked>>,
         \A u \in Tiles : HeldDirs(u)' = HeldDirs(u)
  PROVE  HeldInv' /\ OwnerInv'
  BY DEF HeldInv, OwnerInv

\* One connection fewer: what Unwind and Unlock have in common.
LEMMA ReleaseStep ==
  ASSUME TypeOK, HeldInv, OwnerInv, NEW t \in Tiles, NEW d \in Dir, UnlockDir(t, d),
         d \in HeldDirs(t), HeldDirs(t)' = HeldDirs(t) \ {d},
         \A u \in Tiles \ {t} : HeldDirs(u)' = HeldDirs(u)
  PROVE  HeldInv' /\ OwnerInv'
  <1>1. CASE IsConnected(t, d)
    <2>1. d \in iLocked[t]  BY <1>1 DEF HeldInv
    <2>2. lock[ConnectionOf(t, d)] = t  BY <1>1, <2>1 DEF OwnerInv
    <2>3. /\ lock' = [lock EXCEPT ![ConnectionOf(t, d)] = NoTile]
          /\ iLocked' = [iLocked EXCEPT ![t] = @ \ {d}]
      BY <1>1 DEF UnlockDir
    <2>4. OwnerInv'  BY <1>1, <2>2, <2>3, NoTileOutside, LockChange
    <2>5. HeldInv'  BY <2>3 DEF HeldInv, TypeOK
    <2>6. QED  BY <2>4, <2>5
  <1>2. CASE ~IsConnected(t, d)
    <2>1. UNCHANGED <<lock, iLocked>>  BY <1>2 DEF UnlockDir
    <2>2. HeldInv'  BY <1>2, <2>1 DEF HeldInv
    <2>3. OwnerInv'  BY <2>1 DEF OwnerInv
    <2>4. QED  BY <2>2, <2>3
  <1>3. QED  BY <1>1, <1>2

LEMMA LockStep ==
  ASSUME TypeOK, EventInv, HeldInv, OwnerInv, [Next]_vars
  PROVE  HeldInv' /\ OwnerInv'
  <1>1. ASSUME NEW t \in Tiles, NEW g \in EventCenters, CreateRandomWindow(t, g)
        PROVE  HeldInv' /\ OwnerInv'
    <2>1. /\ pc[t] = "idle" /\ step[t] = 0 /\ step'[t] = 0 /\ pc'[t] # "unlock"
          /\ UNCHANGED <<lock, iLocked>>
      BY <1>1 DEF CreateRandomWindow, Goto, EventInv, EventOK, TypeOK, lockVars
    <2>2. HeldDirs(t)' = {} /\ HeldDirs(t) = {}
      BY <2>1, HeldNone DEF HeldDirs, HeldSteps
    <2>3. \A u \in Tiles : HeldDirs(u)' = HeldDirs(u)
      BY <1>1, <2>2, HeldFrame DEF CreateRandomWindow, Goto, TypeOK, lockVars
    <2>4. QED  BY <2>1, <2>3, LockFrame
  <1>2. ASSUME NEW t \in Tiles, TryLock(t)
        PROVE  HeldInv' /\ OwnerInv'
    <2> DEFINE d == LockDir(t)
    <2>1. d \in Dir /\ HeldDirs(t)' = HeldDirs(t) \cup {d}  BY <1>2, HeldMore
    <2>2. \A u \in Tiles \ {t} : HeldDirs(u)' = HeldDirs(u)
      BY <1>2, HeldFrame DEF TryLock, Goto, TypeOK
    <2>3. CASE IsConnected(t, d)
      <3>1. /\ lock[ConnectionOf(t, d)] = NoTile
            /\ lock' = [lock EXCEPT ![ConnectionOf(t, d)] = t]
            /\ iLocked' = [iLocked EXCEPT ![t] = @ \cup {d}]
        BY <1>2, <2>3 DEF TryLock
      <3>2. OwnerInv'  BY <2>1, <2>3, <3>1, LockChange
      <3>3. HeldInv'  BY <2>1, <2>2, <2>3, <3>1 DEF HeldInv, TypeOK
      <3>4. QED  BY <3>2, <3>3
    <2>4. CASE ~IsConnected(t, d)
      <3>1. UNCHANGED <<lock, iLocked>>  BY <1>2, <2>4 DEF TryLock
      <3>2. HeldInv'  BY <2>1, <2>2, <2>4, <3>1 DEF HeldInv
      <3>3. OwnerInv'  BY <3>1 DEF OwnerInv
      <3>4. QED  BY <3>2, <3>3
    <2>5. QED  BY <2>3, <2>4
  <1>3. ASSUME NEW t \in Tiles, LockBusy(t)
        PROVE  HeldInv' /\ OwnerInv'
    <2>1. /\ pc[t] = "lock" /\ pc'[t] # "unlock" /\ UNCHANGED <<lock, iLocked, step>>
          /\ step[t] = 0 \/ region'[t] = region[t]
      BY <1>3 DEF LockBusy, Leave, Goto, TypeOK, lockVars
    <2>2. HeldDirs(t)' = HeldDirs(t)  BY <2>1 DEF HeldDirs, HeldSteps
    <2>3. \A u \in Tiles : HeldDirs(u)' = HeldDirs(u)
      BY <1>3, <2>2, HeldFrame DEF LockBusy, Leave, Goto, TypeOK, lockVars
    <2>4. QED  BY <2>1, <2>3, LockFrame
  <1>4. ASSUME NEW t \in Tiles, Unwind(t)
        PROVE  HeldInv' /\ OwnerInv'
    <2> DEFINE d == LastLocked(t)
    <2>1. /\ HeldDirs(t)' = HeldDirs(t) \ {d} /\ d \in Dir /\ d \in HeldDirs(t)
      <3>1. Unwind(t) /\ d = LastLocked(t)  BY <1>4
      <3>2. QED  BY <3>1, HeldLess
    <2>2. \A u \in Tiles \ {t} : HeldDirs(u)' = HeldDirs(u)
      BY <1>4, HeldFrame DEF Unwind, Leave, TypeOK
    <2>3. UnlockDir(t, d)  BY <1>4 DEF Unwind
    <2>4. QED  BY <2>1, <2>2, <2>3, ReleaseStep
  <1>5. ASSUME NEW t \in Tiles, Unlock(t)
        PROVE  HeldInv' /\ OwnerInv'
    <2> DEFINE d == LockDir(t)
    <2>1. /\ HeldDirs(t)' = HeldDirs(t) \ {d} /\ d \in Dir /\ d \in HeldDirs(t)
      BY <1>5, HeldLess
    <2>2. \A u \in Tiles \ {t} : HeldDirs(u)' = HeldDirs(u)
      BY <1>5, HeldFrame DEF Unlock, Leave, TypeOK
    <2>3. UnlockDir(t, d)  BY <1>5 DEF Unlock
    <2>4. QED  BY <2>1, <2>2, <2>3, ReleaseStep
  <1>6. ASSUME NEW t \in Tiles, EndPass(t)
        PROVE  HeldInv' /\ OwnerInv'
    <2>1. /\ pc[t] = "flush" /\ UNCHANGED <<lock, iLocked>>
          /\ region[t] # NoDir => step[t] = LockCount(region[t])
          /\ region[t] = NoDir => step[t] = 0
      BY <1>6 DEF EndPass, EventInv, EventOK
    <2>2. HeldDirs(t)' = HeldDirs(t)
      <3>1. CASE waitWord[t] # {}
        BY <1>6, <3>1, HeldFrame DEF EndPass
      <3>2. CASE waitWord[t] = {} /\ region[t] # NoDir
        <4>1. pc'[t] = "unlock" /\ step'[t] = 0 /\ region'[t] = region[t]
          BY <1>6, <3>2 DEF EndPass, Goto, TypeOK
        <4>2. QED  BY <2>1, <3>2, <4>1 DEF HeldDirs, HeldSteps
      <3>3. CASE waitWord[t] = {} /\ region[t] = NoDir
        <4>1. pc'[t] = "idle" /\ step'[t] = 0
          BY <1>6, <2>1, <3>3 DEF EndPass, Leave, TypeOK
        <4>2. QED  BY <2>1, <3>3, <4>1 DEF HeldDirs, HeldSteps
      <3>4. QED  BY <3>1, <3>2, <3>3
    <2>3. \A u \in Tiles : HeldDirs(u)' = HeldDirs(u)
      BY <1>6, <2>2, HeldFrame DEF EndPass, Leave, Goto, TypeOK
    <2>4. QED  BY <2>1, <2>3, LockFrame
  <1>7. ASSUME NEW t \in Tiles,
               \/ \E b \in Behaviours : Execute(t, b)
               \/ StartFlush(t)
        PROVE  HeldInv' /\ OwnerInv'
    <2>1. /\ pc[t] # "unlock" /\ pc'[t] # "unlock"
          /\ UNCHANGED <<lock, iLocked, step, region>>
      BY <1>7 DEF Execute, StartFlush, Goto, TypeOK, lockVars
    <2>2. HeldDirs(t)' = HeldDirs(t)  BY <2>1 DEF HeldDirs, HeldSteps
    <2>3. \A u \in Tiles : HeldDirs(u)' = HeldDirs(u)
      BY <1>7, <2>1, <2>2, HeldFrame DEF Execute, StartFlush, Goto, TypeOK
    <2>4. QED  BY <2>1, <2>3, LockFrame
  <1>8. ASSUME UNCHANGED <<lock, iLocked, pc, region, step>>
        PROVE  HeldInv' /\ OwnerInv'
    BY <1>8, HeldFrame, LockFrame
  <1>9. ASSUME NEW t \in Tiles,
               SendAtom(t) \/ SendEndEventPacket(t) \/ ReadPacket(t) \/ ScanNext(t)
        PROVE  HeldInv' /\ OwnerInv'
    BY <1>8, <1>9 DEF SendAtom, SendEndEventPacket, ReadPacket, ScanNext, lockVars
  <1>10. ASSUME Clear \/ \E g \in Watched, a \in Atoms : Edit(g, a)
         PROVE  HeldInv' /\ OwnerInv'
    BY <1>8, <1>10 DEF Clear, Edit, lockVars
  <1>11. QED
    BY <1>1, <1>2, <1>3, <1>4, <1>5, <1>6, <1>7, <1>8, <1>9, <1>10
    DEF Next, Step, vars
-----------------------------------------------------------------------------
(* Events never overlap *)

\* What a tile in an event holds: all the connections of its region.
LEMMA InEventHolds ==
  ASSUME TypeOK, EventInv, HeldInv, OwnerInv, NEW t \in Tiles, InEvent(t),
         NeedsLock(t, center[t]),
         NEW i \in 0 .. LockCount(VisibleAt(center[t])) - 1,
         IsConnected(t, LockDirAt(VisibleAt(center[t]), i))
  PROVE  lock[ConnectionOf(t, LockDirAt(VisibleAt(center[t]), i))] = t
  <1> DEFINE d == LockDirAt(VisibleAt(center[t]), i)
  <1>1. VisibleAt(center[t]) \in Dir  BY VisibleAtType DEF NeedsLock
  <1>2. /\ region[t] = VisibleAt(center[t]) /\ region[t] # NoDir
        /\ pc[t] \in {"execute", "report", "flush"}
    BY <1>1 DEF InEvent, EventInv, EventOK, Dir, NoDir
  <1>3. HeldSteps(t) = 0 .. LockCount(region[t]) - 1
    BY <1>2 DEF HeldSteps, EventInv, EventOK
  <1>4. d \in HeldDirs(t)  BY <1>2, <1>3 DEF HeldDirs
  <1>5. d \in Dir  BY <1>1, LockDirs
  <1>6. d \in iLocked[t]  BY <1>4 DEF HeldInv
  <1>7. QED  BY <1>5, <1>6 DEF OwnerInv

LEMMA LocksSeparate ==
  ASSUME TypeOK, EventInv, HeldInv, OwnerInv
  PROVE  EventsExclusive
  <1> SUFFICES ASSUME NEW t \in Tiles, NEW u \in Tiles, t # u,
                      InEvent(t), InEvent(u),
                      NEW g \in GridWindow(t), g \in GridWindow(u)
               PROVE  FALSE
    BY DEF EventsExclusive
  <1>1. PICK p \in Window(center[t]) : g = ToGrid(t, p)  BY DEF GridWindow
  <1>2. PICK q \in Window(center[u]) : g = ToGrid(u, q)  BY DEF GridWindow
  <1>3. center[t] \in OwnedPoints /\ center[u] \in OwnedPoints
    BY DEF InEvent, EventInv, EventOK
  <1>4. ToGrid(t, p) = ToGrid(u, q)  BY <1>1, <1>2
  <1>5. PICK d \in Dir :
          /\ IsConnected(t, d)
          /\ u = Neighbor(t, d)
          /\ ~IsInHidden(center[t]) /\ VisibleAt(center[t]) \in Dir
          /\ ~IsInHidden(center[u]) /\ VisibleAt(center[u]) \in Dir
          /\ \E i \in 0 .. LockCount(VisibleAt(center[t])) - 1 :
               d = LockDirAt(VisibleAt(center[t]), i)
          /\ \E i \in 0 .. LockCount(VisibleAt(center[u])) - 1 :
               OppositeDir(d) = LockDirAt(VisibleAt(center[u]), i)
    <2> DEFINE c == center[t]
               e == center[u]
    <2>1. c \in OwnedPoints /\ e \in OwnedPoints /\ p \in Window(c) /\ q \in Window(e)
      BY <1>3
    <2> HIDE DEF c, e
    <2>2. \E d \in Dir :
            /\ IsConnected(t, d)
            /\ u = Neighbor(t, d)
            /\ ~IsInHidden(c) /\ VisibleAt(c) \in Dir
            /\ ~IsInHidden(e) /\ VisibleAt(e) \in Dir
            /\ \E i \in 0 .. LockCount(VisibleAt(c)) - 1 :
                 d = LockDirAt(VisibleAt(c), i)
            /\ \E i \in 0 .. LockCount(VisibleAt(e)) - 1 :
                 OppositeDir(d) = LockDirAt(VisibleAt(e), i)
      BY <1>4, <2>1, OverlapIsLocked
    <2>3. QED  BY <2>2 DEF c, e
  <1>6. IsConnected(u, OppositeDir(d)) /\ ConnectionOf(u, OppositeDir(d)) = ConnectionOf(t, d)
    BY <1>5, ConnectionEnds
  <1>7. NeedsLock(t, center[t]) /\ NeedsLock(u, center[u])
    BY <1>5, <1>6, AnyConnection DEF NeedsLock
  <1>8. lock[ConnectionOf(t, d)] = t  BY <1>5, <1>7, InEventHolds
  <1>9. lock[ConnectionOf(u, OppositeDir(d))] = u  BY <1>5, <1>6, <1>7, InEventHolds
  <1>10. QED  BY <1>6, <1>8, <1>9
-----------------------------------------------------------------------------
(* What the connections carry *)

\* A link is as it was if its two buffers, its holder and what the tile waits
\* for are.
LEMMA LinkFrame ==
  ASSUME NEW u, NEW e, LinkOK(u, e),
         waitWord'[u] = waitWord[u], owed'[u] = owed[u],
         generation'[u] = generation[u],
         lock'[ConnectionOf(u, e)] = lock[ConnectionOf(u, e)],
         queue'[u][e] = queue[u][e],
         queue'[Neighbor(u, e)][OppositeDir(e)] = queue[Neighbor(u, e)][OppositeDir(e)]
  PROVE  LinkOK(u, e)'
  BY DEF LinkOK, Exchange, Silent, Writes, CompletePacket, AckPacket, Packet

\* The two ends of a link; no other tile and direction are on it.
LEMMA LinkEnds ==
  ASSUME NEW t \in Tiles, NEW d \in Dir, IsConnected(t, d),
         NEW u \in Tiles, NEW e \in Dir, IsConnected(u, e),
         ConnectionOf(u, e) = ConnectionOf(t, d)
  PROVE  \/ u = t /\ e = d
         \/ u = Neighbor(t, d) /\ e = OppositeDir(d)
  <1>1. CASE u = t  BY <1>1, ConnectionsDiffer
  <1>2. CASE u # t
    <2>1. u = Neighbor(t, d)  BY <1>2 DEF ConnectionOf
    <2>2. ConnectionOf(u, OppositeDir(d)) = ConnectionOf(u, e)
      BY <2>1, ConnectionEnds
    <2>3. OppositeDir(d) \in Dir  BY DirOffsets
    <2>4. QED  BY <2>1, <2>2, <2>3, ConnectionsDiffer
  <1>3. QED  BY <1>1, <1>2

LEMMA HandshakeInit == Init => Handshake /\ NoStrays
  <1> SUFFICES ASSUME Init PROVE Handshake /\ NoStrays  OBVIOUS
  <1>1. \A t \in Tiles, d \in Dir : queue[t][d] = <<>> /\ waitWord[t] = {}
    BY DEF Init
  <1>2. ASSUME NEW t \in Tiles, NEW d \in Dir, IsConnected(t, d)
        PROVE  LinkOK(t, d)
    <2>1. Silent(t, d)  BY <1>1, <1>2, ConnectionEnds, DirOffsets DEF Silent
    <2>2. QED  BY <1>1, <2>1 DEF LinkOK
  <1>3. QED  BY <1>1, <1>2 DEF Handshake, NoStrays

\* Locking a free link, or releasing one that its holder no longer waits on.
LEMMA HandOver ==
  ASSUME TypeOK, Handshake, NEW t \in Tiles, NEW d \in Dir, IsConnected(t, d),
         d \notin waitWord[t],
         NEW v \in {t, NoTile}, lock[ConnectionOf(t, d)] \in {t, NoTile},
         lock' = [lock EXCEPT ![ConnectionOf(t, d)] = v],
         UNCHANGED <<queue, waitWord, owed, generation>>
  PROVE  Handshake'
  <1> DEFINE k == ConnectionOf(t, d)
  <1> SUFFICES ASSUME NEW u \in Tiles, NEW e \in Dir, IsConnected(u, e)
               PROVE  LinkOK(u, e)'
    BY DEF Handshake
  <1>1. LinkOK(u, e) /\ LinkOK(t, d)  BY DEF Handshake
  <1>2. ConnectionOf(u, e) \in Connections /\ k \in Connections
    BY ConnectionEnds
  <1>3. CASE ConnectionOf(u, e) # k
    <2>1. lock'[ConnectionOf(u, e)] = lock[ConnectionOf(u, e)]
      BY <1>2, <1>3 DEF TypeOK
    <2>2. QED  BY <1>1, <2>1, LinkFrame
  <1>4. CASE ConnectionOf(u, e) = k
    <2>1. lock'[k] = v  BY <1>2 DEF TypeOK
    <2>2. Silent(t, d)  BY <1>1 DEF LinkOK
    <2>3. Silent(u, e)
      <3>1. CASE u = t /\ e = d  BY <2>2, <3>1
      <3>2. CASE u = Neighbor(t, d) /\ e = OppositeDir(d)
        BY <2>2, <3>2, ConnectionEnds, DirOffsets DEF Silent
      <3>3. QED  BY <1>4, <3>1, <3>2, LinkEnds
    <2>4. e \notin waitWord[u]
      <3>1. CASE u = t /\ e = d  BY <3>1
      <3>2. CASE u # t
        <4>1. lock[k] # u  BY <3>2, NoTileOutside
        <4>2. QED  BY <1>1, <1>4, <4>1 DEF LinkOK
      <3>3. QED  BY <1>4, <3>1, <3>2, LinkEnds, ConnectionEnds
    <2>5. Silent(u, e)'  BY <2>3 DEF Silent
    <2>6. QED  BY <2>4, <2>5 DEF LinkOK
  <1>5. QED  BY <1>3, <1>4

\* A packet joins the buffer at the far end of a link its sender holds and no
\* other, so only that end of that link has to be looked at.
LEMMA SendOnLink ==
  ASSUME TypeOK, Handshake, NoStrays,
         NEW t \in Tiles, NEW d \in Dir, IsConnected(t, d),
         lock[ConnectionOf(t, d)] = t, NEW packet, Send(t, d, packet),
         UNCHANGED <<lock, waitWord, generation>>,
         \A u \in Tiles \ {t} : owed'[u] = owed[u],
         \A e \in Dir \ {d} : e \in owed'[t] <=> e \in owed[t],
         LinkOK(t, d)'
  PROVE  Handshake' /\ NoStrays'
  <1> DEFINE n == Neighbor(t, d)
             o == OppositeDir(d)
  <1>1. n \in Tiles /\ o \in Dir /\ IsConnected(n, o) /\ ConnectionOf(n, o) = ConnectionOf(t, d)
    BY ConnectionEnds, DirOffsets
  <1>2. \A u \in Tiles, e \in Dir : ~(u = n /\ e = o) => queue'[u][e] = queue[u][e]
    BY <1>1 DEF Send, TypeOK
  <1>3. NoStrays'  BY <1>1, <1>2 DEF NoStrays
  <1>4. ASSUME NEW u \in Tiles, NEW e \in Dir, IsConnected(u, e)
        PROVE  LinkOK(u, e)'
    <2>1. LinkOK(u, e)  BY <1>4 DEF Handshake
    <2>2. CASE u = t /\ e = d  BY <2>2
    <2>3. CASE u = n /\ e = o
      <3>1. u # t /\ u # NoTile  BY <2>3, ConnectionEnds, NoTileOutside
      <3>2. lock[ConnectionOf(u, e)] = t  BY <1>1, <2>3
      <3>3. e \notin waitWord[u]  BY <2>1, <3>1, <3>2 DEF LinkOK
      <3>4. QED  BY <3>1, <3>2, <3>3, NoTileOutside DEF LinkOK
    <2>4. CASE ConnectionOf(u, e) # ConnectionOf(t, d)
      <3>1. queue'[u][e] = queue[u][e]  BY <1>1, <1>2, <2>4
      <3>2. queue'[Neighbor(u, e)][OppositeDir(e)] = queue[Neighbor(u, e)][OppositeDir(e)]
        <4>1. /\ Neighbor(u, e) \in Tiles /\ OppositeDir(e) \in Dir
              /\ ConnectionOf(Neighbor(u, e), OppositeDir(e)) = ConnectionOf(u, e)
          BY <1>4, ConnectionEnds, DirOffsets
        <4>2. QED  BY <1>1, <1>2, <2>4, <4>1
      <3>3. e \in owed'[u] <=> e \in owed[u]  BY <2>4
      <3>4. QED
        BY <2>1, <3>1, <3>2, <3>3
        DEF LinkOK, Exchange, Silent, Writes, CompletePacket, AckPacket, Packet
    <2>5. QED  BY <1>4, <2>2, <2>3, <2>4, LinkEnds
  <1>5. QED  BY <1>3, <1>4 DEF Handshake

\* While a link is waited on, its two buffers are typed and in the tile's hands.
LEMMA LinkBuffers ==
  ASSUME TypeOK, NEW t \in Tiles, NEW d \in Dir, IsConnected(t, d)
  PROVE  /\ queue[t][d] \in Seq(Packets)
         /\ queue[Neighbor(t, d)][OppositeDir(d)] \in Seq(Packets)
         /\ ~(Neighbor(t, d) = t /\ OppositeDir(d) = d)
  BY ConnectionEnds, DirOffsets DEF TypeOK

LEMMA SendAtomStep ==
  ASSUME TypeOK, EventInv, HeldInv, OwnerInv, Handshake, NoStrays,
         NEW t \in Tiles, SendAtom(t)
  PROVE  Handshake' /\ NoStrays'
  <1>1. PICK s \in outbox[t] :
          IF IsConnected(t, s[1])
          THEN Send(t, s[1], WritePacket(generation[t], s[1],
                                GetNeighborLoc(s[1], s[2]), atoms[t][s[2]]))
          ELSE UNCHANGED queue
    BY DEF SendAtom
  <1> DEFINE d == s[1]
             packet == WritePacket(generation[t], d, GetNeighborLoc(d, s[2]), atoms[t][s[2]])
             out == queue[Neighbor(t, d)][OppositeDir(d)]
  <1>2. d \in Dir /\ d \in owed[t] /\ d \in waitWord[t] /\ IsConnected(t, d)
    BY DEF TypeOK, EventInv, EventOK
  <1>3. lock[ConnectionOf(t, d)] = t /\ Exchange(t, d)
    BY <1>2 DEF Handshake, LinkOK
  <1>4. Send(t, d, packet)  BY <1>1, <1>2
  <1>5. UNCHANGED <<lock, waitWord, generation, owed>>  BY DEF SendAtom, lockVars
  <1>6. queue[t][d] = <<>> /\ Writes(out, Len(out), generation[t])
    BY <1>2, <1>3 DEF Exchange
  <1>7. /\ queue'[t][d] = queue[t][d]
        /\ queue'[Neighbor(t, d)][OppositeDir(d)] = Append(out, packet)
    BY <1>2, <1>4, LinkBuffers, ConnectionEnds, DirOffsets DEF Send, TypeOK
  <1>8. packet.type = "WRITE" /\ packet.generation = generation[t]
    BY DEF WritePacket, Packet
  <1>9. Writes(Append(out, packet), Len(out) + 1, generation[t])
    <2>1. out \in Seq(Packets)  BY <1>2, LinkBuffers
    <2> HIDE DEF out, packet
    <2>2. QED  BY <1>6, <1>8, <2>1 DEF Writes
  <1>10. Exchange(t, d)'
    <2>1. Len(Append(out, packet)) = Len(out) + 1  BY <1>2, LinkBuffers
    <2>2. QED  BY <1>2, <1>5, <1>6, <1>7, <1>9, <2>1 DEF Exchange, Writes
  <1>11. LinkOK(t, d)'  BY <1>2, <1>3, <1>5, <1>10, NoTileOutside DEF LinkOK
  <1>12. QED  BY <1>2, <1>3, <1>4, <1>5, <1>11, SendOnLink

LEMMA SendEndStep ==
  ASSUME TypeOK, EventInv, HeldInv, OwnerInv, Handshake, NoStrays,
         NEW t \in Tiles, SendEndEventPacket(t)
  PROVE  Handshake' /\ NoStrays'
  <1>1. PICK d \in owed[t] :
          /\ owed' = [owed EXCEPT ![t] = @ \ {d}]
          /\ IF IsConnected(t, d)
             THEN Send(t, d, CompletePacket(generation[t], d))
             ELSE UNCHANGED queue
    BY DEF SendEndEventPacket
  <1> DEFINE packet == CompletePacket(generation[t], d)
             out == queue[Neighbor(t, d)][OppositeDir(d)]
  <1>2. d \in Dir /\ d \in waitWord[t] /\ IsConnected(t, d)
    BY DEF TypeOK, EventInv, EventOK
  <1>3. lock[ConnectionOf(t, d)] = t /\ Exchange(t, d)
    BY <1>2 DEF Handshake, LinkOK
  <1>4. Send(t, d, packet)  BY <1>1, <1>2
  <1>5. UNCHANGED <<lock, waitWord, generation>>  BY DEF SendEndEventPacket, lockVars
  <1>6. queue[t][d] = <<>> /\ Writes(out, Len(out), generation[t])
    BY <1>2, <1>3 DEF Exchange
  <1>7. /\ queue'[t][d] = queue[t][d]
        /\ queue'[Neighbor(t, d)][OppositeDir(d)] = Append(out, packet)
    BY <1>2, <1>4, LinkBuffers, ConnectionEnds, DirOffsets DEF Send, TypeOK
  <1>8. /\ Len(Append(out, packet)) = Len(out) + 1
        /\ Append(out, packet)[Len(out) + 1] = packet
        /\ Writes(Append(out, packet), Len(out), generation[t])
        /\ Len(out) \in Nat
    <2>1. out \in Seq(Packets)  BY <1>2, LinkBuffers
    <2> HIDE DEF out, packet
    <2>2. QED  BY <1>6, <2>1 DEF Writes
  <1>9. d \notin owed'[t]  BY <1>1 DEF TypeOK
  <1>10. Exchange(t, d)'
    <2> DEFINE new == Append(out, packet)
    <2>1. Len(new) > 0 /\ new[Len(new)] = packet /\ Len(new) - 1 = Len(out)
      BY <1>8
    <2>2. packet = CompletePacket(generation'[t], d)  BY <1>5
    <2>3. Writes(new, Len(new) - 1, generation'[t])  BY <1>5, <1>8, <2>1
    <2>4. queue'[Neighbor(t, d)][OppositeDir(d)] = new /\ queue'[t][d] = <<>>
      BY <1>6, <1>7
    <2> HIDE DEF new, packet
    <2>5. QED
      BY <1>9, <2>1, <2>2, <2>3, <2>4 DEF Exchange, Writes, CompletePacket, Packet
  <1>11. LinkOK(t, d)'  BY <1>2, <1>3, <1>5, <1>10, NoTileOutside DEF LinkOK
  <1>12. /\ \A u \in Tiles \ {t} : owed'[u] = owed[u]
         /\ \A e \in Dir \ {d} : e \in owed'[t] <=> e \in owed[t]
    BY <1>1 DEF TypeOK
  <1>13. QED  BY <1>2, <1>3, <1>4, <1>5, <1>11, <1>12, SendOnLink
\* When only one link is touched, only its two ends have to be looked at.
LEMMA OneLink ==
  ASSUME Handshake, NEW t \in Tiles, NEW d \in Dir, IsConnected(t, d),
         UNCHANGED <<lock, generation, owed>>,
         \A u \in Tiles, e \in Dir :
           ConnectionOf(u, e) # ConnectionOf(t, d) =>
             /\ queue'[u][e] = queue[u][e]
             /\ e \in waitWord'[u] <=> e \in waitWord[u],
         LinkOK(t, d)', LinkOK(Neighbor(t, d), OppositeDir(d))'
  PROVE  Handshake'
  <1> SUFFICES ASSUME NEW u \in Tiles, NEW e \in Dir, IsConnected(u, e)
               PROVE  LinkOK(u, e)'
    BY DEF Handshake
  <1>1. CASE ConnectionOf(u, e) = ConnectionOf(t, d)  BY <1>1, LinkEnds
  <1>2. CASE ConnectionOf(u, e) # ConnectionOf(t, d)
    <2>1. LinkOK(u, e)  BY DEF Handshake
    <2>2. /\ Neighbor(u, e) \in Tiles /\ OppositeDir(e) \in Dir
          /\ ConnectionOf(Neighbor(u, e), OppositeDir(e)) = ConnectionOf(u, e)
      BY ConnectionEnds, DirOffsets
    <2>3. /\ queue'[u][e] = queue[u][e]
          /\ queue'[Neighbor(u, e)][OppositeDir(e)] = queue[Neighbor(u, e)][OppositeDir(e)]
          /\ e \in waitWord'[u] <=> e \in waitWord[u]
      BY <1>2, <2>2
    <2>4. QED
      BY <2>1, <2>3
      DEF LinkOK, Exchange, Silent, Writes, CompletePacket, AckPacket, Packet
  <1>3. QED  BY <1>1, <1>2

\* What a reader leaves of a buffer of atoms.
LEMMA WritesTail ==
  ASSUME NEW S, NEW q \in Seq(S), q # <<>>, NEW g
  PROVE  /\ Tail(q) \in Seq(S) /\ Head(q) = q[1]
         /\ Len(Tail(q)) = Len(q) - 1 /\ Len(q) \in Nat \ {0}
         /\ \A i \in 1 .. Len(q) - 1 : Tail(q)[i] = q[i + 1]
         /\ \A n \in 1 .. Len(q) : Writes(q, n, g) => Writes(Tail(q), n - 1, g) /\ q[1].type = "WRITE"
         /\ Len(q) = 1 => Tail(q) = <<>>
  <1>1. /\ Tail(q) \in Seq(S) /\ Head(q) = q[1]
        /\ Len(Tail(q)) = Len(q) - 1 /\ Len(q) \in Nat \ {0}
        /\ \A i \in 1 .. Len(q) - 1 : Tail(q)[i] = q[i + 1]
    OBVIOUS
  <1>2. ASSUME NEW n \in 1 .. Len(q), Writes(q, n, g)
        PROVE  Writes(Tail(q), n - 1, g) /\ q[1].type = "WRITE"
    BY <1>1, <1>2 DEF Writes
  <1>3. \A s \in Seq(S) : Len(s) = 0 => s = <<>>  OBVIOUS
  <1>4. Len(q) = 1 => Tail(q) = <<>>
    <2>1. Len(q) = 1 => Len(Tail(q)) = 0  BY <1>1
    <2>2. Tail(q) \in Seq(S)  BY <1>1
    <2>3. QED  BY <1>3, <2>1, <2>2
  <1>5. QED  BY <1>1, <1>2, <1>4

\* A packet is only ever read from a link that its reader's neighbour or the
\* reader itself holds and waits on, as the next packet of that exchange.
LEMMA ReadPacketStep ==
  ASSUME TypeOK, EventInv, HeldInv, OwnerInv, Handshake, NoStrays,
         NEW t \in Tiles, ReadPacket(t)
  PROVE  Handshake' /\ NoStrays'
  <1> SUFFICES ASSUME NEW d, d = scan[t], NEW n, n = Neighbor(t, d),
                      NEW o, o = OppositeDir(d), NEW k, k = ConnectionOf(t, d),
                      NEW q, q = queue[t][d],
                      NEW rest, rest = [queue EXCEPT ![t][d] = Tail(@)]
               PROVE  Handshake' /\ NoStrays'
    OBVIOUS
  <1>1. d \in Dir /\ q # <<>> /\ IsConnected(t, d)
    BY DEF ReadPacket, NoStrays
  <1>2. /\ Neighbor(t, d) = n /\ OppositeDir(d) = o /\ ConnectionOf(t, d) = k
        /\ n \in Tiles /\ o \in Dir /\ n # t /\ IsConnected(n, o)
        /\ Neighbor(n, o) = t /\ OppositeDir(o) = d /\ ConnectionOf(n, o) = k
    BY <1>1, ConnectionEnds, DirOffsets
  <1>3. LinkOK(t, d) /\ LinkOK(n, o)  BY <1>1, <1>2 DEF Handshake
  <1>4. /\ UNCHANGED <<generation, owed, lock>>
        /\ waitWord' = [waitWord EXCEPT ![t] =
              IF Head(q).type = "EVENT_ACKNOWLEDGE" THEN @ \ {d} ELSE @]
        /\ ReceivePacket(t, d, Head(q))
    BY DEF ReadPacket, lockVars
  <1>5. lock[k] = t \/ lock[k] = n
    <2>1. lock[k] # NoTile  BY <1>1, <1>3 DEF LinkOK, Silent
    <2>2. k \in Connections  BY <1>1, ConnectionEnds
    <2>3. lock[k] \in k \cup {NoTile}  BY <2>2 DEF OwnerInv
    <2>4. QED  BY <2>1, <2>3 DEF ConnectionOf
  <1>6. q \in Seq(Packets) /\ queue[n][o] \in Seq(Packets)
    BY <1>1, <1>2, LinkBuffers
  <1>7. /\ Tail(q) \in Seq(Packets) /\ Head(q) = q[1]
        /\ Len(Tail(q)) = Len(q) - 1 /\ Len(q) \in Nat \ {0}
        /\ \A i \in 1 .. Len(q) - 1 : Tail(q)[i] = q[i + 1]
        /\ \A i \in 1 .. Len(q) : \A g :
             Writes(q, i, g) => Writes(Tail(q), i - 1, g) /\ q[1].type = "WRITE"
        /\ Len(q) = 1 => Tail(q) = <<>>
    BY <1>1, <1>6, WritesTail
  <1>8. /\ rest[t][d] = Tail(q)
        /\ \A u \in Tiles, e \in Dir : ~(u = t /\ e = d) => rest[u][e] = queue[u][e]
        /\ rest \in [Tiles -> [Dir -> Seq(Packets)]]
    BY <1>1, <1>7 DEF TypeOK
  \* The tile reads the acknowledgment it waits for.
  <1>9. CASE lock[k] = t
    <2>1. d \in waitWord[t] /\ Exchange(t, d)
      BY <1>1, <1>3, <1>9, NoTileOutside DEF LinkOK, Silent
    <2>2. /\ queue[n][o] = <<>>
          /\ q = <<AckPacket(generation[t], o)>>
      BY <1>1, <2>1 DEF Exchange
    <2>3. Head(q).type = "EVENT_ACKNOWLEDGE"
      BY <2>2 DEF AckPacket, Packet
    <2>4. queue' = rest  BY <1>4, <2>3 DEF ReceivePacket
    <2>5. queue'[t][d] = <<>> /\ queue'[n][o] = <<>>
      <3>1. Len(q) = 1  BY <2>2
      <3>2. QED  BY <1>2, <1>7, <1>8, <2>2, <2>4, <3>1
    <2>6. d \notin waitWord'[t] /\ waitWord'[n] = waitWord[n]
      BY <1>2, <1>4, <2>3 DEF TypeOK
    <2>7. LinkOK(t, d)'  BY <2>5, <2>6 DEF LinkOK, Silent
    <2>8. LinkOK(n, o)'
      BY <1>2, <1>3, <1>4, <1>9, <2>6, NoTileOutside DEF LinkOK
    <2>9. ASSUME NEW u \in Tiles, NEW e \in Dir, ConnectionOf(u, e) # k
          PROVE  /\ queue'[u][e] = queue[u][e]
                 /\ e \in waitWord'[u] <=> e \in waitWord[u]
      BY <1>4, <1>8, <2>4, <2>9 DEF TypeOK
    <2>10. Handshake'
          BY <1>2, <1>1, <1>4, <2>7, <2>8, <2>9, OneLink
    <2>11. NoStrays'  BY <1>1, <1>8, <2>4 DEF NoStrays
    <2>12. QED  BY <2>10, <2>11
  \* It serves the neighbour that holds the link.
  <1>10. CASE lock[k] = n
    <2>1. o \in waitWord[n] /\ Exchange(n, o)
      BY <1>1, <1>2, <1>3, <1>10, NoTileOutside DEF LinkOK, Silent
    <2>2. d \notin waitWord[t]  BY <1>2, <1>3, <1>10 DEF LinkOK
    <2>3. waitWord' = waitWord
      <3>1. waitWord[t] \ {d} = waitWord[t]  BY <2>2
      <3>2. waitWord \in [Tiles -> SUBSET Dir]  BY DEF TypeOK
      <3>3. QED  BY <1>4, <3>1, <3>2
    <2>4. LinkOK(t, d)'  BY <1>2, <1>4, <1>10, <2>2, <2>3, NoTileOutside DEF LinkOK
    <2>5. CASE o \in owed[n]
      <3>1. queue[n][o] = <<>> /\ Writes(q, Len(q), generation[n])
        BY <1>2, <2>1, <2>5 DEF Exchange
      <3>2. q[1].type = "WRITE" /\ Writes(Tail(q), Len(q) - 1, generation[n])
        <4>1. Len(q) \in 1 .. Len(q)  BY <1>7
        <4>2. QED  BY <1>7, <3>1, <4>1
      <3>3. queue' = rest  BY <1>4, <1>7, <3>2 DEF ReceivePacket
      <3>4. queue'[n][o] = <<>> /\ queue'[t][d] = Tail(q)
        BY <1>2, <1>8, <3>1, <3>3
      <3>5. Exchange(n, o)'
        <4>1. owed'[n] = owed[n] /\ generation'[n] = generation[n]  BY <1>4
        <4>2. Len(queue'[t][d]) = Len(q) - 1  BY <1>7, <3>4
        <4>3. Writes(queue'[t][d], Len(queue'[t][d]), generation'[n])  BY <3>2, <3>4, <4>1, <4>2
        <4>4. QED  BY <1>2, <2>5, <3>4, <4>1, <4>3 DEF Exchange
      <3>6. LinkOK(n, o)'
        BY <1>2, <1>4, <1>10, <2>1, <2>3, <3>5, NoTileOutside DEF LinkOK
      <3>7. \A u \in Tiles, e \in Dir : ConnectionOf(u, e) # k =>
              /\ queue'[u][e] = queue[u][e]
              /\ e \in waitWord'[u] <=> e \in waitWord[u]
        BY <1>8, <2>3, <3>3
      <3>8. Handshake'
          BY <1>2, <1>1, <1>4, <2>4, <3>6, <3>7, OneLink
      <3>9. NoStrays'  BY <1>1, <1>8, <3>3 DEF NoStrays
      <3>10. QED  BY <3>8, <3>9
    <2>6. CASE o \notin owed[n]
      <3>1. /\ queue[n][o] = <<>>
            /\ q[Len(q)] = CompletePacket(generation[n], o)
            /\ Writes(q, Len(q) - 1, generation[n])
        BY <1>1, <1>2, <2>1, <2>6 DEF Exchange
      <3>2. CASE Len(q) > 1
        <4>1. q[1].type = "WRITE" /\ Writes(Tail(q), Len(q) - 2, generation[n])
          <5>1. Len(q) - 1 \in 1 .. Len(q)  BY <1>7, <3>2
          <5>2. Len(q) - 1 - 1 = Len(q) - 2  BY <1>7
          <5>3. QED  BY <1>7, <3>1, <5>1, <5>2
        <4>2. queue' = rest  BY <1>4, <1>7, <4>1 DEF ReceivePacket
        <4>3. queue'[n][o] = <<>> /\ queue'[t][d] = Tail(q)
          BY <1>2, <1>8, <3>1, <4>2
        <4>4. /\ Len(Tail(q)) > 0
              /\ Tail(q)[Len(Tail(q))] = CompletePacket(generation[n], o)
              /\ Writes(Tail(q), Len(Tail(q)) - 1, generation[n])
          <5>1. Len(q) - 1 \in 1 .. Len(q) - 1  BY <1>7, <3>2
          <5>2. Tail(q)[Len(q) - 1] = q[(Len(q) - 1) + 1]  BY <1>7, <5>1
          <5>3. (Len(q) - 1) + 1 = Len(q) /\ (Len(q) - 1) - 1 = Len(q) - 2  BY <1>7
          <5>4. QED  BY <1>7, <3>1, <3>2, <4>1, <5>2, <5>3
        <4>5. Exchange(n, o)'
          BY <1>2, <1>4, <2>6, <4>3, <4>4
          DEF Exchange, Writes, CompletePacket, Packet
        <4>6. LinkOK(n, o)'
          BY <1>2, <1>4, <1>10, <2>1, <2>3, <4>5, NoTileOutside DEF LinkOK
        <4>7. \A u \in Tiles, e \in Dir : ConnectionOf(u, e) # k =>
                /\ queue'[u][e] = queue[u][e]
                /\ e \in waitWord'[u] <=> e \in waitWord[u]
          BY <1>8, <2>3, <4>2
        <4>8. Handshake'
          BY <1>2, <1>1, <1>4, <2>4, <4>6, <4>7, OneLink
        <4>9. NoStrays'  BY <1>1, <1>8, <4>2 DEF NoStrays
        <4>10. QED  BY <4>8, <4>9
      <3>3. CASE Len(q) = 1
        <4> SUFFICES ASSUME NEW ack, ack = AckPacket(generation[n], d)
                     PROVE  Handshake' /\ NoStrays'
          OBVIOUS
        <4>1. Head(q) = CompletePacket(generation[n], o)  BY <1>7, <3>1, <3>3
        <4>2. queue' = [rest EXCEPT ![n][o] = Append(@, ack)]
          <5>1. /\ Head(q).type = "EVENT_COMPLETE" /\ Head(q).neighbor = o
                /\ Head(q).generation = generation[n]
            BY <4>1 DEF CompletePacket, Packet
          <5>2. queue' = [rest EXCEPT ![Neighbor(t, d)][OppositeDir(d)] =
                            Append(@, AckPacket(generation[n], d))]
            BY <1>2, <1>4, <5>1 DEF ReceivePacket
          <5>3. QED  BY <1>2, <5>2
        <4>3. queue'[n][o] = <<ack>> /\ queue'[t][d] = <<>>
          <5>1. rest[n][o] = <<>>  BY <1>2, <1>8, <3>1
          <5>2. Append(rest[n][o], ack) = <<ack>>
            <6>1. ack \in Packets
              BY <1>1, <1>2, BehaviourAssumption
              DEF AckPacket, Packet, Packets, TypeOK, NoPoint
            <6>2. Append(<<>>, ack) = <<ack>>  BY <6>1
            <6>3. QED  BY <5>1, <6>2
          <5>3. queue'[n][o] = Append(rest[n][o], ack) /\ queue'[t][d] = rest[t][d]
            BY <1>1, <1>2, <1>8, <4>2
          <5>4. QED  BY <1>7, <1>8, <3>3, <5>2, <5>3
        <4>4. Exchange(n, o)'
          BY <1>2, <1>4, <2>6, <4>3 DEF Exchange, AckPacket, Packet
        <4>5. LinkOK(n, o)'
          BY <1>2, <1>4, <1>10, <2>1, <2>3, <4>4, NoTileOutside DEF LinkOK
        <4>6. \A u \in Tiles, e \in Dir :
                ~(u = t /\ e = d) /\ ~(u = n /\ e = o) => queue'[u][e] = queue[u][e]
          BY <1>2, <1>8, <4>2
        <4>7. \A u \in Tiles, e \in Dir : ConnectionOf(u, e) # k =>
                /\ queue'[u][e] = queue[u][e]
                /\ e \in waitWord'[u] <=> e \in waitWord[u]
          BY <1>2, <2>3, <4>6
        <4>8. Handshake'
          BY <1>2, <1>1, <1>4, <2>4, <4>5, <4>7, OneLink
        <4>9. NoStrays'  BY <1>1, <1>2, <4>6 DEF NoStrays
        <4>10. QED  BY <4>8, <4>9
      <3>4. Len(q) > 1 \/ Len(q) = 1
        <4>1. Len(q) \in Nat \ {0}  BY <1>7
        <4>2. \A l \in Nat \ {0} : l > 1 \/ l = 1  OBVIOUS
        <4>3. QED  BY <4>1, <4>2
      <3>5. QED  BY <3>2, <3>3, <3>4
    <2>7. QED  BY <2>5, <2>6
  <1>11. QED  BY <1>5, <1>9, <1>10

\* Nothing is sent, read, locked or waited for.
LEMMA LinksFrame ==
  ASSUME Handshake, NoStrays, UNCHANGED <<queue, lock, waitWord, owed, generation>>
  PROVE  Handshake' /\ NoStrays'
  <1>1. Handshake'  BY LinkFrame DEF Handshake
  <1>2. NoStrays'  BY DEF NoStrays
  <1>3. QED  BY <1>1, <1>2

\* An event starts its exchanges on connections it holds, all silent.
LEMMA ExecuteStep ==
  ASSUME TypeOK, EventInv, Handshake, NoStrays, EventInv', HeldInv', OwnerInv',
         NEW t \in Tiles, NEW b \in Behaviours, Execute(t, b)
  PROVE  Handshake' /\ NoStrays'
  <1>1. /\ UNCHANGED <<queue, lock, generation>>
        /\ owed' = [owed EXCEPT ![t] = Reached(t, center[t])]
        /\ waitWord' = [waitWord EXCEPT ![t] = Reached(t, center[t])]
    BY DEF Execute, lockVars
  <1>2. waitWord[t] = {} /\ owed'[t] = waitWord'[t]
    <2>1. waitWord[t] = {}  BY DEF Execute, EventInv, EventOK
    <2>2. waitWord'[t] = Reached(t, center[t]) /\ owed'[t] = Reached(t, center[t])
      BY <1>1 DEF TypeOK
    <2>3. QED  BY <2>1, <2>2
  <1>3. ASSUME NEW u \in Tiles, NEW e \in Dir, IsConnected(u, e)
        PROVE  LinkOK(u, e)'
    <2>1. LinkOK(u, e)  BY <1>3 DEF Handshake
    <2>2. CASE u # t
      <3>1. owed'[u] = owed[u] /\ waitWord'[u] = waitWord[u]
        BY <1>1, <2>2 DEF TypeOK
      <3>2. QED  BY <1>1, <2>1, <3>1, LinkFrame
    <2>3. CASE u = t /\ e \notin waitWord'[t]
      BY <1>1, <1>2, <2>1, <2>3 DEF LinkOK, Silent
    <2>4. CASE u = t /\ e \in waitWord'[t]
      <3>1. e \in iLocked'[t]
        BY <1>3, <2>4 DEF EventInv, EventOK, HeldInv
      <3>2. lock'[ConnectionOf(t, e)] = t  BY <1>3, <2>4, <3>1 DEF OwnerInv
      <3>3. Silent(t, e)  BY <1>1, <1>2, <2>1, <2>4, <3>2 DEF LinkOK
      <3>4. Silent(t, e)'  BY <1>1, <3>3 DEF Silent
      <3>5. Exchange(t, e)'  BY <1>2, <2>4, <3>4 DEF Silent, Exchange, Writes
      <3>6. QED  BY <2>4, <3>2, <3>5, NoTileOutside DEF LinkOK
    <2>5. QED  BY <2>2, <2>3, <2>4
  <1>4. NoStrays'  BY <1>1 DEF NoStrays
  <1>5. QED  BY <1>3, <1>4 DEF Handshake

\* Releasing one connection the tile holds, while it waits for nothing.
LEMMA ReleaseLink ==
  ASSUME TypeOK, HeldInv, OwnerInv, Handshake, NoStrays,
         NEW t \in Tiles, NEW d \in Dir, UnlockDir(t, d), d \in HeldDirs(t),
         waitWord[t] = {}, UNCHANGED <<queue, waitWord, owed, generation>>
  PROVE  Handshake' /\ NoStrays'
  <1>1. CASE IsConnected(t, d)
    <2>1. lock[ConnectionOf(t, d)] = t  BY <1>1 DEF HeldInv, OwnerInv
    <2>2. lock' = [lock EXCEPT ![ConnectionOf(t, d)] = NoTile]
      BY <1>1 DEF UnlockDir
    <2>3. Handshake'  BY <1>1, <2>1, <2>2, HandOver
    <2>4. NoStrays'  BY DEF NoStrays
    <2>5. QED  BY <2>3, <2>4
  <1>2. CASE ~IsConnected(t, d)
    BY <1>2, LinksFrame DEF UnlockDir
  <1>3. QED  BY <1>1, <1>2

LEMMA HandshakeStep ==
  ASSUME IInv, [Next]_vars, EventInv', HeldInv', OwnerInv'
  PROVE  Handshake' /\ NoStrays'
  <1> USE DEF IInv
  <1>1. ASSUME NEW t \in Tiles, TryLock(t)
        PROVE  Handshake' /\ NoStrays'
    <2> DEFINE d == LockDir(t)
    <2>1. /\ d \in Dir /\ waitWord[t] = {}
          /\ UNCHANGED <<queue, waitWord, owed, generation>>
      BY <1>1, HeldMore DEF TryLock, EventInv, EventOK, reportVars
    <2>2. CASE IsConnected(t, d)
      <3>1. /\ lock[ConnectionOf(t, d)] = NoTile
            /\ lock' = [lock EXCEPT ![ConnectionOf(t, d)] = t]
        BY <1>1, <2>2 DEF TryLock
      <3>2. Handshake'  BY <2>1, <2>2, <3>1, HandOver
      <3>3. NoStrays'  BY <2>1 DEF NoStrays
      <3>4. QED  BY <3>2, <3>3
    <2>3. CASE ~IsConnected(t, d)
      BY <1>1, <2>1, <2>3, LinksFrame DEF TryLock
    <2>4. QED  BY <2>2, <2>3
  <1>2. ASSUME NEW t \in Tiles, Unwind(t)
        PROVE  Handshake' /\ NoStrays'
    <2>1. /\ LastLocked(t) \in Dir /\ LastLocked(t) \in HeldDirs(t)
      <3> DEFINE d == LastLocked(t)
      <3>1. Unwind(t) /\ d = LastLocked(t)  BY <1>2
      <3>2. QED  BY <3>1, HeldLess
    <2>2. /\ UnlockDir(t, LastLocked(t)) /\ waitWord[t] = {}
          /\ UNCHANGED <<queue, waitWord, owed, generation>>
      BY <1>2 DEF Unwind, EventInv, EventOK, reportVars
    <2>3. QED  BY <2>1, <2>2, ReleaseLink
  <1>3. ASSUME NEW t \in Tiles, Unlock(t)
        PROVE  Handshake' /\ NoStrays'
    <2>1. /\ LockDir(t) \in Dir /\ LockDir(t) \in HeldDirs(t)
      BY <1>3, HeldLess
    <2>2. /\ UnlockDir(t, LockDir(t)) /\ waitWord[t] = {}
          /\ UNCHANGED <<queue, waitWord, owed, generation>>
      BY <1>3 DEF Unlock, EventInv, EventOK, reportVars
    <2>3. QED  BY <2>1, <2>2, ReleaseLink
  <1>4. ASSUME NEW t \in Tiles, NEW b \in Behaviours, Execute(t, b)
        PROVE  Handshake' /\ NoStrays'
    BY <1>4, ExecuteStep
  <1>5. ASSUME NEW t \in Tiles, SendAtom(t)
        PROVE  Handshake' /\ NoStrays'
    BY <1>5, SendAtomStep
  <1>6. ASSUME NEW t \in Tiles, SendEndEventPacket(t)
        PROVE  Handshake' /\ NoStrays'
    BY <1>6, SendEndStep
  <1>7. ASSUME NEW t \in Tiles, ReadPacket(t)
        PROVE  Handshake' /\ NoStrays'
    BY <1>7, ReadPacketStep
  <1>8. ASSUME NEW t \in Tiles,
               \/ \E g \in EventCenters : CreateRandomWindow(t, g)
               \/ LockBusy(t)
               \/ StartFlush(t)
               \/ ScanNext(t)
               \/ EndPass(t)
        PROVE  Handshake' /\ NoStrays'
    <2>1. UNCHANGED <<queue, lock, waitWord, owed, generation>>
      BY <1>8
      DEF CreateRandomWindow, LockBusy, StartFlush, ScanNext, EndPass,
          lockVars, reportVars
    <2>2. QED  BY <2>1, LinksFrame
  <1>9. ASSUME NEW g \in Watched, NEW a \in Atoms, Edit(g, a)
        PROVE  Handshake' /\ NoStrays'
    <2>1. UNCHANGED <<queue, lock, waitWord, owed, generation>>
      BY <1>9 DEF Edit, lockVars, reportVars
    <2>2. QED  BY <2>1, LinksFrame
  \* Clear changes the generation, but then nobody is waiting for anything.
  <1>10. ASSUME Clear
         PROVE  Handshake' /\ NoStrays'
    <2>1. UNCHANGED <<queue, lock, waitWord, owed>> /\ \A t \in Tiles : waitWord[t] = {}
      BY <1>10 DEF Clear, Stopped, EventInv, EventOK, lockVars, reportVars
    <2>2. Handshake'  BY <2>1 DEF Handshake, LinkOK, Silent
    <2>3. NoStrays'  BY <2>1 DEF NoStrays
    <2>4. QED  BY <2>2, <2>3
  <1>11. CASE UNCHANGED vars  BY <1>11, LinksFrame DEF vars
  <1>12. QED
    BY <1>1, <1>2, <1>3, <1>4, <1>5, <1>6, <1>7, <1>8, <1>9, <1>10, <1>11
    DEF Next, Step
-----------------------------------------------------------------------------
(* The theorems *)

LEMMA InvImpliesAsserts == IInv => AssertsHold
  <1> SUFFICES ASSUME IInv, NEW t \in Tiles
               PROVE  /\ pc[t] = "lock" => LockDir(t) \notin iLocked[t]
                      /\ pc[t] = "unlock" /\ IsConnected(t, LockDir(t))
                           => LockDir(t) \in iLocked[t]
                      /\ pc[t] = "unwind" /\ IsConnected(t, LastLocked(t))
                           => LastLocked(t) \in iLocked[t]
                      /\ pc[t] = "flush" /\ scan[t] \in waitWord[t]
                           /\ queue[t][scan[t]] # <<>>
                           => Head(queue[t][scan[t]]).type = "EVENT_ACKNOWLEDGE"
    BY DEF AssertsHold
  <1>0. TypeOK /\ EventOK(t) /\ iLocked[t] = {d \in HeldDirs(t) : IsConnected(t, d)}
    BY DEF IInv, EventInv, HeldInv
  <1>1. ASSUME pc[t] = "lock"
        PROVE  LockDir(t) \notin iLocked[t]
    <2>1. region[t] \in Dir /\ step[t] \in 0 .. LockCount(region[t]) - 1
      BY <1>0, <1>1 DEF EventOK, TypeOK
    <2>2. HeldDirs(t) = {LockDirAt(region[t], i) : i \in 0 .. step[t] - 1}
      BY <1>1 DEF HeldDirs, HeldSteps
    <2>3. SUFFICES ASSUME NEW i \in 0 .. step[t] - 1,
                          LockDir(t) = LockDirAt(region[t], i)
                   PROVE  FALSE
      BY <1>0, <2>2
    <2>4. LockCount(region[t]) \in {1, 3}  BY <2>1, LockDirs
    <2>5. i \in 0 .. LockCount(region[t]) - 1 /\ i # step[t]  BY <2>1, <2>4
    <2>6. QED  BY <2>1, <2>3, <2>5, LockDirsDiffer DEF LockDir
  <1>2. ASSUME pc[t] = "unlock", IsConnected(t, LockDir(t))
        PROVE  LockDir(t) \in iLocked[t]
    <2>1. region[t] \in Dir /\ step[t] \in 0 .. LockCount(region[t]) - 1
      BY <1>0, <1>2 DEF EventOK, TypeOK
    <2>2. LockCount(region[t]) \in {1, 3}  BY <2>1, LockDirs
    <2>3. step[t] \in HeldSteps(t)  BY <1>2, <2>1, <2>2 DEF HeldSteps
    <2>4. QED  BY <1>0, <1>2, <2>3 DEF HeldDirs, LockDir
  <1>3. ASSUME pc[t] = "unwind", IsConnected(t, LastLocked(t))
        PROVE  LastLocked(t) \in iLocked[t]
    <2>1. region[t] \in Dir /\ step[t] \in 1 .. LockCount(region[t]) - 1
      BY <1>0, <1>3 DEF EventOK, TypeOK
    <2>2. LockCount(region[t]) \in {1, 3}  BY <2>1, LockDirs
    <2>3. step[t] - 1 \in HeldSteps(t)  BY <1>3, <2>1, <2>2 DEF HeldSteps
    <2>4. QED  BY <1>0, <1>3, <2>3 DEF HeldDirs, LastLocked
  <1>4. ASSUME pc[t] = "flush", scan[t] \in waitWord[t], queue[t][scan[t]] # <<>>
        PROVE  Head(queue[t][scan[t]]).type = "EVENT_ACKNOWLEDGE"
    <2>1. scan[t] \in Dir /\ IsConnected(t, scan[t]) /\ owed[t] = {}
      BY <1>0, <1>4 DEF EventOK, TypeOK
    <2>2. Exchange(t, scan[t])  BY <1>4, <2>1 DEF IInv, Handshake, LinkOK
    <2>3. queue[t][scan[t]] = <<AckPacket(generation[t], OppositeDir(scan[t]))>>
      BY <1>4, <2>1, <2>2 DEF Exchange
    <2>4. Head(queue[t][scan[t]]) = AckPacket(generation[t], OppositeDir(scan[t]))
      BY <2>3
    <2>5. QED  BY <2>4 DEF AckPacket, Packet
  <1>5. QED  BY <1>1, <1>2, <1>3, <1>4

LEMMA InvImpliesClean == IInv => StoppedIsClean
  <1> SUFFICES ASSUME IInv, Stopped
               PROVE  /\ \A k \in Connections : lock[k] = NoTile
                      /\ \A t \in Tiles, d \in Dir : queue[t][d] = <<>>
    BY DEF StoppedIsClean
  <1>1. \A t \in Tiles : iLocked[t] = {}
    <2> TAKE t \in Tiles
    <2>1. pc[t] # "unlock" /\ step[t] = 0
      BY DEF Stopped, IInv, EventInv, EventOK
    <2>2. QED  BY <2>1, HeldNone DEF IInv, HeldInv
  <1>2. \A t \in Tiles, d \in Dir : IsConnected(t, d) => lock[ConnectionOf(t, d)] = NoTile
    <2> TAKE t \in Tiles, d \in Dir
    <2> HAVE IsConnected(t, d)
    <2> DEFINE k == ConnectionOf(t, d)
    <2>1. /\ Neighbor(t, d) \in Tiles /\ OppositeDir(d) \in Dir
          /\ IsConnected(Neighbor(t, d), OppositeDir(d))
          /\ ConnectionOf(Neighbor(t, d), OppositeDir(d)) = k /\ k \in Connections
      BY ConnectionEnds, DirOffsets
    <2>2. lock[k] # t /\ lock[k] # Neighbor(t, d)
      BY <1>1, <2>1 DEF IInv, OwnerInv
    <2>3. lock[k] \in k \cup {NoTile}  BY <2>1 DEF IInv, OwnerInv
    <2>4. QED  BY <2>2, <2>3 DEF ConnectionOf
  <1>3. \A k \in Connections : lock[k] = NoTile
    BY <1>2 DEF Connections, ConnectionOf, IsConnected
  <1>4. \A t \in Tiles, d \in Dir : queue[t][d] = <<>>
    BY <1>2 DEF IInv, NoStrays, Handshake, LinkOK, Silent
  <1>5. QED  BY <1>3, <1>4

\* The whole of the protocol's bookkeeping, in one invariant: each phase of an
\* event, the locks it holds, and the packets on every connection.
THEOREM Inductive == Spec => []IInv
  <1>1. Init => IInv
    BY TypeInit, EventInit, LockInit, HandshakeInit DEF IInv
  <1>2. IInv /\ [Next]_vars => IInv'
    <2> SUFFICES ASSUME IInv, [Next]_vars PROVE IInv'  OBVIOUS
    <2>1. TypeOK'  BY TypeStep DEF IInv
    <2>2. EventInv'  BY EventStep DEF IInv
    <2>3. HeldInv' /\ OwnerInv'  BY LockStep DEF IInv
    <2>4. Handshake' /\ NoStrays'  BY <2>2, <2>3, HandshakeStep
    <2>5. QED  BY <2>1, <2>2, <2>3, <2>4 DEF IInv
  <1>3. QED  BY <1>1, <1>2, PTL DEF Spec

\* Every variable keeps to the values of its C++ type.
THEOREM TypeCorrect == Spec => []TypeOK
  <1>1. IInv => TypeOK  BY DEF IInv
  <1>2. QED  BY <1>1, Inductive, PTL

\* LockRegion does what it is for: on every grid, two events in progress at
\* once, wherever they are, never have a site in common.
THEOREM EventsAreExclusive == Spec => []EventsExclusive
  <1>1. IInv => EventsExclusive  BY LocksSeparate DEF IInv
  <1>2. QED  BY <1>1, Inductive, PTL

\* The exchange of packets: a connection carries nothing but the half-finished
\* exchange of the tile that holds it (SendAtom, SendEndEventPackets,
\* SendAcknowledgmentPacket, ReceivePacket).
THEOREM ExchangesKeepApart == Spec => []Handshake
  <1>1. IInv => Handshake  BY DEF IInv
  <1>2. QED  BY <1>1, Inductive, PTL

\* The asserts on m_iLocked in TryLock and UnlockDir, and the FAIL in
\* FlushAndWaitOnAllBuffers on an unexpected packet, are never hit.
THEOREM NoAssertFails == Spec => []AssertsHold
  <1>1. QED  BY InvImpliesAsserts, Inductive, PTL

\* A grid whose threads are all between events holds no lock and has no packet
\* under way: Grid::Clear, PlaceAtom and CheckCaches find it at rest.
THEOREM RestIsClean == Spec => []StoppedIsClean
  <1>1. QED  BY InvImpliesClean, Inductive, PTL

-----------------------------------------------------------------------------
(* With IInv known: the window of an event stays as its behaviour left it, *)
(* the copies of a site agree except while an event there is being         *)
(* reported, and no buffer ever holds more than a window and its           *)
(* completion.  At the end, the tiles implement the one grid of            *)
(* SharedGrid: every step of a thread or of the driver is a step of that   *)
(* grid, or changes nothing it has.                                        *)

\* The sites followed of the window of tile t's event.
Frame(t) == Window(center[t]) \cap Locals(t)

\* Where the packets that tile t sends in direction d wait to be read.
Outgoing(t, d) == queue[Neighbor(t, d)][OppositeDir(d)]

\* The packet that tells the neighbour in direction d of the atom at point p.
News(t, d, p) == WritePacket(generation[t], d, GetNeighborLoc(d, p), atoms[t][p])

\* No tile takes a packet of the others for one sent before a clear.
GenerationsAgree == \A t, u \in Tiles : generation[t] = generation[u]

\* What is left to send is of the window.
OutboxTrue ==
  \A t \in Tiles : \A s \in outbox[t] : s[2] \in Frame(t) /\ s[1] \in SendDirs(t, s[2])

\* What has been sent and not read is still true of the sender's window.
TransitTrue ==
  \A t \in Tiles : \A d \in waitWord[t] : \A i \in 1 .. Len(Outgoing(t, d)) :
    Outgoing(t, d)[i].type = "WRITE" =>
      \E p \in Frame(t) : d \in SendDirs(t, p) /\ Outgoing(t, d)[i] = News(t, d, p)

\* An atom of the window is to be sent, is under way, or has arrived.
Delivered ==
  \A t \in Tiles : Reporting(t) =>
    \A p \in Frame(t) : \A d \in SendDirs(t, p) :
      \/ <<d, p>> \in outbox[t]
      \/ \E i \in 1 .. Len(Outgoing(t, d)) : Outgoing(t, d)[i] = News(t, d, p)
      \/ atoms[Neighbor(t, d)][GetNeighborLoc(d, p)] = atoms[t][p]

\* What is still to be sent in direction d, of the list S.
Toward(S, d) == {s \in S : s[1] = d}

\* What each buffer holds, and what may still be put in it, fits.
Room ==
  \A t \in Tiles : \A d \in waitWord[t] :
    Len(Outgoing(t, d)) + Cardinality(Toward(outbox[t], d))
      + (IF d \in owed[t] THEN 1 ELSE 0) <= Cardinality(Frame(t)) + 1

CopyInv == GenerationsAgree /\ OutboxTrue /\ TransitTrue /\ Delivered /\ CachesAgree
-----------------------------------------------------------------------------
(* Where the copies of a site are *)

\* Along one axis tiles i and j hold the same site only where one is next to
\* the other, and then the site is shared on that side of i.
LEMMA AxisHeld ==
  ASSUME NEW i \in Int, NEW j \in Int,
         NEW v \in 0 .. TILE_WIDTH - 1, NEW w \in 0 .. TILE_WIDTH - 1,
         i * OWNED_SIDE + v - R = j * OWNED_SIDE + w - R
  PROVE  /\ j - i \in {-1, 0, 1}
         /\ w = v - (j - i) * OWNED_SIDE
         /\ j - i = 1 => v >= TILE_WIDTH - 2 * R
         /\ j - i = -1 => v < 2 * R
  <1> SUFFICES ASSUME NEW n \in Int, n = OWNED_SIDE, NEW k \in Int, k = j - i
               PROVE  /\ k \in {-1, 0, 1}
                      /\ w = v - k * n
                      /\ k = 1 => v >= TILE_WIDTH - 2 * R
                      /\ k = -1 => v < 2 * R
    BY Sizes
  <1>1. /\ R \in Int /\ R >= 1 /\ n >= 4 * R
        /\ TILE_WIDTH = n + 2 * R /\ TILE_WIDTH \in Int
    BY Sizes
  <1>2. v \in Int /\ v >= 0 /\ v < n + 2 * R /\ w \in Int /\ w >= 0 /\ w < n + 2 * R
    BY <1>1
  <1>3. j * n = i * n + k * n
    <2>1. j = i + k  OBVIOUS
    <2>2. (i + k) * n = i * n + k * n  OBVIOUS
    <2>3. QED  BY <2>1, <2>2
  <1>4. w = v - k * n
    <2>1. i * n \in Int /\ k * n \in Int  OBVIOUS
    <2>2. QED  BY <1>1, <1>2, <1>3, <2>1
  <1>5. k <= 1
    <2>1. SUFFICES ASSUME k >= 2 PROVE FALSE  OBVIOUS
    <2>2. k * n >= 2 * n
      <3>1. k - 2 \in Nat /\ n \in Nat  BY <1>1, <2>1
      <3>2. (k - 2) * n >= 0  BY <3>1
      <3>3. (k - 2) * n = k * n - 2 * n  OBVIOUS
      <3>4. QED  BY <3>2, <3>3
    <2>3. k * n \in Int  OBVIOUS
    <2>4. QED  BY <1>1, <1>2, <1>4, <2>2, <2>3
  <1>6. k >= -1
    <2>1. SUFFICES ASSUME k <= -2 PROVE FALSE  OBVIOUS
    <2>2. k * n <= -2 * n
      <3>1. -2 - k \in Nat /\ n \in Nat  BY <1>1, <2>1
      <3>2. (-2 - k) * n >= 0  BY <3>1
      <3>3. (-2 - k) * n = -2 * n - k * n  OBVIOUS
      <3>4. QED  BY <3>2, <3>3
    <2>3. k * n \in Int  OBVIOUS
    <2>4. QED  BY <1>1, <1>2, <1>4, <2>2, <2>3
  <1>7. k = 1 => w = v - n
    <2>1. 1 * n = n  OBVIOUS
    <2>2. QED  BY <1>4, <2>1
  <1>8. k = -1 => w = v + n
    <2>1. (-1) * n = -n  OBVIOUS
    <2>2. QED  BY <1>2, <1>4, <2>1
  <1>9. QED  BY <1>1, <1>2, <1>4, <1>5, <1>6, <1>7, <1>8

\* The two coordinates of a point, and of the site it holds.
LEMMA PointSite ==
  ASSUME NEW t \in Tiles, NEW p \in TilePoints
  PROVE  /\ p[1] \in 0 .. TILE_WIDTH - 1 /\ p[2] \in 0 .. TILE_WIDTH - 1
         /\ p = <<p[1], p[2]>>
         /\ t[1] \in 0 .. GRID_WIDTH - 1 /\ t[2] \in 0 .. GRID_HEIGHT - 1
         /\ t = <<t[1], t[2]>>
         /\ ToGrid(t, p)[1] = t[1] * OWNED_SIDE + p[1] - R
         /\ ToGrid(t, p)[2] = t[2] * OWNED_SIDE + p[2] - R
  BY DEF TilePoints, Tiles, ToGrid

\* One tile holds a site at one point.
LEMMA OneCopy ==
  ASSUME NEW t \in Tiles, NEW p \in TilePoints, NEW q \in TilePoints,
         ToGrid(t, p) = ToGrid(t, q)
  PROVE  p = q
  <1>1. CopyOf(t, ToGrid(t, p)) = p /\ CopyOf(t, ToGrid(t, q)) = q  BY GridRoundTrip
  <1>2. QED  BY <1>1

\* Two tiles that hold the same site are neighbours, and the site is in the
\* bands that both share on that side.
LEMMA HeldByNeighbor ==
  ASSUME NEW t \in Tiles, NEW u \in Tiles, t # u,
         NEW p \in TilePoints, NEW q \in TilePoints, ToGrid(t, p) = ToGrid(u, q)
  PROVE  \E d \in Dir :
           /\ u = Neighbor(t, d)
           /\ q = GetNeighborLoc(d, p)
           /\ DX(d) = 1 => p[1] >= TILE_WIDTH - 2 * R
           /\ DX(d) = -1 => p[1] < 2 * R
           /\ DY(d) = 1 => p[2] >= TILE_WIDTH - 2 * R
           /\ DY(d) = -1 => p[2] < 2 * R
  <1> SUFFICES ASSUME NEW dx, dx = u[1] - t[1], NEW dy, dy = u[2] - t[2],
                      NEW d, d = FromOffset(dx, dy)
               PROVE  \E e \in Dir :
                        /\ u = Neighbor(t, e)
                        /\ q = GetNeighborLoc(e, p)
                        /\ DX(e) = 1 => p[1] >= TILE_WIDTH - 2 * R
                        /\ DX(e) = -1 => p[1] < 2 * R
                        /\ DY(e) = 1 => p[2] >= TILE_WIDTH - 2 * R
                        /\ DY(e) = -1 => p[2] < 2 * R
    OBVIOUS
  <1>1. /\ t[1] \in Int /\ t[2] \in Int /\ t = <<t[1], t[2]>>
        /\ u[1] \in Int /\ u[2] \in Int /\ u = <<u[1], u[2]>>
    BY GeometryAssumption DEF Tiles
  <1>2. /\ dx \in {-1, 0, 1} /\ q[1] = p[1] - dx * OWNED_SIDE
        /\ dx = 1 => p[1] >= TILE_WIDTH - 2 * R
        /\ dx = -1 => p[1] < 2 * R
    <2>1. t[1] * OWNED_SIDE + p[1] - R = u[1] * OWNED_SIDE + q[1] - R
      BY PointSite
    <2>2. QED  BY <1>1, <2>1, PointSite, AxisHeld
  <1>3. /\ dy \in {-1, 0, 1} /\ q[2] = p[2] - dy * OWNED_SIDE
        /\ dy = 1 => p[2] >= TILE_WIDTH - 2 * R
        /\ dy = -1 => p[2] < 2 * R
    <2>1. t[2] * OWNED_SIDE + p[2] - R = u[2] * OWNED_SIDE + q[2] - R
      BY PointSite
    <2>2. QED  BY <1>1, <2>1, PointSite, AxisHeld
  <1>4. dx # 0 \/ dy # 0  BY <1>1
  <1>5. d \in Dir /\ DX(d) = dx /\ DY(d) = dy
    BY <1>2, <1>3, <1>4, FromOffsetCorrect
  <1>6. u = Neighbor(t, d)
    <2>1. u[1] = t[1] + dx /\ u[2] = t[2] + dy  BY <1>1
    <2>2. QED  BY <1>1, <1>5, <2>1 DEF Neighbor
  <1>7. q = GetNeighborLoc(d, p)  BY <1>2, <1>3, <1>5, PointSite DEF GetNeighborLoc
  <1>8. QED  BY <1>2, <1>3, <1>5, <1>6, <1>7

\* The tiles across a tile's four sides.
LEMMA FaceNeighbors ==
  ASSUME NEW t \in Tiles
  PROVE  /\ Neighbor(t, WEST) = <<t[1] - 1, t[2]>>
         /\ Neighbor(t, EAST) = <<t[1] + 1, t[2]>>
         /\ Neighbor(t, NORTH) = <<t[1], t[2] - 1>>
         /\ Neighbor(t, SOUTH) = <<t[1], t[2] + 1>>
  <1>1. /\ t[1] \in 0 .. GRID_WIDTH - 1 /\ t[2] \in 0 .. GRID_HEIGHT - 1
        /\ GRID_WIDTH \in Nat /\ GRID_HEIGHT \in Nat
    BY Sizes DEF Tiles
  <1>2. QED  BY <1>1 DEF Neighbor, DX, DY

\* A tile with a neighbour at a corner has the neighbours at its two sides.
LEMMA FacesOfCorner ==
  ASSUME NEW t \in Tiles, NEW d \in Dir, IsConnected(t, d)
  PROVE  /\ DX(d) = -1 => IsConnected(t, WEST)
         /\ DX(d) = 1 => IsConnected(t, EAST)
         /\ DY(d) = -1 => IsConnected(t, NORTH)
         /\ DY(d) = 1 => IsConnected(t, SOUTH)
  <1>1. /\ t[1] \in 0 .. GRID_WIDTH - 1 /\ t[2] \in 0 .. GRID_HEIGHT - 1
        /\ GRID_WIDTH \in Nat /\ GRID_HEIGHT \in Nat
    BY Sizes DEF Tiles
  <1>2. t[1] + DX(d) \in 0 .. GRID_WIDTH - 1 /\ t[2] + DY(d) \in 0 .. GRID_HEIGHT - 1
    BY DEF IsConnected, Neighbor, Tiles
  <1>3. /\ Neighbor(t, WEST) = <<t[1] - 1, t[2]>>
        /\ Neighbor(t, EAST) = <<t[1] + 1, t[2]>>
        /\ Neighbor(t, NORTH) = <<t[1], t[2] - 1>>
        /\ Neighbor(t, SOUTH) = <<t[1], t[2] + 1>>
    BY FaceNeighbors
  <1>4. QED  BY <1>1, <1>2, <1>3 DEF IsConnected, Tiles

\* SendRelevantAtoms leaves out none of the tiles that hold the site.
LEMMA SendsCover ==
  ASSUME NEW t \in Tiles, NEW u \in Tiles, t # u,
         NEW p \in TilePoints, NEW q \in TilePoints, ToGrid(t, p) = ToGrid(u, q)
  PROVE  \E d \in SendDirs(t, p) : u = Neighbor(t, d) /\ q = GetNeighborLoc(d, p)
  <1>1. PICK d \in Dir :
          /\ u = Neighbor(t, d)
          /\ q = GetNeighborLoc(d, p)
          /\ DX(d) = 1 => p[1] >= TILE_WIDTH - 2 * R
          /\ DX(d) = -1 => p[1] < 2 * R
          /\ DY(d) = 1 => p[2] >= TILE_WIDTH - 2 * R
          /\ DY(d) = -1 => p[2] < 2 * R
    BY HeldByNeighbor
  <1>2. /\ DX(d) = -1 => IsConnected(t, WEST)
        /\ DX(d) = 1 => IsConnected(t, EAST)
        /\ DY(d) = -1 => IsConnected(t, NORTH)
        /\ DY(d) = 1 => IsConnected(t, SOUTH)
    <2>1. IsConnected(t, d)  BY <1>1 DEF IsConnected
    <2>2. QED  BY <2>1, FacesOfCorner
  <1>3. /\ ~(p[1] >= TILE_WIDTH - 2 * R /\ p[1] < 2 * R)
        /\ ~(p[2] >= TILE_WIDTH - 2 * R /\ p[2] < 2 * R)
    BY PointSite, Sizes
  <1>4. d \in SendDirs(t, p)
    <2>1. CASE DX(d) = -1  BY <1>1, <1>2, <1>3, <2>1 DEF SendDirs, Dir, DX, DY
    <2>2. CASE DX(d) = 1  BY <1>1, <1>2, <1>3, <2>2 DEF SendDirs, Dir, DX, DY
    <2>3. CASE DX(d) = 0  BY <1>1, <1>2, <1>3, <2>3 DEF SendDirs, Dir, DX, DY
    <2>4. QED  BY <1>1, <2>1, <2>2, <2>3, DirOffsets
  <1>5. QED  BY <1>1, <1>4

\* A site followed is one of a tile of the grid, so that every point that holds
\* one is live: Tile::PlaceAtom does not leave it out.
LEMMA AxisLive ==
  ASSUME NEW i \in Int, NEW n \in Nat, NEW v \in 0 .. TILE_WIDTH - 1,
         i * OWNED_SIDE + v - R \in 0 .. n * OWNED_SIDE - 1
  PROVE  /\ v < R => i - 1 >= 0
         /\ v >= TILE_WIDTH - R => i + 1 <= n - 1
  <1> SUFFICES ASSUME NEW s \in Int, s = OWNED_SIDE
               PROVE  /\ v < R => i - 1 >= 0
                      /\ v >= TILE_WIDTH - R => i + 1 <= n - 1
    BY Sizes
  <1>1. /\ R \in Int /\ R >= 1 /\ s >= 4 * R /\ s \in Nat
        /\ TILE_WIDTH = s + 2 * R /\ TILE_WIDTH \in Int /\ v \in Int
    BY Sizes
  <1>2. i * s \in Int /\ n * s \in Int /\ i * s + v - R >= 0 /\ i * s + v - R <= n * s - 1
    <2>1. i * s \in Int /\ n * s \in Int  OBVIOUS
    <2>2. i * s + v - R \in 0 .. n * s - 1  OBVIOUS
    <2>3. QED  BY <1>1, <2>1, <2>2
  <1>3. ASSUME v < R PROVE i - 1 >= 0
    <2>1. i * s > 0  BY <1>1, <1>2, <1>3
    <2>2. SUFFICES ASSUME i <= 0 PROVE FALSE  OBVIOUS
    <2>3. -i \in Nat  BY <2>2
    <2>4. (-i) * s >= 0  BY <1>1, <2>3
    <2>5. (-i) * s = -(i * s)  OBVIOUS
    <2>6. QED  BY <1>2, <2>1, <2>4, <2>5
  <1>4. ASSUME v >= TILE_WIDTH - R PROVE i + 1 <= n - 1
    <2>1. n * s > i * s + s  BY <1>1, <1>2, <1>4
    <2>2. SUFFICES ASSUME n <= i + 1 PROVE FALSE  OBVIOUS
    <2>3. i + 1 - n \in Nat  BY <2>2
    <2>4. (i + 1 - n) * s >= 0  BY <1>1, <2>3
    <2>5. (i + 1 - n) * s = i * s + s - n * s  OBVIOUS
    <2>6. QED  BY <1>1, <1>2, <2>1, <2>4, <2>5
  <1>5. QED  BY <1>3, <1>4

LEMMA LocalsLive ==
  ASSUME NEW t \in Tiles, NEW p \in Locals(t)
  PROVE  IsLiveSite(t, p)
  <1>1. p \in TilePoints /\ ToGrid(t, p) \in GridSites
    BY LocalsWatched, TilesAssumption
  <1>2. /\ t[1] * OWNED_SIDE + p[1] - R \in 0 .. GRID_WIDTH * OWNED_SIDE - 1
        /\ t[2] * OWNED_SIDE + p[2] - R \in 0 .. GRID_HEIGHT * OWNED_SIDE - 1
    BY <1>1, PointSite DEF GridSites
  <1>3. /\ p[1] < R => t[1] - 1 >= 0
        /\ p[1] >= TILE_WIDTH - R => t[1] + 1 <= GRID_WIDTH - 1
        /\ p[2] < R => t[2] - 1 >= 0
        /\ p[2] >= TILE_WIDTH - R => t[2] + 1 <= GRID_HEIGHT - 1
    BY <1>1, <1>2, PointSite, AxisLive, Sizes
  <1>4. ASSUME InCache(p) PROVE IsConnected(t, CacheAt(p))
    <2>1. /\ CacheAt(p) \in Dir
          /\ DX(CacheAt(p)) = SideOf(p[1], R) /\ DY(CacheAt(p)) = SideOf(p[2], R)
      BY <1>4, RegionSides DEF InCache, CacheAt
    <2>2. t[1] + SideOf(p[1], R) \in 0 .. GRID_WIDTH - 1
      BY <1>1, <1>3, PointSite, Sizes DEF SideOf
    <2>3. t[2] + SideOf(p[2], R) \in 0 .. GRID_HEIGHT - 1
      BY <1>1, <1>3, PointSite, Sizes DEF SideOf
    <2>4. QED  BY <2>1, <2>2, <2>3 DEF IsConnected, Neighbor, Tiles
  <1>5. QED  BY <1>1, <1>4 DEF IsLiveSite, InTile

\* The neighbour across any side keeps its copy where GetNeighborLoc says.
LEMMA NeighborSite ==
  ASSUME NEW t \in Tiles, NEW p \in TilePoints, NEW d \in Dir
  PROVE  ToGrid(Neighbor(t, d), GetNeighborLoc(d, p)) = ToGrid(t, p)
  <1>1. /\ t[1] \in Int /\ t[2] \in Int /\ OWNED_SIDE \in Int /\ R \in Int
        /\ p[1] \in Int /\ p[2] \in Int
    BY PointSite, Sizes
  <1>2. DX(d) \in Int /\ DY(d) \in Int  BY DirOffsets
  <1>3. /\ (t[1] + DX(d)) * OWNED_SIDE = t[1] * OWNED_SIDE + DX(d) * OWNED_SIDE
        /\ (t[2] + DY(d)) * OWNED_SIDE = t[2] * OWNED_SIDE + DY(d) * OWNED_SIDE
    BY <1>1, <1>2
  <1>4. /\ t[1] * OWNED_SIDE \in Int /\ t[2] * OWNED_SIDE \in Int
        /\ DX(d) * OWNED_SIDE \in Int /\ DY(d) * OWNED_SIDE \in Int
    BY <1>1, <1>2
  <1>5. /\ ToGrid(t, p) = <<t[1] * OWNED_SIDE + p[1] - R, t[2] * OWNED_SIDE + p[2] - R>>
        /\ ToGrid(Neighbor(t, d), GetNeighborLoc(d, p)) =
             <<(t[1] + DX(d)) * OWNED_SIDE + (p[1] - DX(d) * OWNED_SIDE) - R,
               (t[2] + DY(d)) * OWNED_SIDE + (p[2] - DY(d) * OWNED_SIDE) - R>>
    BY DEF ToGrid, Neighbor, GetNeighborLoc
  <1>6. QED  BY <1>1, <1>3, <1>4, <1>5

\* What is sent to a neighbour is its copy of the same site.
LEMMA SentToCopy ==
  ASSUME NEW t \in Tiles, NEW p \in Locals(t), NEW d \in SendDirs(t, p)
  PROVE  /\ d \in Dir /\ IsConnected(t, d) /\ Neighbor(t, d) \in Tiles
         /\ GetNeighborLoc(d, p) \in Locals(Neighbor(t, d))
         /\ ToGrid(Neighbor(t, d), GetNeighborLoc(d, p)) = ToGrid(t, p)
  <1> DEFINE u == Neighbor(t, d)
             q == GetNeighborLoc(d, p)
  <1>1. p \in TilePoints /\ ToGrid(t, p) \in Watched  BY LocalsWatched
  <1>2. d \in Dir /\ IsConnected(t, d)  BY SendConnected
  <1>3. u \in Tiles  BY <1>2 DEF IsConnected
  <1>4. q \in TilePoints
    <2>1. q[1] = p[1] - DX(d) * OWNED_SIDE /\ q[2] = p[2] - DY(d) * OWNED_SIDE
      BY DEF GetNeighborLoc
    <2>2. /\ q[1] = IF DX(d) = 1 THEN p[1] - OWNED_SIDE
                    ELSE IF DX(d) = -1 THEN p[1] + OWNED_SIDE ELSE p[1]
          /\ q[2] = IF DY(d) = 1 THEN p[2] - OWNED_SIDE
                    ELSE IF DY(d) = -1 THEN p[2] + OWNED_SIDE ELSE p[2]
      BY <1>1, <1>2, <2>1, DirOffsets, PointSite, Sizes
    <2>3. q[1] \in 0 .. TILE_WIDTH - 1
      BY <1>1, <1>2, <2>2, SendTests, PointSite, DirOffsets, Sizes
    <2>4. q[2] \in 0 .. TILE_WIDTH - 1
      BY <1>1, <1>2, <2>2, SendTests, PointSite, DirOffsets, Sizes
    <2>5. QED  BY <2>3, <2>4 DEF TilePoints, GetNeighborLoc
  <1>5. ToGrid(u, q) = ToGrid(t, p)  BY <1>1, <1>2, NeighborSite
  <1>6. q \in Locals(u)  BY <1>1, <1>3, <1>4, <1>5, LocalsWatched
  <1>7. QED  BY <1>2, <1>3, <1>5, <1>6
-----------------------------------------------------------------------------
(* Windows and what is reported of them *)

LEMMA WindowPoints ==
  ASSUME NEW c \in OwnedPoints
  PROVE  /\ Window(c) \subseteq TilePoints
         /\ \A p \in Int \X Int : p \in Window(c) <=> Manhattan(p, c) <= R
  <1>1. /\ c[1] \in R .. TILE_WIDTH - R - 1 /\ c[2] \in R .. TILE_WIDTH - R - 1
        /\ c[1] \in Int /\ c[2] \in Int /\ R \in Int /\ TILE_WIDTH \in Int
    BY Sizes DEF OwnedPoints
  <1>2. Window(c) \subseteq TilePoints  BY <1>1 DEF Window, TilePoints
  <1>3. ASSUME NEW p \in Int \X Int, Manhattan(p, c) <= R
        PROVE  p \in Window(c)
    <2>1. /\ Magnitude(p[1] - c[1]) + Magnitude(p[2] - c[2]) <= R
          /\ p = <<p[1], p[2]>> /\ p[1] \in Int /\ p[2] \in Int
      BY <1>3 DEF Manhattan
    <2>2. p[1] \in c[1] - R .. c[1] + R /\ p[2] \in c[2] - R .. c[2] + R
      BY <1>1, <2>1 DEF Magnitude
    <2>3. QED  BY <1>3, <2>1, <2>2 DEF Window
  <1>4. QED  BY <1>2, <1>3 DEF Window

\* A tile that waits, or has atoms to send, is reporting an event at a centre
\* of its own.
LEMMA BusyReporting ==
  ASSUME EventInv, NEW t \in Tiles
  PROVE  /\ waitWord[t] # {} \/ outbox[t] # {} => Reporting(t)
         /\ Reporting(t) => center[t] \in OwnedPoints /\ InEvent(t)
         /\ InEvent(t) => center[t] \in OwnedPoints
  BY DEF EventInv, EventOK, Reporting, InEvent

\* A site followed is reported by the tile that has it in the window it reports.
LEMMA ReportedFrame ==
  ASSUME EventInv, NEW t \in Tiles
  PROVE  /\ \A p \in Frame(t) : /\ p \in TilePoints /\ p \in Locals(t)
                                /\ ToGrid(t, p) \in Watched /\ CopyOf(t, ToGrid(t, p)) = p
                                /\ Reporting(t) => Reports(t, ToGrid(t, p))
         /\ \A g \in Watched : Reports(t, g) =>
              CopyOf(t, g) \in Frame(t) /\ ToGrid(t, CopyOf(t, g)) = g
  <1>1. ASSUME NEW p \in Frame(t)
        PROVE  /\ p \in TilePoints /\ p \in Locals(t)
               /\ ToGrid(t, p) \in Watched /\ CopyOf(t, ToGrid(t, p)) = p
               /\ Reporting(t) => Reports(t, ToGrid(t, p))
    <2>1. p \in Locals(t) /\ p \in Window(center[t])  BY DEF Frame
    <2>2. p \in TilePoints /\ ToGrid(t, p) \in Watched  BY <2>1, LocalsWatched
    <2>3. CopyOf(t, ToGrid(t, p)) = p  BY <2>2, GridRoundTrip
    <2>4. Manhattan(p, center[t]) <= R  BY <2>1 DEF Window
    <2>5. QED  BY <2>1, <2>2, <2>3, <2>4 DEF Reports
  <1>2. ASSUME NEW g \in Watched, Reports(t, g)
        PROVE  CopyOf(t, g) \in Frame(t) /\ ToGrid(t, CopyOf(t, g)) = g
    <2>1. g \in GridSites  BY TilesAssumption
    <2>2. ToGrid(t, CopyOf(t, g)) = g  BY <2>1, GridRoundTrip
    <2>3. CopyOf(t, g) \in Int \X Int
      BY <2>1, Sizes DEF CopyOf, GridSites, Tiles
    <2>4. center[t] \in OwnedPoints  BY <1>2, BusyReporting DEF Reports
    <2>5. CopyOf(t, g) \in Window(center[t])  BY <1>2, <2>3, <2>4, WindowPoints DEF Reports
    <2>6. CopyOf(t, g) \in Locals(t)  BY <2>4, <2>5, WindowPoints DEF Locals
    <2>7. QED  BY <2>2, <2>5, <2>6 DEF Frame
  <1>3. QED  BY <1>1, <1>2

\* Two tiles in events never have the same site in their windows.
LEMMA OneEvent ==
  ASSUME IInv, NEW t \in Tiles, NEW u \in Tiles, InEvent(t), InEvent(u),
         NEW p \in Window(center[t]), NEW q \in Window(center[u]),
         ToGrid(t, p) = ToGrid(u, q)
  PROVE  t = u /\ p = q
  <1>1. t = u  BY LocksSeparate DEF IInv, EventsExclusive, GridWindow
  <1>2. p \in TilePoints /\ q \in TilePoints
    BY <1>1, BusyReporting, WindowPoints DEF IInv
  <1>3. QED  BY <1>1, <1>2, OneCopy

\* While no packet is sent or read and no event begins or ends its report, the
\* copies stay as they are related.
LEMMA QuietStep ==
  ASSUME IInv, CopyInv, UNCHANGED <<atoms, queue, outbox, generation, waitWord>>,
         \A t \in Tiles : /\ Reporting(t)' <=> Reporting(t)
                          /\ Reporting(t) => center'[t] = center[t]
  PROVE  CopyInv'
  <1>1. \A t \in Tiles : Reporting(t) => Frame(t)' = Frame(t)
    BY DEF Frame
  <1>2. \A t, d, p : News(t, d, p)' = News(t, d, p)
    BY DEF News, WritePacket, Packet
  <1>3. \A t, d : Outgoing(t, d)' = Outgoing(t, d)  BY DEF Outgoing
  <1>4. \A t \in Tiles : (waitWord[t] # {} \/ outbox[t] # {}) => Reporting(t)
    BY BusyReporting DEF IInv
  <1>5. GenerationsAgree'  BY DEF CopyInv, GenerationsAgree
  <1>6. OutboxTrue'  BY <1>1, <1>4 DEF CopyInv, OutboxTrue
  <1>7. TransitTrue'
    <2> SUFFICES ASSUME NEW t \in Tiles, NEW d \in waitWord[t],
                        NEW i \in 1 .. Len(Outgoing(t, d)),
                        Outgoing(t, d)[i].type = "WRITE"
                 PROVE  \E p \in Frame(t)' :
                          d \in SendDirs(t, p) /\ Outgoing(t, d)[i] = News(t, d, p)'
      BY <1>3 DEF TransitTrue
    <2>1. Frame(t)' = Frame(t)  BY <1>1, <1>4
    <2>2. QED  BY <1>2, <2>1 DEF CopyInv, TransitTrue
  <1>8. Delivered'  BY <1>1, <1>2, <1>3 DEF CopyInv, Delivered
  <1>9. CachesAgree'
    <2>1. \A t \in Tiles : \A g : Reports(t, g)' <=> Reports(t, g)
      BY DEF Reports, Manhattan
    <2>2. QED  BY <2>1 DEF CopyInv, CachesAgree
  <1>10. QED  BY <1>5, <1>6, <1>7, <1>8, <1>9 DEF CopyInv
-----------------------------------------------------------------------------
(* The steps one by one *)

\* The phases of a tile that are not the one stepping do not change.
LEMMA OthersReport ==
  ASSUME NEW t, NEW u, u # t, pc'[u] = pc[u], center'[u] = center[u]
  PROVE  (Reporting(u)' <=> Reporting(u)) /\ center'[u] = center[u]
  BY DEF Reporting

LEMMA BeforeEvent ==
  ASSUME IInv, CopyInv, NEW t \in Tiles,
         \/ \E g \in EventCenters : CreateRandomWindow(t, g)
         \/ TryLock(t)
         \/ LockBusy(t)
         \/ Unwind(t)
         \/ Unlock(t)
  PROVE  CopyInv'
  <1>1. UNCHANGED <<atoms, queue, outbox, generation, waitWord>>
    BY DEF CreateRandomWindow, TryLock, LockBusy, Unwind, Unlock, reportVars
  <1>2. ~Reporting(t)
    BY DEF CreateRandomWindow, TryLock, LockBusy, Unwind, Unlock, Reporting
  <1>3. pc'[t] \notin {"report", "flush"}
    BY DEF CreateRandomWindow, TryLock, LockBusy, Unwind, Unlock, Goto, Leave, IInv, TypeOK
  <1>4. ~Reporting(t)'  BY <1>3 DEF Reporting
  <1>5. \A u \in Tiles \ {t} : pc'[u] = pc[u] /\ center'[u] = center[u]
    BY DEF CreateRandomWindow, TryLock, LockBusy, Unwind, Unlock, Goto, Leave, IInv, TypeOK
  <1>6. QED  BY <1>1, <1>2, <1>4, <1>5, OthersReport, QuietStep

LEMMA DuringEvent ==
  ASSUME IInv, CopyInv, NEW t \in Tiles, StartFlush(t) \/ ScanNext(t)
  PROVE  CopyInv'
  <1>1. UNCHANGED <<atoms, queue, outbox, generation, waitWord, center>>
    BY DEF StartFlush, ScanNext, reportVars
  <1>2. Reporting(t)' <=> Reporting(t)
    BY <1>1 DEF StartFlush, ScanNext, Goto, Reporting, IInv, TypeOK, EventInv, EventOK
  <1>3. \A u \in Tiles \ {t} : pc'[u] = pc[u]
    BY DEF StartFlush, ScanNext, Goto, IInv, TypeOK
  <1>4. QED  BY <1>1, <1>2, <1>3, OthersReport, QuietStep

\* A tile holds every connection that it reports its event over.
LEMMA SendsHeld ==
  ASSUME IInv, NEW t \in Tiles, InEvent(t), NEW p \in Window(center[t]),
         NEW d \in SendDirs(t, p)
  PROVE  /\ d \in Dir /\ IsConnected(t, d)
         /\ lock[ConnectionOf(t, d)] = t
         /\ d \notin waitWord[t] => Outgoing(t, d) = <<>>
  <1>1. center[t] \in OwnedPoints  BY BusyReporting DEF IInv
  <1> SUFFICES ASSUME NEW c \in OwnedPoints, c = center[t], p \in Window(c)
               PROVE  /\ d \in Dir /\ IsConnected(t, d)
                      /\ lock[ConnectionOf(t, d)] = t
                      /\ d \notin waitWord[t] => Outgoing(t, d) = <<>>
    BY <1>1
  <1>2. /\ d \in Dir /\ IsConnected(t, d)
        /\ NeedsLock(t, c)
        /\ \E i \in 0 .. LockCount(VisibleAt(c)) - 1 : d = LockDirAt(VisibleAt(c), i)
    BY SendsAreLocked DEF NeedsLock
  <1>3. lock[ConnectionOf(t, d)] = t  BY <1>2, InEventHolds DEF IInv
  <1>4. d \notin waitWord[t] => Silent(t, d)
    BY <1>2, <1>3 DEF IInv, Handshake, LinkOK
  <1>5. QED  BY <1>2, <1>3, <1>4 DEF Silent, Outgoing

\* A tile that waits for nothing more has been heard everywhere.
LEMMA AllHeard ==
  ASSUME IInv, CopyInv, NEW t \in Tiles, Reporting(t), outbox[t] = {}, waitWord[t] = {},
         NEW g \in Watched, Reports(t, g), NEW u \in Holders(g)
  PROVE  atoms[u][CopyOf(u, g)] = atoms[t][CopyOf(t, g)]
  <1> SUFFICES ASSUME NEW p, p = CopyOf(t, g), NEW q, q = CopyOf(u, g)
               PROVE  atoms[u][q] = atoms[t][p]
    OBVIOUS
  <1>1. p \in Frame(t) /\ ToGrid(t, p) = g  BY ReportedFrame DEF IInv
  <1>2. p \in TilePoints /\ p \in Window(center[t])
    BY <1>1, ReportedFrame DEF IInv, Frame
  <1>3. u \in Tiles /\ q \in TilePoints /\ ToGrid(u, q) = g
    BY GridRoundTrip, TilesAssumption DEF Holders
  <1>4. CASE u = t  BY <1>4
  <1>5. CASE u # t
    <2>1. PICK d \in SendDirs(t, p) : u = Neighbor(t, d) /\ q = GetNeighborLoc(d, p)
      BY <1>1, <1>2, <1>3, <1>5, SendsCover
    <2>2. Outgoing(t, d) = <<>>  BY <1>2, <2>1, SendsHeld, BusyReporting DEF IInv
    <2>3. \A i : i \notin 1 .. Len(Outgoing(t, d))  BY <2>2
    <2>4. \/ <<d, p>> \in outbox[t]
          \/ \E i \in 1 .. Len(Outgoing(t, d)) : Outgoing(t, d)[i] = News(t, d, p)
          \/ atoms[Neighbor(t, d)][GetNeighborLoc(d, p)] = atoms[t][p]
      BY <1>1, <2>1 DEF CopyInv, Delivered
    <2>5. QED  BY <2>1, <2>3, <2>4
  <1>6. QED  BY <1>4, <1>5

\* An event ends: its window is what every tile has.
LEMMA PassEnds ==
  ASSUME IInv, CopyInv, NEW t \in Tiles, EndPass(t)
  PROVE  CopyInv'
  <1>1. UNCHANGED <<atoms, queue, outbox, generation, waitWord>> /\ pc[t] = "flush"
    BY DEF EndPass, reportVars
  <1>2. /\ \A u \in Tiles \ {t} : pc'[u] = pc[u] /\ center'[u] = center[u]
        /\ \A u \in Tiles \ {t} : Reporting(u)' <=> Reporting(u)
    <2>1. \A u \in Tiles \ {t} : pc'[u] = pc[u] /\ center'[u] = center[u]
      BY DEF EndPass, Goto, Leave, IInv, TypeOK
    <2>2. QED  BY <2>1, OthersReport
  <1>3. CASE Reporting(t)' <=> Reporting(t)
    <2>1. Reporting(t) => center'[t] = center[t]
      BY <1>3 DEF EndPass, Goto, Leave, Reporting, IInv, TypeOK
    <2>2. QED  BY <1>1, <1>2, <1>3, <2>1, QuietStep
  <1>4. CASE ~(Reporting(t)' <=> Reporting(t))
    <2>1. Reporting(t) /\ ~Reporting(t)' /\ waitWord[t] = {}
      BY <1>1, <1>4 DEF EndPass, Goto, Leave, Reporting, IInv, TypeOK
    <2>2. outbox[t] = {}  BY <1>1 DEF IInv, EventInv, EventOK
    <2>3. \A u \in Tiles : waitWord[u] # {} \/ outbox[u] # {} => Reporting(u) /\ u # t
      BY <2>1, <2>2, BusyReporting DEF IInv
    <2>4. \A u \in Tiles \ {t} : Frame(u)' = Frame(u)  BY <1>2 DEF Frame
    <2>5. /\ \A v, d, p : News(v, d, p)' = News(v, d, p)
          /\ \A v, d : Outgoing(v, d)' = Outgoing(v, d)
      BY <1>1 DEF News, WritePacket, Packet, Outgoing
    <2>6. GenerationsAgree'  BY <1>1 DEF CopyInv, GenerationsAgree
    <2>7. OutboxTrue'  BY <1>1, <2>3, <2>4 DEF CopyInv, OutboxTrue
    <2>8. TransitTrue'
      <3> SUFFICES ASSUME NEW u \in Tiles, NEW d \in waitWord[u],
                          NEW i \in 1 .. Len(Outgoing(u, d)),
                          Outgoing(u, d)[i].type = "WRITE"
                   PROVE  \E p \in Frame(u)' :
                            d \in SendDirs(u, p) /\ Outgoing(u, d)[i] = News(u, d, p)'
        BY <1>1, <2>5 DEF TransitTrue
      <3>1. Frame(u)' = Frame(u)  BY <2>3, <2>4
      <3>2. QED  BY <2>5, <3>1 DEF CopyInv, TransitTrue
    <2>9. Delivered'
      <3> SUFFICES ASSUME NEW u \in Tiles, Reporting(u)', NEW p \in Frame(u)',
                          NEW d \in SendDirs(u, p)
                   PROVE  \/ <<d, p>> \in outbox[u]
                          \/ \E i \in 1 .. Len(Outgoing(u, d)) : Outgoing(u, d)[i] = News(u, d, p)
                          \/ atoms[Neighbor(u, d)][GetNeighborLoc(d, p)] = atoms[u][p]
        BY <1>1, <2>5 DEF Delivered
      <3>1. u # t /\ Reporting(u) /\ p \in Frame(u)  BY <1>2, <2>1, <2>4
      <3>2. QED  BY <3>1 DEF CopyInv, Delivered
    <2>10. CachesAgree'
      <3> SUFFICES ASSUME NEW g \in Watched, \A v \in Tiles : ~Reports(v, g)',
                          NEW v \in Holders(g), NEW u \in Holders(g)
                   PROVE  atoms[v][CopyOf(v, g)] = atoms[u][CopyOf(u, g)]
        BY <1>1 DEF CachesAgree
      <3>1. \A w \in Tiles \ {t} : ~Reports(w, g)
        BY <1>2 DEF Reports, Manhattan
      <3>2. CASE Reports(t, g)
        <4>1. /\ atoms[v][CopyOf(v, g)] = atoms[t][CopyOf(t, g)]
              /\ atoms[u][CopyOf(u, g)] = atoms[t][CopyOf(t, g)]
          BY <2>1, <2>2, <3>2, AllHeard
        <4>2. QED  BY <4>1
      <3>3. CASE ~Reports(t, g)
        BY <3>1, <3>3 DEF CopyInv, CachesAgree
      <3>4. QED  BY <3>2, <3>3
    <2>11. QED  BY <2>6, <2>7, <2>8, <2>9, <2>10 DEF CopyInv
  <1>5. QED  BY <1>3, <1>4

\* What a behaviour writes to and takes from is within R of the centre.
LEMMA ReachOfBehaviour ==
  ASSUME NEW b \in Behaviours
  PROVE  /\ \A rel \in Changes(b) : rel \in Int \X Int /\ Manhattan(rel, <<0, 0>>) <= R
         /\ \A rel \in DOMAIN b.moved : /\ b.moved[rel] \in Int \X Int
                                        /\ Manhattan(b.moved[rel], <<0, 0>>) <= R
  BY BehaviourAssumption, TilesAssumption DEF Changes

\* A site further away than that keeps its atom.
LEMMA ResultFar ==
  ASSUME NEW S, NEW f \in [S -> Atoms], NEW c \in Int \X Int, NEW b \in Behaviours,
         NEW p \in S, p \in Int \X Int, ~(Manhattan(p, c) <= R)
  PROVE  Result(f, c, b)[p] = f[p]
  <1>1. Offset(c, p) \notin Changes(b)  BY Offsets, ReachOfBehaviour
  <1>2. Behave(f, c, b, p) = f[p]  BY <1>1 DEF Behave, Changes
  <1>3. p # c
    <2>1. Manhattan(c, c) = 0
      <3>1. c[1] \in Int /\ c[2] \in Int  OBVIOUS
      <3>2. QED  BY <3>1 DEF Manhattan, Magnitude
    <2>2. QED  BY <2>1, Sizes
  <1>4. QED  BY <1>2, <1>3 DEF Result

\* A behaviour changes its window only.
LEMMA ResultOutside ==
  ASSUME NEW S, NEW f \in [S -> Atoms], NEW c \in OwnedPoints, NEW b \in Behaviours,
         NEW p \in S, p \in Int \X Int, p \notin Window(c)
  PROVE  Result(f, c, b)[p] = f[p]
  <1>1. c \in Int \X Int  BY Sizes DEF OwnedPoints
  <1>2. ~(Manhattan(p, c) <= R)  BY WindowPoints
  <1>3. QED  BY <1>1, <1>2, ResultFar

\* A behaviour changes the sites of its window, which no other event has, and
\* puts them all on the list of what is to be sent.
LEMMA EventHappens ==
  ASSUME IInv, CopyInv, NEW t \in Tiles, NEW b \in Behaviours, Execute(t, b)
  PROVE  CopyInv'
  <1>1. /\ InEvent(t) /\ ~Reporting(t) /\ center[t] \in OwnedPoints
        /\ outbox[t] = {} /\ waitWord[t] = {}
    BY DEF Execute, InEvent, Reporting, IInv, EventInv, EventOK
  <1>2. /\ UNCHANGED <<generation, queue, center>>
        /\ \A u \in Tiles \ {t} :
             /\ pc'[u] = pc[u] /\ center'[u] = center[u] /\ atoms'[u] = atoms[u]
             /\ outbox'[u] = outbox[u] /\ waitWord'[u] = waitWord[u]
        /\ atoms'[t] = Result(atoms[t], center[t], b)
        /\ outbox'[t] = UNION {SendDirs(t, p) \X {p} : p \in Frame(t)}
        /\ Applies(atoms[t], center[t], b)
    BY DEF Execute, Goto, Frame, IInv, TypeOK
  <1>3. \A p \in Locals(t) : p \notin Window(center[t]) => atoms'[t][p] = atoms[t][p]
    <2>1. atoms[t] \in [Locals(t) -> Atoms]  BY DEF IInv, TypeOK
    <2>2. Locals(t) \subseteq Int \X Int  BY DEF Locals, TilePoints
    <2>3. QED  BY <1>1, <1>2, <2>1, <2>2, ResultOutside
  <1>4. \A u \in Tiles : Frame(u)' = Frame(u)  BY <1>2 DEF Frame
  <1>5. \A u \in Tiles \ {t} : Reporting(u)' <=> Reporting(u)  BY <1>2, OthersReport
  <1>6. \A u, d : Outgoing(u, d)' = Outgoing(u, d)  BY <1>2 DEF Outgoing
  <1>7. \A u \in Tiles \ {t} : \A d, p : News(u, d, p)' = News(u, d, p)
    BY <1>2 DEF News, WritePacket, Packet
  <1>8. GenerationsAgree'  BY <1>2 DEF CopyInv, GenerationsAgree
  <1>9. OutboxTrue'
    <2>1. \A s \in outbox'[t] : s[2] \in Frame(t) /\ s[1] \in SendDirs(t, s[2])
      BY <1>2
    <2>2. QED  BY <1>2, <1>4, <2>1 DEF CopyInv, OutboxTrue
  <1>10. \A d \in Dir : IsConnected(t, d) /\ lock[ConnectionOf(t, d)] = t => Outgoing(t, d) = <<>>
    BY <1>1 DEF IInv, Handshake, LinkOK, Silent, Outgoing
  <1>11. TransitTrue'
    <2> SUFFICES ASSUME NEW u \in Tiles, NEW d \in waitWord'[u],
                        NEW i \in 1 .. Len(Outgoing(u, d)),
                        Outgoing(u, d)[i].type = "WRITE"
                 PROVE  \E p \in Frame(u) :
                          d \in SendDirs(u, p) /\ Outgoing(u, d)[i] = News(u, d, p)'
      BY <1>4, <1>6 DEF TransitTrue
    <2>1. CASE u = t
      <3>1. d \in Reached(t, center[t])  BY <2>1 DEF Execute, IInv, TypeOK
      <3>2. PICK p \in Window(center[t]) : d \in SendDirs(t, p)  BY <3>1 DEF Reached
      <3>3. Outgoing(t, d) = <<>>  BY <1>1, <3>2, SendsHeld
      <3>4. \A j : j \notin 1 .. Len(Outgoing(t, d))  BY <3>3
      <3>5. QED  BY <2>1, <3>4
    <2>2. CASE u # t
      BY <1>2, <1>7, <2>2 DEF CopyInv, TransitTrue
    <2>3. QED  BY <2>1, <2>2
  <1>12. Delivered'
    <2> SUFFICES ASSUME NEW u \in Tiles, Reporting(u)', NEW p \in Frame(u), NEW d \in SendDirs(u, p)
                 PROVE  \/ <<d, p>> \in outbox'[u]
                        \/ \E i \in 1 .. Len(Outgoing(u, d)) : Outgoing(u, d)[i] = News(u, d, p)'
                        \/ atoms'[Neighbor(u, d)][GetNeighborLoc(d, p)] = atoms'[u][p]
      BY <1>4, <1>6 DEF Delivered
    <2>1. CASE u = t  BY <1>2, <2>1
    <2>2. CASE u # t
      <3> DEFINE n == Neighbor(u, d)
                 q == GetNeighborLoc(d, p)
      <3>1. Reporting(u) /\ p \in Window(center[u]) /\ p \in Locals(u) /\ InEvent(u)
        BY <1>5, <2>2, BusyReporting DEF IInv, Frame
      <3>2. n \in Tiles /\ q \in Locals(n) /\ ToGrid(n, q) = ToGrid(u, p)
        BY <3>1, SentToCopy
      <3>3. atoms'[n][q] = atoms[n][q]
        <4>1. CASE n = t
          <5>1. q \notin Window(center[t])  BY <1>1, <2>2, <3>1, <3>2, <4>1, OneEvent
          <5>2. QED  BY <1>3, <3>2, <4>1, <5>1
        <4>2. CASE n # t  BY <1>2, <3>2, <4>2
        <4>3. QED  BY <4>1, <4>2
      <3>4. \/ <<d, p>> \in outbox[u]
            \/ \E i \in 1 .. Len(Outgoing(u, d)) : Outgoing(u, d)[i] = News(u, d, p)
            \/ atoms[n][q] = atoms[u][p]
        BY <3>1 DEF CopyInv, Delivered
      <3>5. QED  BY <1>2, <1>7, <2>2, <3>3, <3>4
    <2>3. QED  BY <2>1, <2>2
  <1>13. CachesAgree'
    <2> SUFFICES ASSUME NEW g \in Watched, \A v \in Tiles : ~Reports(v, g)',
                        NEW v \in Holders(g), NEW u \in Holders(g)
                 PROVE  atoms'[v][CopyOf(v, g)] = atoms'[u][CopyOf(u, g)]
      BY DEF CachesAgree
    <2>1. ~(Manhattan(CopyOf(t, g), center[t]) <= R)
      <3>1. Reporting(t)'
        BY <1>1 DEF Execute, Goto, Reporting, IInv, TypeOK, OwnedPoints, InEvent
      <3>2. QED  BY <1>2, <3>1 DEF Reports, Manhattan
    <2>2. \A w \in Holders(g) : atoms'[w][CopyOf(w, g)] = atoms[w][CopyOf(w, g)]
      <3> TAKE w \in Holders(g)
      <3>1. w \in Tiles /\ CopyOf(w, g) \in Locals(w)  BY DEF Holders, Locals
      <3>2. CASE w = t
        <4>1. CopyOf(t, g) \notin Window(center[t])  BY <2>1 DEF Window
        <4>2. QED  BY <1>3, <3>1, <3>2, <4>1
      <3>3. CASE w # t  BY <1>2, <3>1, <3>3
      <3>4. QED  BY <3>2, <3>3
    <2>3. \A w \in Tiles : ~Reports(w, g)
      BY <1>1, <1>2, <1>5 DEF Reports, Manhattan
    <2>4. atoms[v][CopyOf(v, g)] = atoms[u][CopyOf(u, g)]
      BY <2>3 DEF CopyInv, CachesAgree
    <2>5. QED  BY <2>2, <2>4
  <1>14. QED  BY <1>8, <1>9, <1>11, <1>12, <1>13 DEF CopyInv

\* Two connections never bring packets to the same buffer.
LEMMA OneSender ==
  ASSUME NEW t \in Tiles, NEW d \in Dir, IsConnected(t, d),
         NEW u \in Tiles, NEW e \in Dir, IsConnected(u, e),
         Neighbor(u, e) = Neighbor(t, d), OppositeDir(e) = OppositeDir(d)
  PROVE  u = t /\ e = d
  <1>1. e = d  BY DirOffsets
  <1>2. u = t  BY <1>1, ConnectionEnds
  <1>3. QED  BY <1>1, <1>2

LEMMA SendJoins ==
  ASSUME TypeOK, NEW t \in Tiles, NEW d \in Dir, IsConnected(t, d),
         NEW packet, Send(t, d, packet)
  PROVE  /\ Outgoing(t, d)' = Append(Outgoing(t, d), packet)
         /\ Outgoing(t, d) \in Seq(Packets)
         /\ \A u \in Tiles, e \in Dir :
              IsConnected(u, e) /\ ~(u = t /\ e = d) => Outgoing(u, e)' = Outgoing(u, e)
  <1> DEFINE n == Neighbor(t, d)
             o == OppositeDir(d)
  <1>1. n \in Tiles /\ o \in Dir  BY ConnectionEnds, DirOffsets
  <1>2. \A u \in Tiles, e \in Dir : ~(u = n /\ e = o) => queue'[u][e] = queue[u][e]
    BY <1>1 DEF Send, TypeOK
  <1>3. ASSUME NEW u \in Tiles, NEW e \in Dir, IsConnected(u, e), ~(u = t /\ e = d)
        PROVE  Outgoing(u, e)' = Outgoing(u, e)
    <2>1. Neighbor(u, e) \in Tiles /\ OppositeDir(e) \in Dir
      BY <1>3, ConnectionEnds, DirOffsets
    <2>2. ~(Neighbor(u, e) = n /\ OppositeDir(e) = o)  BY <1>3, OneSender
    <2>3. QED  BY <1>2, <2>1, <2>2 DEF Outgoing
  <1>4. Outgoing(t, d)' = Append(Outgoing(t, d), packet)
    BY <1>1 DEF Send, TypeOK, Outgoing
  <1>5. QED  BY <1>1, <1>3, <1>4 DEF Outgoing, TypeOK

\* What a tile waits on, and sends to, is a connection of its.
LEMMA WaitsConnected ==
  ASSUME IInv, NEW t \in Tiles
  PROVE  /\ \A d \in waitWord[t] : d \in Dir /\ IsConnected(t, d)
         /\ \A s \in outbox[t] : s = <<s[1], s[2]>> /\ s[1] \in waitWord[t] /\ s[1] \in owed[t]
  BY DEF IInv, TypeOK, EventInv, EventOK

\* Packets that join the buffers, or are taken off the list of those to come.
LEMMA MoreSent ==
  ASSUME IInv, CopyInv, NEW t \in Tiles, NEW d \in waitWord[t], NEW packet,
         Send(t, d, packet),
         UNCHANGED <<atoms, generation, waitWord, pc, center>>,
         \A u \in Tiles : outbox'[u] \subseteq outbox[u],
         \A u \in Tiles : \A s \in outbox[u] \ outbox'[u] :
           u = t /\ s[1] = d /\ packet = News(t, d, s[2]),
         packet.type = "WRITE" =>
           \E p \in Frame(t) : d \in SendDirs(t, p) /\ packet = News(t, d, p)
  PROVE  CopyInv'
  <1>1. d \in Dir /\ IsConnected(t, d)  BY WaitsConnected
  <1>2. TypeOK  BY DEF IInv
  <1>3. /\ Outgoing(t, d)' = Append(Outgoing(t, d), packet)
        /\ Outgoing(t, d) \in Seq(Packets)
        /\ \A u \in Tiles, e \in Dir :
             IsConnected(u, e) /\ ~(u = t /\ e = d) => Outgoing(u, e)' = Outgoing(u, e)
    BY <1>1, <1>2, SendJoins
  <1>4. \A u, e, p : News(u, e, p)' = News(u, e, p)
    BY DEF News, WritePacket, Packet
  <1>5. \A u : Frame(u)' = Frame(u) /\ (Reporting(u)' <=> Reporting(u))
    BY DEF Frame, Reporting
  <1>6. ASSUME NEW q, NEW q2, q \in Seq(Packets), q2 = Append(q, packet)
        PROVE  /\ Len(q2) = Len(q) + 1 /\ Len(q) \in Nat
               /\ \A i \in 1 .. Len(q) : q2[i] = q[i]
               /\ q2[Len(q) + 1] = packet
    BY <1>6
  <1>7. GenerationsAgree' /\ CachesAgree'
    BY DEF CopyInv, GenerationsAgree, CachesAgree, Reports, Reporting, Manhattan
  <1>8. OutboxTrue'  BY <1>5 DEF CopyInv, OutboxTrue
  <1>9. TransitTrue'
    <2> SUFFICES ASSUME NEW u \in Tiles, NEW e \in waitWord[u],
                        NEW i \in 1 .. Len(Outgoing(u, e)'),
                        Outgoing(u, e)'[i].type = "WRITE"
                 PROVE  \E p \in Frame(u) :
                          e \in SendDirs(u, p) /\ Outgoing(u, e)'[i] = News(u, e, p)
      BY <1>4, <1>5 DEF TransitTrue
    <2>1. e \in Dir /\ IsConnected(u, e)  BY WaitsConnected
    <2>2. CASE u = t /\ e = d
      <3> SUFFICES ASSUME NEW q, q = Outgoing(t, d), NEW q2, q2 = Outgoing(t, d)'
                   PROVE  \E p \in Frame(u) :
                            e \in SendDirs(u, p) /\ Outgoing(u, e)'[i] = News(u, e, p)
        OBVIOUS
      <3>1. /\ Len(q2) = Len(q) + 1 /\ Len(q) \in Nat
            /\ \A j \in 1 .. Len(q) : q2[j] = q[j]
            /\ q2[Len(q) + 1] = packet
        BY <1>3, <1>6
      <3>2. CASE i \in 1 .. Len(q)
        BY <2>2, <3>1, <3>2 DEF CopyInv, TransitTrue
      <3>3. CASE i = Len(q) + 1  BY <2>2, <3>1, <3>3
      <3>4. i \in 1 .. Len(q) \/ i = Len(q) + 1
        <4>1. i \in 1 .. Len(q) + 1  BY <2>2, <3>1
        <4>2. QED  BY <3>1, <4>1
      <3>5. QED  BY <3>2, <3>3, <3>4
    <2>3. CASE ~(u = t /\ e = d)
      <3>1. Outgoing(u, e)' = Outgoing(u, e)  BY <1>3, <2>1, <2>3
      <3>2. QED  BY <3>1 DEF CopyInv, TransitTrue
    <2>4. QED  BY <2>2, <2>3
  <1>10. Delivered'
    <2> SUFFICES ASSUME NEW u \in Tiles, Reporting(u), NEW p \in Frame(u), NEW e \in SendDirs(u, p),
                        <<e, p>> \notin outbox'[u],
                        atoms[Neighbor(u, e)][GetNeighborLoc(e, p)] # atoms[u][p]
                 PROVE  \E i \in 1 .. Len(Outgoing(u, e)') : Outgoing(u, e)'[i] = News(u, e, p)
      BY <1>4, <1>5 DEF Delivered
    <2>1. e \in Dir /\ IsConnected(u, e)  BY SendConnected
    <2>2. CASE u = t /\ e = d
      <3> SUFFICES ASSUME NEW q, q = Outgoing(t, d), NEW q2, q2 = Outgoing(t, d)'
                   PROVE  \E i \in 1 .. Len(q2) : q2[i] = News(t, d, p)
        BY <2>2
      <3>1. /\ Len(q2) = Len(q) + 1 /\ Len(q) \in Nat
            /\ \A j \in 1 .. Len(q) : q2[j] = q[j]
            /\ q2[Len(q) + 1] = packet
        BY <1>3, <1>6
      <3>2. CASE <<e, p>> \in outbox[u]
        <4>1. packet = News(t, d, p)
          <5>1. <<e, p>> \in outbox[u] \ outbox'[u]  BY <3>2
          <5>2. <<e, p>>[2] = p  OBVIOUS
          <5>3. QED  BY <5>1, <5>2
        <4>2. Len(q) + 1 \in 1 .. Len(q2)  BY <3>1
        <4>3. QED  BY <3>1, <4>1, <4>2
      <3>3. CASE <<e, p>> \notin outbox[u]
        <4>1. PICK i \in 1 .. Len(q) : q[i] = News(t, d, p)
          BY <2>2, <3>3 DEF CopyInv, Delivered
        <4>2. i \in 1 .. Len(q2)  BY <3>1
        <4>3. QED  BY <3>1, <4>1, <4>2
      <3>4. QED  BY <3>2, <3>3
    <2>3. CASE ~(u = t /\ e = d)
      <3>1. Outgoing(u, e)' = Outgoing(u, e)  BY <1>3, <2>1, <2>3
      <3>2. <<e, p>> \notin outbox[u]
        <4>1. SUFFICES ASSUME <<e, p>> \in outbox[u] PROVE FALSE  OBVIOUS
        <4>2. <<e, p>> \in outbox[u] \ outbox'[u]  BY <4>1
        <4>3. u = t /\ <<e, p>>[1] = d  BY <4>2
        <4>4. QED  BY <2>3, <4>3
      <3>3. QED  BY <3>1, <3>2 DEF CopyInv, Delivered
    <2>4. QED  BY <2>2, <2>3
  <1>11. QED  BY <1>7, <1>8, <1>9, <1>10 DEF CopyInv

LEMMA AtomSent ==
  ASSUME IInv, CopyInv, NEW t \in Tiles, SendAtom(t)
  PROVE  CopyInv'
  <1>1. PICK s \in outbox[t] :
          /\ outbox' = [outbox EXCEPT ![t] = @ \ {s}]
          /\ IF IsConnected(t, s[1])
             THEN Send(t, s[1], WritePacket(generation[t], s[1],
                                   GetNeighborLoc(s[1], s[2]), atoms[t][s[2]]))
             ELSE UNCHANGED queue
    BY DEF SendAtom
  <1>2. s[1] \in waitWord[t] /\ IsConnected(t, s[1])  BY WaitsConnected
  <1>3. s[2] \in Frame(t) /\ s[1] \in SendDirs(t, s[2])  BY DEF CopyInv, OutboxTrue
  <1>4. Send(t, s[1], News(t, s[1], s[2]))  BY <1>1, <1>2 DEF News
  <1>5. UNCHANGED <<atoms, generation, waitWord, pc, center>>  BY DEF SendAtom
  <1>6. /\ \A u \in Tiles : outbox'[u] \subseteq outbox[u]
        /\ \A u \in Tiles : \A r \in outbox[u] \ outbox'[u] : u = t /\ r = s
    BY <1>1 DEF IInv, TypeOK
  <1>7. \A u \in Tiles : \A r \in outbox[u] \ outbox'[u] :
          u = t /\ r[1] = s[1] /\ News(t, s[1], s[2]) = News(t, s[1], r[2])
    BY <1>6
  <1>8. QED  BY <1>2, <1>3, <1>4, <1>5, <1>6, <1>7, MoreSent

LEMMA EndSent ==
  ASSUME IInv, CopyInv, NEW t \in Tiles, SendEndEventPacket(t)
  PROVE  CopyInv'
  <1>1. PICK d \in owed[t] :
          IF IsConnected(t, d)
          THEN Send(t, d, CompletePacket(generation[t], d))
          ELSE UNCHANGED queue
    BY DEF SendEndEventPacket
  <1>2. d \in waitWord[t] /\ IsConnected(t, d)
    BY DEF IInv, EventInv, EventOK
  <1>3. Send(t, d, CompletePacket(generation[t], d))  BY <1>1, <1>2
  <1>4. UNCHANGED <<atoms, generation, waitWord, pc, center, outbox>>
    BY DEF SendEndEventPacket
  <1>5. CompletePacket(generation[t], d).type # "WRITE"
    BY DEF CompletePacket, Packet
  <1>6. QED  BY <1>2, <1>3, <1>4, <1>5, MoreSent
-----------------------------------------------------------------------------
(* Reading a packet *)

\* What a read leaves of the packets under way to those who are waited for.
LEMMA ReadFacts ==
  ASSUME IInv, NEW t \in Tiles, ReadPacket(t),
         NEW d, d = scan[t], NEW n, n = Neighbor(t, d), NEW o, o = OppositeDir(d),
         NEW q, q = queue[t][d]
  PROVE  /\ d \in Dir /\ n \in Tiles /\ n # t /\ o \in Dir /\ IsConnected(n, o)
         /\ Neighbor(n, o) = t /\ Outgoing(n, o) = q
         /\ q \in Seq(Packets) /\ q # <<>>
         /\ \A u \in Tiles : waitWord'[u] \subseteq waitWord[u]
         /\ \A u \in Tiles : \A e \in waitWord[u] :
              /\ e \notin waitWord'[u] => Outgoing(u, e) = <<>>
              /\ e \in waitWord'[u] /\ ~(u = n /\ e = o) => Outgoing(u, e)' = Outgoing(u, e)
              /\ e \in waitWord'[u] /\ u = n /\ e = o => Outgoing(u, e)' = Tail(q)
         /\ q[1].type = "WRITE" => o \in waitWord[n] /\ q[1].generation = generation[n]
  <1> DEFINE k == ConnectionOf(t, d)
             rest == [queue EXCEPT ![t][d] = Tail(@)]
  <1>0. k = ConnectionOf(t, d) /\ rest = [queue EXCEPT ![t][d] = Tail(@)]  OBVIOUS
  <1> USE <1>0
  <1> HIDE DEF k, rest
  <1>1. d \in Dir /\ q # <<>> /\ IsConnected(t, d)
    BY DEF ReadPacket, NoStrays, IInv
  <1>2. /\ Neighbor(t, d) = n /\ OppositeDir(d) = o /\ ConnectionOf(t, d) = k
        /\ n \in Tiles /\ o \in Dir /\ n # t /\ IsConnected(n, o)
        /\ Neighbor(n, o) = t /\ OppositeDir(o) = d /\ ConnectionOf(n, o) = k
    BY <1>1, ConnectionEnds, DirOffsets
  <1>3. LinkOK(t, d) /\ LinkOK(n, o)  BY <1>1, <1>2 DEF Handshake, IInv
  <1>4. /\ waitWord' = [waitWord EXCEPT ![t] =
              IF Head(q).type = "EVENT_ACKNOWLEDGE" THEN @ \ {d} ELSE @]
        /\ ReceivePacket(t, d, Head(q))
    BY DEF ReadPacket
  <1>5. lock[k] = t \/ lock[k] = n
    <2>1. lock[k] # NoTile  BY <1>1, <1>3 DEF LinkOK, Silent
    <2>2. k \in Connections  BY <1>1, ConnectionEnds
    <2>3. lock[k] \in k \cup {NoTile}  BY <2>2 DEF OwnerInv, IInv
    <2>4. QED  BY <2>1, <2>3 DEF ConnectionOf
  <1>6. q \in Seq(Packets) /\ Outgoing(n, o) = q
    BY <1>1, <1>2 DEF Outgoing, IInv, TypeOK
  <1>7. Head(q) = q[1] /\ Len(q) \in Nat \ {0} /\ Tail(q) \in Seq(Packets)
    BY <1>1, <1>6
  <1>8. /\ rest[t][d] = Tail(q)
        /\ \A u \in Tiles, e \in Dir : ~(u = t /\ e = d) => rest[u][e] = queue[u][e]
        /\ rest \in [Tiles -> [Dir -> Seq(Packets)]]
    BY <1>1, <1>7 DEF TypeOK, IInv
  <1>9. \A u \in Tiles : waitWord'[u] \subseteq waitWord[u]
    BY <1>4 DEF TypeOK, IInv
  <1>10. \A u \in Tiles : \A e \in waitWord[u] :
           e \in Dir /\ IsConnected(u, e) /\ Neighbor(u, e) \in Tiles /\ OppositeDir(e) \in Dir
    BY WaitsConnected, ConnectionEnds, DirOffsets
  <1>11. \A u \in Tiles : \A e \in waitWord[u] :
           ~(u = n /\ e = o) => ~(Neighbor(u, e) = t /\ OppositeDir(e) = d)
    BY <1>2, <1>10, OneSender
  \* The tile reads the acknowledgment it waits for.
  <1>12. CASE lock[k] = t
    <2>1. d \in waitWord[t] /\ Exchange(t, d)
      BY <1>1, <1>3, <1>12, NoTileOutside DEF LinkOK, Silent
    <2>2. /\ queue[n][o] = <<>>
          /\ q = <<AckPacket(generation[t], o)>>
      BY <1>1, <2>1 DEF Exchange
    <2>3. Head(q).type = "EVENT_ACKNOWLEDGE"
      BY <2>2 DEF AckPacket, Packet
    <2>4. queue' = rest  BY <1>4, <2>3 DEF ReceivePacket
    <2>5. o \notin waitWord[n]  BY <1>2, <1>3, <1>12 DEF LinkOK
    <2>6. Outgoing(t, d) = <<>>  BY <1>2, <2>2 DEF Outgoing
    <2>7. \A u \in Tiles : \A e \in waitWord[u] : e \notin waitWord'[u] => u = t /\ e = d
      BY <1>4, <2>3 DEF IInv, TypeOK
    <2>8. \A u \in Tiles : \A e \in waitWord[u] :
            ~(u = n /\ e = o) => Outgoing(u, e)' = Outgoing(u, e)
      BY <1>8, <1>10, <1>11, <2>4 DEF Outgoing
    <2>9. q[1].type # "WRITE"  BY <1>7, <2>3
    <2>10. QED  BY <1>1, <1>2, <1>6, <1>9, <2>5, <2>6, <2>7, <2>8, <2>9
  \* It serves the neighbour that holds the link.
  <1>13. CASE lock[k] = n
    <2>1. o \in waitWord[n] /\ Exchange(n, o)
      BY <1>1, <1>2, <1>3, <1>13, NoTileOutside DEF LinkOK, Silent
    <2>2. d \notin waitWord[t]  BY <1>2, <1>3, <1>13 DEF LinkOK
    <2>3. waitWord' = waitWord
      <3>1. waitWord[t] \ {d} = waitWord[t]  BY <2>2
      <3>2. waitWord \in [Tiles -> SUBSET Dir]  BY DEF TypeOK, IInv
      <3>3. QED  BY <1>4, <3>1, <3>2
    <2>4. q[1].type = "WRITE" => q[1].generation = generation[n]
      <3>1. CASE o \in owed[n]
        <4>1. Writes(q, Len(q), generation[n])  BY <1>2, <2>1, <3>1 DEF Exchange
        <4>2. 1 \in 1 .. Len(q)  BY <1>7
        <4>3. QED  BY <4>1, <4>2 DEF Writes
      <3>2. CASE o \notin owed[n]
        <4>1. /\ q[Len(q)] = CompletePacket(generation[n], o)
              /\ Writes(q, Len(q) - 1, generation[n])
          BY <1>1, <1>2, <2>1, <3>2 DEF Exchange
        <4>2. Len(q) = 1 => q[1].type # "WRITE"
          BY <4>1 DEF CompletePacket, Packet
        <4>3. Len(q) # 1 => 1 \in 1 .. Len(q) - 1
          <5>1. \A l \in Nat \ {0} : l # 1 => 1 \in 1 .. l - 1  OBVIOUS
          <5>2. QED  BY <1>7, <5>1
        <4>4. QED  BY <4>1, <4>2, <4>3 DEF Writes
      <3>3. QED  BY <3>1, <3>2
    <2>5. q[1].type \in {"WRITE", "EVENT_COMPLETE"} /\ (q[1].type = "EVENT_COMPLETE" => q[1].neighbor = o)
      <3>1. CASE o \in owed[n]
        <4>1. Writes(q, Len(q), generation[n])  BY <1>2, <2>1, <3>1 DEF Exchange
        <4>2. 1 \in 1 .. Len(q)  BY <1>7
        <4>3. QED  BY <4>1, <4>2 DEF Writes
      <3>2. CASE o \notin owed[n]
        <4>1. /\ q[Len(q)] = CompletePacket(generation[n], o)
              /\ Writes(q, Len(q) - 1, generation[n])
          BY <1>1, <1>2, <2>1, <3>2 DEF Exchange
        <4>2. Len(q) = 1 => q[1].type = "EVENT_COMPLETE" /\ q[1].neighbor = o
          BY <4>1 DEF CompletePacket, Packet
        <4>3. Len(q) # 1 => 1 \in 1 .. Len(q) - 1
          <5>1. \A l \in Nat \ {0} : l # 1 => 1 \in 1 .. l - 1  OBVIOUS
          <5>2. QED  BY <1>7, <5>1
        <4>4. QED  BY <4>1, <4>2, <4>3 DEF Writes
      <3>3. QED  BY <3>1, <3>2
    <2>6. \A u \in Tiles, e \in Dir : ~(u = n /\ e = o) => queue'[u][e] = rest[u][e]
      <3>1. CASE q[1].type = "WRITE"
        BY <1>4, <1>7, <3>1 DEF ReceivePacket
      <3>2. CASE q[1].type = "EVENT_COMPLETE"
        <4>1. q[1].neighbor = o  BY <2>5, <3>2
        <4>2. queue' = [rest EXCEPT ![n][o] = Append(@, AckPacket(q[1].generation, d))]
          BY <1>2, <1>4, <1>7, <3>2, <4>1 DEF ReceivePacket
        <4>3. QED  BY <1>8, <4>2
      <3>3. QED  BY <2>5, <3>1, <3>2
    <2>7. \A u \in Tiles : \A e \in waitWord[u] :
            ~(u = n /\ e = o) => Outgoing(u, e)' = Outgoing(u, e)
      <3> SUFFICES ASSUME NEW u \in Tiles, NEW e \in waitWord[u], ~(u = n /\ e = o)
                   PROVE  Outgoing(u, e)' = Outgoing(u, e)
        OBVIOUS
      <3>1. ~(Neighbor(u, e) = t /\ OppositeDir(e) = d)  BY <1>11
      <3>2. ~(Neighbor(u, e) = n /\ OppositeDir(e) = o)
        <4>1. ~(u = t /\ e = d)  BY <2>2
        <4>2. QED  BY <1>1, <1>2, <1>10, <4>1, OneSender
      <3>3. QED  BY <1>8, <1>10, <2>6, <3>1, <3>2 DEF Outgoing
    <2>8. Outgoing(n, o)' = Tail(q)
      BY <1>1, <1>2, <1>8, <2>6 DEF Outgoing
    <2>9. QED  BY <1>1, <1>2, <1>6, <2>1, <2>3, <2>4, <2>7, <2>8
  <1>14. QED  BY <1>5, <1>12, <1>13

\* What a read changes: one site of the reader, which the sender's window has
\* and no other event's.
LEMMA ReadPlaces ==
  ASSUME IInv, CopyInv, NEW t \in Tiles, ReadPacket(t)
  PROVE  \/ /\ atoms' = atoms
            /\ queue[t][scan[t]][1].type # "WRITE"
         \/ \E n \in Tiles \ {t} : \E p \in Frame(n) : \E o \in SendDirs(n, p) :
              /\ Reporting(n)
              /\ Neighbor(n, o) = t
              /\ GetNeighborLoc(o, p) \in Locals(t)
              /\ ToGrid(t, GetNeighborLoc(o, p)) = ToGrid(n, p)
              /\ queue[t][scan[t]][1] = News(n, o, p)
              /\ atoms' = [atoms EXCEPT ![t][GetNeighborLoc(o, p)] = atoms[n][p]]
  <1>0. queue[t][scan[t]][1].type # "WRITE" => atoms' = atoms
    <2>1. queue[t][scan[t]] # <<>> /\ queue[t][scan[t]] \in Seq(Packets)
      BY ReadFacts
    <2>2. Head(queue[t][scan[t]]) = queue[t][scan[t]][1]  BY <2>1
    <2>3. QED  BY <2>2 DEF ReadPacket, ReceivePacket
  <1> SUFFICES ASSUME NEW d, d = scan[t], NEW n, n = Neighbor(t, d),
                      NEW o, o = OppositeDir(d), NEW q, q = queue[t][d],
                      q[1].type = "WRITE"
               PROVE  \E p \in Frame(n) :
                        /\ n \in Tiles \ {t} /\ Reporting(n)
                        /\ o \in SendDirs(n, p)
                        /\ Neighbor(n, o) = t
                        /\ GetNeighborLoc(o, p) \in Locals(t)
                        /\ ToGrid(t, GetNeighborLoc(o, p)) = ToGrid(n, p)
                        /\ q[1] = News(n, o, p)
                        /\ atoms' = [atoms EXCEPT ![t][GetNeighborLoc(o, p)] = atoms[n][p]]
    BY <1>0
  <1>1. /\ d \in Dir /\ n \in Tiles /\ n # t /\ o \in Dir /\ Neighbor(n, o) = t
        /\ Outgoing(n, o) = q /\ q \in Seq(Packets) /\ q # <<>>
        /\ o \in waitWord[n] /\ q[1].generation = generation[n]
    BY ReadFacts
  <1>2. Head(q) = q[1] /\ 1 \in 1 .. Len(q)  BY <1>1
  <1>3. PICK p \in Frame(n) : o \in SendDirs(n, p) /\ q[1] = News(n, o, p)
    BY <1>1, <1>2 DEF CopyInv, TransitTrue
  <1>4. Reporting(n)  BY <1>1, BusyReporting DEF IInv
  <1>5. p \in Locals(n)  BY DEF Frame
  <1> DEFINE x == GetNeighborLoc(o, p)
  <1>6. x \in Locals(t) /\ ToGrid(t, x) = ToGrid(n, p)
    BY <1>1, <1>3, <1>5, SentToCopy
  <1>7. IsLiveSite(t, x)  BY <1>6, LocalsLive
  <1>8. q[1].location = x /\ q[1].atom = atoms[n][p]
    BY <1>3 DEF News, WritePacket, Packet
  <1>9. generation[n] = generation[t]  BY <1>1 DEF CopyInv, GenerationsAgree
  <1>10. PlaceAtom(t, x, atoms[n][p])
    BY <1>1, <1>2, <1>8, <1>9 DEF ReadPacket, ReceivePacket
  <1>11. x \in DOMAIN atoms[t]  BY <1>6 DEF IInv, TypeOK
  <1>12. atoms' = [atoms EXCEPT ![t] = [@ EXCEPT ![x] = atoms[n][p]]]
    <2>1. atoms' = [atoms EXCEPT ![t] = Place(@, x, atoms[n][p])]
      BY <1>7, <1>10 DEF PlaceAtom
    <2>2. Place(atoms[t], x, atoms[n][p]) = [atoms[t] EXCEPT ![x] = atoms[n][p]]
      BY <1>11 DEF Place
    <2>3. QED  BY <2>1, <2>2
  <1>13. atoms' = [atoms EXCEPT ![t][x] = atoms[n][p]]  BY <1>12
  <1>14. QED  BY <1>1, <1>3, <1>4, <1>6, <1>13

\* A tile that reports an event has its window as it was, and a copy of a site
\* of that window only ever changes to what is reported.
LEMMA ReadKeepsEvent ==
  ASSUME IInv, CopyInv, NEW t \in Tiles, ReadPacket(t),
         NEW u \in Tiles, InEvent(u), NEW r \in Frame(u)
  PROVE  /\ atoms'[u][r] = atoms[u][r]
         /\ \A v \in Tiles : \A y \in Locals(v) :
              ToGrid(v, y) = ToGrid(u, r) =>
                atoms'[v][y] = atoms[v][y] \/ atoms'[v][y] = atoms[u][r]
  <1>1. CASE atoms' = atoms  BY <1>1
  <1>2. ASSUME NEW n \in Tiles \ {t}, NEW p \in Frame(n), NEW o \in SendDirs(n, p),
               Reporting(n), GetNeighborLoc(o, p) \in Locals(t),
               ToGrid(t, GetNeighborLoc(o, p)) = ToGrid(n, p),
               atoms' = [atoms EXCEPT ![t][GetNeighborLoc(o, p)] = atoms[n][p]]
        PROVE  /\ atoms'[u][r] = atoms[u][r]
               /\ \A v \in Tiles : \A y \in Locals(v) :
                    ToGrid(v, y) = ToGrid(u, r) =>
                      atoms'[v][y] = atoms[v][y] \/ atoms'[v][y] = atoms[u][r]
    <2> SUFFICES ASSUME NEW x, x = GetNeighborLoc(o, p)
                 PROVE  /\ atoms'[u][r] = atoms[u][r]
                        /\ \A v \in Tiles : \A y \in Locals(v) :
                             ToGrid(v, y) = ToGrid(u, r) =>
                               atoms'[v][y] = atoms[v][y] \/ atoms'[v][y] = atoms[u][r]
      OBVIOUS
    <2>1. atoms' = [atoms EXCEPT ![t][x] = atoms[n][p]] /\ x \in Locals(t)
      BY <1>2
    <2>2. \A v \in Tiles : \A y \in Locals(v) :
            ~(v = t /\ y = x) => atoms'[v][y] = atoms[v][y]
      BY <2>1 DEF IInv, TypeOK
    <2>3. atoms'[t][x] = atoms[n][p]  BY <2>1 DEF IInv, TypeOK
    <2>4. /\ InEvent(u) /\ InEvent(n) /\ r \in Window(center[u]) /\ r \in Locals(u)
          /\ p \in Window(center[n])
      BY <1>2, BusyReporting DEF IInv, Frame
    <2>5. ~(u = t /\ r = x)
      <3>1. SUFFICES ASSUME u = t, r = x PROVE FALSE  OBVIOUS
      <3>2. ToGrid(u, r) = ToGrid(n, p)  BY <1>2, <3>1
      <3>3. u = n  BY <2>4, <3>2, OneEvent
      <3>4. QED  BY <3>1, <3>3
    <2>6. ASSUME ToGrid(t, x) = ToGrid(u, r)
          PROVE  atoms'[t][x] = atoms[u][r]
      <3>1. ToGrid(u, r) = ToGrid(n, p)  BY <1>2, <2>6
      <3>2. u = n /\ r = p  BY <2>4, <3>1, OneEvent
      <3>3. QED  BY <2>3, <3>2
    <2>7. QED  BY <2>2, <2>4, <2>5, <2>6
  <1>3. QED  BY <1>1, <1>2, ReadPlaces

\* A window being reported is one of those.
LEMMA ReadKeeps ==
  ASSUME IInv, CopyInv, NEW t \in Tiles, ReadPacket(t),
         NEW u \in Tiles, Reporting(u), NEW r \in Frame(u)
  PROVE  /\ atoms'[u][r] = atoms[u][r]
         /\ \A v \in Tiles : \A y \in Locals(v) :
              ToGrid(v, y) = ToGrid(u, r) =>
                atoms'[v][y] = atoms[v][y] \/ atoms'[v][y] = atoms[u][r]
  <1>1. InEvent(u)  BY BusyReporting DEF IInv
  <1>2. QED  BY <1>1, ReadKeepsEvent

LEMMA PacketRead ==
  ASSUME IInv, CopyInv, NEW t \in Tiles, ReadPacket(t)
  PROVE  CopyInv'
  <1> SUFFICES ASSUME NEW d, d = scan[t], NEW n, n = Neighbor(t, d),
                      NEW o, o = OppositeDir(d), NEW q, q = queue[t][d]
               PROVE  CopyInv'
    OBVIOUS
  <1>1. UNCHANGED <<generation, pc, center, outbox>>  BY DEF ReadPacket
  <1>2. /\ n \in Tiles /\ Neighbor(n, o) = t /\ Outgoing(n, o) = q
        /\ q \in Seq(Packets) /\ q # <<>>
    <2>1. n \in Tiles /\ Neighbor(n, o) = t /\ Outgoing(n, o) = q
      BY ReadFacts
    <2>2. q \in Seq(Packets) /\ q # <<>>  BY ReadFacts
    <2>3. QED  BY <2>1, <2>2
  <1>3. /\ \A u \in Tiles : waitWord'[u] \subseteq waitWord[u]
        /\ \A u \in Tiles : \A e \in waitWord[u] :
             /\ e \notin waitWord'[u] => Outgoing(u, e) = <<>>
             /\ e \in waitWord'[u] /\ ~(u = n /\ e = o) => Outgoing(u, e)' = Outgoing(u, e)
             /\ e \in waitWord'[u] /\ u = n /\ e = o => Outgoing(u, e)' = Tail(q)
    BY ReadFacts
  <1>4. \A u : Frame(u)' = Frame(u) /\ (Reporting(u)' <=> Reporting(u))
    BY <1>1 DEF Frame, Reporting
  <1>5. /\ Len(q) \in Nat /\ Len(Tail(q)) = Len(q) - 1
        /\ \A i \in 1 .. Len(q) - 1 : Tail(q)[i] = q[i + 1]
    BY <1>2, <1>3, WritesTail
  <1>6. \A u \in Tiles : Reporting(u) => \A p \in Frame(u), e \in Dir : News(u, e, p)' = News(u, e, p)
    BY <1>1, ReadKeeps DEF News, WritePacket, Packet
  <1>7. GenerationsAgree'  BY <1>1 DEF CopyInv, GenerationsAgree
  <1>8. OutboxTrue'  BY <1>1, <1>4 DEF CopyInv, OutboxTrue
  <1>9. TransitTrue'
    <2> SUFFICES ASSUME NEW u \in Tiles, NEW e \in waitWord'[u],
                        NEW i \in 1 .. Len(Outgoing(u, e)'),
                        Outgoing(u, e)'[i].type = "WRITE"
                 PROVE  \E p \in Frame(u) :
                          e \in SendDirs(u, p) /\ Outgoing(u, e)'[i] = News(u, e, p)'
      BY <1>4 DEF TransitTrue
    <2>1. e \in waitWord[u] /\ Reporting(u)  BY <1>2, <1>3, BusyReporting DEF IInv
    <2>2. \E j \in 1 .. Len(Outgoing(u, e)) : Outgoing(u, e)[j] = Outgoing(u, e)'[i]
      <3>1. CASE u = n /\ e = o
        <4>1. Outgoing(u, e)' = Tail(q)  BY <1>2, <1>3, <3>1
        <4>2. i \in 1 .. Len(q) - 1 /\ i + 1 \in 1 .. Len(q)
          BY <1>5, <4>1
        <4>3. Tail(q)[i] = q[i + 1]  BY <1>5, <4>2
        <4>4. QED  BY <1>2, <1>3, <3>1, <4>1, <4>2, <4>3
      <3>2. CASE ~(u = n /\ e = o)  BY <1>2, <1>3, <2>1, <3>2
      <3>3. QED  BY <3>1, <3>2
    <2>3. PICK p \in Frame(u) : e \in SendDirs(u, p) /\ Outgoing(u, e)'[i] = News(u, e, p)
      BY <2>1, <2>2 DEF CopyInv, TransitTrue
    <2>4. QED  BY <1>6, <2>1, <2>3, SendConnected
  <1>10. Delivered'
    <2>0. \A u \in Tiles : Reporting(u) => \A p \in Frame(u) : atoms'[u][p] = atoms[u][p]
      BY ReadKeeps
    <2> SUFFICES ASSUME NEW u \in Tiles, Reporting(u), NEW p \in Frame(u), NEW e \in SendDirs(u, p),
                        <<e, p>> \notin outbox[u],
                        ~ \E i \in 1 .. Len(Outgoing(u, e)') : Outgoing(u, e)'[i] = News(u, e, p)'
                 PROVE  atoms'[Neighbor(u, e)][GetNeighborLoc(e, p)] = atoms'[u][p]
      BY <1>1, <1>4 DEF Delivered
    <2> SUFFICES atoms'[Neighbor(u, e)][GetNeighborLoc(e, p)] = atoms[u][p]
      BY <2>0
    <2>5. News(u, e, p)' = News(u, e, p)  BY <1>6, SendConnected
    <2> DEFINE v == Neighbor(u, e)
               y == GetNeighborLoc(e, p)
    <2>1. v \in Tiles /\ y \in Locals(v) /\ ToGrid(v, y) = ToGrid(u, p)
      BY SentToCopy DEF Frame
    <2>2. CASE atoms[v][y] = atoms[u][p]  BY <2>1, <2>2, ReadKeeps
    <2>3. CASE atoms[v][y] # atoms[u][p]
      <3>1. PICK i \in 1 .. Len(Outgoing(u, e)) : Outgoing(u, e)[i] = News(u, e, p)
        BY <2>3 DEF CopyInv, Delivered
      <3>2. e \in waitWord[u]
        <4>1. Outgoing(u, e) # <<>>  BY <3>1
        <4>2. InEvent(u) /\ p \in Window(center[u])  BY BusyReporting DEF IInv, Frame
        <4>3. QED  BY <4>1, <4>2, SendsHeld
      <3>3. e \in waitWord'[u]
        <4>1. Outgoing(u, e) # <<>>  BY <3>1
        <4>2. QED  BY <1>2, <1>3, <3>2, <4>1
      <3>4. u = n /\ e = o  BY <1>3, <2>5, <3>1, <3>2, <3>3
      <3>5. Outgoing(u, e)' = Tail(q)  BY <1>3, <3>2, <3>3, <3>4
      <3>6. i = 1
        <4>1. SUFFICES ASSUME i # 1 PROVE FALSE  OBVIOUS
        <4>2. i \in 1 .. Len(q)  BY <1>2, <1>3, <3>1, <3>4
        <4>3. i - 1 \in 1 .. Len(q) - 1 /\ (i - 1) + 1 = i  BY <1>5, <4>1, <4>2
        <4>4. Tail(q)[i - 1] = q[i]  BY <1>5, <4>3
        <4>5. QED  BY <1>2, <1>3, <1>5, <2>5, <3>1, <3>4, <3>5, <4>3, <4>4
      <3>7. q[1] = News(n, o, p)  BY <1>2, <1>3, <3>1, <3>4, <3>6
      <3>8A. PICK m \in Tiles \ {t} : \E r \in Frame(m), b \in Dir :
              /\ q[1] = News(m, b, r)
              /\ GetNeighborLoc(b, r) \in Locals(t)
              /\ atoms' = [atoms EXCEPT ![t][GetNeighborLoc(b, r)] = atoms[m][r]]
        <4>1. q[1].type = "WRITE"  BY <3>7 DEF News, WritePacket, Packet
        <4>2. QED  BY <4>1, ReadPlaces, SendConnected
      <3>8. PICK r \in Frame(m), b \in Dir :
              /\ q[1] = News(m, b, r)
              /\ GetNeighborLoc(b, r) \in Locals(t)
              /\ atoms' = [atoms EXCEPT ![t][GetNeighborLoc(b, r)] = atoms[m][r]]
        BY <3>8A
      <3>9. q[1].location = y /\ q[1].atom = atoms[u][p]
        BY <3>4, <3>7 DEF News, WritePacket, Packet
      <3>11. q[1].location = GetNeighborLoc(b, r) /\ q[1].atom = atoms[m][r]
        BY <3>8 DEF News, WritePacket, Packet
      <3>12. y \in Locals(t) /\ atoms' = [atoms EXCEPT ![t][y] = atoms[u][p]]
        BY <3>8, <3>9, <3>11
      <3>13. QED  BY <1>2, <1>3, <3>4, <3>12 DEF IInv, TypeOK
    <2>4. QED  BY <2>2, <2>3
  <1>11. CachesAgree'
    <2> SUFFICES ASSUME NEW g \in Watched, \A v \in Tiles : ~Reports(v, g),
                        NEW v \in Holders(g)
                 PROVE  atoms'[v][CopyOf(v, g)] = atoms[v][CopyOf(v, g)]
      BY <1>1, <1>4 DEF CopyInv, CachesAgree, Reports, Manhattan
    <2>1. v \in Tiles /\ CopyOf(v, g) \in Locals(v) /\ ToGrid(v, CopyOf(v, g)) = g
      BY GridRoundTrip, TilesAssumption DEF Holders, Locals
    <2>2. CASE atoms' = atoms  BY <2>2
    <2>3. ASSUME NEW m \in Tiles, NEW p \in Frame(m), NEW x, x \in Locals(t),
                 Reporting(m), ToGrid(t, x) = ToGrid(m, p),
                 atoms' = [atoms EXCEPT ![t][x] = atoms[m][p]]
          PROVE  atoms'[v][CopyOf(v, g)] = atoms[v][CopyOf(v, g)]
      <3>1. Reports(m, ToGrid(m, p))  BY <2>3, ReportedFrame DEF IInv
      <3>2. ~(v = t /\ CopyOf(v, g) = x)  BY <2>1, <2>3, <3>1
      <3>3. QED  BY <2>1, <2>3, <3>2 DEF IInv, TypeOK
    <2>4. QED  BY <2>2, <2>3, ReadPlaces
  <1>12. QED  BY <1>7, <1>8, <1>9, <1>10, <1>11 DEF CopyInv
-----------------------------------------------------------------------------
(* The driver's steps *)

\* Dividing by a tile's side: the tile of the row, and the place in it.
LEMMA AxisOwner ==
  ASSUME NEW n \in Nat, NEW s \in Nat, s > 0, NEW x \in 0 .. n * s - 1
  PROVE  /\ x \div s \in 0 .. n - 1
         /\ (x \div s) * s + (x % s) = x
  <1> DEFINE k == x \div s
             m == x % s
  <1>1. n * s \in Nat  OBVIOUS
  <1>2. x \in Nat /\ x < n * s  BY <1>1
  <1>3. k \in Int /\ m \in 0 .. s - 1 /\ x = s * k + m  BY <1>2
  <1> HIDE DEF k, m
  <1>4. s * k \in Int /\ s * k = k * s  BY <1>3
  <1>5. k >= 0
    <2>1. SUFFICES ASSUME k <= -1 PROVE FALSE  BY <1>3
    <2>2. (-1 - k) * s >= 0
      <3>1. -1 - k \in Nat  BY <1>3, <2>1
      <3>2. QED  BY <3>1
    <2>3. (-1 - k) * s = -s - k * s  BY <1>3
    <2>4. QED  BY <1>2, <1>3, <1>4, <2>2, <2>3
  <1>6. k <= n - 1
    <2>1. SUFFICES ASSUME k >= n PROVE FALSE  BY <1>3
    <2>2. (k - n) * s >= 0
      <3>1. k - n \in Nat  BY <1>3, <2>1
      <3>2. QED  BY <3>1
    <2>3. (k - n) * s = k * s - n * s  BY <1>3
    <2>4. QED  BY <1>1, <1>2, <1>3, <1>4, <2>2, <2>3
  <1>7. QED  BY <1>3, <1>4, <1>5, <1>6 DEF k, m

\* Grid::MapGridToTile: the tile that owns a site holds it at the point named.
LEMMA OwnerHolds ==
  ASSUME NEW g \in GridSites
  PROVE  /\ TileOwning(g) \in Tiles
         /\ SiteInTile(g) \in OwnedPoints /\ SiteInTile(g) \in TilePoints
         /\ ToGrid(TileOwning(g), SiteInTile(g)) = g
         /\ CopyOf(TileOwning(g), g) = SiteInTile(g)
  <1>1. /\ g = <<g[1], g[2]>>
        /\ g[1] \in 0 .. GRID_WIDTH * OWNED_SIDE - 1
        /\ g[2] \in 0 .. GRID_HEIGHT * OWNED_SIDE - 1
    BY DEF GridSites
  <1>2. OWNED_SIDE \in Nat /\ OWNED_SIDE > 0 /\ R \in Int  BY Sizes
  <1>3. /\ g[1] \div OWNED_SIDE \in 0 .. GRID_WIDTH - 1
        /\ (g[1] \div OWNED_SIDE) * OWNED_SIDE + (g[1] % OWNED_SIDE) = g[1]
    BY <1>1, <1>2, Sizes, AxisOwner
  <1>4. /\ g[2] \div OWNED_SIDE \in 0 .. GRID_HEIGHT - 1
        /\ (g[2] \div OWNED_SIDE) * OWNED_SIDE + (g[2] % OWNED_SIDE) = g[2]
    BY <1>1, <1>2, Sizes, AxisOwner
  <1>5. TileOwning(g) \in Tiles  BY <1>3, <1>4 DEF TileOwning, Tiles
  <1>6. SiteInTile(g) \in OwnedPoints /\ SiteInTile(g) \in TilePoints
    BY SiteInTileOwned, OwnedInTile
  <1>7. ToGrid(TileOwning(g), SiteInTile(g)) = g
    <2>1. /\ g[1] \in Int /\ g[2] \in Int
          /\ g[1] % OWNED_SIDE \in Int /\ g[2] % OWNED_SIDE \in Int
          /\ (g[1] \div OWNED_SIDE) * OWNED_SIDE \in Int
          /\ (g[2] \div OWNED_SIDE) * OWNED_SIDE \in Int
      BY <1>1, <1>2, <1>3, <1>4, Sizes
    <2>2. ToGrid(TileOwning(g), SiteInTile(g)) =
            <<(g[1] \div OWNED_SIDE) * OWNED_SIDE + ((g[1] % OWNED_SIDE) + R) - R,
              (g[2] \div OWNED_SIDE) * OWNED_SIDE + ((g[2] % OWNED_SIDE) + R) - R>>
      BY DEF ToGrid, TileOwning, SiteInTile
    <2>3. QED  BY <1>1, <1>2, <1>3, <1>4, <2>1, <2>2
  <1>8. QED  BY <1>5, <1>6, <1>7, GridRoundTrip

\* Grid::PlaceAtom reaches every copy of the site and no other.
LEMMA EditPlaces ==
  ASSUME NEW g \in Watched, NEW a \in Atoms, Edit(g, a)
  PROVE  \A t \in Tiles : \A q \in Locals(t) :
           atoms'[t][q] = IF ToGrid(t, q) = g THEN a ELSE atoms[t][q]
  <1> DEFINE owner == TileOwning(g)
             p == SiteInTile(g)
             placed == {<<owner, p>>} \cup
               {<<Neighbor(owner, d), GetNeighborLoc(d, p)>> :
                  d \in {e \in EditDirs(p) : IsConnected(owner, e)}}
  <1>1. /\ owner \in Tiles /\ p \in TilePoints /\ ToGrid(owner, p) = g
    BY OwnerHolds, TilesAssumption
  <1>2. EditDirs(p) \subseteq Dir
    <2>1. SharedAt(p) # NoDir => SharedAt(p) \in Dir
      BY RegionSides DEF SharedAt, RegionAt
    <2>2. QED  BY <2>1, LockDirs DEF EditDirs
  <1>3. ASSUME NEW t \in Tiles, NEW q \in Locals(t)
        PROVE  <<t, q>> \in placed <=> ToGrid(t, q) = g
    <2>1. q \in TilePoints  BY LocalsWatched
    <2>2. ASSUME <<t, q>> \in placed PROVE ToGrid(t, q) = g
      <3>1. CASE <<t, q>> = <<owner, p>>  BY <1>1, <3>1
      <3>2. CASE <<t, q>> # <<owner, p>>
        <4>1. PICK d \in EditDirs(p) : <<t, q>> = <<Neighbor(owner, d), GetNeighborLoc(d, p)>>
          BY <2>2, <3>2
        <4>2. QED  BY <1>1, <1>2, <4>1, NeighborSite
      <3>3. QED  BY <3>1, <3>2
    <2>3. ASSUME ToGrid(t, q) = g, t = owner PROVE <<t, q>> \in placed
      BY <1>1, <2>1, <2>3, OneCopy
    <2>4. ASSUME ToGrid(t, q) = g, t # owner PROVE <<t, q>> \in placed
      <3>1. PICK d \in Dir :
              /\ t = Neighbor(owner, d)
              /\ q = GetNeighborLoc(d, p)
              /\ DX(d) = 1 => p[1] >= TILE_WIDTH - 2 * R
              /\ DX(d) = -1 => p[1] < 2 * R
              /\ DY(d) = 1 => p[2] >= TILE_WIDTH - 2 * R
              /\ DY(d) = -1 => p[2] < 2 * R
        BY <1>1, <2>1, <2>4, HeldByNeighbor
      <3>2. DX(d) \in {0, SideOf(p[1], 2 * R)} /\ DY(d) \in {0, SideOf(p[2], 2 * R)}
        <4>1. /\ DX(d) \in {-1, 0, 1} /\ DY(d) \in {-1, 0, 1}
          BY DirOffsets
        <4>2. /\ ~(p[1] >= TILE_WIDTH - 2 * R /\ p[1] < 2 * R)
              /\ ~(p[2] >= TILE_WIDTH - 2 * R /\ p[2] < 2 * R)
          BY <1>1, PointSite, Sizes
        <4>3. QED  BY <3>1, <4>1, <4>2 DEF SideOf
      <3>3. SideOf(p[1], 2 * R) # 0 \/ SideOf(p[2], 2 * R) # 0
        BY <3>2, DirOffsets
      <3>4. /\ SharedAt(p) \in Dir
            /\ DX(SharedAt(p)) = SideOf(p[1], 2 * R)
            /\ DY(SharedAt(p)) = SideOf(p[2], 2 * R)
        BY <3>3, RegionSides DEF SharedAt
      <3>5. d \in LockSet(SharedAt(p))
        BY <3>2, <3>4, LockSetCovers DEF LockSet
      <3>6. d \in EditDirs(p)
        BY <3>4, <3>5 DEF EditDirs, NoDir, Dir
      <3>7. IsConnected(owner, d)  BY <3>1 DEF IsConnected
      <3>8. QED  BY <3>1, <3>6, <3>7
    <2>5. QED  BY <2>2, <2>3, <2>4
  <1>4. atoms' = [t \in Tiles |->
            [q \in Locals(t) |-> IF <<t, q>> \in placed /\ IsLiveSite(t, q)
                                  THEN a ELSE atoms[t][q]]]
    BY DEF Edit
  <1> HIDE DEF placed
  <1>5. QED  BY <1>3, <1>4, LocalsLive

\* Whatever the driver does to the atoms of a stopped grid, no event is hurt.
LEMMA StoppedStep ==
  ASSUME IInv, CopyInv, Stopped, UNCHANGED <<queue, pc, center, outbox, waitWord>>,
         GenerationsAgree', CachesAgree'
  PROVE  CopyInv'
  <1>1. \A t \in Tiles : ~Reporting(t) /\ ~Reporting(t)'
    BY DEF Stopped, Reporting
  <1>2. \A t \in Tiles : waitWord[t] = {} /\ outbox[t] = {}
    BY <1>1, BusyReporting DEF IInv
  <1>3. OutboxTrue'  BY <1>2 DEF OutboxTrue
  <1>4. TransitTrue'  BY <1>2 DEF TransitTrue
  <1>5. Delivered'  BY <1>1 DEF Delivered
  <1>6. QED  BY <1>3, <1>4, <1>5 DEF CopyInv

LEMMA ClearStep ==
  ASSUME IInv, CopyInv, Clear
  PROVE  CopyInv'
  <1>1. GenerationsAgree'  BY DEF CopyInv, GenerationsAgree, Clear
  <1>2. CachesAgree'
    <2>1. \A t \in Tiles : \A g \in Watched : t \in Holders(g) => atoms'[t][CopyOf(t, g)] = Empty
      BY DEF Clear, Holders, Locals
    <2>2. QED  BY <2>1 DEF CachesAgree, Holders
  <1>3. Stopped /\ UNCHANGED <<queue, pc, center, outbox, waitWord>>
    BY DEF Clear, reportVars
  <1>4. QED  BY <1>1, <1>2, <1>3, StoppedStep

LEMMA EditStep ==
  ASSUME IInv, CopyInv, NEW g \in Watched, NEW a \in Atoms, Edit(g, a)
  PROVE  CopyInv'
  <1>1. Stopped /\ UNCHANGED <<generation, queue, pc, center, outbox, waitWord>>
    BY DEF Edit, reportVars
  <1>2. GenerationsAgree'  BY <1>1 DEF CopyInv, GenerationsAgree
  <1>3. CachesAgree'
    <2>1. ASSUME NEW h \in Watched, NEW t \in Holders(h)
          PROVE  atoms'[t][CopyOf(t, h)] = IF h = g THEN a ELSE atoms[t][CopyOf(t, h)]
      <3>1. t \in Tiles /\ CopyOf(t, h) \in Locals(t) /\ ToGrid(t, CopyOf(t, h)) = h
        BY GridRoundTrip, TilesAssumption DEF Holders, Locals
      <3>2. QED  BY <3>1, EditPlaces
    <2>2. \A h \in Watched : \A t \in Tiles : ~Reports(t, h)
      BY <1>1 DEF Stopped, Reports, Reporting
    <2>3. \A h \in Watched : \A t, u \in Holders(h) :
            atoms[t][CopyOf(t, h)] = atoms[u][CopyOf(u, h)]
      BY <2>2 DEF CopyInv, CachesAgree
    <2>4. QED  BY <2>1, <2>3 DEF CachesAgree
  <1>4. QED  BY <1>1, <1>2, <1>3, StoppedStep

LEMMA CopyInit == Init => CopyInv
  <1> SUFFICES ASSUME Init PROVE CopyInv  OBVIOUS
  <1>1. GenerationsAgree  BY DEF Init, GenerationsAgree
  <1>2. \A t \in Tiles : ~Reporting(t) /\ outbox[t] = {} /\ waitWord[t] = {}
    BY DEF Init, Reporting
  <1>3. OutboxTrue /\ TransitTrue /\ Delivered
    BY <1>2 DEF OutboxTrue, TransitTrue, Delivered
  <1>4. CachesAgree
    <2>1. PICK s \in [Watched -> Atoms] :
            atoms = [t \in Tiles |-> [p \in Locals(t) |-> s[ToGrid(t, p)]]]
      BY DEF Init
    <2>2. ASSUME NEW g \in Watched, NEW t \in Holders(g)
          PROVE  atoms[t][CopyOf(t, g)] = s[g]
      <3>1. t \in Tiles /\ CopyOf(t, g) \in Locals(t) /\ ToGrid(t, CopyOf(t, g)) = g
        BY GridRoundTrip, TilesAssumption DEF Holders, Locals
      <3>2. QED  BY <2>1, <3>1
    <2>3. QED  BY <2>2 DEF CachesAgree
  <1>5. QED  BY <1>1, <1>3, <1>4 DEF CopyInv

LEMMA CopyStep ==
  ASSUME IInv, CopyInv, [Next]_vars
  PROVE  CopyInv'
  <1>1. ASSUME NEW t \in Tiles, Step(t) PROVE CopyInv'
    BY <1>1, BeforeEvent, DuringEvent, EventHappens, AtomSent, EndSent, PacketRead, PassEnds
    DEF Step
  <1>2. ASSUME Clear PROVE CopyInv'  BY <1>2, ClearStep
  <1>3. ASSUME NEW g \in Watched, NEW a \in Atoms, Edit(g, a) PROVE CopyInv'
    BY <1>3, EditStep
  <1>4. CASE UNCHANGED vars  BY <1>4, QuietStep DEF vars, Reporting
  <1>5. QED  BY <1>1, <1>2, <1>3, <1>4 DEF Next
-----------------------------------------------------------------------------
(* What the tiles keep true of their atoms *)

LEMMA CopiesInductive == Spec => [](IInv /\ CopyInv)
  <1>1. IInv /\ CopyInv /\ [Next]_vars => CopyInv'  BY CopyStep
  <1>2. QED  BY <1>1, CopyInit, Inductive, PTL DEF Spec

\* SendRelevantAtoms and the locks keep every cache true: on every grid, all
\* the copies of a site agree unless it is in the window of an event that is
\* being reported, and Grid::CheckCaches finds nothing in a stopped grid.
THEOREM CopiesAgree == Spec => []CachesAgree
  <1>1. CopyInv => CachesAgree  BY DEF CopyInv
  <1>2. QED  BY <1>1, CopiesInductive, PTL

\* The copy of its window that a tile keeps, from the choice of the window on.
LEMMA WindowStays ==
  ASSUME IInv, CopyInv, [Next]_vars,
         NEW u \in Tiles, center[u] # NoPoint, ~(pc[u] = "execute" /\ pc'[u] = "report"),
         NEW r \in Frame(u)
  PROVE  atoms'[u][r] = atoms[u][r]
  <1>1. ASSUME NEW t \in Tiles, Step(t) PROVE atoms'[u][r] = atoms[u][r]
    <2>1. CASE \E b \in Behaviours : Execute(t, b)
      <3>1. PICK b \in Behaviours : Execute(t, b)  BY <2>1
      <3>2. pc[t] = "execute" /\ pc'[t] = "report"  BY <3>1 DEF Execute, Goto, IInv, TypeOK
      <3>3. u # t  BY <3>2
      <3>4. QED  BY <3>1, <3>3 DEF Execute, IInv, TypeOK
    <2>2. CASE ReadPacket(t)
      <3>1. CASE u = t
        <4>1. InEvent(u)  BY <2>2, <3>1 DEF ReadPacket, InEvent
        <4>2. QED  BY <2>2, <4>1, ReadKeepsEvent
      <3>2. CASE u # t
        <4>1. atoms'[u] = atoms[u]
          BY <2>2, <3>2 DEF ReadPacket, ReceivePacket, PlaceAtom, IInv, TypeOK
        <4>2. QED  BY <4>1
      <3>3. QED  BY <3>1, <3>2
    <2>3. CASE UNCHANGED atoms  BY <2>3
    <2>4. QED
      BY <1>1, <2>1, <2>2, <2>3
      DEF Step, CreateRandomWindow, TryLock, LockBusy, Unwind, SendAtom,
          SendEndEventPacket, StartFlush, ScanNext, EndPass, Unlock
  <1>2. ~Stopped  BY DEF Stopped
  <1>3. CASE UNCHANGED vars  BY <1>3 DEF vars
  <1>4. QED  BY <1>1, <1>2, <1>3 DEF Next, Clear, Edit

\* Where another tile keeps its copy of a site of the window.
LEMMA OtherCopy ==
  ASSUME NEW t \in Tiles, NEW p \in Locals(t), NEW u \in Holders(ToGrid(t, p))
  PROVE  /\ u \in Tiles
         /\ CopyOf(u, ToGrid(t, p)) \in Locals(u)
         /\ ToGrid(u, CopyOf(u, ToGrid(t, p))) = ToGrid(t, p)
  <1>1. p \in TilePoints /\ ToGrid(t, p) \in Watched  BY LocalsWatched
  <1>2. ToGrid(t, p) \in GridSites  BY <1>1, TilesAssumption
  <1>3. QED  BY <1>1, <1>2, GridRoundTrip DEF Holders, Locals

\* Those copies, while the event is in progress.
LEMMA CopiesStay ==
  ASSUME IInv, CopyInv, [Next]_vars,
         NEW t \in Tiles, InEvent(t), NEW p \in Frame(t),
         NEW u \in Holders(ToGrid(t, p)) \ {t}, NEW q, q = CopyOf(u, ToGrid(t, p))
  PROVE  atoms'[u][q] \in {atoms[u][q], atoms[t][p]}
  <1>1. /\ u \in Tiles /\ u # t /\ q \in Locals(u) /\ ToGrid(u, q) = ToGrid(t, p)
        /\ p \in Locals(t) /\ p \in Window(center[t])
    BY OtherCopy DEF Frame
  <1>2. ASSUME NEW v \in Tiles, Step(v) PROVE atoms'[u][q] \in {atoms[u][q], atoms[t][p]}
    <2>1. CASE \E b \in Behaviours : Execute(v, b)
      <3>1. PICK b \in Behaviours : Execute(v, b)  BY <2>1
      <3>2. CASE u # v  BY <1>1, <3>1, <3>2 DEF Execute, IInv, TypeOK
      <3>3. CASE u = v
        <4>1. InEvent(u) /\ center[u] \in OwnedPoints /\ Applies(atoms[u], center[u], b)
          BY <3>1, <3>3 DEF Execute, InEvent, IInv, EventInv, EventOK
        <4>2. q \notin Window(center[u])  BY <1>1, <4>1, OneEvent
        <4>3. q \in Int \X Int /\ atoms[u] \in [Locals(u) -> Atoms]
          <5>1. q \in Int \X Int  BY <1>1 DEF Locals, TilePoints
          <5>2. atoms[u] \in [Locals(u) -> Atoms]  BY <1>1 DEF IInv, TypeOK
          <5>3. QED  BY <5>1, <5>2
        <4>4. atoms'[u] = Result(atoms[u], center[u], b)
          BY <1>1, <3>1, <3>3 DEF Execute, IInv, TypeOK
        <4>5. atoms'[u][q] = atoms[u][q]  BY <1>1, <4>1, <4>2, <4>3, <4>4, ResultOutside
        <4>6. QED  BY <4>5
      <3>4. QED  BY <3>2, <3>3
    <2>2. CASE ReadPacket(v)  BY <1>1, <2>2, ReadKeepsEvent
    <2>3. CASE UNCHANGED atoms  BY <2>3
    <2>4. QED
      BY <1>2, <2>1, <2>2, <2>3
      DEF Step, CreateRandomWindow, TryLock, LockBusy, Unwind, SendAtom,
          SendEndEventPacket, StartFlush, ScanNext, EndPass, Unlock
  <1>3. ~Stopped
    <2>1. center[t] # NoPoint  BY DEF InEvent
    <2>2. QED  BY <2>1 DEF Stopped
  <1>4. CASE UNCHANGED vars  BY <1>4 DEF vars
  <1>5. QED  BY <1>2, <1>3, <1>4 DEF Next, Clear, Edit

\* From the choice of a window to its last lock given up nothing but the event's
\* behaviour changes the tile's copy of it, and from the last lock taken to the
\* last acknowledgment no other copy of its sites changes but to its atoms:
\* DoEvent needs no lock on the sites themselves.
THEOREM WindowsStay == Spec => WindowUndisturbed
  <1> DEFINE Undisturbed ==
        \A t \in Tiles : center[t] # NoPoint /\ center'[t] = center[t] =>
          \A p \in Window(center[t]) \cap Locals(t) :
            /\ ~(pc[t] = "execute" /\ pc'[t] = "report") => atoms'[t][p] = atoms[t][p]
            /\ InEvent(t) =>
                 \A u \in Holders(ToGrid(t, p)) \ {t} :
                   LET q == CopyOf(u, ToGrid(t, p))
                   IN  atoms'[u][q] \in {atoms[u][q], atoms[t][p]}
  <1>1. ASSUME IInv, CopyInv, [Next]_vars PROVE Undisturbed
    <2> SUFFICES ASSUME NEW t \in Tiles, center[t] # NoPoint, NEW p \in Frame(t)
                 PROVE  /\ ~(pc[t] = "execute" /\ pc'[t] = "report") => atoms'[t][p] = atoms[t][p]
                        /\ InEvent(t) =>
                             \A u \in Holders(ToGrid(t, p)) \ {t} :
                               LET q == CopyOf(u, ToGrid(t, p))
                               IN  atoms'[u][q] \in {atoms[u][q], atoms[t][p]}
      BY DEF Frame
    <2>1. ~(pc[t] = "execute" /\ pc'[t] = "report") => atoms'[t][p] = atoms[t][p]
      BY <1>1, WindowStays
    <2>2. ASSUME InEvent(t), NEW u \in Holders(ToGrid(t, p)) \ {t}
          PROVE  LET q == CopyOf(u, ToGrid(t, p)) IN atoms'[u][q] \in {atoms[u][q], atoms[t][p]}
      BY <1>1, <2>2, CopiesStay
    <2>3. QED  BY <2>1, <2>2
  <1>2. IInv /\ CopyInv /\ [Next]_vars => [Undisturbed]_vars  BY <1>1
  <1>3. QED  BY <1>2, CopiesInductive, PTL DEF Spec, WindowUndisturbed
-----------------------------------------------------------------------------
(* What the buffers hold *)

LEMMA SendsFinite ==
  ASSUME NEW S, S \subseteq Dir \X TilePoints
  PROVE  \A d : /\ IsFiniteSet(Toward(S, d))
                /\ Cardinality(Toward(S, d)) \in Nat
  <1>1. 0 \in Int /\ TILE_WIDTH - 1 \in Int /\ DIR_COUNT - 1 \in Int  BY Sizes
  <1>2. IsFiniteSet(0 .. TILE_WIDTH - 1)  BY <1>1, FS_Interval
  <1>3. IsFiniteSet(0 .. DIR_COUNT - 1)  BY <1>1, FS_Interval
  <1>4. IsFiniteSet(Dir \X TilePoints)
    BY <1>2, <1>3, FS_Product DEF TilePoints, Dir
  <1>5. \A d : Toward(S, d) \in SUBSET (Dir \X TilePoints)  BY DEF Toward
  <1>6. QED  BY <1>4, <1>5, FS_Subset, FS_CardinalityType

LEMMA FrameFinite ==
  ASSUME NEW t \in Tiles
  PROVE  IsFiniteSet(Frame(t)) /\ Cardinality(Frame(t)) \in Nat
  <1>1. 0 \in Int /\ TILE_WIDTH - 1 \in Int  BY Sizes
  <1>2. IsFiniteSet(0 .. TILE_WIDTH - 1)  BY <1>1, FS_Interval
  <1>3. IsFiniteSet(TilePoints)  BY <1>2, FS_Product DEF TilePoints
  <1>4. Frame(t) \in SUBSET TilePoints  BY LocalsWatched DEF Frame
  <1>5. QED  BY <1>3, <1>4, FS_Subset, FS_CardinalityType

\* Of each site at most one atom goes in one direction.
LEMMA OneAtomPerSite ==
  ASSUME NEW S, NEW F, IsFiniteSet(F), NEW d,
         \A s \in S : s = <<s[1], s[2]>> /\ s[1] = d /\ s[2] \in F
  PROVE  Cardinality(S) <= Cardinality(F)
  <1> DEFINE f == [s \in S |-> s[2]]
  <1>1. f \in [S -> F]  OBVIOUS
  <1>2. \A s, r \in S : f[s] = f[r] => s = r
    <2>1. SUFFICES ASSUME NEW s \in S, NEW r \in S, s[2] = r[2] PROVE s = r  OBVIOUS
    <2>2. s = <<d, s[2]>> /\ r = <<d, r[2]>>  OBVIOUS
    <2>3. QED  BY <2>1, <2>2
  <1> HIDE DEF f
  <1>3. f \in Injection(S, F)  BY <1>1, <1>2, Fun_IsInj
  <1>4. QED  BY <1>3, FS_Injection

\* Where less is waiting, or less is to come, there is still room.
LEMMA LessWaits ==
  ASSUME IInv, IInv', Room,
         \A t \in Tiles : \A d \in waitWord'[t] :
           \/ /\ d \in waitWord[t]
              /\ Len(Outgoing(t, d)') <= Len(Outgoing(t, d))
              /\ outbox'[t] = outbox[t] /\ owed'[t] = owed[t] /\ Frame(t)' = Frame(t)
           \/ Len(Outgoing(t, d)') + Cardinality(Toward(outbox'[t], d))
                + (IF d \in owed'[t] THEN 1 ELSE 0) <= Cardinality(Frame(t)') + 1
  PROVE  Room'
  <1> SUFFICES ASSUME NEW t \in Tiles, NEW d \in waitWord'[t]
               PROVE  Len(Outgoing(t, d)') + Cardinality(Toward(outbox'[t], d))
                        + (IF d \in owed'[t] THEN 1 ELSE 0) <= Cardinality(Frame(t)') + 1
    BY DEF Room
  <1>1. CASE /\ d \in waitWord[t]
             /\ Len(Outgoing(t, d)') <= Len(Outgoing(t, d))
             /\ outbox'[t] = outbox[t] /\ owed'[t] = owed[t] /\ Frame(t)' = Frame(t)
    <2> SUFFICES ASSUME NEW c, c = Cardinality(Toward(outbox[t], d)),
                        NEW n, n = Cardinality(Frame(t)),
                        NEW l, l = Len(Outgoing(t, d)), NEW m, m = Len(Outgoing(t, d)'),
                        NEW o, o = IF d \in owed[t] THEN 1 ELSE 0
                 PROVE  m + c + o <= n + 1
      BY <1>1
    <2>1. c \in Nat /\ n \in Nat /\ o \in Nat
      BY FrameFinite, SendsFinite DEF IInv, TypeOK
    <2>2. l \in Nat
      <3>1. d \in Dir /\ IsConnected(t, d)  BY <1>1, WaitsConnected
      <3>2. Neighbor(t, d) \in Tiles /\ OppositeDir(d) \in Dir
        BY <3>1, ConnectionEnds, DirOffsets
      <3>3. Outgoing(t, d) \in Seq(Packets)  BY <3>2 DEF Outgoing, IInv, TypeOK
      <3>4. QED  BY <3>3
    <2>3. m \in Nat
      <3>1. d \in Dir /\ IsConnected(t, d)  BY <1>1, WaitsConnected
      <3>2. Neighbor(t, d) \in Tiles /\ OppositeDir(d) \in Dir
        BY <3>1, ConnectionEnds, DirOffsets
      <3>3. Outgoing(t, d)' \in Seq(Packets)  BY <3>2 DEF Outgoing, IInv, TypeOK
      <3>4. QED  BY <3>3
    <2>4. l + c + o <= n + 1  BY <1>1 DEF Room
    <2>5. QED  BY <1>1, <2>1, <2>2, <2>3, <2>4
  <1>2. QED  BY <1>1

\* A packet sent was one to come.
LEMMA SentCounted ==
  ASSUME IInv, IInv', CopyInv, Room, NEW t \in Tiles, SendAtom(t) \/ SendEndEventPacket(t)
  PROVE  Room'
  <1>1. UNCHANGED <<waitWord, pc, center>> /\ \A u : Frame(u)' = Frame(u)
    BY DEF SendAtom, SendEndEventPacket, Frame
  <1>2. TypeOK  BY DEF IInv
  <1>3. ASSUME NEW d \in waitWord[t], NEW packet, Send(t, d, packet),
               \A u \in Tiles \ {t} : outbox'[u] = outbox[u] /\ owed'[u] = owed[u],
               \A e \in waitWord[t] \ {d} :
                 /\ Toward(outbox'[t], e) = Toward(outbox[t], e)
                 /\ e \in owed'[t] <=> e \in owed[t],
               Cardinality(Toward(outbox'[t], d)) + (IF d \in owed'[t] THEN 1 ELSE 0)
                 = Cardinality(Toward(outbox[t], d)) + (IF d \in owed[t] THEN 1 ELSE 0) - 1
        PROVE  Room'
    <2>1. d \in Dir /\ IsConnected(t, d)  BY WaitsConnected
    <2>2. /\ Outgoing(t, d)' = Append(Outgoing(t, d), packet)
          /\ Outgoing(t, d) \in Seq(Packets)
          /\ \A u \in Tiles, e \in Dir :
               IsConnected(u, e) /\ ~(u = t /\ e = d) => Outgoing(u, e)' = Outgoing(u, e)
      BY <1>2, <1>3, <2>1, SendJoins
    <2>3. Len(Outgoing(t, d)') = Len(Outgoing(t, d)) + 1 /\ Len(Outgoing(t, d)) \in Nat
      BY <2>2
    <2> SUFFICES ASSUME NEW u \in Tiles, NEW e \in waitWord[u]
                 PROVE  Len(Outgoing(u, e)') + Cardinality(Toward(outbox'[u], e))
                          + (IF e \in owed'[u] THEN 1 ELSE 0) <= Cardinality(Frame(u)) + 1
      BY <1>1 DEF Room
    <2>4. CASE ~(u = t /\ e = d)
      <3>1. e \in Dir /\ IsConnected(u, e)  BY WaitsConnected
      <3>2. Outgoing(u, e)' = Outgoing(u, e)  BY <2>2, <2>4, <3>1
      <3>3. /\ Toward(outbox'[u], e) = Toward(outbox[u], e)
            /\ e \in owed'[u] <=> e \in owed[u]
        <4>1. CASE u = t  BY <1>3, <2>4, <4>1
        <4>2. CASE u # t  BY <1>3, <4>2
        <4>3. QED  BY <4>1, <4>2
      <3>4. QED  BY <3>2, <3>3 DEF Room
    <2>5. CASE u = t /\ e = d
      <3> SUFFICES ASSUME NEW l, l = Len(Outgoing(t, d)), NEW m, m = Len(Outgoing(t, d)'),
                          NEW c, c = Cardinality(Toward(outbox[t], d)),
                          NEW b, b = Cardinality(Toward(outbox'[t], d)),
                          NEW n, n = Cardinality(Frame(t)),
                          NEW o, o = IF d \in owed[t] THEN 1 ELSE 0,
                          NEW p, p = IF d \in owed'[t] THEN 1 ELSE 0
                   PROVE  m + b + p <= n + 1
        BY <2>5
      <3>1. l \in Nat /\ n \in Nat /\ o \in Nat /\ p \in Nat  BY <2>3, FrameFinite
      <3>2. c \in Nat /\ b \in Nat  BY SendsFinite DEF IInv, TypeOK
      <3>3. m = l + 1  BY <2>3
      <3>4. b + p = c + o - 1  BY <1>3
      <3>5. l + c + o <= n + 1  BY DEF Room
      <3>6. \A i, j \in Nat : i + j = c + o - 1 /\ l + c + o <= n + 1 => (l + 1) + i + j <= n + 1
        BY <3>1, <3>2
      <3>7. QED  BY <3>1, <3>3, <3>4, <3>5, <3>6, <3>2
    <2>6. QED  BY <2>4, <2>5
  <1>4. CASE SendAtom(t)
    <2>1. PICK s \in outbox[t] :
            /\ outbox' = [outbox EXCEPT ![t] = @ \ {s}]
            /\ IF IsConnected(t, s[1])
               THEN Send(t, s[1], WritePacket(generation[t], s[1],
                                     GetNeighborLoc(s[1], s[2]), atoms[t][s[2]]))
               ELSE UNCHANGED queue
      BY <1>4 DEF SendAtom
    <2>2. s[1] \in waitWord[t] /\ IsConnected(t, s[1]) /\ owed' = owed
      BY <1>4, WaitsConnected DEF SendAtom
    <2>3. Send(t, s[1], News(t, s[1], s[2]))  BY <2>1, <2>2 DEF News
    <2>4. outbox'[t] = outbox[t] \ {s} /\ \A u \in Tiles \ {t} : outbox'[u] = outbox[u]
      BY <1>2, <2>1 DEF TypeOK
    <2>5. \A e \in waitWord[t] \ {s[1]} : Toward(outbox'[t], e) = Toward(outbox[t], e)
      BY <2>4 DEF Toward
    <2>6. Toward(outbox'[t], s[1]) = Toward(outbox[t], s[1]) \ {s}
      BY <2>4 DEF Toward
    <2>7. Cardinality(Toward(outbox'[t], s[1])) = Cardinality(Toward(outbox[t], s[1])) - 1
      <3> SUFFICES ASSUME NEW S, S = Toward(outbox[t], s[1])
                   PROVE  Cardinality(S \ {s}) = Cardinality(S) - 1
        BY <2>6
      <3>1. s \in S  BY DEF Toward
      <3>2. IsFiniteSet(S)  BY SendsFinite DEF IInv, TypeOK
      <3>3. QED  BY <3>1, <3>2, FS_RemoveElement
    <2>8. Cardinality(Toward(outbox'[t], s[1])) + (IF s[1] \in owed'[t] THEN 1 ELSE 0)
            = Cardinality(Toward(outbox[t], s[1])) + (IF s[1] \in owed[t] THEN 1 ELSE 0) - 1
      <3> SUFFICES ASSUME NEW c, c = Cardinality(Toward(outbox[t], s[1])),
                          NEW b, b = Cardinality(Toward(outbox'[t], s[1])),
                          NEW o, o = IF s[1] \in owed[t] THEN 1 ELSE 0
                   PROVE  b + o = c + o - 1
        BY <2>2
      <3>1. c \in Nat /\ o \in Nat /\ b = c - 1  BY <2>7, SendsFinite DEF IInv, TypeOK
      <3>2. QED  BY <3>1
    <2>9. QED  BY <1>3, <2>2, <2>3, <2>4, <2>5, <2>8
  <1>5. CASE SendEndEventPacket(t)
    <2>1. PICK d \in owed[t] :
            /\ owed' = [owed EXCEPT ![t] = @ \ {d}]
            /\ IF IsConnected(t, d)
               THEN Send(t, d, CompletePacket(generation[t], d))
               ELSE UNCHANGED queue
      BY <1>5 DEF SendEndEventPacket
    <2>2. d \in waitWord[t] /\ IsConnected(t, d)
      BY DEF IInv, EventInv, EventOK
    <2>3. Send(t, d, CompletePacket(generation[t], d)) /\ outbox' = outbox
      BY <1>5, <2>1, <2>2 DEF SendEndEventPacket
    <2>4. /\ owed'[t] = owed[t] \ {d}
          /\ \A u \in Tiles \ {t} : owed'[u] = owed[u]
      BY <1>2, <2>1 DEF TypeOK
    <2>5. Cardinality(Toward(outbox'[t], d)) + (IF d \in owed'[t] THEN 1 ELSE 0)
            = Cardinality(Toward(outbox[t], d)) + (IF d \in owed[t] THEN 1 ELSE 0) - 1
      <3> SUFFICES ASSUME NEW c, c = Cardinality(Toward(outbox[t], d))
                   PROVE  c + 0 = c + 1 - 1
        BY <2>3, <2>4
      <3>1. c \in Nat  BY SendsFinite DEF IInv, TypeOK
      <3>2. QED  BY <3>1
    <2>6. QED  BY <1>3, <2>2, <2>3, <2>4, <2>5
  <1>6. QED  BY <1>4, <1>5

\* An event begins to be reported over connections that carry nothing yet.
LEMMA HappenedCounted ==
  ASSUME IInv, IInv', CopyInv, CopyInv', Room,
         NEW t \in Tiles, NEW b \in Behaviours, Execute(t, b)
  PROVE  Room'
  <1>1. /\ UNCHANGED <<queue, center>> /\ InEvent(t)
        /\ \A u \in Tiles \ {t} :
             outbox'[u] = outbox[u] /\ owed'[u] = owed[u] /\ waitWord'[u] = waitWord[u]
        /\ waitWord'[t] = Reached(t, center[t])
    <2>1. UNCHANGED <<queue, center>>  BY DEF Execute
    <2>2. InEvent(t)  BY DEF Execute, InEvent, IInv, EventInv, EventOK
    <2>3. \A u \in Tiles \ {t} :
            outbox'[u] = outbox[u] /\ owed'[u] = owed[u] /\ waitWord'[u] = waitWord[u]
      BY DEF Execute, IInv, TypeOK
    <2>4. waitWord'[t] = Reached(t, center[t])  BY DEF Execute, IInv, TypeOK
    <2>5. QED  BY <2>1, <2>2, <2>3, <2>4
  <1>2. /\ \A u : Frame(u)' = Frame(u)
        /\ \A u, d : Outgoing(u, d)' = Outgoing(u, d)
    BY <1>1 DEF Frame, Outgoing
  <1>3. \A u \in Tiles \ {t} : \A d \in waitWord[u] : Len(Outgoing(u, d)) \in Nat
    <2> SUFFICES ASSUME NEW u \in Tiles, NEW d \in waitWord[u] PROVE Len(Outgoing(u, d)) \in Nat
      OBVIOUS
    <2>1. d \in Dir /\ IsConnected(u, d)  BY WaitsConnected
    <2>2. Neighbor(u, d) \in Tiles /\ OppositeDir(d) \in Dir
      BY <2>1, ConnectionEnds, DirOffsets
    <2>3. Outgoing(u, d) \in Seq(Packets)  BY <2>2 DEF Outgoing, IInv, TypeOK
    <2>4. QED  BY <2>3
  <1>4. ASSUME NEW d \in waitWord'[t]
        PROVE  Len(Outgoing(t, d)') + Cardinality(Toward(outbox'[t], d))
                 + (IF d \in owed'[t] THEN 1 ELSE 0) <= Cardinality(Frame(t)') + 1
    <2>1. PICK p \in Window(center[t]) : d \in SendDirs(t, p)
      BY <1>1, <1>4 DEF Reached
    <2>2. waitWord[t] = {}  BY DEF Execute, IInv, EventInv, EventOK
    <2>3. Outgoing(t, d) = <<>>  BY <1>1, <2>1, <2>2, SendsHeld
    <2>4. \A s \in Toward(outbox'[t], d) : s = <<s[1], s[2]>> /\ s[1] = d /\ s[2] \in Frame(t)
      BY <1>2 DEF CopyInv, OutboxTrue, IInv, TypeOK, Toward
    <2>5. Cardinality(Toward(outbox'[t], d)) <= Cardinality(Frame(t))
      BY <2>4, FrameFinite, OneAtomPerSite
    <2> SUFFICES ASSUME NEW c, c = Cardinality(Toward(outbox'[t], d)),
                        NEW n, n = Cardinality(Frame(t)),
                        NEW l, l = Len(Outgoing(t, d)),
                        NEW o, o = IF d \in owed'[t] THEN 1 ELSE 0
                 PROVE  l + c + o <= n + 1
      BY <1>2
    <2>6. c \in Nat /\ n \in Nat  BY FrameFinite, SendsFinite DEF IInv, TypeOK
    <2>7. l = 0 /\ o \in {0, 1} /\ c <= n  BY <2>3, <2>5
    <2>8. QED  BY <2>6, <2>7
  <1>5. ASSUME NEW u \in Tiles \ {t}, NEW d \in waitWord'[u]
        PROVE  /\ d \in waitWord[u]
               /\ Len(Outgoing(u, d)') <= Len(Outgoing(u, d))
               /\ outbox'[u] = outbox[u] /\ owed'[u] = owed[u] /\ Frame(u)' = Frame(u)
    BY <1>1, <1>2, <1>3
  <1>6. QED  BY <1>4, <1>5, LessWaits

LEMMA RoomStep ==
  ASSUME IInv, IInv', CopyInv, CopyInv', Room, [Next]_vars
  PROVE  Room'
  <1>1. \A u \in Tiles : \A d \in waitWord[u] :
          Len(Outgoing(u, d)) \in Nat /\ Reporting(u) /\ center[u] # NoPoint
    <2> SUFFICES ASSUME NEW u \in Tiles, NEW d \in waitWord[u]
                 PROVE  Len(Outgoing(u, d)) \in Nat /\ Reporting(u) /\ center[u] # NoPoint
      OBVIOUS
    <2>1. d \in Dir /\ IsConnected(u, d)  BY WaitsConnected
    <2>2. Neighbor(u, d) \in Tiles /\ OppositeDir(d) \in Dir
      BY <2>1, ConnectionEnds, DirOffsets
    <2>3. Outgoing(u, d) \in Seq(Packets)  BY <2>2 DEF Outgoing, IInv, TypeOK
    <2>4. Reporting(u) /\ center[u] # NoPoint  BY BusyReporting DEF IInv, Reporting
    <2>5. QED  BY <2>3, <2>4
  \* A step that sends and reads nothing.
  <1>2. ASSUME UNCHANGED <<queue, outbox, owed, waitWord>>,
               \A u \in Tiles : waitWord[u] # {} => center'[u] = center[u]
        PROVE  Room'
    <2>1. \A u \in Tiles : \A d \in waitWord'[u] :
            /\ d \in waitWord[u]
            /\ Len(Outgoing(u, d)') <= Len(Outgoing(u, d))
            /\ outbox'[u] = outbox[u] /\ owed'[u] = owed[u] /\ Frame(u)' = Frame(u)
      BY <1>1, <1>2 DEF Outgoing, Frame
    <2>2. QED  BY <2>1, LessWaits
  <1>3. ASSUME NEW t \in Tiles, Step(t) PROVE Room'
    <2>1. CASE \E b \in Behaviours : Execute(t, b)  BY <2>1, HappenedCounted
    <2>2. CASE SendAtom(t) \/ SendEndEventPacket(t)  BY <2>2, SentCounted
    <2>3. CASE ReadPacket(t)
      <3> SUFFICES ASSUME NEW d, d = scan[t], NEW n, n = Neighbor(t, d),
                          NEW o, o = OppositeDir(d), NEW q, q = queue[t][d]
                   PROVE  Room'
        OBVIOUS
      <3>1. UNCHANGED <<center, outbox, owed>>  BY <2>3 DEF ReadPacket
      <3>2. Outgoing(n, o) = q /\ q \in Seq(Packets) /\ q # <<>>  BY <2>3, ReadFacts
      <3>3. \A u \in Tiles : waitWord'[u] \subseteq waitWord[u]  BY <2>3, ReadFacts
      <3>4. \A u \in Tiles : \A e \in waitWord[u] :
              /\ e \in waitWord'[u] /\ ~(u = n /\ e = o) => Outgoing(u, e)' = Outgoing(u, e)
              /\ e \in waitWord'[u] /\ u = n /\ e = o => Outgoing(u, e)' = Tail(q)
        BY <2>3, ReadFacts
      <3>5. Len(Tail(q)) = Len(q) - 1 /\ Len(q) \in Nat  BY <3>2
      <3>6. ASSUME NEW u \in Tiles, NEW e \in waitWord'[u]
            PROVE  /\ e \in waitWord[u]
                   /\ Len(Outgoing(u, e)') <= Len(Outgoing(u, e))
        <4>1. e \in waitWord[u] /\ Len(Outgoing(u, e)) \in Nat  BY <1>1, <3>3
        <4>2. CASE u = n /\ e = o
          <5>1. Len(Outgoing(u, e)') = Len(q) - 1 /\ Len(Outgoing(u, e)) = Len(q)
            BY <3>2, <3>4, <3>5, <4>1, <4>2
          <5>2. QED  BY <3>5, <4>1, <5>1
        <4>3. CASE ~(u = n /\ e = o)
          <5>1. Outgoing(u, e)' = Outgoing(u, e)  BY <3>4, <4>1, <4>3
          <5>2. QED  BY <4>1, <5>1
        <4>4. QED  BY <4>2, <4>3
      <3>7. \A u \in Tiles : outbox'[u] = outbox[u] /\ owed'[u] = owed[u] /\ Frame(u)' = Frame(u)
        BY <3>1 DEF Frame
      <3>8. QED  BY <3>6, <3>7, LessWaits
    <2>4. CASE \/ \E g \in EventCenters : CreateRandomWindow(t, g)
               \/ TryLock(t) \/ LockBusy(t) \/ Unwind(t)
               \/ StartFlush(t) \/ ScanNext(t) \/ EndPass(t) \/ Unlock(t)
      <3>1. UNCHANGED <<queue, outbox, owed, waitWord>>
        BY <2>4 DEF CreateRandomWindow, TryLock, LockBusy, Unwind, StartFlush, ScanNext,
                    EndPass, Unlock, reportVars
      <3>2. \A u \in Tiles \ {t} : center'[u] = center[u]
        BY <2>4 DEF CreateRandomWindow, TryLock, LockBusy, Unwind, StartFlush, ScanNext,
                    EndPass, Unlock, Leave, IInv, TypeOK
      <3>3. waitWord[t] # {} => center'[t] = center[t]
        <4>1. SUFFICES ASSUME waitWord[t] # {} PROVE center'[t] = center[t]  OBVIOUS
        <4>2. pc[t] \in {"report", "flush"}  BY <4>1, BusyReporting DEF IInv, Reporting
        <4>3. QED
          BY <2>4, <4>1, <4>2, <1>1
          DEF CreateRandomWindow, TryLock, LockBusy, Unwind, StartFlush, ScanNext,
              EndPass, Unlock, IInv, EventInv, EventOK
      <3>4. QED  BY <1>2, <3>1, <3>2, <3>3
    <2>5. QED  BY <1>3, <2>1, <2>2, <2>3, <2>4 DEF Step
  <1>4. CASE Clear \/ \E g \in Watched, a \in Atoms : Edit(g, a)
    BY <1>2, <1>4 DEF Clear, Edit, reportVars
  <1>5. CASE UNCHANGED vars  BY <1>2, <1>5 DEF vars
  <1>6. QED  BY <1>3, <1>4, <1>5 DEF Next

\* A connection's buffer is as long as the exchange over it.
LEMMA RoomFits ==
  ASSUME IInv, Room
  PROVE  BuffersFit
  <1> SUFFICES ASSUME NEW t \in Tiles, NEW d \in Dir, queue[t][d] # <<>>,
                      NEW holder, holder = lock[ConnectionOf(t, d)]
               PROVE  /\ holder # NoTile
                      /\ Len(queue[t][d]) <= Cardinality(Frame(holder)) + 1
    BY DEF BuffersFit, Frame
  <1> DEFINE n == Neighbor(t, d)
             o == OppositeDir(d)
  <1>1. IsConnected(t, d)  BY DEF IInv, NoStrays
  <1>2. /\ n \in Tiles /\ o \in Dir /\ IsConnected(n, o)
        /\ Neighbor(n, o) = t /\ OppositeDir(o) = d /\ ConnectionOf(n, o) = ConnectionOf(t, d)
    BY <1>1, ConnectionEnds, DirOffsets
  <1>3. LinkOK(t, d) /\ LinkOK(n, o)  BY <1>1, <1>2 DEF Handshake, IInv
  <1>4. holder # NoTile  BY <1>3 DEF LinkOK, Silent
  <1>5. holder = t \/ holder = n
    <2>1. ConnectionOf(t, d) \in Connections  BY <1>1, ConnectionEnds
    <2>2. holder \in ConnectionOf(t, d) \cup {NoTile}  BY <2>1 DEF OwnerInv, IInv
    <2>3. QED  BY <1>4, <2>2 DEF ConnectionOf
  <1>6. CASE holder = t
    <2>1. d \in waitWord[t] /\ Exchange(t, d)  BY <1>3, <1>4, <1>6 DEF LinkOK, Silent
    <2>2. queue[t][d] = <<AckPacket(generation[t], OppositeDir(d))>>
      BY <2>1 DEF Exchange
    <2>3. Len(queue[t][d]) = 1  BY <2>2
    <2>4. Cardinality(Frame(t)) \in Nat  BY FrameFinite
    <2>5. QED  BY <1>4, <1>6, <2>3, <2>4
  <1>7. CASE holder = n
    <2>1. o \in waitWord[n]  BY <1>2, <1>3, <1>4, <1>7 DEF LinkOK, Silent
    <2>2. Outgoing(n, o) = queue[t][d]  BY <1>2 DEF Outgoing
    <2>3. Len(queue[t][d]) \in Nat
      <3>1. queue[t][d] \in Seq(Packets)  BY DEF IInv, TypeOK
      <3>2. QED  BY <3>1
    <2>4. Len(Outgoing(n, o)) + Cardinality(Toward(outbox[n], o))
            + (IF o \in owed[n] THEN 1 ELSE 0) <= Cardinality(Frame(n)) + 1
      BY <1>2, <2>1 DEF Room
    <2> SUFFICES ASSUME NEW l, l = Len(queue[t][d]),
                        NEW c, c = Cardinality(Toward(outbox[n], o)),
                        NEW f, f = Cardinality(Frame(n)),
                        NEW b, b = IF o \in owed[n] THEN 1 ELSE 0
                 PROVE  l <= f + 1
      BY <1>4, <1>7
    <2>5. l \in Nat /\ c \in Nat /\ f \in Nat /\ b \in Nat
      BY <1>2, <2>3, FrameFinite, SendsFinite DEF IInv, TypeOK
    <2>6. l + c + b <= f + 1  BY <2>2, <2>4
    <2>7. QED  BY <2>5, <2>6
  <1>8. QED  BY <1>5, <1>6, <1>7

\* Packet.h's reason for acknowledgments: no connection's buffer ever holds
\* more than one packet for every site of a window, and one for the completion.
THEOREM NoBufferOverflows == Spec => []BuffersFit
  <1>1. Init => Room  BY DEF Init, Room
  <1>2. /\ IInv /\ CopyInv /\ (IInv /\ CopyInv)' /\ Room /\ [Next]_vars => Room'
        /\ IInv /\ Room => BuffersFit
    BY RoomStep, RoomFits
  <1>3. QED  BY <1>1, <1>2, CopiesInductive, PTL DEF Spec
-----------------------------------------------------------------------------
(* The refinement *)

\* An event is at one of the sites CreateRandomWindow may choose.
CentersChosen ==
  \A t \in Tiles : center[t] # NoPoint => ToGrid(t, center[t]) \in EventCenters
-----------------------------------------------------------------------------
(* Windows and sites *)

\* Two sites within twice a radius have one between them within both.
LEMMA Between ==
  ASSUME NEW r \in Nat, NEW x \in Int, NEW y \in Int, Magnitude(x) + Magnitude(y) <= 2 * r
  PROVE  \E a, b \in Int : /\ Magnitude(a) + Magnitude(b) <= r
                           /\ Magnitude(x - a) + Magnitude(y - b) <= r
  <1> DEFINE n == r - Magnitude(x)
  <1>1. CASE Magnitude(x) >= r
    <2>1. CASE x < 0
      <3>1. -r \in Int /\ 0 \in Int /\ Magnitude(-r) + Magnitude(0) <= r
        BY DEF Magnitude
      <3>2. Magnitude(x - (-r)) + Magnitude(y - 0) <= r  BY <1>1, <2>1 DEF Magnitude
      <3>3. QED  BY <3>1, <3>2
    <2>2. CASE x >= 0
      <3>1. r \in Int /\ 0 \in Int /\ Magnitude(r) + Magnitude(0) <= r
        BY DEF Magnitude
      <3>2. Magnitude(x - r) + Magnitude(y - 0) <= r  BY <1>1, <2>2 DEF Magnitude
      <3>3. QED  BY <3>1, <3>2
    <2>3. QED  BY <2>1, <2>2
  <1>2. CASE Magnitude(x) < r
    <2>1. n \in Int /\ n > 0  BY <1>2 DEF Magnitude
    <2>2. CASE Magnitude(y) <= n
      <3>1. Magnitude(x) + Magnitude(y) <= r  BY <2>2 DEF Magnitude
      <3>2. Magnitude(x - x) + Magnitude(y - y) <= r  BY DEF Magnitude
      <3>3. QED  BY <3>1, <3>2
    <2>3. CASE y > n
      <3>1. Magnitude(x) + Magnitude(n) <= r  BY <2>1 DEF Magnitude
      <3>2. Magnitude(x - x) + Magnitude(y - n) <= r  BY <2>1, <2>3 DEF Magnitude
      <3>3. QED  BY <2>1, <3>1, <3>2
    <2>4. CASE y < -n
      <3>1. Magnitude(x) + Magnitude(-n) <= r  BY <2>1 DEF Magnitude
      <3>2. Magnitude(x - x) + Magnitude(y - (-n)) <= r  BY <2>1, <2>4 DEF Magnitude
      <3>3. QED  BY <2>1, <3>1, <3>2
    <2>5. QED  BY <2>1, <2>2, <2>3, <2>4 DEF Magnitude
  <1>3. QED  BY <1>1, <1>2 DEF Magnitude

\* Events that share no site are as far apart as SharedGrid has them.
LEMMA ExclusiveApart ==
  ASSUME IInv, NEW t \in Tiles, NEW u \in Tiles, t # u, InEvent(t), InEvent(u)
  PROVE  Grid!Apart(ToGrid(t, center[t]), ToGrid(u, center[u]))
  <1> DEFINE c == center[t]
             e == center[u]
             C == ToGrid(t, c)
             E == ToGrid(u, e)
             x == C[1] - E[1]
             y == C[2] - E[2]
  <1>1. c \in OwnedPoints /\ e \in OwnedPoints  BY BusyReporting DEF IInv
  <1> DEFINE i == t[1] * OWNED_SIDE
             j == t[2] * OWNED_SIDE
             k == u[1] * OWNED_SIDE
             l == u[2] * OWNED_SIDE
  <1>2. i \in Int /\ j \in Int /\ k \in Int /\ l \in Int /\ R \in Int /\ R \in Nat
    <2>1. t[1] \in Int /\ t[2] \in Int /\ u[1] \in Int /\ u[2] \in Int
      BY Sizes DEF Tiles
    <2>2. QED  BY <2>1, Sizes
  <1>3. c[1] \in Int /\ c[2] \in Int /\ e[1] \in Int /\ e[2] \in Int
    BY <1>1, Sizes DEF OwnedPoints
  <1> HIDE DEF c, e, i, j, k, l
  <1>4. /\ C[1] = i + c[1] - R /\ C[2] = j + c[2] - R
        /\ E[1] = k + e[1] - R /\ E[2] = l + e[2] - R
    BY DEF ToGrid, i, j, k, l
  <1> HIDE DEF C, E
  <1>5. x \in Int /\ y \in Int  BY <1>2, <1>3, <1>4
  <1>6. SUFFICES ASSUME Magnitude(x) + Magnitude(y) <= 2 * R PROVE FALSE
    BY <1>2, <1>5 DEF Grid!Apart, Grid!Magnitude, Magnitude, C, E, c, e
  <1>7. PICK a, b \in Int : /\ Magnitude(a) + Magnitude(b) <= R
                            /\ Magnitude(x - a) + Magnitude(y - b) <= R
    BY <1>2, <1>5, <1>6, Between
  <1> DEFINE q == <<e[1] + a, e[2] + b>>
             p == <<c[1] - (x - a), c[2] - (y - b)>>
  <1>8. q \in Window(e)
    <2>1. q \in Int \X Int /\ q[1] - e[1] = a /\ q[2] - e[2] = b  BY <1>3
    <2>2. Manhattan(q, e) <= R  BY <1>7, <2>1 DEF Manhattan
    <2>3. QED  BY <1>1, <2>1, <2>2, WindowPoints DEF e
  <1>9. p \in Window(c)
    <2>1. p \in Int \X Int /\ p[1] - c[1] = -(x - a) /\ p[2] - c[2] = -(y - b)
      BY <1>3, <1>5
    <2>2. Manhattan(p, c) <= R  BY <1>5, <1>7, <2>1 DEF Manhattan, Magnitude
    <2>3. QED  BY <1>1, <2>1, <2>2, WindowPoints DEF c
  <1>10. ToGrid(t, p) = ToGrid(u, q)
    <2>1. /\ ToGrid(t, p) = <<i + (c[1] - (x - a)) - R, j + (c[2] - (y - b)) - R>>
          /\ ToGrid(u, q) = <<k + (e[1] + a) - R, l + (e[2] + b) - R>>
      BY DEF ToGrid, i, j, k, l
    <2>2. QED  BY <1>2, <1>3, <1>4, <2>1
  <1>11. QED  BY <1>8, <1>9, <1>10, OneEvent DEF c, e
-----------------------------------------------------------------------------
(* The grid that the copies stand for *)

\* A site being reported is as the tile that reports it has it.
LEMMA ViewReported ==
  ASSUME IInv, NEW t \in Tiles, NEW g \in Watched, Reports(t, g)
  PROVE  SharedView[g] = atoms[t][CopyOf(t, g)]
  <1>1. \A u \in Tiles : Reports(u, g) => u = t
    <2> SUFFICES ASSUME NEW u \in Tiles, Reports(u, g) PROVE u = t  OBVIOUS
    <2>1. /\ CopyOf(t, g) \in Frame(t) /\ ToGrid(t, CopyOf(t, g)) = g
          /\ CopyOf(u, g) \in Frame(u) /\ ToGrid(u, CopyOf(u, g)) = g
      BY ReportedFrame DEF IInv
    <2>2. InEvent(t) /\ InEvent(u)  BY BusyReporting DEF IInv, Reports
    <2>3. QED  BY <2>1, <2>2, OneEvent DEF Frame
  <1>2. (CHOOSE u \in Tiles : Reports(u, g)) = t  BY <1>1
  <1>3. QED  BY <1>2 DEF SharedView

\* Where a site is kept, and that its owner keeps it.
LEMMA HeldCopies ==
  ASSUME NEW g \in Watched
  PROVE  /\ TileOwning(g) \in Holders(g)
         /\ \A u \in Holders(g) : /\ u \in Tiles /\ CopyOf(u, g) \in Locals(u)
                                  /\ ToGrid(u, CopyOf(u, g)) = g
  <1>1. g \in GridSites  BY TilesAssumption
  <1>2. TileOwning(g) \in Holders(g)  BY <1>1, OwnerHolds DEF Holders
  <1>3. QED  BY <1>1, <1>2, GridRoundTrip DEF Holders, Locals

\* Any other site is as every tile that keeps it has it.
LEMMA ViewQuiet ==
  ASSUME CachesAgree, NEW g \in Watched, \A t \in Tiles : ~Reports(t, g), NEW u \in Holders(g)
  PROVE  SharedView[g] = atoms[u][CopyOf(u, g)]
  <1>1. SharedView[g] = atoms[TileOwning(g)][CopyOf(TileOwning(g), g)]
    BY DEF SharedView
  <1>2. QED  BY <1>1, HeldCopies DEF CachesAgree

LEMMA ViewType ==
  ASSUME IInv
  PROVE  SharedView \in [Watched -> Atoms] /\ DOMAIN SharedView = Watched
  <1>1. ASSUME NEW g \in Watched PROVE SharedView[g] \in Atoms
    <2>1. CASE \E t \in Tiles : Reports(t, g)
      <3>1. PICK t \in Tiles : Reports(t, g)  BY <2>1
      <3>2. CopyOf(t, g) \in Locals(t)  BY <3>1, ReportedFrame DEF IInv, Frame
      <3>3. QED  BY <3>1, <3>2, ViewReported DEF IInv, TypeOK
    <2>2. CASE ~ \E t \in Tiles : Reports(t, g)
      <3>1. SharedView[g] = atoms[TileOwning(g)][CopyOf(TileOwning(g), g)]
        BY <2>2 DEF SharedView
      <3>2. QED  BY <3>1, HeldCopies DEF IInv, TypeOK
    <2>3. QED  BY <2>1, <2>2
  <1>2. QED  BY <1>1 DEF SharedView

\* The view changes only with the copy that stands for a site.
LEMMA SameView ==
  ASSUME \A g \in Watched : SharedView'[g] = SharedView[g]
  PROVE  SharedView' = SharedView
  BY DEF SharedView

\* The events of the grid are those of its tiles.
Begun == EventsIn({"execute"})
Done  == EventsIn({"report", "flush"})

LEMMA EventsKept ==
  ASSUME \A u \in Tiles :
           /\ (InEvent(u) /\ pc[u] = "execute")' <=> InEvent(u) /\ pc[u] = "execute"
           /\ Reporting(u)' <=> Reporting(u)
           /\ InEvent(u) => center'[u] = center[u]
  PROVE  Begun' = Begun /\ Done' = Done
  <1>1. \A u \in Tiles : Reporting(u) <=> InEvent(u) /\ pc[u] \in {"report", "flush"}
    BY DEF Reporting, InEvent
  <1>2. \A u \in Tiles : Reporting(u)' <=> (InEvent(u) /\ pc[u] \in {"report", "flush"})'
    BY DEF Reporting, InEvent
  <1>3. Begun' = Begun  BY DEF Begun, EventsIn
  <1>4. Done' = Done  BY <1>1, <1>2 DEF Done, EventsIn
  <1>5. QED  BY <1>3, <1>4

\* Two tiles in events have them at different sites.
LEMMA CentersDiffer ==
  ASSUME IInv, NEW t \in Tiles, NEW u \in Tiles, InEvent(t), InEvent(u),
         ToGrid(t, center[t]) = ToGrid(u, center[u])
  PROVE  t = u
  <1>1. center[t] \in OwnedPoints /\ center[u] \in OwnedPoints  BY BusyReporting DEF IInv
  <1>2. \A c \in OwnedPoints : c \in Window(c)
    <2> SUFFICES ASSUME NEW c \in OwnedPoints PROVE c \in Window(c)  OBVIOUS
    <2>1. c \in Int \X Int /\ c[1] \in Int /\ c[2] \in Int  BY Sizes DEF OwnedPoints
    <2>2. Manhattan(c, c) = 0  BY <2>1 DEF Manhattan, Magnitude
    <2>3. QED  BY <2>1, <2>2, WindowPoints, Sizes
  <1>3. QED  BY <1>1, <1>2, OneEvent
-----------------------------------------------------------------------------
(* The steps one by one *)

\* Nothing that the grid has changes.
LEMMA QuietView ==
  ASSUME IInv, CopyInv, UNCHANGED atoms,
         \A u \in Tiles : /\ Reporting(u)' <=> Reporting(u)
                          /\ Reporting(u) => center'[u] = center[u]
  PROVE  SharedView' = SharedView
  <1>1. \A u \in Tiles : \A g \in Watched : Reports(u, g)' <=> Reports(u, g)
    BY DEF Reports, Manhattan
  <1>2. QED  BY <1>1 DEF SharedView

\* Both facts hold before a step and after it.
EventsApart ==
  \A t, u \in Tiles : t # u /\ InEvent(t) /\ InEvent(u) =>
    Grid!Apart(ToGrid(t, center[t]), ToGrid(u, center[u]))

ViewTrue ==
  \A g \in Watched :
    /\ \A t \in Tiles : Reports(t, g) => SharedView[g] = atoms[t][CopyOf(t, g)]
    /\ (\A t \in Tiles : ~Reports(t, g)) =>
         \A u \in Holders(g) : SharedView[g] = atoms[u][CopyOf(u, g)]

LEMMA AlwaysApart == (IInv => EventsApart) /\ (IInv' => EventsApart')
  <1>1. IInv => EventsApart  BY ExclusiveApart DEF EventsApart
  <1>2. QED  BY <1>1, PTL

LEMMA AlwaysTrueView == (IInv /\ CopyInv => ViewTrue) /\ ((IInv /\ CopyInv)' => ViewTrue')
  <1>1. IInv /\ CopyInv => ViewTrue  BY ViewReported, ViewQuiet DEF ViewTrue, CopyInv
  <1>2. QED  BY <1>1, PTL

\* An event begins when its tile has what locks it needs.
LEMMA BeginStep ==
  ASSUME IInv, IInv', CopyInv, CentersChosen', NEW t \in Tiles,
         UNCHANGED atoms, ~InEvent(t), InEvent(t)', pc'[t] = "execute",
         \A u \in Tiles \ {t} : pc'[u] = pc[u] /\ center'[u] = center[u]
  PROVE  Grid!Begin
  <1> DEFINE C == ToGrid(t, center'[t])
  <1>1. \A u \in Tiles \ {t} : /\ Reporting(u)' <=> Reporting(u)
                               /\ InEvent(u)' <=> InEvent(u)
    BY DEF Reporting, InEvent
  <1>2. ~Reporting(t) /\ ~Reporting(t)'  BY DEF Reporting, InEvent
  <1>3. SharedView' = SharedView  BY <1>1, <1>2, QuietView
  <1>4. Begun' = Begun \cup {C}
    BY <1>1 DEF Begun, EventsIn
  <1>5. Done' = Done
    <2>1. \A u \in Tiles : /\ (InEvent(u) /\ pc[u] \in {"report", "flush"})'
                                <=> InEvent(u) /\ pc[u] \in {"report", "flush"}
                           /\ InEvent(u) /\ pc[u] \in {"report", "flush"} => center'[u] = center[u]
      BY <1>1 DEF InEvent
    <2>2. QED  BY <2>1 DEF Done, EventsIn
  <1>6. C \in EventCenters  BY DEF CentersChosen, InEvent
  <1>7. ASSUME NEW e \in Begun \cup Done
        PROVE  Grid!Apart(C, e)
    <2>1. PICK u \in Tiles : InEvent(u) /\ e = ToGrid(u, center[u])
      BY <1>7 DEF Begun, Done, EventsIn
    <2>2. u # t  BY <2>1
    <2>3. InEvent(u)' /\ e = ToGrid(u, center'[u])  BY <1>1, <2>1, <2>2
    <2>4. QED  BY <2>2, <2>3, AlwaysApart DEF EventsApart
  <1>8. QED  BY <1>3, <1>4, <1>5, <1>6, <1>7 DEF Grid!Begin, Begun, Done

ViewTyped == SharedView \in [Watched -> Atoms]

LEMMA AlwaysTyped == (IInv => ViewTyped) /\ (IInv' => ViewTyped')
  <1>1. IInv => ViewTyped  BY ViewType DEF ViewTyped
  <1>2. QED  BY <1>1, PTL

\* The grid's behaviours are the tiles', over other coordinates.
LEMMA SameBehaviour ==
  ASSUME NEW f, NEW c, NEW b
  PROVE  /\ Grid!Result(f, c, b) = Result(f, c, b)
         /\ Grid!Applies(f, c, b) <=> Applies(f, c, b)
  BY DEF Grid!Result, Grid!Behave, Grid!Applies, Grid!Displace, Grid!Offset, Grid!Changes,
         Result, Behave, Applies, Displace, Offset, Changes

\* A site in the reach of a centre is at a point of its window.
LEMMA InFrame ==
  ASSUME NEW t \in Tiles, NEW c \in OwnedPoints, NEW g \in Watched
  PROVE  /\ Manhattan(CopyOf(t, g), c) <= R =>
              CopyOf(t, g) \in Window(c) /\ CopyOf(t, g) \in Locals(t)
         /\ ToGrid(t, CopyOf(t, g)) = g
  <1>1. g \in GridSites  BY TilesAssumption
  <1>2. CopyOf(t, g) \in Int \X Int
    BY <1>1, Sizes DEF CopyOf, GridSites, Tiles
  <1>3. QED  BY <1>1, <1>2, GridRoundTrip, WindowPoints DEF Locals

\* A site that an event takes an atom from, in both coordinate systems.
LEMMA DisplacedSite ==
  ASSUME NEW t \in Tiles, NEW c \in OwnedPoints,
         NEW rel \in Int \X Int, Manhattan(rel, <<0, 0>>) <= R
  PROVE  /\ Displace(c, rel) \in Window(c)
         /\ Displace(c, rel) \in TilePoints
         /\ ToGrid(t, Displace(c, rel)) = Displace(ToGrid(t, c), rel)
  <1> DEFINE r == Displace(c, rel)
  <1>1. c \in Int \X Int /\ c[1] \in Int /\ c[2] \in Int /\ R \in Int
    BY Sizes DEF OwnedPoints
  <1>2. rel[1] \in Int /\ rel[2] \in Int  OBVIOUS
  <1>3. r \in Int \X Int /\ r[1] = c[1] + rel[1] /\ r[2] = c[2] + rel[2]
    BY <1>1, <1>2 DEF Displace
  <1>4. Manhattan(r, c) = Manhattan(rel, <<0, 0>>)  BY <1>1, Offsets
  <1> HIDE DEF r
  <1>5. r \in Window(c)  BY <1>3, <1>4, WindowPoints
  <1>6. ToGrid(t, r) = Displace(ToGrid(t, c), rel)
    <2> SUFFICES ASSUME NEW i, i = t[1] * OWNED_SIDE, NEW j, j = t[2] * OWNED_SIDE
                 PROVE  ToGrid(t, r) = Displace(ToGrid(t, c), rel)
      OBVIOUS
    <2>1. i \in Int /\ j \in Int
      <3>1. t[1] \in Int /\ t[2] \in Int  BY Sizes DEF Tiles
      <3>2. QED  BY <3>1, Sizes
    <2>2. /\ ToGrid(t, r) = <<i + r[1] - R, j + r[2] - R>>
          /\ Displace(ToGrid(t, c), rel) = <<(i + c[1] - R) + rel[1], (j + c[2] - R) + rel[2]>>
      BY DEF ToGrid, Displace
    <2>3. \A k, x, y \in Int : k + (x + y) - R = (k + x - R) + y
      BY <1>1
    <2>4. /\ i + r[1] - R = (i + c[1] - R) + rel[1]
          /\ j + r[2] - R = (j + c[2] - R) + rel[2]
      BY <1>1, <1>2, <1>3, <2>1, <2>3
    <2>5. QED  BY <2>2, <2>4
  <1>7. QED  BY <1>5, <1>6, WindowPoints DEF r

\* Sites are as far apart in a tile as in the grid.
LEMMA SameOffset ==
  ASSUME NEW t \in Tiles, NEW c \in TilePoints, NEW p \in TilePoints
  PROVE  /\ Offset(ToGrid(t, c), ToGrid(t, p)) = Offset(c, p)
         /\ ToGrid(t, c) \in Int \X Int
  <1> SUFFICES ASSUME NEW i, i = t[1] * OWNED_SIDE, NEW j, j = t[2] * OWNED_SIDE
               PROVE  /\ Offset(ToGrid(t, c), ToGrid(t, p)) = Offset(c, p)
                      /\ ToGrid(t, c) \in Int \X Int
    OBVIOUS
  <1>1. i \in Int /\ j \in Int /\ R \in Int
    <2>1. t[1] \in Int /\ t[2] \in Int  BY Sizes DEF Tiles
    <2>2. QED  BY <2>1, Sizes
  <1>2. c[1] \in Int /\ c[2] \in Int /\ p[1] \in Int /\ p[2] \in Int
    BY Sizes DEF TilePoints
  <1>3. /\ ToGrid(t, c) = <<i + c[1] - R, j + c[2] - R>>
        /\ ToGrid(t, p) = <<i + p[1] - R, j + p[2] - R>>
    BY DEF ToGrid
  <1>4. \A k, x, y \in Int : (k + x - R) - (k + y - R) = x - y  BY <1>1
  <1>5. QED  BY <1>1, <1>2, <1>3, <1>4 DEF Offset

\* So they are for points outside the tile, as copies of the sites there.
LEMMA GridDistance ==
  ASSUME NEW t \in Tiles, NEW c \in Int \X Int, NEW p \in Int \X Int
  PROVE  Manhattan(ToGrid(t, p), ToGrid(t, c)) = Manhattan(p, c)
  <1> SUFFICES ASSUME NEW i, i = t[1] * OWNED_SIDE, NEW j, j = t[2] * OWNED_SIDE
               PROVE  Manhattan(ToGrid(t, p), ToGrid(t, c)) = Manhattan(p, c)
    OBVIOUS
  <1>1. i \in Int /\ j \in Int /\ R \in Int
    <2>1. t[1] \in Int /\ t[2] \in Int  BY Sizes DEF Tiles
    <2>2. QED  BY <2>1, Sizes
  <1>2. c[1] \in Int /\ c[2] \in Int /\ p[1] \in Int /\ p[2] \in Int  OBVIOUS
  <1>3. /\ ToGrid(t, c) = <<i + c[1] - R, j + c[2] - R>>
        /\ ToGrid(t, p) = <<i + p[1] - R, j + p[2] - R>>
    BY DEF ToGrid
  <1>4. \A k, x, y \in Int : (k + x - R) - (k + y - R) = x - y  BY <1>1
  <1>5. QED  BY <1>1, <1>2, <1>3, <1>4 DEF Manhattan

\* The behaviour of a tile's event happens to the grid at once.
LEMMA HappenStep ==
  ASSUME IInv, IInv', CopyInv, CopyInv', CentersChosen,
         NEW t \in Tiles, NEW b \in Behaviours, Execute(t, b)
  PROVE  Grid!Happen
  <1> DEFINE c == center[t]
             C == ToGrid(t, c)
             f == atoms[t]
             V == SharedView
  <1>1. /\ InEvent(t) /\ ~Reporting(t) /\ c \in OwnedPoints /\ pc[t] = "execute"
        /\ Applies(f, c, b)
    BY DEF Execute, InEvent, Reporting, IInv, EventInv, EventOK
  <1>2. /\ UNCHANGED center
        /\ pc'[t] = "report"
        /\ \A u \in Tiles \ {t} : pc'[u] = pc[u] /\ atoms'[u] = atoms[u]
        /\ atoms'[t] = Result(f, c, b)
    BY DEF Execute, Goto, IInv, TypeOK
  <1>3. /\ \A u \in Tiles \ {t} : /\ Reporting(u)' <=> Reporting(u)
                                  /\ InEvent(u)' <=> InEvent(u)
        /\ Reporting(t)' /\ InEvent(t)'
    BY <1>1, <1>2 DEF Reporting, InEvent
  <1>4. f \in [Locals(t) -> Atoms] /\ V \in [Watched -> Atoms] /\ V' \in [Watched -> Atoms]
    <2>1. V \in [Watched -> Atoms]  BY AlwaysTyped DEF ViewTyped
    <2>2. V' \in [Watched -> Atoms]  BY AlwaysTyped DEF ViewTyped
    <2>3. QED  BY <2>1, <2>2 DEF IInv, TypeOK
  <1>5. ViewTrue /\ ViewTrue'  BY AlwaysTrueView
  <1>6. /\ c \in Window(c) /\ c \in TilePoints /\ c \in Int \X Int
        /\ c \in Locals(t) <=> C \in Watched
        /\ C \in Int \X Int
    <2>1. c \in Int \X Int /\ c[1] \in Int /\ c[2] \in Int  BY <1>1, Sizes DEF OwnedPoints
    <2>2. Manhattan(c, c) = 0  BY <2>1 DEF Manhattan, Magnitude
    <2>3. c \in Window(c) /\ c \in TilePoints  BY <1>1, <2>1, <2>2, WindowPoints, Sizes
    <2>4. QED  BY <2>1, <2>3, LocalsWatched, SameOffset
  <1>7. ASSUME NEW p \in Locals(t), p \in Window(c)
        PROVE  ToGrid(t, p) \in Watched /\ V[ToGrid(t, p)] = f[p]
    <2>1. /\ p \in TilePoints /\ ToGrid(t, p) \in Watched /\ CopyOf(t, ToGrid(t, p)) = p
          /\ t \in Holders(ToGrid(t, p))
      BY LocalsWatched, GridRoundTrip DEF Holders
    <2>2. ASSUME NEW u \in Tiles, Reports(u, ToGrid(t, p)) PROVE FALSE
      <3>1. /\ CopyOf(u, ToGrid(t, p)) \in Window(center[u])
            /\ ToGrid(u, CopyOf(u, ToGrid(t, p))) = ToGrid(t, p)
        BY <2>1, <2>2, ReportedFrame DEF IInv, Frame
      <3>2. Reporting(u) /\ InEvent(u)  BY <2>2, BusyReporting DEF IInv, Reports
      <3>3. u = t  BY <1>1, <1>7, <3>1, <3>2, OneEvent
      <3>4. QED  BY <1>1, <3>2, <3>3
    <2>3. QED  BY <1>5, <2>1, <2>2 DEF ViewTrue
  <1> HIDE DEF c, C, f, V
  <1>8. ASSUME NEW rel \in DOMAIN b.moved
        PROVE  LET r == Displace(c, b.moved[rel])
                   q == Displace(C, b.moved[rel])
               IN  /\ r \in Locals(t) <=> q \in Watched
                   /\ q \in Watched => V[q] = f[r]
    <2> DEFINE r == Displace(c, b.moved[rel])
               q == Displace(C, b.moved[rel])
    <2>1. r \in Window(c) /\ r \in TilePoints /\ ToGrid(t, r) = q
      BY <1>1, <1>8, ReachOfBehaviour, DisplacedSite DEF C
    <2> HIDE DEF r, q
    <2>2. r \in Locals(t) <=> q \in Watched  BY <2>1, LocalsWatched
    <2>3. QED  BY <1>7, <2>1, <2>2 DEF r, q
  <1>9. Applies(V, C, b)
    <2>1. DOMAIN f = Locals(t) /\ DOMAIN V = Watched  BY <1>4
    <2>2. C \in Watched => c \in Locals(t) /\ V[C] = f[c]  BY <1>6, <1>7 DEF C
    <2>3. ASSUME NEW rel \in DOMAIN b.moved, Displace(C, rel) \in Watched
          PROVE  Displace(C, b.moved[rel]) \in Watched
      <3>1. rel \in Int \X Int /\ Manhattan(rel, <<0, 0>>) <= R
        BY <2>3, ReachOfBehaviour DEF Changes
      <3>2. Displace(c, rel) \in TilePoints /\ ToGrid(t, Displace(c, rel)) = Displace(C, rel)
        BY <1>1, <3>1, DisplacedSite DEF C
      <3>3. Displace(c, rel) \in Locals(t)  BY <2>3, <3>2, LocalsWatched
      <3>4. Displace(c, b.moved[rel]) \in Locals(t)  BY <1>1, <2>1, <2>3, <3>3 DEF Applies
      <3>5. QED  BY <1>8, <2>3, <3>4
    <2>4. QED  BY <1>1, <2>1, <2>2, <2>3 DEF Applies
  <1>14. ASSUME NEW g \in Watched
        PROVE  V'[g] = Result(V, C, b)[g]
    <2> DEFINE p == CopyOf(t, g)
    <2>1. ToGrid(t, p) = g /\ (Manhattan(p, c) <= R => p \in Window(c) /\ p \in Locals(t))
      BY <1>1, InFrame
    <2>5. p \in Int \X Int /\ g \in Int \X Int
      <3>1. g \in GridSites  BY TilesAssumption
      <3>2. QED  BY <3>1, Sizes DEF CopyOf, GridSites, Tiles
    <2> HIDE DEF p
    <2>3. CASE Manhattan(p, c) <= R
      <3>1. p \in Window(c) /\ p \in Locals(t) /\ p \in TilePoints
        BY <2>1, <2>3, LocalsWatched
      <3>2. Reports(t, g)'  BY <1>2, <1>3, <2>3 DEF Reports, Manhattan, p, c
      <3>3. V'[g] = Result(f, c, b)[p]
        BY <1>2, <1>5, <3>2 DEF ViewTrue, V, p
      <3>4. g = C <=> p = c  BY <1>6, <2>1, <3>1, OneCopy DEF C
      <3>5. Offset(C, g) = Offset(c, p)  BY <1>6, <2>1, <3>1, SameOffset DEF C
      <3>6. V[g] = f[p]  BY <1>7, <2>1, <3>1
      <3>7. Offset(c, p) \in DOMAIN b.moved =>
              V[Displace(C, b.moved[Offset(c, p)])] = f[Displace(c, b.moved[Offset(c, p)])]
        <4>1. SUFFICES ASSUME Offset(c, p) \in DOMAIN b.moved
                       PROVE  V[Displace(C, b.moved[Offset(c, p)])] = f[Displace(c, b.moved[Offset(c, p)])]
          OBVIOUS
        <4>2. Displace(c, Offset(c, p)) = p  BY <1>6, <2>5, Offsets
        <4>3. Displace(c, b.moved[Offset(c, p)]) \in Locals(t)
          BY <1>1, <1>4, <3>1, <4>1, <4>2 DEF Applies
        <4>4. QED  BY <1>8, <4>1, <4>3
      <3>8. Behave(V, C, b, g) = Behave(f, c, b, p)  BY <3>5, <3>6, <3>7 DEF Behave
      <3>9. /\ Result(f, c, b)[p] = IF b.fails /\ p = c THEN Empty ELSE Behave(f, c, b, p)
            /\ Result(V, C, b)[g] = IF b.fails /\ g = C THEN Empty ELSE Behave(V, C, b, g)
        BY <1>4, <3>1 DEF Result
      <3>10. QED  BY <3>3, <3>4, <3>8, <3>9
    <2>4. CASE ~(Manhattan(p, c) <= R)
      <3>2. Result(V, C, b)[g] = V[g]
        <4>1. Manhattan(g, C) = Manhattan(p, c)
          BY <1>1, <1>6, <2>1, <2>5, GridDistance DEF C
        <4>2. QED  BY <1>4, <1>6, <2>4, <2>5, <4>1, ResultFar
      <3>3. \A u \in Tiles : Reports(u, g)' <=> Reports(u, g)
        BY <1>1, <1>2, <1>3, <2>4 DEF Reports, Manhattan, p, c
      <3>4. CASE \E u \in Tiles : Reports(u, g)
        <4>1. PICK u \in Tiles : Reports(u, g)  BY <3>4
        <4>2. u # t  BY <1>1, <4>1 DEF Reports
        <4>3. V[g] = atoms[u][CopyOf(u, g)]  BY <1>5, <4>1 DEF ViewTrue, V
        <4>4. V'[g] = atoms'[u][CopyOf(u, g)]  BY <1>5, <3>3, <4>1 DEF ViewTrue, V
        <4>5. QED  BY <1>2, <3>2, <4>2, <4>3, <4>4
      <3>5. CASE ~ \E u \in Tiles : Reports(u, g)
        <4>1. PICK u \in Holders(g) : u = TileOwning(g)  BY HeldCopies
        <4>2. u \in Tiles /\ CopyOf(u, g) \in Locals(u)  BY HeldCopies
        <4>3. V[g] = atoms[u][CopyOf(u, g)]  BY <1>5, <3>5, <4>1 DEF ViewTrue, V
        <4>4. V'[g] = atoms'[u][CopyOf(u, g)]  BY <1>5, <3>3, <3>5, <4>1 DEF ViewTrue, V
        <4>5. u = t => CopyOf(u, g) \notin Window(c) /\ CopyOf(u, g) \in Int \X Int
          BY <2>4, <2>5 DEF Window, p
        <4>6. u = t => atoms'[u][CopyOf(u, g)] = atoms[u][CopyOf(u, g)]
          BY <1>1, <1>2, <1>4, <4>2, <4>5, ResultOutside DEF f
        <4>7. QED  BY <1>2, <3>2, <4>2, <4>3, <4>4, <4>6
      <3>6. QED  BY <3>4, <3>5
    <2>6. QED  BY <2>3, <2>4
  <1>10. V' = Grid!Result(V, C, b) /\ Grid!Applies(V, C, b)
    <2>1. Result(V, C, b) \in [Watched -> Atoms]
      <3>1. Watched \subseteq Int \X Int  BY TilesAssumption DEF GridSites
      <3>2. QED  BY <1>4, <1>6, <1>9, <3>1, ResultType
    <2>2. V' = Result(V, C, b)  BY <1>4, <1>14, <2>1
    <2>3. QED  BY <1>9, <2>2, SameBehaviour
  <1>11. Begun' = Begun \ {C} /\ C \in Begun
    <2>1. C \in Begun  BY <1>1 DEF Begun, EventsIn, C, c
    <2>2. \A u \in Tiles : InEvent(u)' /\ pc'[u] = "execute" <=>
                             InEvent(u) /\ pc[u] = "execute" /\ u # t
      BY <1>2, <1>3
    <2>3. \A u \in Tiles : InEvent(u) /\ ToGrid(u, center[u]) = C => u = t
      BY <1>1, CentersDiffer DEF C, c
    <2>4. Begun' = {ToGrid(u, center[u]) : u \in {w \in Tiles : InEvent(w) /\ pc[w] = "execute" /\ w # t}}
      BY <1>2, <2>2 DEF Begun, EventsIn
    <2>5. QED  BY <2>1, <2>3, <2>4 DEF Begun, EventsIn, C, c
  <1>12. Done' = Done \cup {C}
    <2>1. \A u \in Tiles : InEvent(u)' /\ pc'[u] \in {"report", "flush"} <=>
                             (InEvent(u) /\ pc[u] \in {"report", "flush"}) \/ u = t
      BY <1>1, <1>2, <1>3
    <2>2. QED  BY <1>2, <2>1 DEF Done, EventsIn, C, c
  <1>13. QED  BY <1>10, <1>11, <1>12 DEF Grid!Happen, Begun, Done, V

\* A step that begins, runs or ends no behaviour, and places no atom.
LEMMA QuietGrid ==
  ASSUME IInv, CopyInv, UNCHANGED atoms,
         \A u \in Tiles :
           /\ InEvent(u)' <=> InEvent(u)
           /\ InEvent(u) => /\ center'[u] = center[u]
                            /\ pc'[u] = "execute" <=> pc[u] = "execute"
  PROVE  UNCHANGED Grid!vars
  <1>1. \A u \in Tiles : /\ Reporting(u) <=> InEvent(u) /\ pc[u] # "execute"
                         /\ Reporting(u)' <=> InEvent(u)' /\ pc'[u] # "execute"
    BY DEF Reporting, InEvent
  <1>2. \A u \in Tiles : /\ Reporting(u)' <=> Reporting(u)
                         /\ Reporting(u) => center'[u] = center[u]
    BY <1>1
  <1>3. SharedView' = SharedView  BY <1>2, QuietView
  <1>4. Begun' = Begun /\ Done' = Done  BY <1>2, EventsKept
  <1>5. QED  BY <1>3, <1>4 DEF Grid!vars, Begun, Done

\* Choosing a window and locking for it either begins an event or is not seen.
LEMMA LockingGrid ==
  ASSUME IInv, IInv', CopyInv, CentersChosen', NEW t \in Tiles,
         \/ \E g \in EventCenters : CreateRandomWindow(t, g)
         \/ TryLock(t)
         \/ LockBusy(t)
         \/ Unwind(t)
         \/ Unlock(t)
  PROVE  [Grid!Next]_(Grid!vars)
  <1>1. UNCHANGED atoms /\ ~InEvent(t)
    BY DEF CreateRandomWindow, TryLock, LockBusy, Unwind, Unlock, InEvent
  <1>2. pc'[t] \notin {"report", "flush"}
    BY DEF CreateRandomWindow, TryLock, LockBusy, Unwind, Unlock, Goto, Leave, IInv, TypeOK
  <1>3. \A u \in Tiles \ {t} : pc'[u] = pc[u] /\ center'[u] = center[u]
    <2>1. DOMAIN pc = Tiles /\ DOMAIN center = Tiles  BY DEF IInv, TypeOK
    <2>2. QED
      BY <2>1, Zenon
      DEF CreateRandomWindow, TryLock, LockBusy, Unwind, Unlock, Goto, Leave
  <1>4. CASE InEvent(t)'
    <2>1. pc'[t] = "execute"  BY <1>2, <1>4 DEF InEvent
    <2>2. Grid!Begin  BY <1>1, <1>3, <1>4, <2>1, BeginStep
    <2>3. QED  BY <2>2 DEF Grid!Next
  <1>5. CASE ~InEvent(t)'
    <2>1. \A u \in Tiles : /\ InEvent(u)' <=> InEvent(u)
                           /\ InEvent(u) => /\ center'[u] = center[u]
                                            /\ pc'[u] = "execute" <=> pc[u] = "execute"
      BY <1>1, <1>3, <1>5 DEF InEvent
    <2>2. QED  BY <1>1, <2>1, QuietGrid
  <1>6. QED  BY <1>4, <1>5

\* The grid knows nothing of packets until they are read.
LEMMA SendingGrid ==
  ASSUME IInv, CopyInv, NEW t \in Tiles,
         SendAtom(t) \/ SendEndEventPacket(t) \/ StartFlush(t) \/ ScanNext(t)
  PROVE  UNCHANGED Grid!vars
  <1>1. UNCHANGED <<atoms, center>>
    BY DEF SendAtom, SendEndEventPacket, StartFlush, ScanNext
  <1>2. \A u \in Tiles \ {t} : pc'[u] = pc[u]
    BY DEF SendAtom, SendEndEventPacket, StartFlush, ScanNext, Goto, IInv, TypeOK
  <1>3. /\ InEvent(t)' <=> InEvent(t)
        /\ pc'[t] = "execute" <=> pc[t] = "execute"
    BY <1>1 DEF SendAtom, SendEndEventPacket, StartFlush, ScanNext, Goto, InEvent,
                IInv, TypeOK, EventInv, EventOK
  <1>4. \A u \in Tiles : /\ InEvent(u)' <=> InEvent(u)
                         /\ InEvent(u) => /\ center'[u] = center[u]
                                          /\ pc'[u] = "execute" <=> pc[u] = "execute"
    BY <1>1, <1>2, <1>3 DEF InEvent
  <1>5. QED  BY <1>1, <1>4, QuietGrid

\* A packet that is read brings a copy to what the grid has had all along.
LEMMA ReadingGrid ==
  ASSUME IInv, IInv', CopyInv, CopyInv', NEW t \in Tiles, ReadPacket(t)
  PROVE  UNCHANGED Grid!vars
  <1>1. UNCHANGED <<pc, center>>  BY DEF ReadPacket
  <1>2. \A u \in Tiles : \A g \in Watched : Reports(u, g)' <=> Reports(u, g)
    BY <1>1 DEF Reports, Reporting, Manhattan
  <1>3. ViewTrue /\ ViewTrue'  BY AlwaysTrueView
  <1>4. ASSUME NEW g \in Watched PROVE SharedView'[g] = SharedView[g]
    <2>1. CASE \E u \in Tiles : Reports(u, g)
      <3>1. PICK u \in Tiles : Reports(u, g)  BY <2>1
      <3>2. CopyOf(u, g) \in Frame(u) /\ Reporting(u)
        BY <3>1, ReportedFrame DEF IInv, Reports
      <3>3. atoms'[u][CopyOf(u, g)] = atoms[u][CopyOf(u, g)]  BY <3>2, ReadKeeps
      <3>4. Reports(u, g)'  BY <1>2, <3>1
      <3>5. QED  BY <1>3, <3>1, <3>3, <3>4 DEF ViewTrue
    <2>2. CASE ~ \E u \in Tiles : Reports(u, g)
      <3>1. PICK v \in Holders(g) : v = TileOwning(g)  BY HeldCopies
      <3>2. atoms'[v][CopyOf(v, g)] = atoms[v][CopyOf(v, g)]
        <4>1. v \in Tiles /\ CopyOf(v, g) \in Locals(v) /\ ToGrid(v, CopyOf(v, g)) = g
          BY HeldCopies
        <4>2. CASE atoms' = atoms  BY <4>2
        <4>3. ASSUME NEW m \in Tiles, NEW p \in Frame(m), NEW x, x \in Locals(t),
                     Reporting(m), ToGrid(t, x) = ToGrid(m, p),
                     atoms' = [atoms EXCEPT ![t][x] = atoms[m][p]]
              PROVE  atoms'[v][CopyOf(v, g)] = atoms[v][CopyOf(v, g)]
          <5>1. Reports(m, ToGrid(m, p))  BY <4>3, ReportedFrame DEF IInv
          <5>2. ~(v = t /\ CopyOf(v, g) = x)  BY <2>2, <4>1, <4>3, <5>1
          <5>3. QED  BY <4>1, <4>3, <5>2 DEF IInv, TypeOK
        <4>4. QED  BY <4>2, <4>3, ReadPlaces
      <3>3. SharedView[g] = atoms[v][CopyOf(v, g)]  BY <1>3, <2>2, <3>1 DEF ViewTrue
      <3>4. SharedView'[g] = atoms'[v][CopyOf(v, g)]
        BY <1>2, <1>3, <2>2, <3>1 DEF ViewTrue
      <3>5. QED  BY <3>2, <3>3, <3>4
    <2>3. QED  BY <2>1, <2>2
  <1>5. SharedView' = SharedView  BY <1>4, SameView
  <1>6. \A u \in Tiles : /\ (InEvent(u) /\ pc[u] = "execute")' <=> InEvent(u) /\ pc[u] = "execute"
                         /\ Reporting(u)' <=> Reporting(u)
                         /\ InEvent(u) => center'[u] = center[u]
    BY <1>1 DEF InEvent, Reporting
  <1>7. Begun' = Begun /\ Done' = Done  BY <1>6, EventsKept
  <1>8. QED  BY <1>5, <1>7 DEF Grid!vars, Begun, Done

\* When all have acknowledged, every copy is what the window's tile reported.
LEMMA EndingGrid ==
  ASSUME IInv, IInv', CopyInv, CopyInv', NEW t \in Tiles, EndPass(t)
  PROVE  [Grid!Next]_(Grid!vars)
  <1> DEFINE C == ToGrid(t, center[t])
  <1>1. UNCHANGED atoms /\ pc[t] = "flush" /\ outbox[t] = {}
    BY DEF EndPass, IInv, EventInv, EventOK
  <1>2. /\ \A u \in Tiles \ {t} : pc'[u] = pc[u] /\ center'[u] = center[u]
        /\ \A u \in Tiles \ {t} : /\ Reporting(u)' <=> Reporting(u)
                                  /\ InEvent(u)' <=> InEvent(u)
    <2>1. \A u \in Tiles \ {t} : pc'[u] = pc[u] /\ center'[u] = center[u]
      BY DEF EndPass, Goto, Leave, IInv, TypeOK
    <2>2. QED  BY <2>1 DEF Reporting, InEvent
  <1>3. \/ /\ pc'[t] = "flush" /\ center'[t] = center[t]
        \/ /\ ~Reporting(t)' /\ ~InEvent(t)' /\ waitWord[t] = {}
           /\ pc'[t] \in {"unlock", "idle"}
    BY DEF EndPass, Goto, Leave, InEvent, Reporting, IInv, TypeOK
  <1>4. InEvent(t) <=> Reporting(t)  BY <1>1 DEF InEvent, Reporting
  <1>5. CASE InEvent(t)' <=> InEvent(t)
    <2>1. InEvent(t) => center'[t] = center[t] /\ pc'[t] # "execute"
      BY <1>3, <1>5 DEF InEvent
    <2>2. \A u \in Tiles : /\ InEvent(u)' <=> InEvent(u)
                           /\ InEvent(u) => /\ center'[u] = center[u]
                                            /\ pc'[u] = "execute" <=> pc[u] = "execute"
      BY <1>1, <1>2, <1>5, <2>1
    <2>3. QED  BY <1>1, <2>2, QuietGrid
  <1>6. CASE ~(InEvent(t)' <=> InEvent(t))
    <2>1. Reporting(t) /\ ~Reporting(t)' /\ ~InEvent(t)' /\ waitWord[t] = {}
      BY <1>1, <1>3, <1>4, <1>6 DEF InEvent
    <2>2. ViewTrue /\ ViewTrue'  BY AlwaysTrueView
    <2>3. ASSUME NEW g \in Watched PROVE SharedView'[g] = SharedView[g]
      <3>1. \A u \in Tiles \ {t} : Reports(u, g)' <=> Reports(u, g)
        BY <1>2 DEF Reports, Manhattan
      <3>2. ~Reports(t, g)'  BY <2>1 DEF Reports
      <3>3. CASE \E u \in Tiles \ {t} : Reports(u, g)
        <4>1. PICK u \in Tiles \ {t} : Reports(u, g)  BY <3>3
        <4>2. Reports(u, g)'  BY <3>1, <4>1
        <4>3. QED  BY <1>1, <2>2, <4>1, <4>2 DEF ViewTrue
      <3>4. CASE ~ \E u \in Tiles \ {t} : Reports(u, g)
        <4>1. PICK v \in Holders(g) : v = TileOwning(g)  BY HeldCopies
        <4>2. SharedView'[g] = atoms[v][CopyOf(v, g)]
          BY <1>1, <2>2, <3>1, <3>2, <3>4, <4>1 DEF ViewTrue
        <4>3. SharedView[g] = atoms[v][CopyOf(v, g)]
          <5>1. CASE Reports(t, g)
            BY <1>1, <2>1, <2>2, <4>1, <5>1, AllHeard DEF ViewTrue
          <5>2. CASE ~Reports(t, g)
            BY <2>2, <3>4, <4>1, <5>2 DEF ViewTrue
          <5>3. QED  BY <5>1, <5>2
        <4>4. QED  BY <4>2, <4>3
      <3>5. QED  BY <3>3, <3>4
    <2>4. SharedView' = SharedView  BY <2>3, SameView
    <2>5. Begun' = Begun
      <3>1. \A u \in Tiles : /\ InEvent(u)' /\ pc'[u] = "execute" <=> InEvent(u) /\ pc[u] = "execute"
                             /\ InEvent(u) /\ pc[u] = "execute" => center'[u] = center[u]
        BY <1>1, <1>2, <2>1
      <3>2. QED  BY <3>1 DEF Begun, EventsIn
    <2>6. Done' = Done \ {C} /\ C \in Done
      <3>1. C \in Done  BY <1>1, <1>4, <2>1 DEF Done, EventsIn
      <3>2. \A u \in Tiles : InEvent(u)' /\ pc'[u] \in {"report", "flush"} <=>
                               InEvent(u) /\ pc[u] \in {"report", "flush"} /\ u # t
        BY <1>2, <2>1
      <3>3. \A u \in Tiles : InEvent(u) /\ ToGrid(u, center[u]) = C => u = t
        BY <1>4, <2>1, CentersDiffer
      <3>4. Done' = {ToGrid(u, center[u]) :
                       u \in {w \in Tiles : InEvent(w) /\ pc[w] \in {"report", "flush"} /\ w # t}}
        BY <1>2, <3>2 DEF Done, EventsIn
      <3>5. QED  BY <3>1, <3>3, <3>4 DEF Done, EventsIn
    <2>7. QED  BY <2>4, <2>5, <2>6 DEF Grid!Next, Grid!End, Begun, Done
  <1>7. QED  BY <1>5, <1>6

\* Clearing the tiles clears the grid.
LEMMA ClearGrid ==
  ASSUME IInv, IInv', CopyInv, CopyInv', Clear
  PROVE  Grid!Clear
  <1>1. Stopped /\ UNCHANGED <<pc, center>>  BY DEF Clear
  <1>2. \A u \in Tiles : ~InEvent(u) /\ ~InEvent(u)'  BY <1>1 DEF Stopped, InEvent
  <1>3. Begun = {} /\ Begun' = {} /\ Done = {} /\ Done' = {}
    BY <1>2 DEF Begun, Done, EventsIn
  <1>4. \A u \in Tiles : \A g \in Watched : ~Reports(u, g) /\ ~Reports(u, g)'
    BY <1>1 DEF Stopped, Reports, Reporting
  <1>5. ASSUME NEW g \in Watched PROVE SharedView'[g] = Empty
    <2>1. PICK v \in Holders(g) : v = TileOwning(g)  BY HeldCopies
    <2>2. SharedView'[g] = atoms'[v][CopyOf(v, g)]
      BY <1>4, <2>1, AlwaysTrueView DEF ViewTrue
    <2>3. v \in Tiles /\ CopyOf(v, g) \in Locals(v)  BY HeldCopies
    <2>4. QED  BY <2>2, <2>3 DEF Clear
  <1>6. SharedView' = [g \in Watched |-> Empty]
    BY <1>5 DEF SharedView
  <1>7. QED  BY <1>3, <1>6 DEF Grid!Clear, Begun, Done

\* Placing an atom at every copy of a site places it at the grid's.
LEMMA EditGrid ==
  ASSUME IInv, IInv', CopyInv, CopyInv', NEW h \in Watched, NEW a \in Atoms, Edit(h, a)
  PROVE  Grid!Edit
  <1>1. Stopped /\ UNCHANGED <<pc, center>>  BY DEF Edit
  <1>2. \A u \in Tiles : ~InEvent(u) /\ ~InEvent(u)'  BY <1>1 DEF Stopped, InEvent
  <1>3. Begun = {} /\ Begun' = {} /\ Done = {} /\ Done' = {}
    BY <1>2 DEF Begun, Done, EventsIn
  <1>4. \A u \in Tiles : \A g \in Watched : ~Reports(u, g) /\ ~Reports(u, g)'
    BY <1>1 DEF Stopped, Reports, Reporting
  <1>5. ASSUME NEW g \in Watched
        PROVE  SharedView'[g] = IF g = h THEN a ELSE SharedView[g]
    <2>1. PICK v \in Holders(g) : v = TileOwning(g)  BY HeldCopies
    <2>2. /\ SharedView'[g] = atoms'[v][CopyOf(v, g)]
          /\ SharedView[g] = atoms[v][CopyOf(v, g)]
      BY <1>4, <2>1, AlwaysTrueView DEF ViewTrue
    <2>3. v \in Tiles /\ CopyOf(v, g) \in Locals(v) /\ ToGrid(v, CopyOf(v, g)) = g
      BY HeldCopies
    <2>4. QED  BY <2>2, <2>3, EditPlaces
  <1>6. SharedView' = [SharedView EXCEPT ![h] = a]
    <2>1. SharedView \in [Watched -> Atoms] /\ SharedView' \in [Watched -> Atoms]
      BY AlwaysTyped DEF ViewTyped
    <2> DEFINE W == [SharedView EXCEPT ![h] = a]
    <2>2. /\ W \in [Watched -> Atoms]
          /\ \A g \in Watched : W[g] = IF g = h THEN a ELSE SharedView[g]
      BY <2>1
    <2> HIDE DEF W
    <2>3. SharedView' = W  BY <1>5, <2>1, <2>2
    <2>4. QED  BY <2>3 DEF W
  <1>7. QED  BY <1>3, <1>6 DEF Grid!Edit, Begun, Done
-----------------------------------------------------------------------------
(* The theorem *)

\* CreateRandomWindow's centre is a site the tile owns; nothing moves it.
LEMMA CentersStay ==
  ASSUME IInv, CentersChosen, [Next]_vars
  PROVE  CentersChosen'
  <1>1. ASSUME NEW t \in Tiles, NEW g \in EventCenters, CreateRandomWindow(t, g)
        PROVE  CentersChosen'
    <2>1. ToGrid(t, SiteInTile(g)) = g
      BY <1>1, OwnerHolds, TilesAssumption DEF CreateRandomWindow
    <2>2. center' = [center EXCEPT ![t] = SiteInTile(g)]
      BY <1>1 DEF CreateRandomWindow
    <2>3. QED  BY <2>1, <2>2 DEF CentersChosen, IInv, TypeOK
  <1>2. ASSUME NEW t \in Tiles, center' = [center EXCEPT ![t] = NoPoint] \/ UNCHANGED center
        PROVE  CentersChosen'
    BY <1>2 DEF CentersChosen, IInv, TypeOK
  <1>3. ASSUME NEW t \in Tiles, Step(t) PROVE CentersChosen'
    <2>1. CASE \E g \in EventCenters : CreateRandomWindow(t, g)  BY <1>1, <2>1
    <2>2. CASE center' = [center EXCEPT ![t] = NoPoint] \/ UNCHANGED center
      BY <1>2, <2>2
    <2>3. QED
      BY <1>3, <2>1, <2>2
      DEF Step, TryLock, LockBusy, Unwind, Execute, SendAtom, SendEndEventPacket,
          StartFlush, ReadPacket, ScanNext, EndPass, Unlock, Leave
  <1>4. CASE UNCHANGED center  BY <1>4 DEF CentersChosen
  <1>5. QED  BY <1>3, <1>4 DEF Next, Clear, Edit, vars

LEMMA GridInductive == Spec => [](IInv /\ CopyInv /\ CentersChosen)
  <1>1. Init => CentersChosen  BY DEF Init, CentersChosen
  <1>2. IInv /\ CentersChosen /\ [Next]_vars => CentersChosen'  BY CentersStay
  <1>3. QED  BY <1>1, <1>2, CopiesInductive, PTL DEF Spec

LEMMA GridInit == Init => Grid!Init
  <1> SUFFICES ASSUME Init PROVE Grid!Init  OBVIOUS
  <1>1. IInv  BY TypeInit, EventInit, LockInit, HandshakeInit DEF IInv
  <1>2. \A u \in Tiles : ~InEvent(u)  BY DEF Init, InEvent
  <1>3. QED  BY <1>1, <1>2, ViewType DEF Grid!Init, EventsIn

LEMMA GridStep ==
  ASSUME IInv, CopyInv, CentersChosen, IInv', CopyInv', CentersChosen', [Next]_vars
  PROVE  [Grid!Next]_(Grid!vars)
  <1>1. ASSUME NEW t \in Tiles, Step(t) PROVE [Grid!Next]_(Grid!vars)
    <2>1. ASSUME NEW b \in Behaviours, Execute(t, b) PROVE Grid!Next
      BY <2>1, HappenStep DEF Grid!Next
    <2>2. QED
      BY <1>1, <2>1, LockingGrid, SendingGrid, ReadingGrid, EndingGrid DEF Step
  <1>2. CASE Clear  BY <1>2, ClearGrid DEF Grid!Next
  <1>3. ASSUME NEW g \in Watched, NEW a \in Atoms, Edit(g, a) PROVE Grid!Next
    BY <1>3, EditGrid DEF Grid!Next
  <1>4. CASE UNCHANGED vars
    <2>1. UNCHANGED atoms /\ \A u \in Tiles :
            /\ InEvent(u)' <=> InEvent(u)
            /\ InEvent(u) => /\ center'[u] = center[u]
                             /\ pc'[u] = "execute" <=> pc[u] = "execute"
      BY <1>4 DEF vars, InEvent
    <2>2. QED  BY <2>1, QuietGrid
  <1>5. QED  BY <1>1, <1>2, <1>3, <1>4 DEF Next

\* On every grid, whatever its size and radius, the events of the tiles are
\* events of one grid without caches: DoEvent's behaviour finds the latest atom
\* of each site of its window, its whole window changes at once, and no packet
\* or acknowledgment is seen.
THEOREM TilesImplementGrid == Spec => ImplementsSharedGrid
  <1>1. /\ IInv /\ CopyInv /\ CentersChosen
        /\ (IInv /\ CopyInv /\ CentersChosen)'
        /\ [Next]_vars
        => [Grid!Next]_(Grid!vars)
    BY GridStep
  <1>2. QED  BY <1>1, GridInit, GridInductive, PTL DEF Spec, ImplementsSharedGrid, Grid!Spec
=============================================================================
