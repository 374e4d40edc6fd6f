---------------------------- MODULE MCTileEvents ----------------------------
(***************************************************************************)
(* Instances of TileEvents for TLC.  With R = 1 and TILE_WIDTH = 7 a tile  *)
(* owns 5 x 5 sites and has exactly one hidden site, its middle.           *)
(***************************************************************************)
EXTENDS TileEvents, TLC

CONSTANT A   \* an atom that is not Empty

MCAtoms == {Empty, A}

\* Behaviours: of one site that is set, of two that are swapped, and the
\* element's that puts its atom on both sides of it and another in its place.
NoSites == [rel \in {} |-> Empty]
Idle == [set |-> NoSites, moved |-> NoSites, fails |-> FALSE]
Set(rel, atom) == [Idle EXCEPT !.set = (rel :> atom)]
Swap(rel) == [Idle EXCEPT !.moved = (rel :> <<0, 0>> @@ <<0, 0>> :> rel)]
Split(rel, atom) ==
  [set   |-> (<<0, 0>> :> atom),
   moved |-> (rel :> <<0, 0>> @@ <<-rel[1], -rel[2]>> :> <<0, 0>>),
   fails |-> FALSE]
Failing(b) == [b EXCEPT !.fails = TRUE]

\* Three tiles in a row, so that the middle one may serve one neighbour while
\* it waits for the other.  Sites and events on both sides of each edge, and
\* an event at each tile's hidden site.
RowSites == {<<4, 2>>, <<5, 2>>}

\* For liveness what the atoms are does not matter.
LiveAtoms == {Empty}
LiveCenters == {<<4, 2>>, <<5, 2>>, <<9, 2>>, <<10, 2>>, <<2, 2>>, <<7, 2>>, <<12, 2>>}
LiveSites == {<<5, 2>>}
LiveBehaviours == {Idle}

RowCenters == {<<4, 2>>, <<5, 2>>, <<6, 2>>, <<9, 2>>, <<10, 2>>, <<2, 2>>, <<7, 2>>, <<12, 2>>}
RowBehaviours ==
  {Swap(<<1, 0>>), Split(<<-1, 0>>, Empty), Failing(Set(<<-1, 0>>, A)), Idle}

\* Four tiles around a point: a site there that all four of them hold, and
\* three tiles whose events reach it, two of which share a face with the third
\* and only the corner with each other.  The fourth serves them.
CornerSites == {<<5, 4>>}
CornerCenters == {<<4, 4>>, <<6, 4>>, <<5, 5>>}
CornerTiles == {<<0, 0>>, <<1, 0>>, <<1, 1>>}
CornerBehaviours ==
  {[Idle EXCEPT !.set = (<<1, 0>> :> A @@ <<0, -1>> :> Empty @@ <<-1, 0>> :> Empty)]}

AllTiles == Tiles
=============================================================================
