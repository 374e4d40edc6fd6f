---------------------------- MODULE GridPainting ----------------------------
(***************************************************************************)
(* The editing tools of GridPanel.  An operator takes the record u of what *)
(* the user interface works on (GuiDriver's variable ui) and gives it back *)
(* changed.                                                                *)
(***************************************************************************)
EXTENDS GridView

CONSTANT MAX_BUCKET_FILL_DEPTH

Junk  == Element("Junk")     \* what irradiation may make of an atom

Wheel == {"wheel up", "wheel down"}

EmptyTile(u, tile) ==
  [u EXCEPT !.grid = [pt \in DOMAIN u.grid |->
     IF TileOf(pt) = tile THEN GetDefaultAtom(Empty) ELSE u.grid[pt]]]

\* The sites within a blast, and what RandomNuke and XRay do to the sites they hit.
BlastSites(center, radius) ==
  LET span == -radius..radius - 1
  IN  {Moved(d, <<0, 0>>, center) : d \in {xy \in span \X span : xy[1] * xy[1] + xy[2] * xy[2] < radius * radius}}
Hit(u, hit, atom) ==
  [u EXCEPT !.grid = [pt \in DOMAIN u.grid |-> IF pt \in hit THEN atom ELSE u.grid[pt]]]
RandomNuke(u, hit) == Hit(u, hit, GetDefaultAtom(Empty))
XRay(u, hit) == Hit(u, hit, GetDefaultAtom(Junk))

BrushTools == {"brush", "xray", "clone", "airbrush"}
BrushableTools == BrushTools \cup {"eraser"}
FreehandTools == BrushableTools \cup {"pencil", "atom selector"}

\* What the toolbox takes as its brush's size, and what the tools hand to PaintAtom.
GetBrushSize(u) ==
  CASE "toolbox" \in u.hidden -> 0
    [] "toolbox" \notin u.hidden /\ u.tool \in BrushTools -> u.brush
    [] OTHER -> 1
BrushSize(u, tool) ==
  CASE tool \in BrushTools -> GetBrushSize(u) [] tool = "eraser" -> 1 [] OTHER -> 0

Disc(center, size) ==
  LET span == 1 - size..size - 1
  IN  {Moved(d, <<0, 0>>, center) : d \in {xy \in span \X span : xy[1] * xy[1] + xy[2] * xy[2] <= (size - 1) * (size - 1)}}

\* A point where the clone's origin maps to lies off the grid is left alone.
Clone(u, pt) ==
  LET source == Moved(pt, u.cloneDestination, u.cloneOrigin)
  IN  IF source \in DOMAIN u.grid THEN PlaceAtom(u, u.grid[source], pt) ELSE u

SetCloneOrigin(u, cp) == IF cp \in DOMAIN u.grid THEN [u EXCEPT !.cloneOrigin = cp] ELSE u

\* One site under the brush.  Chance decides of each site whether the airbrush
\* paints it and whether it is irradiated.
Touch(u, tool, atom, pt, chance) ==
  CASE tool = "xray" -> IF pt \in chance THEN PlaceAtom(u, GetDefaultAtom(Junk), pt) ELSE u
    [] tool = "clone" -> IF u.cloneOrigin = Nowhere THEN u ELSE Clone(u, pt)
    [] tool = "airbrush" /\ pt \notin chance -> u
    [] OTHER -> PlaceAtom(u, atom, pt)

AroundInOrder(pt) ==
  LET at(d) == Moved(d, <<0, 0>>, pt)
  IN  <<at(<<-1, 0>>), at(<<0, -1>>), at(<<0, 1>>), at(<<1, 0>>)>>

\* The recursion stops at its depth, and so may leave sites it could have reached.  What
\* it has painted is not of startType any more.
SitesFilled(u, startType, cp) ==
  LET sites == DOMAIN u.grid
      fill[depth \in 0..MAX_BUCKET_FILL_DEPTH, painted \in SUBSET sites, pt \in sites] ==
        FoldLeft(LAMBDA done, next :
                   IF next \in sites \ done /\ u.grid[next].type = startType /\ depth > 0
                   THEN fill[depth - 1, done, next] ELSE done,
                 painted \cup {pt}, AroundInOrder(pt))
  IN  fill[MAX_BUCKET_FILL_DEPTH, {}, cp]
BucketFill(u, atom, startType, cp) == Hit(u, SitesFilled(u, startType, cp), atom)

\* A brush of size zero works on one site.
PaintAtom(u, tool, button, atom, cp, chance) ==
  LET size == BrushSize(u, tool)
      onGrid == Disc(cp, size) \cap DOMAIN u.grid
  IN  CASE size > 0 /\ tool = "clone" /\ button = "right" ->
             IF onGrid = {} THEN u ELSE SetCloneOrigin(u, cp)
        [] size > 0 /\ ~(tool = "clone" /\ button = "right") ->
             FoldLeft(LAMBDA v, pt : Touch(v, tool, atom, pt, chance), u, Rows(onGrid))
        [] size = 0 /\ cp \notin DOMAIN u.grid -> u
        [] size = 0 /\ cp \in DOMAIN u.grid /\ tool = "bucket" ->
             IF u.grid[cp].type = atom.type THEN u
             ELSE BucketFill(u, atom, u.grid[cp].type, cp)
        [] size = 0 /\ cp \in DOMAIN u.grid /\ tool = "clone" ->
             IF button = "right" THEN SetCloneOrigin(u, cp) ELSE Clone(u, cp)
        [] OTHER -> PlaceAtom(u, atom, cp)

\* The atom panel is to show a site's atom, unless that is insane.
HandleAtomSelectorTool(u, at) ==
  LET v == SelectAtom(u, at)
  IN  [v EXCEPT !.viewed = {pt \in {v.selectedAtom} \cap DOMAIN v.grid : v.grid[pt].type # Junk}]

\* The atom a tool paints with.
Paint(u, tool, button) ==
  GetDefaultAtom(IF tool \in {"eraser", "xray", "clone"} THEN Empty
                 ELSE IF button = "left" THEN u.primary ELSE u.secondary)
\* Nothing is painted while tiles are apart.
UseTool(u, button, e) ==
  CASE u.tool = "selector" -> SelectTile(u, e.at)
    [] u.tool = "atom selector" -> HandleAtomSelectorTool(u, e.at)
    [] u.separated /\ u.tool \notin {"selector", "atom selector"} -> u
    [] OTHER -> PaintAtom(u, u.tool, button, Paint(u, u.tool, button), ClickPointToAtom(u, e.at), e.chance)

\* GridPanel takes every button event; a press without ctrl uses the tool.
GridPressed(u, e) ==
  LET begun == IF e.button = "left" THEN BeginDrag(u, e.at) ELSE u
  IN  CASE e.kind # "down" -> u
        [] e.kind = "down" /\ e.button \in Wheel -> ChangeAtomSize(u, e.button = "wheel up", e.at)
        [] e.kind = "down" /\ e.button \notin Wheel /\ (e.ctrl \/ ~u.paintingEnabled) -> begun
        [] OTHER ->
             UseTool(IF u.tool = "clone" /\ e.button = "left"
                     THEN [begun EXCEPT !.cloneDestination = ClickPointToAtom(u, e.at)] ELSE begun,
                     e.button, e)

\* It takes no motion, but paints along it while a button is down.
GridDragged(u, e) ==
  LET mask == {"left", "right"} \cap e.held
  IN  CASE e.ctrl -> IF "left" \in mask THEN DragGrid(u, e.at) ELSE u
        [] ~e.ctrl /\ (mask = {} \/ ~u.paintingEnabled \/ u.tool \notin FreehandTools) -> u
        [] OTHER -> UseTool(u, IF "left" \in mask THEN "left" ELSE "right", e)
=============================================================================
