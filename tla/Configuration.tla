--------------------------- MODULE Configuration ---------------------------
(***************************************************************************)
(* Saved states: what ExternalConfig writes of the grid, its elements and  *)
(* their parameters, and what reading such a file does.  A file is a       *)
(* sequence of calls.  A registry is a sequence of entries: the UUIDs of   *)
(* the element libraries that were found, loaded or not.                   *)
(***************************************************************************)
EXTENDS GridView

CONSTANT MAX_REGISTERED_ELEMENTS
ASSUME FilesHoldElements == MAX_REGISTERED_ELEMENTS \in Nat

Entry(uuid) == [uuid |-> uuid, loaded |-> TRUE]
Found(uuid) == [uuid |-> uuid, loaded |-> FALSE]
Loaded(registry) == {k \in DOMAIN registry : registry[k].loaded}

\* Of the same label and make, and not older.
Compatible(uuid, other) == uuid.label = other.label /\ uuid.date >= other.date

RegisterElementCall(uuid, nick) == [call |-> "RegisterElement", uuid |-> uuid, nick |-> nick]
SetElementParameterCall(nick, value) == [call |-> "SetElementParameter", nick |-> nick, value |-> value]
GACall(nick, at, bits) == [call |-> "GA", nick |-> nick, at |-> at, bits |-> bits]
DisableTileCall(tile) == [call |-> "DisableTile", tile |-> tile]
NoNick == -1

\* An atom is written under the nickname of the first entry of its type, or under
\* none where there is no such entry.
NickOf(registry, type) ==
  LET of == {k \in DOMAIN registry : registry[k].uuid = type}
  IN  IF of = {} THEN NoNick ELSE Min(of)

\* Write goes through the elements of all entries, and dies of one that is not loaded.
CannotWrite(registry) == Loaded(registry) # DOMAIN registry
Write(registry, u) ==
  LET ofElement(k) ==
        <<RegisterElementCall(registry[k].uuid, k)>>
        \o (IF registry[k].uuid \in DOMAIN u.param
            THEN <<SetElementParameterCall(k, u.param[registry[k].uuid])>> ELSE <<>>)
      atoms == Rows({pt \in DOMAIN u.grid : u.grid[pt].type # Empty})
      ofAtom(i) == GACall(NickOf(registry, u.grid[atoms[i]].type), atoms[i], u.grid[atoms[i]].bits)
      disabled == Rows(u.disabledTiles)
  IN  FlattenSeq([k \in DOMAIN registry |-> ofElement(k)])
      \o [i \in DOMAIN atoms |-> ofAtom(i)]
      \o [i \in DOMAIN disabled |-> DisableTileCall(disabled[i])]

\* While a file is read: what it works on so far, the elements it has registered,
\* and whether it goes on, stopped at an error, or made the program fail.
Reading(u) == [u |-> u, registered |-> <<>>, result |-> "reading"]
Refused(r) == [r EXCEPT !.result = "refused"]

\* LookupCompatible: the element itself, or else the first entry that can stand in,
\* which need not be loaded.
Lookup(registry, uuid) ==
  LET exact == {k \in Loaded(registry) : registry[k].uuid = uuid}
      substitutes == {k \in DOMAIN registry : Compatible(registry[k].uuid, uuid)}
  IN  IF exact # {} THEN exact ELSE {Min(substitutes) : k \in substitutes} \cap Loaded(registry)

RegisterElement(registry, r, c) ==
  LET found == Lookup(registry, c.uuid)
      uuid  == registry[Min(found)].uuid
      taken == \E i \in DOMAIN r.registered :
                 r.registered[i].uuid = uuid \/ r.registered[i].nick = c.nick
  IN  IF found = {} \/ taken \/ Len(r.registered) >= MAX_REGISTERED_ELEMENTS THEN Refused(r)
      ELSE [r EXCEPT !.registered = Append(@, [uuid |-> uuid, nick |-> c.nick])]

Named(r, nick) == {r.registered[i].uuid : i \in {j \in DOMAIN r.registered : r.registered[j].nick = nick}}
LookupElement(r, nick) == CHOOSE uuid \in Named(r, nick) : TRUE

SetElementParameter(r, c) ==
  IF Named(r, c.nick) \cap DOMAIN r.u.param = {} THEN Refused(r)
  ELSE [r EXCEPT !.u.param[LookupElement(r, c.nick)] = c.value]

\* (Variant with a mistake: the state is read and not given to the atom.)
GA_DefaultAtom(r, c) ==
  IF Named(r, c.nick) = {} THEN Refused(r)
  ELSE IF c.at \notin DOMAIN r.u.grid THEN [r EXCEPT !.result = "failed"]
  ELSE [r EXCEPT !.u = PlaceAtom(r.u, GetDefaultAtom(LookupElement(r, c.nick)), c.at)]
\* The default atom is placed, and then given its state.
GA(r, c) ==
  IF Named(r, c.nick) = {} THEN Refused(r)
  ELSE IF c.at \notin DOMAIN r.u.grid THEN [r EXCEPT !.result = "failed"]
  ELSE LET placed == PlaceAtom(r.u, GetDefaultAtom(LookupElement(r, c.nick)), c.at)
       IN  [r EXCEPT !.u = [placed EXCEPT !.grid[c.at].bits = c.bits]]

\* SetTileToExecuteOnly ignores a tile that is not there.
DisableTile(r, c) == [r EXCEPT !.u.disabledTiles = @ \cup ({c.tile} \cap TilesOf(r.u.grid))]

Parse(registry, r, c) ==
  CASE r.result # "reading" -> r
    [] r.result = "reading" /\ c.call = "RegisterElement" -> RegisterElement(registry, r, c)
    [] r.result = "reading" /\ c.call = "SetElementParameter" -> SetElementParameter(r, c)
    [] r.result = "reading" /\ c.call = "GA" -> GA(r, c)
    [] r.result = "reading" /\ c.call = "DisableTile" -> DisableTile(r, c)
    [] OTHER -> Refused(r)

\* Grid::Clear; tiles that do not execute stay so.
Clear(u) == [u EXCEPT !.grid = [pt \in DOMAIN u.grid |-> GetDefaultAtom(Empty)]]

\* Read clears the grid before it looks at the file, and leaves it as far as it got
\* when it meets an error.
Read(registry, u, file) ==
  FoldLeft(LAMBDA r, c : Parse(registry, r, c), Reading(Clear(u)), file)

-----------------------------------------------------------------------------
(* What saving promises *)

\* A state u of what a simulation with this registry works on, and a fresh one: of the same
\* grid and with the same parameters, with atoms that have a type and bits, and with nothing
\* halted that is not in u.  Elements outside the registry have the parameters they start
\* with.  No library was found twice.
StatesOf(registry, fresh, u) ==
  /\ registry \in Seq(Range(registry))
  /\ \A j, k \in DOMAIN registry : registry[j].uuid = registry[k].uuid => j = k
  /\ {"grid", "param", "disabledTiles"} \subseteq DOMAIN fresh
  /\ IsFiniteSet(DOMAIN u.grid) /\ DOMAIN u.grid \subseteq Int \X Int
  /\ DOMAIN fresh.grid = DOMAIN u.grid
  /\ u.grid = [pt \in DOMAIN u.grid |-> [type |-> u.grid[pt].type, bits |-> u.grid[pt].bits]]
  /\ fresh.param = [e \in DOMAIN u.param |-> fresh.param[e]]
  /\ u.param = [e \in DOMAIN u.param |-> u.param[e]]
  /\ \A e \in DOMAIN u.param :
       u.param[e] = fresh.param[e] \/ \E k \in DOMAIN registry : registry[k].uuid = e
  /\ fresh.disabledTiles \subseteq u.disabledTiles /\ u.disabledTiles \subseteq TilesOf(u.grid)

\* Every element of the grid is in the registry, which fits into a file, and loaded.
Savable(registry, u) ==
  /\ ~CannotWrite(registry)
  /\ Len(registry) <= MAX_REGISTERED_ELEMENTS
  /\ \A pt \in DOMAIN u.grid :
       u.grid[pt].type \in {Empty} \cup {registry[k].uuid : k \in DOMAIN registry}
\* An Empty atom is not written; a file may have given it bits, and those are lost.
Saved(grid) ==
  [pt \in DOMAIN grid |-> IF grid[pt].type = Empty THEN GetDefaultAtom(Empty) ELSE grid[pt]]
Restores(r, u) ==
  /\ r.result = "reading"
  /\ r.u.grid = Saved(u.grid) /\ r.u.param = u.param /\ r.u.disabledTiles = u.disabledTiles
=============================================================================
