----------------------------- MODULE TileEvents -----------------------------
(***************************************************************************)
(* The tiles of a grid executing events concurrently, one thread per tile  *)
(* (Tile::Execute).  An event near an edge first locks the connections to  *)
(* the neighbours that cache its window, changes the tile's own copy of    *)
(* the sites, sends the changed sites to those neighbours, and keeps the   *)
(* locks until each of them has acknowledged.  Between events the driver   *)
(* may clear or edit the grid.                                             *)
(*                                                                         *)
(* Only the sites of Watched are followed; the packets of the other sites  *)
(* of a window are left out, the rest of the protocol is not.              *)
(***************************************************************************)
EXTENDS TileGeometry, EventBehaviour, Sequences, FiniteSets

CONSTANTS
  Watched,         \* the sites followed, in grid coordinates
  EventCenters,    \* the sites CreateRandomWindow may choose
  ExecutingTiles,  \* the tiles whose m_executeOwnEvents is set
  GENERATIONS      \* number of values of a generation (256: it is a u8)

ASSUME TilesAssumption ==
  /\ Watched \subseteq GridSites
  /\ EventCenters \subseteq GridSites
  /\ ExecutingTiles \subseteq Tiles
  /\ GENERATIONS \in Nat \ {0}
  /\ \A b \in Behaviours :
       /\ \A rel \in Changes(b) : Manhattan(rel, <<0, 0>>) <= R
       /\ \A rel \in DOMAIN b.moved : Manhattan(b.moved[rel], <<0, 0>>) <= R

VARIABLES
  atoms,       \* atoms[t][p]: m_atoms of tile t, at its points p followed
  generation,  \* generation[t]: m_generation of tile t
  lock,        \* lock[k]: the tile holding connection k, or NoTile
  iLocked,     \* iLocked[t]: the directions d with m_iLocked[d]
  queue,       \* queue[t][d]: the buffer tile t reads from its neighbour d
  pc,          \* what the thread of tile t is doing
  center,      \* the centre of its m_executingWindow during an event
  region,      \* the lockRegion of the event, NoDir for an event without locks
  step,        \* locks held, or, unlocking, the connections released
  outbox,      \* the <<direction, point>> sends of SendRelevantAtoms to come
  owed,        \* the directions SendEndEventPackets has still to serve
  waitWord,    \* dirWaitWord: the directions not yet acknowledged
  scan         \* where FlushAndWaitOnAllBuffers' pass over the directions is

vars == <<atoms, generation, lock, iLocked, queue, pc, center, region, step,
          outbox, owed, waitWord, scan>>

NoTile  == <<-1, -1>>
NoPoint == <<-1, -1>>

\* Where tile t keeps its copy of site g, if that is a point of the tile.
CopyOf(t, g) == <<g[1] - t[1] * OWNED_SIDE + R, g[2] - t[2] * OWNED_SIDE + R>>

\* The points of tile t that hold a site followed, caches included.
Locals(t) == {CopyOf(t, g) : g \in Watched} \cap TilePoints

\* The tiles that keep a copy of site g: its owner and those caching it.
Holders(g) == {t \in Tiles : CopyOf(t, g) \in TilePoints}

\* The first connection at or after direction d; DIR_COUNT when a pass is over.
NextScan(t, d) ==
  CHOOSE e \in d .. DIR_COUNT :
    /\ e = DIR_COUNT \/ IsConnected(t, e)
    /\ \A f \in d .. e - 1 : ~IsConnected(t, f)

Packet(type, g, d, p, a) ==
  [type |-> type, generation |-> g, neighbor |-> d, location |-> p, atom |-> a]

Packets ==
  [type : {"WRITE", "EVENT_COMPLETE", "EVENT_ACKNOWLEDGE"},
   generation : 0 .. GENERATIONS - 1, neighbor : Dir,
   location : Int \X Int, atom : Atoms]

WritePacket(g, d, p, a) == Packet("WRITE", g, d, p, a)
CompletePacket(g, d)    == Packet("EVENT_COMPLETE", g, d, NoPoint, Empty)
AckPacket(g, d)         == Packet("EVENT_ACKNOWLEDGE", g, d, NoPoint, Empty)
-----------------------------------------------------------------------------
Init ==
  /\ \E s \in [Watched -> Atoms] :
       atoms = [t \in Tiles |-> [p \in Locals(t) |-> s[ToGrid(t, p)]]]
  /\ generation = [t \in Tiles |-> 0]
  /\ lock = [k \in Connections |-> NoTile]
  /\ iLocked = [t \in Tiles |-> {}]
  /\ queue = [t \in Tiles |-> [d \in Dir |-> <<>>]]
  /\ pc = [t \in Tiles |-> "idle"]
  /\ center = [t \in Tiles |-> NoPoint]
  /\ region = [t \in Tiles |-> NoDir]
  /\ step = [t \in Tiles |-> 0]
  /\ outbox = [t \in Tiles |-> {}]
  /\ owed = [t \in Tiles |-> {}]
  /\ waitWord = [t \in Tiles |-> {}]
  /\ scan = [t \in Tiles |-> NORTH]

\* Tile t finishes what it was doing: its thread is back in Execute's loop.
Leave(t) ==
  /\ pc' = [pc EXCEPT ![t] = "idle"]
  /\ center' = [center EXCEPT ![t] = NoPoint]
  /\ region' = [region EXCEPT ![t] = NoDir]
  /\ scan' = [scan EXCEPT ![t] = NORTH]

Goto(t, l) == pc' = [pc EXCEPT ![t] = l]

reportVars == <<outbox, owed, waitWord>>
lockVars   == <<lock, iLocked, step>>
-----------------------------------------------------------------------------
(* Choosing and locking the window *)

\* (Variant with a mistake: forgets the sites whose window only reaches the
\* shared ones.)
NeedsLock_SharedOnly(t, c) ==
  SharedAt(c) # NoDir /\ HasAnyConnections(t, VisibleAt(c))

NeedsLock(t, c) == ~IsInHidden(c) /\ HasAnyConnections(t, VisibleAt(c))

\* Execute in state RUNNING: CreateRandomWindow, and the test of whether the
\* event can do without locks.
CreateRandomWindow(t, g) ==
  LET c == SiteInTile(g)
  IN  /\ pc[t] = "idle"
      /\ t \in ExecutingTiles
      /\ TileOwning(g) = t
      /\ center' = [center EXCEPT ![t] = c]
      /\ IF NeedsLock(t, c)
         THEN Goto(t, "lock") /\ region' = [region EXCEPT ![t] = VisibleAt(c)]
         ELSE Goto(t, "execute") /\ UNCHANGED region
      /\ UNCHANGED <<atoms, generation, queue, scan, lockVars, reportVars>>

\* The connection a thread locks or unlocks next.
LockDir(t) == LockDirAt(region[t], step[t])

\* The connection a thread locked last.
LastLocked(t) == LockDirAt(region[t], step[t] - 1)

\* (Variant with a mistake: does not look whether the connection is free.)
TryLock_IgnoresHolder(t) ==
  LET d == LockDir(t)
      k == ConnectionOf(t, d)
  IN  /\ pc[t] = "lock"
      /\ lock' = IF IsConnected(t, d) THEN [lock EXCEPT ![k] = t] ELSE lock
      /\ iLocked' = [iLocked EXCEPT ![t] = @ \cup ({d} \cap {e \in Dir : IsConnected(t, e)})]
      /\ step' = [step EXCEPT ![t] = @ + 1]
      /\ Goto(t, IF step[t] + 1 = LockCount(region[t]) THEN "execute" ELSE "lock")
      /\ UNCHANGED <<atoms, generation, queue, center, region, scan, reportVars>>

\* TryLock, one connection of LockRegion: a missing connection counts as
\* locked.  After the last one the event goes ahead.
TryLock(t) ==
  LET d == LockDir(t)
      k == ConnectionOf(t, d)
  IN  /\ pc[t] = "lock"
      /\ \/ /\ ~IsConnected(t, d)
            /\ UNCHANGED <<lock, iLocked>>
         \/ /\ IsConnected(t, d)
            /\ lock[k] = NoTile
            /\ lock' = [lock EXCEPT ![k] = t]
            /\ iLocked' = [iLocked EXCEPT ![t] = @ \cup {d}]
      /\ step' = [step EXCEPT ![t] = @ + 1]
      /\ Goto(t, IF step[t] + 1 = LockCount(region[t]) THEN "execute" ELSE "lock")
      /\ UNCHANGED <<atoms, generation, queue, center, region, scan, reportVars>>

\* The connection is busy: no event.  TryLockCorner first releases what it
\* had locked.
LockBusy(t) ==
  LET d == LockDir(t)
  IN  /\ pc[t] = "lock"
      /\ IsConnected(t, d)
      /\ lock[ConnectionOf(t, d)] # NoTile
      /\ IF step[t] = 0
         THEN Leave(t)
         ELSE Goto(t, "unwind") /\ UNCHANGED <<center, region, scan>>
      /\ UNCHANGED <<atoms, generation, queue, lockVars, reportVars>>

\* (Variant with a mistake: clears m_iLocked but leaves the connection locked.)
UnlockDir_FlagOnly(t, d) ==
  /\ iLocked' = [iLocked EXCEPT ![t] = @ \ {d}]
  /\ UNCHANGED lock

\* UnlockDir.
UnlockDir(t, d) ==
  IF IsConnected(t, d)
  THEN /\ lock' = [lock EXCEPT ![ConnectionOf(t, d)] = NoTile]
       /\ iLocked' = [iLocked EXCEPT ![t] = @ \ {d}]
  ELSE UNCHANGED <<lock, iLocked>>

\* TryLockCorner's rewind: from the connection locked last to the first.
Unwind(t) ==
  /\ pc[t] = "unwind"
  /\ UnlockDir(t, LastLocked(t))
  /\ step' = [step EXCEPT ![t] = @ - 1]
  /\ IF step[t] = 1 THEN Leave(t) ELSE UNCHANGED <<pc, center, region, scan>>
  /\ UNCHANGED <<atoms, generation, queue, reportVars>>
-----------------------------------------------------------------------------
(* The event, and reporting it to the neighbours *)

\* The neighbours one of whose copies the window may have changed.
Reached(t, c) == UNION {SendDirs(t, p) : p \in Window(c)}

\* DoEvent up to SendRelevantAtoms: the behaviour, a FAIL of it caught by
\* erasing the centre.
Execute(t, b) ==
  LET c == center[t]
  IN  /\ pc[t] = "execute"
      /\ Applies(atoms[t], c, b)
      /\ atoms' = [atoms EXCEPT ![t] = Result(@, c, b)]
      /\ outbox' = [outbox EXCEPT ![t] =
            UNION {SendDirs(t, p) \X {p} : p \in Window(c) \cap Locals(t)}]
      /\ owed' = [owed EXCEPT ![t] = Reached(t, c)]
      /\ waitWord' = [waitWord EXCEPT ![t] = Reached(t, c)]
      /\ Goto(t, "report")
      /\ UNCHANGED <<generation, queue, center, region, scan, lockVars>>

\* Connection::Write: t's packet joins the buffer its neighbour reads.
Send(t, d, packet) ==
  queue' = [queue EXCEPT ![Neighbor(t, d)][OppositeDir(d)] = Append(@, packet)]

SendBefore(c, s1, s2) ==
  \/ MDistBefore(c, s1[2], s2[2])
  \/ s1[2] = s2[2] /\ SendRank(s1[1]) < SendRank(s2[1])

\* SendAtom, in the order SendRelevantAtoms goes through the window.
SendAtom(t) ==
  /\ pc[t] = "report"
  /\ \E s \in outbox[t] :
       /\ \A other \in outbox[t] \ {s} : SendBefore(center[t], s, other)
       /\ outbox' = [outbox EXCEPT ![t] = @ \ {s}]
       /\ IF IsConnected(t, s[1])
          THEN Send(t, s[1], WritePacket(generation[t], s[1],
                                GetNeighborLoc(s[1], s[2]), atoms[t][s[2]]))
          ELSE UNCHANGED queue
  /\ UNCHANGED <<atoms, generation, pc, center, region, owed, waitWord, scan, lockVars>>

\* SendEndEventPackets, one direction of it.
SendEndEventPacket(t) ==
  /\ pc[t] = "report"
  /\ outbox[t] = {}
  /\ \E d \in owed[t] :
       /\ \A other \in owed[t] : d <= other
       /\ owed' = [owed EXCEPT ![t] = @ \ {d}]
       /\ IF IsConnected(t, d)
          THEN Send(t, d, CompletePacket(generation[t], d))
          ELSE UNCHANGED queue
  /\ UNCHANGED <<atoms, generation, pc, center, region, outbox, waitWord, scan, lockVars>>

\* FlushAndWaitOnAllBuffers begins: after an event's last packet, or between
\* events, with nothing to wait for, on a tile that executes no events and on
\* any tile that is ready to pause (a pause may be asked for at any time).
StartFlush(t) ==
  /\ \/ pc[t] = "report" /\ outbox[t] = {} /\ owed[t] = {}
     \/ pc[t] = "idle"
  /\ Goto(t, "flush")
  /\ scan' = [scan EXCEPT ![t] = NextScan(t, NORTH)]
  /\ UNCHANGED <<atoms, generation, queue, center, region, lockVars, reportVars>>
-----------------------------------------------------------------------------
(* Flushing the buffers *)

\* A site followed takes an atom; what happens at the others is not followed.
Place(f, p, a) == IF p \in DOMAIN f THEN [f EXCEPT ![p] = a] ELSE f

\* Tile::PlaceAtom on a tile's copy.
PlaceAtom(t, p, a) ==
  atoms' = [atoms EXCEPT ![t] = IF IsLiveSite(t, p) THEN Place(@, p, a) ELSE @]

\* (Variant with a mistake: a completed event is not acknowledged.)
ReceivePacket_NoAck(t, d, packet) ==
  /\ IF packet.type = "WRITE" /\ packet.generation = generation[t]
     THEN PlaceAtom(t, packet.location, packet.atom)
     ELSE UNCHANGED atoms
  /\ queue' = [queue EXCEPT ![t][d] = Tail(@)]

\* ReceivePacket, after SendAcknowledgmentPacket where it calls it.
ReceivePacket(t, d, packet) ==
  LET rest == [queue EXCEPT ![t][d] = Tail(@)]
      back == OppositeDir(packet.neighbor)
  IN  /\ IF packet.type = "WRITE" /\ packet.generation = generation[t]
         THEN PlaceAtom(t, packet.location, packet.atom)
         ELSE UNCHANGED atoms
      /\ queue' = IF packet.type = "EVENT_COMPLETE"
                  THEN [rest EXCEPT ![Neighbor(t, back)][OppositeDir(back)] =
                          Append(@, AckPacket(packet.generation, back))]
                  ELSE rest

\* One packet read from the connection the pass has reached.
ReadPacket(t) ==
  LET d == scan[t]
  IN  /\ pc[t] = "flush"
      /\ d \in Dir
      /\ queue[t][d] # <<>>
      /\ ReceivePacket(t, d, Head(queue[t][d]))
      /\ waitWord' = [waitWord EXCEPT ![t] =
            IF Head(queue[t][d]).type = "EVENT_ACKNOWLEDGE" THEN @ \ {d} ELSE @]
      /\ UNCHANGED <<generation, pc, center, region, outbox, owed, scan, lockVars>>

\* Nothing (more) to read there: on to the next connection.
ScanNext(t) ==
  /\ pc[t] = "flush"
  /\ scan[t] \in Dir
  /\ queue[t][scan[t]] = <<>>
  /\ scan' = [scan EXCEPT ![t] = NextScan(t, @ + 1)]
  /\ UNCHANGED <<atoms, generation, queue, pc, center, region, lockVars, reportVars>>

\* (Variant with a mistake: one pass, whether or not all have acknowledged.)
EndPass_NoWait(t) ==
  /\ pc[t] = "flush"
  /\ scan[t] = DIR_COUNT
  /\ IF region[t] # NoDir
     THEN /\ Goto(t, "unlock")
          /\ step' = [step EXCEPT ![t] = 0]
          /\ UNCHANGED <<center, region, scan>>
     ELSE Leave(t) /\ UNCHANGED step
  /\ UNCHANGED <<atoms, generation, queue, lock, iLocked, reportVars>>

\* The end of a pass: another one while acknowledgments are missing, else the
\* flush is over, and an event goes on to UnlockRegion.  The code counts its
\* passes and FAILs at the 100000000th (Tile.tcc:911), a limit that no pass
\* reaches here.
EndPass(t) ==
  /\ pc[t] = "flush"
  /\ scan[t] = DIR_COUNT
  /\ IF waitWord[t] # {}
       THEN /\ scan' = [scan EXCEPT ![t] = NextScan(t, NORTH)]
            /\ UNCHANGED <<pc, center, region, step>>
     ELSE IF region[t] # NoDir
       THEN /\ Goto(t, "unlock")
            /\ step' = [step EXCEPT ![t] = 0]
            /\ UNCHANGED <<center, region, scan>>
     ELSE Leave(t) /\ UNCHANGED step
  /\ UNCHANGED <<atoms, generation, queue, lock, iLocked, reportVars>>

\* (Variant with a mistake: the step is not set back when all are released.)
Unlock_NoReset(t) ==
  /\ pc[t] = "unlock"
  /\ UnlockDir(t, LockDir(t))
  /\ step' = [step EXCEPT ![t] = @ + 1]
  /\ IF step[t] + 1 = LockCount(region[t])
     THEN Leave(t)
     ELSE UNCHANGED <<pc, center, region, scan>>
  /\ UNCHANGED <<atoms, generation, queue, reportVars>>

\* UnlockRegion, one connection of it.
Unlock(t) ==
  /\ pc[t] = "unlock"
  /\ UnlockDir(t, LockDir(t))
  /\ IF step[t] + 1 = LockCount(region[t])
     THEN step' = [step EXCEPT ![t] = 0] /\ Leave(t)
     ELSE step' = [step EXCEPT ![t] = @ + 1] /\ UNCHANGED <<pc, center, region, scan>>
  /\ UNCHANGED <<atoms, generation, queue, reportVars>>
-----------------------------------------------------------------------------
(* The driver, between events: the pauser stops every thread first *)

\* No tile has an event.  The pauser brings every thread to this, not further:
\* one may still be in a last pass over its buffers when the driver goes on.
Stopped == \A t \in Tiles : center[t] = NoPoint

\* Grid::Clear: every tile emptied, caches too, under a new generation.
Clear ==
  /\ Stopped
  /\ atoms' = [t \in Tiles |-> [p \in Locals(t) |-> Empty]]
  /\ generation' = [t \in Tiles |-> (generation[t] + 1) % GENERATIONS]
  /\ UNCHANGED <<queue, pc, center, region, scan, lockVars, reportVars>>

\* The neighbours Grid::PlaceAtom goes round for a site of a tile.
EditDirs(p) == IF SharedAt(p) = NoDir THEN {} ELSE LockSet(SharedAt(p))

\* (Variant with a mistake: edits the owner's copy only.)
Edit_OwnerOnly(g, a) ==
  /\ Stopped
  /\ atoms' = [atoms EXCEPT ![TileOwning(g)][SiteInTile(g)] = a]
  /\ UNCHANGED <<generation, queue, pc, center, region, scan, lockVars, reportVars>>

\* Grid::PlaceAtom: the owner, then every neighbour that caches the site.
Edit(g, a) ==
  LET owner == TileOwning(g)
      p == SiteInTile(g)
      placed == {<<owner, p>>} \cup
        {<<Neighbor(owner, d), GetNeighborLoc(d, p)>> :
           d \in {e \in EditDirs(p) : IsConnected(owner, e)}}
  IN  /\ Stopped
      /\ atoms' = [t \in Tiles |->
            [q \in Locals(t) |-> IF <<t, q>> \in placed /\ IsLiveSite(t, q)
                                  THEN a ELSE atoms[t][q]]]
      /\ UNCHANGED <<generation, queue, pc, center, region, scan, lockVars, reportVars>>
-----------------------------------------------------------------------------
\* One step of the thread of tile t.
Step(t) ==
  \/ \E g \in EventCenters : CreateRandomWindow(t, g)
  \/ TryLock(t)
  \/ LockBusy(t)
  \/ Unwind(t)
  \/ \E b \in Behaviours : Execute(t, b)
  \/ SendAtom(t)
  \/ SendEndEventPacket(t)
  \/ StartFlush(t)
  \/ ReadPacket(t)
  \/ ScanNext(t)
  \/ EndPass(t)
  \/ Unlock(t)

Next ==
  \/ \E t \in Tiles : Step(t)
  \/ Clear
  \/ \E g \in Watched, a \in Atoms : Edit(g, a)

Spec == Init /\ [][Next]_vars

\* Window choices that need no lock: a thread makes one every so often, since
\* every choice is drawn at random from all the owned sites.
ChooseUnlocked(t) ==
  \E g \in EventCenters : ~NeedsLock(t, SiteInTile(g)) /\ CreateRandomWindow(t, g)

\* Every thread keeps getting the processor and random choices are fair.  The
\* while loop that empties one buffer must also end: with weak fairness alone a
\* neighbour could finish an event and report another between any two reads of
\* it, for ever, and the pass would never get to the other neighbours.  The
\* reader is then always slower than a whole event of its neighbour, which
\* the scheduler does not keep up.
FairSpec ==
  /\ Spec
  /\ \A t \in Tiles :
       WF_vars(Step(t)) /\ SF_vars(ScanNext(t)) /\ SF_vars(ChooseUnlocked(t))
-----------------------------------------------------------------------------
(* Properties *)

\* Every variable keeps to the values of its C++ type.
TypeOK ==
  /\ DOMAIN atoms = Tiles
  /\ \A t \in Tiles : atoms[t] \in [Locals(t) -> Atoms]
  /\ generation \in [Tiles -> 0 .. GENERATIONS - 1]
  /\ lock \in [Connections -> Tiles \cup {NoTile}]
  /\ iLocked \in [Tiles -> SUBSET Dir]
  /\ pc \in [Tiles -> {"idle", "lock", "unwind", "execute", "report", "flush", "unlock"}]
  /\ center \in [Tiles -> TilePoints \cup {NoPoint}]
  /\ region \in [Tiles -> Dir \cup {NoDir}]
  /\ step \in [Tiles -> 0 .. 3]
  /\ outbox \in [Tiles -> SUBSET (Dir \X TilePoints)]
  /\ \A t \in Tiles : \A s \in outbox[t] : s[2] \in Locals(t)
  /\ owed \in [Tiles -> SUBSET Dir]
  /\ waitWord \in [Tiles -> SUBSET Dir]
  /\ scan \in [Tiles -> 0 .. DIR_COUNT]
  /\ queue \in [Tiles -> [Dir -> Seq(Packets)]]

\* No thread runs into one of the asserts and FAILs of the protocol: TryLock's
\* and UnlockDir's asserts on m_iLocked, and the FAIL of a flush that reads
\* anything but an acknowledgment from a neighbour it waits for.
AssertsHold ==
  \A t \in Tiles :
    /\ pc[t] = "lock" => LockDir(t) \notin iLocked[t]
    /\ pc[t] = "unlock" /\ IsConnected(t, LockDir(t)) => LockDir(t) \in iLocked[t]
    /\ pc[t] = "unwind" /\ IsConnected(t, LastLocked(t))
         => LastLocked(t) \in iLocked[t]
    /\ pc[t] = "flush" /\ scan[t] \in waitWord[t] /\ queue[t][scan[t]] # <<>>
         => Head(queue[t][scan[t]]).type = "EVENT_ACKNOWLEDGE"

\* Tile t has a window whose sites are its to read and change.
InEvent(t) ==
  pc[t] \in {"execute", "report", "flush"} /\ center[t] # NoPoint

\* Tile t has changed its window and its neighbours may not know yet.
Reporting(t) == pc[t] \in {"report", "flush"} /\ center[t] # NoPoint

GridWindow(t) == {ToGrid(t, p) : p \in Window(center[t])}

\* Site g is in the window of an event that tile t is reporting.
Reports(t, g) == Reporting(t) /\ Manhattan(CopyOf(t, g), center[t]) <= R

\* The connections of its region that tile t holds as far as it has got: going
\* forward through them, rewinding, or releasing them from the first on.
HeldSteps(t) ==
  IF pc[t] = "unlock" THEN step[t] .. LockCount(region[t]) - 1 ELSE 0 .. step[t] - 1

HeldDirs(t) == {LockDirAt(region[t], i) : i \in HeldSteps(t)}

\* Two events in progress at once never share a site, whichever tiles and
\* edges they are at: what LockRegion is for.
EventsExclusive ==
  \A t, u \in Tiles :
    t # u /\ InEvent(t) /\ InEvent(u) => GridWindow(t) \cap GridWindow(u) = {}

\* All the copies of a site agree, except while an event whose window has the
\* site is being reported.  An event thus starts from the latest atoms, and
\* what CheckCaches looks for in a stopped grid is not there.
CachesAgree ==
  \A g \in Watched :
    (\A t \in Tiles : ~Reports(t, g)) =>
      \A t, u \in Holders(g) : atoms[t][CopyOf(t, g)] = atoms[u][CopyOf(u, g)]

\* When no thread has an event no connection is locked and every
\* buffer is empty: the precondition the state THREADSTATE_PAUSED documents.
StoppedIsClean ==
  Stopped => /\ \A k \in Connections : lock[k] = NoTile
             /\ \A t \in Tiles, d \in Dir : queue[t][d] = <<>>

\* A buffer holds no more than one packet for every site of a window, and one
\* for its completion: events are acknowledged "to keep inter-tile buffers from
\* overflowing" (Packet.h), which Write takes for a FAIL.
BuffersFit ==
  \A t \in Tiles, d \in Dir :
    queue[t][d] # <<>> =>
      LET holder == lock[ConnectionOf(t, d)]
      IN  /\ holder # NoTile
          /\ Len(queue[t][d]) <= Cardinality(Window(center[holder]) \cap Locals(holder)) + 1

\* The first n packets of q are atoms of generation g.
Writes(q, n, g) == \A i \in 1 .. n : q[i].type = "WRITE" /\ q[i].generation = g

\* What is in the two buffers of the connection from t in direction d while t
\* waits on it: atoms sent, then the completion, and once all that is read one
\* acknowledgment coming back.
Exchange(t, d) ==
  LET out == queue[Neighbor(t, d)][OppositeDir(d)]
      in  == queue[t][d]
  IN  \/ d \in owed[t] /\ in = <<>> /\ Writes(out, Len(out), generation[t])
      \/ /\ d \notin owed[t]
         /\ in = <<>>
         /\ Len(out) > 0
         /\ out[Len(out)] = CompletePacket(generation[t], d)
         /\ Writes(out, Len(out) - 1, generation[t])
      \/ /\ d \notin owed[t]
         /\ out = <<>>
         /\ in = <<AckPacket(generation[t], OppositeDir(d))>>

Silent(t, d) ==
  queue[t][d] = <<>> /\ queue[Neighbor(t, d)][OppositeDir(d)] = <<>>

LinkOK(t, d) ==
  LET holder == lock[ConnectionOf(t, d)]
  IN  /\ d \in waitWord[t] => holder = t /\ Exchange(t, d)
      /\ holder = NoTile => Silent(t, d)
      /\ holder = t /\ d \notin waitWord[t] => Silent(t, d)

\* A connection carries packets only while a tile holds it and waits on it, and
\* then only that tile's half-finished exchange: nothing is left over for the
\* next holder to mistake for an answer, and no packet outlives its generation.
Handshake == \A t \in Tiles, d \in Dir : IsConnected(t, d) => LinkOK(t, d)

\* Each phase of an event: which of its variables are in use, and how many
\* connections the thread has got to.
EventOK(t) ==
  /\ pc[t] = "idle" => center[t] = NoPoint
  /\ center[t] = NoPoint => pc[t] \in {"idle", "flush"} /\ region[t] = NoDir
                            /\ waitWord[t] = {}
  /\ center[t] # NoPoint =>
       /\ center[t] \in OwnedPoints
       /\ region[t] = IF NeedsLock(t, center[t]) THEN VisibleAt(center[t]) ELSE NoDir
  /\ pc[t] \in {"lock", "unwind", "unlock"} => region[t] # NoDir
  /\ region[t] = NoDir => step[t] = 0
  /\ pc[t] \in {"lock", "unlock"} => step[t] \in 0 .. LockCount(region[t]) - 1
  /\ pc[t] = "unwind" => step[t] \in 1 .. LockCount(region[t]) - 1
  /\ pc[t] \in {"execute", "report", "flush"} /\ region[t] # NoDir
       => step[t] = LockCount(region[t])
  /\ pc[t] # "report" => outbox[t] = {} /\ owed[t] = {}
  /\ pc[t] \notin {"report", "flush"} => waitWord[t] = {}
  /\ owed[t] \subseteq waitWord[t]
  /\ \A s \in outbox[t] : s[1] \in owed[t]
  /\ \A d \in waitWord[t] : d \in HeldDirs(t) /\ IsConnected(t, d)

EventInv == \A t \in Tiles : EventOK(t)

\* A tile's m_iLocked are the connections its phase says it holds.
HeldInv == \A t \in Tiles : iLocked[t] = {d \in HeldDirs(t) : IsConnected(t, d)}

\* A connection is locked by the one of its ends that has it in m_iLocked.
OwnerInv ==
  /\ \A t \in Tiles, d \in Dir :
       IsConnected(t, d) => (lock[ConnectionOf(t, d)] = t <=> d \in iLocked[t])
  /\ \A k \in Connections : lock[k] \in k \cup {NoTile}

\* No packet waits where there is no connection.
NoStrays == \A t \in Tiles, d \in Dir : queue[t][d] # <<>> => IsConnected(t, d)

\* The inductive invariant that the proofs use.
IInv == TypeOK /\ EventInv /\ HeldInv /\ OwnerInv /\ Handshake /\ NoStrays

\* From the choice of a window until its tile gives up the last of its locks,
\* nothing but the event's own behaviour changes the tile's copy of it: neither
\* packets the tile takes in meanwhile nor the driver.  And as long as the
\* event is in progress, from the last lock taken to the last acknowledgment,
\* no other tile's copy of one of those sites changes but to the window's atom.
WindowUndisturbed ==
  [][\A t \in Tiles : center[t] # NoPoint /\ center'[t] = center[t] =>
       \A p \in Window(center[t]) \cap Locals(t) :
         /\ ~(pc[t] = "execute" /\ pc'[t] = "report") => atoms'[t][p] = atoms[t][p]
         /\ InEvent(t) =>
              \A u \in Holders(ToGrid(t, p)) \ {t} :
                LET q == CopyOf(u, ToGrid(t, p))
                IN  atoms'[u][q] \in {atoms[u][q], atoms[t][p]}]_vars

\* A connection that is locked is eventually released, however the tiles'
\* events overlap.
LocksReleased ==
  \A k \in Connections : lock[k] # NoTile ~> lock[k] = NoTile
-----------------------------------------------------------------------------
(* The tiles implement one grid of sites *)

\* A site as the grid has it: in the window of an event being reported, that
\* tile's copy; else its owner's.
SharedView ==
  [g \in Watched |->
     LET t == IF \E u \in Tiles : Reports(u, g)
              THEN CHOOSE u \in Tiles : Reports(u, g)
              ELSE TileOwning(g)
     IN  atoms[t][CopyOf(t, g)]]

EventsIn(phases) ==
  {ToGrid(t, center[t]) : t \in {u \in Tiles : InEvent(u) /\ pc[u] \in phases}}

Grid == INSTANCE SharedGrid WITH
          Sites <- Watched, Centers <- EventCenters, shared <- SharedView,
          begun <- EventsIn({"execute"}), done <- EventsIn({"report", "flush"})

\* An event of a tile is an event of the one grid: its window is apart from
\* every other event's, it reads the latest atom of every site, and its whole
\* window changes at once, as far as any later event can tell.
ImplementsSharedGrid == Grid!Spec
=============================================================================
