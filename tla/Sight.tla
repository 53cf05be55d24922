-------------------------------- MODULE Sight --------------------------------
(***************************************************************************)
(* What the clients show of what is around them: the blocks of a map        *)
(* (map.cpp), the packets to everybody in an area (clif_send) and about      *)
(* what comes into and goes out of sight (clif_pcinsight, clif_pcoutsight),  *)
(* and the walks, warps, deaths and commands that send them.                 *)
(*                                                                          *)
(* shown[p] is the beings of which p's client has last been told that they  *)
(* are there.  Where on its screen it puts them, how they look and what they *)
(* do is left out.  A client forgets all beings when it changes the map.     *)
(***************************************************************************)
EXTENDS Integers, FiniteSets

CONSTANTS
    Players, Mobs, Npcs, Items,
    Maps, Xs(_), Ys(_),     \* map_local::xs, ys
    Unwalkable,             \* cells
    AREA_SIZE, BLOCK_SIZE,
    SavePoint, Destinations,  \* bound: the cells of @load, and those that warps lead to
    Groups                  \* bound: the beings that there are in a run, one of these sets

Beings == Players \cup Mobs \cup Npcs \cup Items

VARIABLES
    bl,         \* bl_m, bl_x, bl_y of each being
    linked,     \* those with a bl_prev: they are in the blocks of their map
    session,    \* "none", "loading" (until LoadEndAck), "loaded", "leaving" (for another server)
    walking,    \* players with a walktimer
    unseen,     \* Opt0::INVISIBILITY of players, flag & 1 of NPCs
    shown,      \* what the client of each player shows
    early,      \* history: players who walked, sat, were warped or of whom something was
                \* told while they were in no block
    kinds       \* the member of Groups

vars == << bl, linked, session, walking, unseen, shown, early, kinds >>

Cells == UNION {[m : {m}, x : 0 .. Xs(m) - 1, y : 0 .. Ys(m) - 1] : m \in Maps}
Walkable == Cells \ Unwalkable
Nowhere == CHOOSE c \in Walkable : TRUE   \* the place of what is not there
Steps == {d \in (-1 .. 1) \X (-1 .. 1) : d # << 0, 0 >>}

ASSUME SightAssumption ==
    /\ Players \cap (Mobs \cup Npcs \cup Items) = {} /\ Npcs \cap (Mobs \cup Items) = {}
    /\ \A m \in Maps : Xs(m) \in Nat \ {0} /\ Ys(m) \in Nat \ {0}
    /\ Groups \subseteq SUBSET Beings
    /\ AREA_SIZE \in Nat \ {0} /\ BLOCK_SIZE \in Nat \ {0}
    /\ Unwalkable \subseteq Cells
    /\ Destinations \cup {SavePoint} \subseteq Walkable

Abs(n) == IF n < 0 THEN -n ELSE n

-----------------------------------------------------------------------------
(* Who is told. *)

InArea(c, b) ==
    /\ c.m = b.m
    /\ Abs(c.x - b.x) <= AREA_SIZE /\ Abs(c.y - b.y) <= AREA_SIZE

\* map_foreachinarea around c, for players
Around(c) == {p \in Players \cap linked : InArea(c, bl[p])}

\* clif_send to AREA or AREA_WOS: nobody hears of who is invisible.
Told(b) == IF b \in Players \cap unseen THEN {} ELSE Around(bl[b]) \ {b}

Show(view, ps, b) == [p \in Players |-> IF p \in ps THEN view[p] \cup {b} ELSE view[p]]
Clear(view, ps, b) == [p \in Players |-> IF p \in ps THEN view[p] \ {b} ELSE view[p]]

\* map_foreachinmovearea: what is in sight from c, and not any more one step further.
\* For a diagonal step the corner is first cut to the map, and the rows and columns
\* that go out of sight are counted from there.
InMoveArea(c, dx, dy, b) ==
    LET x0 == IF c.x < AREA_SIZE THEN 0 ELSE c.x - AREA_SIZE
        y0 == IF c.y < AREA_SIZE THEN 0 ELSE c.y - AREA_SIZE
        x1 == IF c.x + AREA_SIZE >= Xs(c.m) THEN Xs(c.m) - 1 ELSE c.x + AREA_SIZE
        y1 == IF c.y + AREA_SIZE >= Ys(c.m) THEN Ys(c.m) - 1 ELSE c.y + AREA_SIZE
    IN  /\ InArea(c, b)
        /\ IF dx = 0 \/ dy = 0
           THEN b.x = c.x - dx * AREA_SIZE \/ dy # 0
           ELSE \/ dx > 0 /\ b.x < x0 + dx
                \/ dx < 0 /\ b.x > x1 + dx
                \/ dy > 0 /\ b.y < y0 + dy
                \/ dy < 0 /\ b.y > y1 + dy
        /\ dx = 0 => b.y = c.y - dy * AREA_SIZE

\* clif_pcoutsight for all of bs: players lose sight of each other.
OutOfSight(view, p, bs) ==
    [q \in Players |-> IF q = p THEN view[q] \ bs ELSE IF q \in bs THEN view[q] \ {p} ELSE view[q]]

\* clif_pcinsight for all of bs: each sees the other, unless it is invisible.
IntoSight(view, p, bs) ==
    [q \in Players |->
        IF q = p THEN view[q] \cup (bs \ unseen)
        ELSE IF q \in bs /\ p \notin unseen THEN view[q] \cup {p} ELSE view[q]]

Blocked(c) == << c.m, c.x \div BLOCK_SIZE, c.y \div BLOCK_SIZE >>

-----------------------------------------------------------------------------
Init ==
    /\ kinds \in Groups
    /\ bl = [b \in Beings |-> Nowhere]
    /\ linked = {} /\ walking = {} /\ unseen = {} /\ early = {}
    /\ session = [p \in Players |-> "none"]
    /\ shown = [p \in Players |-> {}]

-----------------------------------------------------------------------------
(* Players. *)

Here(p) == p \in kinds /\ session[p] \in {"loading", "loaded"}

\* clif_parse_WantToConnection, pc_authok, with pc_setpos before any map is loaded
Login(p, c, invisible) ==
    /\ p \in kinds /\ session[p] = "none"
    /\ session' = [session EXCEPT ![p] = "loading"]
    /\ bl' = [bl EXCEPT ![p] = c]
    /\ unseen' = IF invisible THEN unseen \cup {p} ELSE unseen \ {p}
    /\ shown' = [shown EXCEPT ![p] = {}]
    /\ UNCHANGED << linked, walking, early, kinds >>

\* map_quit
MapQuit(p) ==
    /\ session[p] # "none"
    /\ session' = [session EXCEPT ![p] = "none"]
    /\ shown' = [Clear(shown, Told(p), p) EXCEPT ![p] = {}]
    /\ linked' = linked \ {p}
    /\ walking' = walking \ {p}
    /\ bl' = [bl EXCEPT ![p] = Nowhere]
    /\ unseen' = unseen \ {p}
    /\ UNCHANGED << early, kinds >>

\* A mistake for LoadEndAck: the others are told before the player is in the blocks,
\* and what is around is looked for among players only.
LoadEndAckAlone(p) ==
    /\ Here(p) /\ p \notin linked
    /\ session' = [session EXCEPT ![p] = "loaded"]
    /\ linked' = linked \cup {p}
    /\ shown' = Show(shown, Told(p), p)
    /\ UNCHANGED << bl, walking, unseen, early, kinds >>
\* clif_parse_LoadEndAck: map_addblock, clif_spawnpc, and clif_getareachar of all that
\* is around.  A client that is in the blocks already is closed.
LoadEndAck(p) ==
    /\ Here(p) /\ p \notin linked
    /\ session' = [session EXCEPT ![p] = "loaded"]
    /\ linked' = linked \cup {p}
    /\ shown' = IntoSight(shown, p, {b \in linked \ {p} : InArea(bl[p], bl[b])})
    /\ UNCHANGED << bl, walking, unseen, early, kinds >>

\* A mistake for SetPos: the others are told after the move.
SetPosFirst(ps, c) ==
    /\ \A p \in ps : Here(p)
    /\ bl' = [b \in Beings |-> IF b \in ps THEN c ELSE bl[b]]
    /\ shown' = [q \in Players |->
          IF q \in ps \cap linked THEN {}
          ELSE IF q \in Around(c) THEN shown[q] \ ((ps \cap linked) \ unseen) ELSE shown[q]]
    /\ linked' = linked \ ps
    /\ walking' = walking \ ps
    /\ session' = [p \in Players |-> IF p \in ps THEN "loading" ELSE session[p]]
    /\ early' = early \cup (ps \ linked)
    /\ UNCHANGED << unseen, kinds >>
\* pc_setpos of all of ps to a map of this server: who is not in the blocks is told
\* nothing, and nothing is told of who is not in the blocks.  (A player who waits to
\* leave for another server can be warped as well, of which nobody hears.)
SetPos(ps, c) ==
    /\ \A p \in ps : Here(p)
    /\ bl' = [b \in Beings |-> IF b \in ps THEN c ELSE bl[b]]
    /\ shown' = [q \in Players |->
          IF q \in ps \cap linked THEN {} ELSE shown[q] \ {p \in ps \cap linked : q \in Told(p)}]
    /\ linked' = linked \ ps
    /\ walking' = walking \ ps
    /\ session' = [p \in Players |-> IF p \in ps THEN "loading" ELSE session[p]]
    /\ early' = early \cup (ps \ linked)
    /\ UNCHANGED << unseen, kinds >>

\* @jump, within the map; builtin_warp and @warp; @charwarp; @load
Jump(p, c) == c.m = bl[p].m /\ SetPos({p}, c)
Warp(p, c) == c \in Destinations /\ SetPos({p}, c)
CharWarp(sd, pl_sd, c) == Here(sd) /\ sd # pl_sd /\ Warp(pl_sd, c)
Load(p) == SetPos({p}, SavePoint)

\* @goto to who is not hidden, @npc, and @recall
Goto(sd, pl_sd) == Here(pl_sd) /\ sd # pl_sd /\ SetPos({sd}, bl[pl_sd])
GotoNpc(p, nd) == nd \in linked /\ SetPos({p}, bl[nd])
Recall(sd, pl_sd) == Here(sd) /\ sd # pl_sd /\ SetPos({pl_sd}, bl[sd])

\* @recallall: everybody else of a lower level
RecallAll(sd) ==
    \E ps \in SUBSET ({p \in Players : Here(p)} \ {sd}) : ps # {} /\ Here(sd) /\ SetPos(ps, bl[sd])

\* builtin_mapwarp and builtin_areawarp: everybody in the blocks of a map
MapWarp(m, c) == SetPos({p \in Players \cap linked : bl[p].m = m}, c)

\* pc_setpos on a map of another server: the session waits to be closed, and its
\* packets are thrown away.  bl_m stays, bl_x and bl_y become those of the other map.
SetPosRemote(p, c) ==
    /\ Here(p) /\ c.m = bl[p].m
    /\ shown' = Clear(shown, Told(p), p)
    /\ linked' = linked \ {p}
    /\ walking' = walking \ {p}
    /\ session' = [session EXCEPT ![p] = "leaving"]
    /\ bl' = [bl EXCEPT ![p] = c]
    /\ UNCHANGED << unseen, early, kinds >>

\* pc_invisibility: the player who appears again does so by a warp to the same cell.
Disappear(p) ==
    /\ Here(p) /\ p \notin unseen
    /\ shown' = Clear(shown, Told(p), p)
    /\ unseen' = unseen \cup {p}
    /\ UNCHANGED << bl, linked, session, walking, early, kinds >>
Appear(p) ==
    /\ Here(p) /\ p \in unseen
    /\ unseen' = unseen \ {p}
    /\ shown' = IF p \in linked THEN [Clear(shown, Around(bl[p]) \ {p}, p) EXCEPT ![p] = {}] ELSE shown
    /\ linked' = linked \ {p}
    /\ walking' = walking \ {p}
    /\ session' = [session EXCEPT ![p] = "loading"]
    /\ early' = IF p \in linked THEN early ELSE early \cup {p}
    /\ UNCHANGED << bl, kinds >>

\* A packet to the area says where p is, and nothing asks whether p is in the blocks.
Located(p) ==
    /\ shown' = Show(shown, Told(p), p)
    /\ early' = IF p \in linked THEN early ELSE early \cup {p}
    /\ UNCHANGED << bl, linked, session, unseen, kinds >>

\* clif_parse_WalkToXY, also of who walks: pc_walktoxy_sub, clif_movechar
StartWalking(p) == Here(p) /\ walking' = walking \cup {p} /\ Located(p)

\* pc_stop_walking with the first bit of its type set, of who walks or not: clif_fixpos.
\* A request to sit does so, damage, an attack, and a walk that may not go on.
StopWalking(p) == session[p] # "none" /\ walking' = walking \ {p} /\ Located(p)

\* clif_fixpcpos: another sex or game master level, or an attack spell, is shown.
FixPcPos(p) == session[p] # "none" /\ walking' = walking /\ Located(p)

\* The walk ends at its goal, or by pc_stop_walking without a word.
Arrive(p) ==
    /\ p \in walking
    /\ walking' = walking \ {p}
    /\ UNCHANGED << bl, linked, session, unseen, shown, early, kinds >>

\* pc_walk, as far as the next cell: map_addblock puts who crosses the border of a block
\* into the blocks, whether or not it was there.
Walk(p, dx, dy) ==
    LET c == [bl[p] EXCEPT !.x = @ + dx, !.y = @ + dy]
        Others(from, a, b) == {o \in linked \ {p} : InMoveArea(from, a, b, bl[o])}
    IN  /\ p \in walking /\ c \in Walkable
        /\ bl' = [bl EXCEPT ![p] = c]
        /\ shown' = IntoSight(OutOfSight(shown, p, Others(bl[p], dx, dy)), p, Others(c, -dx, -dy))
        /\ linked' = IF Blocked(c) # Blocked(bl[p]) THEN linked \cup {p} ELSE linked
        /\ UNCHANGED << session, walking, unseen, early, kinds >>

-----------------------------------------------------------------------------
(* Monsters, NPCs and items. *)

UnchangedPlayers == UNCHANGED << session, walking, early, kinds >>

\* mob_spawn of a dead mob, map_addflooritem, and the NPCs of scripts and of
\* builtin_puppet: map_addblock, and a packet to all around
Placed(b, c) ==
    /\ b \in kinds \ linked
    /\ bl' = [bl EXCEPT ![b] = c]
    /\ linked' = linked \cup {b}
    /\ shown' = Show(shown, Around(c), b)
    /\ UnchangedPlayers

MobSpawn(md, c) == md \in Mobs /\ Placed(md, c) /\ UNCHANGED unseen
AddFloorItem(fitem, c) == fitem \in Items /\ Placed(fitem, c) /\ UNCHANGED unseen
Puppet(nd, c) == nd \in Npcs /\ Placed(nd, c) /\ unseen' = unseen \ {nd}

Removed(b) ==
    /\ b \in linked
    /\ shown' = Clear(shown, Around(bl[b]), b)
    /\ linked' = linked \ {b}
    /\ bl' = [bl EXCEPT ![b] = Nowhere]
    /\ unseen' = unseen \ {b}
    /\ UnchangedPlayers

\* mob_damage, mob_delete and mob_catch_delete; map_clearflooritem, and
\* builtin_getareadropitem, which deletes what it counts; npc_free
MobDelete(md) == md \in Mobs /\ Removed(md)
ClearFloorItem(fitem) == fitem \in Items /\ Removed(fitem)
NpcFree(nd) == nd \in Npcs /\ Removed(nd)

\* mob_walk
MobWalk(md, dx, dy) ==
    LET c == [bl[md] EXCEPT !.x = @ + dx, !.y = @ + dy]
        Watching(from, a, b) == {p \in Players \cap linked : InMoveArea(from, a, b, bl[p])}
    IN  /\ md \in linked /\ c \in Walkable
        /\ bl' = [bl EXCEPT ![md] = c]
        /\ shown' = Show(Clear(shown, Watching(bl[md], dx, dy), md), Watching(c, -dx, -dy), md)
        /\ UNCHANGED << linked, unseen >>
        /\ UnchangedPlayers

\* mob_walktoxy_sub, mob_stop_walking: clif_movemob, clif_fixmobpos
MobFixPos(md) ==
    /\ md \in linked
    /\ shown' = Show(shown, Around(bl[md]), md)
    /\ UNCHANGED << bl, linked, unseen >>
    /\ UnchangedPlayers

\* mob_warp
MobWarp(md, c) ==
    /\ md \in linked
    /\ bl' = [bl EXCEPT ![md] = c]
    /\ shown' = Show(Clear(shown, Around(bl[md]), md), Around(c), md)
    /\ UNCHANGED << linked, unseen >>
    /\ UnchangedPlayers

\* mob_ai_sub_lazy: without players on its map, a mob moves without a packet.
LazyWarp(md, c) ==
    /\ md \in linked /\ c.m = bl[md].m
    /\ ~\E p \in Players \cap linked : bl[p].m = bl[md].m
    /\ bl' = [bl EXCEPT ![md] = c]
    /\ UNCHANGED << linked, unseen, shown >>
    /\ UnchangedPlayers

\* npc_enable
NpcDisable(nd) ==
    /\ nd \in linked \ unseen
    /\ shown' = Clear(shown, Around(bl[nd]), nd)
    /\ unseen' = unseen \cup {nd}
    /\ UNCHANGED << bl, linked >>
    /\ UnchangedPlayers
NpcEnable(nd) ==
    /\ nd \in linked
    /\ unseen' = unseen \ {nd}
    /\ shown' = Show(shown, Around(bl[nd]), nd)
    /\ UNCHANGED << bl, linked >>
    /\ UnchangedPlayers

\* builtin_npcwarp and builtin_npcareawarp: disabled, moved and enabled
NpcWarp(nd, c) ==
    /\ nd \in linked /\ c.m = bl[nd].m
    /\ bl' = [bl EXCEPT ![nd] = c]
    /\ unseen' = unseen \ {nd}
    /\ shown' = Show(IF nd \in unseen THEN shown ELSE Clear(shown, Around(bl[nd]), nd), Around(c), nd)
    /\ UNCHANGED linked
    /\ UnchangedPlayers

-----------------------------------------------------------------------------
\* @npcmove, to a cell of the map (it takes any), and builtin_fakenpcname
NpcMove(nd, c) == c \in Destinations /\ NpcWarp(nd, c)
FakeNpcName(nd) == NpcWarp(nd, bl[nd])

-----------------------------------------------------------------------------
PlayerStep(p) ==
    \/ \E c \in Walkable, invisible \in BOOLEAN : Login(p, c, invisible)
    \/ \E c \in Walkable : Jump(p, c)
    \/ \E c \in Destinations : Warp(p, c)
    \/ \E q \in Players :
          \/ Goto(p, q) \/ Recall(p, q)
          \/ \E c \in Destinations : CharWarp(p, q, c)
    \/ \E nd \in Npcs : GotoNpc(p, nd)
    \/ Load(p) \/ RecallAll(p)
    \/ \E d \in Steps : Walk(p, d[1], d[2])
    \/ \E c \in Destinations : SetPosRemote(p, c)
    \/ MapQuit(p) \/ LoadEndAck(p)
    \/ Disappear(p) \/ Appear(p)
    \/ StartWalking(p) \/ StopWalking(p) \/ FixPcPos(p) \/ Arrive(p)

MobStep(md) ==
    \/ \E c \in Walkable : MobSpawn(md, c) \/ MobWarp(md, c) \/ LazyWarp(md, c)
    \/ \E d \in Steps : MobWalk(md, d[1], d[2])
    \/ MobFixPos(md) \/ MobDelete(md)

NpcStep(nd) ==
    \/ \E c \in Walkable : Puppet(nd, c) \/ NpcWarp(nd, c)
    \/ \E c \in Destinations : NpcMove(nd, c)
    \/ NpcDisable(nd) \/ NpcEnable(nd) \/ FakeNpcName(nd) \/ NpcFree(nd)

Next ==
    \/ \E p \in Players : PlayerStep(p)
    \/ \E md \in Mobs : MobStep(md)
    \/ \E nd \in Npcs : NpcStep(nd)
    \/ \E fitem \in Items :
          \/ \E c \in Walkable : AddFloorItem(fitem, c)
          \/ ClearFloorItem(fitem)
    \/ \E m \in Maps, c \in Destinations : MapWarp(m, c)

Spec == Init /\ [][Next]_vars

-----------------------------------------------------------------------------
(* What must hold. *)

Visible(p, b) == b \in linked \ unseen /\ InArea(bl[p], bl[b])
NearBorder(c) ==
    \/ c.x < AREA_SIZE \/ c.x + AREA_SIZE >= Xs(c.m)
    \/ c.y < AREA_SIZE \/ c.y + AREA_SIZE >= Ys(c.m)
Settled == {p \in Players : session[p] = "loaded"} \ early

TypeOK ==
    /\ \A b \in Beings : bl[b] \in Cells
    /\ linked \subseteq Beings /\ walking \subseteq Players /\ unseen \subseteq Players \cup Npcs
    /\ \A p \in Players : shown[p] \subseteq kinds \ {p}

(* A client that has loaded shows nothing that is not there: whoever walked   *)
(* out of its sight, left, warped, died, was taken or became invisible, in    *)
(* whatever order the two of them moved, is not on its screen.  Not so for    *)
(* players who walked, sat, were warped or changed while their own client     *)
(* still loaded, or waited to leave: of them packets are sent that say where  *)
(* they are although they are in no block, and nobody hears when they go.     *)
NothingOfTheGone ==
    \A p \in Settled : \A b \in shown[p] \ early : Visible(p, b)

(* Whoever comes into the area of a client that has loaded, by a step, a warp  *)
(* or otherwise, is shown, and nobody in the area is lost, unless one of the    *)
(* two is so near the border of the map that diagonal steps hide what is still  *)
(* in sight.                                                                    *)
Missed(p, b) ==
    /\ b \in linked \ shown[p] /\ b # p /\ session[p] = "loaded"
    /\ Visible(p, b) /\ p \notin early /\ b \notin early
NobodyIsMissed ==
    [][\A p \in Players, b \in Beings :
          Missed(p, b)' => Missed(p, b) \/ \E c \in {bl[p], bl[b], bl'[p], bl'[b]} : NearBorder(c)]_vars
=============================================================================
