---------------------------- MODULE Sight_proofs ----------------------------
(***************************************************************************)
(* Proofs about Sight for any maps, beings, areas and blocks: a client     *)
(* that has loaded shows nothing that is gone, and away from the borders   *)
(* of the map nobody is missed.                                            *)
(***************************************************************************)
EXTENDS Sight, TLAPS

Types ==
    /\ kinds \in SUBSET Beings
    /\ bl \in [Beings -> Cells]
    /\ linked \in SUBSET kinds
    /\ walking \in SUBSET (Players \cap kinds)
    /\ unseen \in SUBSET (Players \cup Npcs)
    /\ early \in SUBSET Players
    /\ session \in [Players -> {"none", "loading", "loaded", "leaving"}]
    /\ shown \in [Players -> SUBSET Beings]
    /\ \A p \in Players : shown[p] \subseteq kinds \ {p}

\* Who is in the blocks, in each state of the session.  A client that loads shows
\* nothing yet, unless its player walks before that.
OneSession(p) ==
    /\ session[p] = "loaded" => p \in linked
    /\ session[p] = "loading" => p \in early \/ (p \notin linked /\ shown[p] = {})
    /\ session[p] \in {"none", "leaving"} => p \notin linked /\ p \notin walking
    /\ p \in walking => p \in linked \cup early
    /\ session[p] # "none" => p \in kinds

IInv ==
    /\ Types
    /\ \A p \in Players : OneSession(p)
    /\ NothingOfTheGone

\* NobodyIsMissed, of one step
NobodyLost ==
    \A p \in Players, b \in Beings :
        Missed(p, b)' => Missed(p, b) \/ \E c \in {bl[p], bl[b], bl'[p], bl'[b]} : NearBorder(c)

Kept == IInv' /\ NobodyLost

-----------------------------------------------------------------------------
(* Areas. *)

LEMMA CellIs ==
    ASSUME NEW c \in Cells
    PROVE  /\ c.m \in Maps /\ c.x \in Nat /\ c.y \in Nat
           /\ Xs(c.m) \in Nat /\ Ys(c.m) \in Nat
           /\ c.x < Xs(c.m) /\ c.y < Ys(c.m)
           /\ c = [m |-> c.m, x |-> c.x, y |-> c.y]
<1>1. PICK m \in Maps : c \in [m : {m}, x : 0 .. Xs(m) - 1, y : 0 .. Ys(m) - 1]
      BY DEF Cells
<1>2. Xs(m) \in Nat /\ Ys(m) \in Nat
      BY SightAssumption
<1> QED BY <1>1, <1>2

LEMMA SetX ==
    ASSUME NEW m, NEW x, NEW y, NEW u
    PROVE  [[m |-> m, x |-> x, y |-> y] EXCEPT !.x = u] = [m |-> m, x |-> u, y |-> y]
OBVIOUS

LEMMA SetY ==
    ASSUME NEW m, NEW x, NEW y, NEW u
    PROVE  [[m |-> m, x |-> x, y |-> y] EXCEPT !.y = u] = [m |-> m, x |-> x, y |-> u]
OBVIOUS

Moved(c, dx, dy) == [c EXCEPT !.x = @ + dx, !.y = @ + dy]

LEMMA NextCell ==
    ASSUME NEW c \in Cells, NEW dx, NEW dy
    PROVE  Moved(c, dx, dy) = [m |-> c.m, x |-> c.x + dx, y |-> c.y + dy]
<1> DEFINE m == c.m  x == c.x  y == c.y  u == c.x + dx  v == c.y + dy
           halfway == [c EXCEPT !.x = u]
<1>1. c = [m |-> m, x |-> x, y |-> y]
      BY CellIs
<1>2. halfway = [m |-> m, x |-> u, y |-> y]
  <2> HIDE DEF m, x, y, u
  <2> QED BY <1>1, SetX
<1>3. [halfway EXCEPT !.y = v] = [m |-> m, x |-> u, y |-> v]
  <2> HIDE DEF m, x, y, u, v, halfway
  <2> QED BY <1>2, SetY
<1> QED BY <1>3 DEF Moved

LEMMA SameArea ==
    ASSUME NEW c \in Cells, NEW b \in Cells
    PROVE  InArea(c, b) <=> InArea(b, c)
<1>1. c.x \in Nat /\ c.y \in Nat /\ b.x \in Nat /\ b.y \in Nat
      BY CellIs
<1>2. AREA_SIZE \in Nat
      BY SightAssumption
<1> QED BY <1>1, <1>2 DEF InArea, Abs

Adjacent(c, dx, dy, d) ==
    /\ c \in Cells /\ d \in Cells /\ dx \in -1 .. 1 /\ dy \in -1 .. 1 /\ (dx # 0 \/ dy # 0)
    /\ d.m = c.m /\ d.x = c.x + dx /\ d.y = c.y + dy

\* What a step leaves behind goes out of sight; away from the border, nothing else does.
LEMMA OutOfMoveArea ==
    ASSUME NEW c, NEW b \in Cells, NEW d, NEW dx, NEW dy, Adjacent(c, dx, dy, d)
    PROVE  /\ InArea(c, b) /\ ~InArea(d, b) => InMoveArea(c, dx, dy, b)
           /\ InMoveArea(c, dx, dy, b) => InArea(c, b)
           /\ InMoveArea(c, dx, dy, b) /\ ~NearBorder(c) => ~InArea(d, b)
<1>1. /\ c.x \in Nat /\ c.y \in Nat /\ b.x \in Nat /\ b.y \in Nat
      /\ b.x < Xs(b.m) /\ b.y < Ys(b.m) /\ Xs(b.m) \in Nat /\ Ys(b.m) \in Nat
      BY CellIs DEF Adjacent
<1>0. d.m = c.m /\ d.x = c.x + dx /\ d.y = c.y + dy
      BY DEF Adjacent
<1>2. AREA_SIZE \in Nat /\ AREA_SIZE > 0
      BY SightAssumption
<1>3. dx \in {-1, 0, 1} /\ dy \in {-1, 0, 1} /\ ~(dx = 0 /\ dy = 0)
      BY DEF Adjacent
<1>4. 0 * AREA_SIZE = 0 /\ 1 * AREA_SIZE = AREA_SIZE /\ (-1) * AREA_SIZE = -AREA_SIZE
      BY <1>2
<1>6. InMoveArea(c, dx, dy, b) => InArea(c, b)
      BY DEF InMoveArea
<1>7. ASSUME InArea(c, b), ~InArea(d, b) PROVE InMoveArea(c, dx, dy, b)
  <2>1. CASE dx = 0
    <3>1. c.x = d.x /\ dy \in {-1, 1}
          BY <1>0, <1>1, <1>3, <2>1
    <3>2. Abs(c.y - b.y) <= AREA_SIZE /\ ~(Abs(c.y + dy - b.y) <= AREA_SIZE)
          BY <1>0, <1>1, <1>3, <1>7, <3>1 DEF InArea
    <3>3. b.y = c.y - dy * AREA_SIZE
      <4>1. CASE dy = 1
            BY <1>0, <1>1, <1>2, <1>4, <3>2, <4>1 DEF Abs
      <4>2. CASE dy = -1
        <5>1. b.y = c.y + AREA_SIZE
              BY <1>0, <1>1, <1>2, <3>2, <4>2 DEF Abs
        <5>2. dy * AREA_SIZE = -AREA_SIZE
              BY <1>4, <4>2
        <5> QED BY <1>0, <1>1, <1>2, <5>1, <5>2
      <4> QED BY <3>1, <4>1, <4>2
    <3> QED BY <1>7, <2>1, <3>1, <3>3 DEF InMoveArea
  <2>2. CASE dy = 0
    <3>1. c.y = d.y /\ dx \in {-1, 1}
          BY <1>0, <1>1, <1>3, <2>2
    <3>2. Abs(c.x - b.x) <= AREA_SIZE /\ ~(Abs(c.x + dx - b.x) <= AREA_SIZE)
          BY <1>0, <1>1, <1>3, <1>7, <3>1 DEF InArea
    <3>3. b.x = c.x - dx * AREA_SIZE
      <4>1. CASE dx = 1
            BY <1>0, <1>1, <1>2, <1>4, <3>2, <4>1 DEF Abs
      <4>2. CASE dx = -1
            BY <1>0, <1>1, <1>2, <1>4, <3>2, <4>2 DEF Abs
      <4> QED BY <3>1, <4>1, <4>2
    <3> QED BY <1>7, <2>2, <3>1, <3>3 DEF InMoveArea
  <2>3. CASE dx # 0 /\ dy # 0
        BY <1>0, <1>1, <1>2, <1>3, <1>7, <2>3 DEF InMoveArea, InArea, Abs
  <2> QED BY <2>1, <2>2, <2>3
<1>8. ASSUME InMoveArea(c, dx, dy, b), ~NearBorder(c) PROVE ~InArea(d, b)
  <2>1. CASE dx = 0
        BY <1>0, <1>1, <1>2, <1>3, <1>4, <1>8, <2>1 DEF InMoveArea, InArea, Abs
  <2>2. CASE dy = 0
        BY <1>0, <1>1, <1>2, <1>3, <1>4, <1>8, <2>2 DEF InMoveArea, InArea, Abs
  <2>3. CASE dx # 0 /\ dy # 0
        BY <1>0, <1>1, <1>2, <1>3, <1>8, <2>3 DEF InMoveArea, InArea, Abs, NearBorder
  <2> QED BY <2>1, <2>2, <2>3
<1> QED BY <1>6, <1>7, <1>8

\* One step away from a: what is seen from there and not from a comes into sight, what is
\* seen from a only goes out of it.
LEMMA NextArea ==
    ASSUME NEW a \in Cells, NEW d \in Steps, NEW b \in Cells, Moved(a, d[1], d[2]) \in Cells
    PROVE  LET c == Moved(a, d[1], d[2])
               out == InMoveArea(a, d[1], d[2], b)
               into == InMoveArea(c, -d[1], -d[2], b)
           IN  /\ InArea(a, b) /\ ~InArea(c, b) => out
               /\ into => InArea(c, b)
               /\ InArea(c, b) /\ ~into => InArea(a, b)
               /\ out /\ InArea(c, b) => NearBorder(a)
<1> DEFINE c == Moved(a, d[1], d[2])
<1>1. /\ d[1] \in -1 .. 1 /\ d[2] \in -1 .. 1 /\ (d[1] # 0 \/ d[2] # 0)
      BY DEF Steps
<1>2. /\ -d[1] \in -1 .. 1 /\ -d[2] \in -1 .. 1 /\ (-d[1] # 0 \/ -d[2] # 0)
  <2>1. d[1] # 0 \/ d[2] # 0
        BY <1>1
  <2> QED BY <1>1, <2>1
<1>3. /\ c.m = a.m /\ c.x = a.x + d[1] /\ c.y = a.y + d[2]
      /\ a.x = c.x + (-d[1]) /\ a.y = c.y + (-d[2])
  <2>1. c = [m |-> a.m, x |-> a.x + d[1], y |-> a.y + d[2]]
        BY NextCell
  <2>2. a.x \in Nat /\ a.y \in Nat
        BY CellIs
  <2> HIDE DEF c
  <2>3. c.m = a.m /\ c.x = a.x + d[1] /\ c.y = a.y + d[2]
        BY <2>1
  <2> QED BY <1>1, <2>2, <2>3
<1>4. c \in Cells
      OBVIOUS
<1> HIDE DEF c
<1>5. Adjacent(a, d[1], d[2], c)
      BY <1>1, <1>3, <1>4 DEF Adjacent
<1>6. Adjacent(c, -d[1], -d[2], a)
      BY <1>2, <1>3, <1>4 DEF Adjacent
<1>7. /\ InArea(a, b) /\ ~InArea(c, b) => InMoveArea(a, d[1], d[2], b)
      /\ InMoveArea(a, d[1], d[2], b) /\ ~NearBorder(a) => ~InArea(c, b)
      BY <1>5, OutOfMoveArea
<1>8. /\ InArea(c, b) /\ ~InArea(a, b) => InMoveArea(c, -d[1], -d[2], b)
      /\ InMoveArea(c, -d[1], -d[2], b) => InArea(c, b)
      BY <1>6, OutOfMoveArea
<1> QED BY <1>7, <1>8 DEF c

-----------------------------------------------------------------------------
(* The steps of players. *)

LEMMA Kinds ==
    /\ Players \cap (Mobs \cup Npcs \cup Items) = {}
    /\ Npcs \cap (Mobs \cup Items) = {}
    /\ Players \subseteq Beings /\ Mobs \subseteq Beings /\ Npcs \subseteq Beings
    /\ Items \subseteq Beings
    /\ SavePoint \in Cells /\ Destinations \subseteq Cells /\ Walkable \subseteq Cells
    /\ Nowhere \in Cells
<1>1. SavePoint \in Walkable /\ Destinations \subseteq Walkable /\ Walkable \subseteq Cells
      BY SightAssumption DEF Walkable
<1>2. Nowhere \in Walkable
      BY <1>1 DEF Nowhere
<1> QED BY <1>1, <1>2, SightAssumption DEF Beings

LEMMA EachOther ==
    ASSUME Types, NEW a \in Beings, NEW b \in Beings
    PROVE  InArea(bl[a], bl[b]) <=> InArea(bl[b], bl[a])
BY SameArea DEF Types

\* It is enough to look at one client and one being.
LEMMA Pairwise ==
    ASSUME Types',
           \A p \in Players : OneSession(p)',
           \A p \in Players, b \in Beings :
              session'[p] = "loaded" /\ p \notin early' /\ b \in shown'[p] /\ b \notin early'
                 => Visible(p, b)',
           \A p \in Players, b \in Beings :
              Missed(p, b)' =>
                 Missed(p, b) \/ \E c \in {bl[p], bl[b], bl'[p], bl'[b]} : NearBorder(c)
    PROVE  Kept
<1>1. NothingOfTheGone'
      BY DEF NothingOfTheGone, Settled, Types
<1> QED BY <1>1 DEF Kept, IInv, NobodyLost

LEMMA SetPosStep ==
    ASSUME IInv, NEW ps \in SUBSET Players, NEW c \in Cells, SetPos(ps, c)
    PROVE  Kept
<1>1. Types'
      BY DEF IInv, Types, SetPos, Here
<1>2. ASSUME NEW p \in Players PROVE OneSession(p)'
      BY DEF IInv, Types, SetPos, Here, OneSession
<1>3. ASSUME NEW p \in Players, NEW b \in Beings, session'[p] = "loaded", p \notin early',
             b \in shown'[p], b \notin early'
      PROVE  Visible(p, b)'
  <2>1. p \notin ps /\ session[p] = "loaded" /\ p \notin early /\ p \in linked /\ b \notin early
        BY <1>3 DEF IInv, Types, SetPos, OneSession
  <2>2. b \in shown[p] /\ ~(b \in ps \cap linked /\ p \in Told(b)) /\ bl'[p] = bl[p]
        BY <1>3, <2>1, Kinds DEF IInv, Types, SetPos
  <2>3. Visible(p, b)
        BY <2>1, <2>2 DEF IInv, NothingOfTheGone, Settled
  <2>4. b \notin ps
        BY <2>1, <2>2, <2>3, EachOther, Kinds DEF IInv, Types, Visible, Told, Around
  <2> QED BY <2>2, <2>3, <2>4 DEF IInv, Types, SetPos, Visible
<1>4. ASSUME NEW p \in Players, NEW b \in Beings, Missed(p, b)' PROVE Missed(p, b)
  <2>1. p \notin ps /\ b \notin ps
        BY <1>4 DEF IInv, Types, SetPos, Missed
  <2>2. shown'[p] = shown[p] \ {x \in ps \cap linked : p \in Told(x)}
        BY <2>1 DEF SetPos
  <2>3. bl'[p] = bl[p] /\ bl'[b] = bl[b] /\ session'[p] = session[p]
        BY <2>1, Kinds DEF SetPos
  <2>4. b \in linked /\ b \notin shown[p] /\ p \notin early /\ b \notin early
        BY <1>4, <2>1, <2>2 DEF SetPos, Missed
  <2> QED BY <1>4, <2>3, <2>4 DEF SetPos, Missed, Visible
<1> QED BY <1>1, <1>2, <1>3, <1>4, Pairwise

LEMMA LoginStep ==
    ASSUME IInv, NEW p \in Players, NEW c \in Walkable, NEW invisible \in BOOLEAN,
           Login(p, c, invisible)
    PROVE  Kept
<1>1. Types'
      BY Kinds DEF IInv, Types, Login
<1>2. ASSUME NEW q \in Players PROVE OneSession(q)'
      BY DEF IInv, Types, Login, OneSession
<1>3. p \notin linked
      BY DEF IInv, Types, Login, OneSession
<1>4. ASSUME NEW q \in Players, NEW b \in Beings, session'[q] = "loaded", q \notin early',
             b \in shown'[q], b \notin early'
      PROVE  Visible(q, b)'
  <2>1. q # p /\ session[q] = "loaded" /\ q \notin early /\ b \notin early /\ b \in shown[q]
        BY <1>4 DEF IInv, Types, Login
  <2>2. Visible(q, b)
        BY <2>1 DEF IInv, NothingOfTheGone, Settled
  <2>3. b # p
        BY <1>3, <2>2 DEF Visible
  <2> QED BY <2>1, <2>2, <2>3, Kinds DEF IInv, Types, Login, Visible
<1>5. ASSUME NEW q \in Players, NEW b \in Beings, Missed(q, b)' PROVE Missed(q, b)
  <2>1. b # p /\ q # p
        BY <1>3, <1>5 DEF IInv, Types, Login, Missed
  <2> QED BY <1>5, <2>1, Kinds DEF IInv, Types, Login, Missed, Visible
<1> QED BY <1>1, <1>2, <1>4, <1>5, Pairwise

\* A player leaves the blocks, here or for another server, and those around are told.
LEMMA LeftStep ==
    ASSUME IInv, NEW p \in Players, NEW c \in Cells, MapQuit(p) \/ SetPosRemote(p, c)
    PROVE  Kept
<1>0. /\ session' \in {[session EXCEPT ![p] = "none"], [session EXCEPT ![p] = "leaving"]}
      /\ linked' = linked \ {p} /\ walking' = walking \ {p}
      /\ unseen' \in {unseen, unseen \ {p}} /\ UNCHANGED << early, kinds >>
      /\ bl' \in {[bl EXCEPT ![p] = Nowhere], [bl EXCEPT ![p] = c]}
      /\ \A q \in Players : q # p =>
            shown'[q] = IF q \in Told(p) THEN shown[q] \ {p} ELSE shown[q]
      /\ shown'[p] \in SUBSET shown[p]
      /\ shown' \in [Players -> SUBSET Beings]
  <2>0. shown \in [Players -> SUBSET Beings]
        BY DEF IInv, Types
  <2>1. CASE MapQuit(p)
    <3>1. shown' = [Clear(shown, Told(p), p) EXCEPT ![p] = {}]
          BY <2>1 DEF MapQuit
    <3>2. \A q \in Players : q # p =>
             shown'[q] = IF q \in Told(p) THEN shown[q] \ {p} ELSE shown[q]
          BY <3>1 DEF Clear
    <3>3. shown'[p] = {} /\ shown' \in [Players -> SUBSET Beings]
          BY <2>0, <3>1 DEF Clear
    <3> QED BY <2>1, <3>2, <3>3 DEF MapQuit
  <2>2. CASE SetPosRemote(p, c)
    <3>1. shown' = [q \in Players |-> IF q \in Told(p) THEN shown[q] \ {p} ELSE shown[q]]
          BY <2>2 DEF SetPosRemote, Clear
    <3>2. \A q \in Players : q # p =>
             shown'[q] = IF q \in Told(p) THEN shown[q] \ {p} ELSE shown[q]
          BY <3>1
    <3>3. shown'[p] \in SUBSET shown[p] /\ shown' \in [Players -> SUBSET Beings]
          BY <2>0, <3>1
    <3> QED BY <2>2, <3>2, <3>3 DEF SetPosRemote
  <2> QED BY <2>1, <2>2
<1>1. Types'
  <2>1. \A q \in Players : shown'[q] \subseteq kinds \ {q}
        BY <1>0 DEF IInv, Types
  <2> QED BY <1>0, <2>1, Kinds DEF IInv, Types
<1>2. ASSUME NEW q \in Players PROVE OneSession(q)'
      BY <1>0 DEF IInv, Types, OneSession, MapQuit, SetPosRemote, Here
<1>3. ASSUME NEW q \in Players, NEW b \in Beings, session'[q] = "loaded", q \notin early',
             b \in shown'[q], b \notin early'
      PROVE  Visible(q, b)'
  <2>1. /\ q # p /\ session[q] = "loaded" /\ q \notin early /\ b \notin early
        /\ b \in shown[q] /\ q \in linked /\ ~(b = p /\ q \in Told(p))
        BY <1>0, <1>3 DEF IInv, Types, OneSession
  <2>2. Visible(q, b)
        BY <2>1 DEF IInv, NothingOfTheGone, Settled
  <2>3. b # p
        BY <2>1, <2>2, EachOther, Kinds DEF IInv, Types, Visible, Told, Around
  <2> QED BY <1>0, <2>1, <2>2, <2>3, Kinds DEF IInv, Types, Visible
<1>4. ASSUME NEW q \in Players, NEW b \in Beings, Missed(q, b)' PROVE Missed(q, b)
  <2>1. b # p /\ q # p
        BY <1>0, <1>4 DEF IInv, Types, Missed
  <2> QED BY <1>0, <1>4, <2>1, Kinds DEF IInv, Types, Missed, Visible
<1> QED BY <1>1, <1>2, <1>3, <1>4, Pairwise

LEMMA LoadEndAckStep ==
    ASSUME IInv, NEW p \in Players, LoadEndAck(p)
    PROVE  Kept
<1> DEFINE bs == {b \in linked \ {p} : InArea(bl[p], bl[b])}
<1>0. /\ session' = [session EXCEPT ![p] = "loaded"] /\ linked' = linked \cup {p}
      /\ UNCHANGED << bl, walking, unseen, early, kinds >>
      /\ p \in kinds /\ p \notin linked
      /\ shown'[p] = shown[p] \cup (bs \ unseen)
      /\ \A q \in Players : q # p =>
            shown'[q] = IF q \in bs /\ p \notin unseen THEN shown[q] \cup {p} ELSE shown[q]
      /\ DOMAIN shown' = Players /\ shown' = [q \in Players |-> shown'[q]]
      BY DEF LoadEndAck, Here, IntoSight
<1>1. p \notin early => shown[p] = {}
      BY DEF IInv, OneSession, LoadEndAck, Here
<1>2. bs \subseteq kinds \ {p} /\ p \in Beings
      BY Kinds DEF IInv, Types
<1> HIDE DEF bs
<1>3. Types'
  <2>0. \A q \in Players : shown[q] \subseteq kinds \ {q}
        BY DEF IInv, Types
  <2>1. ASSUME NEW q \in Players PROVE shown'[q] \subseteq kinds \ {q}
    <3>1. CASE q = p
      <4>1. shown'[p] = shown[p] \cup (bs \ unseen)
            BY <1>0
      <4> QED BY <1>2, <2>0, <3>1, <4>1
    <3>2. CASE q # p
      <4>1. shown'[q] \subseteq shown[q] \cup {p}
            BY <1>0, <3>2
      <4> QED BY <1>0, <2>0, <3>2, <4>1
    <3> QED BY <3>1, <3>2
  <2> QED BY <1>0, <2>1, Kinds DEF IInv, Types
<1>4. ASSUME NEW q \in Players PROVE OneSession(q)'
  <2>1. q # p /\ q \notin linked => shown'[q] = shown[q]
        BY <1>0 DEF bs
  <2> QED BY <1>0, <2>1 DEF IInv, Types, OneSession
<1>5. ASSUME NEW q \in Players, NEW b \in Beings, session'[q] = "loaded", q \notin early',
             b \in shown'[q], b \notin early'
      PROVE  Visible(q, b)'
  <2>1. CASE q = p
    <3>1. b \in bs \ unseen
          BY <1>0, <1>1, <1>5, <2>1
    <3> QED BY <1>0, <2>1, <3>1 DEF bs, Visible
  <2>2. CASE q # p /\ b = p /\ q \in bs /\ p \notin unseen
    <3>1. InArea(bl[q], bl[p])
          BY <1>2, <2>2, EachOther, Kinds DEF IInv, bs
    <3> QED BY <1>0, <2>2, <3>1 DEF Visible
  <2>3. CASE q # p /\ ~(b = p /\ q \in bs /\ p \notin unseen)
    <3>1. session[q] = "loaded" /\ q \notin early /\ b \in shown[q] /\ b \notin early
          BY <1>0, <1>5, <2>3 DEF IInv, Types
    <3>2. Visible(q, b)
          BY <3>1 DEF IInv, NothingOfTheGone, Settled
    <3> QED BY <1>0, <3>2 DEF Visible
  <2> QED BY <2>1, <2>2, <2>3
<1>6. ASSUME NEW q \in Players, NEW b \in Beings, Missed(q, b)' PROVE Missed(q, b)
  <2>1. q # p
    <3>1. ASSUME q = p PROVE FALSE
      <4>1. b \in linked \ {p} /\ b \notin unseen /\ InArea(bl[p], bl[b])
            BY <1>0, <1>6, <3>1 DEF Missed, Visible
      <4> QED BY <1>0, <1>6, <3>1, <4>1 DEF Missed, bs
    <3> QED BY <3>1
  <2>2. session[q] = "loaded" /\ q \in linked
        BY <1>0, <1>6, <2>1 DEF IInv, Types, OneSession, Missed
  <2>3. b # p
    <3>1. ASSUME b = p PROVE FALSE
      <4>1. p \notin unseen /\ InArea(bl[q], bl[p])
            BY <1>0, <1>6, <3>1 DEF Missed, Visible
      <4>2. q \in bs
            BY <2>1, <2>2, <4>1, EachOther, Kinds DEF IInv, bs
      <4> QED BY <1>0, <1>6, <2>1, <3>1, <4>1, <4>2 DEF Missed
    <3> QED BY <3>1
  <2> QED BY <1>0, <1>6, <2>1, <2>2, <2>3 DEF Missed, Visible
<1> QED BY <1>3, <1>4, <1>5, <1>6, Pairwise

LEMMA DisappearStep ==
    ASSUME IInv, NEW p \in Players, Disappear(p)
    PROVE  Kept
<1>0. /\ UNCHANGED << bl, linked, session, walking, early, kinds >>
      /\ unseen' = unseen \cup {p} /\ p \notin unseen
      /\ \A q \in Players :
            shown'[q] = IF q \in Around(bl[p]) \ {p} THEN shown[q] \ {p} ELSE shown[q]
      /\ shown' = [q \in Players |-> shown'[q]]
      BY DEF Disappear, Clear, Told
<1>1. Types'
  <2>1. \A q \in Players : shown'[q] \subseteq kinds \ {q}
        BY <1>0 DEF IInv, Types
  <2> QED BY <1>0, <2>1, Kinds DEF IInv, Types
<1>2. ASSUME NEW q \in Players PROVE OneSession(q)'
      BY <1>0 DEF IInv, Types, OneSession
<1>3. ASSUME NEW q \in Players, NEW b \in Beings, session'[q] = "loaded", q \notin early',
             b \in shown'[q], b \notin early'
      PROVE  Visible(q, b)'
  <2>1. /\ session[q] = "loaded" /\ q \notin early /\ b \in shown[q] /\ b \notin early
        /\ q \in linked /\ b # q
        BY <1>0, <1>3 DEF IInv, Types, OneSession
  <2>2. Visible(q, b)
        BY <2>1 DEF IInv, NothingOfTheGone, Settled
  <2>3. b # p
        BY <1>0, <1>3, <2>1, <2>2, EachOther, Kinds DEF IInv, Around, Visible
  <2> QED BY <1>0, <2>2, <2>3 DEF Visible
<1>4. ASSUME NEW q \in Players, NEW b \in Beings, Missed(q, b)' PROVE Missed(q, b)
  <2>1. b # p
        BY <1>0, <1>4 DEF Missed, Visible
  <2> QED BY <1>0, <1>4, <2>1 DEF Missed, Visible
<1> QED BY <1>1, <1>2, <1>3, <1>4, Pairwise

LEMMA AppearStep ==
    ASSUME IInv, NEW p \in Players, Appear(p)
    PROVE  Kept
<1>0. /\ UNCHANGED << bl, kinds >> /\ unseen' = unseen \ {p} /\ p \in unseen
      /\ linked' = linked \ {p} /\ walking' = walking \ {p}
      /\ session' = [session EXCEPT ![p] = "loading"]
      /\ early' = IF p \in linked THEN early ELSE early \cup {p}
      BY DEF Appear
<1>1. /\ \A q \in Players : shown'[q] \subseteq shown[q]
      /\ \A q \in Players, b \in Beings : b # p /\ q # p /\ b \in shown[q] => b \in shown'[q]
      /\ p \in linked => shown'[p] = {}
      /\ shown' = [q \in Players |-> shown'[q]]
  <2>1. CASE p \in linked
        BY <2>1 DEF Appear, Clear
  <2>2. CASE p \notin linked
        BY <2>2 DEF Appear, IInv, Types
  <2> QED BY <2>1, <2>2
<1>2. Types'
  <2>1. \A q \in Players : shown'[q] \subseteq kinds \ {q}
        BY <1>1 DEF IInv, Types
  <2> QED BY <1>0, <1>1, <2>1, Kinds DEF IInv, Types
<1>3. ASSUME NEW q \in Players PROVE OneSession(q)'
      BY <1>0, <1>1 DEF IInv, Types, OneSession, Appear, Here
<1>4. ASSUME NEW q \in Players, NEW b \in Beings, session'[q] = "loaded", q \notin early',
             b \in shown'[q], b \notin early'
      PROVE  Visible(q, b)'
  <2>1. /\ q # p /\ session[q] = "loaded" /\ q \notin early /\ b \in shown[q] /\ b \notin early
        BY <1>0, <1>1, <1>4 DEF IInv, Types
  <2>2. Visible(q, b)
        BY <2>1 DEF IInv, NothingOfTheGone, Settled
  <2>3. b # p
        BY <1>0, <2>2 DEF Visible
  <2> QED BY <1>0, <2>2, <2>3 DEF Visible
<1>5. ASSUME NEW q \in Players, NEW b \in Beings, Missed(q, b)' PROVE Missed(q, b)
  <2>1. b # p /\ q # p
        BY <1>0, <1>5 DEF Missed, IInv, Types
  <2>2. b \notin shown[q] /\ session[q] = "loaded" /\ q \notin early /\ b \notin early
        BY <1>0, <1>1, <1>5, <2>1 DEF Missed
  <2> QED BY <1>0, <1>5, <2>1, <2>2 DEF Missed, Visible
<1> QED BY <1>2, <1>3, <1>4, <1>5, Pairwise

LEMMA WalkingStep ==
    ASSUME IInv, NEW p \in Players,
           StartWalking(p) \/ StopWalking(p) \/ FixPcPos(p) \/ Arrive(p)
    PROVE  Kept
<1>1. CASE StartWalking(p) \/ StopWalking(p) \/ FixPcPos(p)
  <2>a. Located(p) /\ walking' \in {walking, walking \ {p}, walking \cup {p}}
        /\ (p \in walking' => p \in walking \/ session[p] \in {"loading", "loaded"})
        BY <1>1 DEF StartWalking, StopWalking, FixPcPos, Here
  <2>b. p \in kinds
    <3>1. CASE StartWalking(p)
          BY <3>1 DEF StartWalking, Here
    <3>2. CASE session[p] # "none"
          BY <3>2 DEF IInv, OneSession
    <3> QED BY <1>1, <3>1, <3>2 DEF StopWalking, FixPcPos
  <2>0. /\ UNCHANGED << bl, linked, session, unseen, kinds >>
        /\ early' = IF p \in linked THEN early ELSE early \cup {p}
        /\ \A q \in Players : shown'[q] = IF q \in Told(p) THEN shown[q] \cup {p} ELSE shown[q]
        /\ shown' = [q \in Players |-> shown'[q]]
        BY <2>a DEF Located, Show
  <2>1. Told(p) \subseteq linked \ {p}
        BY DEF Told, Around
  <2>2. Types'
    <3>1. \A q \in Players : shown'[q] \subseteq kinds \ {q}
          BY <2>0, <2>b, <2>1 DEF IInv, Types
    <3> QED BY <2>0, <2>a, <2>b, <3>1, Kinds DEF IInv, Types
  <2>3. ASSUME NEW q \in Players PROVE OneSession(q)'
        BY <2>0, <2>a, <2>1 DEF IInv, Types, OneSession
  <2>4. ASSUME NEW q \in Players, NEW b \in Beings, session'[q] = "loaded", q \notin early',
               b \in shown'[q], b \notin early'
        PROVE  Visible(q, b)'
    <3>1. CASE b = p /\ q \in Told(p)
      <4>1. p \notin unseen /\ InArea(bl[p], bl[q]) /\ p \in linked
            BY <2>0, <2>4, <3>1 DEF Told, Around
      <4> QED BY <2>0, <3>1, <4>1, EachOther, Kinds DEF IInv, Visible
    <3>2. CASE ~(b = p /\ q \in Told(p))
      <4>1. session[q] = "loaded" /\ q \notin early /\ b \in shown[q] /\ b \notin early
            BY <2>0, <2>4, <3>2
      <4>2. Visible(q, b)
            BY <4>1 DEF IInv, NothingOfTheGone, Settled
      <4> QED BY <2>0, <4>2 DEF Visible
    <3> QED BY <3>1, <3>2
  <2>5. ASSUME NEW q \in Players, NEW b \in Beings, Missed(q, b)' PROVE Missed(q, b)
        BY <2>0, <2>5 DEF Missed, Visible
  <2> QED BY <2>2, <2>3, <2>4, <2>5, Pairwise
<1>2. CASE Arrive(p)
  <2>0. UNCHANGED << bl, linked, session, unseen, shown, early, kinds >> /\ walking' = walking \ {p}
        BY <1>2 DEF Arrive
  <2>1. Types' /\ \A q \in Players : OneSession(q)'
        BY <2>0 DEF IInv, Types, OneSession
  <2>2. NothingOfTheGone'
        BY <2>0 DEF IInv, NothingOfTheGone, Settled, Visible
  <2>3. ASSUME NEW q \in Players, NEW b \in Beings, Missed(q, b)' PROVE Missed(q, b)
        BY <2>0, <2>3 DEF Missed, Visible
  <2> QED BY <2>1, <2>2, <2>3 DEF Kept, IInv, NobodyLost
<1> QED BY <1>1, <1>2

LEMMA WalkStep ==
    ASSUME IInv, NEW p \in Players, NEW d \in Steps, Walk(p, d[1], d[2])
    PROVE  Kept
<1> DEFINE c == [bl[p] EXCEPT !.x = @ + d[1], !.y = @ + d[2]]
           out == {o \in linked \ {p} : InMoveArea(bl[p], d[1], d[2], bl[o])}
           into == {o \in linked \ {p} : InMoveArea(c, -d[1], -d[2], bl[o])}
<1>0. /\ UNCHANGED << session, walking, unseen, early, kinds >>
      /\ p \in walking /\ c \in Walkable
      /\ bl' = [bl EXCEPT ![p] = c]
      /\ linked' \in {linked, linked \cup {p}}
      /\ shown' = IntoSight(OutOfSight(shown, p, out), p, into)
      BY DEF Walk
<1>1. /\ shown'[p] = (shown[p] \ out) \cup (into \ unseen)
      /\ \A q \in Players : q # p =>
            shown'[q] = IF q \in into /\ p \notin unseen
                        THEN (IF q \in out THEN shown[q] \ {p} ELSE shown[q]) \cup {p}
                        ELSE IF q \in out THEN shown[q] \ {p} ELSE shown[q]
      /\ shown' = [q \in Players |-> shown'[q]]
  <2> HIDE DEF out, into
  <2> QED BY <1>0 DEF IntoSight, OutOfSight
<1>2. /\ c \in Cells /\ bl[p] \in Cells /\ p \in Beings /\ p \in kinds
      /\ bl'[p] = c /\ \A b \in Beings : bl[b] \in Cells /\ (b # p => bl'[b] = bl[b])
      BY <1>0, Kinds DEF IInv, Types
<1>3. c = Moved(bl[p], d[1], d[2])
      BY DEF Moved
<1> HIDE DEF c
\* One step away, either way
<1>6. ASSUME NEW b \in linked \ {p}
      PROVE  /\ InArea(bl[p], bl[b]) /\ ~InArea(c, bl[b]) => b \in out
             /\ b \in into => InArea(c, bl[b])
             /\ InArea(c, bl[b]) /\ b \notin into => InArea(bl[p], bl[b])
             /\ b \in out /\ InArea(c, bl[b]) => NearBorder(bl[p])
  <2>1. bl[b] \in Cells
        BY <1>2 DEF IInv, Types
  <2>2. /\ InArea(bl[p], bl[b]) /\ ~InArea(c, bl[b]) => InMoveArea(bl[p], d[1], d[2], bl[b])
        /\ InMoveArea(c, -d[1], -d[2], bl[b]) => InArea(c, bl[b])
        /\ InArea(c, bl[b]) /\ ~InMoveArea(c, -d[1], -d[2], bl[b]) => InArea(bl[p], bl[b])
        /\ InMoveArea(bl[p], d[1], d[2], bl[b]) /\ InArea(c, bl[b]) => NearBorder(bl[p])
        BY <1>2, <1>3, <2>1, NextArea
  <2> QED BY <2>2
<1>7. out \subseteq linked \ {p} /\ into \subseteq linked \ {p} /\ linked \subseteq kinds
      BY DEF IInv, Types
<1> HIDE DEF out, into
<1>8. p \notin early => session[p] = "loaded" /\ p \in linked /\ linked' = linked
      BY <1>0 DEF IInv, Types, OneSession
<1>9. Types'
  <2>0. \A q \in Players : shown[q] \subseteq kinds \ {q}
        BY DEF IInv, Types
  <2>1. ASSUME NEW q \in Players PROVE shown'[q] \subseteq kinds \ {q}
    <3>1. CASE q = p
      <4>1. shown'[p] \subseteq shown[p] \cup (into \ unseen)
            BY <1>1
      <4> QED BY <1>7, <2>0, <3>1, <4>1
    <3>2. CASE q # p
      <4>1. shown'[q] \subseteq shown[q] \cup {p}
            BY <1>1, <3>2
      <4> QED BY <1>2, <2>0, <3>2, <4>1
    <3> QED BY <3>1, <3>2
  <2>2. shown' \in [Players -> SUBSET Beings]
        BY <1>0, <1>1, <2>1, Kinds DEF IInv, Types
  <2>3. bl' \in [Beings -> Cells] /\ linked' \in SUBSET kinds
        BY <1>0, <1>2, Kinds DEF IInv, Types
  <2> QED BY <1>0, <2>1, <2>2, <2>3 DEF IInv, Types
<1>10. ASSUME NEW q \in Players PROVE OneSession(q)'
  <2>1. CASE q = p
        BY <1>0, <1>8, <2>1 DEF IInv, Types, OneSession
  <2>2. CASE q # p
    <3>1. q \notin linked => shown'[q] = shown[q]
          BY <1>1, <1>7, <2>2
    <3> QED BY <1>0, <2>2, <3>1 DEF IInv, Types, OneSession
  <2> QED BY <2>1, <2>2
<1>11. ASSUME NEW q \in Players, NEW b \in Beings, session'[q] = "loaded", q \notin early',
              b \in shown'[q], b \notin early'
       PROVE  Visible(q, b)'
  <2>0. /\ session[q] = "loaded" /\ q \notin early /\ b \notin early /\ q \in linked
        /\ b \in shown[q] => Visible(q, b) /\ b # q
        BY <1>0, <1>11 DEF IInv, Types, OneSession, NothingOfTheGone, Settled
  <2>1. CASE q = p
    <3>1. CASE b \in into \ unseen
          BY <1>0, <1>2, <1>6, <1>7, <2>1, <3>1 DEF Visible
    <3>2. CASE b \notin into \ unseen
      <4>1. b \in shown[p] /\ b \notin out
            BY <1>1, <1>11, <2>1, <3>2
      <4>2. Visible(p, b) /\ b # p
            BY <2>0, <2>1, <4>1
      <4>3. InArea(c, bl[b])
            BY <1>6, <4>1, <4>2 DEF Visible
      <4> QED BY <1>0, <1>2, <2>1, <4>2, <4>3 DEF Visible
    <3> QED BY <3>1, <3>2
  <2>2. CASE q # p /\ b = p
    <3>0. q \in linked \ {p} /\ q \in Beings /\ p \in linked /\ linked' = linked
          BY <1>8, <2>0, <2>2, Kinds
    <3>1. CASE q \in into /\ p \notin unseen
      <4>1. InArea(bl[q], c)
            BY <1>2, <1>6, <3>0, <3>1, SameArea
      <4> QED BY <1>0, <1>2, <2>2, <3>0, <3>1, <4>1 DEF Visible
    <3>2. CASE ~(q \in into /\ p \notin unseen)
      <4>1. p \in shown[q] /\ q \notin out
            BY <1>1, <1>11, <2>2, <3>2
      <4>2. Visible(q, p)
            BY <2>0, <2>2, <4>1
      <4>3. InArea(bl[p], bl[q])
            BY <1>2, <3>0, <4>2, EachOther DEF IInv, Visible
      <4>4. InArea(c, bl[q])
            BY <1>6, <3>0, <4>1, <4>3
      <4>5. InArea(bl[q], c)
            BY <1>2, <3>0, <4>4, SameArea
      <4> QED BY <1>0, <1>2, <2>2, <3>0, <4>2, <4>5 DEF Visible
    <3> QED BY <3>1, <3>2
  <2>3. CASE q # p /\ b # p
    <3>1. b \in shown[q]
          BY <1>1, <1>11, <2>3
    <3> QED BY <1>0, <1>2, <2>0, <2>3, <3>1, Kinds DEF Visible
  <2> QED BY <2>1, <2>2, <2>3
<1>12. ASSUME NEW q \in Players, NEW b \in Beings, Missed(q, b)'
       PROVE  Missed(q, b) \/ \E e \in {bl[q], bl[b], bl'[q], bl'[b]} : NearBorder(e)
  <2>0. /\ session[q] = "loaded" /\ q \notin early /\ b \notin early /\ q \in linked
        /\ b # q /\ b \notin shown'[q] /\ b \notin unseen /\ b \in linked' /\ b \in linked
        /\ InArea(bl'[q], bl'[b])
        BY <1>0, <1>8, <1>12 DEF IInv, Types, OneSession, Missed, Visible
  <2>1. CASE q = p
    <3>1. InArea(c, bl[b]) /\ b \in linked \ {p} /\ b \notin into
          BY <1>1, <1>2, <2>0, <2>1
    <3>2. InArea(bl[p], bl[b])
          BY <1>6, <3>1
    <3>3. CASE b \in out
          BY <1>6, <2>1, <3>1, <3>3
    <3>4. CASE b \notin out
      <4>1. b \notin shown[p]
            BY <1>1, <2>0, <2>1, <3>4
      <4> QED BY <2>0, <2>1, <3>2, <4>1 DEF Missed, Visible
    <3> QED BY <3>3, <3>4
  <2>2. CASE q # p /\ b = p
    <3>0. q \in linked \ {p} /\ q \in Beings
          BY <2>0, <2>2, Kinds
    <3>1. InArea(c, bl[q]) /\ q \notin into
          BY <1>1, <1>2, <2>0, <2>2, <3>0, SameArea
    <3>2. InArea(bl[q], bl[p])
          BY <1>2, <1>6, <3>0, <3>1, EachOther DEF IInv
    <3>3. CASE q \in out
          BY <1>6, <2>2, <3>0, <3>1, <3>3
    <3>4. CASE q \notin out
      <4>1. p \notin shown[q]
            BY <1>1, <2>0, <2>2, <3>4
      <4> QED BY <2>0, <2>2, <3>2, <4>1 DEF Missed, Visible
    <3> QED BY <3>3, <3>4
  <2>3. CASE q # p /\ b # p
    <3>1. b \notin shown[q]
          BY <1>1, <2>0, <2>3
    <3> QED BY <1>2, <2>0, <2>3, <3>1, Kinds DEF Missed, Visible
  <2> QED BY <2>1, <2>2, <2>3
<1> QED BY <1>9, <1>10, <1>11, <1>12, Pairwise

-----------------------------------------------------------------------------
(* The steps of monsters, NPCs and items. *)

\* It is enough to look at the one being that moves.
LEMMA OtherStep ==
    ASSUME IInv, NEW b \in Beings, b \in kinds, b \notin Players, UnchangedPlayers,
           bl' \in [Beings -> Cells], \A x \in Beings : x # b => bl'[x] = bl[x],
           linked' \in {linked, linked \cup {b}, linked \ {b}},
           unseen' \in SUBSET (Players \cup Npcs), unseen' \ {b} = unseen \ {b},
           shown' = [q \in Players |-> shown'[q]],
           \A q \in Players : shown'[q] \ {b} = shown[q] \ {b},
           \A q \in Players : q \notin linked => shown'[q] = shown[q],
           \A q \in Players : q \in linked /\ q \notin early /\ b \in shown'[q] /\ (b \in shown[q] => Visible(q, b))
              => Visible(q, b)',
           \A q \in Players : q \in linked /\ Missed(q, b)' =>
              Missed(q, b) \/ \E c \in {bl[q], bl[b], bl'[q], bl'[b]} : NearBorder(c)
    PROVE  Kept
<1>1. Types'
  <2>1. ASSUME NEW q \in Players PROVE shown'[q] \subseteq kinds \ {q}
        BY DEF IInv, Types
  <2>2. shown' \in [Players -> SUBSET Beings]
        BY <2>1 DEF IInv, Types
  <2> QED BY <2>1, <2>2 DEF IInv, Types, UnchangedPlayers
<1>2. ASSUME NEW q \in Players PROVE OneSession(q)'
      BY DEF IInv, Types, OneSession, UnchangedPlayers
<1>3. ASSUME NEW q \in Players, NEW x \in Beings, session'[q] = "loaded", q \notin early',
             x \in shown'[q], x \notin early'
      PROVE  Visible(q, x)'
  <2>1. /\ session[q] = "loaded" /\ q \notin early /\ x \notin early /\ q \in linked
        /\ x \in shown[q] => Visible(q, x)
        BY <1>3 DEF IInv, Types, OneSession, NothingOfTheGone, Settled, UnchangedPlayers
  <2>2. CASE x = b
        BY <1>3, <2>1, <2>2
  <2>3. CASE x # b
    <3>1. x \in shown[q] /\ bl'[x] = bl[x] /\ bl'[q] = bl[q]
          BY <1>3, <2>3, Kinds
    <3>2. x \in linked' /\ x \notin unseen'
          BY <2>1, <2>3, <3>1 DEF Visible
    <3> QED BY <2>1, <3>1, <3>2 DEF Visible
  <2> QED BY <2>2, <2>3
<1>4. ASSUME NEW q \in Players, NEW x \in Beings, Missed(q, x)'
      PROVE  Missed(q, x) \/ \E c \in {bl[q], bl[x], bl'[q], bl'[x]} : NearBorder(c)
  <2>1. q \in linked
        BY <1>4 DEF IInv, Types, OneSession, Missed, UnchangedPlayers
  <2>2. CASE x = b
        BY <1>4, <2>1, <2>2
  <2>3. CASE x # b
    <3>1. bl'[x] = bl[x] /\ bl'[q] = bl[q]
          BY <2>3, Kinds
    <3>2. x \in linked /\ x \notin shown[q] /\ x \notin unseen
          BY <1>4, <2>3 DEF Missed, Visible
    <3> QED BY <1>4, <3>1, <3>2 DEF Missed, Visible, UnchangedPlayers
  <2> QED BY <2>2, <2>3
<1> QED BY <1>1, <1>2, <1>3, <1>4, Pairwise

\* Put down, taken away, told anew, moved: all around the old or the new place are told.
LEMMA PlacedStep ==
    ASSUME IInv, NEW b \in Beings, NEW c \in Cells, b \notin Players, Placed(b, c),
           unseen' \in {unseen, unseen \ {b}}, b \notin unseen'
    PROVE  Kept
<1>1. /\ b \in kinds /\ b \notin linked /\ linked' = linked \cup {b} /\ UnchangedPlayers
      /\ bl' = [bl EXCEPT ![b] = c]
      /\ \A q \in Players : shown'[q] = IF q \in Around(c) THEN shown[q] \cup {b} ELSE shown[q]
      /\ shown' = [q \in Players |-> shown'[q]]
      BY DEF Placed, Show
<1>2. /\ bl' \in [Beings -> Cells] /\ bl'[b] = c /\ \A x \in Beings : x # b => bl'[x] = bl[x]
      BY <1>1 DEF IInv, Types
<1>3. ASSUME NEW q \in Players PROVE q \in Around(c) <=> q \in linked /\ InArea(bl'[q], bl'[b])
      BY <1>2, SameArea, Kinds DEF IInv, Types, Around
<1>4. ASSUME NEW q \in Players, q \in linked, b \in shown'[q], b \in shown[q] => Visible(q, b)
      PROVE  Visible(q, b)'
      BY <1>1, <1>3, <1>4 DEF Visible
<1>5. ASSUME NEW q \in Players, q \in linked, Missed(q, b)' PROVE FALSE
      BY <1>1, <1>3, <1>5 DEF Missed, Visible
<1>6. ASSUME NEW q \in Players PROVE shown'[q] \ {b} = shown[q] \ {b} /\ (q \notin linked => shown'[q] = shown[q])
      BY <1>1, <1>3
<1>7. unseen' \in SUBSET (Players \cup Npcs) /\ unseen' \ {b} = unseen \ {b}
      BY DEF IInv, Types
<1> QED BY <1>1, <1>2, <1>4, <1>5, <1>6, <1>7, OtherStep

LEMMA RemovedStep ==
    ASSUME IInv, NEW b \in Beings, b \notin Players, Removed(b)
    PROVE  Kept
<1>1. /\ b \in linked /\ linked' = linked \ {b} /\ UnchangedPlayers /\ unseen' = unseen \ {b}
      /\ bl' = [bl EXCEPT ![b] = Nowhere]
      /\ \A q \in Players : shown'[q] = IF q \in Around(bl[b]) THEN shown[q] \ {b} ELSE shown[q]
      /\ shown' = [q \in Players |-> shown'[q]]
      BY DEF Removed, Clear
<1>2. /\ bl' \in [Beings -> Cells] /\ \A x \in Beings : x # b => bl'[x] = bl[x]
      /\ b \in kinds
      BY <1>1, Kinds DEF IInv, Types
<1>3. ASSUME NEW q \in Players PROVE q \in Around(bl[b]) <=> q \in linked /\ InArea(bl[q], bl[b])
      BY EachOther, Kinds DEF IInv, Around
<1>4. ASSUME NEW q \in Players, q \in linked, b \in shown'[q], b \in shown[q] => Visible(q, b)
      PROVE  Visible(q, b)'
      BY <1>1, <1>3, <1>4 DEF Visible
<1>5. ASSUME NEW q \in Players, q \in linked, Missed(q, b)' PROVE FALSE
      BY <1>1, <1>5 DEF Missed, Visible
<1>6. ASSUME NEW q \in Players PROVE shown'[q] \ {b} = shown[q] \ {b} /\ (q \notin linked => shown'[q] = shown[q])
      BY <1>1, <1>3
<1>7. unseen' \in SUBSET (Players \cup Npcs) /\ unseen' \ {b} = unseen \ {b}
      BY <1>1 DEF IInv, Types
<1> QED BY <1>1, <1>2, <1>4, <1>5, <1>6, <1>7, OtherStep

LEMMA MobWarpStep ==
    ASSUME IInv, NEW md \in Mobs, NEW c \in Cells, MobWarp(md, c)
    PROVE  Kept
<1>0. md \in Beings /\ md \notin Players /\ md \notin unseen /\ md \in kinds
      BY Kinds DEF IInv, Types, MobWarp
<1>1. /\ md \in linked /\ UnchangedPlayers /\ UNCHANGED << linked, unseen >>
      /\ bl' = [bl EXCEPT ![md] = c]
      /\ \A q \in Players : shown'[q] =
            IF q \in Around(c) THEN (IF q \in Around(bl[md]) THEN shown[q] \ {md} ELSE shown[q]) \cup {md}
            ELSE IF q \in Around(bl[md]) THEN shown[q] \ {md} ELSE shown[q]
      /\ shown' = [q \in Players |-> shown'[q]]
      BY DEF MobWarp, Show, Clear
<1>2. /\ bl' \in [Beings -> Cells] /\ bl'[md] = c /\ \A x \in Beings : x # md => bl'[x] = bl[x]
      BY <1>0, <1>1 DEF IInv, Types
<1>3. ASSUME NEW q \in Players
      PROVE  /\ q \in Around(bl[md]) <=> q \in linked /\ InArea(bl[q], bl[md])
             /\ q \in Around(c) <=> q \in linked /\ InArea(bl'[q], bl'[md])
      BY <1>0, <1>2, SameArea, Kinds DEF IInv, Types, Around
<1>4. ASSUME NEW q \in Players, q \in linked, md \in shown'[q], md \in shown[q] => Visible(q, md)
      PROVE  Visible(q, md)'
      BY <1>0, <1>1, <1>3, <1>4 DEF Visible
<1>5. ASSUME NEW q \in Players, q \in linked, Missed(q, md)' PROVE FALSE
      BY <1>1, <1>3, <1>5 DEF Missed, Visible
<1>6. ASSUME NEW q \in Players PROVE shown'[q] \ {md} = shown[q] \ {md} /\ (q \notin linked => shown'[q] = shown[q])
      BY <1>1, <1>3
<1>7. unseen' \in SUBSET (Players \cup Npcs) /\ unseen' \ {md} = unseen \ {md}
      BY <1>1 DEF IInv, Types
<1> QED BY <1>0, <1>1, <1>2, <1>4, <1>5, <1>6, <1>7, OtherStep

LEMMA LazyWarpStep ==
    ASSUME IInv, NEW md \in Mobs, NEW c \in Cells, LazyWarp(md, c)
    PROVE  Kept
<1>0. md \in Beings /\ md \notin Players /\ md \notin unseen /\ md \in kinds
      BY Kinds DEF IInv, Types, LazyWarp
<1>1. /\ UnchangedPlayers /\ UNCHANGED << linked, unseen, shown >> /\ bl' = [bl EXCEPT ![md] = c]
      /\ c.m = bl[md].m
      BY DEF LazyWarp
<1>2. /\ bl' \in [Beings -> Cells] /\ bl'[md] = c /\ \A x \in Beings : x # md => bl'[x] = bl[x]
      BY <1>0, <1>1 DEF IInv, Types
<1>3. ASSUME NEW q \in Players, q \in linked PROVE ~Visible(q, md) /\ ~Visible(q, md)'
  <2>1. bl[q].m # bl[md].m /\ bl'[q] = bl[q] /\ bl'[md].m = bl[md].m
        BY <1>0, <1>1, <1>2, <1>3, Kinds DEF LazyWarp
  <2> QED BY <2>1 DEF Visible, InArea
<1>4. unseen' \in SUBSET (Players \cup Npcs) /\ shown' = [q \in Players |-> shown'[q]]
      BY <1>1 DEF IInv, Types
<1>5. ASSUME NEW q \in Players, q \in linked, md \in shown'[q], md \in shown[q] => Visible(q, md)
      PROVE  FALSE
      BY <1>1, <1>3, <1>5
<1>6. ASSUME NEW q \in Players, q \in linked, Missed(q, md)' PROVE FALSE
      BY <1>3, <1>6 DEF Missed
<1> QED BY <1>0, <1>1, <1>2, <1>4, <1>5, <1>6, OtherStep

LEMMA MobWalkStep ==
    ASSUME IInv, NEW md \in Mobs, NEW d \in Steps, MobWalk(md, d[1], d[2])
    PROVE  Kept
<1> DEFINE c == [bl[md] EXCEPT !.x = @ + d[1], !.y = @ + d[2]]
           out == {q \in Players \cap linked : InMoveArea(bl[md], d[1], d[2], bl[q])}
           into == {q \in Players \cap linked : InMoveArea(c, -d[1], -d[2], bl[q])}
<1>0. md \in Beings /\ md \notin Players /\ md \notin unseen /\ md \in kinds
      BY Kinds DEF IInv, Types, MobWalk
<1>1. /\ md \in linked /\ c \in Walkable /\ UnchangedPlayers /\ UNCHANGED << linked, unseen >>
      /\ bl' = [bl EXCEPT ![md] = c]
      /\ shown' = Show(Clear(shown, out, md), into, md)
      BY DEF MobWalk
<1>2. c = Moved(bl[md], d[1], d[2]) /\ c \in Cells
      BY <1>1, Kinds DEF Moved
<1> HIDE DEF c
<1>3. /\ bl' \in [Beings -> Cells] /\ bl'[md] = c /\ bl[md] \in Cells
      /\ \A x \in Beings : x # md => bl'[x] = bl[x]
      BY <1>0, <1>1, <1>2 DEF IInv, Types
<1>4. ASSUME NEW q \in Players, q \in linked
      PROVE  /\ Visible(q, md) /\ ~Visible(q, md)' => q \in out
             /\ q \in into => Visible(q, md)'
             /\ Visible(q, md)' /\ q \notin into => Visible(q, md)
             /\ q \in out /\ Visible(q, md)' => NearBorder(bl[md])
  <2>1. bl[q] \in Cells /\ bl'[q] = bl[q]
        BY <1>0, <1>3, Kinds DEF IInv, Types
  <2>2. /\ InArea(bl[md], bl[q]) /\ ~InArea(c, bl[q]) => InMoveArea(bl[md], d[1], d[2], bl[q])
        /\ InMoveArea(c, -d[1], -d[2], bl[q]) => InArea(c, bl[q])
        /\ InArea(c, bl[q]) /\ ~InMoveArea(c, -d[1], -d[2], bl[q]) => InArea(bl[md], bl[q])
        /\ InMoveArea(bl[md], d[1], d[2], bl[q]) /\ InArea(c, bl[q]) => NearBorder(bl[md])
        BY <1>2, <1>3, <2>1, NextArea
  <2>3. /\ InArea(bl[md], bl[q]) <=> Visible(q, md)
        /\ InArea(c, bl[q]) <=> Visible(q, md)'
        BY <1>0, <1>1, <1>2, <1>3, <2>1, SameArea DEF Visible
  <2> QED BY <1>4, <2>2, <2>3
<1>5. out \subseteq linked /\ into \subseteq linked
      OBVIOUS
<1> HIDE DEF out, into
<1>6. /\ \A q \in Players : shown'[q] =
            IF q \in into THEN (IF q \in out THEN shown[q] \ {md} ELSE shown[q]) \cup {md}
            ELSE IF q \in out THEN shown[q] \ {md} ELSE shown[q]
      /\ shown' = [q \in Players |-> shown'[q]]
      BY <1>1 DEF Show, Clear
<1>7. ASSUME NEW q \in Players, q \in linked, md \in shown'[q], md \in shown[q] => Visible(q, md)
      PROVE  Visible(q, md)'
      BY <1>4, <1>6, <1>7
<1>8. ASSUME NEW q \in Players, q \in linked, Missed(q, md)'
      PROVE  Missed(q, md) \/ \E e \in {bl[q], bl[md], bl'[q], bl'[md]} : NearBorder(e)
  <2>1. Visible(q, md)' /\ md \notin shown'[q] /\ q \notin into
        BY <1>6, <1>8 DEF Missed
  <2>2. Visible(q, md)
        BY <1>4, <1>8, <2>1
  <2>3. CASE q \in out
        BY <1>4, <1>8, <2>1, <2>3
  <2>4. CASE q \notin out
    <3>1. md \notin shown[q]
          BY <1>6, <2>1, <2>4
    <3> QED BY <1>1, <1>8, <2>2, <3>1 DEF Missed, UnchangedPlayers
  <2> QED BY <2>3, <2>4
<1>9. ASSUME NEW q \in Players PROVE shown'[q] \ {md} = shown[q] \ {md} /\ (q \notin linked => shown'[q] = shown[q])
      BY <1>5, <1>6
<1>10. unseen' \in SUBSET (Players \cup Npcs) /\ unseen' \ {md} = unseen \ {md}
      BY <1>1 DEF IInv, Types
<1> QED BY <1>0, <1>1, <1>3, <1>6, <1>7, <1>8, <1>9, <1>10, OtherStep

LEMMA MobFixPosStep ==
    ASSUME IInv, NEW md \in Mobs, MobFixPos(md)
    PROVE  Kept
<1>0. md \in Beings /\ md \notin Players /\ md \in kinds /\ md \in linked /\ md \notin unseen
      BY Kinds DEF IInv, Types, MobFixPos
<1>1. ASSUME NEW q \in Players
      PROVE  q \in Around(bl[md]) <=> q \in linked /\ InArea(bl[q], bl[md])
      BY <1>0, EachOther, Kinds DEF IInv, Around
<1>2. UNCHANGED << bl, linked, unseen >> /\ UnchangedPlayers /\ bl' \in [Beings -> Cells]
      BY DEF MobFixPos, IInv, Types
<1>3. /\ \A q \in Players : shown'[q] = IF q \in Around(bl[md]) THEN shown[q] \cup {md} ELSE shown[q]
      /\ shown' = [q \in Players |-> shown'[q]]
      BY DEF MobFixPos, Show
<1>4. ASSUME NEW q \in Players, q \in linked, md \in shown'[q], md \in shown[q] => Visible(q, md)
      PROVE  Visible(q, md)'
      BY <1>0, <1>1, <1>2, <1>3, <1>4 DEF Visible
<1>5. ASSUME NEW q \in Players, q \in linked, Missed(q, md)' PROVE FALSE
      BY <1>1, <1>2, <1>3, <1>5 DEF Missed, Visible
<1>6. ASSUME NEW q \in Players
      PROVE  shown'[q] \ {md} = shown[q] \ {md} /\ (q \notin linked => shown'[q] = shown[q])
      BY <1>1, <1>3
<1>7. unseen' \in SUBSET (Players \cup Npcs) /\ unseen' \ {md} = unseen \ {md}
      BY <1>2 DEF IInv, Types
<1> QED BY <1>0, <1>2, <1>3, <1>4, <1>5, <1>6, <1>7, OtherStep

LEMMA NpcEnableStep ==
    ASSUME IInv, NEW nd \in Npcs, NpcEnable(nd) \/ NpcDisable(nd)
    PROVE  Kept
<1>0. nd \in Beings /\ nd \notin Players /\ nd \in kinds /\ nd \in linked
      BY Kinds DEF IInv, Types, NpcEnable, NpcDisable
<1>1. ASSUME NEW q \in Players
      PROVE  q \in Around(bl[nd]) <=> q \in linked /\ InArea(bl[q], bl[nd])
      BY <1>0, EachOther, Kinds DEF IInv, Around
<1>2. UNCHANGED << bl, linked >> /\ UnchangedPlayers /\ bl' \in [Beings -> Cells]
      BY DEF NpcEnable, NpcDisable, IInv, Types
<1>3. unseen' \in SUBSET (Players \cup Npcs) /\ unseen' \ {nd} = unseen \ {nd}
      BY DEF IInv, Types, NpcEnable, NpcDisable
<1>4. CASE NpcEnable(nd)
  <2>1. /\ \A q \in Players : shown'[q] = IF q \in Around(bl[nd]) THEN shown[q] \cup {nd} ELSE shown[q]
        /\ shown' = [q \in Players |-> shown'[q]] /\ nd \notin unseen'
        BY <1>4 DEF NpcEnable, Show
  <2>2. ASSUME NEW q \in Players, q \in linked, nd \in shown'[q], nd \in shown[q] => Visible(q, nd)
        PROVE  Visible(q, nd)'
        BY <1>0, <1>1, <1>2, <2>1, <2>2 DEF Visible
  <2>3. ASSUME NEW q \in Players, q \in linked, Missed(q, nd)' PROVE FALSE
        BY <1>1, <1>2, <2>1, <2>3 DEF Missed, Visible
  <2>4. ASSUME NEW q \in Players PROVE shown'[q] \ {nd} = shown[q] \ {nd} /\ (q \notin linked => shown'[q] = shown[q])
        BY <1>1, <2>1
  <2> QED BY <1>0, <1>2, <1>3, <2>1, <2>2, <2>3, <2>4, OtherStep
<1>5. CASE NpcDisable(nd)
  <2>1. /\ \A q \in Players : shown'[q] = IF q \in Around(bl[nd]) THEN shown[q] \ {nd} ELSE shown[q]
        /\ shown' = [q \in Players |-> shown'[q]] /\ nd \in unseen'
        BY <1>5 DEF NpcDisable, Clear
  <2>2. ASSUME NEW q \in Players, q \in linked, nd \in shown'[q], nd \in shown[q] => Visible(q, nd)
        PROVE  Visible(q, nd)'
        BY <1>1, <2>1, <2>2 DEF Visible
  <2>3. ASSUME NEW q \in Players, q \in linked, Missed(q, nd)' PROVE FALSE
        BY <2>1, <2>3 DEF Missed, Visible
  <2>4. ASSUME NEW q \in Players PROVE shown'[q] \ {nd} = shown[q] \ {nd} /\ (q \notin linked => shown'[q] = shown[q])
        BY <1>1, <2>1
  <2> QED BY <1>0, <1>2, <1>3, <2>1, <2>2, <2>3, <2>4, OtherStep
<1> QED BY <1>4, <1>5

LEMMA NpcWarpStep ==
    ASSUME IInv, NEW nd \in Npcs, NEW c \in Cells, NpcWarp(nd, c)
    PROVE  Kept
<1>0. nd \in Beings /\ nd \notin Players /\ nd \in kinds /\ nd \in linked
      BY Kinds DEF IInv, Types, NpcWarp
<1> DEFINE told == IF nd \in unseen THEN {} ELSE Around(bl[nd])
<1>1. /\ UnchangedPlayers /\ UNCHANGED linked /\ unseen' = unseen \ {nd}
      /\ bl' = [bl EXCEPT ![nd] = c]
      /\ \A q \in Players : shown'[q] =
            IF q \in Around(c) THEN (IF q \in told THEN shown[q] \ {nd} ELSE shown[q]) \cup {nd}
            ELSE IF q \in told THEN shown[q] \ {nd} ELSE shown[q]
      /\ shown' = [q \in Players |-> shown'[q]]
  <2>1. CASE nd \in unseen
        BY <2>1 DEF NpcWarp, Show
  <2>2. CASE nd \notin unseen
        BY <2>2 DEF NpcWarp, Show, Clear
  <2> QED BY <2>1, <2>2
<1>2. /\ bl' \in [Beings -> Cells] /\ bl'[nd] = c /\ \A x \in Beings : x # nd => bl'[x] = bl[x]
      BY <1>0, <1>1 DEF IInv, Types
<1>3. ASSUME NEW q \in Players
      PROVE  /\ q \in told <=> q \in linked /\ Visible(q, nd)
             /\ q \in Around(c) <=> q \in linked /\ Visible(q, nd)'
  <2>1. q \in Around(bl[nd]) <=> q \in linked /\ InArea(bl[q], bl[nd])
        BY <1>0, EachOther, Kinds DEF IInv, Around
  <2>2. q \in Around(c) <=> q \in linked /\ InArea(bl'[q], bl'[nd])
        BY <1>0, <1>2, SameArea, Kinds DEF IInv, Types, Around
  <2> QED BY <1>0, <1>1, <2>1, <2>2 DEF Visible
<1> HIDE DEF told
<1>4. ASSUME NEW q \in Players, q \in linked, nd \in shown'[q], nd \in shown[q] => Visible(q, nd)
      PROVE  Visible(q, nd)'
      BY <1>1, <1>3, <1>4
<1>5. ASSUME NEW q \in Players, q \in linked, Missed(q, nd)' PROVE FALSE
      BY <1>1, <1>3, <1>5 DEF Missed
<1>6. ASSUME NEW q \in Players PROVE shown'[q] \ {nd} = shown[q] \ {nd} /\ (q \notin linked => shown'[q] = shown[q])
      BY <1>1, <1>3
<1>7. unseen' \in SUBSET (Players \cup Npcs) /\ unseen' \ {nd} = unseen \ {nd}
      BY <1>1 DEF IInv, Types
<1> QED BY <1>0, <1>1, <1>2, <1>4, <1>5, <1>6, <1>7, OtherStep

-----------------------------------------------------------------------------
LEMMA InitIInv == Init => IInv
<1> SUFFICES ASSUME Init PROVE IInv
    OBVIOUS
<1>1. kinds \in SUBSET Beings
      BY SightAssumption DEF Init
<1>2. bl \in [Beings -> Cells]
      BY Kinds DEF Init
<1>3. Types
      BY <1>1, <1>2 DEF Init, Types
<1> QED BY <1>3 DEF Init, IInv, OneSession, NothingOfTheGone, Settled

LEMMA StutterStep ==
    ASSUME IInv, UNCHANGED vars
    PROVE  Kept
<1>1. Types' /\ \A p \in Players : OneSession(p)'
      BY DEF IInv, Types, OneSession, vars
<1>2. NothingOfTheGone'
      BY DEF IInv, NothingOfTheGone, Settled, Visible, vars
<1>3. ASSUME NEW p \in Players, NEW b \in Beings, Missed(p, b)' PROVE Missed(p, b)
      BY <1>3 DEF Missed, Visible, vars
<1> QED BY <1>1, <1>2, <1>3 DEF Kept, IInv, NobodyLost

LEMMA PlayerKeeps ==
    ASSUME IInv, NEW p \in Players, PlayerStep(p)
    PROVE  Kept
<1> USE Kinds
<1>0. ASSUME NEW q \in Players PROVE bl[q] \in Cells /\ {q} \in SUBSET Players
      BY DEF IInv, Types
<1>1. ASSUME NEW c \in Walkable, NEW invisible \in BOOLEAN, Login(p, c, invisible) PROVE Kept
      BY <1>1, LoginStep
<1>2. ASSUME NEW c \in Walkable, Jump(p, c) PROVE Kept
      BY <1>0, <1>2, SetPosStep DEF Jump
<1>3. ASSUME NEW q \in Players, NEW c \in Destinations, Warp(q, c) PROVE Kept
      BY <1>0, <1>3, SetPosStep DEF Warp
<1>4. ASSUME NEW q \in Players, Goto(p, q) PROVE Kept
      BY <1>0, <1>4, SetPosStep DEF Goto
<1>5. ASSUME NEW q \in Players, Recall(p, q) PROVE Kept
      BY <1>0, <1>5, SetPosStep DEF Recall
<1>6. ASSUME NEW q \in Players, NEW c \in Destinations, CharWarp(p, q, c) PROVE Kept
      BY <1>3, <1>6 DEF CharWarp
<1>7. ASSUME NEW nd \in Npcs, GotoNpc(p, nd) PROVE Kept
  <2>1. bl[nd] \in Cells
        BY DEF IInv, Types
  <2> QED BY <1>0, <1>7, <2>1, SetPosStep DEF GotoNpc
<1>8. ASSUME Load(p) PROVE Kept
      BY <1>0, <1>8, SetPosStep DEF Load
<1>9. ASSUME RecallAll(p) PROVE Kept
  <2>1. PICK ps \in SUBSET ({q \in Players : Here(q)} \ {p}) : SetPos(ps, bl[p])
        BY <1>9 DEF RecallAll
  <2>2. ps \in SUBSET Players
        OBVIOUS
  <2> QED BY <1>0, <2>1, <2>2, SetPosStep
<1>10. ASSUME NEW d \in Steps, Walk(p, d[1], d[2]) PROVE Kept
      BY <1>10, WalkStep
<1>11. ASSUME NEW c \in Cells, MapQuit(p) \/ SetPosRemote(p, c) PROVE Kept
      BY <1>11, LeftStep
<1>16. ASSUME MapQuit(p) PROVE Kept
      BY <1>11, <1>16
<1>12. ASSUME LoadEndAck(p) PROVE Kept
      BY <1>12, LoadEndAckStep
<1>13. ASSUME Disappear(p) PROVE Kept
      BY <1>13, DisappearStep
<1>14. ASSUME Appear(p) PROVE Kept
      BY <1>14, AppearStep
<1>15. ASSUME StartWalking(p) \/ StopWalking(p) \/ FixPcPos(p) \/ Arrive(p) PROVE Kept
      BY <1>15, WalkingStep
<1> QED BY <1>1, <1>2, <1>3, <1>4, <1>5, <1>6, <1>7, <1>8, <1>9, <1>10, <1>11, <1>12, <1>13, <1>14, <1>15, <1>16
        DEF PlayerStep

LEMMA OthersKeep ==
    ASSUME IInv, \/ \E md \in Mobs : MobStep(md)
                 \/ \E nd \in Npcs : NpcStep(nd)
                 \/ \E fitem \in Items : \/ \E c \in Walkable : AddFloorItem(fitem, c)
                                         \/ ClearFloorItem(fitem)
    PROVE  Kept
<1> USE Kinds
<1>0. ASSUME NEW b \in Beings \ Players PROVE b \in Beings /\ bl[b] \in Cells /\ (b \notin Npcs => b \notin unseen)
      BY DEF IInv, Types
<1>1. ASSUME NEW md \in Mobs, MobStep(md) PROVE Kept
  <2>0. md \in Beings /\ md \notin Players /\ md \notin unseen
        BY <1>0
  <2>1. ASSUME NEW c \in Walkable, MobSpawn(md, c) PROVE Kept
        BY <2>0, <2>1, PlacedStep DEF MobSpawn
  <2>2. ASSUME NEW c \in Walkable, MobWarp(md, c) PROVE Kept
        BY <2>2, MobWarpStep
  <2>3. ASSUME NEW c \in Walkable, LazyWarp(md, c) PROVE Kept
        BY <2>3, LazyWarpStep
  <2>4. ASSUME NEW d \in Steps, MobWalk(md, d[1], d[2]) PROVE Kept
        BY <2>4, MobWalkStep
  <2>5. ASSUME MobDelete(md) PROVE Kept
        BY <2>0, <2>5, RemovedStep DEF MobDelete
  <2>6. ASSUME MobFixPos(md) PROVE Kept
        BY <2>6, MobFixPosStep
  <2> QED BY <1>1, <2>1, <2>2, <2>3, <2>4, <2>5, <2>6 DEF MobStep
<1>2. ASSUME NEW nd \in Npcs, NpcStep(nd) PROVE Kept
  <2>0. nd \in Beings /\ nd \notin Players /\ bl[nd] \in Cells
        BY <1>0
  <2>1. ASSUME NEW c \in Walkable, Puppet(nd, c) PROVE Kept
        BY <2>0, <2>1, PlacedStep DEF Puppet
  <2>2. ASSUME NEW c \in Cells, NpcWarp(nd, c) PROVE Kept
        BY <2>2, NpcWarpStep
  <2>3. ASSUME NEW c \in Destinations, NpcMove(nd, c) PROVE Kept
        BY <2>2, <2>3 DEF NpcMove
  <2>4. ASSUME NpcDisable(nd) \/ NpcEnable(nd) PROVE Kept
        BY <2>4, NpcEnableStep
  <2>5. ASSUME FakeNpcName(nd) PROVE Kept
        BY <2>0, <2>2, <2>5 DEF FakeNpcName
  <2>6. ASSUME NpcFree(nd) PROVE Kept
        BY <2>0, <2>6, RemovedStep DEF NpcFree
  <2> QED BY <1>2, <2>1, <2>2, <2>3, <2>4, <2>5, <2>6 DEF NpcStep
<1>3. ASSUME NEW fitem \in Items, NEW c \in Walkable, AddFloorItem(fitem, c) PROVE Kept
  <2>0. fitem \in Beings /\ fitem \notin Players /\ fitem \notin unseen
        BY <1>0
  <2> QED BY <1>3, <2>0, PlacedStep DEF AddFloorItem
<1>4. ASSUME NEW fitem \in Items, ClearFloorItem(fitem) PROVE Kept
  <2>0. fitem \in Beings /\ fitem \notin Players
        BY <1>0
  <2> QED BY <1>4, <2>0, RemovedStep DEF ClearFloorItem
<1> QED BY <1>1, <1>2, <1>3, <1>4

LEMMA NextKeeps == IInv /\ [Next]_vars => Kept
<1> SUFFICES ASSUME IInv, [Next]_vars PROVE Kept
    OBVIOUS
<1>1. ASSUME NEW p \in Players, PlayerStep(p) PROVE Kept
      BY <1>1, PlayerKeeps
<1>2. ASSUME NEW m \in Maps, NEW c \in Destinations, MapWarp(m, c) PROVE Kept
  <2>1. {p \in Players \cap linked : bl[p].m = m} \in SUBSET Players /\ c \in Cells
        BY Kinds
  <2> QED BY <1>2, <2>1, SetPosStep DEF MapWarp
<1>3. CASE UNCHANGED vars
      BY <1>3, StutterStep
<1> QED BY <1>1, <1>2, <1>3, OthersKeep DEF Next

LEMMA Invariance == Spec => []IInv
<1>1. IInv /\ [Next]_vars => IInv'
      BY NextKeeps DEF Kept
<1> QED BY InitIInv, <1>1, PTL DEF Spec

(* In every state each being is on a cell of its map, only beings that there  *)
(* are stand in the blocks, and no client shows its own player.               *)
THEOREM SightTypes == Spec => []TypeOK
<1>1. IInv => TypeOK
      BY Kinds DEF IInv, Types, TypeOK
<1> QED BY Invariance, <1>1, PTL

(* For any maps and any number of players, monsters, NPCs and items: what is  *)
(* on the screen of a client that has loaded is in the blocks, in its area,   *)
(* and not invisible, whoever walked, warped, left, died or was taken in      *)
(* whatever order.                                                            *)
THEOREM ScreensShowWhatIsThere == Spec => []NothingOfTheGone
<1>1. IInv => NothingOfTheGone
      BY DEF IInv
<1> QED BY Invariance, <1>1, PTL

(* For any maps and any area: no step makes a client lose or miss a being in   *)
(* its area, unless one of the two is near the border of the map.              *)
THEOREM AwayFromBordersNobodyIsMissed == Spec => NobodyIsMissed
<1>1. IInv /\ [Next]_vars => NobodyLost
      BY NextKeeps DEF Kept
<1>2. [][IInv /\ [Next]_vars]_vars => [][NobodyLost]_vars
  <2>1. [IInv /\ [Next]_vars]_vars => [NobodyLost]_vars
        BY <1>1
  <2> QED BY <2>1, PTL
<1>3. Spec => [][IInv /\ [Next]_vars]_vars
      BY Invariance, PTL DEF Spec
<1> QED BY <1>2, <1>3 DEF NobodyIsMissed, NobodyLost
=============================================================================
