--------------------------- MODULE Dialogs_proofs ---------------------------
(***************************************************************************)
(* Proofs about Dialogs for any NPCs, scripts and bounds: nothing is left   *)
(* to an NPC that was freed, and a dialog that was not cut short goes on.   *)
(***************************************************************************)
EXTENDS Dialogs, SequenceTheorems, TLAPS

\* The kinds of positions in a script.
Places == {"any", "ask", "start", "ended"}

\* The scripts that can run now: those of NPCs that are there.
Frames ==
    [oid : Live \cup {nobody}, root : Parents, attached : BOOLEAN, sets : BOOLEAN,
     calls : Nat, at : Places, cmds : Nat]

Sessions ==
    [npc_id : Scripts \cup {nobody}, npc_pos : [root : Parents \cup {nobody}, at : Places],
     stackbuf : Nat, scriptroot : Parents \cup {nobody}, asked : BOOLEAN,
     areanpc : Npcs \cup {nobody}, near : Npcs \cup {nobody}, storage : BOOLEAN,
     queue : Seq(Scripts), timers : SUBSET Scripts]

Types ==
    /\ npc \in [Npcs -> [life : {"absent", "on", "queued", "freed"}, off : BOOLEAN]]
    /\ eventtimer \in SUBSET Scripts
    /\ sd \in Sessions
    /\ run \in Seq(Frames)
    /\ orderly \in BOOLEAN
    /\ bound \in Bounds

\* Of the labels' timer: it has come to an end when their NPC is freed.
FreedInv ==
    /\ Types
    /\ NothingOfTheFreed
    /\ "due" \in DOMAIN scr /\ (scr.due # Never => Exists(Clocked))

-----------------------------------------------------------------------------
\* What a dialog leaves behind when it waits, and what it is with nobody.
CanGoOn ==
    /\ sd.npc_id # nobody => sd.npc_pos.root = Root(sd.npc_id)
    /\ sd.asked => sd.npc_id # nobody /\ sd.npc_pos.at = "ask"
    /\ sd.stackbuf > 0 => sd.npc_id # nobody /\ sd.scriptroot = Root(sd.npc_id)

\* The script r of a dialog runs.
InDialog(r) ==
    /\ r.attached /\ r.oid # nobody /\ r.oid = sd.npc_id /\ r.root = Root(r.oid)
    /\ sd.stackbuf = 0
    /\ sd.asked => r.at = "ask" /\ r.cmds > 0

OneDialog ==
    /\ \A i, j \in 1 .. Len(run) : run[i].attached /\ run[j].attached => i = j
    /\ \A i \in 1 .. Len(run) : run[i].sets => InDialog(run[i])
    /\ \A i \in 1 .. Len(run) : run[i].attached /\ ~run[i].sets => sd.npc_id = nobody
    /\ (\A i \in 1 .. Len(run) : ~run[i].sets) => CanGoOn

DialogInv == FreedInv /\ (orderly => OneDialog)

\* What a step leaves to be shown of the scripts and the player.
Went ==
    /\ sd' \in Sessions /\ run' \in Seq(Frames') /\ orderly' \in BOOLEAN
    /\ orderly' => OneDialog'

\* Of a session, what its dialog depends on.
SameDialog(s, t) ==
    /\ t.npc_id = s.npc_id /\ t.npc_pos = s.npc_pos
    /\ t.stackbuf = s.stackbuf /\ t.scriptroot = s.scriptroot /\ t.asked = s.asked

-----------------------------------------------------------------------------
(* Sessions and stacks. *)

LEMMA Known ==
    /\ nobody \notin Npcs /\ Scripts \subseteq Npcs /\ Parents \subseteq Scripts
    /\ Puppets \subseteq Scripts /\ Touchy \subseteq Scripts /\ Clocked \in Parents
    /\ \A n \in Scripts : Root(n) \in Parents
    /\ \A n \in Npcs : n \notin Shops => n \in Scripts
    /\ \A b \in Bounds : b.commands \in Nat /\ b.commands > 0
BY DialogsAssumption DEF Npcs, Scripts, Root

LEMMA Fields ==
    ASSUME NEW s \in Sessions
    PROVE  /\ s.npc_id \in Scripts \cup {nobody}
           /\ s.npc_pos \in [root : Parents \cup {nobody}, at : Places]
           /\ s.stackbuf \in Nat /\ s.scriptroot \in Parents \cup {nobody} /\ s.asked \in BOOLEAN
           /\ s.areanpc \in Npcs \cup {nobody} /\ s.near \in Npcs \cup {nobody}
           /\ s.storage \in BOOLEAN /\ s.queue \in Seq(Scripts) /\ s.timers \in SUBSET Scripts
           /\ s = [npc_id |-> s.npc_id, npc_pos |-> s.npc_pos, stackbuf |-> s.stackbuf,
                   scriptroot |-> s.scriptroot, asked |-> s.asked, areanpc |-> s.areanpc,
                   near |-> s.near, storage |-> s.storage, queue |-> s.queue, timers |-> s.timers]
BY DEF Sessions

LEMMA SessionSets ==
    ASSUME NEW s \in Sessions
    PROVE  /\ \A n \in Scripts \cup {nobody} :
                 /\ [s EXCEPT !.npc_id = n] \in Sessions
                 /\ [s EXCEPT !.npc_id = n].npc_id = n
                 /\ [s EXCEPT !.npc_id = n].npc_pos = s.npc_pos
                 /\ [s EXCEPT !.npc_id = n].stackbuf = s.stackbuf
                 /\ [s EXCEPT !.npc_id = n].scriptroot = s.scriptroot
                 /\ [s EXCEPT !.npc_id = n].asked = s.asked
           /\ \A n \in Npcs \cup {nobody} :
                 /\ [s EXCEPT !.near = n] \in Sessions /\ SameDialog(s, [s EXCEPT !.near = n])
                 /\ [s EXCEPT !.areanpc = n] \in Sessions /\ SameDialog(s, [s EXCEPT !.areanpc = n])
           /\ \A b \in BOOLEAN :
                 /\ [s EXCEPT !.storage = b] \in Sessions /\ SameDialog(s, [s EXCEPT !.storage = b])
                 /\ [s EXCEPT !.asked = b] \in Sessions /\ [s EXCEPT !.asked = b].asked = b
                 /\ [s EXCEPT !.asked = b].npc_id = s.npc_id
                 /\ [s EXCEPT !.asked = b].npc_pos = s.npc_pos
                 /\ [s EXCEPT !.asked = b].stackbuf = s.stackbuf
                 /\ [s EXCEPT !.asked = b].scriptroot = s.scriptroot
           /\ \A q \in Seq(Scripts) :
                 [s EXCEPT !.queue = q] \in Sessions /\ SameDialog(s, [s EXCEPT !.queue = q])
           /\ \A t \in SUBSET Scripts :
                 [s EXCEPT !.timers = t] \in Sessions /\ SameDialog(s, [s EXCEPT !.timers = t])
<1>1. ASSUME NEW n \in Scripts \cup {nobody}
      PROVE  /\ [s EXCEPT !.npc_id = n] \in Sessions
             /\ [s EXCEPT !.npc_id = n].npc_id = n
             /\ [s EXCEPT !.npc_id = n].npc_pos = s.npc_pos
             /\ [s EXCEPT !.npc_id = n].stackbuf = s.stackbuf
             /\ [s EXCEPT !.npc_id = n].scriptroot = s.scriptroot
             /\ [s EXCEPT !.npc_id = n].asked = s.asked
      BY DEF Sessions
<1>2. ASSUME NEW n \in Npcs \cup {nobody}
      PROVE  /\ [s EXCEPT !.near = n] \in Sessions /\ SameDialog(s, [s EXCEPT !.near = n])
             /\ [s EXCEPT !.areanpc = n] \in Sessions /\ SameDialog(s, [s EXCEPT !.areanpc = n])
      BY DEF Sessions, SameDialog
<1>3. ASSUME NEW b, b \in BOOLEAN
      PROVE  /\ [s EXCEPT !.storage = b] \in Sessions /\ SameDialog(s, [s EXCEPT !.storage = b])
             /\ [s EXCEPT !.asked = b] \in Sessions /\ [s EXCEPT !.asked = b].asked = b
             /\ [s EXCEPT !.asked = b].npc_id = s.npc_id
             /\ [s EXCEPT !.asked = b].npc_pos = s.npc_pos
             /\ [s EXCEPT !.asked = b].stackbuf = s.stackbuf
             /\ [s EXCEPT !.asked = b].scriptroot = s.scriptroot
      BY <1>3 DEF Sessions, SameDialog
<1>4. ASSUME NEW q \in Seq(Scripts)
      PROVE  [s EXCEPT !.queue = q] \in Sessions /\ SameDialog(s, [s EXCEPT !.queue = q])
      BY DEF Sessions, SameDialog
<1>5. ASSUME NEW t \in SUBSET Scripts
      PROVE  [s EXCEPT !.timers = t] \in Sessions /\ SameDialog(s, [s EXCEPT !.timers = t])
      BY DEF Sessions, SameDialog
<1> QED BY <1>1, <1>2, <1>3, <1>4, <1>5

LEMMA Cut ==
    ASSUME NEW S, NEW q \in Seq(S), q # << >>
    PROVE  /\ SubSeq(q, 1, Len(q) - 1) \in Seq(S)
           /\ Len(SubSeq(q, 1, Len(q) - 1)) = Len(q) - 1
           /\ \A i \in 1 .. Len(q) - 1 : SubSeq(q, 1, Len(q) - 1)[i] = q[i]
           /\ Len(q) \in Nat \ {0} /\ q[Len(q)] \in S
<1>1. Len(q) \in Nat \ {0}
      BY EmptySeq
<1> DEFINE n == Len(q) - 1
<1>2. n \in Int /\ 1 \in Int /\ n \in Nat
      BY <1>1
<1>3. \A i \in 1 .. Len(q) : q[i] \in S
      BY ElementOfSeq
<1>4. \A i \in 1 .. n : q[i] \in S
      BY <1>1, <1>3
<1>5. q[Len(q)] \in S
      BY <1>1, <1>3
<1> HIDE DEF n
<1>6. /\ SubSeq(q, 1, n) \in Seq(S)
      /\ Len(SubSeq(q, 1, n)) = IF 1 <= n THEN n - 1 + 1 ELSE 0
      /\ \A i \in 1 .. n - 1 + 1 : SubSeq(q, 1, n)[i] = q[1 + i - 1]
      BY <1>2, <1>4
<1>7. Len(SubSeq(q, 1, n)) = n /\ \A i \in 1 .. n : SubSeq(q, 1, n)[i] = q[i]
      BY <1>2, <1>6
<1> QED BY <1>1, <1>5, <1>6, <1>7 DEF n

LEMMA Added ==
    ASSUME NEW S, NEW q \in Seq(S), NEW e \in S
    PROVE  /\ Append(q, e) \in Seq(S) /\ Len(Append(q, e)) = Len(q) + 1 /\ Len(q) \in Nat
           /\ \A i \in 1 .. Len(q) : Append(q, e)[i] = q[i]
           /\ Append(q, e)[Len(q) + 1] = e
BY AppendProperties

\* Scripts are ready for a statement: the innermost has commands left, and no question.
Ready == run # << >> => Top.cmds > 0 /\ Top.at # "ask"

LEMMA TopIs ==
    ASSUME Types, run # << >>
    PROVE  /\ Len(run) \in Nat \ {0} /\ Len(run) \in 1 .. Len(run)
           /\ Top \in Frames /\ Top = run[Len(run)]
           /\ Outer \in Seq(Frames) /\ Len(Outer) = Len(run) - 1
           /\ \A i \in 1 .. Len(run) - 1 : Outer[i] = run[i] /\ i \in 1 .. Len(run)
<1>1. run \in Seq(Frames)
      BY DEF Types
<1> QED BY <1>1, Cut DEF Top, Outer

LEMMA FrameSets ==
    ASSUME NEW r \in Frames
    PROVE  /\ \A k \in Nat : [r EXCEPT !.cmds = k] \in Frames
           /\ \A e \in Places : [r EXCEPT !.at = e] \in Frames
           /\ \A k \in Nat : [r EXCEPT !.calls = k] \in Frames
           /\ \A b \in BOOLEAN : [r EXCEPT !.attached = b] \in Frames
           /\ [r EXCEPT !.oid = nobody] \in Frames
BY DEF Frames

LEMMA FrameFields ==
    ASSUME NEW r \in Frames
    PROVE  /\ r.cmds \in Nat /\ r.calls \in Nat /\ r.attached \in BOOLEAN /\ r.sets \in BOOLEAN
           /\ r.oid \in Live \cup {nobody} /\ r.root \in Parents
BY DEF Frames

LEMMA SpentIs ==
    ASSUME Types, run # << >>, Top.cmds > 0
    PROVE  /\ Spent \in Frames /\ Spent.at = "any" /\ Spent.oid = Top.oid /\ Spent.root = Top.root
           /\ Spent.attached = Top.attached /\ Spent.sets = Top.sets /\ Spent.calls = Top.calls
<1>1. Top \in Frames
      BY TopIs
<1>2. Top.cmds - 1 \in Nat
      BY <1>1, FrameFields
<1> DEFINE fewer == [Top EXCEPT !.cmds = Top.cmds - 1]
<1>3. fewer \in Frames
      BY <1>1, <1>2, FrameSets
<1>4. Spent = [fewer EXCEPT !.at = "any"]
      BY DEF Spent
<1>5. Spent \in Frames
  <2> HIDE DEF fewer
  <2> QED BY <1>3, <1>4 DEF Frames, Places
<1>6. fewer.oid = Top.oid /\ fewer.root = Top.root /\ fewer.attached = Top.attached
      /\ fewer.sets = Top.sets /\ fewer.calls = Top.calls
      BY <1>1 DEF Frames
<1>7. Spent.at = "any" /\ Spent.oid = fewer.oid /\ Spent.root = fewer.root
      /\ Spent.attached = fewer.attached /\ Spent.sets = fewer.sets /\ Spent.calls = fewer.calls
  <2> HIDE DEF fewer
  <2> QED BY <1>3, <1>4 DEF Frames
<1> QED BY <1>5, <1>6, <1>7

LEMMA BaseIs ==
    ASSUME Types, Ready
    PROVE  /\ Base \in Seq(Frames) /\ Len(Base) = Len(run) /\ Len(run) \in Nat
           /\ \A i \in 1 .. Len(run) : Base[i] = run[i] \/ (i = Len(run) /\ Base[i] = Spent)
           /\ \A i \in 1 .. Len(run) :
                 /\ Base[i].attached = run[i].attached /\ Base[i].sets = run[i].sets
                 /\ Base[i].oid = run[i].oid /\ Base[i].root = run[i].root
                 /\ run[i].at = "ask" => Base[i] = run[i]
<1>1. CASE run = << >>
      BY <1>1, EmptySeq DEF Base, Types
<1>2. CASE run # << >>
  <2>1. Spent \in Frames /\ Spent.oid = Top.oid /\ Spent.root = Top.root
        /\ Spent.attached = Top.attached /\ Spent.sets = Top.sets
        BY <1>2, SpentIs DEF Ready
  <2>2. /\ Base \in Seq(Frames) /\ Len(Base) = Len(Outer) + 1
        /\ \A i \in 1 .. Len(Outer) : Base[i] = Outer[i]
        /\ Base[Len(Outer) + 1] = Spent
        BY <1>2, <2>1, TopIs, Added DEF Base
  <2>3. /\ Len(run) \in Nat \ {0} /\ Len(Base) = Len(run)
        /\ \A i \in 1 .. Len(run) - 1 : Base[i] = run[i]
        /\ Base[Len(run)] = Spent /\ Top = run[Len(run)]
        BY <1>2, <2>2, TopIs
  <2>4. \A i \in 1 .. Len(run) : i \in 1 .. Len(run) - 1 \/ i = Len(run)
        BY <2>3
  <2> QED BY <1>2, <2>1, <2>2, <2>3, <2>4 DEF Ready
<1> QED BY <1>1, <1>2

-----------------------------------------------------------------------------
(* What the steps do to the dialog of the player. *)

LEMMA FramesKept ==
    ASSUME Live \subseteq Live'
    PROVE  Frames \subseteq Frames' /\ \A q \in Seq(Frames) : q \in Seq(Frames')
<1>1. Frames \subseteq Frames'
      BY DEF Frames
<1>2. ASSUME NEW q \in Seq(Frames) PROVE q \in Seq(Frames')
      BY <1>1, <1>2
<1> QED BY <1>1, <1>2

LEMMA NotOpen ==
    ASSUME Types, OneDialog, ~SomebodyAttached, ~Open(sd)
    PROVE  sd.npc_id = nobody /\ CanGoOn
<1>1. \A i \in 1 .. Len(run) : ~run[i].sets
      BY DEF OneDialog, InDialog, SomebodyAttached
<1>2. CanGoOn
      BY <1>1 DEF OneDialog
<1>3. sd.npc_id # nobody => sd.npc_pos.root # nobody
      BY <1>2, Known, Fields DEF CanGoOn, Types
<1> QED BY <1>2, <1>3 DEF Open, Ended

\* The script that runs goes on, or none does; the dialog is as it was.
LEMMA QuietStep ==
    ASSUME DialogInv, Live \subseteq Live', Ready, run' = Base, sd' \in Sessions,
           orderly' \in BOOLEAN, orderly' => orderly /\ SameDialog(sd, sd')
    PROVE  Went
<1>1. Types
      BY DEF DialogInv, FreedInv
<1>2. run' \in Seq(Frames')
      BY <1>1, BaseIs, FramesKept
<1>3. ASSUME orderly' PROVE OneDialog'
  <2>1. OneDialog /\ SameDialog(sd, sd')
        BY <1>3 DEF DialogInv
  <2>2. Len(run') = Len(run)
        BY <1>1, BaseIs
  <2>3. ASSUME NEW i \in 1 .. Len(run)
        PROVE  /\ run'[i].attached = run[i].attached /\ run'[i].sets = run[i].sets
               /\ run[i].sets => InDialog(run[i])'
    <3>1. /\ run'[i].attached = run[i].attached /\ run'[i].sets = run[i].sets
          /\ run'[i].oid = run[i].oid /\ run'[i].root = run[i].root
          /\ run[i].at = "ask" => run'[i] = run[i]
          BY <1>1, BaseIs
    <3>2. run[i].sets => InDialog(run[i])
          BY <2>1 DEF OneDialog
    <3> QED BY <2>1, <3>1, <3>2 DEF InDialog, SameDialog
  <2>4. (\A i \in 1 .. Len(run) : ~run[i].sets) => CanGoOn'
        BY <2>1 DEF OneDialog, SameDialog, CanGoOn
  <2> QED BY <2>1, <2>2, <2>3, <2>4 DEF OneDialog, SameDialog
<1> QED BY <1>2, <1>3 DEF Went

\* A script starts: for nobody, for the player alone, or as the player's dialog.
LEMMA StartedStep ==
    ASSUME DialogInv, Live \subseteq Live', Ready, NEW f, f \in Frames', run' = Append(Base, f),
           sd' \in Sessions, orderly' \in BOOLEAN,
           orderly' => orderly,
           orderly' => \/ ~f.attached /\ ~f.sets /\ SameDialog(sd, sd')
                       \/ /\ ~SomebodyAttached /\ ~f.sets /\ SameDialog(sd, sd') /\ sd.npc_id = nobody
                       \/ ~SomebodyAttached /\ f.sets /\ InDialog(f)'
    PROVE  Went
<1>1. Types
      BY DEF DialogInv, FreedInv
<1>2. Base \in Seq(Frames')
      BY <1>1, BaseIs, FramesKept
<1>3. /\ run' \in Seq(Frames') /\ Len(run') = Len(run) + 1 /\ Len(run) \in Nat
      /\ \A i \in 1 .. Len(run) : run'[i] = Base[i]
      /\ run'[Len(run) + 1] = f
      BY <1>1, <1>2, BaseIs, Added
<1>4. \A i \in 1 .. Len(run') : i \in 1 .. Len(run) \/ i = Len(run) + 1
      BY <1>3
<1>5. ASSUME NEW i \in 1 .. Len(run)
      PROVE  /\ run'[i].attached = run[i].attached /\ run'[i].sets = run[i].sets
             /\ run'[i].oid = run[i].oid /\ run'[i].root = run[i].root
             /\ run[i].at = "ask" => run'[i] = run[i]
      BY <1>1, <1>3, BaseIs
<1>6. ASSUME orderly' PROVE OneDialog'
  <2>0. OneDialog /\ 1 .. Len(run) \subseteq 1 .. Len(run') /\ Len(run) + 1 \in 1 .. Len(run')
        BY <1>3, <1>6 DEF DialogInv
  <2>1. CASE ~f.attached /\ ~f.sets /\ SameDialog(sd, sd')
    <3>1. ASSUME NEW i \in 1 .. Len(run), run[i].sets PROVE InDialog(run[i])'
          BY <1>5, <2>0, <2>1, <3>1 DEF OneDialog, InDialog, SameDialog
    <3>2. (\A i \in 1 .. Len(run) : ~run[i].sets) => CanGoOn'
          BY <2>0, <2>1 DEF OneDialog, CanGoOn, SameDialog
    <3>3. ASSUME NEW i \in 1 .. Len(run'), run'[i].attached \/ run'[i].sets
          PROVE  /\ i \in 1 .. Len(run)
                 /\ run'[i].attached = run[i].attached /\ run'[i].sets = run[i].sets
          BY <1>3, <1>4, <1>5, <2>1, <3>3
    <3>4. (\A i \in 1 .. Len(run') : ~run'[i].sets) => CanGoOn'
          BY <1>5, <2>0, <3>2
    <3>5. sd'.npc_id = sd.npc_id
          BY <2>1 DEF SameDialog
    <3> QED BY <2>0, <3>1, <3>3, <3>4, <3>5 DEF OneDialog
  <2>2. CASE ~SomebodyAttached /\ ~f.sets /\ SameDialog(sd, sd') /\ sd.npc_id = nobody
    <3>1. \A i \in 1 .. Len(run) : ~run[i].attached /\ ~run[i].sets
          BY <2>0, <2>2 DEF SomebodyAttached, OneDialog, InDialog
    <3>2. CanGoOn'
          BY <2>0, <2>2, <3>1 DEF OneDialog, CanGoOn, SameDialog
    <3>3. sd'.npc_id = nobody
          BY <2>2 DEF SameDialog
    <3> QED BY <1>3, <1>4, <1>5, <2>2, <3>1, <3>2, <3>3 DEF OneDialog
  <2>3. CASE ~SomebodyAttached /\ f.sets /\ InDialog(f)'
    <3>1. \A i \in 1 .. Len(run) : ~run[i].attached /\ ~run[i].sets
          BY <2>0, <2>3 DEF SomebodyAttached, OneDialog, InDialog
    <3> QED BY <1>3, <1>4, <1>5, <2>0, <2>3, <3>1 DEF OneDialog
  <2> QED BY <1>6, <2>1, <2>2, <2>3
<1> QED BY <1>3, <1>6 DEF Went

\* The innermost script goes on as r.
LEMMA GoesOnStep ==
    ASSUME DialogInv, Live \subseteq Live', run # << >>, NEW r, r \in Frames',
           run' = Append(Outer, r), sd' \in Sessions, orderly' \in BOOLEAN, orderly' => orderly,
           orderly' => /\ sd'.npc_id = sd.npc_id /\ sd'.npc_pos = sd.npc_pos
                       /\ sd'.stackbuf = sd.stackbuf /\ sd'.scriptroot = sd.scriptroot
                       /\ sd'.asked => sd.asked
                       /\ r.sets = Top.sets /\ r.root = Top.root
                       /\ Top.sets => r.attached /\ r.oid = Top.oid /\ (Top.at = "ask" => ~sd'.asked)
                       /\ r.attached => \/ Top.attached
                                        \/ ~SomebodyAttached /\ sd.npc_id = nobody
    PROVE  Went
<1>1. Types
      BY DEF DialogInv, FreedInv
<1>2. Outer \in Seq(Frames')
      BY <1>1, TopIs, FramesKept
<1>3. /\ run' \in Seq(Frames') /\ Len(run') = Len(run) /\ Len(run) \in Nat \ {0}
      /\ \A i \in 1 .. Len(run) - 1 : run'[i] = run[i]
      /\ run'[Len(run)] = r /\ run[Len(run)] = Top /\ Len(run) \in 1 .. Len(run)
      BY <1>1, <1>2, TopIs, Added
<1>4. \A i \in 1 .. Len(run) : i \in 1 .. Len(run) - 1 \/ i = Len(run)
      BY <1>3
<1>6. ASSUME orderly' PROVE OneDialog'
  <2>0. OneDialog /\ 1 .. Len(run) - 1 \subseteq 1 .. Len(run)
        BY <1>3, <1>6 DEF DialogInv
  <2>1. ASSUME NEW i \in 1 .. Len(run), run'[i].sets PROVE InDialog(run[i])'
    <3>0. run[i].sets
          BY <1>3, <1>4, <1>6, <2>1
    <3>1. InDialog(run[i])
          BY <2>0, <3>0 DEF OneDialog
    <3>2. CASE i = Len(run)
          BY <1>3, <1>6, <2>1, <3>1, <3>2 DEF InDialog
    <3>3. CASE i \in 1 .. Len(run) - 1
          BY <1>3, <1>6, <3>1, <3>3 DEF InDialog
    <3> QED BY <1>4, <3>2, <3>3
  <2>2. ASSUME \A i \in 1 .. Len(run) : ~run'[i].sets PROVE CanGoOn'
    <3>1. \A i \in 1 .. Len(run) : ~run[i].sets
          BY <1>3, <1>4, <1>6, <2>2
    <3> QED BY <1>6, <2>0, <3>1 DEF OneDialog, CanGoOn
  <2>3. ASSUME NEW i \in 1 .. Len(run), NEW j \in 1 .. Len(run), run'[i].attached, run'[j].attached
        PROVE  i = j
    <3>1. CASE Top.attached \/ ~r.attached
          BY <1>3, <1>4, <2>0, <2>3, <3>1 DEF OneDialog
    <3>2. CASE ~SomebodyAttached
          BY <1>3, <1>4, <2>0, <2>3, <3>2 DEF SomebodyAttached
    <3> QED BY <1>6, <3>1, <3>2
  <2>4. ASSUME NEW i \in 1 .. Len(run), run'[i].attached, ~run'[i].sets PROVE sd'.npc_id = nobody
    <3>1. CASE i = Len(run)
          BY <1>3, <1>6, <2>0, <2>4, <3>1 DEF OneDialog
    <3>2. CASE i \in 1 .. Len(run) - 1
          BY <1>3, <1>6, <2>0, <2>4, <3>2 DEF OneDialog
    <3> QED BY <1>4, <3>1, <3>2
  <2> QED BY <1>3, <2>1, <2>2, <2>3, <2>4 DEF OneDialog
<1> QED BY <1>3, <1>6 DEF Went

\* The innermost script has come to its end, or waits for the player.
LEMMA LeftStep ==
    ASSUME DialogInv, Live \subseteq Live', run # << >>, run' = Outer, sd' \in Sessions,
           orderly' \in BOOLEAN, orderly' => orderly,
           orderly' => IF Top.sets THEN CanGoOn' ELSE SameDialog(sd, sd')
    PROVE  Went
<1>1. Types
      BY DEF DialogInv, FreedInv
<1>2. run' \in Seq(Frames')
      BY <1>1, TopIs, FramesKept
<1>3. /\ Len(run') = Len(run) - 1 /\ Len(run) \in Nat \ {0}
      /\ \A i \in 1 .. Len(run) - 1 : run'[i] = run[i] /\ i \in 1 .. Len(run) /\ i # Len(run)
      /\ run[Len(run)] = Top /\ Len(run) \in 1 .. Len(run)
      BY <1>1, TopIs
<1>4. \A i \in 1 .. Len(run) : i \in 1 .. Len(run) - 1 \/ i = Len(run)
      BY <1>3
<1>6. ASSUME orderly' PROVE OneDialog'
  <2>0. OneDialog
        BY <1>6 DEF DialogInv
  <2>1. CASE Top.sets
    <3>1. \A i \in 1 .. Len(run) - 1 : ~run[i].attached /\ ~run[i].sets
          BY <1>3, <2>0, <2>1 DEF OneDialog, InDialog
    <3> QED BY <1>3, <1>6, <2>1, <3>1 DEF OneDialog
  <2>2. CASE ~Top.sets
    <3>1. ASSUME NEW i \in 1 .. Len(run) - 1, run[i].sets PROVE InDialog(run[i])'
          BY <1>3, <1>6, <2>0, <2>2, <3>1 DEF OneDialog, InDialog, SameDialog
    <3>2. (\A i \in 1 .. Len(run) - 1 : ~run[i].sets) => CanGoOn'
          BY <1>3, <1>4, <1>6, <2>0, <2>2 DEF OneDialog, CanGoOn, SameDialog
    <3> QED BY <1>3, <1>6, <2>0, <2>2, <3>1, <3>2 DEF OneDialog, SameDialog
  <2> QED BY <2>1, <2>2
<1> QED BY <1>2, <1>6 DEF Went

-----------------------------------------------------------------------------
(* Events, clicks and scripts that start. *)

LEMMA DequeuedIs ==
    ASSUME NEW s \in Sessions
    PROVE  /\ Dequeued(s) \in Sessions /\ Dequeued(s).npc_id = nobody
           /\ Dequeued(s).npc_pos = s.npc_pos /\ Dequeued(s).stackbuf = s.stackbuf
           /\ Dequeued(s).scriptroot = s.scriptroot /\ Dequeued(s).asked = s.asked
<1> DEFINE free == [s EXCEPT !.npc_id = nobody]
           timed == [free EXCEPT !.timers = s.timers \cup {Head(s.queue)}]
           next == [timed EXCEPT !.queue = Tail(s.queue)]
<1>1. /\ free \in Sessions /\ free.npc_id = nobody /\ free.npc_pos = s.npc_pos
      /\ free.stackbuf = s.stackbuf /\ free.scriptroot = s.scriptroot /\ free.asked = s.asked
      BY SessionSets
<1>2. Dequeued(s) \in {free, next}
  <2>1. free.timers = s.timers /\ free.queue = s.queue
        BY DEF Sessions
  <2> QED BY <2>1 DEF Dequeued
<1>3. CASE Dequeued(s) = free
      BY <1>1, <1>3
<1>4. CASE s.queue = << >>
      BY <1>1, <1>4 DEF Dequeued
<1>5. CASE Dequeued(s) = next /\ s.queue # << >>
  <2>1. s.queue \in Seq(Scripts) /\ s.timers \in SUBSET Scripts
        BY Fields
  <2>2. Head(s.queue) \in Scripts /\ Tail(s.queue) \in Seq(Scripts)
        BY <1>5, <2>1, HeadTailProperties
  <2>3. s.timers \cup {Head(s.queue)} \in SUBSET Scripts
        BY <2>1, <2>2
  <2> HIDE DEF free
  <2>4. timed \in Sessions /\ SameDialog(free, timed)
        BY <1>1, <2>3, SessionSets
  <2> HIDE DEF timed
  <2>5. next \in Sessions /\ SameDialog(timed, next)
        BY <2>2, <2>4, SessionSets
  <2> QED BY <1>1, <1>5, <2>4, <2>5 DEF SameDialog
<1> QED BY <1>2, <1>3, <1>4, <1>5

LEMMA DetachedIs ==
    ASSUME NEW s \in Sessions
    PROVE  /\ Detached(s) \in Sessions
           /\ Detached(s) = s \/ (s.npc_id # nobody /\ Detached(s).npc_id = nobody)
           /\ Detached(s).npc_pos = s.npc_pos /\ Detached(s).stackbuf = s.stackbuf
           /\ Detached(s).scriptroot = s.scriptroot /\ Detached(s).asked = s.asked
BY DequeuedIs DEF Detached

LEMMA BeginIs ==
    ASSUME Types, Live \subseteq Live', NEW s \in Sessions, NEW n \in Scripts, n \in Live',
           NEW kind, kind \in Places, NEW attached, attached \in BOOLEAN, NEW sets, sets \in BOOLEAN,
           Begin(s, n, kind, attached, sets)
    PROVE  /\ sd' \in Sessions /\ sd'.npc_id = s.npc_id /\ sd'.npc_pos = s.npc_pos
           /\ sd'.scriptroot = s.scriptroot /\ sd'.asked = s.asked
           /\ s.stackbuf = 0 => sd'.stackbuf = 0
           /\ attached /\ s.scriptroot = Root(n) => sd'.stackbuf = 0
           /\ ~attached => sd' = s
           /\ \E f : /\ f \in Frames' /\ run' = Append(Base, f)
                     /\ f.oid = n /\ f.root = Root(n) /\ f.attached = attached /\ f.sets = sets
                     /\ f.at = kind /\ f.cmds > 0
<1> DEFINE restored == attached /\ s.stackbuf > 0 /\ s.scriptroot = Root(n)
           f == [oid |-> n, root |-> Root(n), attached |-> attached, sets |-> sets,
                 calls |-> IF restored THEN s.stackbuf ELSE 0, at |-> kind, cmds |-> bound.commands]
<1>1. sd' = (IF restored THEN [s EXCEPT !.stackbuf = 0] ELSE s) /\ run' = Append(Base, f)
      BY DEF Begin
<1>2. /\ [s EXCEPT !.stackbuf = 0] \in Sessions /\ [s EXCEPT !.stackbuf = 0].stackbuf = 0
      /\ [s EXCEPT !.stackbuf = 0].npc_id = s.npc_id
      /\ [s EXCEPT !.stackbuf = 0].npc_pos = s.npc_pos
      /\ [s EXCEPT !.stackbuf = 0].scriptroot = s.scriptroot
      /\ [s EXCEPT !.stackbuf = 0].asked = s.asked
      BY DEF Sessions
<1>3. s.stackbuf \in Nat
      BY Fields
<1>4. bound.commands \in Nat /\ bound.commands > 0 /\ Root(n) \in Parents
      BY Known DEF Types
<1>5. f \in Frames'
  <2>1. (IF restored THEN s.stackbuf ELSE 0) \in Nat
        BY <1>3
  <2> HIDE DEF restored
  <2> QED BY <1>4, <2>1 DEF Frames
<1>6. f.oid = n /\ f.root = Root(n) /\ f.attached = attached /\ f.sets = sets /\ f.at = kind /\ f.cmds > 0
      BY <1>4
<1> HIDE DEF f
<1> QED BY <1>1, <1>2, <1>3, <1>5, <1>6

LEMMA BeginAlone ==
    ASSUME Types, Live \subseteq Live', NEW s \in Sessions, NEW n \in Scripts, n \in Live',
           NEW attached, attached \in BOOLEAN, Begin(s, n, "any", attached, FALSE)
    PROVE  /\ sd' \in Sessions /\ sd'.npc_id = s.npc_id /\ sd'.npc_pos = s.npc_pos
           /\ sd'.scriptroot = s.scriptroot /\ sd'.asked = s.asked
           /\ s.stackbuf = 0 => sd'.stackbuf = 0
           /\ ~attached => sd' = s
           /\ \E f : /\ f \in Frames' /\ run' = Append(Base, f)
                     /\ f.attached = attached /\ ~f.sets
<1> DEFINE sets == FALSE
           kind == "any"
<1>1. sets \in BOOLEAN /\ kind \in Places /\ Begin(s, n, kind, attached, sets) /\ ~sets
      BY DEF Places
<1> HIDE DEF sets, kind
<1>2. /\ sd' \in Sessions /\ sd'.npc_id = s.npc_id /\ sd'.npc_pos = s.npc_pos
      /\ sd'.scriptroot = s.scriptroot /\ sd'.asked = s.asked
      /\ s.stackbuf = 0 => sd'.stackbuf = 0
      /\ ~attached => sd' = s
      BY <1>1, BeginIs
<1>3. \E f : /\ f \in Frames' /\ run' = Append(Base, f) /\ f.attached = attached /\ f.sets = sets
      BY <1>1, BeginIs
<1> QED BY <1>1, <1>2, <1>3

\* A script of n starts at kind, as the player's dialog.
Opens(n, kind) ==
    \E f : /\ f \in Frames' /\ run' = Append(Base, f)
          /\ f.oid = n /\ f.root = Root(n) /\ f.attached /\ f.sets
          /\ f.at = kind /\ f.cmds > 0

LEMMA BeginDialog ==
    ASSUME Types, Live \subseteq Live', NEW s \in Sessions, NEW n \in Scripts, n \in Live',
           NEW kind, kind \in Places, Begin(s, n, kind, TRUE, TRUE)
    PROVE  /\ sd' \in Sessions /\ sd'.npc_id = s.npc_id /\ sd'.asked = s.asked
           /\ s.stackbuf = 0 \/ s.scriptroot = Root(n) => sd'.stackbuf = 0
           /\ Opens(n, kind)
<1> DEFINE attached == TRUE
           sets == TRUE
<1>1. attached \in BOOLEAN /\ sets \in BOOLEAN /\ Begin(s, n, kind, attached, sets)
      OBVIOUS
<1>4. attached = TRUE /\ sets = TRUE
      OBVIOUS
<1> HIDE DEF attached, sets
<1>2. /\ sd' \in Sessions /\ sd'.npc_id = s.npc_id /\ sd'.asked = s.asked
      /\ s.stackbuf = 0 => sd'.stackbuf = 0
      /\ attached /\ s.scriptroot = Root(n) => sd'.stackbuf = 0
      BY ONLY Types, Live \subseteq Live', s \in Sessions, n \in Scripts, n \in Live',
         kind \in Places, <1>1, BeginIs
<1>3. \E f : /\ f \in Frames' /\ run' = Append(Base, f)
             /\ f.oid = n /\ f.root = Root(n) /\ f.attached = attached /\ f.sets = sets
             /\ f.at = kind /\ f.cmds > 0
      BY <1>1, BeginIs
<1>5. Opens(n, kind)
      BY <1>3, <1>4 DEF Opens
<1> QED BY <1>2, <1>4, <1>5

\* A script that nobody, or the player alone, is attached to
LEMMA AloneStep ==
    ASSUME DialogInv, Live \subseteq Live', Ready, NEW n \in Scripts, n \in Live',
           NEW attached, attached \in BOOLEAN, Begin(sd, n, "any", attached, FALSE),
           orderly' \in BOOLEAN, orderly' => orderly,
           orderly' => ~attached \/ (~SomebodyAttached /\ ~Open(sd))
    PROVE  Went
<1>1. Types /\ sd \in Sessions
      BY DEF DialogInv, FreedInv, Types
<1>2. /\ sd' \in Sessions /\ sd'.npc_id = sd.npc_id /\ sd'.npc_pos = sd.npc_pos
      /\ sd'.scriptroot = sd.scriptroot /\ sd'.asked = sd.asked
      /\ sd.stackbuf = 0 => sd'.stackbuf = 0
      /\ ~attached => sd' = sd
      BY <1>1, BeginAlone
<1>3. PICK f : /\ f \in Frames' /\ run' = Append(Base, f)
               /\ f.attached = attached /\ ~f.sets
      BY <1>1, BeginAlone
<1>4. ASSUME orderly', attached PROVE ~SomebodyAttached /\ SameDialog(sd, sd') /\ sd.npc_id = nobody
  <2>1. sd.npc_id = nobody /\ CanGoOn /\ ~SomebodyAttached
        BY <1>1, <1>4, NotOpen DEF DialogInv
  <2>2. sd.stackbuf = 0
        BY <1>1, <2>1, Fields DEF CanGoOn
  <2> QED BY <1>2, <2>1, <2>2 DEF SameDialog
<1>5. ~attached => SameDialog(sd, sd')
      BY <1>2 DEF SameDialog
<1> QED BY <1>2, <1>3, <1>4, <1>5, StartedStep

LEMMA EventStep ==
    ASSUME DialogInv, Live \subseteq Live', Ready, NEW s \in Sessions, SameDialog(sd, s),
           NEW n \in Scripts, NEW args, args \in BOOLEAN, NEW off, off \in BOOLEAN,
           Event(s, n, args, off)
    PROVE  Went
<1> DEFINE t == Detached(s)
<1>0. Types /\ orderly \in BOOLEAN /\ sd \in Sessions
      BY DEF DialogInv, FreedInv, Types
<1>1. /\ t \in Sessions
      /\ t = s \/ (s.npc_id # nobody /\ t.npc_id = nobody)
      /\ t.npc_pos = s.npc_pos /\ t.stackbuf = s.stackbuf
      /\ t.scriptroot = s.scriptroot /\ t.asked = s.asked
      BY DetachedIs
<1>2. Open(s) <=> Open(sd)
      BY DEF SameDialog, Open
<1>3. ASSUME orderly' = (orderly /\ ~SomebodyAttached /\ ~Open(s)), orderly'
      PROVE  /\ orderly /\ ~SomebodyAttached /\ sd.npc_id = nobody /\ t = s
             /\ sd.asked = FALSE /\ sd.stackbuf = 0
  <2>1. orderly /\ ~SomebodyAttached /\ ~Open(sd) /\ OneDialog
        BY <1>2, <1>3 DEF DialogInv
  <2>2. sd.npc_id = nobody /\ CanGoOn
        BY <1>0, <2>1, NotOpen
  <2> QED BY <1>0, <1>1, <2>1, <2>2, Fields DEF CanGoOn, SameDialog
<1> HIDE DEF t
<1>4. CASE npc[n].life # "on"
  <2>1. sd' = s /\ run' = Base /\ orderly' = orderly
        BY <1>0, <1>4 DEF Event, Running, InOrder
  <2> QED BY <1>0, <2>1, QuietStep
<1>5. CASE npc[n].life = "on" /\ Open(t) /\ ~args
  <2>1. sd' = [t EXCEPT !.queue = Append(@, n)] /\ run' = Base /\ orderly' = orderly
        BY <1>0, <1>5 DEF Event, Running, InOrder, t
  <2>2. t = s
        BY <1>1, <1>5 DEF Open
  <2>3. Append(s.queue, n) \in Seq(Scripts)
        BY Fields, Added
  <2>4. sd' \in Sessions /\ SameDialog(s, sd')
        BY <2>1, <2>2, <2>3, SessionSets
  <2> QED BY <1>0, <2>1, <2>4, QuietStep DEF SameDialog
<1>6. CASE npc[n].life = "on" /\ ~(Open(t) /\ ~args) /\ off
  <2>1. sd' = Dequeued(t) /\ run' = Base /\ orderly' = (orderly /\ ~SomebodyAttached /\ ~Open(s))
        BY <1>6 DEF Event, Running, InOrder, t
  <2>2. /\ sd' \in Sessions /\ sd'.npc_id = nobody /\ sd'.npc_pos = t.npc_pos
        /\ sd'.stackbuf = t.stackbuf /\ sd'.scriptroot = t.scriptroot /\ sd'.asked = t.asked
        BY <1>1, <2>1, DequeuedIs
  <2>3. orderly' => orderly /\ SameDialog(sd, sd')
        BY <1>3, <2>1, <2>2 DEF SameDialog
  <2>4. orderly' \in BOOLEAN
        BY <2>1
  <2> QED BY <2>1, <2>2, <2>3, <2>4, QuietStep
<1>7. CASE npc[n].life = "on" /\ ~(Open(t) /\ ~args) /\ ~off
  <2> DEFINE u == [t EXCEPT !.npc_id = n]
  <2>1. Begin(u, n, "any", TRUE, TRUE) /\ orderly' = (orderly /\ ~SomebodyAttached /\ ~Open(s))
        BY <1>7 DEF Event, InOrder, t
  <2>2. /\ u \in Sessions /\ u.npc_id = n /\ u.stackbuf = t.stackbuf /\ u.asked = t.asked
        BY <1>1, SessionSets
  <2> HIDE DEF u
  <2>3. n \in Live' /\ "any" \in Places
        BY <1>7, Known DEF Live, Places
  <2>4. /\ sd' \in Sessions /\ sd'.npc_id = n /\ sd'.asked = u.asked
        /\ u.stackbuf = 0 => sd'.stackbuf = 0
        /\ Opens(n, "any")
        BY <1>0, <2>1, <2>2, <2>3, BeginDialog
  <2>5. PICK f : /\ f \in Frames' /\ run' = Append(Base, f)
                 /\ f.oid = n /\ f.root = Root(n) /\ f.attached /\ f.sets
        BY <2>4 DEF Opens
  <2>6. orderly' => ~SomebodyAttached /\ InDialog(f)'
    <3>1. n # nobody
          BY Known
    <3> QED BY <1>1, <1>3, <2>1, <2>2, <2>4, <2>5, <3>1 DEF InDialog, SameDialog
  <2>7. orderly' \in BOOLEAN /\ (orderly' => orderly)
        BY <2>1
  <2> QED BY <2>4, <2>5, <2>6, <2>7, StartedStep
<1> QED BY <1>4, <1>5, <1>6, <1>7

LEMMA ClickedStep ==
    ASSUME DialogInv, Live \subseteq Live', Ready, NEW s \in Sessions, NEW n \in Npcs, Clicked(s, n),
           orderly' \in BOOLEAN,
           orderly' => orderly /\ ~SomebodyAttached /\ SameDialog(sd, s) /\ s.npc_id = nobody
    PROVE  Went
<1>0. Types /\ sd \in Sessions
      BY DEF DialogInv, FreedInv, Types
<1>1. orderly' => sd.npc_id = nobody /\ sd.asked = FALSE /\ sd.stackbuf = 0
  <2>1. orderly' => ~Open(sd) /\ ~SomebodyAttached /\ OneDialog
        BY DEF SameDialog, Open, DialogInv
  <2>2. orderly' => sd.npc_id = nobody /\ CanGoOn
        BY <1>0, <2>1, NotOpen
  <2> QED BY <1>0, <2>2, Fields DEF CanGoOn
<1>2. CASE npc[n].life # "on" \/ npc[n].off
  <2>1. sd' = s /\ run' = Base
        BY <1>2 DEF Clicked, Running
  <2> QED BY <2>1, QuietStep
<1>3. CASE ~(npc[n].life # "on" \/ npc[n].off) /\ n \in Shops
  <2> DEFINE u == [s EXCEPT !.npc_id = n]
  <2>1. sd' = Dequeued(u) /\ run' = Base
        BY <1>3 DEF Clicked, Running
  <2>2. Dequeued(u) = Dequeued(s)
    <3>1. u.queue = s.queue /\ u.timers = s.timers /\ [u EXCEPT !.npc_id = nobody] = [s EXCEPT !.npc_id = nobody]
          BY DEF Sessions
    <3> QED BY <3>1 DEF Dequeued
  <2>3. /\ sd' \in Sessions /\ sd'.npc_id = nobody /\ sd'.npc_pos = s.npc_pos
        /\ sd'.stackbuf = s.stackbuf /\ sd'.scriptroot = s.scriptroot /\ sd'.asked = s.asked
        BY <2>1, <2>2, DequeuedIs
  <2>4. orderly' => SameDialog(sd, sd')
        BY <2>3 DEF SameDialog
  <2> QED BY <2>1, <2>3, <2>4, QuietStep
<1>4. CASE ~(npc[n].life # "on" \/ npc[n].off) /\ n \notin Shops
  <2> DEFINE u == [s EXCEPT !.npc_id = n]
  <2>0. n \in Scripts
        BY <1>4, Known
  <2>1. Begin(u, n, "any", TRUE, TRUE)
        BY <1>4 DEF Clicked
  <2>2. /\ u \in Sessions /\ u.npc_id = n /\ u.stackbuf = s.stackbuf /\ u.asked = s.asked
        BY <2>0, SessionSets
  <2> HIDE DEF u
  <2>3. n \in Live' /\ "any" \in Places
        BY <1>4 DEF Live, Places
  <2>4. /\ sd' \in Sessions /\ sd'.npc_id = n /\ sd'.asked = u.asked
        /\ u.stackbuf = 0 => sd'.stackbuf = 0
        /\ Opens(n, "any")
        BY <1>0, <2>0, <2>1, <2>2, <2>3, BeginDialog
  <2>5. PICK f : /\ f \in Frames' /\ run' = Append(Base, f)
                 /\ f.oid = n /\ f.root = Root(n) /\ f.attached /\ f.sets
        BY <2>4 DEF Opens
  <2>6. orderly' => InDialog(f)'
    <3>1. n # nobody
          BY Known
    <3> QED BY <1>1, <2>2, <2>4, <2>5, <3>1 DEF InDialog, SameDialog
  <2> QED BY <2>4, <2>5, <2>6, StartedStep
<1> QED BY <1>2, <1>3, <1>4

LEMMA IdleIs ==
    ASSUME run = << >>
    PROVE  /\ Ready /\ ~SomebodyAttached /\ Base = << >> /\ Len(run) = 0
           /\ \A i \in 1 .. Len(run) : FALSE
<1>1. Len(run) = 0
      BY EmptySeq
<1> QED BY <1>1 DEF Ready, SomebodyAttached, Base

\* While nothing runs, a dialog that is not open is none.
LEMMA IdleNotOpen ==
    ASSUME DialogInv, run = << >>
    PROVE  /\ orderly => CanGoOn
           /\ orderly /\ ~Open(sd) => sd.npc_id = nobody
<1>1. Types
      BY DEF DialogInv, FreedInv
<1>2. orderly => OneDialog
      BY DEF DialogInv
<1>3. orderly => CanGoOn
      BY <1>2, IdleIs DEF OneDialog
<1> QED BY <1>1, <1>2, <1>3, IdleIs, NotOpen

LEMMA SameSession == \A s : SameDialog(s, s)
BY DEF SameDialog

\* What is left to show of a step: that the NPCs and their timers go together.
LEMMA InvHolds ==
    ASSUME DialogInv, Went,
           npc' \in [Npcs -> [life : {"absent", "on", "queued", "freed"}, off : BOOLEAN]],
           \A n \in eventtimer' : n \in Scripts /\ n \in Live',
           \A p \in Puppets : p \in Live' => ParentOf[p] \in Live',
           "due" \in DOMAIN scr', scr'.due # Never => Clocked \in Live', bound' = bound
    PROVE  DialogInv'
<1>1. Types'
      BY DEF DialogInv, FreedInv, Types, Went
<1>2. ASSUME NEW i \in 1 .. Len(run'), run'[i].oid # nobody PROVE run'[i].oid \in Live'
  <2>1. run'[i] \in Frames'
        BY <1>2, ElementOfSeq DEF Went
  <2> QED BY <1>2, <2>1 DEF Frames
<1>3. NothingOfTheFreed'
      BY <1>2 DEF NothingOfTheFreed, Exists
<1> QED BY <1>1, <1>3 DEF DialogInv, FreedInv, Went, Exists

\* The same when the NPCs stay as they are.
LEMMA NpcsStay ==
    ASSUME DialogInv, Went, npc' = npc, eventtimer' \subseteq eventtimer,
           scr' = scr, bound' = bound
    PROVE  DialogInv'
<1>1. Live' = Live
      BY DEF Live
<1>2. /\ npc \in [Npcs -> [life : {"absent", "on", "queued", "freed"}, off : BOOLEAN]]
      /\ eventtimer \in SUBSET Scripts /\ \A n \in eventtimer : n \in Live
      /\ \A p \in Puppets : p \in Live => ParentOf[p] \in Live
      /\ "due" \in DOMAIN scr /\ (scr.due # Never => Clocked \in Live)
      BY DEF DialogInv, FreedInv, Types, NothingOfTheFreed, Exists
<1> QED BY <1>1, <1>2, InvHolds

LEMMA LiveStays == npc' = npc => Live \subseteq Live'
BY DEF Live

LEMMA NpcTypes ==
    ASSUME DialogInv
    PROVE  /\ sd \in Sessions /\ orderly \in BOOLEAN /\ Types
           /\ \A n \in Npcs : npc[n].off \in BOOLEAN
                              /\ npc[n] = [life |-> npc[n].life, off |-> npc[n].off]
           /\ npc \in [Npcs -> [life : {"absent", "on", "queued", "freed"}, off : BOOLEAN]]
           /\ eventtimer \in SUBSET Scripts
BY DEF DialogInv, FreedInv, Types

-----------------------------------------------------------------------------
(* Requests of the client. *)

LEMMA ClickStep ==
    ASSUME DialogInv, NEW n \in Npcs, Click(n)
    PROVE  DialogInv'
<1>1. run = << >> /\ npc' = npc /\ eventtimer' = eventtimer /\ scr' = scr /\ bound' = bound
      /\ orderly' = (orderly /\ ~Open(sd)) /\ Clicked(Detached(sd), n)
      BY DEF Click, Asks, Idle, InOrder
<1> DEFINE s == Detached(sd)
<1>2. s \in Sessions /\ (sd.npc_id = nobody => s = sd)
      BY NpcTypes, DetachedIs
<1>3. orderly' => orderly /\ ~SomebodyAttached /\ SameDialog(sd, s) /\ s.npc_id = nobody
      BY <1>1, <1>2, IdleIs, IdleNotOpen, SameSession
<1>4. orderly' \in BOOLEAN /\ Ready /\ Live \subseteq Live' /\ Clicked(s, n)
      BY <1>1, IdleIs, LiveStays
<1> HIDE DEF s
<1>5. Went
      BY <1>2, <1>3, <1>4, ClickedStep
<1> QED BY <1>1, <1>5, NpcsStay

LEMMA OtherRequestStep ==
    ASSUME DialogInv, OtherRequest
    PROVE  DialogInv'
<1>1. run = << >> /\ npc' = npc /\ eventtimer' = eventtimer /\ scr' = scr /\ bound' = bound
      /\ orderly' = (orderly /\ ~Open(sd)) /\ sd' = Detached(sd) /\ run' = Base
      BY DEF OtherRequest, Idle, InOrder, Running
<1>2. sd' \in Sessions /\ (sd.npc_id = nobody => sd' = sd)
      BY <1>1, NpcTypes, DetachedIs
<1>3. orderly' => orderly /\ SameDialog(sd, sd')
      BY <1>1, <1>2, IdleNotOpen, SameSession
<1>4. Went
      BY <1>1, <1>2, <1>3, IdleIs, LiveStays, QuietStep
<1> QED BY <1>1, <1>4, NpcsStay

\* The script of the player's dialog goes on.
LEMMA GoneOnStep ==
    ASSUME DialogInv, run = << >>, npc' = npc, NEW s \in Sessions, SameDialog(sd, s),
           s.npc_id \in Live, Begin(s, s.npc_id, s.npc_pos.at, TRUE, TRUE), orderly' = orderly
    PROVE  Went
<1> DEFINE n == s.npc_id
           kind == s.npc_pos.at
<1>1. n \in Scripts /\ n # nobody /\ kind \in Places /\ n \in Live'
      BY Known, Fields DEF Live
<1>2. Types /\ Live \subseteq Live' /\ Ready /\ ~SomebodyAttached /\ orderly \in BOOLEAN
      BY IdleIs, LiveStays, NpcTypes
<1>3. orderly => CanGoOn
      BY IdleNotOpen
<1>4. Begin(s, n, kind, TRUE, TRUE)
      OBVIOUS
<1>5. orderly => /\ s.stackbuf = 0 \/ s.scriptroot = Root(n)
                 /\ s.asked => kind = "ask"
  <2>1. s.stackbuf \in Nat
        BY Fields
  <2> QED BY <1>3, <2>1 DEF CanGoOn, SameDialog
<1>0. n = s.npc_id
      OBVIOUS
<1> HIDE DEF n, kind
<1>9. /\ sd' \in Sessions /\ sd'.npc_id = s.npc_id /\ sd'.asked = s.asked
      /\ s.stackbuf = 0 \/ s.scriptroot = Root(n) => sd'.stackbuf = 0
      /\ Opens(n, kind)
      BY <1>1, <1>2, <1>4, BeginDialog
<1>6. /\ sd' \in Sessions /\ sd'.npc_id = n /\ sd'.asked = s.asked
      /\ s.stackbuf = 0 \/ s.scriptroot = Root(n) => sd'.stackbuf = 0
      BY <1>0, <1>9
<1>7. PICK f : /\ f \in Frames' /\ run' = Append(Base, f)
               /\ f.oid = n /\ f.root = Root(n) /\ f.attached /\ f.sets
               /\ f.at = kind /\ f.cmds > 0
      BY <1>9 DEF Opens
<1>8. orderly' => InDialog(f)'
      BY <1>1, <1>5, <1>6, <1>7 DEF InDialog
<1> QED BY <1>2, <1>6, <1>7, <1>8, StartedStep

LEMMA AnswerStep ==
    ASSUME DialogInv, Answer
    PROVE  DialogInv'
<1>1. run = << >> /\ npc' = npc /\ eventtimer' = eventtimer /\ scr' = scr /\ bound' = bound
      /\ sd.npc_id \in Live
      BY DEF Answer, Continue, Asks, Idle, Exists
<1>2. sd.npc_id # nobody
      BY <1>1, Known DEF Live
<1>3. CASE npc[sd.npc_id].life = "queued"
  <2>1. sd' = Dequeued(sd) /\ run' = Base /\ orderly' = (orderly /\ ~Open(sd))
        BY <1>3 DEF Answer, Continue, Running, InOrder
  <2>2. ~orderly' /\ orderly' \in BOOLEAN
        BY <1>1, <1>2, <2>1, IdleNotOpen
  <2>3. sd' \in Sessions
        BY <2>1, NpcTypes, DequeuedIs
  <2>4. Went
        BY <1>1, <2>1, <2>2, <2>3, IdleIs, LiveStays, QuietStep
  <2> QED BY <1>1, <2>4, NpcsStay
<1>4. CASE npc[sd.npc_id].life # "queued" /\ sd.npc_pos = Ended
  <2>1. sd' = sd /\ run' = Base /\ orderly' = orderly
        BY <1>4, NpcTypes DEF Answer, Continue, Running, InOrder
  <2>4. Went
        BY <1>1, <2>1, NpcTypes, SameSession, IdleIs, LiveStays, QuietStep
  <2> QED BY <1>1, <2>4, NpcsStay
<1>5. CASE npc[sd.npc_id].life # "queued" /\ sd.npc_pos # Ended
  <2>1. Begin(sd, sd.npc_id, sd.npc_pos.at, TRUE, TRUE) /\ orderly' = orderly
        BY <1>5, NpcTypes DEF Answer, Continue, InOrder
  <2>4. Went
        BY <1>1, <2>1, NpcTypes, SameSession, GoneOnStep
  <2> QED BY <1>1, <2>4, NpcsStay
<1> QED BY <1>3, <1>4, <1>5

LEMMA StorageCloseStep ==
    ASSUME DialogInv, StorageClose
    PROVE  DialogInv'
<1> DEFINE s == [sd EXCEPT !.storage = FALSE]
<1>1. run = << >> /\ npc' = npc /\ eventtimer' = eventtimer /\ scr' = scr /\ bound' = bound
      BY DEF StorageClose, Asks, Idle
<1>2. s \in Sessions /\ SameDialog(sd, s)
  <2> DEFINE no == FALSE
  <2>1. no \in BOOLEAN /\ s = [sd EXCEPT !.storage = no]
        OBVIOUS
  <2> HIDE DEF no, s
  <2> QED BY <2>1, NpcTypes, SessionSets
<1>3. s.npc_id = sd.npc_id /\ s.npc_pos = sd.npc_pos /\ (Open(s) <=> Open(sd))
      BY <1>2 DEF SameDialog, Open
<1>4. CASE ~Exists(sd.npc_id) \/ (npc[sd.npc_id].life # "queued" /\ sd.npc_pos = Ended)
  <2>1. sd' = s /\ run' = Base /\ orderly' = orderly
        BY <1>4, NpcTypes DEF StorageClose, Running, InOrder
  <2> HIDE DEF s
  <2>4. Went
        BY <1>1, <1>2, <2>1, NpcTypes, IdleIs, LiveStays, QuietStep
  <2> QED BY <1>1, <2>4, NpcsStay
<1>5. CASE Exists(sd.npc_id) /\ npc[sd.npc_id].life = "queued"
  <2>1. sd' = Dequeued(s) /\ run' = Base /\ orderly' = (orderly /\ ~Open(sd))
        BY <1>3, <1>5 DEF StorageClose, Running, InOrder
  <2> HIDE DEF s
  <2>2. sd.npc_id # nobody
        BY <1>5, Known DEF Live, Exists
  <2>3. ~orderly' /\ orderly' \in BOOLEAN
        BY <1>1, <2>1, <2>2, IdleNotOpen
  <2>4. sd' \in Sessions
        BY <1>2, <2>1, DequeuedIs
  <2>5. Went
        BY <1>1, <2>1, <2>3, <2>4, IdleIs, LiveStays, QuietStep
  <2> QED BY <1>1, <2>5, NpcsStay
<1>6. CASE Exists(sd.npc_id) /\ npc[sd.npc_id].life # "queued" /\ sd.npc_pos # Ended
  <2>1. Begin(s, sd.npc_id, s.npc_pos.at, TRUE, TRUE) /\ orderly' = orderly /\ sd.npc_id \in Live
        BY <1>6, NpcTypes DEF StorageClose, InOrder, Exists
  <2>2. Begin(s, s.npc_id, s.npc_pos.at, TRUE, TRUE) /\ s.npc_id \in Live
        BY <1>3, <2>1
  <2> HIDE DEF s
  <2>4. Went
        BY <1>1, <1>2, <2>1, <2>2, GoneOnStep
  <2> QED BY <1>1, <2>4, NpcsStay
<1> QED BY <1>4, <1>5, <1>6

LEMMA BuySellStep ==
    ASSUME DialogInv, NEW n \in Npcs, BuySellSelected(n)
    PROVE  DialogInv'
<1> DEFINE s == [sd EXCEPT !.npc_id = nobody]
<1>1. run = << >> /\ npc' = npc /\ eventtimer' = eventtimer /\ scr' = scr /\ bound' = bound
      /\ orderly' = (orderly /\ (n \in Shops \/ ~Open(sd)))
      /\ sd' = (IF n \in Shops THEN sd ELSE s) /\ run' = Base
      BY DEF BuySellSelected, Asks, Idle, InOrder, Running
<1>2. s \in Sessions /\ (sd.npc_id = nobody => s = sd)
      BY NpcTypes DEF Sessions
<1> HIDE DEF s
<1>3. sd' \in Sessions /\ orderly' \in BOOLEAN /\ (orderly' => orderly /\ SameDialog(sd, sd'))
      BY <1>1, <1>2, NpcTypes, IdleNotOpen, SameSession
<1>4. Went
      BY <1>1, <1>3, IdleIs, LiveStays, QuietStep
<1> QED BY <1>1, <1>4, NpcsStay

LEMMA LoadEndAckStep ==
    ASSUME DialogInv, LoadEndAck
    PROVE  DialogInv'
<1>1. run = << >> /\ npc' = npc /\ eventtimer' = eventtimer /\ scr' = scr /\ bound' = bound
      /\ orderly' = (orderly /\ ~Open(sd)) /\ sd.npc_id # nobody
      /\ sd' = Dequeued(sd) /\ run' = Base
      BY DEF LoadEndAck, Asks, Idle, InOrder, Running
<1>2. sd' \in Sessions /\ orderly' \in BOOLEAN /\ ~orderly'
      BY <1>1, NpcTypes, DequeuedIs, IdleNotOpen
<1>3. Went
      BY <1>1, <1>2, IdleIs, LiveStays, QuietStep
<1> QED BY <1>1, <1>3, NpcsStay

LEMMA WalkStep ==
    ASSUME DialogInv, NEW n, n \in Npcs \cup {nobody}, Walk(n)
    PROVE  DialogInv'
<1> DEFINE s == [sd EXCEPT !.near = n]
           away == [s EXCEPT !.areanpc = nobody]
           there == [s EXCEPT !.areanpc = n]
           no == FALSE
<1>1. run = << >> /\ npc' = npc /\ eventtimer' = eventtimer /\ scr' = scr /\ bound' = bound
      /\ Ready /\ Live \subseteq Live'
      BY IdleIs, LiveStays DEF Walk, Asks, Idle
<1>2. s \in Sessions /\ SameDialog(sd, s)
      BY NpcTypes, SessionSets
<1>3. away \in Sessions /\ SameDialog(sd, away) /\ there \in Sessions /\ SameDialog(sd, there)
  <2>0. s \in Sessions /\ SameDialog(sd, s)
        BY <1>2
  <2> HIDE DEF s
  <2>1. away \in Sessions /\ SameDialog(s, away) /\ there \in Sessions /\ SameDialog(s, there)
        BY <2>0, SessionSets
  <2> QED BY <2>0, <2>1 DEF SameDialog
<1>4. CASE s.npc_id # nobody \/ ~Exists(n) \/ npc[n].off
  <2>1. sd' = away /\ run' = Base /\ orderly' = orderly
        BY <1>4, NpcTypes DEF Walk, Running, InOrder
  <2> HIDE DEF away
  <2>2. Went
        BY <1>1, <1>3, <2>1, NpcTypes, QuietStep
  <2> QED BY <1>1, <2>2, NpcsStay
<1>5. CASE ~(s.npc_id # nobody \/ ~Exists(n) \/ npc[n].off) /\ s.areanpc = n
  <2>1. sd' = s /\ run' = Base /\ orderly' = orderly
        BY <1>5, NpcTypes DEF Walk, Running, InOrder
  <2> HIDE DEF s
  <2>2. Went
        BY <1>1, <1>2, <2>1, NpcTypes, QuietStep
  <2> QED BY <1>1, <2>2, NpcsStay
<1>6. CASE ~(s.npc_id # nobody \/ ~Exists(n) \/ npc[n].off) /\ s.areanpc # n /\ n \in Touchy
  <2> DEFINE off == npc[n].off
  <2>1. Event(there, n, no, off)
        BY <1>6 DEF Walk
  <2>2. n \in Scripts /\ no \in BOOLEAN /\ off \in BOOLEAN
        BY <1>6, Known, NpcTypes
  <2> HIDE DEF there, no, off
  <2>3. Went
        BY <1>1, <1>3, <2>1, <2>2, EventStep
  <2> QED BY <1>1, <2>3, NpcsStay
<1>7. CASE ~(s.npc_id # nobody \/ ~Exists(n) \/ npc[n].off) /\ s.areanpc # n /\ n \notin Touchy
  <2>1. Clicked(there, n) /\ orderly' = orderly
        BY <1>7, NpcTypes DEF Walk, InOrder
  <2>2. n \in Npcs /\ s.npc_id = nobody
        BY <1>7 DEF Exists, Live
  <2>3. there.npc_id = nobody
        BY <1>2, <1>3, <2>2 DEF SameDialog
  <2> HIDE DEF there
  <2>4. Went
        BY <1>1, <1>3, <2>1, <2>2, <2>3, NpcTypes, IdleIs, ClickedStep
  <2> QED BY <1>1, <2>4, NpcsStay
<1> QED BY <1>4, <1>5, <1>6, <1>7

LEMMA CastStep ==
    ASSUME DialogInv, NEW n \in Scripts, Cast(n)
    PROVE  DialogInv'
<1> DEFINE yes == TRUE
           off == npc[n].off
<1>1. run = << >> /\ npc' = npc /\ eventtimer' = eventtimer /\ scr' = scr /\ bound' = bound
      /\ Ready /\ Live \subseteq Live'
      BY IdleIs, LiveStays DEF Cast, Asks, Idle
<1>2. Event(sd, n, yes, off) /\ yes \in BOOLEAN /\ off \in BOOLEAN
      BY NpcTypes, Known DEF Cast
<1> HIDE DEF yes, off
<1>3. Went
      BY <1>1, <1>2, NpcTypes, SameSession, EventStep
<1> QED BY <1>1, <1>3, NpcsStay

LEMMA QuitStep ==
    ASSUME DialogInv, Quit
    PROVE  DialogInv'
<1>1. run = << >> /\ npc' = npc /\ eventtimer' = eventtimer /\ scr' = scr /\ bound' = bound
      /\ sd' = Fresh /\ run' = << >> /\ orderly' = TRUE
      BY IdleIs DEF Quit, Asks, Idle, Running
<1>2. Fresh \in Sessions
      BY EmptySeq DEF Sessions, Fresh, Places
<1>3. CanGoOn'
      BY <1>1 DEF CanGoOn, Fresh
<1>4. Len(run') = 0 /\ run' \in Seq(Frames')
      BY <1>1, EmptySeq
<1>5. OneDialog'
      BY <1>3, <1>4 DEF OneDialog
<1>6. Went
      BY <1>1, <1>2, <1>4, <1>5 DEF Went
<1> QED BY <1>1, <1>6, NpcsStay

LEMMA PlayerTimerStep ==
    ASSUME DialogInv, NEW n \in Scripts, PlayerTimer(n)
    PROVE  DialogInv'
<1> DEFINE no == FALSE
           off == npc[n].off
           s == [sd EXCEPT !.timers = sd.timers \ {n}]
<1>1. run = << >> /\ npc' = npc /\ eventtimer' = eventtimer /\ scr' = scr /\ bound' = bound
      /\ Ready /\ Live \subseteq Live'
      BY IdleIs, LiveStays DEF PlayerTimer, Asks, Idle
<1>2. Event(s, n, no, off) /\ no \in BOOLEAN /\ off \in BOOLEAN
      BY NpcTypes, Known DEF PlayerTimer
<1>3. s \in Sessions /\ SameDialog(sd, s)
  <2>1. sd.timers \ {n} \in SUBSET Scripts
        BY NpcTypes, Fields
  <2> QED BY <2>1, NpcTypes, SessionSets
<1> HIDE DEF no, off, s
<1>4. Went
      BY <1>1, <1>2, <1>3, NpcTypes, EventStep
<1> QED BY <1>1, <1>4, NpcsStay

LEMMA MobEventStep ==
    ASSUME DialogInv, NEW n \in Scripts, MobEvent(n)
    PROVE  DialogInv'
<1> DEFINE no == FALSE
           off == npc[n].off
<1>1. run = << >> /\ npc' = npc /\ eventtimer' = eventtimer /\ scr' = scr /\ bound' = bound
      /\ Ready /\ Live \subseteq Live'
      BY IdleIs, LiveStays DEF MobEvent, Asks, Idle
<1>2. Event(sd, n, no, off) /\ no \in BOOLEAN /\ off \in BOOLEAN
      BY NpcTypes, Known DEF MobEvent
<1> HIDE DEF no, off
<1>3. Went
      BY <1>1, <1>2, NpcTypes, SameSession, EventStep
<1> QED BY <1>1, <1>3, NpcsStay

LEMMA NpcTimerStep ==
    ASSUME DialogInv, NEW n \in Scripts, NpcTimer(n)
    PROVE  DialogInv'
<1> DEFINE no == FALSE
<1>1. run = << >> /\ npc' = npc /\ eventtimer' \subseteq eventtimer /\ scr' = scr /\ bound' = bound
      /\ Ready /\ Live \subseteq Live' /\ orderly' = orderly
      BY IdleIs, LiveStays DEF NpcTimer, Idle
<1>2. CASE npc[n].life = "on"
  <2>1. Begin(sd, n, "any", no, FALSE) /\ no \in BOOLEAN /\ ~no
        BY <1>2 DEF NpcTimer
  <2>2. n \in Live'
        BY <1>1, <1>2, Known DEF Live
  <2> HIDE DEF no
  <2>3. Went
        BY <1>1, <2>1, <2>2, NpcTypes, AloneStep
  <2> QED BY <1>1, <2>3, NpcsStay
<1>3. CASE npc[n].life # "on"
  <2>1. sd' = sd /\ run' = Base
        BY <1>3 DEF NpcTimer, Running
  <2>2. Went
        BY <1>1, <2>1, NpcTypes, SameSession, QuietStep
  <2> QED BY <1>1, <2>2, NpcsStay
<1> QED BY <1>2, <1>3

LEMMA DoAllStep ==
    ASSUME DialogInv, NEW n \in Parents, NEW attached, attached \in BOOLEAN, DoAll(n, attached)
    PROVE  DialogInv'
<1>1. run = << >> /\ npc' = npc /\ eventtimer' = eventtimer /\ scr' = scr /\ bound' = bound
      /\ Ready /\ Live \subseteq Live' /\ orderly' = (orderly /\ (~attached \/ ~Open(sd)))
      BY IdleIs, LiveStays DEF DoAll, Idle, InOrder
<1>2. Begin(sd, n, "any", attached, FALSE) /\ n \in Scripts /\ n \in Live'
      BY <1>1, Known DEF DoAll, Exists
<1>3. orderly' \in BOOLEAN /\ (orderly' => orderly) /\ ~SomebodyAttached
      BY <1>1, IdleIs
<1>4. orderly' => ~attached \/ (~SomebodyAttached /\ ~Open(sd))
      BY <1>1, <1>3
<1>5. Went
      BY <1>1, <1>2, <1>3, <1>4, AloneStep
<1> QED BY <1>1, <1>5, NpcsStay

\* An NPC and its puppets are freed together.
LEMMA NpcFreeStep ==
    ASSUME DialogInv, NEW n \in Scripts, NpcFree(n)
    PROVE  DialogInv'
<1> DEFINE gone == {n} \cup {p \in Puppets : Exists(p) /\ ParentOf[p] = n}
<1>1. /\ npc' = [m \in Npcs |-> IF m \in gone THEN [life |-> "freed", off |-> TRUE] ELSE npc[m]]
      /\ eventtimer' = eventtimer \ gone
      /\ scr' = (IF Clocked \in gone THEN [scr EXCEPT !.due = Never, !.active = FALSE] ELSE scr)
      /\ sd' = sd /\ run' = run /\ run = << >> /\ orderly' = orderly /\ bound' = bound
      BY DEF NpcFree, Idle
<1>2. Live' = Live \ gone
      BY <1>1 DEF Live
<1>3. Went
  <2>1. run' \in Seq(Frames')
        BY <1>1, EmptySeq
  <2>2. ASSUME OneDialog PROVE OneDialog'
        BY <1>1, <2>2 DEF OneDialog, InDialog, CanGoOn
  <2> QED BY <1>1, <2>1, <2>2, NpcTypes DEF Went, DialogInv
<1>4. npc' \in [Npcs -> [life : {"absent", "on", "queued", "freed"}, off : BOOLEAN]]
      BY <1>1, NpcTypes
<1>5. \A m \in eventtimer' : m \in Scripts /\ m \in Live'
      BY <1>1, <1>2 DEF DialogInv, FreedInv, Types, NothingOfTheFreed, Exists
<1>6. ASSUME NEW p \in Puppets, p \in Live' PROVE ParentOf[p] \in Live'
  <2>1. p \in Live /\ ParentOf[p] \in Live /\ ParentOf[p] # n
        BY <1>2, <1>6 DEF DialogInv, FreedInv, NothingOfTheFreed, Exists
  <2>2. ParentOf[p] \notin Puppets
        BY DialogsAssumption
  <2> QED BY <1>2, <2>1, <2>2
<1>7. "due" \in DOMAIN scr' /\ (scr'.due # Never => Clocked \in Live')
  <2>0. "due" \in DOMAIN scr /\ (scr.due # Never => Clocked \in Live)
        BY DEF DialogInv, FreedInv, Exists
  <2>1. CASE Clocked \in gone
    <3> DEFINE c == [scr EXCEPT !.due = Never]
    <3>1. "due" \in DOMAIN c /\ c.due = Never /\ scr' = [c EXCEPT !.active = FALSE]
          BY <1>1, <2>0, <2>1
    <3> HIDE DEF c
    <3>2. "due" \in DOMAIN scr' /\ scr'.due = c.due
          BY <3>1
    <3> QED BY <3>1, <3>2
  <2>2. CASE Clocked \notin gone
        BY <1>1, <1>2, <2>0, <2>2
  <2> QED BY <2>1, <2>2
<1> QED BY <1>1, <1>3, <1>4, <1>5, <1>6, <1>7, InvHolds

LEMMA TimerEventStep ==
    ASSUME DialogInv, TimerEvent
    PROVE  DialogInv'
<1> DEFINE no == FALSE
<1>1. run = << >> /\ npc' = npc /\ eventtimer' = eventtimer /\ bound' = bound
      /\ Ready /\ Live \subseteq Live' /\ orderly' = orderly /\ Clocked \in Live
      BY IdleIs, LiveStays DEF TimerEvent, Idle, DialogInv, FreedInv, Exists
<1>2. Begin(sd, Clocked, "any", no, FALSE) /\ no \in BOOLEAN /\ ~no
      BY DEF TimerEvent
<1>3. "due" \in DOMAIN scr'
      BY DEF TimerEvent, DialogInv, FreedInv
<1>4. Clocked \in Scripts /\ Clocked \in Live'
      BY <1>1, Known
<1> HIDE DEF no
<1>5. Went
      BY <1>1, <1>2, <1>4, NpcTypes, AloneStep
<1>6. Live' = Live
      BY <1>1 DEF Live
<1>7. /\ \A n \in eventtimer : n \in Live
      /\ \A p \in Puppets : p \in Live => ParentOf[p] \in Live
      BY DEF DialogInv, FreedInv, NothingOfTheFreed, Exists
<1> QED BY <1>1, <1>3, <1>4, <1>5, <1>6, <1>7, NpcTypes, InvHolds

LEMMA TickStep ==
    ASSUME DialogInv, Tick
    PROVE  DialogInv'
<1>1. run = << >> /\ npc' = npc /\ eventtimer' = eventtimer /\ bound' = bound /\ scr' = scr
      /\ sd' = sd /\ run' = Base /\ orderly' = orderly
      BY IdleIs DEF Tick, Idle
<1>2. Went
      BY <1>1, NpcTypes, SameSession, IdleIs, LiveStays, QuietStep
<1> QED BY <1>1, <1>2, NpcsStay

-----------------------------------------------------------------------------
(* Statements. *)

LEMMA InnermostIs ==
    ASSUME DialogInv, run # << >>
    PROVE  /\ Top \in Frames /\ Top.attached \in BOOLEAN /\ Top.sets \in BOOLEAN /\ Top.calls \in Nat
           /\ orderly /\ Top.sets => InDialog(Top)
           /\ orderly /\ Top.attached /\ ~Top.sets =>
                 sd.npc_id = nobody /\ sd.asked = FALSE /\ sd.stackbuf = 0
<1>1. /\ Len(run) \in 1 .. Len(run) /\ Top = run[Len(run)] /\ Top \in Frames
      BY TopIs, NpcTypes
<1>2. Top.attached \in BOOLEAN /\ Top.sets \in BOOLEAN /\ Top.calls \in Nat
      BY <1>1, FrameFields
<1>3. ASSUME orderly, Top.sets PROVE InDialog(Top)
      BY <1>1, <1>3 DEF DialogInv, OneDialog
<1>4. ASSUME orderly, Top.attached, ~Top.sets
      PROVE  sd.npc_id = nobody /\ sd.asked = FALSE /\ sd.stackbuf = 0
  <2>1. OneDialog
        BY <1>4 DEF DialogInv
  <2>2. \A i \in 1 .. Len(run) : ~run[i].sets
        BY <1>1, <1>4, <2>1 DEF OneDialog, InDialog
  <2>3. CanGoOn /\ sd.npc_id = nobody
        BY <1>1, <1>4, <2>1, <2>2 DEF OneDialog
  <2> QED BY <2>3, NpcTypes, Fields DEF CanGoOn
<1> QED BY <1>1, <1>2, <1>3, <1>4

\* A script ends, as r, with the player as s.
LEMMA FinishStep ==
    ASSUME DialogInv, Live \subseteq Live', run # << >>, NEW r, r.attached = Top.attached, r.sets = Top.sets,
           r.root \in Parents, r.oid \in Npcs \cup {nobody},
           NEW s \in Sessions, NEW fine, fine \in BOOLEAN, Finish(r, s, fine),
           orderly /\ Top.sets => /\ s.npc_id = nobody \/ s.npc_id = r.oid
                                  /\ s.stackbuf = 0 /\ ~s.asked,
           orderly /\ ~Top.sets => SameDialog(sd, s)
    PROVE  Went
<1> DEFINE t == IF r.attached /\ s.npc_id = r.oid THEN Dequeued(s) ELSE s
           u == [t EXCEPT !.npc_pos = Ended]
<1>1. run' = Outer /\ sd' = (IF r.sets THEN u ELSE t) /\ orderly' = (orderly /\ fine)
      BY DEF Finish, InOrder
<1>2. /\ t \in Sessions /\ t.npc_pos = s.npc_pos /\ t.stackbuf = s.stackbuf
      /\ t.scriptroot = s.scriptroot /\ t.asked = s.asked
      /\ t.npc_id = IF r.attached /\ s.npc_id = r.oid THEN nobody ELSE s.npc_id
      BY DequeuedIs
<1> HIDE DEF t
<1>3. /\ u \in Sessions /\ u.npc_id = t.npc_id /\ u.stackbuf = t.stackbuf /\ u.asked = t.asked
      BY <1>2 DEF Sessions, Ended, Places
<1> HIDE DEF u
<1>4. orderly' \in BOOLEAN /\ (orderly' => orderly) /\ sd' \in Sessions
      BY <1>1, <1>2, <1>3, NpcTypes
<1>5. CASE Top.sets
  <2>1. orderly => Top.attached
        BY <1>5, InnermostIs DEF InDialog
  <2>2. orderly => sd'.npc_id = nobody /\ sd'.stackbuf = 0 /\ ~sd'.asked
        BY <1>1, <1>2, <1>3, <1>5, <2>1
  <2>3. orderly => CanGoOn'
        BY <2>2 DEF CanGoOn
  <2> QED BY <1>1, <1>4, <1>5, <2>3, LeftStep
<1>6. CASE ~Top.sets
  <2>1. orderly => (Top.attached => s.npc_id = nobody) /\ SameDialog(sd, s)
        BY <1>6, InnermostIs DEF SameDialog
  <2>2. orderly => SameDialog(sd, sd')
        BY <1>1, <1>2, <1>6, <2>1 DEF SameDialog
  <2> QED BY <1>1, <1>4, <1>6, <2>2, LeftStep
<1> QED BY <1>5, <1>6, InnermostIs

\* A script of the player's dialog waits for them.
LEMMA SuspendStep ==
    ASSUME DialogInv, Live \subseteq Live', run # << >>, NEW s \in Sessions, s.npc_id = sd.npc_id,
           NEW kind, kind \in Places, Suspend(Top, s, kind),
           orderly /\ Top.sets /\ s.asked => kind = "ask"
    PROVE  Went
<1> DEFINE t1 == [s EXCEPT !.stackbuf = Top.calls]
           t == [t1 EXCEPT !.scriptroot = Top.root]
           pos == [root |-> Top.root, at |-> kind]
           u == [t EXCEPT !.npc_pos = pos]
<1>0. Top.calls \in Nat /\ Top.root \in Parents
      BY InnermostIs, FrameFields
<1>1. run' = Outer /\ sd' = (IF Top.sets THEN u ELSE t) /\ orderly' = (orderly /\ Top.sets)
      BY DEF Suspend, InOrder
<1>2. /\ t1 \in Sessions /\ t1.npc_id = s.npc_id /\ t1.asked = s.asked
      BY <1>0 DEF Sessions
<1>3. /\ t \in Sessions /\ t.npc_id = s.npc_id /\ t.asked = s.asked /\ t.scriptroot = Top.root
  <2> HIDE DEF t1
  <2> QED BY <1>0, <1>2 DEF Sessions
<1>4. pos \in [root : Parents \cup {nobody}, at : Places] /\ pos.root = Top.root /\ pos.at = kind
      BY <1>0
<1> HIDE DEF t, pos
<1>5. /\ u \in Sessions /\ u.npc_id = t.npc_id /\ u.asked = t.asked /\ u.scriptroot = t.scriptroot
      /\ u.npc_pos = pos
      BY <1>3, <1>4 DEF Sessions
<1> HIDE DEF u
<1>6. orderly' \in BOOLEAN /\ (orderly' => orderly /\ Top.sets) /\ sd' \in Sessions
      BY <1>1, <1>3, <1>5, NpcTypes, InnermostIs
<1>7. orderly' => CanGoOn'
  <2>1. orderly' => /\ Top.oid = sd.npc_id /\ Top.root = Root(Top.oid) /\ sd.npc_id # nobody
        BY <1>6, InnermostIs DEF InDialog
  <2> QED BY <1>1, <1>3, <1>4, <1>5, <1>6, <2>1 DEF CanGoOn
<1> QED BY <1>1, <1>6, <1>7, LeftStep

LEMMA StatementIs ==
    ASSUME NEW kind, Statement(kind)
    PROVE  run # << >> /\ Top.cmds > 0 /\ Top.at # "ask" /\ Ready /\ scr' = scr /\ bound' = bound
BY DEF Statement, Ready

LEMMA TopFields ==
    ASSUME DialogInv, run # << >>
    PROVE  Top.root \in Parents /\ Top.oid \in Npcs \cup {nobody}
BY InnermostIs, FrameFields DEF Live

LEMMA EndStep ==
    ASSUME DialogInv, End
    PROVE  DialogInv'
<1> DEFINE fine == TRUE
<1>1. run # << >> /\ npc' = npc /\ eventtimer' = eventtimer /\ bound' = bound /\ scr' = scr
      /\ Live \subseteq Live' /\ (Top.at # "ask" \/ Top.cmds = 0)
      /\ Finish(Top, sd, fine) /\ fine \in BOOLEAN
      BY LiveStays DEF End, Still
<1> HIDE DEF fine
<1>2. orderly /\ Top.sets => /\ sd.npc_id = nobody \/ sd.npc_id = Top.oid
                             /\ sd.stackbuf = 0 /\ ~sd.asked
      BY <1>1, InnermostIs DEF InDialog
<1>3. Went
      BY <1>1, <1>2, NpcTypes, SameSession, TopFields, FinishStep
<1> QED BY <1>1, <1>3, NpcsStay

LEMMA WaitStep ==
    ASSUME DialogInv, NEW storage, storage \in BOOLEAN, Wait(storage)
    PROVE  DialogInv'
<1> DEFINE fine == TRUE
           kind == "any"
           opened == sd.storage \/ storage
           s == [sd EXCEPT !.storage = opened]
<1>1. run # << >> /\ npc' = npc /\ eventtimer' = eventtimer /\ bound' = bound /\ scr' = scr
      /\ Live \subseteq Live' /\ Top.at # "ask"
      BY LiveStays, StatementIs DEF Wait, Still
<1>2. IF Top.attached THEN Suspend(Top, s, kind) ELSE Finish(Top, sd, fine)
      BY DEF Wait
<1>3. s \in Sessions /\ SameDialog(sd, s)
  <2>1. opened \in BOOLEAN
        BY NpcTypes, Fields
  <2> HIDE DEF opened
  <2> QED BY <2>1, NpcTypes, SessionSets
<1>4. fine \in BOOLEAN /\ kind \in Places
      BY DEF Places
<1>5. orderly /\ Top.sets => /\ sd.npc_id = Top.oid /\ sd.stackbuf = 0 /\ ~sd.asked
      BY <1>1, InnermostIs DEF InDialog
<1> HIDE DEF s, fine, kind
<1>6. CASE Top.attached
  <2>1. Suspend(Top, s, kind) /\ s.npc_id = sd.npc_id /\ s.asked = sd.asked
        BY <1>2, <1>3, <1>6 DEF SameDialog
  <2>2. Went
        BY <1>1, <1>3, <1>4, <1>5, <2>1, SuspendStep
  <2> QED BY <1>1, <2>2, NpcsStay
<1>7. CASE ~Top.attached
  <2>1. Went
        BY <1>1, <1>2, <1>4, <1>5, <1>7, NpcTypes, SameSession, TopFields, FinishStep
  <2> QED BY <1>1, <2>1, NpcsStay
<1> QED BY <1>6, <1>7

LEMMA AskStep ==
    ASSUME DialogInv, NEW cancel, cancel \in BOOLEAN, Ask(cancel)
    PROVE  DialogInv'
<1> DEFINE fine == TRUE
           kind == "ask"
           yes == TRUE
           no == FALSE
           asks == [sd EXCEPT !.asked = yes]
           knows == [sd EXCEPT !.asked = no]
<1>1. run # << >> /\ npc' = npc /\ eventtimer' = eventtimer /\ bound' = bound /\ scr' = scr
      /\ Live \subseteq Live' /\ Top.cmds > 0
      BY LiveStays DEF Ask, Still
<1>2. /\ yes \in BOOLEAN /\ no \in BOOLEAN /\ fine \in BOOLEAN /\ kind \in Places /\ ~no /\ kind = "ask"
      BY DEF Places
<1>3. \/ ~Top.attached /\ Finish(Top, sd, fine)
      \/ Top.attached /\ ~sd.asked /\ Suspend(Top, asks, kind)
      \/ Top.attached /\ sd.asked /\ Finish(Top, knows, fine)
      \/ Top.attached /\ sd.asked /\ On(Spent) /\ sd' = knows /\ orderly' = orderly
      BY DEF Ask, Asked
<1> HIDE DEF fine, kind, yes, no
<1>4. /\ asks \in Sessions /\ asks.npc_id = sd.npc_id
      /\ knows \in Sessions /\ knows.npc_id = sd.npc_id /\ knows.asked = no
      /\ knows.npc_pos = sd.npc_pos /\ knows.stackbuf = sd.stackbuf /\ knows.scriptroot = sd.scriptroot
  <2>1. asks \in Sessions /\ asks.npc_id = sd.npc_id
        BY <1>2, NpcTypes DEF Sessions, asks
  <2>2. knows \in Sessions /\ knows.npc_id = sd.npc_id
        BY <1>2, NpcTypes DEF Sessions, knows
  <2>3. /\ knows.npc_pos = sd.npc_pos /\ knows.stackbuf = sd.stackbuf
        /\ knows.scriptroot = sd.scriptroot
        BY <1>2, NpcTypes, SessionSets
  <2>4. knows.asked = no
        BY <1>2, NpcTypes, SessionSets
  <2> QED BY <2>1, <2>2, <2>3, <2>4
<1> HIDE DEF asks, knows
<1>5. orderly /\ Top.sets => /\ sd.npc_id = Top.oid /\ sd.stackbuf = 0 /\ Top.attached
      BY <1>1, InnermostIs DEF InDialog
<1>6. CASE ~Top.attached /\ Finish(Top, sd, fine)
  <2>1. Went
        BY <1>1, <1>2, <1>5, <1>6, NpcTypes, SameSession, TopFields, FinishStep
  <2> QED BY <1>1, <2>1, NpcsStay
<1>7. CASE Suspend(Top, asks, kind)
  <2>1. Went
        BY <1>1, <1>2, <1>4, <1>7, SuspendStep
  <2> QED BY <1>1, <2>1, NpcsStay
<1>8. CASE Top.attached /\ sd.asked /\ Finish(Top, knows, fine)
  <2>1. orderly /\ ~Top.sets => SameDialog(sd, knows)
        BY <1>1, <1>8, InnermostIs
  <2>2. Went
        BY <1>1, <1>2, <1>4, <1>5, <1>8, <2>1, TopFields, FinishStep
  <2> QED BY <1>1, <2>2, NpcsStay
<1>9. CASE Top.attached /\ On(Spent) /\ sd' = knows /\ orderly' = orderly
  <2>1. /\ Spent \in Frames' /\ Spent.oid = Top.oid /\ Spent.root = Top.root
        /\ Spent.attached = Top.attached /\ Spent.sets = Top.sets
        BY <1>1, SpentIs, NpcTypes, FramesKept
  <2>2. run' = Append(Outer, Spent)
        BY <1>9 DEF On
  <2>3. Went
        BY <1>1, <1>2, <1>4, <1>9, <2>1, <2>2, NpcTypes, GoesOnStep
  <2> QED BY <1>1, <2>3, NpcsStay
<1> QED BY <1>3, <1>6, <1>7, <1>8, <1>9

LEMMA CallStep ==
    ASSUME DialogInv, Call \/ Return
    PROVE  DialogInv'
<1>1. run # << >> /\ npc' = npc /\ eventtimer' = eventtimer /\ bound' = bound /\ scr' = scr
      /\ Live \subseteq Live' /\ Top.at # "ask" /\ Top.cmds > 0 /\ sd' = sd /\ orderly' = orderly
      BY LiveStays, StatementIs DEF Call, Return, Still
<1>2. /\ Spent \in Frames /\ Spent.oid = Top.oid /\ Spent.root = Top.root /\ Spent.calls = Top.calls
      /\ Spent.attached = Top.attached /\ Spent.sets = Top.sets
      BY <1>1, SpentIs, NpcTypes
<1>3. Top.calls \in Nat
      BY <1>1, InnermostIs
<1>4. PICK k \in Nat : run' = Append(Outer, [Spent EXCEPT !.calls = k])
  <2>1. CASE Call
        BY <1>2, <1>3, <2>1 DEF Call, On
  <2>2. CASE Return
        BY <1>2, <1>3, <2>2 DEF Return, On
  <2> QED BY <2>1, <2>2
<1> DEFINE r == [Spent EXCEPT !.calls = k]
<1>5. r \in Frames' /\ r.oid = Top.oid /\ r.root = Top.root /\ r.attached = Top.attached /\ r.sets = Top.sets
      BY <1>1, <1>2, FramesKept DEF Frames
<1>6. run' = Append(Outer, r)
      BY <1>4
<1> HIDE DEF r
<1>7. orderly /\ Top.sets => Top.attached
      BY <1>1, InnermostIs DEF InDialog
<1>8. Went
      BY <1>1, <1>5, <1>6, <1>7, NpcTypes, GoesOnStep
<1> QED BY <1>1, <1>8, NpcsStay

\* A statement that leaves the player as they are.
LEMMA SpentStep ==
    ASSUME DialogInv, Live \subseteq Live', run # << >>, Top.cmds > 0, Top.at # "ask", On(Spent),
           sd' \in Sessions, SameDialog(sd, sd'), orderly' = orderly
    PROVE  Went
<1>1. /\ Spent \in Frames' /\ Spent.oid = Top.oid /\ Spent.root = Top.root
      /\ Spent.attached = Top.attached /\ Spent.sets = Top.sets
      BY SpentIs, NpcTypes, FramesKept
<1>2. run' = Append(Outer, Spent)
      BY DEF On
<1>3. orderly /\ Top.sets => Top.attached
      BY InnermostIs DEF InDialog
<1> QED BY <1>1, <1>2, <1>3, NpcTypes, GoesOnStep DEF SameDialog

LEMMA DoEventStep ==
    ASSUME DialogInv, NEW n \in Scripts, DoEvent(n)
    PROVE  DialogInv'
<1> DEFINE no == FALSE
<1>1. /\ npc' = npc /\ eventtimer' = eventtimer /\ bound' = bound /\ scr' = scr
      /\ Ready /\ Live \subseteq Live' /\ orderly' = orderly /\ npc[n].life = "on"
      BY LiveStays, StatementIs DEF DoEvent, Still
<1>2. Begin(sd, n, "any", no, FALSE) /\ no \in BOOLEAN /\ ~no
      BY DEF DoEvent
<1>3. n \in Live'
      BY <1>1, Known DEF Live
<1> HIDE DEF no
<1>4. Went
      BY <1>1, <1>2, <1>3, NpcTypes, AloneStep
<1> QED BY <1>1, <1>4, NpcsStay

LEMMA ForEachStep ==
    ASSUME DialogInv, NEW n \in Scripts, ForEach(n)
    PROVE  DialogInv'
<1> DEFINE yes == TRUE
           off == npc[n].off
<1>1. /\ npc' = npc /\ eventtimer' = eventtimer /\ bound' = bound /\ scr' = scr
      /\ Ready /\ Live \subseteq Live'
      BY LiveStays, StatementIs DEF ForEach, Still
<1>2. Event(sd, n, yes, off) /\ yes \in BOOLEAN /\ off \in BOOLEAN
      BY NpcTypes, Known DEF ForEach
<1> HIDE DEF yes, off
<1>3. Went
      BY <1>1, <1>2, NpcTypes, SameSession, EventStep
<1> QED BY <1>1, <1>3, NpcsStay

\* The NPCs after one of them has changed, but not gone
LEMMA NpcSet ==
    ASSUME DialogInv, NEW n \in Npcs, NEW new, npc' = [npc EXCEPT ![n] = new],
           new \in [life : {"absent", "on", "queued", "freed"}, off : BOOLEAN],
           (new.life \in {"on", "queued"}) = (n \in Live)
    PROVE  /\ npc' \in [Npcs -> [life : {"absent", "on", "queued", "freed"}, off : BOOLEAN]]
           /\ Live' = Live
           /\ \A p \in Puppets : p \in Live' => ParentOf[p] \in Live'
<1>1. npc \in [Npcs -> [life : {"absent", "on", "queued", "freed"}, off : BOOLEAN]]
      BY NpcTypes
<1>2. Live' = Live
      BY <1>1 DEF Live
<1> QED BY <1>1, <1>2 DEF DialogInv, FreedInv, NothingOfTheFreed, Exists

LEMMA TouchedStep ==
    ASSUME DialogInv, Live \subseteq Live', Ready, NEW s \in Sessions, SameDialog(sd, s),
           NEW n \in Scripts, Touched(s, n)
    PROVE  Went
<1> DEFINE t == [s EXCEPT !.areanpc = n]
           no == FALSE
<1>1. t \in Sessions /\ SameDialog(sd, t)
  <2>1. t \in Sessions /\ SameDialog(s, t)
        BY Known, SessionSets
  <2> QED BY <2>1 DEF SameDialog
<1>2. \/ Event(t, n, no, no)
      \/ sd' = t /\ run' = Base /\ orderly' = orderly
      \/ sd' = s /\ run' = Base /\ orderly' = orderly
      BY NpcTypes DEF Touched, Running, InOrder
<1>3. no \in BOOLEAN
      OBVIOUS
<1> HIDE DEF t, no
<1>4. CASE Event(t, n, no, no)
      BY <1>1, <1>3, <1>4, EventStep
<1>5. CASE sd' = t /\ run' = Base /\ orderly' = orderly
      BY <1>1, <1>5, NpcTypes, QuietStep
<1>6. CASE sd' = s /\ run' = Base /\ orderly' = orderly
      BY <1>6, NpcTypes, QuietStep
<1> QED BY <1>2, <1>4, <1>5, <1>6

\* What holds of the timers of NPCs while no NPC goes.
LEMMA TimersStay ==
    ASSUME DialogInv, Live' = Live, eventtimer' \subseteq eventtimer
    PROVE  /\ \A n \in eventtimer' : n \in Scripts /\ n \in Live'
           /\ "due" \in DOMAIN scr /\ (scr.due # Never => Clocked \in Live')
BY DEF DialogInv, FreedInv, Types, NothingOfTheFreed, Exists

LEMMA FlagSet ==
    ASSUME DialogInv, NEW n \in Npcs, NEW flag, flag \in BOOLEAN, npc' = [npc EXCEPT ![n].off = flag]
    PROVE  /\ npc' \in [Npcs -> [life : {"absent", "on", "queued", "freed"}, off : BOOLEAN]]
           /\ Live' = Live
           /\ \A p \in Puppets : p \in Live' => ParentOf[p] \in Live'
<1> DEFINE new == [life |-> npc[n].life, off |-> flag]
<1>1. npc \in [Npcs -> [life : {"absent", "on", "queued", "freed"}, off : BOOLEAN]]
      BY NpcTypes
<1>2. npc' = [npc EXCEPT ![n] = new] /\ new.life = npc[n].life
  <2>1. npc[n] \in [life : {"absent", "on", "queued", "freed"}, off : BOOLEAN]
        BY <1>1
  <2>2. [npc[n] EXCEPT !.off = flag] = new
        BY <2>1
  <2>3. npc' = [npc EXCEPT ![n] = [npc[n] EXCEPT !.off = flag]]
        OBVIOUS
  <2> QED BY <2>2, <2>3
<1>3. new \in [life : {"absent", "on", "queued", "freed"}, off : BOOLEAN]
      BY <1>1
<1> HIDE DEF new
<1>4. (new.life \in {"on", "queued"}) = (n \in Live)
      BY <1>2 DEF Live
<1> QED BY <1>2, <1>3, <1>4, NpcSet

LEMMA EnableStep ==
    ASSUME DialogInv, NEW n \in Scripts, EnableNpc(n) \/ (\E here \in BOOLEAN : NpcWarp(n, here))
    PROVE  DialogInv'
<1> DEFINE no == FALSE
<1>1. /\ npc' = [npc EXCEPT ![n].off = no] /\ eventtimer' = eventtimer /\ bound' = bound /\ scr' = scr
      /\ Ready /\ n \in Npcs /\ no \in BOOLEAN
      BY StatementIs, Known DEF EnableNpc, NpcWarp
<1> HIDE DEF no
<1>2. /\ npc' \in [Npcs -> [life : {"absent", "on", "queued", "freed"}, off : BOOLEAN]]
      /\ Live' = Live
      /\ \A p \in Puppets : p \in Live' => ParentOf[p] \in Live'
      BY <1>1, FlagSet
<1>3. PICK s \in Sessions : SameDialog(sd, s) /\ Touched(s, n)
  <2>1. CASE EnableNpc(n)
        BY <2>1, NpcTypes, SameSession DEF EnableNpc
  <2>2. CASE \E here \in BOOLEAN : NpcWarp(n, here)
    <3>1. PICK here \in BOOLEAN : NpcWarp(n, here)
          BY <2>2
    <3>2. sd \in Sessions /\ sd.near \in Npcs \cup {nobody}
          BY NpcTypes, Fields
    <3> DEFINE m == IF here THEN n ELSE IF sd.near = n THEN nobody ELSE sd.near
    <3>3. m \in Npcs \cup {nobody}
          BY <3>2, Known
    <3>4. Touched([sd EXCEPT !.near = m], n)
          BY <3>1 DEF NpcWarp
    <3> HIDE DEF m
    <3>5. [sd EXCEPT !.near = m] \in Sessions /\ SameDialog(sd, [sd EXCEPT !.near = m])
          BY <3>2, <3>3, SessionSets
    <3> QED BY <3>4, <3>5
  <2> QED BY <2>1, <2>2
<1>4. Went
      BY <1>1, <1>2, <1>3, TouchedStep
<1> QED BY <1>1, <1>2, <1>4, TimersStay, InvHolds

LEMMA DisableStep ==
    ASSUME DialogInv, NEW n \in Scripts, DisableNpc(n)
    PROVE  DialogInv'
<1> DEFINE yes == TRUE
<1>1. /\ npc' = [npc EXCEPT ![n].off = yes] /\ eventtimer' = eventtimer /\ bound' = bound /\ scr' = scr
      /\ n \in Npcs /\ yes \in BOOLEAN
      /\ run # << >> /\ Top.cmds > 0 /\ Top.at # "ask" /\ On(Spent) /\ sd' = sd /\ orderly' = orderly
      BY StatementIs, Known DEF DisableNpc
<1> HIDE DEF yes
<1>2. /\ npc' \in [Npcs -> [life : {"absent", "on", "queued", "freed"}, off : BOOLEAN]]
      /\ Live' = Live
      /\ \A p \in Puppets : p \in Live' => ParentOf[p] \in Live'
      BY <1>1, FlagSet
<1>3. Went
      BY <1>1, <1>2, NpcTypes, SameSession, SpentStep
<1> QED BY <1>1, <1>2, <1>3, TimersStay, InvHolds

LEMMA DestroyStep ==
    ASSUME DialogInv, NEW n \in Scripts, Destroy(n)
    PROVE  DialogInv'
<1> DEFINE s == IF Top.attached THEN Dequeued(sd) ELSE sd
           r == [Spent EXCEPT !.oid = nobody]
           new == [life |-> "queued", off |-> npc[n].off]
           fine == TRUE
<1>1. /\ npc' = [npc EXCEPT ![n].life = "queued"] /\ eventtimer' \subseteq eventtimer
      /\ bound' = bound /\ scr' = scr /\ n \in Npcs /\ n \in Live
      /\ run # << >> /\ Top.cmds > 0 /\ Top.at # "ask"
      BY Known DEF Destroy, Exists
<1>2. \/ Finish(r, s, fine)
      \/ run' = Append(Outer, r) /\ sd' = s /\ orderly' = (orderly /\ ~Top.attached)
      BY DEF Destroy, On, InOrder
<1>3. /\ npc' \in [Npcs -> [life : {"absent", "on", "queued", "freed"}, off : BOOLEAN]]
      /\ Live' = Live
      /\ \A p \in Puppets : p \in Live' => ParentOf[p] \in Live'
  <2>0. [npc[n] EXCEPT !.life = "queued"] = new
    <3>1. npc[n] \in [life : {"absent", "on", "queued", "freed"}, off : BOOLEAN]
          BY <1>1, NpcTypes
    <3> QED BY <3>1
  <2>1. npc' = [npc EXCEPT ![n] = new] /\ new.life = "queued"
        BY <1>1, <2>0
  <2>2. new \in [life : {"absent", "on", "queued", "freed"}, off : BOOLEAN]
        BY <1>1, NpcTypes
  <2> HIDE DEF new
  <2> QED BY <1>1, <2>1, <2>2, NpcSet
<1>4. /\ Spent \in Frames /\ Spent.root = Top.root
      /\ Spent.attached = Top.attached /\ Spent.sets = Top.sets
      BY <1>1, SpentIs, NpcTypes
<1>5. /\ r \in Frames /\ r.oid = nobody /\ r.root = Top.root
      /\ r.attached = Top.attached /\ r.sets = Top.sets
      BY <1>4 DEF Frames
<1>6. s \in Sessions /\ (Top.attached => s.npc_id = nobody) /\ s.npc_pos = sd.npc_pos
      /\ s.stackbuf = sd.stackbuf /\ s.scriptroot = sd.scriptroot /\ s.asked = sd.asked
      /\ (~Top.attached => s = sd)
      BY NpcTypes, DequeuedIs
<1> HIDE DEF s, r
<1>7. orderly /\ Top.sets => Top.attached /\ s.npc_id = nobody /\ s.stackbuf = 0 /\ ~s.asked
      BY <1>1, <1>6, InnermostIs DEF InDialog
<1>8. orderly /\ ~Top.sets => SameDialog(sd, s)
      BY <1>1, <1>6, InnermostIs DEF SameDialog
<1>9. fine \in BOOLEAN
      OBVIOUS
<1> HIDE DEF fine
<1>10. Went
  <2>1. CASE Finish(r, s, fine)
        BY <1>1, <1>3, <1>5, <1>6, <1>7, <1>8, <1>9, <2>1, TopFields, FinishStep
  <2>2. CASE run' = Append(Outer, r) /\ sd' = s /\ orderly' = (orderly /\ ~Top.attached)
    <3>1. r \in Frames'
          BY <1>3, <1>5, FramesKept
    <3>2. orderly' => orderly /\ ~Top.attached /\ ~Top.sets /\ sd' = sd
          BY <1>6, <1>7, <2>2
    <3>3. orderly' \in BOOLEAN
          BY <2>2
    <3> QED BY <1>1, <1>3, <1>5, <1>6, <2>2, <3>1, <3>2, <3>3, GoesOnStep
  <2> QED BY <1>2, <2>1, <2>2
<1> QED BY <1>1, <1>3, <1>10, TimersStay, InvHolds

LEMMA PuppetStep ==
    ASSUME DialogInv, NEW p \in Puppets, Puppet(p)
    PROVE  DialogInv'
<1>1. /\ npc' = [npc EXCEPT ![p] = [life |-> "on", off |-> FALSE]] /\ eventtimer' = eventtimer
      /\ bound' = bound /\ scr' = scr /\ p \in Npcs /\ Top.oid = ParentOf[p]
      /\ run # << >> /\ Top.cmds > 0 /\ Top.at # "ask" /\ On(Spent) /\ sd' = sd /\ orderly' = orderly
      BY StatementIs, Known DEF Puppet
<1>2. npc \in [Npcs -> [life : {"absent", "on", "queued", "freed"}, off : BOOLEAN]]
      BY NpcTypes
<1>3. npc' \in [Npcs -> [life : {"absent", "on", "queued", "freed"}, off : BOOLEAN]]
      BY <1>1, <1>2
<1>4. Live' = Live \cup {p}
      BY <1>1, <1>2 DEF Live
<1>5. Went
      BY <1>1, <1>4, NpcTypes, SameSession, SpentStep
<1>6. ParentOf[p] \in Live
  <2>1. Top.oid \in Live \cup {nobody}
        BY <1>1, InnermostIs, FrameFields
  <2>2. ParentOf[p] # nobody
        BY Known, DialogsAssumption
  <2> QED BY <1>1, <2>1, <2>2
<1>7. /\ \A n \in eventtimer' : n \in Scripts /\ n \in Live'
      /\ \A q \in Puppets : q \in Live => ParentOf[q] \in Live
      /\ "due" \in DOMAIN scr /\ (scr.due # Never => Clocked \in Live')
      BY <1>1, <1>4 DEF DialogInv, FreedInv, Types, NothingOfTheFreed, Exists
<1>8. \A q \in Puppets : q \in Live' => ParentOf[q] \in Live'
      BY <1>4, <1>6, <1>7
<1> QED BY <1>1, <1>3, <1>5, <1>7, <1>8, InvHolds

LEMMA AddTimerStep ==
    ASSUME DialogInv, NEW n \in Scripts, AddTimer(n)
    PROVE  DialogInv'
<1> DEFINE s == [sd EXCEPT !.timers = sd.timers \cup {n}]
<1>1. /\ npc' = npc /\ eventtimer' = eventtimer /\ bound' = bound /\ scr' = scr /\ Live \subseteq Live'
      /\ run # << >> /\ Top.cmds > 0 /\ Top.at # "ask" /\ On(Spent) /\ orderly' = orderly
      /\ sd' \in {s, sd}
      BY StatementIs, LiveStays DEF AddTimer, Still
<1>2. s \in Sessions /\ SameDialog(sd, s)
  <2>1. sd.timers \cup {n} \in SUBSET Scripts
        BY NpcTypes, Fields
  <2> QED BY <2>1, NpcTypes, SessionSets
<1> HIDE DEF s
<1>3. sd' \in Sessions /\ SameDialog(sd, sd')
      BY <1>1, <1>2, NpcTypes, SameSession
<1>4. Went
      BY <1>1, <1>3, SpentStep
<1> QED BY <1>1, <1>4, NpcsStay

LEMMA AddNpcTimerStep ==
    ASSUME DialogInv, NEW n \in Scripts, AddNpcTimer(n)
    PROVE  DialogInv'
<1>1. /\ npc' = npc /\ eventtimer' = eventtimer \cup {n} /\ bound' = bound /\ scr' = scr
      /\ Live \subseteq Live' /\ n \in Live
      /\ run # << >> /\ Top.cmds > 0 /\ Top.at # "ask" /\ On(Spent) /\ orderly' = orderly /\ sd' = sd
      BY StatementIs, LiveStays DEF AddNpcTimer, Exists
<1>2. Went
      BY <1>1, NpcTypes, SameSession, SpentStep
<1>3. Live' = Live
      BY <1>1 DEF Live
<1>4. /\ \A m \in eventtimer' : m \in Scripts /\ m \in Live'
      /\ \A p \in Puppets : p \in Live' => ParentOf[p] \in Live'
      /\ "due" \in DOMAIN scr /\ (scr.due # Never => Clocked \in Live')
      BY <1>1, <1>3 DEF DialogInv, FreedInv, Types, NothingOfTheFreed, Exists
<1> QED BY <1>1, <1>2, <1>4, NpcTypes, InvHolds

LEMMA AttachRidStep ==
    ASSUME DialogInv, NEW attached, attached \in BOOLEAN, AttachRid(attached)
    PROVE  DialogInv'
<1> DEFINE r == [Spent EXCEPT !.attached = attached]
<1>1. /\ npc' = npc /\ eventtimer' = eventtimer /\ bound' = bound /\ scr' = scr /\ Live \subseteq Live'
      /\ run # << >> /\ Top.cmds > 0 /\ Top.at # "ask" /\ sd' = sd /\ Top.attached # attached
      /\ run' = Append(Outer, r)
      /\ orderly' = (orderly /\ IF attached THEN ~Open(sd) /\ ~SomebodyAttached ELSE ~Top.sets)
      BY StatementIs, LiveStays DEF AttachRid, Still, On, InOrder
<1>2. /\ Spent \in Frames /\ Spent.root = Top.root /\ Spent.oid = Top.oid /\ Spent.sets = Top.sets
      BY <1>1, SpentIs, NpcTypes
<1>3. /\ r \in Frames' /\ r.oid = Top.oid /\ r.root = Top.root /\ r.attached = attached /\ r.sets = Top.sets
      BY <1>1, <1>2, FramesKept DEF Frames
<1> HIDE DEF r
<1>4. orderly /\ Top.sets => Top.attached
      BY <1>1, InnermostIs DEF InDialog
<1>5. orderly' => /\ orderly /\ ~Top.sets
                  /\ attached => ~SomebodyAttached /\ sd.npc_id = nobody
  <2>1. ASSUME orderly', attached PROVE sd.npc_id = nobody
        BY <1>1, <2>1, NpcTypes, NotOpen DEF DialogInv
  <2> QED BY <1>1, <1>4, <2>1
<1>6. orderly' \in BOOLEAN
      BY <1>1
<1>7. Went
      BY <1>1, <1>3, <1>5, <1>6, NpcTypes, GoesOnStep
<1> QED BY <1>1, <1>7, NpcsStay

LEMMA TimerKept ==
    ASSUME NEW c, "due" \in DOMAIN c
    PROVE  /\ "due" \in DOMAIN TimerStart(c) /\ "due" \in DOMAIN TimerStop(c)
           /\ "due" \in DOMAIN CalcNext(c)
           /\ \A t : "due" \in DOMAIN [c EXCEPT !.timer = t]
BY DEF TimerStart, TimerStop, CalcNext

LEMMA TimerSetKept ==
    ASSUME NEW c, "due" \in DOMAIN c, NEW t
    PROVE  "due" \in DOMAIN TimerSet(c, t)
<1> DEFINE u == IF t > Last THEN Last ELSE t
           stopped == TimerStop(c)
           back == [stopped EXCEPT !.timer = u]
           set == CalcNext(back)
<1>1. TimerSet(c, t) \in {c, set, TimerStart(set)}
      BY DEF TimerSet
<1>2. "due" \in DOMAIN stopped
      BY TimerKept
<1> HIDE DEF stopped
<1>3. "due" \in DOMAIN back
      BY <1>2, TimerKept
<1> HIDE DEF back
<1>4. "due" \in DOMAIN set
      BY <1>3, TimerKept
<1> HIDE DEF set
<1> QED BY <1>1, <1>4, TimerKept

LEMMA NpcTimerStatementStep ==
    ASSUME DialogInv, NEW c, "due" \in DOMAIN c, NpcTimerStatement(c)
    PROVE  DialogInv'
<1>1. /\ npc' = npc /\ eventtimer' = eventtimer /\ bound' = bound /\ scr' = c
      /\ Live \subseteq Live' /\ Clocked \in Live
      /\ run # << >> /\ Top.cmds > 0 /\ Top.at # "ask" /\ On(Spent) /\ orderly' = orderly /\ sd' = sd
      BY LiveStays DEF NpcTimerStatement, Exists, Still
<1>2. Went
      BY <1>1, NpcTypes, SameSession, SpentStep
<1>3. Live' = Live
      BY <1>1 DEF Live
<1>4. /\ \A m \in eventtimer' : m \in Scripts /\ m \in Live'
      /\ \A p \in Puppets : p \in Live' => ParentOf[p] \in Live'
      BY <1>1, <1>3 DEF DialogInv, FreedInv, Types, NothingOfTheFreed, Exists
<1> QED BY <1>1, <1>2, <1>3, <1>4, NpcTypes, InvHolds

-----------------------------------------------------------------------------
(* Every step keeps the invariant. *)

LEMMA RequestStep ==
    ASSUME DialogInv, Request
    PROVE  DialogInv'
<1>1. CASE \E n \in Npcs : Click(n) \/ BuySellSelected(n) \/ Walk(n)
      BY <1>1, ClickStep, BuySellStep, WalkStep
<1>2. CASE \E n \in Scripts : Cast(n)
      BY <1>2, CastStep
<1>3. CASE Walk(nobody)
      BY <1>3, WalkStep
<1> QED BY <1>1, <1>2, <1>3, OtherRequestStep, AnswerStep, StorageCloseStep, LoadEndAckStep, QuitStep
        DEF Request

LEMMA HappensStep ==
    ASSUME DialogInv, Happens
    PROVE  DialogInv'
<1>1. CASE \E n \in Scripts : PlayerTimer(n) \/ MobEvent(n) \/ NpcTimer(n) \/ NpcFree(n)
      BY <1>1, PlayerTimerStep, MobEventStep, NpcTimerStep, NpcFreeStep
<1>2. CASE \E n \in Parents, attached \in BOOLEAN : DoAll(n, attached)
      BY <1>2, DoAllStep
<1> QED BY <1>1, <1>2, TimerEventStep, TickStep DEF Happens

LEMMA ScriptStep ==
    ASSUME DialogInv, Script
    PROVE  DialogInv'
<1>1. CASE \E flag \in BOOLEAN : Wait(flag) \/ Ask(flag) \/ AttachRid(flag)
      BY <1>1, WaitStep, AskStep, AttachRidStep
<1>2. CASE \E n \in Scripts :
              \/ DoEvent(n) \/ ForEach(n) \/ EnableNpc(n) \/ DisableNpc(n) \/ Destroy(n)
              \/ AddTimer(n) \/ AddNpcTimer(n)
              \/ \E here \in BOOLEAN : NpcWarp(n, here)
      BY <1>2, DoEventStep, ForEachStep, EnableStep, DisableStep, DestroyStep, AddTimerStep,
         AddNpcTimerStep
<1>3. CASE \E p \in Puppets : Puppet(p)
      BY <1>3, PuppetStep
<1>4. ASSUME NEW c, c \in {TimerStart(scr), TimerStop(scr), TimerStart(TimerSet(scr, 0))}
                          \cup {TimerSet(scr, t) : t \in 0 .. Last},
             NpcTimerStatement(c)
      PROVE  DialogInv'
  <2>1. "due" \in DOMAIN scr
        BY DEF DialogInv, FreedInv
  <2>2. "due" \in DOMAIN c
        BY <1>4, <2>1, TimerKept, TimerSetKept
  <2> QED BY <1>4, <2>2, NpcTimerStatementStep
<1>5. CASE \/ NpcTimerStatement(TimerStart(scr)) \/ NpcTimerStatement(TimerStop(scr))
           \/ NpcTimerStatement(TimerStart(TimerSet(scr, 0)))
           \/ \E t \in 0 .. Last : NpcTimerStatement(TimerSet(scr, t))
      BY <1>4, <1>5
<1>6. CASE End \/ Call \/ Return
      BY <1>6, EndStep, CallStep
<1> QED BY <1>1, <1>2, <1>3, <1>5, <1>6 DEF Script

LEMMA AtFirst == Init => DialogInv
<1> SUFFICES ASSUME Init PROVE DialogInv
    OBVIOUS
<1>1. /\ npc = [n \in Npcs |-> [life |-> IF n \in Puppets THEN "absent" ELSE "on", off |-> FALSE]]
      /\ eventtimer = {} /\ sd = Fresh /\ run = << >> /\ scr = Stopped /\ orderly = TRUE
      /\ bound \in Bounds
      BY DEF Init
<1>2. Fresh \in Sessions
      BY EmptySeq DEF Sessions, Fresh, Places
<1>3. run \in Seq(Frames) /\ Len(run) = 0
      BY <1>1, EmptySeq
<1>4. Types
      BY <1>1, <1>2, <1>3 DEF Types
<1>5. NothingOfTheFreed
      BY <1>1, <1>3, Known DEF NothingOfTheFreed, Exists, Live
<1>6. "due" \in DOMAIN scr /\ scr.due = Never
      BY <1>1 DEF Stopped
<1>7. OneDialog
      BY <1>1, <1>3 DEF OneDialog, CanGoOn, Fresh
<1> QED BY <1>4, <1>5, <1>6, <1>7 DEF DialogInv, FreedInv

LEMMA EveryStep == DialogInv /\ [Next]_vars => DialogInv'
<1> SUFFICES ASSUME DialogInv, [Next]_vars PROVE DialogInv'
    OBVIOUS
<1>1. CASE Next
      BY <1>1, RequestStep, HappensStep, ScriptStep DEF Next
<1>2. CASE UNCHANGED vars
  <2>1. /\ npc' = npc /\ eventtimer' = eventtimer /\ sd' = sd /\ run' = run /\ scr' = scr
        /\ orderly' = orderly /\ bound' = bound
        BY <1>2 DEF vars
  <2>2. Live' = Live
        BY <2>1 DEF Live
  <2>3. Frames' = Frames
        BY <2>2 DEF Frames
  <2> QED BY <2>1, <2>2, <2>3 DEF DialogInv, FreedInv, Types, NothingOfTheFreed, Exists, OneDialog,
             InDialog, CanGoOn
<1> QED BY <1>1, <1>2

LEMMA Always == Spec => []DialogInv
BY AtFirst, EveryStep, PTL DEF Spec

\* The state has its types: of every script that runs, the NPC is there and the
\* root is an NPC with a script of its own (run_script_l reads the parent's).
THEOREM DialogTypes == Spec => []Types
<1>1. DialogInv => Types
      BY DEF DialogInv, FreedInv
<1> QED BY <1>1, Always, PTL

\* npc_free leaves no script, no timer and no puppet of the NPC behind, however the
\* scripts destroy each other while they run.
THEOREM TheFreedAreForgotten == Spec => []NothingOfTheFreed
<1>1. DialogInv => NothingOfTheFreed
      BY DEF DialogInv, FreedInv
<1> QED BY <1>1, Always, PTL

\* A player whose dialogs were not cut short can go on where the dialog waits: in the
\* script of the NPC they are with, with its question and its calls (npc_scriptcont).
THEOREM DialogsAreNotMixedUp == Spec => []DialogsGoOn
<1>1. ASSUME DialogInv PROVE DialogsGoOn
  <2>1. ASSUME orderly, Idle PROVE CanGoOn
        BY <1>1, <2>1, IdleNotOpen DEF Idle
  <2> QED BY <2>1 DEF DialogsGoOn, CanGoOn
<1> QED BY <1>1, Always, PTL
=============================================================================
