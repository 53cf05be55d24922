------------------------------ MODULE Mobs_proofs ------------------------------
(***************************************************************************)
(* Proofs about Mobs for any mobs, players and hit points, as long as no    *)
(* event of a dying mob strikes that mob again (Reentrant): the mob would    *)
(* be scheduled twice, and appear while its timers run.                     *)
(***************************************************************************)
EXTENDS Mobs, Integers, TLAPS

Begun == {"walk", "attack"}

Anybody == Mobs \cup Players \cup {Nobody}

\* Mobs with so many hit points
MobsWith(Hp) ==
    [id : {"new", "used", "gone"}, on : BOOLEAN,
     state : {"idle", "walk", "attack", "dead"}, hp : Hp,
     timer : BOOLEAN, skilltimer : BOOLEAN, deletetimer : BOOLEAN, spawns : 0 .. 1,
     target : Anybody, attacked : Anybody, master : Anybody]
MobData == MobsWith(0 .. MaxHp)
\* A mob that was struck may have lost more than it had.
Hurt == MobsWith(Int)

\* A mob that is on the map, and one that is not.
Alive == {r \in MobData : /\ r.on /\ r.id = "used" /\ r.spawns = 0
                          /\ r.timer <=> r.state \in Begun}
Away(m) == {r \in MobData : /\ ~r.on /\ ~r.deletetimer
                            /\ r.spawns = IF m \in Respawning THEN 1 ELSE 0
                            /\ r.id = "new" => ~r.timer}

PcData == [on : BOOLEAN, dead : BOOLEAN, attacktarget : Mobs \cup {Nobody}, attack_continue : BOOLEAN]

Flocks == {f \in [Mobs -> MobData] : \A m \in Mobs : f[m] \in Alive \/ f[m] \in Away(m)}

\* A mob on the map has its timer and no spawn that waits; one that is not has one
\* spawn that waits, if it is to come back.
MobInv == mob \in Flocks /\ pc \in [Players -> PcData]

-----------------------------------------------------------------------------
(* Mobs. *)

LEMMA Facts ==
    /\ Mobs \cap Players = {} /\ Nobody \notin Mobs \cup Players /\ Respawning \subseteq Mobs
    /\ MaxHp \in Nat /\ MaxHp > 0
BY MobsAssumption

LEMMA AliveSets ==
    ASSUME NEW r \in Alive
    PROVE  /\ \A x \in Mobs \cup Players \cup {Nobody} : [r EXCEPT !.target = x] \in Alive
           /\ \A x \in Mobs \cup Players \cup {Nobody} : [r EXCEPT !.attacked = x] \in Alive
           /\ \A b \in BOOLEAN : [r EXCEPT !.skilltimer = b] \in Alive
           /\ \A h \in 0 .. MaxHp : [r EXCEPT !.hp = h] \in Alive
BY DEF Alive, MobData, MobsWith, Anybody

LEMMA AliveFields ==
    ASSUME NEW r \in Alive
    PROVE  /\ r \in MobData /\ r.on /\ r.id = "used" /\ r.spawns = 0 /\ r.hp \in 0 .. MaxHp
           /\ r.target \in Mobs \cup Players \cup {Nobody} /\ r.attacked \in Mobs \cup Players \cup {Nobody}
           /\ r.master \in Mobs \cup Players \cup {Nobody}
           /\ r.timer \in BOOLEAN /\ r.skilltimer \in BOOLEAN /\ r.deletetimer \in BOOLEAN
BY DEF Alive, MobData, MobsWith, Anybody

LEMMA IdleIs ==
    ASSUME NEW r \in Alive
    PROVE  Idle(r) \in Alive /\ Idle(r).target = r.target /\ Idle(r).attacked = r.attacked
           /\ Idle(r).hp = r.hp /\ Idle(r).master = r.master
BY DEF Idle, Alive, MobData, MobsWith, Anybody, Begun

LEMMA WalkingIs ==
    ASSUME NEW r \in Alive
    PROVE  Walking(r) \subseteq Alive /\ WalkTo(r) \subseteq Alive
<1>1. [r EXCEPT !.state = "walk", !.timer = TRUE] \in Alive
      BY DEF Alive, MobData, MobsWith, Anybody, Begun
<1> QED BY <1>1, IdleIs DEF Walking, WalkTo

LEMMA AimIs ==
    ASSUME NEW r \in Alive
    PROVE  TakesAim(r) \in Alive
BY DEF TakesAim, Alive, MobData, MobsWith, Anybody, Begun

LEMMA StopIs ==
    ASSUME NEW r \in Alive
    PROVE  StopWalking(r) \in Alive /\ StopWalking(r).hp = r.hp /\ StopWalking(r).master = r.master
           /\ StopWalking(r).attacked = r.attacked
BY IdleIs DEF StopWalking

LEMMA UnlockedIs ==
    ASSUME NEW r \in Alive
    PROVE  Unlocked(r) \in Alive /\ Checked(r) \subseteq Alive /\ Cast(r) \subseteq Alive
<1>1. Unlocked(r) \in Alive
      BY AliveSets DEF Unlocked
<1>2. [r EXCEPT !.skilltimer = TRUE] \in Alive
      BY DEF Alive, MobData, MobsWith, Anybody
<1> QED BY <1>1, <1>2 DEF Checked, Cast

-----------------------------------------------------------------------------
(* What a mob decides. *)

LEMMA RetargetedIs ==
    ASSUME NEW r \in Alive
    PROVE  Retargeted(r) \subseteq Alive
<1>1. [r EXCEPT !.attacked = Nobody] \in Alive
      BY AliveSets
<1>2. r.attacked \in Prey => [r EXCEPT !.target = r.attacked, !.attacked = Nobody] \in Alive
      BY DEF Prey, Alive, MobData, MobsWith, Anybody
<1> QED BY <1>1, <1>2 DEF Retargeted

LEMMA FollowedIs ==
    ASSUME NEW r \in Alive, MobInv
    PROVE  Followed(r) \subseteq Alive
<1>1. Warped(r) \in Alive
  <2> DEFINE i == Idle(r)
  <2>1. i \in Alive
        BY IdleIs
  <2> HIDE DEF i
  <2>2. [i EXCEPT !.target = Nobody, !.attacked = Nobody] \in Alive
        BY <2>1 DEF Alive, MobData, MobsWith, Anybody
  <2> QED BY <2>2 DEF Warped, i
<1>2. r.master \in Mobs /\ mob[r.master].target \in Prey
        => [r EXCEPT !.target = mob[r.master].target] \in Alive
      BY AliveSets DEF Prey
<1> QED BY <1>1, <1>2, WalkingIs DEF Followed

LEMMA SearchedIs ==
    ASSUME NEW r \in Alive
    PROVE  Searched(r) \subseteq Alive
<1>1. \A x \in Prey \cup Enemies(r) : [r EXCEPT !.target = x] \in Alive
      BY AliveSets DEF Prey, Enemies
<1> QED BY <1>1 DEF Searched

LEMMA ActedIs ==
    ASSUME NEW r \in Alive
    PROVE  Acted(r) \subseteq Alive
<1>1. \A c \in Cast(r) : WalkTo(c) \subseteq Alive /\ Unlocked(c) \in Alive
      BY UnlockedIs, WalkingIs
<1>2. Unlocked(r) \in Alive /\ StopWalking(Unlocked(r)) \in Alive
      BY UnlockedIs, StopIs
<1>3. UNION {WalkTo(c) : c \in Cast(r)} \subseteq Alive
      BY <1>1
<1>4. {Unlocked(c) : c \in Cast(r)} \subseteq Alive
      BY <1>1
<1>5. /\ Cast(r) \cup WalkTo(r) \subseteq Alive
      /\ {Unlocked(r), StopWalking(Unlocked(r))} \subseteq Alive
      /\ {r, Unlocked(r), TakesAim(r)} \subseteq Alive
      BY <1>2, UnlockedIs, WalkingIs, AimIs
<1>6. CASE r.target = Nobody
      BY <1>5, <1>6 DEF Acted
<1>7. CASE r.target # Nobody /\ ~Here(r.target)
      BY <1>5, <1>7 DEF Acted
<1>8. CASE r.target # Nobody /\ Here(r.target)
  <2>1. ASSUME NEW x \in Acted(r)
        PROVE  \/ x \in {r, Unlocked(r), TakesAim(r)}
               \/ \E c \in Cast(r) : x \in WalkTo(c)
               \/ \E c \in Cast(r) : x = Unlocked(c)
        BY <1>8 DEF Acted
  <2> QED BY <1>1, <1>5, <2>1
<1> QED BY <1>6, <1>7, <1>8

LEMMA ThoughtsAre ==
    ASSUME NEW r \in Alive, MobInv
    PROVE  Thoughts(r) \subseteq Alive
<1>1. Via(Retargeted(r), Followed) \subseteq Alive
      BY RetargetedIs, FollowedIs DEF Via
<1>2. Via(Via(Retargeted(r), Followed), Searched) \subseteq Alive
      BY <1>1, SearchedIs DEF Via
<1> QED BY <1>2, ActedIs DEF Via, Thoughts

-----------------------------------------------------------------------------
(* Death. *)

LEMMA EntourageIs ==
    ASSUME NEW f, NEW D \in SUBSET Mobs
    PROVE  /\ D \subseteq Entourage(f, D) /\ Entourage(f, D) \subseteq Mobs
           /\ (\A x \in D : f[x].on) => \A x \in Entourage(f, D) : f[x].on
<1>1. D \subseteq Entourage(f, D) /\ Entourage(f, D) \subseteq Mobs
      BY DEF Entourage
<1>2. ASSUME \A x \in D : f[x].on PROVE \A x \in Entourage(f, D) : f[x].on
  <2> DEFINE E == {x \in Mobs : f[x].on}
  <2>1. E \in SUBSET Mobs /\ D \subseteq E /\ Slaves(f, E) \subseteq E
        BY <1>2 DEF Slaves
  <2> QED BY <2>1 DEF Entourage
<1> QED BY <1>1, <1>2

LEMMA AbsentIs ==
    ASSUME NEW m \in Mobs, m \notin Respawning, NEW id \in {"new", "gone"}
    PROVE  Absent(id) \in Away(m)
BY Facts DEF Absent, Away, MobData, MobsWith, Anybody

\* A corpse may begin a last spell if it is to come back.
LEMMA CorpseIs ==
    ASSUME NEW m \in Mobs, NEW r, r \in Hurt, r.spawns = 0
    PROVE  /\ Corpse(m, r) \in Away(m)
           /\ \A casts \in BOOLEAN :
                 [Corpse(m, r) EXCEPT !.skilltimer = casts /\ m \in Respawning] \in Away(m)
           /\ m \notin Respawning => Corpse(m, r).id = "gone"
           /\ m \in Respawning => Corpse(m, r).id = r.id
<1> DEFINE d == Dead(r)
           e == [d EXCEPT !.on = FALSE]
<1>1. /\ d \in MobData /\ d.spawns = 0 /\ ~d.deletetimer /\ ~d.timer /\ d.id = r.id
  <2> DEFINE d1 == [r EXCEPT !.state = "dead"]
             d2 == [d1 EXCEPT !.hp = 0]
             d3 == [d2 EXCEPT !.timer = FALSE]
             d4 == [d3 EXCEPT !.skilltimer = FALSE]
             d5 == [d4 EXCEPT !.deletetimer = FALSE]
             d6 == [d5 EXCEPT !.target = Nobody]
             d7 == [d6 EXCEPT !.attacked = Nobody]
  <2>0. Dead(r) = d7
        BY DEF Dead
  <2>1. d1 \in Hurt /\ d1.spawns = 0 /\ d1.id = r.id
        BY DEF Hurt, MobsWith
  <2> HIDE DEF d1
  <2>2. d2 \in MobData /\ d2.spawns = 0 /\ d2.id = r.id
        BY <2>1, Facts DEF Hurt, MobData, MobsWith
  <2> HIDE DEF d2
  <2>3. d3 \in MobData /\ d3.spawns = 0 /\ d3.id = r.id /\ ~d3.timer
        BY <2>2 DEF MobData, MobsWith
  <2> HIDE DEF d3
  <2>4. d4 \in MobData /\ d4.spawns = 0 /\ d4.id = r.id /\ ~d4.timer
        BY <2>3 DEF MobData, MobsWith
  <2> HIDE DEF d4
  <2>5. d5 \in MobData /\ d5.spawns = 0 /\ d5.id = r.id /\ ~d5.timer /\ ~d5.deletetimer
        BY <2>4 DEF MobData, MobsWith
  <2> HIDE DEF d5
  <2>6. d6 \in MobData /\ d6.spawns = 0 /\ d6.id = r.id /\ ~d6.timer /\ ~d6.deletetimer
        BY <2>5 DEF MobData, MobsWith, Anybody
  <2> HIDE DEF d6
  <2>7. d7 \in MobData /\ d7.spawns = 0 /\ d7.id = r.id /\ ~d7.timer /\ ~d7.deletetimer
        BY <2>6 DEF MobData, MobsWith, Anybody
  <2> HIDE DEF d7
  <2> QED BY <2>0, <2>7
<1> HIDE DEF d
<1>2. /\ e \in MobData /\ ~e.on /\ e.spawns = 0 /\ ~e.deletetimer /\ ~e.timer /\ e.id = r.id
      BY <1>1 DEF MobData, MobsWith
<1> HIDE DEF e
<1>3. Corpse(m, r) = IF m \in Respawning THEN [e EXCEPT !.spawns = 1] ELSE Absent("gone")
  <2>1. Corpse(m, r) = SetDelaySpawn(m, e)
        BY DEF Corpse, e, d
  <2> QED BY <1>2, <2>1 DEF SetDelaySpawn
<1>4. CASE m \in Respawning
  <2> DEFINE c == [e EXCEPT !.spawns = 1]
  <2>1. c \in Away(m) /\ c.id = r.id
        BY <1>2, <1>4 DEF Away, MobData, MobsWith
  <2>2. Corpse(m, r) = c
        BY <1>3, <1>4
  <2> HIDE DEF c
  <2>3. ASSUME NEW b, b \in BOOLEAN PROVE [c EXCEPT !.skilltimer = b] \in Away(m)
        BY <2>1, <2>3 DEF Away, MobData, MobsWith
  <2>4. ASSUME NEW casts \in BOOLEAN
        PROVE  [c EXCEPT !.skilltimer = casts /\ m \in Respawning] \in Away(m)
    <3> DEFINE b == casts /\ m \in Respawning
    <3>1. b \in BOOLEAN
          OBVIOUS
    <3> HIDE DEF b
    <3> QED BY <2>3, <3>1 DEF b
  <2> QED BY <1>4, <2>1, <2>2, <2>4
<1>5. CASE m \notin Respawning
  <2> DEFINE c == Absent("gone")
  <2>1. c \in Away(m) /\ c.id = "gone"
        BY <1>5, AbsentIs DEF Absent
  <2>2. Corpse(m, r) = c
        BY <1>3, <1>5
  <2> HIDE DEF c
  <2>3. ASSUME NEW casts \in BOOLEAN
        PROVE  [c EXCEPT !.skilltimer = casts /\ m \in Respawning] \in Away(m)
    <3>1. casts /\ m \in Respawning <=> FALSE
          BY <1>5
    <3>2. [c EXCEPT !.skilltimer = FALSE] \in Away(m)
          BY <2>1 DEF Away, MobData, MobsWith
    <3> QED BY <3>1, <3>2
  <2> QED BY <1>5, <2>1, <2>2, <2>3
<1> QED BY <1>4, <1>5

\* Mobs, of which m was struck and is still on the map
Herds(m) ==
    {f \in [Mobs -> Hurt] : /\ f[m].on /\ f[m].id = "used" /\ f[m].spawns = 0
                            /\ \A x \in Mobs \ {m} : f[x] \in Alive \/ f[x] \in Away(x)}

LEMMA FlocksAreHerds ==
    ASSUME NEW f \in Flocks, NEW m \in Mobs, f[m].on
    PROVE  f \in Herds(m) /\ f[m] \in Alive
<1>1. f[m] \in Alive
      BY DEF Flocks, Away
<1>2. MobData \subseteq Hurt
      BY Facts DEF MobData, Hurt, MobsWith
<1> QED BY <1>1, <1>2, AliveFields DEF Flocks, Herds

LEMMA FellIs ==
    ASSUME NEW m \in Mobs, NEW f \in Herds(m), NEW D \in SUBSET Mobs, \A x \in D : f[x].on,
           m \in D \/ f \in Flocks
    PROVE  /\ Fallen(f, D) \in Flocks
           /\ \A x \in D : Fallen(f, D)[x] = Corpse(x, f[x])
           /\ \A x \in D : f[x].id = "used" => Fallen(f, D)[x].id # "new"
           /\ \A x \in Mobs \ D : Fallen(f, D)[x] = f[x]
<1>2. ASSUME NEW x \in D PROVE f[x] \in Hurt /\ f[x].spawns = 0
  <2>1. x \in Mobs /\ f[x].on
        OBVIOUS
  <2>2. x # m => f[x] \in Alive
        BY <2>1 DEF Herds, Away
  <2> QED BY <2>1, <2>2, AliveFields DEF Herds
<1>3. ASSUME NEW x \in D
      PROVE  /\ Corpse(x, f[x]) \in Away(x) /\ Corpse(x, f[x]) \in MobData
             /\ f[x].id = "used" => Corpse(x, f[x]).id # "new"
  <2>1. Corpse(x, f[x]) \in Away(x) /\ Corpse(x, f[x]).id \in {"gone", f[x].id}
        BY <1>2, CorpseIs
  <2> QED BY <2>1 DEF Away
<1>4. ASSUME NEW x \in Mobs \ D PROVE f[x] \in MobData /\ (f[x] \in Alive \/ f[x] \in Away(x))
      BY DEF Herds, Flocks, Alive, Away
<1>5. /\ \A x \in D : Fallen(f, D)[x] = Corpse(x, f[x])
      /\ \A x \in Mobs \ D : Fallen(f, D)[x] = f[x]
      /\ Fallen(f, D) = [x \in Mobs |-> Fallen(f, D)[x]]
      BY DEF Fallen
<1>6. Fallen(f, D) \in Flocks
      BY <1>3, <1>4, <1>5 DEF Flocks
<1> QED BY <1>3, <1>5, <1>6

\* Whoever falls with mobs of the map was on the map.
LEMMA FallenIs ==
    ASSUME NEW m \in Mobs, NEW f \in Herds(m), NEW K \in SUBSET Mobs, \A x \in K : f[x].on,
           m \in K \/ f \in Flocks
    PROVE  /\ Fallen(f, Entourage(f, K)) \in Flocks
           /\ \A x \in Entourage(f, K) : Fallen(f, Entourage(f, K))[x] = Corpse(x, f[x])
           /\ K \subseteq Entourage(f, K)
<1> DEFINE D == Entourage(f, K)
<1>1. K \subseteq D /\ D \in SUBSET Mobs /\ \A x \in D : f[x].on
      BY EntourageIs
<1> HIDE DEF D
<1>2. Fallen(f, D) \in Flocks /\ \A x \in D : Fallen(f, D)[x] = Corpse(x, f[x])
      BY <1>1, FellIs
<1> QED BY <1>1, <1>2 DEF D

LEMMA LeftAloneIs ==
    ASSUME NEW g \in [Players -> PcData], NEW D
    PROVE  LeftAlone(g, D) \in [Players -> PcData]
BY DEF LeftAlone, StopAttack, PcData

\* A mob dies, and with it whom the events strike, and the slaves of all of these.
LEMMA DiesStep ==
    ASSUME NEW m \in Mobs, NEW f \in Herds(m), NEW g \in [Players -> PcData], ~Reentrant, Dies(f, g, m)
    PROVE  MobInv'
<1>1. PICK K \in SUBSET {x \in Mobs : f[x].on /\ (x = m => Reentrant)}, casts \in BOOLEAN :
        LET D == Entourage(f, K \cup {m})
            fallen == Fallen(f, D)
            last == [fallen[m] EXCEPT !.skilltimer = casts /\ m \in Respawning]
        IN  /\ mob' = [fallen EXCEPT ![m] = IF m \in K THEN SetDelaySpawn(m, last) ELSE last]
            /\ pc' = LeftAlone(g, D)
      BY DEF Dies
<1> DEFINE L == K \cup {m}
           D == Entourage(f, L)
           fallen == Fallen(f, D)
           last == [fallen[m] EXCEPT !.skilltimer = casts /\ m \in Respawning]
<1>2. m \notin K /\ L \in SUBSET Mobs /\ m \in L /\ \A x \in L : f[x].on
      BY DEF Herds
<1>3. mob' = [fallen EXCEPT ![m] = last] /\ pc' = LeftAlone(g, D)
      BY <1>1, <1>2
<1> HIDE DEF L
<1>4. fallen \in Flocks /\ fallen[m] = Corpse(m, f[m])
      BY <1>2, FallenIs
<1>5. last \in Away(m) /\ last \in MobData
  <2>1. f[m] \in Hurt /\ f[m].spawns = 0
        BY DEF Herds
  <2>2. last \in Away(m)
        BY <1>4, <2>1, CorpseIs
  <2> QED BY <2>2 DEF Away
<1> HIDE DEF fallen, last, D
<1>6. mob' \in Flocks
      BY <1>3, <1>4, <1>5 DEF Flocks
<1> QED BY <1>3, <1>6, LeftAloneIs DEF MobInv

\* One that is struck stands still, remembers who it was, and dies or lives on.
LEMMA DamageStep ==
    ASSUME NEW f \in Flocks, NEW m \in Mobs, f[m].on, NEW g \in [Players -> PcData], ~Reentrant,
           NEW from \in Mobs \cup Players \cup {Nobody}, NEW blow \in Nat, Damage(f, g, m, from, blow)
    PROVE  MobInv'
<1> DEFINE s == StopWalking(f[m])
           hurt == [s EXCEPT !.hp = s.hp - blow]
           who == IF s.attacked = Nobody /\ f[m].master \notin Players THEN from ELSE s.attacked
           r == [hurt EXCEPT !.attacked = who]
           hit == [f EXCEPT ![m] = r]
<1>1. f \in Herds(m) /\ f[m] \in Alive
      BY FlocksAreHerds
<1>2. s \in Alive
      BY <1>1, StopIs
<1> HIDE DEF s
<1>3. who \in Mobs \cup Players \cup {Nobody}
      BY <1>2, AliveFields
<1> HIDE DEF who
<1>4. s.hp \in 0 .. MaxHp
      BY <1>2, AliveFields
<1>5. hurt \in Hurt /\ hurt.on /\ hurt.id = "used" /\ hurt.spawns = 0
      /\ (hurt.timer <=> hurt.state \in Begun) /\ hurt.hp = s.hp - blow
      BY <1>2, <1>4, Facts DEF Alive, MobData, Hurt, MobsWith
<1>6. hurt.hp > 0 => hurt \in Alive
      BY <1>2, <1>4, Facts DEF Alive, MobData, MobsWith
<1> HIDE DEF hurt
<1>7. /\ r \in Hurt /\ r.on /\ r.id = "used" /\ r.spawns = 0 /\ r.hp = hurt.hp
      /\ hurt.hp > 0 => r \in Alive
      BY <1>3, <1>5, <1>6 DEF Alive, Hurt, MobData, MobsWith, Anybody
<1>8. r = [s EXCEPT !.hp = @ - blow,
                    !.attacked = IF @ = Nobody /\ f[m].master \notin Players THEN from ELSE @]
      BY <1>2 DEF hurt, who, Alive, MobData, MobsWith
<1>9. IF r.hp > 0 THEN mob' = hit /\ pc' = g ELSE Dies(hit, g, m)
      BY <1>8 DEF Damage, s
<1> HIDE DEF r
<1>10. hit \in Herds(m)
      BY <1>1, <1>7 DEF Herds
<1>11. CASE r.hp > 0
  <2>1. r \in Alive /\ r \in MobData
        BY <1>7, <1>11 DEF Alive
  <2>2. hit \in Flocks
        BY <2>1 DEF Flocks
  <2> QED BY <1>9, <1>11, <2>2 DEF MobInv
<1>12. CASE ~(r.hp > 0)
  <2> HIDE DEF hit
  <2> QED BY <1>9, <1>10, <1>12, DiesStep
<1> QED BY <1>11, <1>12

LEMMA StruckStep ==
    ASSUME NEW f \in Flocks, NEW K \in SUBSET Mobs, \A x \in K : f[x].on
    PROVE  /\ Fallen(f, Entourage(f, K)) \in Flocks
           /\ \A x \in Mobs : f[x].on => Fallen(f, Entourage(f, K))[x].id # "new"
<1> DEFINE D == Entourage(f, K)
<1>1. D \in SUBSET Mobs /\ \A x \in D : f[x].on
      BY EntourageIs
<1> HIDE DEF D
<1>2. CASE \A x \in Mobs : ~f[x].on
  <2>1. D = {}
        BY <1>1, <1>2
  <2>2. Fallen(f, D) = f
        BY <2>1 DEF Fallen, Flocks
  <2> QED BY <1>2, <2>2 DEF D
<1>3. CASE \E x \in Mobs : f[x].on
  <2>1. PICK m \in Mobs : f[m].on
        BY <1>3
  <2>2. f \in Herds(m)
        BY <2>1, FlocksAreHerds
  <2>3. /\ Fallen(f, D) \in Flocks
        /\ \A x \in D : f[x].id = "used" => Fallen(f, D)[x].id # "new"
        /\ \A x \in Mobs \ D : Fallen(f, D)[x] = f[x]
        BY <1>1, <2>2, FellIs
  <2>4. \A x \in Mobs : f[x].on => f[x].id = "used"
        BY FlocksAreHerds, AliveFields
  <2> QED BY <2>3, <2>4 DEF D
<1> QED BY <1>2, <1>3

-----------------------------------------------------------------------------
(* Appearing. *)

LEMMA AppearedIs ==
    ASSUME NEW r, r \in MobData, ~r.timer
    PROVE  /\ Appeared(r) \in MobData /\ Appeared(r).on /\ Appeared(r).id = "used"
           /\ Appeared(r).spawns = r.spawns /\ ~Appeared(r).timer /\ Appeared(r).state = "idle"
<1> DEFINE a1 == [r EXCEPT !.id = "used"]
           a2 == [a1 EXCEPT !.on = TRUE]
           a == [a2 EXCEPT !.hp = MaxHp]
           b == [a EXCEPT !.state = "idle", !.target = Nobody]
<1>1. a \in MobData /\ a.on /\ a.id = "used" /\ a.spawns = r.spawns /\ ~a.timer
  <2>1. a1 \in MobData /\ a1.id = "used" /\ a1.spawns = r.spawns /\ ~a1.timer
        BY DEF MobData, MobsWith
  <2> HIDE DEF a1
  <2>2. a2 \in MobData /\ a2.on /\ a2.id = "used" /\ a2.spawns = r.spawns /\ ~a2.timer
        BY <2>1 DEF MobData, MobsWith
  <2> HIDE DEF a2
  <2> QED BY <2>2, Facts DEF MobData, MobsWith
<1>2. Appeared(r) = [b EXCEPT !.attacked = Nobody, !.master = Nobody]
      BY DEF Appeared
<1> HIDE DEF a
<1>3. b \in MobData /\ b.on /\ b.id = "used" /\ b.spawns = r.spawns /\ ~b.timer /\ b.state = "idle"
      BY <1>1 DEF MobData, MobsWith, Anybody
<1> HIDE DEF b
<1> QED BY <1>2, <1>3 DEF MobData, MobsWith, Anybody

LEMMA MobIs ==
    ASSUME MobInv, NEW m \in Mobs
    PROVE  /\ mob \in [Mobs -> MobData] /\ mob[m] \in MobData
           /\ mob[m] \in Alive \/ mob[m] \in Away(m)
           /\ On(m) <=> mob[m] \in Alive
           /\ ~On(m) <=> mob[m] \in Away(m)
BY DEF MobInv, Flocks, Alive, Away, On

LEMMA SetOne ==
    ASSUME NEW f \in Flocks, NEW m \in Mobs, NEW r, r \in Alive \/ r \in Away(m)
    PROVE  [f EXCEPT ![m] = r] \in Flocks
BY DEF Flocks, Alive, Away

LEMMA SetThere ==
    ASSUME NEW f \in Flocks, NEW m \in Mobs, NEW r, r \in Alive \/ r \in Away(m)
    PROVE  LET g == [f EXCEPT ![m] = r]
           IN  g \in Flocks /\ g[m] = r /\ \A x \in Mobs \ {m} : g[x] = f[x]
<1> DEFINE g == [f EXCEPT ![m] = r]
<1>1. DOMAIN f = Mobs
      BY DEF Flocks
<1>2. g[m] = r /\ \A x \in Mobs \ {m} : g[x] = f[x]
      BY <1>1
<1> QED BY <1>2, SetOne

LEMMA DelaySpawnStep ==
    ASSUME MobInv, NEW m \in Mobs, DelaySpawn(m)
    PROVE  MobInv'
<1> DEFINE a == Appeared(mob[m])
           r == [a EXCEPT !.spawns = a.spawns - 1]
<1>1. mob[m].spawns > 0 /\ (~On(m) => ~mob[m].timer) /\ mob' = [mob EXCEPT ![m] = r] /\ pc' = pc
  <2>1. mob[m].spawns > 0 /\ (~On(m) => ~mob[m].timer) /\ pc' = pc
        BY DEF DelaySpawn
  <2>2. mob' = [mob EXCEPT ![m] = [Appeared(mob[m]) EXCEPT !.spawns = @ - 1]]
        BY DEF DelaySpawn
  <2> QED BY <2>1, <2>2
<1>2. mob[m] \in Away(m)
      BY <1>1, MobIs, AliveFields
<1>3. ~mob[m].timer /\ mob[m].spawns = 1 /\ mob[m] \in MobData
      BY <1>1, <1>2 DEF Away, On
<1>4. a \in MobData /\ a.on /\ a.id = "used" /\ a.spawns = 1 /\ ~a.timer /\ a.state = "idle"
      BY <1>3, AppearedIs
<1> HIDE DEF a
<1>5. r \in Alive
      BY <1>4 DEF Alive, MobData, MobsWith, Begun
<1> QED BY <1>1, <1>5, SetOne DEF MobInv

LEMMA NoFreeCellStep ==
    ASSUME MobInv, NEW m \in Mobs, NoFreeCell(m)
    PROVE  MobInv'
<1>1. mob[m].spawns > 0 /\ mob' = [mob EXCEPT ![m].on = FALSE] /\ pc' = pc
      BY DEF NoFreeCell
<1>2. mob[m] \in Away(m)
      BY <1>1, MobIs, AliveFields
<1>3. [mob[m] EXCEPT !.on = FALSE] \in Away(m)
      BY <1>2 DEF Away, MobData, MobsWith
<1>4. mob' = [mob EXCEPT ![m] = [mob[m] EXCEPT !.on = FALSE]]
      BY <1>1
<1>5. mob \in Flocks /\ pc' \in [Players -> PcData]
      BY <1>1 DEF MobInv
<1>6. mob' \in Flocks
      BY <1>3, <1>4, <1>5, SetOne
<1> QED BY <1>1, <1>5, <1>6 DEF MobInv

LEMMA SummonStep ==
    ASSUME MobInv, NEW m \in Mobs, NEW lifespan, lifespan \in BOOLEAN, NEW owner \in Players \cup {Nobody},
           Summon(m, lifespan, owner)
    PROVE  MobInv'
<1> DEFINE a == Appeared(mob[m])
           r == [a EXCEPT !.deletetimer = lifespan, !.master = owner]
<1>1. mob[m].id = "new" /\ m \notin Respawning /\ mob' = [mob EXCEPT ![m] = r] /\ pc' = pc
      BY DEF Summon
<1>2. mob[m] \in Away(m)
      BY <1>1, MobIs, AliveFields
<1>3. ~mob[m].timer /\ mob[m].spawns = 0 /\ mob[m] \in MobData
      BY <1>1, <1>2 DEF Away
<1>4. a \in MobData /\ a.on /\ a.id = "used" /\ a.spawns = 0 /\ ~a.timer /\ a.state = "idle"
      BY <1>3, AppearedIs
<1> HIDE DEF a
<1> DEFINE b == [a EXCEPT !.deletetimer = lifespan]
<1>5. b \in Alive
      BY <1>4 DEF Alive, MobData, MobsWith, Begun
<1>6. r = [b EXCEPT !.master = owner]
      BY <1>4 DEF MobData, MobsWith
<1>7. owner \in Anybody
      BY DEF Anybody
<1> HIDE DEF b, r
<1>8. r \in Alive
      BY <1>5, <1>6, <1>7 DEF Alive, MobData, MobsWith, Begun
<1> QED BY <1>1, <1>8, SetOne DEF MobInv

LEMMA ThinkStep ==
    ASSUME MobInv, NEW m \in Mobs, Think(m)
    PROVE  MobInv'
<1>1. PICK link \in SUBSET {x \in Mobs \ {m} : On(x) /\ mob[x].target = Nobody}, r \in Thoughts(mob[m]) :
          /\ link # {} => mob[m].attacked \in Prey
          /\ mob' = [x \in Mobs |->
                        IF x = m THEN r
                        ELSE IF x \in link THEN [mob[x] EXCEPT !.target = mob[m].attacked]
                        ELSE mob[x]]
      BY DEF Think
<1>2. mob[m] \in Alive /\ r \in Alive
  <2>1. mob[m] \in Alive
        BY MobIs DEF Think
  <2> QED BY <2>1, ThoughtsAre
<1>3. ASSUME NEW x \in link PROVE [mob[x] EXCEPT !.target = mob[m].attacked] \in Alive
  <2>1. mob[x] \in Alive /\ mob[m].attacked \in Players
        BY <1>1, <1>3, MobIs DEF Prey
  <2> QED BY <2>1, AliveSets
<1>4. ASSUME NEW x \in Mobs PROVE mob'[x] \in Alive \/ mob'[x] \in Away(x)
      BY <1>1, <1>2, <1>3, <1>4, MobIs
<1>5. \A x \in Mobs : mob'[x] \in MobData
      BY <1>4 DEF Alive, Away
<1>6. mob' = [x \in Mobs |-> mob'[x]]
      BY <1>1
<1>7. mob' \in Flocks
      BY <1>4, <1>5, <1>6 DEF Flocks
<1> QED BY <1>7 DEF MobInv, Think

LEMMA ThinkLazilyStep ==
    ASSUME MobInv, NEW m \in Mobs, ThinkLazily(m)
    PROVE  MobInv'
<1>1. PICK r \in WalkTo(mob[m]) : mob' = [mob EXCEPT ![m] = r]
      BY DEF ThinkLazily
<1>2. r \in Alive
      BY MobIs, WalkingIs DEF ThinkLazily
<1> QED BY <1>1, <1>2, SetOne DEF MobInv, ThinkLazily

-----------------------------------------------------------------------------
(* Timers. *)

LEMMA TimerOfCorpseStep ==
    ASSUME MobInv, NEW m \in Mobs, TimerOfCorpse(m)
    PROVE  MobInv'
<1>1. mob[m] \in Away(m) /\ mob' = [mob EXCEPT ![m] = [mob[m] EXCEPT !.timer = FALSE]] /\ pc' = pc
      BY MobIs DEF TimerOfCorpse
<1>2. [mob[m] EXCEPT !.timer = FALSE] \in Away(m)
      BY <1>1 DEF Away, MobData, MobsWith
<1> QED BY <1>1, <1>2, SetOne DEF MobInv

LEMMA WalkTimerStep ==
    ASSUME MobInv, NEW m \in Mobs, WalkTimer(m)
    PROVE  MobInv'
<1>0. PICK r \in Checked(Idle(mob[m])) : \E w \in Walking(r) : mob' = [mob EXCEPT ![m] = w]
      BY DEF WalkTimer
<1>1. PICK w \in Walking(r) : mob' = [mob EXCEPT ![m] = w]
      BY <1>0
<1>2. w \in Alive
      BY MobIs, IdleIs, UnlockedIs, WalkingIs DEF WalkTimer
<1> QED BY <1>1, <1>2, SetOne DEF MobInv, WalkTimer

LEMMA SlainIs ==
    ASSUME MobInv, NEW V
    PROVE  Slain(V) \in [Players -> PcData]
BY DEF MobInv, Slain, PcData

\* The timer is set for the attacker, whether it fell or not.
LEMMA TimerSetIs ==
    ASSUME NEW f \in Flocks, NEW m \in Mobs, f[m].id # "new"
    PROVE  AttackTimerSet(f, m) \in Flocks /\ AttackTimerSet(f, m)[m].on = f[m].on
           /\ \A x \in Mobs \ {m} : AttackTimerSet(f, m)[x] = f[x]
<1> DEFINE a == [f[m] EXCEPT !.state = "attack"]
           r == [a EXCEPT !.timer = TRUE]
<1>1. CASE f[m].id = "gone"
      BY <1>1 DEF AttackTimerSet
<1>2. CASE f[m].id # "gone"
  <2>1. AttackTimerSet(f, m) = [f EXCEPT ![m] = r]
        BY <1>2 DEF AttackTimerSet, Flocks
  <2>2. r \in Alive \/ r \in Away(m)
    <3>1. CASE f[m] \in Alive
          BY <3>1 DEF Alive, MobData, MobsWith, Begun
    <3>2. CASE f[m] \in Away(m)
          BY <3>2 DEF Away, MobData, MobsWith
    <3> QED BY <3>1, <3>2 DEF Flocks
  <2>3. r.on = f[m].on
        BY DEF Flocks, MobData, MobsWith
  <2> HIDE DEF r
  <2>4. [f EXCEPT ![m] = r] \in Flocks
        BY <2>2, SetOne
  <2> QED BY <2>1, <2>3, <2>4 DEF Flocks
<1> QED BY <1>1, <1>2

LEMMA AttackTimerStep ==
    ASSUME MobInv, ~Reentrant, NEW m \in Mobs, AttackTimer(m)
    PROVE  MobInv'
<1> DEFINE ready == Idle(mob[m])
           at == [mob EXCEPT ![m] = ready]
           unlocked == [at EXCEPT ![m] = Unlocked(ready)]
           far == /\ \E r \in Checked(ready) \cup Cast(ready) : mob' = [mob EXCEPT ![m] = r]
                  /\ pc' = pc
           blow == \E V \in SUBSET Prey : \E K \in SUBSET {x \in Mobs : V # {} /\ On(x)} :
                     /\ mob' = AttackTimerSet(Fallen(at, Entourage(at, K)), m)
                     /\ pc' = LeftAlone(Slain(V), Entourage(at, K))
           scratch == /\ MayAttack(ready) /\ ready.target \in Mobs \ {m}
                      /\ Damage(AttackTimerSet(at, m), pc, ready.target, ready.master, 1)
           fell(K) == Entourage(unlocked, K \cup {ready.target})
           kill == /\ MayAttack(ready) /\ ready.target \in Mobs \ {m}
                   /\ \E K \in SUBSET {x \in Mobs : On(x) /\ (x = ready.target => Reentrant)} :
                        /\ mob' = AttackTimerSet(Fallen(unlocked, fell(K)), m)
                        /\ pc' = LeftAlone(pc, fell(K))
<1>1. far \/ blow \/ scratch \/ kill
      BY DEF AttackTimer
<1>2. mob[m] \in Alive /\ mob \in Flocks /\ pc \in [Players -> PcData]
      BY MobIs DEF AttackTimer, MobInv
<1>3. ready \in Alive /\ ready.target \in Anybody /\ ready.master \in Anybody
      BY <1>2, IdleIs, AliveFields DEF Anybody
<1>4. MayAttack(ready) /\ ready.target \in Mobs => On(ready.target)
      BY Facts DEF MayAttack, Prey
<1> HIDE DEF ready
<1>5. at \in Flocks /\ at[m] = ready /\ (\A x \in Mobs \ {m} : at[x] = mob[x])
      BY <1>2, <1>3, SetThere
<1> HIDE DEF at
<1>6. unlocked \in Flocks /\ unlocked[m] \in Alive /\ (\A x \in Mobs \ {m} : unlocked[x] = mob[x])
  <2> DEFINE u == Unlocked(ready)
  <2>1. u \in Alive
        BY <1>3, UnlockedIs
  <2> HIDE DEF u
  <2> DEFINE g == [at EXCEPT ![m] = u]
  <2>2. g \in Flocks /\ g[m] = u /\ \A x \in Mobs \ {m} : g[x] = at[x]
        BY <1>5, <2>1, SetThere
  <2>3. unlocked = g
        BY DEF u
  <2> HIDE DEF g, unlocked
  <2> QED BY <1>5, <2>1, <2>2, <2>3
<1> HIDE DEF unlocked
<1>7. \A x \in Mobs : On(x) => at[x].on /\ unlocked[x].on
      BY <1>3, <1>5, <1>6, AliveFields DEF On
<1>8. CASE far
  <2>1. PICK r \in Checked(ready) \cup Cast(ready) : mob' = [mob EXCEPT ![m] = r]
        BY <1>8
  <2>2. r \in Alive
        BY <1>3, UnlockedIs
  <2> QED BY <1>2, <1>8, <2>1, <2>2, SetOne DEF MobInv
<1>9. CASE blow
  <2>1. PICK V \in SUBSET Prey, K \in SUBSET Mobs :
              /\ \A x \in K : On(x)
              /\ mob' = AttackTimerSet(Fallen(at, Entourage(at, K)), m)
              /\ pc' = LeftAlone(Slain(V), Entourage(at, K))
        BY <1>9
  <2> DEFINE f == Fallen(at, Entourage(at, K))
  <2>2. f \in Flocks /\ f[m].id # "new"
        BY <1>3, <1>5, <1>7, <2>1, StruckStep, AliveFields
  <2>0. mob' = AttackTimerSet(f, m)
        BY <2>1
  <2> HIDE DEF f
  <2>3. mob' \in Flocks
        BY <2>0, <2>2, TimerSetIs
  <2>4. pc' \in [Players -> PcData]
        BY <2>1, SlainIs, LeftAloneIs
  <2> QED BY <2>3, <2>4 DEF MobInv
<1>10. CASE scratch
  <2> DEFINE f == AttackTimerSet(at, m)
  <2>1. f \in Flocks /\ f[ready.target].on
        BY <1>3, <1>4, <1>5, <1>7, <1>10, TimerSetIs, AliveFields
  <2>2. Damage(f, pc, ready.target, ready.master, 1)
        BY <1>10
  <2> HIDE DEF f
  <2> QED BY <1>2, <1>3, <1>10, <2>1, <2>2, DamageStep DEF Anybody
<1>11. CASE kill
  <2>1. PICK K \in SUBSET {x \in Mobs : On(x) /\ (x = ready.target => Reentrant)} :
              /\ mob' = AttackTimerSet(Fallen(unlocked, fell(K)), m)
              /\ pc' = LeftAlone(pc, fell(K))
        BY <1>11
  <2> DEFINE L == K \cup {ready.target}
             f == Fallen(unlocked, Entourage(unlocked, L))
  <2>2. L \in SUBSET Mobs /\ \A x \in L : unlocked[x].on
        BY <1>4, <1>7, <1>11
  <2>3. mob' = AttackTimerSet(f, m) /\ pc' = LeftAlone(pc, Entourage(unlocked, L))
        BY <2>1
  <2> HIDE DEF L
  <2>4. f \in Flocks /\ f[m].id # "new"
        BY <1>6, <2>2, StruckStep, AliveFields
  <2> HIDE DEF f
  <2>5. mob' \in Flocks
        BY <2>3, <2>4, TimerSetIs
  <2>6. pc' \in [Players -> PcData]
        BY <1>2, <2>3, LeftAloneIs
  <2> QED BY <2>5, <2>6 DEF MobInv
<1> QED BY <1>1, <1>8, <1>9, <1>10, <1>11

LEMMA CastEndStep ==
    ASSUME MobInv, ~Reentrant, NEW m \in Mobs, CastEnd(m)
    PROVE  MobInv'
<1> DEFINE r == [mob[m] EXCEPT !.skilltimer = FALSE]
           ended == [mob EXCEPT ![m] = r]
           cast == [mob EXCEPT ![m] = StopWalking(r)]
<1>1. \/ mob' = ended /\ pc' = pc
      \/ On(m) /\ mob' = cast /\ pc' = pc
      \/ /\ On(m) /\ pc' = pc
         /\ \E s \in Mobs \ Respawning :
               /\ mob[s].id = "new"
               /\ mob' = [cast EXCEPT ![s] = [Appeared(cast[s]) EXCEPT !.master = m]]
      \/ On(m) /\ \E V \in SUBSET Prey : Damage(cast, Slain(V), m, Nobody, r.hp)
      BY DEF CastEnd
<1>2. mob \in Flocks /\ pc \in [Players -> PcData]
      BY DEF MobInv
<1>3. r \in Alive \/ r \in Away(m)
  <2>1. CASE mob[m] \in Alive
        BY <2>1 DEF Alive, MobData, MobsWith
  <2>2. CASE mob[m] \in Away(m)
        BY <2>2 DEF Away, MobData, MobsWith
  <2> QED BY <2>1, <2>2, MobIs
<1>4. ASSUME On(m) PROVE r \in Alive /\ StopWalking(r) \in Alive /\ mob[m].id = "used"
  <2>1. mob[m] \in Alive
        BY <1>4, MobIs
  <2>2. r \in Alive
        BY <2>1 DEF Alive, MobData, MobsWith
  <2> QED BY <2>1, <2>2, StopIs, AliveFields
<1> HIDE DEF r
<1>5. ended \in Flocks
      BY <1>2, <1>3, SetOne
<1>6. On(m) => cast \in Flocks /\ cast[m] = StopWalking(r) /\ \A x \in Mobs \ {m} : cast[x] = mob[x]
  <2> SUFFICES ASSUME On(m) PROVE cast \in Flocks /\ cast[m] = StopWalking(r)
                                  /\ \A x \in Mobs \ {m} : cast[x] = mob[x]
      OBVIOUS
  <2> DEFINE w == StopWalking(r)
  <2>1. w \in Alive
        BY <1>4
  <2> HIDE DEF w
  <2> DEFINE g == [mob EXCEPT ![m] = w]
  <2>2. g \in Flocks /\ g[m] = w /\ \A x \in Mobs \ {m} : g[x] = mob[x]
        BY <1>2, <2>1, SetThere
  <2>3. cast = g /\ w = StopWalking(r)
        BY DEF w
  <2> HIDE DEF w, g, cast
  <2> QED BY <2>2, <2>3
<1> HIDE DEF ended, cast
<1>7. CASE mob' = ended /\ pc' = pc
      BY <1>2, <1>5, <1>7 DEF MobInv
<1>8. CASE On(m) /\ mob' = cast /\ pc' = pc
      BY <1>2, <1>6, <1>8 DEF MobInv
<1>9. CASE /\ On(m) /\ pc' = pc
           /\ \E s \in Mobs \ Respawning :
                 /\ mob[s].id = "new"
                 /\ mob' = [cast EXCEPT ![s] = [Appeared(cast[s]) EXCEPT !.master = m]]
  <2>1. PICK s \in Mobs \ Respawning :
              /\ mob[s].id = "new"
              /\ mob' = [cast EXCEPT ![s] = [Appeared(cast[s]) EXCEPT !.master = m]]
        BY <1>9
  <2> DEFINE a == Appeared(cast[s])
             b == [a EXCEPT !.master = m]
  <2>2. s # m /\ cast[s] = mob[s] /\ mob[s] \in Away(s)
        BY <1>4, <1>6, <1>9, <2>1, MobIs, AliveFields
  <2>3. a \in MobData /\ a.on /\ a.id = "used" /\ a.spawns = 0 /\ ~a.timer /\ a.state = "idle"
        BY <2>1, <2>2, AppearedIs DEF Away
  <2> HIDE DEF a
  <2>4. b \in Alive
        BY <2>3 DEF Alive, MobData, MobsWith, Anybody, Begun
  <2>5. mob' = [cast EXCEPT ![s] = b]
        BY <2>1 DEF a
  <2> HIDE DEF b
  <2>6. mob' \in Flocks
        BY <1>6, <1>9, <2>4, <2>5, SetOne
  <2> QED BY <1>2, <1>9, <2>6 DEF MobInv
<1>10. CASE On(m) /\ \E V \in SUBSET Prey : Damage(cast, Slain(V), m, Nobody, r.hp)
  <2>1. PICK V \in SUBSET Prey : Damage(cast, Slain(V), m, Nobody, r.hp)
        BY <1>10
  <2>2. r.hp \in Nat /\ cast \in Flocks /\ cast[m].on
        BY <1>4, <1>6, <1>10, AliveFields
  <2> QED BY <2>1, <2>2, SlainIs, DamageStep
<1> QED BY <1>1, <1>7, <1>8, <1>9, <1>10

LEMMA ExpireStep ==
    ASSUME MobInv, NEW m \in Mobs, Expire(m)
    PROVE  MobInv'
<1>1. mob[m].deletetimer /\ mob' = Fallen(mob, {m}) /\ pc' = LeftAlone(pc, {m})
      BY DEF Expire
<1>2. mob \in Flocks /\ pc \in [Players -> PcData]
      BY DEF MobInv
<1>3. mob[m].on
      BY <1>1, MobIs DEF Away, On
<1>4. mob \in Herds(m)
      BY <1>2, <1>3, FlocksAreHerds
<1>5. Fallen(mob, {m}) \in Flocks
      BY <1>3, <1>4, FellIs
<1> QED BY <1>1, <1>2, <1>5, LeftAloneIs DEF MobInv

-----------------------------------------------------------------------------
(* Scripts, GMs and players. *)

LEMMA DeleteStep ==
    ASSUME MobInv, NEW m \in Mobs, Delete(m)
    PROVE  MobInv'
<1> DEFINE K == {m}
<1>1. On(m) /\ mob' = Fallen(mob, Entourage(mob, K)) /\ pc' = LeftAlone(pc, Entourage(mob, K))
      BY DEF Delete, Struck
<1>2. mob \in Flocks /\ pc \in [Players -> PcData] /\ K \in SUBSET Mobs /\ \A x \in K : mob[x].on
      BY <1>1 DEF MobInv, On
<1> HIDE DEF K
<1> QED BY <1>1, <1>2, StruckStep, LeftAloneIs DEF MobInv

LEMMA KillStep ==
    ASSUME MobInv, ~Reentrant, NEW m \in Mobs, Kill(m)
    PROVE  MobInv'
<1>1. mob \in Flocks /\ pc \in [Players -> PcData] /\ mob[m].on
      /\ Damage(mob, pc, m, Nobody, mob[m].hp)
      BY DEF MobInv, Kill, On
<1>2. mob[m].hp \in Nat
      BY <1>1, FlocksAreHerds, AliveFields
<1> QED BY <1>1, <1>2, DamageStep

LEMMA HealStep ==
    ASSUME MobInv, NEW m \in Mobs, Heal(m)
    PROVE  MobInv'
<1>1. mob[m] \in Alive /\ mob[m].hp \in 0 .. MaxHp /\ mob[m].hp < MaxHp
      /\ mob' = [mob EXCEPT ![m].hp = mob[m].hp + 1] /\ pc' = pc
      BY MobIs, AliveFields DEF Heal
<1> DEFINE h == mob[m].hp + 1
<1>2. h \in 0 .. MaxHp
      BY <1>1, Facts
<1>3. mob' = [mob EXCEPT ![m] = [mob[m] EXCEPT !.hp = h]]
      BY <1>1
<1> HIDE DEF h
<1>4. [mob[m] EXCEPT !.hp = h] \in Alive
      BY <1>1, <1>2, AliveSets
<1>5. mob \in Flocks /\ pc' \in [Players -> PcData]
      BY <1>1 DEF MobInv
<1>6. mob' \in Flocks
      BY <1>3, <1>4, <1>5, SetOne
<1> QED BY <1>5, <1>6 DEF MobInv

LEMMA StrikeStep ==
    ASSUME MobInv, ~Reentrant, NEW p \in Players, NEW x \in Mobs, NEW continue, continue \in BOOLEAN,
           Strike(p, x, continue)
    PROVE  MobInv'
<1> DEFINE stopped == [pc EXCEPT ![p] = StopAttack(pc[p])]
           again == IF continue
                    THEN [stopped EXCEPT ![p].attacktarget = x, ![p].attack_continue = TRUE]
                    ELSE stopped
<1>1. \/ pc' \in {stopped, again} /\ mob' = mob
      \/ Here(x) /\ Damage(mob, again, x, p, 1)
      BY DEF Strike
<1>2. mob \in Flocks /\ pc \in [Players -> PcData]
      BY DEF MobInv
<1>3. stopped \in [Players -> PcData]
      BY <1>2 DEF PcData, StopAttack
<1>4. again \in [Players -> PcData]
  <2> HIDE DEF stopped
  <2>1. [stopped EXCEPT ![p].attacktarget = x, ![p].attack_continue = TRUE] \in [Players -> PcData]
        BY <1>3 DEF PcData
  <2> QED BY <1>3, <2>1
<1> HIDE DEF stopped, again
<1>5. Here(x) => mob[x].on
      BY Facts DEF Here, On
<1>6. CASE pc' \in {stopped, again} /\ mob' = mob
      BY <1>2, <1>3, <1>4, <1>6 DEF MobInv
<1>7. CASE Here(x) /\ Damage(mob, again, x, p, 1)
  <2>1. p \in Mobs \cup Players \cup {Nobody}
        OBVIOUS
  <2> QED BY <1>2, <1>4, <1>5, <1>7, <2>1, DamageStep
<1> QED BY <1>1, <1>6, <1>7

LEMMA AttackStep ==
    ASSUME MobInv, ~Reentrant, NEW p \in Players, NEW x \in Mobs, NEW continue, continue \in BOOLEAN,
           Attack(p, x, continue)
    PROVE  MobInv'
<1>1. CASE Strike(p, x, continue)
      BY <1>1, StrikeStep
<1>2. CASE /\ pc' = [pc EXCEPT ![p].attacktarget = x, ![p].attack_continue = continue]
           /\ mob' = mob
      BY <1>2 DEF MobInv, PcData
<1> QED BY <1>1, <1>2 DEF Attack

LEMMA PcAttackTimerStep ==
    ASSUME MobInv, ~Reentrant, NEW p \in Players, PcAttackTimer(p)
    PROVE  MobInv'
<1> DEFINE x == pc[p].attacktarget
           continue == pc[p].attack_continue
<1>1. x \in Mobs /\ continue \in BOOLEAN /\ Strike(p, x, continue)
      BY DEF PcAttackTimer, MobInv, PcData
<1> HIDE DEF x, continue
<1> QED BY <1>1, StrikeStep

LEMMA ComeAndGoStep ==
    ASSUME MobInv, NEW p \in Players, Leave(p) \/ Enter(p)
    PROVE  MobInv'
<1>1. CASE Leave(p)
      BY <1>1 DEF MobInv, Leave, PcData, StopAttack
<1>2. CASE Enter(p)
      BY <1>2 DEF MobInv, Enter, PcData
<1> QED BY <1>1, <1>2

-----------------------------------------------------------------------------
(* The theorems. *)

LEMMA AtFirst == Init => MobInv
<1> SUFFICES ASSUME Init PROVE MobInv
    OBVIOUS
<1>1. \A id \in {"new"} : Absent(id) \in MobData
      BY Facts DEF Absent, MobData, MobsWith, Anybody
<1>2. /\ Absent("new") \in MobData /\ ~Absent("new").timer /\ Absent("new").spawns = 0
      BY <1>1 DEF Absent
<1> DEFINE a == Absent("new")
<1>3. ASSUME NEW m \in Mobs PROVE mob[m] \in Alive \/ mob[m] \in Away(m)
  <2>1. CASE m \in Respawning
    <3>1. Appeared(a) \in Alive
      <4>1. a \in MobData /\ ~a.timer /\ a.spawns = 0
            BY <1>2
      <4> HIDE DEF a
      <4> QED BY <4>1, AppearedIs DEF Alive, Begun
    <3> QED BY <2>1, <3>1 DEF Init
  <2>2. CASE m \notin Respawning
        BY <2>2, AbsentIs DEF Init
  <2> QED BY <2>1, <2>2
<1>4. mob = [m \in Mobs |-> mob[m]]
      BY DEF Init
<1>5. \A m \in Mobs : mob[m] \in MobData
      BY <1>3 DEF Alive, Away
<1>6. pc \in [Players -> PcData]
      BY DEF Init, PcData
<1> QED BY <1>3, <1>4, <1>5, <1>6 DEF MobInv, Flocks

LEMMA EveryStep == MobInv /\ ~Reentrant /\ [Next]_vars => MobInv'
<1> SUFFICES ASSUME MobInv, ~Reentrant, [Next]_vars PROVE MobInv'
    OBVIOUS
<1>1. ASSUME NEW m \in Mobs,
             \/ DelaySpawn(m) \/ NoFreeCell(m)
             \/ \E lifespan \in BOOLEAN : \E owner \in Players \cup {Nobody} :
                   Summon(m, lifespan, owner)
             \/ Think(m) \/ ThinkLazily(m)
             \/ TimerOfCorpse(m) \/ WalkTimer(m) \/ AttackTimer(m) \/ CastEnd(m)
             \/ Expire(m) \/ Delete(m) \/ Kill(m) \/ Heal(m)
      PROVE  MobInv'
      BY <1>1, DelaySpawnStep, NoFreeCellStep, SummonStep, ThinkStep, ThinkLazilyStep, TimerOfCorpseStep,
         WalkTimerStep, AttackTimerStep, CastEndStep, ExpireStep, DeleteStep, KillStep, HealStep
<1>2. ASSUME NEW p \in Players,
             \/ \E x \in Mobs : \E continue \in BOOLEAN : Attack(p, x, continue)
             \/ PcAttackTimer(p) \/ Leave(p) \/ Enter(p)
      PROVE  MobInv'
      BY <1>2, AttackStep, PcAttackTimerStep, ComeAndGoStep
<1>3. CASE UNCHANGED vars
      BY <1>3 DEF vars, MobInv
<1> QED BY <1>1, <1>2, <1>3 DEF Next

\* While no event strikes the mob that dies.
Orderly == ~Reentrant

LEMMA OrderlyNext == Orderly => Orderly'
BY DEF Orderly

LEMMA Always == Orderly /\ Spec => []MobInv
<1>1. Orderly /\ Init => Orderly /\ MobInv
      BY AtFirst
<1>2. (Orderly /\ MobInv) /\ [Next]_vars => (Orderly /\ MobInv)'
      BY EveryStep, OrderlyNext DEF Orderly
<1> QED BY <1>1, <1>2, PTL DEF Spec

\* mob_timer, mob_attack, mob_walk and mob_changestate: a mob that walks or attacks has
\* its timer, and no other mob of the map has one, if no event strikes the mob that dies.
THEOREM MobsMoveOnTimers == Orderly /\ Spec => []MovesOnTimers
<1>1. MobInv => MovesOnTimers
  <2>1. ASSUME MobInv, NEW m \in Mobs, On(m)
        PROVE  mob[m].timer <=> mob[m].state \in {"walk", "attack"}
    <3>1. mob[m] \in Alive
          BY <2>1, MobIs
    <3> QED BY <3>1 DEF Alive, Begun
  <2> QED BY <2>1 DEF MovesOnTimers
<1> QED BY <1>1, Always, PTL

\* Of what the map is meant to have, each mob that is not there is due to come back, and
\* due once: with the timers of mob_setdelayspawn that is what KilledComeBack rests on.
KilledAreDue == \A m \in Mobs : mob[m].spawns = IF m \in Respawning /\ ~On(m) THEN 1 ELSE 0

\* mob_setdelayspawn and mob_spawn: what was killed waits for one mob_delayspawn, and no
\* mob of the map does, if no event strikes the mob that dies.
THEOREM KilledAreScheduledOnce == Orderly /\ Spec => []KilledAreDue
<1>1. MobInv => KilledAreDue
  <2>1. ASSUME MobInv, NEW m \in Mobs
        PROVE  mob[m].spawns = IF m \in Respawning /\ ~On(m) THEN 1 ELSE 0
    <3>1. CASE On(m)
          BY <2>1, <3>1, MobIs, AliveFields
    <3>2. CASE ~On(m)
      <4>1. mob[m] \in Away(m)
            BY <2>1, <3>2, MobIs
      <4> QED BY <3>2, <4>1 DEF Away
    <3> QED BY <3>1, <3>2
  <2> QED BY <2>1 DEF KilledAreDue
<1> QED BY <1>1, Always, PTL
=============================================================================
