--------------------------------- MODULE Mobs ---------------------------------
(***************************************************************************)
(* The monsters of one map (mob.cpp): they appear, look for a target, walk *)
(* and attack, cast, summon slaves, die, and come back.  All that moves    *)
(* them is timers, and every death ends with event scripts that may        *)
(* strike other monsters before the corpse has left the map.               *)
(*                                                                         *)
(* A monster never leaves its map, so positions are one question, whether  *)
(* two are near enough, which the model leaves open.  Modes, races and     *)
(* probabilities only forbid what is possible: they are left open too.     *)
(* What a blow does and what a death pays is in Battle and Fights; loot    *)
(* and items on the ground are left out.                                   *)
(***************************************************************************)
EXTENDS Naturals, FiniteSets

CONSTANTS
    Mobs,
    Respawning,     \* the mobs of the map's own spawn lines; the rest come once
    Players,
    Nobody,         \* BlockId()
    MaxHp,
    Reentrant       \* does an event of a dying mob strike that mob again?

ASSUME MobsAssumption ==
    /\ Respawning \subseteq Mobs /\ IsFiniteSet(Mobs)
    /\ Mobs \cap Players = {} /\ Nobody \notin Mobs \cup Players
    /\ MaxHp \in Nat \ {0}
    /\ Reentrant \in BOOLEAN

VARIABLES
    mob,            \* mob_data
    pc              \* of map_session_data, what mobs have to do with

vars == << mob, pc >>

-----------------------------------------------------------------------------
(* Mobs as they are before they come, when they are gone, and on the map. *)

\* A one-time mob whose id is not in id_db: not yet, or not any more.
Absent(id) ==
    [id |-> id, on |-> FALSE, state |-> "dead", hp |-> 0, timer |-> FALSE,
     skilltimer |-> FALSE, deletetimer |-> FALSE, spawns |-> 0,
     target |-> Nobody, attacked |-> Nobody, master |-> Nobody]

\* mob_changestate with IDLE
Idle(r) == [r EXCEPT !.state = "idle", !.timer = FALSE]

\* mob_spawn, where there is a free cell.  It asserts that there is no timer,
\* and does not touch skilltimer and deletetimer.
Appeared(r) ==
    [r EXCEPT !.id = "used", !.on = TRUE, !.hp = MaxHp, !.state = "idle",
              !.target = Nobody, !.attacked = Nobody, !.master = Nobody]

Init ==
    /\ mob = [x \in Mobs |-> IF x \in Respawning THEN Appeared(Absent("new"))
                                                 ELSE Absent("new")]
    /\ pc = [p \in Players |-> [on |-> FALSE, dead |-> FALSE, attacktarget |-> Nobody,
                                attack_continue |-> FALSE]]

On(x) == mob[x].on

-----------------------------------------------------------------------------
(* Death. *)

\* mob_deleteslave: who falls with the mobs of D
Slaves(f, D) == {s \in Mobs : f[s].on /\ f[s].master \in D}

\* The mobs of D, their slaves, the slaves of those...
Entourage(f, D) ==
    {x \in Mobs : \A E \in SUBSET Mobs : D \subseteq E /\ Slaves(f, E) \subseteq E => x \in E}

\* A mistake for SetDelaySpawn: one that did not come to an end by itself is
\* not scheduled.
ForgetsToSpawn(x, r) == r
\* mob_setdelayspawn: the mob is given back, or will come again.
SetDelaySpawn(x, r) ==
    IF x \in Respawning THEN [r EXCEPT !.spawns = @ + 1] ELSE Absent("gone")

\* mob_changestate with DEAD
Dead(r) ==
    [r EXCEPT !.state = "dead", !.hp = 0, !.timer = FALSE, !.skilltimer = FALSE,
              !.deletetimer = FALSE, !.target = Nobody, !.attacked = Nobody]

\* mob_delete and mob_catch_delete, without the slaves
Corpse(x, r) == SetDelaySpawn(x, [Dead(r) EXCEPT !.on = FALSE])

Fallen(f, D) == [x \in Mobs |-> IF x \in D THEN Corpse(x, f[x]) ELSE f[x]]

\* pc_stopattack.  attacktarget is whom the attack timer of q is for.
StopAttack(q) == [q EXCEPT !.attacktarget = Nobody, !.attack_continue = FALSE]

\* mob_stopattacked, for everyone who attacks a mob of D
LeftAlone(g, D) ==
    [p \in Players |-> IF g[p].attacktarget \in D THEN StopAttack(g[p]) ELSE g[p]]

\* killmonster, injure and the like, in a script that an event has started: K
\* is struck down.
Struck(f, g, K) ==
    LET D == Entourage(f, K)
    IN  /\ mob' = Fallen(f, D)
        /\ pc' = LeftAlone(g, D)

\* The death section of mob_damage for m: it may begin a last spell; events
\* strike K while m is still on the map, and those that strike m
\* make it leave before its time; then its slaves fall, and it is scheduled.
Dies(f, g, m) ==
    \E K \in SUBSET {x \in Mobs : f[x].on /\ (x = m => Reentrant)} :
    \E casts \in BOOLEAN :
        LET D == Entourage(f, K \cup {m})
            fallen == Fallen(f, D)
            last == [fallen[m] EXCEPT !.skilltimer = casts /\ m \in Respawning]
        IN  /\ mob' = [fallen EXCEPT ![m] = IF m \in K THEN SetDelaySpawn(m, last)
                                                       ELSE last]
            /\ pc' = LeftAlone(g, D)

\* mob_stop_walking
StopWalking(r) == IF r.state \in {"walk", "idle"} THEN Idle(r) ELSE r

\* mob_damage.  from is who is remembered as the attacker, if anyone; a
\* servant does not remember.
Damage(f, g, m, from, blow) ==
    LET r == [StopWalking(f[m]) EXCEPT
                 !.hp = @ - blow,
                 !.attacked = IF @ = Nobody /\ f[m].master \notin Players THEN from ELSE @]
        hit == [f EXCEPT ![m] = r]
    IN  IF r.hp > 0 THEN mob' = hit /\ pc' = g ELSE Dies(hit, g, m)

\* mob_heal, for damage that does good
Heal(m) ==
    /\ On(m)
    /\ mob[m].hp < MaxHp
    /\ mob' = [mob EXCEPT ![m].hp = @ + 1]
    /\ UNCHANGED pc

-----------------------------------------------------------------------------
(* Appearing. *)

\* mob_delayspawn, five seconds after the death at least: the other timers of
\* a corpse have come to nothing by then (delays and casts are shorter).
DelaySpawn(m) ==
    /\ mob[m].spawns > 0
    /\ ~On(m) => ~mob[m].timer /\ ~mob[m].skilltimer
    /\ mob' = [mob EXCEPT ![m] = [Appeared(mob[m]) EXCEPT !.spawns = @ - 1]]
    /\ UNCHANGED pc

\* There is no free cell: mob_spawn tries again later, and meanwhile the mob is
\* not on the map, if it was.
NoFreeCell(m) ==
    /\ mob[m].spawns > 0
    /\ mob' = [mob EXCEPT ![m].on = FALSE]
    /\ UNCHANGED pc

\* A one-time mob of a script or a GM: "monster" brings it to stay, "summon"
\* for a while, maybe as the servant of a player.
Summon(m, lifespan, owner) ==
    /\ mob[m].id = "new" /\ m \notin Respawning
    /\ owner # Nobody => lifespan /\ pc[owner].on
    /\ mob' = [mob EXCEPT ![m] = [Appeared(@) EXCEPT !.deletetimer = lifespan,
                                                     !.master = owner]]
    /\ UNCHANGED pc

-----------------------------------------------------------------------------
(* What a mob decides (mob_ai_sub_hard).  Each operator takes the mob as a   *)
(* stage finds it and returns the mobs that may come out of that stage.      *)

\* Players that a mob may go for, and other mobs that a servant may.
Prey == {p \in Players : pc[p].on /\ ~pc[p].dead}
Enemies(r) == IF r.master \in Players THEN {x \in Mobs : On(x) /\ mob[x] # r} ELSE {}

\* Here: on this map.  Nobody is not.
Here(x) == x \in {p \in Players : pc[p].on} \cup {y \in Mobs : On(y)}

\* mob_unlocktarget
Unlocked(r) == [r EXCEPT !.target = Nobody]

\* mob_changestate with WALK, for a path that may be empty
Walking(r) == {Idle(r), [r EXCEPT !.state = "walk", !.timer = TRUE]}

\* mob_walktoxy, to where there may be no path.  A walk only changes its end.
WalkTo(r) == IF r.state = "walk" THEN {r} ELSE {r} \cup Walking(r)

\* It was attacked, and turns on whoever did it, or forgets about it.
Retargeted(r) ==
    IF r.attacked = Nobody THEN {r}
    ELSE {r, [r EXCEPT !.attacked = Nobody]} \cup
         (IF r.attacked \in Prey
          THEN {[r EXCEPT !.target = r.attacked, !.attacked = Nobody]} ELSE {})

\* mob_warp, to its master
Warped(r) == [Idle(r) EXCEPT !.target = Nobody, !.attacked = Nobody]

\* mob_ai_sub_hard_slavemob: a slave keeps near its master and shares its
\* target.  A servant of a player does not.
Followed(r) ==
    IF r.master \notin Mobs THEN {r}
    ELSE IF mob[r.master].id # "used" THEN {r}
    ELSE {Warped(r)} \cup (IF r.target = Nobody THEN WalkTo(r) ELSE {r}) \cup
         (IF r.target = Nobody /\ mob[r.master].target \in Prey
          THEN {[r EXCEPT !.target = mob[r.master].target]} ELSE {})

\* mob_ai_sub_hard_activesearch
Searched(r) ==
    IF r.target # Nobody THEN {r}
    ELSE {r} \cup {[r EXCEPT !.target = x] : x \in Prey \cup Enemies(r)}

\* mobskill_use.  A spell that takes no time is one whose time is over at once.
Cast(r) == IF r.skilltimer THEN {r} ELSE {r, [r EXCEPT !.skilltimer = TRUE]}

\* A mistake for TakesAim: the timer of the walk is taken for its own.
AimsWalking(r) == [r EXCEPT !.state = "attack"]
\* In range: it stops and attacks, unless it does already.
TakesAim(r) ==
    IF r.state = "attack" THEN r ELSE [r EXCEPT !.state = "attack", !.timer = TRUE]

\* Without a target it casts or walks about; one that is gone it forgets;
\* another it gives up, follows or attacks.
Acted(r) ==
    IF r.target = Nobody THEN Cast(r) \cup WalkTo(r)
    ELSE IF ~Here(r.target) THEN {Unlocked(r), StopWalking(Unlocked(r))}
    ELSE {r, Unlocked(r), TakesAim(r)}
         \cup (UNION {WalkTo(c) : c \in Cast(r)})
         \cup {Unlocked(c) : c \in Cast(r)}

\* From stage to stage.
Via(R, Stage(_)) == UNION {Stage(r) : r \in R}
Thoughts(r) == Via(Via(Via(Retargeted(r), Followed), Searched), Acted)

\* mob_ai_sub_hard: the mobs of its kind without a target take over its
\* attacker (mob_ai_sub_hard_linksearch), and it decides.
Think(m) ==
    /\ On(m)
    /\ ~mob[m].skilltimer
    /\ \E link \in SUBSET {x \in Mobs \ {m} : On(x) /\ mob[x].target = Nobody} :
       \E r \in Thoughts(mob[m]) :
          /\ link # {} => mob[m].attacked \in Prey
          /\ mob' = [x \in Mobs |->
                        IF x = m THEN r
                        ELSE IF x \in link THEN [mob[x] EXCEPT !.target = mob[m].attacked]
                        ELSE mob[x]]
    /\ UNCHANGED pc

\* mob_ai_sub_lazy, with nobody near: it sometimes walks about.  (It may also
\* spawn or warp a mob that has a master and no spawn point: there is none.)
ThinkLazily(m) ==
    /\ On(m)
    /\ ~mob[m].skilltimer
    /\ \E r \in WalkTo(mob[m]) : mob' = [mob EXCEPT ![m] = r]
    /\ UNCHANGED pc

-----------------------------------------------------------------------------
(* Timers. *)

\* mob_timer for a corpse
TimerOfCorpse(m) ==
    /\ mob[m].timer
    /\ ~On(m)
    /\ mob' = [mob EXCEPT ![m].timer = FALSE]
    /\ UNCHANGED pc

\* mob_check_attack: whether it may still attack.  If not it may have lost its target.
MayAttack(r) == ~r.skilltimer /\ r.target \in Prey \cup {y \in Mobs : On(y)}
Checked(r) == {r} \cup (IF r.skilltimer THEN {} ELSE {Unlocked(r)})

\* mob_timer and mob_walk: half a step, and perhaps another, or a new path.
WalkTimer(m) ==
    /\ mob[m].timer
    /\ On(m)
    /\ mob[m].state = "walk"
    /\ \E r \in Checked(Idle(mob[m])) : \E w \in Walking(r) : mob' = [mob EXCEPT ![m] = w]
    /\ UNCHANGED pc

\* battle_damage and pc_damage: the players of V are struck, and those die.
Slain(V) == [p \in Players |-> IF p \in V THEN [pc[p] EXCEPT !.dead = TRUE] ELSE pc[p]]

\* After a blow the next one is set, even if an event of the victim's death has
\* removed the mob itself.  (One that does not come back is freed, with its timer.)
AttackTimerSet(f, m) ==
    IF f[m].id = "gone" THEN f
    ELSE [f EXCEPT ![m].state = "attack", ![m].timer = TRUE]

\* mob_timer and mob_attack
AttackTimer(m) ==
    /\ mob[m].timer
    /\ On(m)
    /\ mob[m].state = "attack"
    /\ LET ready == Idle(mob[m])
           at == [mob EXCEPT ![m] = ready]
       IN  \/ \* out of reach, or a spell instead
              /\ \E r \in Checked(ready) \cup Cast(ready) : mob' = [mob EXCEPT ![m] = r]
              /\ UNCHANGED pc
           \/ \* a player, and those near it, some of whom may die
              /\ MayAttack(ready) /\ ready.target \in Players
              /\ \E V \in SUBSET Prey :
                 \E K \in SUBSET {x \in Mobs : V # {} /\ On(x)} :
                    LET D == Entourage(at, K)
                    IN  /\ mob' = AttackTimerSet(Fallen(at, D), m)
                        /\ pc' = LeftAlone(Slain(V), D)
           \/ \* a mob that does not fall from it
              /\ MayAttack(ready) /\ ready.target \in Mobs \ {m}
              /\ mob[ready.target].hp > 1
              /\ Damage(AttackTimerSet(at, m), pc, ready.target, ready.master, 1)
           \/ \* a mob that falls, whose death unlocks the attacker's target
              /\ MayAttack(ready) /\ ready.target \in Mobs \ {m}
              /\ mob[ready.target].hp = 1
              /\ LET unlocked == [at EXCEPT ![m] = Unlocked(ready)]
                 IN  \E K \in SUBSET {x \in Mobs : On(x) /\ (x = ready.target => Reentrant)} :
                        LET D == Entourage(unlocked, K \cup {ready.target})
                        IN  /\ mob' = AttackTimerSet(Fallen(unlocked, D), m)
                            /\ pc' = LeftAlone(pc, D)

\* mobskill_castend_id and mobskill_castend_pos.  The mob may have died, or its
\* target left; otherwise it stops walking and does what the skill does.
CastEnd(m) ==
    /\ mob[m].skilltimer
    /\ LET r == [mob[m] EXCEPT !.skilltimer = FALSE]
           ended == [mob EXCEPT ![m] = r]
           cast == [mob EXCEPT ![m] = StopWalking(r)]
       IN  \/ \* nothing comes of it
              /\ mob' \in {ended} \cup (IF On(m) THEN {cast} ELSE {})
              /\ UNCHANGED pc
           \/ \* NPC_SUMMONSLAVE
              /\ On(m) /\ r.master = Nobody
              /\ \E s \in Mobs \ Respawning :
                    /\ mob[s].id = "new"
                    /\ mob' = [cast EXCEPT ![s] = [Appeared(@) EXCEPT !.master = m]]
              /\ UNCHANGED pc
           \/ \* NPC_SELFDESTRUCTION
              /\ On(m)
              /\ \E V \in SUBSET Prey : Damage(cast, Slain(V), m, Nobody, r.hp)

\* mob_timer_delete and mob_catch_delete: it disappears, its slaves stay.
Expire(m) ==
    /\ mob[m].deletetimer
    /\ mob' = Fallen(mob, {m})
    /\ pc' = LeftAlone(pc, {m})

-----------------------------------------------------------------------------
(* Scripts, GMs and players. *)

\* mob_delete, for killmonster and @killmonster2
Delete(m) == On(m) /\ Struck(mob, pc, {m})

\* mob_damage of all it has, for @killmonster
Kill(m) == On(m) /\ Damage(mob, pc, m, Nobody, mob[m].hp)

\* pc_attack_timer, due for a blow of p at x: it strikes a mob that is there and
\* in range, and goes on if it was asked to and was not stopped in between.
Strike(p, x, continue) ==
    LET stopped == [pc EXCEPT ![p] = StopAttack(@)]
        again == IF continue
                 THEN [stopped EXCEPT ![p].attacktarget = x, ![p].attack_continue = TRUE]
                 ELSE stopped
        able == Here(x) /\ pc[p].on /\ ~pc[p].dead
    IN  \/ /\ pc' \in {stopped} \cup (IF able THEN {again} ELSE {})
           /\ UNCHANGED mob
        \/ able /\ Damage(mob, again, x, p, 1)

\* 0x89: pc_attack on a mob, which may be dead and come back.
Attack(p, x, continue) ==
    /\ pc[p].on /\ ~pc[p].dead
    /\ mob[x].id = "used"
    /\ \/ /\ pc' = [pc EXCEPT ![p].attacktarget = x, ![p].attack_continue = continue]
          /\ UNCHANGED mob
       \/ Strike(p, x, continue)

PcAttackTimer(p) ==
    /\ pc[p].attacktarget # Nobody
    /\ Strike(p, pc[p].attacktarget, pc[p].attack_continue)

\* pc_setpos to elsewhere, or map_quit; a dead player is taken back to life.
Leave(p) ==
    /\ pc[p].on
    /\ pc' = [pc EXCEPT ![p] = [StopAttack(@) EXCEPT !.on = FALSE, !.dead = FALSE]]
    /\ UNCHANGED mob

\* clif_parse_LoadEndAck
Enter(p) ==
    /\ ~pc[p].on
    /\ pc' = [pc EXCEPT ![p].on = TRUE]
    /\ UNCHANGED mob

-----------------------------------------------------------------------------
Next ==
    \/ \E m \in Mobs :
          \/ DelaySpawn(m) \/ NoFreeCell(m)
          \/ \E lifespan \in BOOLEAN : \E owner \in Players \cup {Nobody} :
                Summon(m, lifespan, owner)
          \/ Think(m) \/ ThinkLazily(m)
          \/ TimerOfCorpse(m) \/ WalkTimer(m) \/ AttackTimer(m) \/ CastEnd(m)
          \/ Expire(m) \/ Delete(m) \/ Kill(m) \/ Heal(m)
    \/ \E p \in Players :
          \/ \E x \in Mobs : \E continue \in BOOLEAN : Attack(p, x, continue)
          \/ PcAttackTimer(p) \/ Leave(p) \/ Enter(p)

Spec == Init /\ [][Next]_vars

\* do_timer calls what is due; a mob that waits for a free cell finds one some day.
Fairness ==
    \A m \in Mobs : WF_vars(DelaySpawn(m)) /\ WF_vars(TimerOfCorpse(m)) /\ WF_vars(CastEnd(m))

LiveSpec == Spec /\ Fairness

-----------------------------------------------------------------------------
(* Properties. *)

\* Everything has the types of the source.
TypeOK ==
    /\ mob \in [Mobs ->
          [id : {"new", "used", "gone"}, on : BOOLEAN,
           state : {"idle", "walk", "attack", "dead"}, hp : 0 .. MaxHp,
           timer : BOOLEAN, skilltimer : BOOLEAN, deletetimer : BOOLEAN, spawns : Nat,
           target : Mobs \cup Players \cup {Nobody}, attacked : Players \cup {Nobody},
           master : Mobs \cup Players \cup {Nobody}]]
    /\ pc \in [Players ->
          [on : BOOLEAN, dead : BOOLEAN, attacktarget : Mobs \cup {Nobody},
           attack_continue : BOOLEAN]]

\* No mob is stuck: one that walks or attacks has the timer that takes it on,
\* and one that does neither has none that would move it.  mob_ai_sub_hard
\* leaves a mob alone that "attacks already", so a lost timer would be for good.
MovesOnTimers ==
    \A m \in Mobs : On(m) => (mob[m].timer <=> mob[m].state \in {"walk", "attack"})

\* What the map is meant to have comes back when it was killed.
KilledComeBack == \A m \in Respawning : ~On(m) ~> On(m)
=============================================================================
