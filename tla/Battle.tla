-------------------------------- MODULE Battle --------------------------------
(***************************************************************************)
(* One blow: what a player or a mob may do to another (battle.cpp), and how *)
(* strong a mob is (mob.cpp).                                               *)
(*                                                                          *)
(* A block_list is a record of what the formulas read: for a player what    *)
(* pc_calcstatus derived, for a mob its mob_stat and what is in mob_db.     *)
(* Every random_ is a set of numbers, and a blow one of a set of blows.     *)
(* Motions, flags and the type that the client shows are left out, and so   *)
(* are spells: no caller of skill_attack asks for BF::MAGIC.                *)
(***************************************************************************)
EXTENDS Players

CONSTANT battle_config

ASSUME BattleAssumption ==
    /\ {battle_config.enemy_str, battle_config.enemy_critical, battle_config.skill_min_damage,
        battle_config.enemy_perfect_flee, battle_config.pk_mode,
        battle_config.alchemist_summon_reward} \subseteq BOOLEAN
    /\ {battle_config.enemy_critical_rate, battle_config.monster_hp_rate} \subseteq Nat
    /\ \A penaly \in {battle_config.agi, battle_config.vit} :
          penaly.type \in 0 .. 2 /\ penaly.count \in Nat \ {0, 1} /\ penaly.num \in Nat

-----------------------------------------------------------------------------
(* The block_lists that fight, with the numbers that the formulas read. *)

PcBlocks ==
    [pc : {TRUE}, hp : Nat, lv : Nat, param : [ATTRs -> Int],
     unarmed : BOOLEAN, brawling : Nat, speed : Nat, owl : Nat,
     flee : Int, flee2 : Int, hit : Int, critical : Int, base_atk : Int, atk : Int, atk2 : Int,
     def : Int, def2 : Int, critical_def : Int, wlv : Nat, range : Nat,
     bow : BOOLEAN, arrow_atk : Int, arrow_cri : Int, arrow_hit : Int, atk_rate : Int,
     double_rate : Int, deadly_strike : Int, perfect_hit : Int,
     hp_drain_rate : Int, hp_drain_per : Nat,
     haste : Nat, shield : Nat, boss : BOOLEAN, plant : BOOLEAN, poisoned : BOOLEAN]

\* The stats that may change, and everything that is known of a mob
MobStats == {"max_hp", "lv", "atk", "atk2", "def", "adelay"}
MobBlocks ==
    [pc : {FALSE}, hp : Nat, max_hp : Nat, lv : Nat, param : [ATTRs -> Int],
     atk : Nat, atk2 : Nat, def : Nat, adelay : Nat, xp_bonus : Nat, base_exp : Nat, job_exp : Nat,
     unarmed : BOOLEAN, brawling : Nat, speed : Nat, critical_def : Int,
     haste : Nat, shield : Nat, boss : BOOLEAN, plant : BOOLEAN, poisoned : BOOLEAN]

\* How mob_mutate changes a stat
MutationRules ==
    [stat : MobStats, value : Int, scale : Nat \ {0}, base : {-1} \cup (Nat \ {0}),
     strength : Int]

-----------------------------------------------------------------------------
(* Arithmetic and chances of the source. *)

\* The division of integers, towards zero
Quotient(x, y) == IF x >= 0 THEN x \div y ELSE -((-x) \div y)

Percent(x, rate) == Quotient(x * rate, 100)

\* random_::chance({num, den})
Chance(num, den) == {yes \in BOOLEAN : IF yes THEN num > 0 ELSE num < den}

\* random_::in(low, high), or low where there is nothing to choose
Between(low, high) == IF high > low THEN low .. high ELSE {low}

-----------------------------------------------------------------------------
(* What a block_list is worth (battle_get_str and its like). *)

\* battle_get_str ... battle_get_luk
Param(bl, attr) == Larger(0, bl.param[attr])

\* battle_get_max_hp
GetMaxHp(bl) ==
    IF bl.pc THEN MaxHp ELSE Larger(1, (bl.max_hp * battle_config.monster_hp_rate) \div 100)

\* battle_get_flee, _flee2, _hit: bonuses for who has no weapon and who is fast
Speed(bl) == bl.speed \div 8
Brawling(bl, part) == IF bl.unarmed THEN bl.brawling \div part ELSE 0
Flee(bl) ==
    Larger(1, (IF bl.pc THEN bl.flee ELSE Param(bl, "AGI") + bl.lv) + Brawling(bl, 8) + Speed(bl))
Flee2(bl) ==
    Larger(1, (IF bl.pc THEN Param(bl, "LUK") + bl.flee2 - bl.param["LUK"]
                        ELSE Param(bl, "LUK") + 1) + Brawling(bl, 8) + Speed(bl))
Hit(bl) == Larger(1, (IF bl.pc THEN bl.hit ELSE Param(bl, "DEX") + bl.lv) + Brawling(bl, 16))

\* battle_get_critical
Critical(bl) ==
    Larger(1, IF bl.pc THEN Param(bl, "LUK") * 2 + bl.critical - bl.param["LUK"] * 3
                       ELSE Param(bl, "LUK") * 3 + 1)

\* battle_get_baseatk
BaseAtk(bl) ==
    LET dstr == Param(bl, "STR") \div 10
    IN  Larger(1, IF bl.pc THEN bl.base_atk ELSE dstr * dstr + Param(bl, "STR"))

\* battle_get_atk, battle_get_atk2 of a mob; the latter is something else for a player
Atk(bl) == Larger(0, bl.atk)
Atk2(bl) == IF bl.pc THEN bl.atk2 ELSE Larger(0, bl.atk2)

\* battle_get_def, battle_get_def2: poison makes mobs weaker
Weakened(bl, def) == IF bl.poisoned /\ ~bl.pc THEN Percent(def, 75) ELSE def
Def(bl) == Larger(0, IF bl.def < 1000000 THEN Weakened(bl, bl.def) ELSE bl.def)
Def2(bl) == Larger(1, Weakened(bl, IF bl.pc THEN bl.def2 ELSE bl.param["VIT"]))

\* The penalties of who is attacked by many (battle_counttargeted).
Penalised(x, attackers, penaly, least) ==
    LET too_many == attackers - (penaly.count - 1)
    IN  IF penaly.type = 0 \/ too_many < 1 THEN x
        ELSE Larger(least, IF penaly.type = 1 THEN Percent(x, 100 - too_many * penaly.num)
                                              ELSE x - too_many * penaly.num)

-----------------------------------------------------------------------------
(* A weapon and what stands against it. *)

\* What is left of these damages; only so much defence is not to be broken.
Defended(damages, bl, attackers) ==
    LET def1 == Penalised(Def(bl), attackers, battle_config.vit, 0)
        def2 == Penalised(Def2(bl), attackers, battle_config.vit, 1)
        t_vit == Penalised(Param(bl, "VIT"), attackers, battle_config.vit, 1)
        vitbonusmax == (t_vit \div 20) * (t_vit \div 20) - 1
    IN  IF Def(bl) >= 1000000 THEN damages
        ELSE {Percent(damage, 100 - def1) - (def2 * 8) \div 10 - less :
                 damage \in damages, less \in Between(0, vitbonusmax)}

HitRate(src, target, attackers) ==
    Hit(src) - Penalised(Flee(target), attackers, battle_config.agi, 1) + 80

CriticalRate(cri, target) == Percent(cri - Param(target, "LUK") * 3, 100 - target.critical_def)

\* Does the target dodge the blow by luck?
Lucky(target) ==
    IF target.pc \/ battle_config.enemy_perfect_flee THEN Chance(Flee2(target), 1000) ELSE {FALSE}

\* battle_calc_damage
Final(damage, div_, misc) ==
    IF (battle_config.skill_min_damage \/ misc) /\ damage > 0 THEN Larger(damage, div_) ELSE damage

\* The blow in the end: how much, and ATK (dmg_lv)
Blow(damage, missed, lucky, target, div_) ==
    [damage |-> IF lucky THEN 0
                ELSE Final(IF target.plant THEN Smaller(1, damage) ELSE damage, div_, FALSE),
     dmg_lv |-> IF lucky THEN "LUCKY" ELSE IF missed THEN "FLEE" ELSE "DEF"]

\* battle_calc_mob_weapon_attack, also for a skill
MobBlows(src, target, attackers, skill) ==
    LET base == IF battle_config.enemy_str THEN BaseAtk(src) ELSE 0
        forces == Between(Smaller(Atk(src), Atk2(src)), Atk2(src))
        enemy_cri == Critical(src) - Param(target, "LUK") * 3
        cri == IF battle_config.enemy_critical_rate = 100 THEN enemy_cri
               ELSE Larger(1, Percent(enemy_cri, battle_config.enemy_critical_rate))
        critical == IF skill \/ ~battle_config.enemy_critical THEN {FALSE}
                    ELSE Chance(IF target.pc THEN Percent(cri, 100 - target.critical_def) ELSE cri,
                                1000)
        misses == Chance(100 - Clamped(HitRate(src, target, attackers), 5, 95), 100)
        damages(yes) == IF yes THEN {base + Atk2(src)}
                        ELSE Defended({base + force : force \in forces}, target, attackers)
    IN  UNION {{Blow(IF missed THEN 0 ELSE Larger(1, damage), missed, lucky, target, 1) :
                   damage \in damages(yes), missed \in IF yes THEN {FALSE} ELSE misses,
                   lucky \in IF skill THEN {FALSE} ELSE Lucky(target)} : yes \in critical}

\* battle_calc_pc_weapon_attack: it may be deadly for a mob, or else doubled, or else critical.
Ways(src, target) ==
    LET deadly == IF target.pc \/ target.boss THEN 0 ELSE src.deadly_strike
        cri == CriticalRate(Critical(src) + IF src.bow THEN src.arrow_cri ELSE 0, target)
    IN  {"deadly" : yes \in Chance(deadly, 100) \cap {TRUE}}
          \cup UNION {{IF double THEN "doubled" ELSE IF critical THEN "critical" ELSE "plain" :
                          double \in Chance(src.double_rate, 100), critical \in Chance(cri, 1000)} :
                         no \in Chance(deadly, 100) \cap {FALSE}}

\* What the weapon does without luck, near and from afar
Forces(src) ==
    LET dex == Percent(Param(src, "DEX"), 80 + src.wlv * 20)
        least == IF src.bow THEN Percent(Atk(src), Smaller(dex, Atk(src)))
                            ELSE Smaller(dex, Atk(src))
    IN  Between(least, Atk(src))
AtDistance(src, distance) ==
    IF src.range > 2 THEN (BaseAtk(src) * (256 + (80 * distance) \div src.range)) \div 256
    ELSE BaseAtk(src)
Malus(src, distance) == Larger(0, distance - src.owl \div 75)

PcDamages(src, target, attackers, distance, way) ==
    LET base == AtDistance(src, distance)
        arrows == IF src.bow THEN Between(0, src.arrow_atk) ELSE {0}
        plain == {Percent(base + force, src.atk_rate) + arrow : force \in Forces(src), arrow \in arrows}
        critical == Percent(base + Atk(src), src.atk_rate) + IF src.bow THEN src.arrow_atk ELSE 0
    IN  CASE way = "deadly" -> {target.hp}
          [] way = "critical" -> {Larger(1, critical + Atk2(src))}
          [] OTHER -> {Larger(1, damage + Atk2(src)) : damage \in Defended(plain, target, attackers)}

\* A deadly blow does not care whether it has missed.
PcBlows(src, target, attackers, distance) ==
    LET malus == Malus(src, distance)
        hitrate == HitRate(src, target, attackers) - malus * (malus + 1)
                     + IF src.bow THEN src.arrow_hit ELSE 0
        missed(way) == IF way = "critical" THEN {FALSE}
                       ELSE {miss \in Chance(100 - Larger(5, hitrate), 100) :
                                miss => src.perfect_hit < 100}
        times(way) == IF way = "doubled" THEN 2 ELSE 1
    IN  UNION {{Blow(IF miss /\ way # "deadly" THEN 0 ELSE times(way) * damage,
                     miss, lucky, target, times(way)) :
                   damage \in PcDamages(src, target, attackers, distance, way),
                   miss \in missed(way), lucky \in Lucky(target)} : way \in Ways(src, target)}

\* battle_calc_weapon_attack
Blows(src, target, attackers, distance) ==
    IF src.pc THEN PcBlows(src, target, attackers, distance)
    ELSE MobBlows(src, target, attackers, FALSE)

\* battle_calc_misc_attack of NPC_SELFDESTRUCTION, whose skill_get_num is one
SelfdestructDamage(src) == Final(src.hp, 1, TRUE)

\* battle_weapon_attack: haste hurts, a shield of a player takes away.
Taken(damage, target) ==
    LET hasty == (damage * (16 + target.haste)) \div 16
    IN  IF damage = 0 THEN 0
        ELSE IF target.pc THEN hasty - Smaller(hasty, target.shield) ELSE hasty

\* What a player gets out of a damage done (hp_drain)
Drained(src, damage) ==
    {IF yes THEN (damage * src.hp_drain_per) \div 100 ELSE 0 : yes \in Chance(src.hp_drain_rate, 100)}

-----------------------------------------------------------------------------
(* How strong a mob is. *)

\* mob_mutate for not more than mutation_scale: the stat, and what it is worth.  A mob
\* gets stronger if there is less time between its blows.
Changed(stats, m, intensity) ==
    LET old == stats[m.stat]
        sign == IF m.stat = "adelay" THEN -1 ELSE 1
        new == Larger(0, old + Quotient(old * sign * intensity, 256))
        relative == IF old = 0 THEN 0 ELSE Quotient((new - old) * 256, old)
        absolute == IF m.base = -1 THEN relative ELSE Quotient((new - old) * 256, m.base)
        real == IF relative < 0 THEN Larger(relative, absolute)
                ELSE IF relative > 0 THEN Smaller(relative, absolute) ELSE 0
        mutant == [stats EXCEPT ![m.stat] = new,
                                !.xp_bonus = Larger(1, @ + m.value * sign * real)]
    IN  [mutant EXCEPT !.atk = Smaller(mutant.atk, mutant.atk2),
                       !.atk2 = Larger(mutant.atk, mutant.atk2)]

\* mob_mutate: one mutation_scale after the other, which strengthens for either sign
Mutated(stats, m, intensity) ==
    LET steps == (Larger(intensity, -intensity) - 1) \div m.scale
        after[n \in 0 .. steps] == IF n = 0 THEN stats ELSE Changed(after[n - 1], m, m.scale)
        rest == IF intensity < 0 THEN intensity + steps * m.scale ELSE intensity - steps * m.scale
    IN  IF intensity = 0 THEN stats ELSE Changed(after[steps], m, rest)

\* mob_init, for one mutation
Born(species, m, strength) == Mutated(species, m, Larger(-240, Percent(strength, m.scale)))
=============================================================================
