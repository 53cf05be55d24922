------------------------------ MODULE MCPlayers ------------------------------
(***************************************************************************)
(* Instances of Players, Status and Fights for TLC.                        *)
(***************************************************************************)
EXTENDS Fights

CONSTANTS sword, charm, friend

Raises == [s \in Skills |-> 3]

Strengths == [g \in Gear |-> IF g = sword THEN 1 ELSE 0]
Magics == [g \in Gear |-> IF g = charm THEN 2 ELSE 0]

\* The character grows, or it lives with one step of growth, or what is calculated
\* from it changes, with or without that, or it fights.
FewSteps == {<< 4, 0, 0, 0 >>, << 1, 2, 0, 0 >>, << 0, 2, 1, 0 >>, << 1, 1, 2, 0 >>,
             << 2, 1, 1, 0 >>, << 0, 0, 0, 4 >>}

\* Two attackers are too many for the armour of a target, three for its feet.
Config == [agi |-> [type |-> 2, count |-> 3, num |-> 5], vit |-> [type |-> 1, count |-> 2, num |-> 50],
           enemy_str |-> FALSE, enemy_critical |-> TRUE, enemy_critical_rate |-> 100,
           skill_min_damage |-> FALSE, enemy_perfect_flee |-> FALSE, monster_hp_rate |-> 100,
           pk_mode |-> TRUE, alchemist_summon_reward |-> FALSE]

Fighter == [pc |-> TRUE, hp |-> MaxHp, lv |-> 1, param |-> [a \in ATTRs |-> 1],
            unarmed |-> FALSE, brawling |-> 0, speed |-> 0, owl |-> 0,
            flee |-> 2, flee2 |-> 11, hit |-> 2, critical |-> 13, base_atk |-> 1, atk |-> 2, atk2 |-> 0,
            def |-> 0, def2 |-> 1, critical_def |-> 0, wlv |-> 1, range |-> 1,
            bow |-> FALSE, arrow_atk |-> 0, arrow_cri |-> 0, arrow_hit |-> 0, atk_rate |-> 100,
            double_rate |-> 0, deadly_strike |-> 0, perfect_hit |-> 0,
            hp_drain_rate |-> 0, hp_drain_per |-> 0,
            haste |-> 0, shield |-> 0, boss |-> FALSE, plant |-> FALSE, poisoned |-> FALSE]

\* Who has a sword drains, and strikes twice; an archer is deadly, and has a shield.
Few == {[Fighter EXCEPT !.double_rate = 10, !.hp_drain_rate = 20, !.hp_drain_per = 50],
        [Fighter EXCEPT !.bow = TRUE, !.range = 6, !.atk = 1, !.arrow_atk = 1, !.deadly_strike = 2,
                        !.haste = 8, !.shield = 1]}

Mob == [pc |-> FALSE, hp |-> 3, max_hp |-> 3, lv |-> 21, param |-> [a \in ATTRs |-> 1],
        atk |-> 1, atk2 |-> 2, def |-> 20, adelay |-> 10, xp_bonus |-> 1024, base_exp |-> 7, job_exp |-> 1,
        unarmed |-> FALSE, brawling |-> 0, speed |-> 0, critical_def |-> 0,
        haste |-> 0, shield |-> 0, boss |-> FALSE, plant |-> FALSE, poisoned |-> FALSE]

Beasts == {[Mob EXCEPT !.atk2 = 1]}

\* MAX_HP, ATK2, ADELAY
Mutants ==
    {[stat |-> "max_hp", value |-> 3, scale |-> 256, base |-> -1, strength |-> strength] :
        strength \in {-50, 50}}
      \cup {[stat |-> "atk2", value |-> 1, scale |-> 48, base |-> -1, strength |-> 120],
            [stat |-> "adelay", value |-> 2, scale |-> 80, base |-> -1, strength |-> -60]}
=============================================================================
