------------------------------- MODULE Players -------------------------------
(***************************************************************************)
(* One character on a map server: its life (hp, death, poison, healing) and *)
(* its growth (levels, status points, skill points), with all that clients, *)
(* mobs, scripts and game masters may do to it (pc.cpp, skill.cpp and the   *)
(* commands of atcommand.cpp).                                              *)
(*                                                                          *)
(* Nothing here depends on where the character is or on who acts, except    *)
(* that some commands are for game masters of a higher level: who may act   *)
(* is left open.  Spell points go the way of hit points and are left out.   *)
(* max_hp is a constant: equipment is another module's.                     *)
(***************************************************************************)
EXTENDS Integers, Sequences, FiniteSets

CONSTANTS
    MaxLevel,       \* battle_config.maximum_level and MAX_LEVEL
    JobCap,         \* up_level of @jlvl, max_level of @charjlvl
    BaseStep,       \* exp_table_0, one number for all levels
    JobStep,        \* pc_nextjobexp
    MaxParameter,   \* battle_config.max_parameter
    Skills, QuestSkills, PoolSkills,
    MaxRaise,       \* max_raise of skill_db
    MaxHp,
    MaxPoison,      \* bound: the strongest poison
    Levels, Values, \* bound: levels and other numbers that are asked for
    Gains,          \* bound: amounts of experience, and of points and levels given
    Bounds          \* bound: steps of growth, what of its life the character has (2: all,
                    \* 1: it leaves and comes back, 0: nothing), and steps of Status and
                    \* of Fights

VARIABLES
    sd,             \* map_session_data
    regular,        \* history: no status point was given or taken since the last reset
    left            \* what is left of the bound

vars == << sd, regular, left >>

ATTRs == {"STR", "AGI", "VIT", "INT", "DEX", "LUK"}

\* stat_p, by base level.
stat_p == <<
    48, 52, 56, 60, 64, 69, 74, 79, 84, 90, 96, 102, 108, 115, 122, 129, 136, 144, 152, 160, 168,
    177, 186, 195, 204, 214, 224, 234, 244, 255, 266, 277, 288, 300, 312, 324, 336, 349, 362, 375,
    388, 402, 416, 430, 444, 459, 474, 489, 504, 520, 536, 552, 568, 585, 602, 619, 636, 654, 672,
    690, 708, 727, 746, 765, 784, 804, 824, 844, 864, 885, 906, 927, 948, 970, 992, 1014, 1036,
    1059, 1082, 1105, 1128, 1152, 1176, 1200, 1224, 1249, 1274, 1299, 1324, 1350, 1376, 1402, 1428,
    1455, 1482, 1509, 1536, 1564, 1592, 1620, 1648, 1677, 1706, 1735, 1764, 1794, 1824, 1854, 1884,
    1915, 1946, 1977, 2008, 2040, 2072, 2104, 2136, 2169, 2202, 2235, 2268, 2302, 2336, 2370, 2404,
    2439, 2474, 2509, 2544, 2580, 2616, 2652, 2688, 2725, 2762, 2799, 2836, 2874, 2912, 2950, 2988,
    3027, 3066, 3105, 3144, 3184, 3224, 3264, 3304, 3345, 3386, 3427, 3468, 3510, 3552, 3594, 3636,
    3679, 3722, 3765, 3808, 3852, 3896, 3940, 3984, 4029, 4074, 4119, 4164, 4210, 4256, 4302, 4348,
    4395, 4442, 4489, 4536, 4584, 4632, 4680, 4728, 4777, 4826, 4875, 4924, 4974, 5024, 5074, 5124,
    5175, 5226, 5277, 5328, 5380, 5432, 5484, 5536, 5589, 5642, 5695, 5748, 5802, 5856, 5910, 5964,
    6019, 6074, 6129, 6184, 6240, 6296, 6352, 6408, 6465, 6522, 6579, 6636, 6694, 6752, 6810, 6868,
    6927, 6986, 7045, 7104, 7164, 7224, 7284, 7344, 7405, 7466, 7527, 7588, 7650, 7712, 7774, 7836,
    7899, 7962, 8025, 8088, 8152, 8216, 8280, 8344, 8409, 8474, 8539, 8604, 8670, 8736, 8802, 8868,
    8935, 9002 >>

ASSUME PlayersAssumption ==
    /\ MaxLevel \in 1 .. Len(stat_p)
    /\ QuestSkills \cup PoolSkills \subseteq Skills /\ IsFiniteSet(Skills)
    /\ {JobCap, BaseStep, JobStep, MaxParameter, MaxHp, MaxPoison} \subseteq Nat \ {0}
    /\ MaxParameter >= 5
    /\ MaxRaise \in [Skills -> Nat]
    /\ Levels \cup Gains \subseteq Nat \ {0} /\ Values \subseteq Nat

-----------------------------------------------------------------------------
(* Costs and thresholds. *)

Larger(x, y) == IF x > y THEN x ELSE y
Smaller(x, y) == IF x < y THEN x ELSE y
Clamped(x, low, high) == Larger(low, Smaller(x, high))

SumOver(S, f(_)) ==
    LET plus[T \in SUBSET S] ==
            IF T = {} THEN 0
            ELSE LET x == CHOOSE y \in T : TRUE IN f(x) + plus[T \ {x}]
    IN  plus[S]

\* pc_need_status_point
NeedStatusPoint(val) == (val + 9) \div 10 + 1

\* What the levels after from, up to to, bring together
OfLevels(from, to, points(_)) ==
    LET sum[i \in (from .. to) \X (from .. to)] ==
            LET mid == (i[1] + i[2]) \div 2
            IN  IF i[1] = i[2] THEN 0
                ELSE IF i[1] + 1 = i[2] THEN points(i[2])
                ELSE sum[<< i[1], mid >>] + sum[<< mid, i[2] >>]
    IN  sum[<< from, to >>]

\* A mistake for PointsOfLevels: as if by the level before.
PointsOfFewerLevels(from, to) == OfLevels(from, to, LAMBDA level : (level + 13) \div 4)
\* The status points of these levels.
PointsOfLevels(from, to) == OfLevels(from, to, LAMBDA level : (level + 14) \div 4)

\* RAISE_COST
RaiseCost(lv) == (lv * (lv - 1)) \div 2

\* pc_skillpt_potential
SkillptPotential(r) ==
    SumOver({s \in Skills : r.skill[s] \in 1 .. MaxRaise[s] - 1},
            LAMBDA s : RaiseCost(MaxRaise[s]) - RaiseCost(r.skill[s]))

\* pc_nextbaseexp
NextBaseExp(r) == IF r.base_level >= MaxLevel \/ r.base_level <= 0 THEN 0 ELSE BaseStep

-----------------------------------------------------------------------------
(* A character that make_new_char made, and that pc_authok has let in. *)

Fresh ==
    [on |-> TRUE, dead_sit |-> "stand", hp |-> MaxHp, quick |-> 0,
     poison |-> 0, slowpoison |-> FALSE, opt2 |-> {},
     base_level |-> 1, base_exp |-> 0, job_level |-> 1, job_exp |-> 0,
     status_point |-> 0, attrs |-> [a \in ATTRs |-> 5],
     skill_point |-> 0, skill |-> [s \in Skills |-> IF s \in QuestSkills THEN 0 ELSE 1]]

Init ==
    /\ sd = Fresh
    /\ regular = TRUE
    /\ left \in Bounds

Dead(r) == r.dead_sit = "dead"

-----------------------------------------------------------------------------
(* Death and healing. *)

\* skill_status_change_clear, and skill_status_change_end of each effect
StatusChangeClear(r) == [r EXCEPT !.poison = 0, !.slowpoison = FALSE, !.opt2 = {}]

\* The penalty of a death, from level 20 on: some experience is lost.
Penalties(r) ==
    {r} \cup (IF r.base_level >= 20 THEN {[r EXCEPT !.base_exp = 0, !.job_exp = 0]} ELSE {})

\* pc_damage
Damaged(r, damage) ==
    IF Dead(r) THEN {r}
    ELSE LET hurt == [r EXCEPT !.dead_sit = "stand", !.hp = @ - damage]
         IN  IF hurt.hp > 0 THEN {hurt}
             ELSE Penalties(StatusChangeClear([hurt EXCEPT !.dead_sit = "dead", !.hp = 0,
                                                           !.quick = 0]))

\* pc_heal and pc_itemheal_effect, with hp good or bad
Healed(r, hp) ==
    LET now == Smaller(r.hp + hp, MaxHp)
    IN  IF now > 0 THEN {[r EXCEPT !.hp = now]} ELSE Damaged([r EXCEPT !.hp = 0], 1)

\* pc_heal_quick_accumulate
Accumulated(r, hp) == [r EXCEPT !.quick = Smaller(@ + hp, MaxHp - r.hp)]

\* pc_itemheal: what heals is put off, what hurts is not.
ItemHealed(r, hp) == IF hp > 0 THEN {Accumulated(r, hp)} ELSE Healed(r, hp)

\* pc_setrestartvalue
RestartValue(r) == [r EXCEPT !.hp = MaxHp \div 2]

\* Levels that are given, with what they bring: pc_heal of max_hp, even to the dead.
Lifted(r, level) ==
    Healed([r EXCEPT !.base_level = level,
                     !.status_point = @ + PointsOfLevels(r.base_level, level)], MaxHp)

-----------------------------------------------------------------------------
(* Steps. *)

\* The character lives: nothing but sd changes.
Lives(R) ==
    /\ left[2] = 2
    /\ sd.on
    /\ sd' \in R
    /\ UNCHANGED << regular, left >>

\* It grows, one of the steps that are bounded.
Grows(R) ==
    /\ left[1] > 0
    /\ sd.on
    /\ sd' \in R
    /\ left' = [left EXCEPT ![1] = @ - 1]

\* Status points that do not come from a level are not in stat_p.
Irregular == regular' = FALSE

-----------------------------------------------------------------------------
(* The life of a character. *)

\* A blow of a mob or a player, a spell, @kill, @doom, @die.
Damage(damage) == Lives(Damaged(sd, damage))

\* @heal: it does not kill.  (What would hurt the dead gives them hp.)
GmHeal(hp) ==
    /\ hp # 0
    /\ Lives(Healed(sd, IF hp > 0 THEN Smaller(hp, MaxHp - sd.hp) ELSE Larger(hp, 1 - sd.hp)))

\* heal of a script: it revives, also for a healing that is put off
ScriptHeal(hp, later) ==
    LET r == IF sd.hp < 1 /\ hp > 0 THEN [sd EXCEPT !.dead_sit = "stand"] ELSE sd
    IN  Lives(IF later /\ hp > 0 THEN ItemHealed(r, hp) ELSE Healed(r, hp))

\* pc_itemheal, for an item
ItemHeal(hp) == Lives(ItemHealed(sd, hp))

\* The source of injure stands up, even if it is dead.
InjureOther == Lives({[sd EXCEPT !.dead_sit = "stand"]})

\* @alive, @revive, @raise, @raisemap
Alive == Lives({[sd EXCEPT !.dead_sit = "stand", !.hp = MaxHp]})

\* 0xb2 of a dead player: back at the save point
Restart ==
    /\ Dead(sd)
    /\ Lives({StatusChangeClear(RestartValue([sd EXCEPT !.dead_sit = "stand"]))})

\* 0x89: to sit down, to stand up
SitOrStand(how) == ~Dead(sd) /\ Lives({[sd EXCEPT !.dead_sit = how]})

\* pc_natural_heal_hp, for those who may stand still
Rested(r) ==
    {r} \cup (IF Dead(r) \/ r.poison > 0 \/ r.hp = MaxHp THEN {} ELSE {[r EXCEPT !.hp = @ + 1]})

\* pc_natural_heal_sub: part of what was put off, of hp or only of sp, if it is
\* time for it (if not nothing is healed, which is too little for somebody who
\* has no hp), then what comes by itself.
NaturalHeal ==
    \E bonus \in 0 .. sd.quick :
        LET rest == [sd EXCEPT !.quick = @ - bonus]
            effects == IF sd.quick = 0 THEN {sd} \cup Healed(sd, 0)
                       ELSE IF bonus = 0 THEN Healed(rest, 0)
                       ELSE UNION {Healed(rest, hp) : hp \in bonus .. MaxHp}
        IN  Lives(UNION {Rested(r) : r \in effects})

\* skill_status_effect for poison
Poisoned(r, val1) ==
    [r EXCEPT !.poison = val1, !.opt2 = IF r.slowpoison THEN @ ELSE @ \cup {"poison"}]
StartPoison(val1) == sd.poison = 0 /\ Lives({Poisoned(sd, val1)})

\* skill_status_effect for slow poison: where there is no poison the timer of
\* an earlier one is gone already, and its mark stays.
StartSlowPoison ==
    Lives({IF sd.poison = 0 THEN [sd EXCEPT !.slowpoison = FALSE]
           ELSE [sd EXCEPT !.slowpoison = TRUE,
                           !.opt2 = (@ \ {"poison"}) \cup {"slowpoison"}]})

\* skill_status_change_end
PoisonEnded(r) == [r EXCEPT !.poison = 0, !.opt2 = @ \ {"poison"}]
SlowPoisonEnded(r) ==
    [r EXCEPT !.slowpoison = FALSE,
              !.opt2 = (@ \ {"slowpoison"}) \cup (IF r.poison > 0 THEN {"poison"} ELSE {})]

\* skill_status_change_timer for poison.  It grows weaker, and hurts whom it finds
\* strong enough.  The timer is set anew even for those who have just died of it.
PoisonTimer ==
    /\ sd.poison > 0
    /\ IF sd.slowpoison THEN Lives({sd})
       ELSE \E weaker \in 0 .. sd.poison - 1 :
               IF weaker = 0 THEN Lives({PoisonEnded(sd)})
               ELSE LET ticking == [sd EXCEPT !.poison = 0]
                        hurt == IF sd.hp > MaxHp \div 16
                                THEN Healed(ticking, -(3 + (MaxHp * 3) \div 200))
                                ELSE {ticking}
                    IN  Lives({[r EXCEPT !.poison = weaker] : r \in hurt})

\* The time of slow poison is over, or a script ends it.
EndSlowPoison == sd.slowpoison /\ Lives({SlowPoisonEnded(sd)})
EndPoison == sd.poison > 0 /\ Lives({PoisonEnded(sd)})

\* pc_makesavestatus for pc_autosave and @save: the dead have hp again.
Save == Lives({IF Dead(sd) THEN RestartValue(sd) ELSE sd})

\* pc_logout, map_quit and what chrif_save saves
Quit ==
    LET leaving == IF sd.poison > 0 THEN [sd EXCEPT !.hp = 1] ELSE sd
        saved == IF Dead(sd) THEN RestartValue(leaving) ELSE leaving
    IN  /\ left[2] > 0 /\ sd.on
        /\ sd' = [StatusChangeClear(saved) EXCEPT !.on = FALSE, !.dead_sit = "stand",
                                                  !.quick = 0]
        /\ UNCHANGED << regular, left >>

\* pc_authok
Authok ==
    /\ ~sd.on
    /\ sd' = [sd EXCEPT !.on = TRUE]
    /\ UNCHANGED << regular, left >>

-----------------------------------------------------------------------------
(* Growth, by playing. *)

\* pc_checkbaselevelup
CheckBaseLevelUp(r) ==
    IF NextBaseExp(r) > 0 /\ r.base_exp >= NextBaseExp(r)
    THEN CHOOSE up \in Lifted([r EXCEPT !.base_exp = @ - NextBaseExp(r)], r.base_level + 1) :
            TRUE
    ELSE r

\* pc_checkjoblevelup: there is no level for who cannot use more skill points.
CheckJobLevelUp(r) ==
    IF r.job_exp < JobStep THEN r
    ELSE IF SkillptPotential(r) < r.skill_point THEN [r EXCEPT !.job_exp = JobStep - 1]
    ELSE [r EXCEPT !.job_exp = @ - JobStep, !.skill_point = @ + 1,
                   !.job_level = IF @ < 250 /\ @ < 2 * r.base_level THEN @ + 1 ELSE @]

\* while (Check(sd)) {}: at most exp times
Repeated(Check(_), r, exp) ==
    LET times[n \in 0 .. exp] == IF n = 0 THEN r ELSE Check(times[n - 1])
    IN  times[exp]

\* pc_gainexp_reason
Gained(r, base, job) ==
    LET b == [r EXCEPT !.base_exp = @ + base]
        up == Repeated(CheckBaseLevelUp, b, b.base_exp)
        j == [up EXCEPT !.job_exp = @ + job]
    IN  Repeated(CheckJobLevelUp, j, j.job_exp)
GainExp(base, job) ==
    /\ ~Dead(sd)
    /\ Grows({Gained(sd, base, job)})
    /\ UNCHANGED regular

\* pc_statusup
StatusUp(a) ==
    /\ NeedStatusPoint(sd.attrs[a]) <= sd.status_point
    /\ sd.attrs[a] < MaxParameter
    /\ Grows({[sd EXCEPT !.attrs[a] = @ + 1,
                         !.status_point = @ - NeedStatusPoint(sd.attrs[a])]})
    /\ UNCHANGED regular

\* pc_skillup
SkillUp(s) ==
    /\ sd.skill[s] \in 1 .. MaxRaise[s] - 1
    /\ sd.skill_point >= sd.skill[s]
    /\ Grows({[sd EXCEPT !.skill[s] = @ + 1, !.skill_point = @ - sd.skill[s]]})
    /\ UNCHANGED regular

-----------------------------------------------------------------------------
(* Growth, by scripts (pc_setparam and some builtins). *)

\* SP::BASELEVEL: a lower level takes no points.
SetBaseLevel(val) ==
    LET level == Smaller(val, MaxLevel)
        r == [sd EXCEPT !.base_exp = 0]
    IN  /\ IF level > sd.base_level
           THEN Grows(Lifted(r, level)) /\ UNCHANGED regular
           ELSE /\ Grows(Healed([r EXCEPT !.base_level = level], MaxHp))
                /\ regular' = (regular /\ level = sd.base_level)

\* SP::JOBLEVEL
SetJobLevel(val) ==
    LET more == Larger(0, Smaller(val, MaxLevel) - sd.job_level)
    IN  /\ Grows({[sd EXCEPT !.job_level = Smaller(val, MaxLevel), !.job_exp = 0,
                             !.skill_point = @ + more]})
        /\ UNCHANGED regular

\* SP::BASEEXP, SP::JOBEXP: one level at most
SetBaseExp(val) ==
    /\ NextBaseExp(sd) > 0
    /\ Grows({CheckBaseLevelUp([sd EXCEPT !.base_exp = val])})
    /\ UNCHANGED regular
SetJobExp(val) ==
    LET r == CheckJobLevelUp([sd EXCEPT !.job_exp = val])
    IN  /\ Grows({r})
        /\ UNCHANGED regular

\* SP::STATUSPOINT
SetStatusPoint(val) ==
    /\ Grows({[sd EXCEPT !.status_point = val]})
    /\ Irregular

\* SP::SKILLPOINT
SetSkillPoint(val) ==
    /\ Grows({[sd EXCEPT !.skill_point = val]})
    /\ UNCHANGED regular

\* SP::STR ... SP::LUK with pc_statusup2; @str ... @luk
SetAttr(a, val) ==
    /\ Grows({[sd EXCEPT !.attrs[a] = Clamped(val, 1, MaxParameter)]})
    /\ Irregular

\* SP::HP
SetHp(val) == Lives(Healed(sd, val - sd.hp))

\* setskill, addtoskill with and without flag, @skill-learn, @setmagic
SetSkill(s, lv) ==
    /\ Grows({[sd EXCEPT !.skill[s] = lv]})
    /\ UNCHANGED regular

\* A mistake for ResetState: with the points of the level to come.
ResetStateWell(r) ==
    [r EXCEPT !.status_point = stat_p[r.base_level] + PointsOfLevels(r.base_level, r.base_level + 1),
              !.attrs = [a \in ATTRs |-> 1]]
\* pc_resetstate
ResetState(r) ==
    [r EXCEPT !.status_point = stat_p[r.base_level], !.attrs = [a \in ATTRs |-> 1]]

\* pc_resetskill with pc_calc_skillpoint: a point less than a skill has cost
ResetSkill(r) ==
    [r EXCEPT !.skill_point =
                  @ + SumOver({s \in PoolSkills : r.skill[s] > 0},
                              LAMBDA s : RaiseCost(r.skill[s]) - 1),
              !.skill = [s \in Skills |-> 0]]

\* resetstatus
ResetStatus ==
    /\ Grows({ResetState(sd)})
    /\ regular' = TRUE

-----------------------------------------------------------------------------
(* Growth, by game masters. *)

\* What @blvl and @charbaselvl leave of a character that loses levels
Lowered(r, by) ==
    LET level == Larger(1, r.base_level - by)
    IN  [r EXCEPT !.base_level = level,
                  !.status_point = IF @ > 0
                                   THEN Larger(0, @ - PointsOfLevels(level, r.base_level))
                                   ELSE @]

\* @blvl
BaseLevelUp(by) ==
    /\ sd.base_level < MaxLevel
    /\ Grows(Lifted(sd, Smaller(sd.base_level + by, MaxLevel)))
    /\ UNCHANGED regular
BaseLevelDown(by) ==
    LET r == Lowered(sd, by)
        owed == PointsOfLevels(r.base_level, sd.base_level)
    IN  /\ sd.base_level > 1
        /\ Grows({r})
        /\ regular' = (regular /\ sd.status_point >= owed)

\* @charbaselvl: as @blvl, and then @charstreset
CharBaseLevel(by) ==
    /\ IF by > 0
       THEN /\ sd.base_level < MaxLevel
            /\ \E r \in Lifted(sd, Smaller(sd.base_level + by, MaxLevel)) :
                  Grows({ResetState(r)})
       ELSE /\ sd.base_level > 1
            /\ Grows({ResetState([Lowered(sd, -by) EXCEPT !.base_exp = 0])})
    /\ regular' = TRUE

\* @stpoint, @skpoint, and @charstpoint, @charskpoint for others: not below zero, and
\* refused if it would change nothing
StatusPoint(by) ==
    LET new_status_point == Larger(0, sd.status_point + by)
    IN  new_status_point # sd.status_point /\ SetStatusPoint(new_status_point)
SkillPoint(by) ==
    LET new_skill_point == Larger(0, sd.skill_point + by)
    IN  new_skill_point # sd.skill_point /\ SetSkillPoint(new_skill_point)
CharStPoint(by) == StatusPoint(by)
CharSkPoint(by) == SkillPoint(by)

\* @jlvl.  Who is above the cap already is lowered by a raise.
JobLevel(by) ==
    LET level == IF by > 0 THEN Smaller(sd.job_level + by, JobCap)
                           ELSE Larger(1, sd.job_level + by)
        by2 == level - sd.job_level
    IN  /\ sd.job_level # (IF by > 0 THEN JobCap ELSE 1)
        /\ Grows({[sd EXCEPT !.job_level = level,
                             !.skill_point = IF by > 0 THEN @ + by2
                                             ELSE IF @ > 0 THEN Larger(0, @ + by2) ELSE @]})
        /\ UNCHANGED regular

\* @charjlvl
CharJobLevel(by) == JobLevel(by)

\* @allstats
AllStats(by) ==
    /\ Grows({[sd EXCEPT !.attrs = [a \in ATTRs |-> Clamped(@[a] + by, 1, MaxParameter)]]})
    /\ Irregular

\* @questskill, @charquestskill; @lostskill, @charlostskill
QuestSkill(s) ==
    /\ s \in QuestSkills /\ sd.skill[s] = 0
    /\ Grows({[sd EXCEPT !.skill[s] = 1]})
    /\ UNCHANGED regular
LostSkill(s) ==
    /\ s \in QuestSkills /\ sd.skill[s] > 0
    /\ Grows({[sd EXCEPT !.skill[s] = 0]})
    /\ UNCHANGED regular

\* @charskreset
CharSkReset ==
    /\ Grows({ResetSkill(sd)})
    /\ UNCHANGED regular

\* @charreset; @charwipe begins with level 1
CharReset(wipe) ==
    LET r == IF wipe THEN [sd EXCEPT !.base_level = 1, !.base_exp = 0,
                                     !.job_level = 1, !.job_exp = 0]
                     ELSE sd
    IN  /\ Grows({ResetSkill(ResetState(r))})
        /\ regular' = TRUE

-----------------------------------------------------------------------------
Live ==
    \/ \E n \in 1 .. MaxHp :
          \/ Damage(n) \/ GmHeal(n) \/ GmHeal(-n) \/ ItemHeal(n) \/ ItemHeal(-n) \/ SetHp(n)
          \/ \E later \in BOOLEAN : ScriptHeal(n, later) \/ ScriptHeal(-n, later)
    \/ SetHp(0) \/ InjureOther \/ Alive \/ Restart \/ Save \/ Quit \/ Authok
    \/ \E how \in {"sit", "stand"} : SitOrStand(how)
    \/ NaturalHeal \/ PoisonTimer \/ EndSlowPoison \/ EndPoison \/ StartSlowPoison
    \/ \E val1 \in 1 .. MaxPoison : StartPoison(val1)

Grow ==
    \/ \E base \in Gains \cup {0} : \E job \in Gains \cup {0} : GainExp(base, job)
    \/ \E a \in {"STR", "VIT"} : StatusUp(a) \/ \E val \in Values : SetAttr(a, val)
    \/ \E s \in Skills :
          \/ SkillUp(s) \/ QuestSkill(s) \/ LostSkill(s)
          \/ \E lv \in 0 .. 3 : SetSkill(s, lv)
    \/ \E val \in Levels : SetBaseLevel(val) \/ SetJobLevel(val)
    \/ \E val \in Values :
          SetBaseExp(val) \/ SetJobExp(val) \/ SetStatusPoint(val) \/ SetSkillPoint(val)
    \/ ResetStatus \/ CharSkReset
    \/ \E wipe \in BOOLEAN : CharReset(wipe)
    \/ \E by \in Gains :
          \/ BaseLevelUp(by) \/ BaseLevelDown(by) \/ CharBaseLevel(by) \/ CharBaseLevel(-by)
          \/ JobLevel(by) \/ CharJobLevel(-by) \/ AllStats(by) \/ AllStats(-by)
          \/ StatusPoint(by) \/ CharStPoint(-by) \/ SkillPoint(-by) \/ CharSkPoint(by)

Next == Live \/ Grow

Spec == Init /\ [][Next]_vars

-----------------------------------------------------------------------------
(* Properties. *)

Characters ==
    [on : BOOLEAN, dead_sit : {"stand", "sit", "dead"}, hp : 0 .. MaxHp, quick : 0 .. MaxHp,
     poison : 0 .. MaxPoison, slowpoison : BOOLEAN, opt2 : SUBSET {"poison", "slowpoison"},
     base_level : 1 .. MaxLevel, base_exp : Nat, job_level : Nat \ {0}, job_exp : Nat,
     status_point : Nat, attrs : [ATTRs -> 1 .. MaxParameter],
     skill_point : Int, skill : [Skills -> Nat]]

\* Everything has the types of the source.  Skill points may go below zero.
TypeOK == sd \in Characters /\ regular \in BOOLEAN

\* What it takes to raise a parameter to val
Cost[val \in 1 .. MaxParameter] ==
    IF val = 1 THEN 0 ELSE Cost[val - 1] + NeedStatusPoint(val - 1)

\* What a character has bought and what it may still buy is what the table
\* stat_p says of its level.  Points come in six places, one level at a time
\* or many at once, and go in three.
StatusPointsAccounted ==
    regular => sd.status_point + SumOver(ATTRs, LAMBDA a : Cost[sd.attrs[a]]) = stat_p[sd.base_level]
=============================================================================
