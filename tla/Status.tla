------------------------------- MODULE Status -------------------------------
(***************************************************************************)
(* What pc_calcstatus derives for a player from its parameters, its gear,   *)
(* its status effects, its focused skills and the spell that replaces its   *)
(* attack, and what the client is told of it (pc.cpp, skill-pools.cpp,      *)
(* skill.cpp, script-fun.cpp).  Everything that changes one of these has to *)
(* calculate anew: Players says what happens to the character, this module  *)
(* what is calculated then.                                                 *)
(*                                                                          *)
(* The formulas are left out.  What is derived is what it was derived from. *)
(***************************************************************************)
EXTENDS Players

CONSTANTS
    Gear,
    Strength,       \* the bonus of a piece of gear to STR
    Magic,          \* its magic_bonus
    Effects,        \* status effects, other than poison, that the calculation reads
    EarlySkills,    \* pool skills that are used before the parameters are summed up
    SkillPool,      \* TMW_SKILLPOOL: its level is how many skills may be active
    MaxCharges      \* bound: charges of a spell

ASSUME StatusAssumption ==
    /\ Strength \in [Gear -> Nat] /\ Magic \in [Gear -> Nat]
    /\ EarlySkills \subseteq PoolSkills
    /\ SkillPool \in Skills \ PoolSkills
    /\ MaxCharges \in Nat

VARIABLES
    pc,     \* the parts of map_session_data that Players has not
    calc,   \* what the last calculation found
    told    \* what the client was last told of it

statusVars == << pc, calc, told >>
allVars == << vars, statusVars >>

\* A player's gear and the rest, when it has been let in.
Entered ==
    [worn |-> {}, effects |-> {}, active |-> {}, armed |-> FALSE, charges |-> 0,
     override |-> 0, target |-> 0, current |-> 0, loaded |-> FALSE]

-----------------------------------------------------------------------------
(* The calculation. *)

\* pc_bonus, for all gear: what it gives to the parameter, and what the rest depends on
Parame(p) == SumOver(p.worn, LAMBDA g : Strength[g])
OtherBonuses(p) == p.worn

\* paramc
Paramc(r, p) == r.attrs["STR"] + Parame(p)

\* The effects that count
Anomalies(r, p) == p.effects \cup (IF r.poison > 0 THEN {"poison"} ELSE {})

\* spellpower_bonus_target.  The bonus that is in force follows it down at once.
Aimed(p) ==
    LET target == SumOver(p.worn, LAMBDA g : Magic[g])
    IN  [p EXCEPT !.target = target, !.current = Smaller(@, target)]

\* skill_power, of the level and of the parameter
SkillPower(r, p, s, param) == IF s \in p.active THEN << r.skill[s], param >> ELSE << >>

\* A mistake for Calculated: the effects are not looked at.
CalculatedWithoutEffects(c, r, p) ==
    [c EXCEPT !.param = Paramc(r, p), !.level = r.base_level,
              !.worn = OtherBonuses(p),
              !.power = [s \in PoolSkills |->
                            SkillPower(r, p, s, IF s \in EarlySkills THEN c.param ELSE Paramc(r, p))],
              !.current = p.current, !.override = p.override, !.spell = p.armed]
\* pc_calcstatus, once it has the gear: some skills are used before the parameters
\* are there, with those of the calculation before.
Calculated(c, r, p) ==
    LET param == Paramc(r, p)
    IN  [param |-> param, level |-> r.base_level, worn |-> OtherBonuses(p),
         effects |-> Anomalies(r, p),
         power |-> [s \in PoolSkills |->
                       SkillPower(r, p, s, IF s \in EarlySkills THEN c.param ELSE param)],
         current |-> p.current, override |-> p.override, spell |-> p.armed]

\* The client is told of what differs from the calculation before.
Differences(old, new, t) == [x \in DOMAIN new |-> IF new[x] # old[x] THEN new[x] ELSE t[x]]

\* What follows maps sets of outcomes to sets of outcomes; each has the three variables.
Outcomes(P) == {[p |-> p, c |-> calc, t |-> told] : p \in P}
Now == Outcomes({pc})
Becomes(O) == \E o \in O : pc' = o.p /\ calc' = o.c /\ told' = o.t

\* NORMAL_RECALC and INITIAL_CALC, for a character; the latter does not compare anything.
Initial(O, r) ==
    {[o EXCEPT !.c = Calculated(o.c, r, o.p)] : o \in {[q EXCEPT !.p = Aimed(q.p)] : q \in O}}
Normal(O, r) ==
    UNION {{[n EXCEPT !.t = Differences(o.c, n.c, o.t)] : n \in Initial({o}, r)} : o \in O}

\* pc_set_attack_info: only the speed and the range of attacks are told.
SetAttackInfo(O, r) == {[i EXCEPT !.t.spell = i.c.spell] : i \in Initial(O, r)}

\* skill_status_change_clear: every effect that counts calculates when it ends.
Cleared(O, r, poisoned) ==
    {o \in O : o.p.effects = {} /\ ~poisoned}
      \cup Normal({[o EXCEPT !.p.effects = {}] : o \in {q \in O : q.p.effects # {} \/ poisoned}}, r)

\* The spell is over.
Discharged(O, r) == SetAttackInfo({[o EXCEPT !.p.armed = FALSE] : o \in O}, r)

\* pc_damage: what happens to who dies
Killed(O, r) ==
    LET clear == Cleared(O, r, sd.poison > 0)
        armed == {o \in clear : o.p.armed}
    IN  Normal((clear \ armed) \cup Discharged(armed, r), r)

-----------------------------------------------------------------------------
StatusInit ==
    /\ Init
    /\ pc = Aimed([Entered EXCEPT !.loaded = TRUE])
    /\ calc = [param |-> Paramc(sd, pc), level |-> 1, worn |-> {}, effects |-> {},
               power |-> [s \in PoolSkills |-> << >>],
               current |-> 0, override |-> 0, spell |-> FALSE]
    /\ told = calc

-----------------------------------------------------------------------------
(* What is calculated when something happens to the character. *)

\* A step that may kill: if it does not, the outcomes are those of O.
MayKill(O) == Becomes(IF ~Dead(sd) /\ Dead(sd') THEN Killed(O, sd') ELSE O)

Once == Becomes(Normal(Now, sd'))
Unless(calculates) == Becomes(IF calculates THEN Normal(Now, sd') ELSE Now)

\* What hurts, heals, or changes nothing that counts
Living ==
    \/ \E n \in 1 .. MaxHp :
          \/ Damage(n) \/ GmHeal(n) \/ GmHeal(-n) \/ ItemHeal(n) \/ ItemHeal(-n) \/ SetHp(n)
          \/ \E later \in BOOLEAN : ScriptHeal(n, later) \/ ScriptHeal(-n, later)
    \/ SetHp(0) \/ InjureOther \/ Alive \/ Save
    \/ \E how \in {"sit", "stand"} : SitOrStand(how)
    \/ EndSlowPoison \/ StartSlowPoison

StatusLive ==
    /\ Living
    /\ MayKill(Now)

\* pc_restart of the dead, whose effects end
StatusRestart ==
    /\ Restart
    /\ Becomes(Cleared(Now, sd', sd.poison > 0))

StatusPoison ==
    /\ \/ \E val1 \in 1 .. MaxPoison : StartPoison(val1)
       \/ EndPoison
    /\ Once

\* The timer ends the poison, or it hurts.
StatusPoisonTimer ==
    /\ PoisonTimer
    /\ IF sd'.poison = 0 THEN Once ELSE MayKill(Now)

\* pc_natural_heal_sub: spellpower_bonus_current comes nearer
Approached(p) ==
    [p EXCEPT !.current = IF p.target < @ THEN p.target
                          ELSE @ + 1 + (p.target - @) \div 32]

\* The rest of pc_natural_heal_sub heals.
StatusNaturalHeal ==
    /\ sd.on
    /\ \/ NaturalHeal
       \/ left[2] < 2 /\ UNCHANGED vars
    /\ MayKill(IF pc.target = pc.current THEN Now
               ELSE Normal(Outcomes({Approached(pc)}), sd'))

\* map_quit clears the effects and calculates; then nobody is told anything.
StatusQuit ==
    /\ Quit
    /\ Becomes({[o EXCEPT !.p.loaded = FALSE] : o \in Normal(Cleared(Now, sd', sd.poison > 0), sd')})

\* A new map_session_data, with what was saved
Anew == {[o EXCEPT !.c.param = 0] :
            o \in Outcomes({[Entered EXCEPT !.worn = pc.worn, !.active = pc.active]})}

\* pc_authok calculates twice.
StatusAuthok ==
    /\ Authok
    /\ Becomes(Initial(Initial(Anew, sd'), sd'))

\* 0x7d, the first after pc_authok: clif_initialstatus and the rest tell everything.
LoadEndAck ==
    /\ sd.on /\ ~pc.loaded
    /\ pc' = [pc EXCEPT !.loaded = TRUE]
    /\ told' = calc
    /\ UNCHANGED << vars, calc >>

-----------------------------------------------------------------------------
(* Growth. *)

Raising ==
    \/ \E a \in {"STR", "VIT"} : StatusUp(a) \/ \E val \in Values : SetAttr(a, val)
    \/ \E s \in Skills : SkillUp(s)
    \/ \E val \in Levels : SetBaseLevel(val) \/ SetJobLevel(val)
    \/ \E by \in Gains :
          BaseLevelUp(by) \/ BaseLevelDown(by) \/ JobLevel(by) \/ CharJobLevel(-by)
    \/ ResetStatus

StatusRaise == Raising /\ Once

\* Experience calculates for every level, and for job levels that nobody can use.
StatusExp ==
    \E base, job \in Gains \cup {0} :
       /\ GainExp(base, job)
       /\ Unless(sd.base_level # sd'.base_level \/ sd.job_exp + job >= JobStep)
StatusSetExp ==
    \E val \in Values :
       \/ SetBaseExp(val) /\ Unless(sd.base_level # sd'.base_level)
       \/ SetJobExp(val) /\ Unless(val >= JobStep)

\* Points alone mean nothing, and neither do skills that are only learnt or lost.
StatusPoints ==
    /\ \/ \E val \in Values : SetStatusPoint(val) \/ SetSkillPoint(val)
       \/ \E by \in Gains :
             StatusPoint(by) \/ CharStPoint(-by) \/ SkillPoint(-by) \/ CharSkPoint(by)
       \/ \E s \in Skills : QuestSkill(s) \/ LostSkill(s)
    /\ UNCHANGED statusVars

\* pc_skill of addtoskill, for a skill that is known
StatusSkill ==
    \E s \in Skills, lv \in 0 .. 3 :
       /\ sd.skill[s] > 0 \/ lv = 0
       /\ SetSkill(s, lv)
       /\ Once

\* setskill, @skill-learn and @setmagic do not calculate; nor does addtoskill with
\* a skill that is new.
StatusSetSkill ==
    /\ \E s \in Skills, lv \in 0 .. 3 : SetSkill(s, lv)
    /\ UNCHANGED statusVars

\* @charbaselvl, which calculates for the level and again for the parameters
StatusCharBaseLevel ==
    \E by \in Gains :
       /\ CharBaseLevel(by) \/ CharBaseLevel(-by)
       /\ Becomes(Normal(Normal(Now, [sd EXCEPT !.base_level = sd'.base_level]), sd'))

\* @allstats calculates for each parameter that changes, STR first.
StatusAllStats ==
    \E by \in Gains :
       /\ AllStats(by) \/ AllStats(-by)
       /\ LET changed == {a \in ATTRs : sd'.attrs[a] # sd.attrs[a]}
          IN  Becomes(IF changed = {} THEN Now
                      ELSE IF changed = {"STR"} THEN Normal(Now, sd')
                      ELSE Normal(Normal(Now, sd'), sd'))

\* pc_resetskill: the flags of the skills that are known go with their levels
Unfocused(O) == {[o EXCEPT !.p.active = {s \in @ : sd.skill[s] = 0}] : o \in O}

StatusSkReset == CharSkReset /\ Becomes(Normal(Unfocused(Now), sd'))

\* pc_resetstate and then pc_resetskill.  @charwipe means to empty the inventory, but
\* goes through that of the game master: some of the gear may stay.
StatusReset ==
    \E wipe \in BOOLEAN :
       /\ CharReset(wipe)
       /\ LET bare == Outcomes({[pc EXCEPT !.worn = worn] : worn \in SUBSET pc.worn})
              before == IF wipe THEN Normal(bare, [sd EXCEPT !.base_level = 1]) ELSE Now
          IN  Becomes(Normal(Unfocused(Normal(before, [sd' EXCEPT !.skill = sd.skill])), sd'))

-----------------------------------------------------------------------------
(* Gear, effects, skills in focus, spells. *)

\* A step of this module.
Does(O) ==
    /\ left[3] > 0
    /\ sd.on
    /\ left' = [left EXCEPT ![3] = @ - 1]
    /\ Becomes(O)
    /\ UNCHANGED << sd, regular >>

Recalculated(p) == Normal(Outcomes({p}), sd)

\* pc_equipitem
Equip(g) ==
    /\ ~Dead(sd) /\ g \notin pc.worn
    /\ Does(Recalculated([pc EXCEPT !.worn = @ \cup {g}]))

\* pc_unequipitem, and unequipbyid, which calculates in any case
UnequipById(g) == Does(Recalculated([pc EXCEPT !.worn = @ \ {g}]))

\* nude, and the change of sex: everything, and then one calculation
Nude == Does(Recalculated([pc EXCEPT !.worn = {}]))

\* skill_status_effect; sc_start
StartEffect(e) == Does(Recalculated([pc EXCEPT !.effects = @ \cup {e}]))

\* skill_status_change_end, for a timer or for sc_end
EndEffect(e) ==
    /\ e \in pc.effects
    /\ Does(Recalculated([pc EXCEPT !.effects = @ \ {e}]))

\* skill_pool_max
SkillPoolMax == sd.skill[SkillPool]

\* A mistake for Activated: nothing is calculated.
ActivatedOnly(s) == Outcomes({[pc EXCEPT !.active = @ \cup {s}]})
\* skill_pool_activate, skill_pool_deactivate
Activated(s) == Recalculated([pc EXCEPT !.active = @ \cup {s}])
Deactivated(s) == Recalculated([pc EXCEPT !.active = @ \ {s}])

\* poolskill, @sp-focus
PoolSkill(s) ==
    /\ s \notin pc.active
    /\ sd.skill[s] > 0 /\ Cardinality(pc.active) < SkillPoolMax
    /\ Does(Activated(s))

\* unpoolskill, @sp-unfocus
UnpoolSkill(s) == s \in pc.active /\ Does(Deactivated(s))

\* overrideattack, with charges and without
Armed(charges) == SetAttackInfo(Outcomes({[pc EXCEPT !.armed = TRUE, !.charges = charges]}), sd)
Disarmed(O) == Normal(Discharged(O, sd), sd)
OverrideAttack(charges) == Does(Armed(charges))
StopOverride == Does(Disarmed(Now))

\* pc_attack_timer with a spell: its script may call overrideattack, too.  The charge
\* is taken afterwards, from whatever spell there is then.
SpellAttack ==
    /\ pc.armed /\ ~Dead(sd)
    /\ LET events == Now \cup Disarmed(Now) \cup UNION {Armed(n) : n \in 1 .. MaxCharges}
           used == {[o EXCEPT !.p.charges = @ - 1] : o \in events}
           over == {o \in used : o.p.charges = 0}
       IN  Does((used \ over) \cup Disarmed(over))

\* MAXWEIGHT_OVERRIDE of a script
SetMaxWeight(val) == Does(Recalculated([pc EXCEPT !.override = val]))

-----------------------------------------------------------------------------
StatusNext ==
    \/ StatusLive \/ StatusRestart \/ StatusPoison \/ StatusPoisonTimer \/ StatusNaturalHeal
    \/ StatusQuit \/ StatusAuthok \/ LoadEndAck
    \/ StatusRaise \/ StatusExp \/ StatusSetExp \/ StatusPoints \/ StatusSkill
    \/ StatusSetSkill
    \/ StatusCharBaseLevel \/ StatusAllStats \/ StatusSkReset \/ StatusReset
    \/ \E g \in Gear : Equip(g) \/ UnequipById(g)
    \/ Nude
    \/ \E e \in Effects : StartEffect(e) \/ EndEffect(e)
    \/ \E s \in PoolSkills : PoolSkill(s) \/ UnpoolSkill(s)
    \/ \E n \in 1 .. MaxCharges : OverrideAttack(n)
    \/ StopOverride \/ SpellAttack
    \/ \E val \in {0, 1} : SetMaxWeight(val)

StatusSpec == StatusInit /\ [][StatusNext]_allVars

-----------------------------------------------------------------------------
(* Properties. *)

\* Whatever happened, and in whatever order, the last calculation knew everything
\* it depends on as it is now: none of some forty places that change one of these
\* forgets to calculate, or calculates too early.  (Powers of skills are another matter.)
StatusIsCurrent ==
    sd.on =>
        /\ calc.param = Paramc(sd, pc)
        /\ calc.level = sd.base_level
        /\ calc.worn = pc.worn
        /\ calc.effects = Anomalies(sd, pc)
        /\ calc.current = pc.current
        /\ calc.override = pc.override
        /\ calc.spell = pc.armed
=============================================================================
