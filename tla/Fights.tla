-------------------------------- MODULE Fights --------------------------------
(***************************************************************************)
(* A fight: the character of Status and others against one mob, and what    *)
(* each gets for its death (mob_damage, party_exp_share, skill.cpp).        *)
(*                                                                          *)
(* What the others do is open: they and the mobs that serve them strike     *)
(* when they like, and where each of them is and with whom it shares is     *)
(* asked only when the foe dies.  Of the way a mob finds its target (Mobs), *)
(* and of drops, nothing is said here.                                      *)
(***************************************************************************)
EXTENDS Status, Battle

CONSTANTS
    me, Friends,
    Builds,         \* block_lists of players: what pc_calcstatus may find
    Species,        \* the foe as mob_db has it
    Servants,       \* block_lists of mobs that a player has summoned
    Mutations,      \* bound: what mob_init may change of it, with how much strength
    Distances       \* bound

Fighters == {me} \cup Friends

VARIABLES
    foe,        \* mob_data
    did,        \* history: how much hp each took from the foe in this life of it
    paid,       \* history: what each got when it died
    shared      \* history: who shared then

fightVars == << foe, did, paid, shared >>
everything == << allVars, fightVars >>

Nothing == [f \in Fighters |-> 0]

ASSUME FightsAssumption ==
    /\ me \notin Friends /\ IsFiniteSet(Friends)
    /\ Builds \subseteq PcBlocks
    /\ Species \in MobBlocks /\ Servants \subseteq MobBlocks
    /\ Mutations \subseteq MutationRules
    /\ Distances \subseteq Nat

-----------------------------------------------------------------------------
(* The foe. *)

\* As a block_list; who has poisoned it is left open.
Foe == {[foe.stats EXCEPT !.hp = foe.hp, !.poisoned = poisoned] : poisoned \in BOOLEAN}

\* A mistake for Spawned: the log of the life before stays.
SpawnedWithLog(stats, summoned) ==
    [here |-> TRUE, hp |-> GetMaxHp(stats), stats |-> stats, dmglogv |-> foe.dmglogv,
     summoned |-> summoned]
\* mob_spawn, and of whom it is: special_mob_ai
Spawned(stats, summoned) ==
    [here |-> TRUE, hp |-> GetMaxHp(stats), stats |-> stats, dmglogv |-> Nothing,
     summoned |-> summoned]

\* What a blow leaves of it.  More than its hp is never logged.
Reduced(damage, by) ==
    LET lost == Smaller(damage, foe.hp)
    IN  [foe EXCEPT !.hp = @ - lost, !.here = @ /\ lost < foe.hp,
                    !.dmglogv = [f \in Fighters |-> @[f] + IF f = by THEN lost ELSE 0]]

-----------------------------------------------------------------------------
(* Experience for its death. *)

\* damage_bonus_factor, in percent; the log has an entry for everybody who struck.
DamageBonus(log) ==
    << 100, 200, 250, 275, 290, 300 >>[Clamped(Cardinality({f \in Fighters : log[f] > 0}), 1, 6)]

\* n * 1.15 as a double that becomes an int again: where it should be whole it can come
\* out just below, if it has more bits in front of the point than n has.
Inexact(n, whole) == \E e \in 0 .. 30 : 2^e <= whole /\ whole < 2^(e + 1) /\ 4 * n > 5 * 2^e
Raise(n) ==
    LET whole == (115 * n) \div 100
    IN  IF n % 20 = 0 /\ Inexact(n, whole) THEN whole - 1 ELSE whole

\* per, of 256; twice the worth of the foe at most, unless it is raised
Share(worth, log, f, raised) ==
    LET part == (worth * log[f] * DamageBonus(log)) \div (100 * GetMaxHp(foe.stats))
        exp == Larger(1, Larger(worth \div 256, Smaller(2 * worth, part)))
    IN  IF foe.summoned /\ ~battle_config.alchemist_summon_reward THEN 0
        ELSE IF f \in raised THEN Raise(exp) ELSE exp

\* What each gets: from the log, or an equal part of what its party has got together.
Payout(worth, log, where, sharing, raised) ==
    LET earned == {f \in Fighters : log[f] > 0 /\ where[f] = "here"}
        base_exp == SumOver(earned \cap sharing, LAMBDA f : Share(worth, log, f, raised))
        members == {f \in sharing : where[f] # "away"}
    IN  [f \in Fighters |->
            IF where[f] # "here" \/ f \notin earned \cup sharing THEN 0
            ELSE IF f \notin sharing THEN Share(worth, log, f, raised)
            ELSE IF earned \cap sharing = {} THEN 0
            ELSE base_exp \div Cardinality(members) + 1]

BaseWorth == (Species.base_exp * foe.stats.xp_bonus) \div 1024
JobWorth == Species.job_exp

\* Where everybody may be by now; who strikes is there.
Places(r, here) ==
    {where \in [Fighters -> {"here", "dead", "away"}] :
        /\ \A f \in here : where[f] = "here"
        /\ where[me] \in IF r.on THEN {"away", IF Dead(r) THEN "dead" ELSE "here"} ELSE {"away"}}

\* pc_gainexp_reason for the character, which does not notice if there is nothing
Rewarded(r, base, job) == IF base = 0 THEN r ELSE Gained(r, base, job)
LevelledUp(r, base, job) ==
    base > 0 /\ (Rewarded(r, base, job).base_level # r.base_level \/ r.job_exp + job >= JobStep)

\* Among players who may fight each other a foe far above the killer pays more.
Stronger(level) == battle_config.pk_mode /\ Species.lv - level >= 20

\* The log is gone through from who did most; who did as much comes in any order.
UpTo(killer, log) ==
    {B \in SUBSET Fighters :
        /\ killer \in B
        /\ \A f \in Fighters : /\ log[f] > log[killer] => f \in B
                               /\ log[f] < log[killer] => f \notin B}

\* The level of the character after its own entry; a party gets its part at the end.
LevelWithin(r, log, where, sharing) ==
    IF me \in sharing THEN r.base_level
    ELSE Rewarded(r, Payout(BaseWorth, log, where, {}, Fighters)[me],
                     Payout(JobWorth, log, where, {}, Fighters)[me]).base_level

\* Whose entry is raised: the level of the killer is asked at each, and its own may
\* have changed it.  No killer is known of a servant, and the level of a friend is open.
Raised(r, log, here, where, sharing) ==
    IF here = {} \/ ~Stronger(1) THEN {{}}
    ELSE IF me \notin here THEN {{}, Fighters} \cup UNION {UpTo(f, log) : f \in here}
    ELSE IF ~Stronger(r.base_level) THEN {{}}
    ELSE IF Stronger(LevelWithin(r, log, where, sharing)) THEN {Fighters}
    ELSE UpTo(me, log)

\* mob_damage, with r for the character by then, and what it drains from the foe.
Struck(r, damage, by, here, drained) ==
    LET left_over == Reduced(damage, by)
        log == left_over.dmglogv
    IN  /\ foe.here
        /\ foe' = left_over
        /\ did' = [f \in Fighters |-> did[f] + IF f = by THEN foe.hp - foe'.hp ELSE 0]
        /\ \E where \in IF left_over.here THEN {[f \in Fighters |-> "away"]} ELSE Places(r, here) :
           \E sharing \in IF left_over.here THEN {{}} ELSE SUBSET Fighters :
           \E raised \in IF left_over.here THEN {{}} ELSE Raised(r, log, here, where, sharing) :
              LET job == Payout(JobWorth, log, where, sharing, raised)[me]
              IN  /\ paid' = Payout(BaseWorth, log, where, sharing, raised)
                  /\ shared' = sharing
                  /\ sd' \in IF drained = 0 THEN {Rewarded(r, paid'[me], job)}
                             ELSE Healed(Rewarded(r, paid'[me], job), drained)
                  /\ MayKill(IF LevelledUp(r, paid'[me], job) THEN Normal(Now, sd') ELSE Now)

-----------------------------------------------------------------------------
(* Steps. *)

\* A step of this module
Fights ==
    /\ left[4] > 0
    /\ left' = [left EXCEPT ![4] = @ - 1]
    /\ UNCHANGED regular

CanFight == sd.on /\ ~Dead(sd) /\ foe.here

\* How many may be at the same target (battle_counttargeted)
Attackers == 1 .. Cardinality(Fighters) + 1

\* What a blow of one of these does to one of those (battle_weapon_attack).  A blow
\* that is nothing does nothing.
Hits(sources, targets, distances) ==
    (UNION {{Taken(blow.damage, bl) : blow \in Blows(src, bl, n, distance)} :
               src \in sources, bl \in targets, n \in Attackers, distance \in distances}) \ {0}

SkillHits ==
    (UNION {{blow.damage : blow \in MobBlows(bl, b, n, TRUE)} :
               bl \in Foe, b \in Builds, n \in Attackers}) \ {0}

\* With what the character gets out of its blows
OwnHits ==
    UNION {UNION {[damage : {damage}, drained : Drained(b, damage)] :
                     damage \in Hits({b}, Foe, Distances)} : b \in Builds}

\* battle_weapon_attack of the character
Attack ==
    /\ Fights
    /\ CanFight
    /\ \E hit \in OwnHits : Struck(sd, hit.damage, me, {me}, hit.drained)

\* The same of a friend
Assist ==
    /\ Fights
    /\ \E f \in Friends, damage \in Hits(Builds, Foe, {0}) : Struck(sd, damage, f, {f}, 0)

\* A blow of a mob that serves somebody: its master is logged.
ServantAttacks ==
    /\ Fights
    /\ \E f \in Fighters, damage \in Hits(Servants, Foe, {0}) : Struck(sd, damage, f, {}, 0)

\* Traps, scripts and other mobs are not logged.
HurtBySomethingElse ==
    /\ Fights
    /\ \E damage \in 1 .. foe.hp : Struck(sd, damage, "nobody", {}, 0)

\* battle_weapon_attack of the foe
FoeAttacks ==
    /\ Fights
    /\ CanFight
    /\ sd' \in UNION {Damaged(sd, damage) : damage \in Hits(Foe, Builds, {0})}
    /\ MayKill(Now)
    /\ UNCHANGED fightVars

\* skill_castend_damage_id of NPC_POISON: no haste, no shield, and then perhaps the poison
FoePoisons(skilllv) ==
    /\ Fights
    /\ CanFight
    /\ \E r \in UNION {Damaged(sd, damage) : damage \in SkillHits} :
          \/ sd' = r /\ MayKill(Now)
          \/ /\ ~Dead(r) /\ r.poison = 0
             /\ sd' = Poisoned(r, skilllv)
             /\ Once
    /\ UNCHANGED fightVars

\* NPC_SELFDESTRUCTION: who is near is hit with the hp of the foe, and then the foe is.
Selfdestruct ==
    /\ Fights
    /\ foe.here
    /\ \E bl \in Foe :
       \E r \in {sd} \cup (IF sd.on THEN Damaged(sd, SelfdestructDamage(bl)) ELSE {}) :
          Struck(r, foe.hp, "nobody", {}, 0)

\* mob_heal
FoeHeal(heal) ==
    /\ Fights
    /\ foe.here
    /\ foe' = [foe EXCEPT !.hp = Smaller(@ + heal, GetMaxHp(foe.stats))]
    /\ UNCHANGED << sd, statusVars, did, paid, shared >>

\* mob_delete, mob_catch_delete: it is taken away, and nobody gets anything.
FoeLeaves ==
    /\ Fights
    /\ foe.here
    /\ foe' = [foe EXCEPT !.here = FALSE, !.hp = 0]
    /\ UNCHANGED << sd, statusVars, did, paid, shared >>

\* mob_ai_sub_hard: its master is gone, and it is one like all others.
FoeLosesMaster ==
    /\ Fights
    /\ foe.here /\ foe.summoned
    /\ foe' = [foe EXCEPT !.summoned = FALSE]
    /\ UNCHANGED << sd, statusVars, did, paid, shared >>

FoeSpawns ==
    /\ Fights
    /\ ~foe.here
    /\ \E m \in Mutations, summoned \in BOOLEAN :
          foe' = Spawned(Born(Species, m, m.strength), summoned)
    /\ did' = Nothing /\ paid' = Nothing /\ shared' = {}
    /\ UNCHANGED << sd, statusVars >>

-----------------------------------------------------------------------------
FightInit ==
    /\ StatusInit
    /\ foe = [here |-> TRUE, hp |-> GetMaxHp(Species), stats |-> Species, dmglogv |-> Nothing,
              summoned |-> FALSE]
    /\ did = Nothing /\ paid = Nothing /\ shared = {}

FightNext ==
    \/ StatusNext /\ UNCHANGED fightVars
    \/ Attack \/ Assist \/ ServantAttacks \/ HurtBySomethingElse
    \/ FoeAttacks \/ Selfdestruct
    \/ \E skilllv \in 1 .. MaxPoison : FoePoisons(skilllv)
    \/ \E heal \in 1 .. MaxHp : FoeHeal(heal)
    \/ FoeLeaves \/ FoeLosesMaster \/ FoeSpawns

FightSpec == FightInit /\ [][FightNext]_everything

-----------------------------------------------------------------------------
(* Properties. *)

\* Who does not share gets twice what the foe was worth at most, and only among
\* players who may fight each other somewhat more.
MostOf(worth) == IF battle_config.pk_mode THEN Raise(Larger(1, 2 * worth)) ELSE Larger(1, 2 * worth)

\* The death of a mob is paid to those who killed it.  Nobody gets anything who did
\* not take hp from it in this life, or share with somebody who did; nobody who does
\* not share gets more than twice what it was worth, or with pk_mode that and 15 percent
\* of it; and of two who do not share and get something, who did more does not get less,
\* whatever the killer's level is when each of them gets its part.
RewardsAreFair ==
    \A f \in Fighters :
       /\ paid[f] > 0 => did[f] > 0 \/ \E g \in shared : f \in shared /\ did[g] > 0
       /\ f \notin shared => paid[f] <= MostOf(BaseWorth)
       /\ \A g \in Fighters \ shared :
             f \notin shared /\ did[f] > did[g] /\ paid[f] > 0 => paid[f] >= paid[g]
=============================================================================
