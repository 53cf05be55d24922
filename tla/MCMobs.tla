-------------------------------- MODULE MCMobs --------------------------------
(***************************************************************************)
(* Instances of Mobs for TLC: a boss that comes back and may summon a      *)
(* slave, and one more mob that a script may bring.                        *)
(***************************************************************************)
EXTENDS Mobs, TLC

CONSTANTS boss, one, two, player

Comers == Permutations({one, two})
=============================================================================
