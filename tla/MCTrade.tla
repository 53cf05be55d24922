------------------------------- MODULE MCTrade -------------------------------
(***************************************************************************)
(* Instances of Trade for TLC: few slots, a potion that stacks and a sword *)
(* that does not.                                                          *)
(***************************************************************************)
EXTENDS Trade, TLC

CONSTANTS a, b, c, potion, sword

Slot(item, amount) == [item |-> item, amount |-> amount]

\* a has two potions, after a slot that is empty, and two money; b has a potion.  A
\* sword and some money lie around.
MCBags ==
    [p \in Players |->
        CASE p = a -> << Empty, Slot(potion, 2) >>
          [] p = b -> << Slot(potion, 1), Empty >>
          [] p = c -> << Empty, Empty >>]
MCPurses == [p \in Players |-> IF p = a THEN 2 ELSE 0]
MCAround == [items |-> [x \in Items |-> IF x = sword THEN 1 ELSE 0], zeny |-> 1]
MCLimit == [trades |-> 2, changes |-> 1, both |-> 3]
=============================================================================
