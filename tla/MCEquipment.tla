------------------------------ MODULE MCEquipment ------------------------------
(* Groups of items that share places: weapons that take one hand or both, a    *)
(* shield and a hat; a bow with its arrows; accessories; things to use; and    *)
(* gloves, with attack spells.                                                 *)
EXTENDS Equipment

Item(type, place, weight, look, sex, price, sell) ==
    [type |-> type, place |-> place, weight |-> weight, look |-> look, sex |-> sex,
     price |-> price, sell |-> sell]

MCItems == {"bow", "knife", "shield", "hat", "arrow", "ring", "potion", "mitts"}
MCData ==
    [bow |-> Item("weapon", {"weapon", "shield"}, 1, "bow", "any", 2, 1),
     knife |-> Item("weapon", {"weapon"}, 1, "blade", "any", 1, 1),
     shield |-> Item("armor", {"shield"}, 2, Fist, "female", 2, 1),
     hat |-> Item("armor", {"hat"}, 1, Fist, "male", 1, 0),
     arrow |-> Item("arrow", {"arrow"}, 1, Fist, "any", 1, 0),
     ring |-> Item("armor", {"misc2", "cape"}, 1, Fist, "any", 1, 1),
     mitts |-> Item("armor", {"gloves"}, 1, Fist, "any", 1, 1),
     potion |-> Item("use", {}, 1, Fist, "any", 1, 1)]
MCEQUIPs == {"weapon", "shield", "hat", "arrow", "misc2", "cape", "gloves"}
MCGroups == {{"bow", "shield"}, {"bow", "arrow"}, {"ring"}, {"potion", "knife"}, {"hat", "knife"}, {"mitts"}}
MCCasters == {{"mitts"}}
MCShops == [g \in MCGroups |-> IF "potion" \in g THEN {"potion", "knife"} ELSE {}]

\* What the client shows matters only until @itemcheck: from then on, and before
\* the client has loaded, no step and no property reads it.
Shown == IF compacted \/ state.connect_new THEN NoItems ELSE sd.seen
Quiet == IF compacted \/ state.connect_new THEN {} ELSE sd.quiet
View == << [sd EXCEPT !.seen = Shown, !.quiet = Quiet], state, compacted, floor, kinds >>
=============================================================================
