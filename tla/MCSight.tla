------------------------------- MODULE MCSight -------------------------------
(* A map of 4 x 4 cells with an area of one cell around everybody, so that there *)
(* are sights to come into and go out of in all directions, away from its border, *)
(* and a map of one walkable cell.                                                *)
EXTENDS Sight, TLC
CONSTANTS p, q, md, nd, fitem, field, house
MCXs(m) == IF m = field THEN 4 ELSE 3
MCYs(m) == IF m = field THEN 4 ELSE 3
MCUnwalkable == {c \in [m : {house}, x : 0 .. 2, y : 0 .. 2] : c.x # 1 \/ c.y # 1}
MCSavePoint == [m |-> field, x |-> 1, y |-> 1]
MCDestinations == {[m |-> field, x |-> 3, y |-> 2], [m |-> house, x |-> 1, y |-> 1]}
MCGroups == {{p, q}} \cup {{pl, b} : pl \in Players, b \in {md, nd, fitem}}
EitherPlayer == Permutations(Players)
=============================================================================
