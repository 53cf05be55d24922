------------------------------ MODULE MCStorage ------------------------------
(* Instances of Storage for TLC. *)
EXTENDS Storage, TLC

CONSTANTS a1, c1, c2, m1

\* Two characters of one account, one of them with two pieces.
OwnerOfBoth == c1 :> a1 @@ c2 :> a1
MCBag == c1 :> 2 @@ c2 :> 0

MCLimit == "select" :> 2 @@ "open" :> 3 @@ "move" :> 2 @@ "save" :> 1 @@ "break" :> 1
=============================================================================
