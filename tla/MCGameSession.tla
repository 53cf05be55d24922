--------------------------- MODULE MCGameSession ---------------------------
(* Instances of GameSession for TLC. *)
EXTENDS GameSession, TLC

CONSTANTS a1, a2, c1, c2, c3, m1, m2, k1, k2

None == [kind \in Kinds |-> 0]

\* Two characters of one account, both on m1.
TwoChars == << [account_id |-> a1, char_id |-> c1, rev |-> 0, at |-> m1],
               [account_id |-> a1, char_id |-> c2, rev |-> 0, at |-> m1] >>

\* One character for each of two accounts.
TwoAccounts == << [account_id |-> a1, char_id |-> c1, rev |-> 0, at |-> m1],
                  [account_id |-> a2, char_id |-> c2, rev |-> 0, at |-> m1] >>

OwnerOfThree == c1 :> a1 @@ c2 :> a1 @@ c3 :> a1
OwnerOfTwo == c1 :> a1 @@ c2 :> a1
OwnerOfEach == c1 :> a1 @@ c2 :> a2

\* Two logins, a selection by each, a ban, and one break of the connection.
LimitChurn ==
    ("login" :> 2 @@ "connect" :> 2 @@ "select" :> 2 @@ "ban" :> 1
     @@ "break" :> 1) @@ None

\* Two logins and a deletion between them, with a game.
LimitLogins ==
    ("login" :> 2 @@ "connect" :> 2 @@ "select" :> 2 @@ "delete" :> 1
     @@ "play" :> 1) @@ None

\* One login: a game with a walk to another server, a return and another game.
LimitOrderly ==
    ("login" :> 1 @@ "connect" :> 2 @@ "select" :> 2
     @@ "return" :> 1 @@ "walk" :> 1 @@ "play" :> 1 @@ "save" :> 1) @@ None

\* A new character, a deletion, a return to the selection, and a walk.
LimitLive ==
    ("login" :> 1 @@ "connect" :> 2 @@ "select" :> 2 @@ "return" :> 1
     @@ "create" :> 1 @@ "delete" :> 1 @@ "walk" :> 1) @@ None

\* Three breaks of a connection or crashes of a map server, and no players.
LimitBreaks == ("break" :> 3) @@ None

OnlyChurn == {LimitChurn}
AnyOrder == {LimitLogins, LimitOrderly, LimitLive, LimitBreaks}

Symmetry == Permutations(Conns)
=============================================================================
