------------------------------- MODULE MCParty -------------------------------
(* Instances of Party and of Messages for TLC: two accounts, the second with *)
(* two characters.                                                           *)
EXTENDS Messages

CONSTANTS a1, a2, c1, c2, c3, m1, m2

MCOwner == [c \in Characters |-> IF c = c1 THEN a1 ELSE a2]
MCHome == c1 :> {m1} @@ c2 :> {m1, m2} @@ c3 :> {m2}

\* Budgets for the environment, each for one way in which things can go wrong.
Budget(some) == some @@ [kind \in Kinds |-> 0]
Joins == "enter" :> 2 @@ "create" :> 1 @@ "invite" :> 1 @@ "reply" :> 1

\* An invitation is accepted twice, and by the account's other character.
Twice == Budget("enter" :> 3 @@ "reply" :> 2 @@ "quit" :> 1 @@ Joins)
\* A member is removed, or goes, in the game or away from it, and comes back.
Removed == Budget("enter" :> 3 @@ "leave" :> 1 @@ "quit" :> 1 @@ Joins)
\* The same while a player comes to another map.
Reloaded == Budget("leave" :> 1 @@ "quit" :> 1 @@ "load" :> 1 @@ Joins)
\* The levels of members who share come apart.
Sharing == Budget("option" :> 1 @@ "level" :> 1 @@ Joins)
\* A player has founded a party and is added to another.
TwoParties == Budget("create" :> 2 @@ "load" :> 1 @@ Joins)
\* There are leaders, and characters are deleted.
Leading == Budget("leader" :> 1 @@ "delete" :> 1 @@ "quit" :> 1 @@ Joins)
\* The char server is killed.
Killed == Budget("enter" :> 2 @@ "create" :> 1 @@ "save" :> 1 @@ "crash" :> 1)
\* Two players found a party, one before the char server is killed.
Forgotten == Budget("enter" :> 2 @@ "create" :> 2 @@ "crash" :> 1)

\* Messages: a whisper between two players, and one from or to somebody who goes.
Whispering == Budget("enter" :> 2 @@ "load" :> 2 @@ "report" :> 2 @@ "whisper" :> 1)
Going == Budget("enter" :> 2 @@ "load" :> 1 @@ "report" :> 1 @@ "whisper" :> 1 @@ "quit" :> 1)
\* Two things said in a row, and packets that come too soon.
Spamming == Budget("enter" :> 2 @@ "whisper" :> 1 @@ "say" :> 1 @@ "flood" :> 2)
\* A script sets a variable of an account whose other character comes; several are set.
Setting == Budget("enter" :> 2 @@ "load" :> 2 @@ "set" :> 1 @@ "quit" :> 1)
Filling == Budget("enter" :> 1 @@ "load" :> 1 @@ "set" :> 3)
Announcing == Budget("enter" :> 2 @@ "kami" :> 1 @@ "ask" :> 1)
\* The char server is killed.
Losing == Budget("enter" :> 1 @@ "load" :> 1 @@ "set" :> 1 @@ "whisper" :> 1
                 @@ "save" :> 1 @@ "crash" :> 1)

MCLimits == {Twice, Removed, Reloaded, Sharing, TwoParties, Leading, Killed, Forgotten,
             Whispering, Going, Spamming, Setting, Filling, Announcing, Losing}
=============================================================================
