------------------------------ MODULE MCLogin ------------------------------
(* Instances of Login and Accounts for TLC: a name that has an account, and two that    *)
(* may get one.                                                                          *)
EXTENDS Accounts

CONSTANTS n1, n2, n3, s1, s2, k1, k2

MCAccounts == << [account_id |-> 1, userid |-> n1, barred |-> {},
                 own |-> Fresh, reg2 |-> << >>] >>

\* Budgets for the environment, each for one part of what can happen.
Budget(some) == some @@ [kind \in Kinds |-> 0]

\* Clients log in while char servers come and go.
Logins == Budget("login" :> 1 @@ "connect" :> 3 @@ "lose" :> 1)
\* An account logs in again, on another connection or on the same.
Again == Budget("login" :> 2 @@ "connect" :> 2)
\* An account is made, by a client or by the administrator, and the login server is killed.
Killed == Budget("login" :> 1 @@ "create" :> 1 @@ "connect" :> 1 @@ "play" :> 1 @@ "sync" :> 1 @@
                 "crash" :> 1)
\* An account is deleted while its player logs in, and the login server is started again.
Removed == Budget("login" :> 1 @@ "delete" :> 1 @@ "connect" :> 1 @@ "play" :> 1 @@ "stop" :> 1 @@
                  "create" :> 1)
\* An account is made while a child writes, and the login server is started again.
Overtaken == Budget("login" :> 1 @@ "create" :> 1 @@ "connect" :> 1 @@ "play" :> 1 @@ "sync" :> 1 @@
                    "stop" :> 1)
\* The GM accounts change while char servers come and go, in each way.
Levels == Budget("connect" :> 2 @@ "level" :> 1 @@ "lose" :> 1 @@ "create" :> 1)
Edits == Budget("connect" :> 2 @@ "edit" :> 1 @@ "list" :> 1)
\* An account is barred, and let in again, by both kinds of orders.
Bars == Budget("login" :> 1 @@ "connect" :> 1 @@ "bar" :> 1)
Relief == Budget("connect" :> 1 @@ "bar" :> 2)

\* Accounts: scripts set variables, the administrator does, and both; two char servers, and
\* a character that is made meanwhile.
Scripts == Budget("connect" :> 2 @@ "enter" :> 1 @@ "script" :> 2)
Admin == Budget("connect" :> 2 @@ "enter" :> 1 @@ "variable" :> 2)
Both == Budget("connect" :> 1 @@ "enter" :> 1 @@ "script" :> 1 @@ "variable" :> 1 @@ "quit" :> 1)
Far == Budget("connect" :> 2 @@ "enter" :> 1 @@ "script" :> 1 @@ "variable" :> 1)
Died == Budget("connect" :> 2 @@ "enter" :> 1 @@ "script" :> 1 @@ "lose" :> 1)
\* The administration client's other requests.
Asks == Budget("connect" :> 1 @@ "enter" :> 1 @@ "ask" :> 1 @@ "look" :> 1)
\* A password is changed by its owner, whose account is deleted.
Owner == Budget("connect" :> 1 @@ "login" :> 1 @@ "play" :> 1 @@ "password" :> 2 @@ "delete" :> 1 @@
                "quit" :> 1)
NewOne == Budget("connect" :> 1 @@ "login" :> 1 @@ "play" :> 1 @@ "member" :> 1 @@ "script" :> 1 @@
                 "enter" :> 1)

MCStartMembers == {<< s1, 1, 1 >>, << s1, 1, 2 >>, << s2, 1, 1 >>}

MCLimits == {Logins, Again, Killed, Removed, Overtaken, Levels, Edits, Bars, Relief,
             Scripts, Admin, Both, Far, Died, Asks, Owner, NewOne}
=============================================================================
