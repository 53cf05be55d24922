------------------------------ MODULE Exchange ------------------------------
(***************************************************************************)
(* What trading promises to the players of a map server, whatever happens  *)
(* on the way (trade.cpp): two players each lock what they give, one of    *)
(* them presses trade, and when the other one does they swap in one step.  *)
(* There are no requests, offers, slots or stacks here.  Trade implements  *)
(* this specification.                                                     *)
(***************************************************************************)
EXTENDS Naturals

CONSTANTS
    Players,
    NoPlayer,
    Items

VARIABLES
    goods,      \* how much of each item each player has
    money,
    deal        \* what each player has locked, for whom, and whether it is sure

vars == << goods, money, deal >>

Deals ==
    [with : Players, goods : [Items -> Nat], money : Nat, final : BOOLEAN, sure : BOOLEAN]
Nothing == [x \in Items |-> 0]
NoDeal ==
    [with |-> NoPlayer, goods |-> Nothing, money |-> 0, final |-> FALSE, sure |-> TRUE]

Init ==
    /\ goods \in [Players -> [Items -> Nat]]
    /\ money \in [Players -> Nat]
    /\ deal = [p \in Players |-> NoDeal]

Locked(p) == deal[p].with # NoPlayer

\* The deals that are left without p.
Without(p) ==
    [r \in Players |-> IF r = p \/ deal[r].with = p THEN NoDeal ELSE deal[r]]

\* p locks what it gives to q.
Lock(p, q) ==
    /\ ~Locked(p) /\ p # q
    /\ deal'[p].with = q /\ ~deal'[p].final /\ deal'[p].sure
    /\ deal[q].with \in {NoPlayer, p}
    /\ \A r \in Players \ {p} : deal'[r] = deal[r]
    /\ deal' \in [Players -> Deals \cup {NoDeal}]
    /\ UNCHANGED << money, goods >>

\* p presses trade, when both have locked, or ok once more, which takes that back.
Decide(p, yes) ==
    /\ Locked(p)
    /\ yes => Locked(deal[p].with)
    /\ deal'[p].final = yes
    /\ deal' = [deal EXCEPT ![p].final = yes]
    /\ UNCHANGED << money, goods >>

\* What p has locked is put in another order, and what it will give nobody can tell.
Disorder(p) ==
    /\ Locked(p)
    /\ deal' = [deal EXCEPT ![p].sure = FALSE, ![p].goods = Nothing]
    /\ UNCHANGED << goods, money >>

\* One of the two ends the deal, and nothing has happened.
Withdraw(p) ==
    /\ deal' = Without(p)
    /\ UNCHANGED << goods, money >>

\* Between p and q nothing is lost.  If both are sure nothing is made either, and one
\* that is sure gives no more of anything than it has locked.  Of what does not fit a
\* part may stay where it was; the money does not.
Fair(p, q) ==
    /\ \A x \in Items :
          LET before == goods[p][x] + goods[q][x]
              after == goods'[p][x] + goods'[q][x]
          IN  /\ after >= before
              /\ deal[p].sure /\ deal[q].sure => after = before
              /\ deal[p].sure => goods'[p][x] + deal[p].goods[x] >= goods[p][x]
              /\ deal[q].sure => goods'[q][x] + deal[q].goods[x] >= goods[q][x]
    /\ money'[p] + deal[p].money = money[p] + deal[q].money
    /\ money'[q] + deal[q].money = money[q] + deal[p].money

\* p presses trade as the second one.
Swap(p) ==
    LET q == deal[p].with
    IN  /\ Locked(p) /\ deal[q].with = p /\ deal[q].final
        /\ Fair(p, q)
        /\ \A r \in Players \ {p, q} : goods'[r] = goods[r] /\ money'[r] = money[r]
        /\ deal' = Without(p)

\* p gets or loses something in the rest of the game.  What it loses may be what it
\* has locked, so the deal is off.
Live(p) ==
    /\ \A r \in Players \ {p} : goods'[r] = goods[r] /\ money'[r] = money[r]
    /\ \/ deal' = Without(p)
       \/ deal' = deal /\ \A x \in Items : goods'[p][x] >= goods[p][x]

Next ==
    \E p \in Players :
        \/ \E q \in Players : Lock(p, q)
        \/ \E yes \in BOOLEAN : Decide(p, yes)
        \/ Disorder(p)
        \/ Withdraw(p)
        \/ Swap(p)
        \/ Live(p)

Spec == Init /\ [][Next]_vars
=============================================================================
