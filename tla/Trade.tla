-------------------------------- MODULE Trade --------------------------------
(***************************************************************************)
(* Trading between players of one map server (trade.cpp): request, answer, *)
(* offers of items and money, lock, commit and cancel, among everything    *)
(* else that gives a player items or money or takes them away (pc_additem, *)
(* pc_delitem, pc_getzeny, pc_payzeny).                                    *)
(***************************************************************************)
EXTENDS Naturals, FiniteSetsExt

CONSTANTS
    Players,
    NoPlayer,       \* AccountId()
    Items,
    NoItem,         \* ItemNameId()
    Stackable,      \* the items that are not equipment
    MaxInventory,   \* MAX_INVENTORY
    MaxAmount,      \* MAX_AMOUNT
    MaxZeny,        \* MAX_ZENY
    TradeMax,       \* TRADE_MAX
    Bags,           \* what each player starts with: amounts of the items
    Purses,         \* and money
    Around,         \* items and money that nobody has at first
    Limit           \* how many trades begin, how many other changes there are, and both

Slots == 1 .. MaxInventory
Offers == 1 .. TradeMax

\* Inventories: a slot without an item is empty as a whole.
Bag ==
    {bag \in [Slots -> [item : Items \cup {NoItem}, amount : Nat]] :
        \A n \in Slots : bag[n].item = NoItem <=> bag[n].amount = 0}

ASSUME TradeAssumption ==
    /\ NoPlayer \notin Players
    /\ NoItem \notin Items
    /\ MaxInventory \in Nat /\ MaxAmount \in Nat /\ MaxZeny \in Nat /\ TradeMax \in Nat
    /\ Bags \in [Players -> Bag]
    /\ Purses \in [Players -> 0 .. MaxZeny]
    /\ Around \in [items : [Items -> Nat], zeny : Nat]
    /\ Limit \in [trades : Nat, changes : Nat, both : Nat]

VARIABLES
    inventory,
    zeny,
    trade_partner,
    deal_locked,    \* 0: offering, 1: ok pressed, 2: trade pressed
    deal_item,      \* deal_item_index and deal_item_amount
    deal_zeny,
    world,          \* items and money that no player has
    stale,          \* history: who has locked offers of slots that were renumbered since
    count           \* how often each thing in Limit has happened

dealVars == << trade_partner, deal_locked, deal_item, deal_zeny >>
vars == << inventory, zeny, dealVars, world, stale, count >>

Empty == [item |-> NoItem, amount |-> 0]
NoOffer == [index |-> 0, amount |-> 0]
NoOffers == [i \in Offers |-> NoOffer]

Init ==
    /\ inventory = Bags
    /\ zeny = Purses
    /\ trade_partner = [p \in Players |-> NoPlayer]
    /\ deal_locked = [p \in Players |-> 0]
    /\ deal_item = [p \in Players |-> NoOffers]
    /\ deal_zeny = [p \in Players |-> 0]
    /\ world = Around
    /\ stale = {}
    /\ count = [trades |-> 0, changes |-> 0]

Count(what) ==
    /\ count[what] < Limit[what]
    /\ count.trades + count.changes < Limit.both
    /\ count' = [count EXCEPT ![what] = @ + 1]

-----------------------------------------------------------------------------
(* Inventories (pc.cpp). *)

\* pc_additem: the inventory that results, the same one if the item does not
\* fit.  (TOO_HEAVY is left to whoever adds.)
Added(bag, item, amount) ==
    LET same == {n \in Slots : item \in Stackable /\ bag[n].item = item}
        free == {n \in Slots : bag[n].item = NoItem}
    IN  IF item = NoItem THEN bag
        ELSE IF same # {}
             THEN IF bag[Min(same)].amount + amount > MaxAmount THEN bag
                  ELSE [bag EXCEPT ![Min(same)].amount = @ + amount]
        ELSE IF free # {}
             THEN [bag EXCEPT ![Min(free)] = [item |-> item, amount |-> amount]]
        ELSE bag

\* pc_delitem, which does nothing if there is not enough.
Removed(bag, n, amount) ==
    IF bag[n].amount < amount THEN bag
    ELSE IF bag[n].amount = amount THEN [bag EXCEPT ![n] = Empty]
    ELSE [bag EXCEPT ![n].amount = @ - amount]

\* pc_checkitem: the slots that are not empty move to the front, in their order.
Packed(bag) ==
    LET first[n \in 0 .. MaxInventory] ==
            IF n = 0 THEN [k \in Slots |-> Empty]
            ELSE IF bag[n].item = NoItem THEN first[n - 1]
            ELSE [first[n - 1] EXCEPT
                     ![Min({k \in Slots : first[n - 1][k].item = NoItem})] = bag[n]]
    IN  first[MaxInventory]

-----------------------------------------------------------------------------
(* Trades. *)

Trading(p) == trade_partner[p] # NoPlayer

\* f after p and its partner have been given the value v.
Both(f, p, v) == [f EXCEPT ![p] = v, ![trade_partner[p]] = v]

\* trade_tradecancel
Cancel(p) ==
    IF Trading(p)
    THEN /\ deal_item' = Both(deal_item, p, NoOffers)
         /\ deal_zeny' = Both(deal_zeny, p, 0)
         /\ deal_locked' = Both(deal_locked, p, 0)
         /\ trade_partner' = Both(trade_partner, p, NoPlayer)
    ELSE UNCHANGED dealVars

\* A mistake for FreeToTrade: the other one may be trading.
FreeToAsk(p, q) == ~Trading(p)
FreeToTrade(p, q) == ~Trading(p) /\ ~Trading(q)

\* trade_traderequest, when q is near and not busy with an NPC or an invitation
Request(p, q) ==
    /\ p # q
    /\ IF FreeToTrade(p, q)
       THEN /\ Count("trades")
            /\ trade_partner' = [trade_partner EXCEPT ![p] = q, ![q] = p]
            /\ UNCHANGED << deal_locked, deal_item, deal_zeny >>
       ELSE Cancel(p) /\ UNCHANGED count
    /\ UNCHANGED << inventory, zeny, world >>

\* trade_tradeack with type 4.  The other types change nothing: nobody waits
\* for an answer before offering.
Refuse(p) ==
    /\ Trading(p)
    /\ deal_locked' = Both(deal_locked, p, 0)
    /\ trade_partner' = Both(trade_partner, p, NoPlayer)
    /\ UNCHANGED << deal_item, deal_zeny, inventory, zeny, world, count >>

MayOffer(p) == deal_locked[p] < 1

\* A mistake for Redealt: no item is recognised.
NotRedealt(p, i, n) == FALSE
\* "re-deal exploit protection": slot n is among the offers of p before i.
Redealt(p, i, n) == \E c \in 1 .. i - 1 : deal_item[p][c].index = n

\* Offer i of p is of a slot that is not empty.
HasOffered(p, i) == inventory[p][deal_item[p][i].index].item # NoItem

\* trade_tradeadditem with an item.  It weighs what is offered already, and
\* aborts the server if that is gone: no step then.  It may also be refused because of the
\* receiver's weight or slots, which are not looked at again before they count.
OfferItem(p, n, amount) ==
    LET free == {i \in Offers : deal_item[p][i].amount = 0}
        offer == [index |-> n, amount |-> amount]
    IN  /\ Trading(p)
        /\ MayOffer(p)
        /\ amount \in 1 .. inventory[p][n].amount
        /\ free # {}
        /\ \A c \in 1 .. Min(free) - 1 : HasOffered(p, c)
        /\ IF Redealt(p, Min(free), n)
           THEN Cancel(p)
           ELSE /\ deal_item' = [deal_item EXCEPT ![p][Min(free)] = offer]
                /\ UNCHANGED << trade_partner, deal_locked, deal_zeny >>
        /\ UNCHANGED << inventory, zeny, world, count >>

\* trade_tradeadditem with money
OfferZeny(p, amount) ==
    /\ Trading(p)
    /\ MayOffer(p)
    /\ amount \in 1 .. zeny[p]
    /\ deal_zeny' = [deal_zeny EXCEPT ![p] = amount]
    /\ UNCHANGED << trade_partner, deal_locked, deal_item, inventory, zeny, world, count >>

\* What p has offered and does not have any more.
Overdrawn(p) ==
    \E i \in Offers :
        LET d == deal_item[p][i]
        IN  d.index # 0 /\ d.amount > inventory[p][d.index].amount

\* trade_tradeok
Lock(p) ==
    /\ IF Overdrawn(p) THEN Cancel(p)
       ELSE /\ Trading(p)
            /\ deal_locked' = [deal_locked EXCEPT ![p] = 1]
            /\ UNCHANGED << trade_partner, deal_item, deal_zeny >>
    /\ UNCHANGED << inventory, zeny, world, count >>

\* One offer of the trade, i of p to q: what each has afterwards.  What is too
\* heavy for q stays with p, and so does what does not fit.
Given(bags, p, q, i, heavy) ==
    LET d == deal_item[p][i]
        added == Added(bags[q], bags[p][d.index].item, d.amount)
    IN  IF d.amount = 0 \/ << p, i >> \in heavy \/ added = bags[q] THEN bags
        ELSE [bags EXCEPT ![q] = added, ![p] = Removed(@, d.index, d.amount)]

\* The offers change hands one after the other, one of p and one of q: the
\* inventories after each round.
Rounds(p, q, heavy) ==
    LET after[i \in 0 .. TradeMax] ==
            IF i = 0 THEN inventory
            ELSE Given(Given(after[i - 1], p, q, i, heavy), q, p, i, heavy)
    IN  after

\* A mistake for PartnerCommitted: the first one decides for both.
PartnerAgreed(q) == deal_locked[q] >= 1
PartnerCommitted(q) == deal_locked[q] = 2

CanPay(p) == deal_zeny[p] <= zeny[p]

\* trade_tradecommit
Commit(p) ==
    LET q == trade_partner[p]
    IN  /\ Trading(p)
        /\ deal_locked[p] >= 1 /\ deal_locked[q] >= 1
        /\ \/ /\ ~PartnerCommitted(q)
              /\ deal_locked' = [deal_locked EXCEPT ![p] = 2]
              /\ UNCHANGED << trade_partner, deal_item, deal_zeny, inventory, zeny >>
           \/ /\ PartnerCommitted(q)
              /\ ~(CanPay(p) /\ CanPay(q))
              /\ Cancel(p)
              /\ UNCHANGED << inventory, zeny >>
           \/ /\ PartnerCommitted(q)
              /\ CanPay(p) /\ CanPay(q)
              /\ Cancel(p)      \* resets the same as a trade that is done
              /\ \E heavy \in SUBSET {d \in {p, q} \X Offers : deal_item[d[1]][d[2]].amount # 0} :
                    inventory' = Rounds(p, q, heavy)[TradeMax]
              /\ zeny' = [zeny EXCEPT ![p] = @ - deal_zeny[p] + deal_zeny[q],
                                      ![q] = @ - deal_zeny[q] + deal_zeny[p]]
        /\ UNCHANGED << world, count >>

\* trade_tradecancel from the client or pc_setpos
CancelTrade(p) ==
    /\ Trading(p)
    /\ Cancel(p)
    /\ UNCHANGED << inventory, zeny, world, count >>

\* map_quit, and pc_authok when the player is back, with a new session and its
\* slots renumbered
Quit(p) ==
    /\ trade_partner' = IF Trading(p) THEN Both(trade_partner, p, NoPlayer)
                                      ELSE trade_partner
    /\ deal_locked' = IF Trading(p) THEN Both(deal_locked, p, 0) ELSE deal_locked
    /\ deal_zeny' = IF Trading(p) THEN Both(deal_zeny, p, 0)
                                  ELSE [deal_zeny EXCEPT ![p] = 0]
    /\ deal_item' = IF Trading(p) THEN Both(deal_item, p, NoOffers)
                                  ELSE [deal_item EXCEPT ![p] = NoOffers]
    /\ inventory' = [inventory EXCEPT ![p] = Packed(@)]
    /\ UNCHANGED << zeny, world, count >>

-----------------------------------------------------------------------------
(* The rest of the game. *)

\* An offer of p is of a slot that pc_checkitem fills with something else.
Moved(p) ==
    \E i \in Offers :
        LET d == deal_item[p][i]
        IN  d.amount # 0 /\ Packed(inventory[p])[d.index] # inventory[p][d.index]

\* pc_checkitem, by the GM command @itemcheck or when a new session has loaded its
\* first map (clif_parse_LoadEndAck).  The offers keep the numbers of their slots.
CheckItem(p) ==
    /\ Packed(inventory[p]) # inventory[p]
    /\ inventory' = [inventory EXCEPT ![p] = Packed(@)]
    /\ stale' = IF deal_locked[p] >= 1 /\ Moved(p) THEN stale \cup {p} ELSE stale
    /\ UNCHANGED << zeny, dealVars, world, count >>

\* A mistake for Interrupt: the deal goes on.
NoInterrupt(p) == UNCHANGED dealVars
Interrupt(p) == Cancel(p)

\* pc_delitem from any of its callers
Lose(p, n, amount) ==
    LET item == inventory[p][n].item
    IN  /\ amount \in 1 .. inventory[p][n].amount
        /\ Count("changes")
        /\ Interrupt(p)
        /\ inventory' = [inventory EXCEPT ![p] = Removed(@, n, amount)]
        /\ world' = [world EXCEPT !.items[item] = @ + amount]
        /\ UNCHANGED zeny

\* pc_additem from any of its callers
Gain(p, item, amount) ==
    /\ amount \in 1 .. world.items[item]
    /\ Count("changes")
    /\ Added(inventory[p], item, amount) # inventory[p]
    /\ inventory' = [inventory EXCEPT ![p] = Added(@, item, amount)]
    /\ world' = [world EXCEPT !.items[item] = @ - amount]
    /\ UNCHANGED << zeny, dealVars >>

\* trade_verifyzeny, when p has so much money left.  An offer of more becomes
\* an offer of all, unless there is nothing left to offer.
VerifyZeny(p, left) ==
    IF ~Trading(p) \/ deal_zeny[p] <= left THEN UNCHANGED dealVars
    ELSE IF ~MayOffer(p) THEN Cancel(p)
    ELSE /\ deal_zeny' = IF left = 0 THEN deal_zeny
                         ELSE [deal_zeny EXCEPT ![p] = left]
         /\ UNCHANGED << trade_partner, deal_locked, deal_item >>

\* pc_payzeny
Pay(p, amount) ==
    LET left == zeny[p] - amount
    IN  /\ amount \in 1 .. zeny[p]
        /\ Count("changes")
        /\ left <= MaxZeny
        /\ zeny' = [zeny EXCEPT ![p] = left]
        /\ world' = [world EXCEPT !.zeny = @ + amount]
        /\ VerifyZeny(p, left)
        /\ UNCHANGED inventory

\* pc_getzeny.  What does not fit is gone: the world keeps it.
Earn(p, amount) ==
    LET new == IF zeny[p] + amount > MaxZeny THEN MaxZeny ELSE zeny[p] + amount
    IN  /\ amount \in 1 .. world.zeny
        /\ Count("changes")
        /\ zeny' = [zeny EXCEPT ![p] = new]
        /\ world' = [world EXCEPT !.zeny = (@ + zeny[p]) - new]
        /\ VerifyZeny(p, new)
        /\ UNCHANGED inventory

-----------------------------------------------------------------------------
\* What p does, or what happens to it, apart from CheckItem.
Step(p) ==
    \/ \E q \in Players : Request(p, q)
    \/ Refuse(p)
    \/ \E n \in Slots : \E amount \in 1 .. inventory[p][n].amount :
          \/ OfferItem(p, n, amount)
          \/ Lose(p, n, amount)
    \/ \E amount \in 1 .. zeny[p] :
          \/ OfferZeny(p, amount)
          \/ Pay(p, amount)
    \/ Lock(p)
    \/ Commit(p)
    \/ CancelTrade(p)
    \/ Quit(p)
    \/ \E item \in Items : \E amount \in 1 .. world.items[item] :
          Gain(p, item, amount)
    \/ \E amount \in 1 .. world.zeny : Earn(p, amount)

\* With a deal what was renumbered of it is forgotten.
Forget == stale' = {p \in stale : deal_locked'[p] >= 1}

Next ==
    \E p \in Players :
        \/ CheckItem(p)
        \/ Step(p) /\ Forget

Spec == Init /\ [][Next]_vars

-----------------------------------------------------------------------------
(* Properties. *)

\* Everything has the types of the source.
TypeOK ==
    /\ inventory \in [Players -> Bag]
    /\ zeny \in [Players -> Nat]
    /\ trade_partner \in [Players -> Players \cup {NoPlayer}]
    /\ deal_locked \in [Players -> 0 .. 2]
    /\ deal_item \in [Players -> [Offers -> [index : {0} \cup Slots, amount : Nat]]]
    /\ deal_zeny \in [Players -> Nat]
    /\ world \in [items : [Items -> Nat], zeny : Nat]
    /\ stale \subseteq Players
    /\ count \in [trades : Nat, changes : Nat]

\* How much of an item there is in a slot, and in the first slots of an inventory.
InSlot(slot, item) == IF slot.item = item THEN slot.amount ELSE 0
InFirst(bag, item) ==
    LET has[n \in 0 .. MaxInventory] ==
            IF n = 0 THEN 0 ELSE has[n - 1] + InSlot(bag[n], item)
    IN  has
Amount(bag, item) == InFirst(bag, item)[MaxInventory]

\* No trade makes items or money or loses any, whatever fits into the
\* inventories and whatever happened between the offers and the commit:
\* trade_tradecommit adds to one inventory before it removes from the other,
\* and does not look whether the removal worked.  After pc_checkitem has renumbered
\* slots that were locked already it does not always work: then a trade can make
\* items, and still loses none.
TradesConserve ==
    [][\A p \in Players :
          Trading(p) /\ world' = world =>
              LET q == trade_partner[p]
                  Before(x) == Amount(inventory[p], x) + Amount(inventory[q], x)
                  After(x) == Amount(inventory'[p], x) + Amount(inventory'[q], x)
              IN  /\ \A x \in Items : After(x) >= Before(x)
                  /\ stale \cap {p, q} = {} => \A x \in Items : After(x) = Before(x)
                  /\ zeny'[p] + zeny'[q] = zeny[p] + zeny[q]]_<< inventory, zeny >>

\* Two players trade with each other or neither does, and nobody else has
\* either of them for partner; nobody has pressed ok outside a trade.
PartnersMutual ==
    \A p \in Players :
        /\ Trading(p) =>
              /\ trade_partner[p] # p
              /\ trade_partner[trade_partner[p]] = p
        /\ ~Trading(p) => deal_locked[p] = 0

\* What a player has locked it still has: whatever takes an item away ends the
\* deal (pc_delitem), and money is looked at in trade_verifyzeny and
\* again at the commit.  Only pc_checkitem does not look at the deal: who has locked
\* slots that it renumbers is stale.
LockedIsBacked ==
    \A p \in Players \ stale :
        deal_locked[p] >= 1 =>
            \A i \in Offers :
                deal_item[p][i].amount > 0 =>
                    deal_item[p][i].amount <= inventory[p][deal_item[p][i].index].amount

\* A locked deal can be ended and cannot be changed: while p stays in the
\* trade, its offers are of the slots and amounts that its partner saw when it locked
\* its own side.
LockedStays ==
    [][\A p \in Players :
          deal_locked[p] >= 1 /\ trade_partner'[p] # NoPlayer =>
              /\ trade_partner'[p] = trade_partner[p]
              /\ deal_locked'[p] >= 1
              /\ deal_item'[p] = deal_item[p]
              /\ deal_zeny'[p] = deal_zeny[p]]_vars

\* Items and money pass from player to player only when the two trade with each
\* other, both have locked, the other one has pressed trade as well, and neither
\* gives more money than it offered, or anything from a slot that it did not offer.
OnlyByAgreement ==
    [][\A p \in Players :
          /\ world' = world
          /\ \/ zeny'[p] # zeny[p]
             \/ /\ inventory'[p] # inventory[p]
                /\ \E x \in Items : Amount(inventory'[p], x) # Amount(inventory[p], x)
          =>
              LET q == trade_partner[p]
              IN  /\ Trading(p)
                  /\ 2 \in {deal_locked[p], deal_locked[q]}
                  /\ deal_locked[p] >= 1 /\ deal_locked[q] >= 1
                  /\ zeny'[p] >= zeny[p] - deal_zeny[p]
                  /\ \A n \in Slots :
                        inventory'[p][n].amount < inventory[p][n].amount =>
                            \E i \in Offers : deal_item[p][i].index = n]_<< inventory, zeny >>

-----------------------------------------------------------------------------
(* Trades as an exchange of what the two have locked. *)

\* How much of an item is among the first offers, of slots of an inventory.
OfOffer(bag, d, item) == InSlot([bag[d.index] EXCEPT !.amount = d.amount], item)
Promised(bag, offers, item) ==
    LET first[i \in 0 .. TradeMax] ==
            IF i = 0 THEN 0
            ELSE first[i - 1] + (IF offers[i].amount = 0 THEN 0
                                 ELSE OfOffer(bag, offers[i], item))
    IN  first

Goods == [p \in Players |-> [x \in Items |-> Amount(inventory[p], x)]]
\* What p has locked.  What a stale player gives nobody can tell.
Locked(p) ==
    [x \in Items |->
        IF p \in stale THEN 0 ELSE Promised(inventory[p], deal_item[p], x)[TradeMax]]
Deal ==
    [p \in Players |->
        IF deal_locked[p] = 0
        THEN [with |-> NoPlayer, goods |-> [x \in Items |-> 0], money |-> 0,
              final |-> FALSE, sure |-> TRUE]
        ELSE [with |-> trade_partner[p], goods |-> Locked(p), money |-> deal_zeny[p],
              final |-> deal_locked[p] = 2, sure |-> p \notin stale]]

Abstract == INSTANCE Exchange WITH goods <- Goods, money <- zeny, deal <- Deal

\* Whatever the requests, answers, offers, full inventories and other losses, what a
\* player sees of trade.cpp is an exchange: both lock, both agree, and in one step each
\* gets what the other one has locked, or keeps everything.  What pc_checkitem renumbers
\* in between is what Exchange calls not sure.
IsAnExchange == Abstract!Spec
=============================================================================
