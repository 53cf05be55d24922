----------------------------- MODULE Trade_proofs -----------------------------
(***************************************************************************)
(* What every trade between any number of players keeps, with inventories, *)
(* stacks and trade windows of any size.                                   *)
(***************************************************************************)
EXTENDS Trade, WellFoundedInduction, TLAPS

(***************************************************************************)
(* Induction over a set instead of a predicate, and smallest elements.     *)
(***************************************************************************)

\* A set of numbers with 0 and with the successor of each of its elements has
\* them all.
LEMMA Induction ==
    ASSUME NEW S, 0 \in S, \A n \in Nat : n \in S => n + 1 \in S
    PROVE  Nat \subseteq S
<1> DEFINE Below == OpToRel(<, Nat)
           Rest == Nat \ S
<1>1. SUFFICES ASSUME Rest # {} PROVE FALSE
      OBVIOUS
<1>2. PICK x \in Rest : \A y \in Rest : << y, x >> \notin Below
  <2> HIDE DEF Below, Rest
  <2>1. IsWellFoundedOn(Below, Nat)
        BY NatLessThanWellFounded, Zenon DEF Below
  <2>2. Rest \subseteq Nat
        BY DEF Rest
  <2> QED BY <1>1, <2>1, <2>2, WFMin
<1>3. x \in Nat /\ x # 0 /\ x - 1 \in Nat
      OBVIOUS
<1>4. << x - 1, x >> \in Below
      BY <1>3 DEF OpToRel
<1>5. x - 1 \notin Rest
  <2> HIDE DEF Below, Rest
  <2> QED BY <1>2, <1>4
<1>6. x - 1 \in S
      BY <1>3, <1>5
<1>7. (x - 1) + 1 = x
      BY <1>3
<1> QED BY <1>3, <1>6, <1>7

\* Min is the smallest element.
LEMMA MinOf ==
    ASSUME NEW S, S \subseteq Nat, S # {}
    PROVE  Min(S) \in S /\ \A y \in S : Min(S) <= y
<1> DEFINE Below == OpToRel(<, Nat)
<1>1. PICK x \in S : \A y \in S : << y, x >> \notin Below
  <2> HIDE DEF Below
  <2>1. IsWellFoundedOn(Below, Nat)
        BY NatLessThanWellFounded, Zenon DEF Below
  <2> QED BY <2>1, WFMin
<1>2. \A y \in S : x <= y
  <2> TAKE y \in S
  <2>1. ~ (y < x)
        BY <1>1 DEF OpToRel
  <2> QED BY <2>1
<1> HIDE DEF Below
<1> QED BY <1>2 DEF Min

-----------------------------------------------------------------------------
(* How much of an item there is. *)

\* The recursive definition of InFirst is one: there is such a function.
LEMMA InFirstDef ==
    ASSUME NEW bag, NEW item
    PROVE  InFirst(bag, item) =
             [n \in 0 .. MaxInventory |->
                 IF n = 0 THEN 0
                 ELSE InFirst(bag, item)[n - 1] + InSlot(bag[n], item)]
<1> DEFINE F(g, m) == [n \in 0 .. m |-> IF n = 0 THEN 0
                                        ELSE g[n - 1] + InSlot(bag[n], item)]
           S == {m \in Nat : \E g : g = F(g, m)}
<1>1. 0 \in S
  <2>1. [n \in 0 .. 0 |-> 0] = F([n \in 0 .. 0 |-> 0], 0)
        OBVIOUS
  <2> QED BY <2>1
<1>2. ASSUME NEW m \in Nat, m \in S PROVE m + 1 \in S
  <2>1. PICK g : g = F(g, m)
        BY <1>2
  <2> DEFINE h == [n \in 0 .. m + 1 |->
                      IF n = 0 THEN 0 ELSE g[n - 1] + InSlot(bag[n], item)]
  <2>2. \A n \in 0 .. m : h[n] = g[n]
        BY <2>1
  <2>3. h = F(h, m + 1)
    <3>1. \A n \in 0 .. m + 1 : n # 0 => n - 1 \in 0 .. m
          OBVIOUS
    <3> QED BY <2>2, <3>1
  <2> HIDE DEF h
  <2> QED BY <2>3
<1>3. MaxInventory \in S
  <2> HIDE DEF S
  <2> QED BY <1>1, <1>2, Induction, TradeAssumption
<1>4. PICK g : g = F(g, MaxInventory)
      BY <1>3
<1> QED BY <1>4 DEF InFirst

LEMMA InFirstNext ==
    ASSUME NEW bag, NEW item
    PROVE  /\ InFirst(bag, item)[0] = 0
           /\ \A n \in 0 .. MaxInventory - 1 :
                 InFirst(bag, item)[n + 1]
                   = InFirst(bag, item)[n] + InSlot(bag[n + 1], item)
<1> DEFINE f == InFirst(bag, item)
           w(n) == InSlot(bag[n], item)
<1>1. f = [n \in 0 .. MaxInventory |-> IF n = 0 THEN 0 ELSE f[n - 1] + w(n)]
  <2> HIDE DEF f
  <2>1. f = InFirst(bag, item)
        BY DEF f
  <2> QED BY <2>1, InFirstDef
<1> HIDE DEF f, w
<1>2. f[0] = 0
      BY <1>1, TradeAssumption
<1>3. ASSUME NEW n \in 0 .. MaxInventory - 1 PROVE f[n + 1] = f[n] + w(n + 1)
  <2>1. n + 1 \in 0 .. MaxInventory /\ n + 1 # 0 /\ (n + 1) - 1 = n
        BY TradeAssumption
  <2> QED BY <1>1, <2>1
<1> QED BY <1>2, <1>3 DEF f, w

\* Amounts are natural numbers.
LEMMA InFirstType ==
    ASSUME NEW bag \in Bag, NEW item
    PROVE  \A n \in 0 .. MaxInventory : InFirst(bag, item)[n] \in Nat
<1> DEFINE S == {n \in Nat : n <= MaxInventory => InFirst(bag, item)[n] \in Nat}
<1>1. 0 \in S
      BY InFirstNext, TradeAssumption
<1>2. ASSUME NEW n \in Nat, n \in S PROVE n + 1 \in S
  <2> SUFFICES ASSUME n + 1 <= MaxInventory
               PROVE  InFirst(bag, item)[n + 1] \in Nat
      OBVIOUS
  <2>1. n \in 0 .. MaxInventory - 1 /\ n + 1 \in Slots
        BY TradeAssumption DEF Slots
  <2>2. InFirst(bag, item)[n + 1] = InFirst(bag, item)[n] + InSlot(bag[n + 1], item)
        BY <2>1, InFirstNext, TradeAssumption
  <2>3. InSlot(bag[n + 1], item) \in Nat
        BY <2>1 DEF InSlot, Bag
  <2>4. InFirst(bag, item)[n] \in Nat
        BY <1>2, TradeAssumption
  <2> QED BY <2>2, <2>3, <2>4
<1>3. Nat \subseteq S
  <2> HIDE DEF S
  <2> QED BY <1>1, <1>2, Induction
<1> QED BY <1>3, TradeAssumption

LEMMA AmountType ==
    ASSUME NEW bag \in Bag, NEW item
    PROVE  Amount(bag, item) \in Nat
BY InFirstType, TradeAssumption DEF Amount

\* The recursive definition of Promised is one.
LEMMA PromisedNext ==
    ASSUME NEW bag, NEW offers, NEW item
    PROVE  /\ Promised(bag, offers, item)[0] = 0
           /\ \A n \in 0 .. TradeMax - 1 :
                 Promised(bag, offers, item)[n + 1]
                   = Promised(bag, offers, item)[n]
                       + (IF offers[n + 1].amount = 0 THEN 0
                          ELSE OfOffer(bag, offers[n + 1], item))
<1> DEFINE w(n) == IF offers[n].amount = 0 THEN 0
                   ELSE OfOffer(bag, offers[n], item)
           F(g, m) == [n \in 0 .. m |-> IF n = 0 THEN 0 ELSE g[n - 1] + w(n)]
           S == {m \in Nat : \E g : g = F(g, m)}
           f == Promised(bag, offers, item)
<1>1. f = CHOOSE g : g = F(g, TradeMax)
      BY DEF Promised
<1> HIDE DEF w, f
<1>2. 0 \in S
  <2>1. [n \in 0 .. 0 |-> 0] = F([n \in 0 .. 0 |-> 0], 0)
        OBVIOUS
  <2> QED BY <2>1
<1>3. ASSUME NEW m \in Nat, m \in S PROVE m + 1 \in S
  <2>1. PICK g : g = F(g, m)
        BY <1>3
  <2> DEFINE h == [n \in 0 .. m + 1 |-> IF n = 0 THEN 0 ELSE g[n - 1] + w(n)]
  <2>2. \A n \in 0 .. m : h[n] = g[n]
        BY <2>1
  <2>3. h = F(h, m + 1)
    <3>1. \A n \in 0 .. m + 1 : n # 0 => n - 1 \in 0 .. m
          OBVIOUS
    <3> QED BY <2>2, <3>1
  <2> HIDE DEF h
  <2> QED BY <2>3
<1>4. TradeMax \in S
  <2> HIDE DEF S
  <2> QED BY <1>2, <1>3, Induction, TradeAssumption
<1>5. f = F(f, TradeMax)
      BY <1>1, <1>4
<1>6. f[0] = 0
      BY <1>5, TradeAssumption
<1>7. ASSUME NEW n \in 0 .. TradeMax - 1 PROVE f[n + 1] = f[n] + w(n + 1)
  <2>1. n + 1 \in 0 .. TradeMax /\ n + 1 # 0 /\ (n + 1) - 1 = n
        BY TradeAssumption
  <2> QED BY <1>5, <2>1
<1> QED BY <1>6, <1>7 DEF f, w

\* What an offer of an item counts for.
LEMMA OfOfferIs ==
    ASSUME NEW bag \in Bag, NEW n \in Slots, NEW amount \in Nat, NEW item
    PROVE  OfOffer(bag, [index |-> n, amount |-> amount], item)
             = IF bag[n].item = item THEN amount ELSE 0
<1>1. bag[n] \in [item : Items \cup {NoItem}, amount : Nat]
      BY DEF Bag
<1> QED BY <1>1 DEF OfOffer, InSlot

\* Promises are natural numbers.
LEMMA PromisedType ==
    ASSUME NEW bag \in Bag, NEW item,
           NEW offers \in [Offers -> [index : {0} \cup Slots, amount : Nat]],
           \A i \in Offers : offers[i].amount # 0 => offers[i].index # 0
    PROVE  \A n \in 0 .. TradeMax : Promised(bag, offers, item)[n] \in Nat
<1> DEFINE S == {n \in Nat : n <= TradeMax => Promised(bag, offers, item)[n] \in Nat}
<1>1. 0 \in S
      BY PromisedNext
<1>2. ASSUME NEW n \in Nat, n \in S PROVE n + 1 \in S
  <2> SUFFICES ASSUME n + 1 <= TradeMax PROVE Promised(bag, offers, item)[n + 1] \in Nat
      OBVIOUS
  <2> DEFINE d == offers[n + 1]
  <2>1. n \in 0 .. TradeMax - 1 /\ n + 1 \in Offers /\ n <= TradeMax
        BY TradeAssumption DEF Offers
  <2>2. /\ d = [index |-> d.index, amount |-> d.amount] /\ d.amount \in Nat
        /\ d.amount # 0 => d.index \in Slots
        BY <2>1
  <2>3. Promised(bag, offers, item)[n + 1]
          = Promised(bag, offers, item)[n] + (IF d.amount = 0 THEN 0 ELSE OfOffer(bag, d, item))
        BY <2>1, PromisedNext
  <2> HIDE DEF d
  <2>4. CASE d.amount = 0
        BY <1>2, <2>1, <2>3, <2>4
  <2>5. CASE d.amount # 0
    <3>1. OfOffer(bag, d, item) = IF bag[d.index].item = item THEN d.amount ELSE 0
          BY <2>2, <2>5, OfOfferIs
    <3> QED BY <1>2, <2>1, <2>2, <2>3, <2>5, <3>1
  <2> QED BY <2>4, <2>5
<1>3. Nat \subseteq S
  <2> HIDE DEF S
  <2> QED BY <1>1, <1>2, Induction
<1> QED BY <1>3, TradeAssumption

\* A promise depends on the items in the offered slots and not on what is left in them.
LEMMA PromisedSame ==
    ASSUME NEW bag \in Bag, NEW new \in Bag, NEW item,
           NEW offers \in [Offers -> [index : {0} \cup Slots, amount : Nat]],
           \A i \in Offers : offers[i].amount # 0 =>
              /\ offers[i].index # 0
              /\ new[offers[i].index].item = bag[offers[i].index].item
    PROVE  Promised(new, offers, item)[TradeMax] = Promised(bag, offers, item)[TradeMax]
<1> DEFINE S == {n \in Nat : n <= TradeMax =>
                    Promised(new, offers, item)[n] = Promised(bag, offers, item)[n]}
<1>1. 0 \in S
      BY PromisedNext
<1>2. ASSUME NEW n \in Nat, n \in S PROVE n + 1 \in S
  <2> SUFFICES ASSUME n + 1 <= TradeMax
               PROVE  Promised(new, offers, item)[n + 1] = Promised(bag, offers, item)[n + 1]
      OBVIOUS
  <2> DEFINE d == offers[n + 1]
  <2>1. n \in 0 .. TradeMax - 1 /\ n + 1 \in Offers /\ n <= TradeMax
        BY TradeAssumption DEF Offers
  <2>2. /\ d = [index |-> d.index, amount |-> d.amount] /\ d.amount \in Nat
        /\ d.amount # 0 => d.index \in Slots /\ new[d.index].item = bag[d.index].item
        BY <2>1
  <2>3. /\ Promised(new, offers, item)[n + 1] = Promised(new, offers, item)[n]
             + (IF d.amount = 0 THEN 0 ELSE OfOffer(new, d, item))
        /\ Promised(bag, offers, item)[n + 1] = Promised(bag, offers, item)[n]
             + (IF d.amount = 0 THEN 0 ELSE OfOffer(bag, d, item))
        BY <2>1, PromisedNext
  <2> HIDE DEF d
  <2>4. d.amount # 0 => OfOffer(new, d, item) = OfOffer(bag, d, item)
        BY <2>2, OfOfferIs
  <2> QED BY <1>2, <2>1, <2>3, <2>4
<1>3. Nat \subseteq S
  <2> HIDE DEF S
  <2> QED BY <1>1, <1>2, Induction
<1> QED BY <1>3, TradeAssumption

\* What is put into one slot makes the difference between two inventories.
LEMMA OneSlot ==
    ASSUME NEW bag \in Bag, NEW new \in Bag, NEW k \in Slots, NEW item,
           \A n \in Slots : n # k => new[n] = bag[n]
    PROVE  Amount(new, item) + InSlot(bag[k], item)
             = Amount(bag, item) + InSlot(new[k], item)
<1> DEFINE S == {n \in Nat : n <= MaxInventory =>
                    IF n < k THEN InFirst(new, item)[n] = InFirst(bag, item)[n]
                    ELSE InFirst(new, item)[n] + InSlot(bag[k], item)
                           = InFirst(bag, item)[n] + InSlot(new[k], item)}
<1>1. /\ InSlot(bag[k], item) \in Nat
      /\ InSlot(new[k], item) \in Nat
      /\ \A n \in Slots : InSlot(bag[n], item) \in Nat /\ InSlot(new[n], item) \in Nat
      BY DEF Bag, InSlot
<1>2. 0 \in S
      BY InFirstNext, TradeAssumption DEF Slots
<1>3. ASSUME NEW n \in Nat, n \in S PROVE n + 1 \in S
  <2> SUFFICES ASSUME n + 1 <= MaxInventory PROVE n + 1 \in S
      BY DEF S
  <2>1. n \in 0 .. MaxInventory - 1 /\ n + 1 \in Slots
        BY TradeAssumption DEF Slots
  <2>2. InFirst(bag, item)[n + 1] = InFirst(bag, item)[n] + InSlot(bag[n + 1], item)
        BY <2>1, InFirstNext, TradeAssumption
  <2>3. InFirst(new, item)[n + 1] = InFirst(new, item)[n] + InSlot(new[n + 1], item)
    <3> QED BY <2>1, InFirstNext, TradeAssumption
  <2>4. InFirst(bag, item)[n] \in Nat /\ InFirst(new, item)[n] \in Nat
    <3> QED BY InFirstType, TradeAssumption
  <2>5. IF n < k THEN InFirst(new, item)[n] = InFirst(bag, item)[n]
        ELSE InFirst(new, item)[n] + InSlot(bag[k], item)
               = InFirst(bag, item)[n] + InSlot(new[k], item)
        BY <1>3, TradeAssumption
  <2>6. k \in Nat
        BY DEF Slots
  <2>7. CASE n + 1 < k
        BY <1>1, <2>1, <2>2, <2>3, <2>5, <2>6, <2>7
  <2>8. CASE n + 1 = k
        BY <1>1, <2>1, <2>2, <2>3, <2>4, <2>5, <2>6, <2>8
  <2>9. CASE n + 1 > k
        BY <1>1, <2>1, <2>2, <2>3, <2>4, <2>5, <2>6, <2>9
  <2> QED BY <2>6, <2>7, <2>8, <2>9
<1>4. MaxInventory \in S
  <2> HIDE DEF S
  <2> QED BY <1>2, <1>3, Induction, TradeAssumption
<1>5. ~ (MaxInventory < k)
      BY TradeAssumption DEF Slots
<1> QED BY <1>4, <1>5, TradeAssumption DEF Amount

-----------------------------------------------------------------------------
(* Inventories. *)

\* pc_additem makes an inventory of an inventory; no slot has less than before,
\* and if anything changed all of the amount is there.
LEMMA AddedFacts ==
    ASSUME NEW bag \in Bag, NEW item \in Items \cup {NoItem}, NEW amount \in Nat,
           amount # 0
    PROVE  LET new == Added(bag, item, amount)
           IN  /\ new \in Bag
               /\ \A n \in Slots : bag[n].amount <= new[n].amount
               /\ \A n \in Slots : bag[n].amount # 0 => new[n].item = bag[n].item
               /\ \A x \in Items : new # bag =>
                     Amount(new, x) = Amount(bag, x)
                                        + (IF x = item THEN amount ELSE 0)
<1> DEFINE same == {n \in Slots : item \in Stackable /\ bag[n].item = item}
           free == {n \in Slots : bag[n].item = NoItem}
           new == Added(bag, item, amount)
<1>1. Slots \subseteq Nat
      BY DEF Slots
<1>2. CASE new = bag
  <2> HIDE DEF new
  <2>1. \A n \in Slots : bag[n].amount \in Nat
        BY DEF Bag
  <2> QED BY <1>2, <2>1 DEF new
<1>3. CASE new # bag /\ same # {}
  <2> DEFINE k == Min(same)
             slot == [item |-> item, amount |-> bag[k].amount + amount]
  <2>1. k \in Slots /\ bag[k].item = item
        BY <1>1, <1>3, MinOf
  <2>2. item # NoItem /\ new = [bag EXCEPT ![k].amount = @ + amount]
        BY <1>3 DEF Added
  <2> HIDE DEF k
  <2>3. /\ bag[k] = [item |-> item, amount |-> bag[k].amount]
        /\ bag[k].amount \in Nat
        BY <2>1 DEF Bag
  <2>4. new = [bag EXCEPT ![k] = slot]
        BY <2>1, <2>2, <2>3 DEF Bag
  <2>5. slot \in [item : Items \cup {NoItem}, amount : Nat]
        /\ slot.item # NoItem /\ slot.amount # 0
        BY <2>2, <2>3
  <2>6. [bag EXCEPT ![k] = slot] \in Bag
        BY <2>1, <2>5 DEF Bag
  <2>7. \A x \in Items : Amount(new, x) = Amount(bag, x)
                                            + (IF x = item THEN amount ELSE 0)
    <3> TAKE x \in Items
    <3>1. Amount(new, x) + InSlot(bag[k], x) = Amount(bag, x) + InSlot(new[k], x)
      <4>1. new \in Bag /\ \A n \in Slots : n # k => new[n] = bag[n]
            BY <2>4, <2>6 DEF Bag
      <4> HIDE DEF new
      <4> QED BY <2>1, <4>1, OneSlot
    <3>2. Amount(new, x) \in Nat /\ Amount(bag, x) \in Nat
          BY <2>4, <2>6, AmountType
    <3>3. InSlot(new[k], x) = IF x = item THEN bag[k].amount + amount ELSE 0
          BY <2>1, <2>4 DEF InSlot, Bag
    <3>4. InSlot(bag[k], x) = IF x = item THEN bag[k].amount ELSE 0
          BY <2>1 DEF InSlot
    <3> QED BY <2>3, <3>1, <3>2, <3>3, <3>4
  <2>8. \A n \in Slots : bag[n].amount <= new[n].amount
        BY <2>1, <2>3, <2>4 DEF Bag
  <2>9. \A n \in Slots : bag[n].amount # 0 => new[n].item = bag[n].item
        BY <2>1, <2>4 DEF Bag
  <2> QED BY <2>4, <2>6, <2>7, <2>8, <2>9
<1>4. CASE new # bag /\ same = {}
  <2> DEFINE k == Min(free)
             slot == [item |-> item, amount |-> amount]
  <2>1. /\ item # NoItem /\ free # {}
        /\ new = [bag EXCEPT ![k] = slot]
        BY <1>4 DEF Added
  <2>2. k \in Slots /\ bag[k].item = NoItem
        BY <1>1, <2>1, MinOf
  <2> HIDE DEF k
  <2>3. bag[k].amount = 0
        BY <2>2 DEF Bag
  <2>4. [bag EXCEPT ![k] = slot] \in Bag
        BY <2>1, <2>2 DEF Bag
  <2>5. \A x \in Items : Amount(new, x) = Amount(bag, x)
                                            + (IF x = item THEN amount ELSE 0)
    <3> TAKE x \in Items
    <3>1. Amount(new, x) + InSlot(bag[k], x) = Amount(bag, x) + InSlot(new[k], x)
      <4>1. new \in Bag /\ \A n \in Slots : n # k => new[n] = bag[n]
            BY <2>1, <2>4 DEF Bag
      <4> HIDE DEF new
      <4> QED BY <2>2, <4>1, OneSlot
    <3>2. Amount(new, x) \in Nat /\ Amount(bag, x) \in Nat
          BY <2>1, <2>4, AmountType
    <3>3. InSlot(new[k], x) = IF x = item THEN amount ELSE 0
          BY <2>1, <2>2 DEF InSlot, Bag
    <3>4. InSlot(bag[k], x) = 0
          BY <2>3 DEF InSlot
    <3> QED BY <3>1, <3>2, <3>3, <3>4
  <2>6. \A n \in Slots : bag[n].amount <= new[n].amount
        BY <2>1, <2>2, <2>3 DEF Bag
  <2>7. \A n \in Slots : bag[n].amount # 0 => new[n].item = bag[n].item
        BY <2>1, <2>2, <2>3 DEF Bag
  <2> QED BY <2>1, <2>4, <2>5, <2>6, <2>7
<1> QED BY <1>2, <1>3, <1>4

\* pc_delitem takes the amount out of one slot if it is there.
LEMMA RemovedFacts ==
    ASSUME NEW bag \in Bag, NEW n \in Slots, NEW amount \in Nat,
           amount # 0, amount <= bag[n].amount
    PROVE  LET new == Removed(bag, n, amount)
           IN  /\ new \in Bag
               /\ \A k \in Slots : k # n => new[k] = bag[k]
               /\ \A x \in Items :
                     Amount(new, x) + (IF x = bag[n].item THEN amount ELSE 0)
                       = Amount(bag, x)
<1> DEFINE new == Removed(bag, n, amount)
           slot == IF bag[n].amount = amount THEN Empty
                   ELSE [item |-> bag[n].item, amount |-> bag[n].amount - amount]
<1>1. /\ bag[n].amount \in Nat /\ bag[n].item \in Items
      /\ bag[n] = [item |-> bag[n].item, amount |-> bag[n].amount]
      BY DEF Bag
<1>2. new = [bag EXCEPT ![n] = slot]
  <2>1. ~ (bag[n].amount < amount)
        BY <1>1
  <2>2. CASE bag[n].amount = amount
        BY <2>1, <2>2 DEF Removed
  <2>3. CASE bag[n].amount # amount
    <3>1. new = [bag EXCEPT ![n].amount = @ - amount]
          BY <2>1, <2>3 DEF Removed
    <3> QED BY <1>1, <2>3, <3>1 DEF Bag
  <2> QED BY <2>2, <2>3
<1>3. /\ slot \in [item : Items \cup {NoItem}, amount : Nat]
      /\ slot.item = NoItem <=> slot.amount = 0
      BY <1>1, TradeAssumption DEF Empty
<1>4. [bag EXCEPT ![n] = slot] \in Bag
      BY <1>3 DEF Bag
<1>5. ASSUME NEW x \in Items
      PROVE  Amount(new, x) + (IF x = bag[n].item THEN amount ELSE 0) = Amount(bag, x)
  <2>1. Amount(new, x) + InSlot(bag[n], x) = Amount(bag, x) + InSlot(new[n], x)
    <3>1. new \in Bag /\ \A k \in Slots : k # n => new[k] = bag[k]
          BY <1>2, <1>4 DEF Bag
    <3> HIDE DEF new
    <3> QED BY <3>1, OneSlot
  <2>2. Amount(new, x) \in Nat /\ Amount(bag, x) \in Nat
        BY <1>2, <1>4, AmountType
  <2>3. InSlot(bag[n], x) = IF x = bag[n].item THEN bag[n].amount ELSE 0
        BY DEF InSlot
  <2>4. InSlot(new[n], x) = IF x = bag[n].item THEN bag[n].amount - amount ELSE 0
    <3>1. new[n] = slot
          BY <1>2 DEF Bag
    <3> HIDE DEF new
    <3> QED BY <1>1, <3>1, TradeAssumption DEF InSlot, Empty
  <2> HIDE DEF slot, new
  <2> QED BY <1>1, <2>1, <2>2, <2>3, <2>4
<1>6. \A k \in Slots : k # n => new[k] = bag[k]
      BY <1>2 DEF Bag
<1> QED BY <1>2, <1>4, <1>5, <1>6

\* Nothing is in an empty inventory.
LEMMA NothingInIt ==
    ASSUME NEW x \in Items
    PROVE  Amount([k \in Slots |-> Empty], x) = 0
<1> DEFINE bag == [k \in Slots |-> Empty]
           S == {n \in Nat : n <= MaxInventory => InFirst(bag, x)[n] = 0}
<1>1. 0 \in S
      BY InFirstNext, TradeAssumption
<1>2. ASSUME NEW n \in Nat, n \in S PROVE n + 1 \in S
  <2> SUFFICES ASSUME n + 1 <= MaxInventory PROVE InFirst(bag, x)[n + 1] = 0
      OBVIOUS
  <2>1. n \in 0 .. MaxInventory - 1 /\ n + 1 \in Slots
        BY TradeAssumption DEF Slots
  <2>2. InFirst(bag, x)[n + 1] = InFirst(bag, x)[n] + InSlot(bag[n + 1], x)
    <3> HIDE DEF bag
    <3> QED BY <2>1, InFirstNext
  <2>3. InSlot(bag[n + 1], x) = 0
        BY <2>1, TradeAssumption DEF InSlot, Empty
  <2>4. InFirst(bag, x)[n] = 0
        BY <1>2, TradeAssumption
  <2> QED BY <2>2, <2>3, <2>4
<1>3. Nat \subseteq S
  <2> HIDE DEF S
  <2> QED BY <1>1, <1>2, Induction
<1> QED BY <1>3, TradeAssumption DEF Amount

\* A full slot goes to the first empty one.
Put(bag, slot) ==
    IF slot.item = NoItem THEN bag
    ELSE [bag EXCEPT ![Min({k \in Slots : bag[k].item = NoItem})] = slot]

LEMMA PutFacts ==
    ASSUME NEW bag \in Bag, NEW slot \in [item : Items \cup {NoItem}, amount : Nat],
           slot.item = NoItem <=> slot.amount = 0,
           NEW n \in Nat, n + 1 \in Slots, \A k \in Slots : k > n => bag[k] = Empty
    PROVE  /\ Put(bag, slot) \in Bag
           /\ \A k \in Slots : k > n + 1 => Put(bag, slot)[k] = Empty
           /\ \A x \in Items : Amount(Put(bag, slot), x) = Amount(bag, x) + InSlot(slot, x)
<1>1. \A x \in Items : Amount(bag, x) \in Nat
      BY AmountType
<1>2. CASE slot.item = NoItem
  <2>1. Put(bag, slot) = bag
        BY <1>2 DEF Put
  <2>2. \A x \in Items : InSlot(slot, x) = 0
        BY <1>2, TradeAssumption DEF InSlot
  <2> QED BY <1>1, <2>1, <2>2 DEF Slots
<1>3. CASE slot.item # NoItem
  <2> DEFINE free == {k \in Slots : bag[k].item = NoItem}
             j == Min(free)
             new == Put(bag, slot)
  <2>1. n + 1 > n
        OBVIOUS
  <2>2. bag[n + 1] = Empty
        BY <2>1
  <2>3. n + 1 \in free
        BY <2>2 DEF Empty
  <2>4. j \in Slots /\ bag[j].item = NoItem /\ j <= n + 1
    <3>1. free \subseteq Nat /\ free # {}
          BY <2>3 DEF Slots
    <3>2. Min(free) \in free /\ \A y \in free : Min(free) <= y
      <4> HIDE DEF free
      <4> QED BY <3>1, MinOf
    <3> QED BY <2>3, <3>2
  <2>5. new = [bag EXCEPT ![j] = slot]
        BY <1>3 DEF Put
  <2> HIDE DEF j, new
  <2>6. new \in Bag
        BY <2>4, <2>5 DEF Bag
  <2>7. new[j] = slot /\ \A k \in Slots : k # j => new[k] = bag[k]
        BY <2>4, <2>5 DEF Bag
  <2>8. \A k \in Slots : k > n + 1 => new[k] = Empty
        BY <2>4, <2>7 DEF Slots
  <2>9. ASSUME NEW x \in Items PROVE Amount(new, x) = Amount(bag, x) + InSlot(slot, x)
    <3>1. Amount(new, x) + InSlot(bag[j], x) = Amount(bag, x) + InSlot(new[j], x)
          BY <2>4, <2>6, <2>7, OneSlot
    <3>2. InSlot(bag[j], x) = 0
          BY <2>4, TradeAssumption DEF InSlot
    <3>3. Amount(new, x) \in Nat
          BY <2>6, AmountType
    <3> QED BY <2>7, <3>1, <3>2, <3>3
  <2> QED BY <2>6, <2>8, <2>9 DEF new
<1> QED BY <1>2, <1>3

\* pc_checkitem makes an inventory of an inventory, with the same in it.
LEMMA PackedFacts ==
    ASSUME NEW bag \in Bag
    PROVE  /\ Packed(bag) \in Bag
           /\ \A x \in Items : Amount(Packed(bag), x) = Amount(bag, x)
<1> DEFINE F(g, m) == [n \in 0 .. m |-> IF n = 0 THEN [k \in Slots |-> Empty]
                                        ELSE Put(g[n - 1], bag[n])]
           S == {m \in Nat : \E g : g = F(g, m)}
           f == CHOOSE g : g = F(g, MaxInventory)
<1>1. Packed(bag) = f[MaxInventory]
      BY DEF Packed, Put
<1>2. 0 \in S
  <2>1. [n \in 0 .. 0 |-> [k \in Slots |-> Empty]] = F([n \in 0 .. 0 |-> [k \in Slots |-> Empty]], 0)
        OBVIOUS
  <2> QED BY <2>1
<1>3. ASSUME NEW m \in Nat, m \in S PROVE m + 1 \in S
  <2>1. PICK g : g = F(g, m)
        BY <1>3
  <2> DEFINE h == [n \in 0 .. m + 1 |-> IF n = 0 THEN [k \in Slots |-> Empty]
                                        ELSE Put(g[n - 1], bag[n])]
  <2>2. \A n \in 0 .. m : h[n] = g[n]
        BY <2>1
  <2>3. h = F(h, m + 1)
    <3>1. \A n \in 0 .. m + 1 : n # 0 => n - 1 \in 0 .. m
          OBVIOUS
    <3> QED BY <2>2, <3>1
  <2> HIDE DEF h
  <2> QED BY <2>3
<1>4. MaxInventory \in S
  <2> HIDE DEF S
  <2> QED BY <1>2, <1>3, Induction, TradeAssumption
<1>5. f = F(f, MaxInventory)
      BY <1>4
<1> HIDE DEF f
<1>6. f[0] = [k \in Slots |-> Empty]
      BY <1>5, TradeAssumption
<1>7. ASSUME NEW n \in 0 .. MaxInventory - 1 PROVE f[n + 1] = Put(f[n], bag[n + 1])
  <2>1. n + 1 \in 0 .. MaxInventory /\ n + 1 # 0 /\ (n + 1) - 1 = n
        BY TradeAssumption
  <2> QED BY <1>5, <2>1
<1> DEFINE OK(n) == /\ f[n] \in Bag
                    /\ \A k \in Slots : k > n => f[n][k] = Empty
                    /\ \A x \in Items : Amount(f[n], x) = InFirst(bag, x)[n]
           T == {n \in Nat : n <= MaxInventory => OK(n)}
<1>8. 0 \in T
  <2>1. [k \in Slots |-> Empty] \in Bag
        BY TradeAssumption DEF Bag, Empty
  <2>2. \A x \in Items : InFirst(bag, x)[0] = 0
        BY InFirstNext
  <2>3. \A k \in Slots : f[0][k] = Empty
        BY <1>6
  <2> QED BY <1>6, <2>1, <2>2, <2>3, NothingInIt
<1>9. ASSUME NEW n \in Nat, n \in T PROVE n + 1 \in T
  <2> SUFFICES ASSUME n + 1 <= MaxInventory PROVE OK(n + 1)
      OBVIOUS
  <2> DEFINE slot == bag[n + 1]
             new == f[n + 1]
  <2>1. n \in 0 .. MaxInventory - 1 /\ n + 1 \in Slots /\ n <= MaxInventory
        BY TradeAssumption DEF Slots
  <2>2. OK(n)
        BY <1>9, <2>1
  <2>3. new = Put(f[n], slot)
        BY <1>7, <2>1
  <2>4. slot \in [item : Items \cup {NoItem}, amount : Nat]
        /\ (slot.item = NoItem <=> slot.amount = 0)
        BY <2>1 DEF Bag
  <2>5. \A x \in Items : InFirst(bag, x)[n + 1] = InFirst(bag, x)[n] + InSlot(slot, x)
        BY <2>1, InFirstNext
  <2> HIDE DEF slot, new
  <2>6. /\ new \in Bag
        /\ \A k \in Slots : k > n + 1 => new[k] = Empty
        /\ \A x \in Items : Amount(new, x) = Amount(f[n], x) + InSlot(slot, x)
        BY <2>1, <2>2, <2>3, <2>4, PutFacts
  <2>7. \A x \in Items : Amount(new, x) = InFirst(bag, x)[n + 1]
        BY <2>2, <2>5, <2>6
  <2> QED BY <2>6, <2>7 DEF new
<1>10. OK(MaxInventory)
  <2>1. Nat \subseteq T
    <3> HIDE DEF T
    <3> QED BY <1>8, <1>9, Induction
  <2> HIDE DEF OK
  <2> QED BY <2>1, TradeAssumption
<1> QED BY <1>1, <1>10 DEF Amount

-----------------------------------------------------------------------------
(* The exchange. *)

\* Offers fill the window from its first place, and no slot is offered twice.
OffersOK ==
    \A p \in Players :
        /\ \A i \in Offers : deal_item[p][i].index = 0 <=> deal_item[p][i].amount = 0
        /\ \A i, j \in Offers :
              i < j /\ deal_item[p][i].amount = 0 => deal_item[p][j].amount = 0
        /\ \A i, j \in Offers :
              deal_item[p][i].index = deal_item[p][j].index =>
                  i = j \/ deal_item[p][i].index = 0

\* r has what it offers after the first n offers, and it is what it was.
Backed(bags, r, n) ==
    \A i \in Offers :
        i > n /\ deal_item[r][i].amount # 0 =>
            LET k == deal_item[r][i].index
            IN  /\ deal_item[r][i].amount <= bags[r][k].amount
                /\ bags[r][k].item = inventory[r][k].item

\* r has given no more than its first n offers.
Owes(bags, r, n) ==
    \A x \in Items :
        Amount(inventory[r], x) <= Amount(bags[r], x)
            + Promised(inventory[r], deal_item[r], x)[n]

\* r has what it does not offer.
Keeps(bags, r) ==
    \A n \in Slots :
        (\A i \in Offers : deal_item[r][i].index # n) =>
            inventory[r][n].amount <= bags[r][n].amount

\* One offer moves from one inventory to the other or does not move, and
\* nothing else does.
LEMMA GivenFacts ==
    ASSUME TypeOK, OffersOK,
           NEW bags \in [Players -> Bag], NEW p \in Players, NEW q \in Players, p # q,
           NEW i \in Offers, NEW heavy
    PROVE  LET new == Given(bags, p, q, i, heavy)
           IN  /\ new \in [Players -> Bag]
               /\ \A r \in Players : r \notin {p, q} => new[r] = bags[r]
               /\ \A n \in Slots : bags[q][n].amount <= new[q][n].amount
               /\ \A n \in Slots : bags[q][n].amount # 0 => new[q][n].item = bags[q][n].item
               /\ \A n \in Slots : n # deal_item[p][i].index => new[p][n] = bags[p][n]
               /\ \A x \in Items :
                     LET d == deal_item[p][i]
                     IN  /\ Amount(bags[q], x) <= Amount(new[q], x)
                         /\ Amount(bags[p], x)
                              <= Amount(new[p], x)
                                  + (IF d.amount # 0 /\ bags[p][d.index].item = x
                                     THEN d.amount ELSE 0)
               /\ \A x \in Items :
                     Amount(new[p], x) + Amount(new[q], x)
                       >= Amount(bags[p], x) + Amount(bags[q], x)
               /\ (deal_item[p][i].amount # 0 =>
                      deal_item[p][i].amount <= bags[p][deal_item[p][i].index].amount) =>
                  \A x \in Items :
                     Amount(new[p], x) + Amount(new[q], x)
                       = Amount(bags[p], x) + Amount(bags[q], x)
<1> DEFINE d == deal_item[p][i]
           new == Given(bags, p, q, i, heavy)
           added == Added(bags[q], bags[p][d.index].item, d.amount)
           removed == Removed(bags[p], d.index, d.amount)
<1>1. CASE new = bags
  <2> HIDE DEF new
  <2>1. \A n \in Slots : bags[q][n].amount \in Nat
        BY DEF Bag
  <2>2. \A x \in Items : Amount(bags[p], x) \in Nat /\ Amount(bags[q], x) \in Nat
        BY AmountType
  <2>3. d.amount \in Nat
        BY DEF TypeOK
  <2> QED BY <1>1, <2>1, <2>2, <2>3 DEF new
<1>2. CASE new # bags
  <2>1. /\ d.amount # 0 /\ added # bags[q]
        /\ new = [bags EXCEPT ![q] = added, ![p] = removed]
        BY <1>2 DEF Given
  <2>2. /\ d.amount \in Nat /\ d.index \in Slots
        BY <2>1 DEF TypeOK, OffersOK
  <2>3. bags[p] \in Bag /\ bags[q] \in Bag
        /\ bags[p][d.index].item \in Items \cup {NoItem}
        BY <2>2 DEF Bag
  <2> HIDE DEF d
  <2>4. /\ added \in Bag
        /\ \A n \in Slots : bags[q][n].amount <= added[n].amount
        /\ \A n \in Slots : bags[q][n].amount # 0 => added[n].item = bags[q][n].item
        /\ \A x \in Items :
              Amount(added, x) = Amount(bags[q], x)
                 + (IF x = bags[p][d.index].item THEN d.amount ELSE 0)
    <3> DEFINE item == bags[p][d.index].item
               amount == d.amount
    <3>1. bags[q] \in Bag /\ item \in Items \cup {NoItem} /\ amount \in Nat
          /\ amount # 0 /\ added = Added(bags[q], item, amount) /\ added # bags[q]
          BY <2>1, <2>2, <2>3
    <3> HIDE DEF item, amount, added
    <3>2. /\ added \in Bag
          /\ \A n \in Slots : bags[q][n].amount <= added[n].amount
          /\ \A n \in Slots : bags[q][n].amount # 0 => added[n].item = bags[q][n].item
          /\ \A x \in Items :
                Amount(added, x) = Amount(bags[q], x) + (IF x = item THEN amount ELSE 0)
          BY <3>1, AddedFacts
    <3> QED BY <3>2 DEF item, amount
  <2>5. /\ removed \in Bag
        /\ \A n \in Slots : n # d.index => removed[n] = bags[p][n]
        /\ \A x \in Items :
              Amount(removed, x) + (IF x = bags[p][d.index].item THEN d.amount ELSE 0)
                >= Amount(bags[p], x)
        /\ d.amount <= bags[p][d.index].amount =>
              \A x \in Items :
                 Amount(removed, x) + (IF x = bags[p][d.index].item THEN d.amount ELSE 0)
                   = Amount(bags[p], x)
    <3>0. /\ bags[p][d.index].amount \in Nat
          /\ \A x \in Items : Amount(bags[p], x) \in Nat
          BY <2>2, <2>3, AmountType DEF Bag
    <3>1. CASE d.amount <= bags[p][d.index].amount
      <4>1. /\ removed \in Bag
            /\ \A n \in Slots : n # d.index => removed[n] = bags[p][n]
            /\ \A x \in Items :
                  Amount(removed, x) + (IF x = bags[p][d.index].item THEN d.amount ELSE 0)
                    = Amount(bags[p], x)
            BY <2>1, <2>2, <2>3, <3>1, RemovedFacts
      <4> HIDE DEF removed
      <4> QED BY <3>0, <4>1
    <3>2. CASE ~ (d.amount <= bags[p][d.index].amount)
      <4>1. removed = bags[p]
            BY <2>2, <3>0, <3>2 DEF Removed
      <4> HIDE DEF removed
      <4> QED BY <2>2, <2>3, <3>0, <3>2, <4>1
    <3> QED BY <3>1, <3>2
  <2> HIDE DEF added, removed, new
  <2>6. new[p] = removed /\ new[q] = added
        BY <2>1
  <2>7. ASSUME NEW x \in Items
        PROVE  /\ Amount(new[p], x) + Amount(new[q], x)
                    >= Amount(bags[p], x) + Amount(bags[q], x)
               /\ d.amount <= bags[p][d.index].amount =>
                     Amount(new[p], x) + Amount(new[q], x)
                       = Amount(bags[p], x) + Amount(bags[q], x)
               /\ Amount(bags[q], x) <= Amount(new[q], x)
               /\ Amount(bags[p], x)
                    <= Amount(new[p], x)
                        + (IF d.amount # 0 /\ bags[p][d.index].item = x
                           THEN d.amount ELSE 0)
    <3>1. Amount(removed, x) \in Nat /\ Amount(bags[p], x) \in Nat
          /\ Amount(bags[q], x) \in Nat
          BY <2>3, <2>5, AmountType
    <3> QED BY <2>1, <2>2, <2>4, <2>5, <2>6, <3>1
  <2>8. new \in [Players -> Bag]
        BY <2>1, <2>4, <2>5
  <2> QED BY <2>1, <2>4, <2>5, <2>6, <2>7, <2>8 DEF d, new
<1> QED BY <1>1, <1>2

\* The recursive definition of Rounds is one.
LEMMA RoundsNext ==
    ASSUME NEW p, NEW q, NEW heavy
    PROVE  LET after == Rounds(p, q, heavy)
           IN  /\ after[0] = inventory
               /\ \A n \in 0 .. TradeMax - 1 :
                     after[n + 1] = Given(Given(after[n], p, q, n + 1, heavy),
                                          q, p, n + 1, heavy)
<1> DEFINE Both2(bags, n) == Given(Given(bags, p, q, n, heavy), q, p, n, heavy)
           F(g, m) == [n \in 0 .. m |-> IF n = 0 THEN inventory
                                        ELSE Both2(g[n - 1], n)]
           S == {m \in Nat : \E g : g = F(g, m)}
           after == Rounds(p, q, heavy)
<1>1. after = CHOOSE g : g = F(g, TradeMax)
      BY DEF Rounds
<1> HIDE DEF Both2, after
<1>2. 0 \in S
  <2>1. [n \in 0 .. 0 |-> inventory] = F([n \in 0 .. 0 |-> inventory], 0)
        OBVIOUS
  <2> QED BY <2>1
<1>3. ASSUME NEW m \in Nat, m \in S PROVE m + 1 \in S
  <2>1. PICK g : g = F(g, m)
        BY <1>3
  <2> DEFINE h == [n \in 0 .. m + 1 |-> IF n = 0 THEN inventory ELSE Both2(g[n - 1], n)]
  <2>2. \A n \in 0 .. m : h[n] = g[n]
        BY <2>1
  <2>3. h = F(h, m + 1)
    <3>1. \A n \in 0 .. m + 1 : n # 0 => n - 1 \in 0 .. m
          OBVIOUS
    <3> QED BY <2>2, <3>1
  <2> HIDE DEF h
  <2> QED BY <2>3
<1>4. TradeMax \in S
  <2> HIDE DEF S
  <2> QED BY <1>2, <1>3, Induction, TradeAssumption
<1>5. after = F(after, TradeMax)
      BY <1>1, <1>4
<1>6. after[0] = inventory
      BY <1>5, TradeAssumption
<1>7. ASSUME NEW n \in 0 .. TradeMax - 1 PROVE after[n + 1] = Both2(after[n], n + 1)
  <2>1. n + 1 \in 0 .. TradeMax /\ n + 1 # 0 /\ (n + 1) - 1 = n
        BY TradeAssumption
  <2> QED BY <1>5, <2>1
<1> QED BY <1>6, <1>7 DEF after, Both2

\* Who is not stale has what it offers, and gives no more.
Sure(bags, r, n) == r \notin stale => Backed(bags, r, n) /\ Owes(bags, r, n)

\* What holds after the first n offers.
AfterRound(bags, p, q, n) ==
    /\ bags \in [Players -> Bag]
    /\ \A r \in Players : r \notin {p, q} => bags[r] = inventory[r]
    /\ Keeps(bags, p) /\ Keeps(bags, q)
    /\ Sure(bags, p, n) /\ Sure(bags, q, n)
    /\ \A x \in Items :
          Amount(bags[p], x) + Amount(bags[q], x)
            >= Amount(inventory[p], x) + Amount(inventory[q], x)
    /\ stale \cap {p, q} = {} =>
       \A x \in Items :
          Amount(bags[p], x) + Amount(bags[q], x)
            = Amount(inventory[p], x) + Amount(inventory[q], x)

\* Half a round: p gives its offer i.  What the two still have to offer stays
\* backed, because no slot is offered twice.
LEMMA HalfRound ==
    ASSUME TypeOK, OffersOK,
           NEW bags \in [Players -> Bag], NEW p \in Players, NEW q \in Players, p # q,
           NEW i \in Offers, NEW m \in Nat, m <= i, NEW heavy,
           Sure(bags, p, i - 1), Sure(bags, q, m), Keeps(bags, p), Keeps(bags, q),
           m <= TradeMax
    PROVE  LET new == Given(bags, p, q, i, heavy)
           IN  /\ new \in [Players -> Bag]
               /\ \A r \in Players : r \notin {p, q} => new[r] = bags[r]
               /\ Sure(new, p, i) /\ Sure(new, q, m)
               /\ Keeps(new, p) /\ Keeps(new, q)
               /\ \A x \in Items :
                     Amount(new[p], x) + Amount(new[q], x)
                       >= Amount(bags[p], x) + Amount(bags[q], x)
               /\ p \notin stale =>
                  \A x \in Items :
                     Amount(new[p], x) + Amount(new[q], x)
                       = Amount(bags[p], x) + Amount(bags[q], x)
<1> DEFINE new == Given(bags, p, q, i, heavy)
<1>0. i \in Nat /\ i > i - 1
      BY TradeAssumption DEF Offers
<1>1. p \notin stale /\ deal_item[p][i].amount # 0 =>
          deal_item[p][i].amount <= bags[p][deal_item[p][i].index].amount
      BY <1>0 DEF Sure, Backed
<1>2. /\ new \in [Players -> Bag]
      /\ \A r \in Players : r \notin {p, q} => new[r] = bags[r]
      /\ \A n \in Slots : bags[q][n].amount <= new[q][n].amount
      /\ \A n \in Slots : bags[q][n].amount # 0 => new[q][n].item = bags[q][n].item
      /\ \A n \in Slots : n # deal_item[p][i].index => new[p][n] = bags[p][n]
      /\ \A x \in Items :
            LET d == deal_item[p][i]
            IN  /\ Amount(bags[q], x) <= Amount(new[q], x)
                /\ Amount(bags[p], x)
                     <= Amount(new[p], x)
                         + (IF d.amount # 0 /\ bags[p][d.index].item = x
                            THEN d.amount ELSE 0)
      /\ \A x \in Items :
            Amount(new[p], x) + Amount(new[q], x)
              >= Amount(bags[p], x) + Amount(bags[q], x)
      /\ p \notin stale =>
         \A x \in Items :
            Amount(new[p], x) + Amount(new[q], x)
              = Amount(bags[p], x) + Amount(bags[q], x)
      BY <1>1, GivenFacts
<1> HIDE DEF new
<1>3. \A r \in Players, n \in Slots :
         /\ inventory[r][n].amount \in Nat
         /\ bags[r][n].amount \in Nat /\ new[r][n].amount \in Nat
      BY <1>2 DEF TypeOK, Bag
<1>4. \A r \in Players, j \in Offers :
         /\ deal_item[r][j].amount \in Nat
         /\ deal_item[r][j].amount # 0 => deal_item[r][j].index \in Slots
      BY DEF TypeOK, OffersOK
<1>5. ASSUME p \notin stale PROVE Backed(new, p, i)
  <2>0. Backed(bags, p, i - 1)
        BY <1>5 DEF Sure
  <2> SUFFICES ASSUME NEW j \in Offers, j > i, deal_item[p][j].amount # 0
               PROVE  /\ deal_item[p][j].amount <= new[p][deal_item[p][j].index].amount
                      /\ new[p][deal_item[p][j].index].item
                           = inventory[p][deal_item[p][j].index].item
      BY DEF Backed
  <2>1. j # i /\ j > i - 1
        BY <1>0 DEF Offers
  <2>2. deal_item[p][j].index # deal_item[p][i].index
        BY <1>4, <2>1, TradeAssumption DEF OffersOK, Slots
  <2>3. /\ deal_item[p][j].amount <= bags[p][deal_item[p][j].index].amount
        /\ bags[p][deal_item[p][j].index].item = inventory[p][deal_item[p][j].index].item
        BY <2>0, <2>1 DEF Backed
  <2> QED BY <1>2, <1>4, <2>2, <2>3
<1>6. ASSUME q \notin stale PROVE Backed(new, q, m)
  <2>0. Backed(bags, q, m)
        BY <1>6 DEF Sure
  <2> SUFFICES ASSUME NEW j \in Offers, j > m, deal_item[q][j].amount # 0
               PROVE  /\ deal_item[q][j].amount <= new[q][deal_item[q][j].index].amount
                      /\ new[q][deal_item[q][j].index].item
                           = inventory[q][deal_item[q][j].index].item
      BY DEF Backed
  <2> DEFINE n == deal_item[q][j].index
  <2>1. deal_item[q][j].amount <= bags[q][n].amount /\ bags[q][n].item = inventory[q][n].item
        BY <2>0 DEF Backed
  <2>2. n \in Slots /\ deal_item[q][j].amount \in Nat
        BY <1>4
  <2> HIDE DEF n
  <2>3. deal_item[q][j].amount <= new[q][n].amount /\ new[q][n].item = inventory[q][n].item
        BY <1>2, <1>3, <2>1, <2>2
  <2> QED BY <2>3 DEF n
<1>7. Keeps(new, p)
      BY <1>2 DEF Keeps
<1>8. Keeps(new, q)
      BY <1>2, <1>3 DEF Keeps
<1>9. \A x \in Items :
         /\ Amount(inventory[p], x) \in Nat /\ Amount(inventory[q], x) \in Nat
         /\ Amount(bags[p], x) \in Nat /\ Amount(bags[q], x) \in Nat
         /\ Amount(new[p], x) \in Nat /\ Amount(new[q], x) \in Nat
      BY <1>2, AmountType DEF TypeOK
<1>10. \A x \in Items, r \in Players :
          \A n \in 0 .. TradeMax : Promised(inventory[r], deal_item[r], x)[n] \in Nat
      BY PromisedType DEF TypeOK, OffersOK
<1>11. i - 1 \in 0 .. TradeMax - 1 /\ (i - 1) + 1 = i /\ i - 1 \in 0 .. TradeMax
       /\ i \in 0 .. TradeMax /\ m \in 0 .. TradeMax
      BY TradeAssumption DEF Offers
<1>12. ASSUME p \notin stale PROVE Owes(new, p, i)
  <2>0. Backed(bags, p, i - 1) /\ Owes(bags, p, i - 1)
        BY <1>12 DEF Sure
  <2> SUFFICES ASSUME NEW x \in Items
               PROVE  Amount(inventory[p], x) <= Amount(new[p], x)
                          + Promised(inventory[p], deal_item[p], x)[i]
      BY DEF Owes
  <2> DEFINE d == deal_item[p][i]
             w == IF d.amount = 0 THEN 0 ELSE OfOffer(inventory[p], d, x)
             v == IF d.amount # 0 /\ bags[p][d.index].item = x THEN d.amount ELSE 0
  <2>1. Promised(inventory[p], deal_item[p], x)[i]
            = Promised(inventory[p], deal_item[p], x)[i - 1] + w
        BY <1>11, PromisedNext
  <2>2. w = v /\ v \in Nat
    <3>1. d \in [index : {0} \cup Slots, amount : Nat] /\ inventory[p] \in Bag
          BY DEF TypeOK
    <3>2. d.amount # 0 =>
             /\ d.index \in Slots
             /\ bags[p][d.index].item = inventory[p][d.index].item
          BY <1>0, <1>4, <2>0 DEF Backed
    <3> HIDE DEF d
    <3>3. d = [index |-> d.index, amount |-> d.amount] /\ d.amount \in Nat
          BY <3>1
    <3>4. d.amount # 0 =>
             OfOffer(inventory[p], d, x) = IF inventory[p][d.index].item = x THEN d.amount ELSE 0
          BY <3>1, <3>2, <3>3, OfOfferIs
    <3> QED BY <3>2, <3>3, <3>4
  <2>3. Amount(bags[p], x) <= Amount(new[p], x) + v
        BY <1>2
  <2>4. Amount(inventory[p], x) <= Amount(bags[p], x)
            + Promised(inventory[p], deal_item[p], x)[i - 1]
        BY <2>0 DEF Owes
  <2> HIDE DEF d, v, w
  <2> QED BY <1>9, <1>10, <1>11, <2>1, <2>2, <2>3, <2>4
<1>13. ASSUME q \notin stale PROVE Owes(new, q, m)
  <2>0. Owes(bags, q, m)
        BY <1>13 DEF Sure
  <2> SUFFICES ASSUME NEW x \in Items
               PROVE  Amount(inventory[q], x) <= Amount(new[q], x)
                          + Promised(inventory[q], deal_item[q], x)[m]
      BY DEF Owes
  <2>1. Amount(inventory[q], x) <= Amount(bags[q], x)
            + Promised(inventory[q], deal_item[q], x)[m]
        BY <2>0 DEF Owes
  <2> QED BY <1>2, <1>9, <1>10, <1>11, <2>1
<1>14. Sure(new, p, i) /\ Sure(new, q, m)
      BY <1>5, <1>6, <1>12, <1>13 DEF Sure
<1> QED BY <1>2, <1>7, <1>8, <1>14 DEF new

\* After all rounds.
LEMMA RoundsFacts ==
    ASSUME TypeOK, OffersOK, NEW p \in Players, NEW q \in Players, p # q, NEW heavy,
           p \notin stale => Backed(inventory, p, 0),
           q \notin stale => Backed(inventory, q, 0)
    PROVE  AfterRound(Rounds(p, q, heavy)[TradeMax], p, q, TradeMax)
<1> DEFINE after == Rounds(p, q, heavy)
           S == {n \in Nat : n <= TradeMax => AfterRound(after[n], p, q, n)}
<1>1. 0 \in S
  <2>1. after[0] = inventory
        BY RoundsNext
  <2>2. inventory \in [Players -> Bag]
        BY DEF TypeOK
  <2>3. \A r \in Players, n \in Slots : inventory[r][n].amount \in Nat
        BY <2>2 DEF Bag
  <2>4. Keeps(inventory, p) /\ Keeps(inventory, q)
        BY <2>3 DEF Keeps
  <2>5. Owes(inventory, p, 0) /\ Owes(inventory, q, 0)
    <3>1. ASSUME NEW r \in Players, NEW x \in Items
          PROVE  Amount(inventory[r], x) <= Amount(inventory[r], x)
                     + Promised(inventory[r], deal_item[r], x)[0]
      <4>1. Amount(inventory[r], x) \in Nat
            /\ Promised(inventory[r], deal_item[r], x)[0] = 0
            BY <2>2, AmountType, PromisedNext
      <4> QED BY <4>1
    <3> QED BY <3>1 DEF Owes
  <2>6. Sure(inventory, p, 0) /\ Sure(inventory, q, 0)
        BY <2>5 DEF Sure
  <2>7. \A x \in Items : Amount(inventory[p], x) \in Nat /\ Amount(inventory[q], x) \in Nat
        BY <2>2, AmountType
  <2> QED BY <2>1, <2>2, <2>4, <2>6, <2>7 DEF AfterRound
<1>2. ASSUME NEW n \in Nat, n \in S PROVE n + 1 \in S
  <2> SUFFICES ASSUME n + 1 <= TradeMax PROVE AfterRound(after[n + 1], p, q, n + 1)
      OBVIOUS
  <2> DEFINE i == n + 1
             bags == after[n]
             mid == Given(bags, p, q, i, heavy)
             new == Given(mid, q, p, i, heavy)
  <2>1. n \in 0 .. TradeMax - 1 /\ i \in Offers /\ i \in Nat /\ i - 1 = n
        /\ n <= i /\ i <= i /\ i <= TradeMax /\ n <= TradeMax
        BY TradeAssumption DEF Offers
  <2>2. after[i] = new
        BY <2>1, RoundsNext
  <2>3. AfterRound(bags, p, q, n)
        BY <1>2, TradeAssumption
  <2> HIDE DEF i, bags, after
  <2>4. /\ mid \in [Players -> Bag]
        /\ \A r \in Players : r \notin {p, q} => mid[r] = bags[r]
        /\ Sure(mid, p, i) /\ Sure(mid, q, i - 1)
        /\ Keeps(mid, p) /\ Keeps(mid, q)
        /\ \A x \in Items : Amount(mid[p], x) + Amount(mid[q], x)
                              >= Amount(bags[p], x) + Amount(bags[q], x)
        /\ p \notin stale =>
           \A x \in Items : Amount(mid[p], x) + Amount(mid[q], x)
                              = Amount(bags[p], x) + Amount(bags[q], x)
        BY <2>1, <2>3, HalfRound DEF AfterRound
  <2> HIDE DEF mid
  <2>5. /\ new \in [Players -> Bag]
        /\ \A r \in Players : r \notin {p, q} => new[r] = mid[r]
        /\ Sure(new, q, i) /\ Sure(new, p, i)
        /\ Keeps(new, q) /\ Keeps(new, p)
        /\ \A x \in Items : Amount(new[q], x) + Amount(new[p], x)
                              >= Amount(mid[q], x) + Amount(mid[p], x)
        /\ q \notin stale =>
           \A x \in Items : Amount(new[q], x) + Amount(new[p], x)
                              = Amount(mid[q], x) + Amount(mid[p], x)
        BY <2>1, <2>4, HalfRound
  <2> HIDE DEF new
  <2>6. ASSUME NEW x \in Items
        PROVE  /\ Amount(new[p], x) + Amount(new[q], x)
                    >= Amount(inventory[p], x) + Amount(inventory[q], x)
               /\ stale \cap {p, q} = {} =>
                  Amount(new[p], x) + Amount(new[q], x)
                    = Amount(inventory[p], x) + Amount(inventory[q], x)
    <3>1. /\ Amount(new[p], x) \in Nat /\ Amount(new[q], x) \in Nat
          /\ Amount(mid[p], x) \in Nat /\ Amount(mid[q], x) \in Nat
          /\ Amount(bags[p], x) \in Nat /\ Amount(bags[q], x) \in Nat
          /\ Amount(inventory[p], x) \in Nat /\ Amount(inventory[q], x) \in Nat
          BY <2>3, <2>4, <2>5, AmountType DEF AfterRound, TypeOK
    <3>2. /\ Amount(bags[p], x) + Amount(bags[q], x)
               >= Amount(inventory[p], x) + Amount(inventory[q], x)
          /\ stale \cap {p, q} = {} =>
             Amount(bags[p], x) + Amount(bags[q], x)
               = Amount(inventory[p], x) + Amount(inventory[q], x)
          BY <2>3 DEF AfterRound
    <3>3. stale \cap {p, q} = {} => p \notin stale /\ q \notin stale
          OBVIOUS
    <3> QED BY <2>4, <2>5, <3>1, <3>2, <3>3
  <2>7. \A r \in Players : r \notin {p, q} => new[r] = inventory[r]
        BY <2>3, <2>4, <2>5 DEF AfterRound
  <2>8. AfterRound(new, p, q, i)
        BY <2>5, <2>6, <2>7 DEF AfterRound
  <2> QED BY <2>2, <2>8 DEF i, after
<1>3. Nat \subseteq S
  <2> HIDE DEF S
  <2> QED BY <1>1, <1>2, Induction
<1> QED BY <1>3, TradeAssumption

-----------------------------------------------------------------------------
(* The invariant. *)

\* Of the deals alone
DealInv ==
    /\ trade_partner \in [Players -> Players \cup {NoPlayer}]
    /\ deal_locked \in [Players -> 0 .. 2]
    /\ deal_item \in [Players -> [Offers -> [index : {0} \cup Slots, amount : Nat]]]
    /\ deal_zeny \in [Players -> Nat]
    /\ PartnersMutual
    /\ OffersOK

\* and of what players have
HaveInv ==
    /\ inventory \in [Players -> Bag]
    /\ zeny \in [Players -> Nat]
    /\ world \in [items : [Items -> Nat], zeny : Nat]
    /\ count \in [trades : Nat, changes : Nat]

\* Only who has locked can be stale.
StaleOK ==
    /\ stale \subseteq Players
    /\ \A r \in stale : deal_locked[r] >= 1

IInv == DealInv /\ HaveInv /\ LockedIsBacked /\ StaleOK

LEMMA InitInv == Init => IInv
<1> SUFFICES ASSUME Init PROVE IInv
    OBVIOUS
<1> USE TradeAssumption DEF Init, NoOffers, NoOffer
<1>1. DealInv
  <2>1. PartnersMutual
        BY DEF PartnersMutual, Trading
  <2>2. OffersOK
        BY DEF OffersOK
  <2>3. deal_item \in [Players -> [Offers -> [index : {0} \cup Slots, amount : Nat]]]
        OBVIOUS
  <2> QED BY <2>1, <2>2, <2>3 DEF DealInv
<1>2. HaveInv
      BY DEF HaveInv
<1>3. LockedIsBacked /\ StaleOK
      BY DEF LockedIsBacked, StaleOK
<1> QED BY <1>1, <1>2, <1>3 DEF IInv

\* Who is stale stays so as long as it is locked.
LEMMA ForgetSame ==
    ASSUME IInv, Forget, NEW r \in Players, deal_locked'[r] >= 1
    PROVE  r \in stale' <=> r \in stale
BY DEF Forget

LEMMA ForgetStale ==
    ASSUME IInv, Forget
    PROVE  StaleOK'
BY DEF IInv, StaleOK, Forget

\* What is locked stays backed as long as no locked player has less or offers
\* anything else.
LEMMA StaysBacked ==
    ASSUME IInv, Forget, DealInv', HaveInv',
           \A r \in Players :
              deal_locked'[r] >= 1 =>
                 /\ deal_locked[r] >= 1
                 /\ deal_item'[r] = deal_item[r]
                 /\ \A n \in Slots : inventory[r][n].amount <= inventory'[r][n].amount
    PROVE  LockedIsBacked'
<1> SUFFICES ASSUME NEW r \in Players, r \notin stale', deal_locked'[r] >= 1,
                    NEW i \in Offers, deal_item'[r][i].amount > 0
             PROVE  deal_item'[r][i].amount
                      <= inventory'[r][deal_item'[r][i].index].amount
    BY DEF LockedIsBacked
<1> DEFINE d == deal_item[r][i]
<1>1. deal_item'[r][i] = d /\ d.amount > 0 /\ deal_locked[r] >= 1
      OBVIOUS
<1>2. d.amount \in Nat /\ d.index \in Slots
      BY <1>1 DEF IInv, DealInv, OffersOK
<1>3. d.amount <= inventory[r][d.index].amount
  <2>1. r \notin stale
        BY ForgetSame
  <2> QED BY <1>1, <2>1 DEF IInv, LockedIsBacked
<1> HIDE DEF d
<1>4. inventory[r][d.index].amount \in Nat /\ inventory'[r][d.index].amount \in Nat
      BY <1>2 DEF IInv, HaveInv, Bag
<1> QED BY <1>1, <1>2, <1>3, <1>4

\* A step that leaves the inventories alone and locks nothing.
LEMMA OnlyDeals ==
    ASSUME IInv, Forget, DealInv', HaveInv', UNCHANGED inventory,
           \A r \in Players :
              deal_locked'[r] >= 1 => deal_locked[r] >= 1 /\ deal_item'[r] = deal_item[r]
    PROVE  IInv'
<1>1. \A r \in Players, n \in Slots : inventory[r][n].amount \in Nat
      BY DEF IInv, HaveInv, Bag
<1>2. LockedIsBacked'
      BY <1>1, StaysBacked
<1> QED BY <1>2, ForgetStale DEF IInv

LEMMA TwoChanged ==
    ASSUME NEW T, NEW f \in [Players -> T], NEW p, NEW q, NEW v \in T
    PROVE  [f EXCEPT ![p] = v, ![q] = v] \in [Players -> T]
OBVIOUS

\* Two partners part, and nobody else is disturbed.
LEMMA PartnersPart ==
    ASSUME DealInv, NEW p \in Players, NEW q \in Players,
           q # p, trade_partner[p] = q, trade_partner[q] = p,
           trade_partner' = [trade_partner EXCEPT ![p] = NoPlayer, ![q] = NoPlayer],
           deal_locked' = [deal_locked EXCEPT ![p] = 0, ![q] = 0]
    PROVE  PartnersMutual'
<1>1. \A r \in Players :
         /\ trade_partner'[r] = IF r \in {p, q} THEN NoPlayer ELSE trade_partner[r]
         /\ deal_locked'[r] = IF r \in {p, q} THEN 0 ELSE deal_locked[r]
      BY DEF DealInv
<1>2. \A r \in Players \ {p, q} :
         Trading(r) => trade_partner[r] \in Players \ {p, q} /\ trade_partner[r] # r
                       /\ trade_partner[trade_partner[r]] = r
      BY DEF DealInv, PartnersMutual, Trading
<1>3. \A r \in Players : ~Trading(r) => deal_locked[r] = 0
      BY DEF DealInv, PartnersMutual
<1>4. ASSUME NEW r \in Players
      PROVE  /\ trade_partner'[r] # NoPlayer =>
                   trade_partner'[r] # r /\ trade_partner'[trade_partner'[r]] = r
             /\ trade_partner'[r] = NoPlayer => deal_locked'[r] = 0
  <2>1. CASE r \in {p, q}
        BY <1>1, <2>1
  <2>2. CASE r \notin {p, q}
    <3>1. trade_partner'[r] = trade_partner[r] /\ deal_locked'[r] = deal_locked[r]
          BY <1>1, <2>2
    <3>2. CASE Trading(r)
      <4> DEFINE t == trade_partner[r]
      <4>1. t \in Players \ {p, q} /\ t # r /\ trade_partner[t] = r
            BY <1>2, <2>2, <3>2
      <4> HIDE DEF t
      <4>2. trade_partner'[t] = r
            BY <1>1, <4>1
      <4>3. t # NoPlayer
            BY <4>1, TradeAssumption
      <4> QED BY <3>1, <4>1, <4>2, <4>3 DEF t
    <3>3. CASE ~Trading(r)
          BY <1>3, <3>1, <3>3 DEF Trading
    <3> QED BY <3>2, <3>3
  <2> QED BY <2>1, <2>2
<1> QED BY <1>4 DEF PartnersMutual, Trading

\* trade_tradecancel ends the deal of both or of none.
LEMMA CancelDeals ==
    ASSUME DealInv, NEW p \in Players, Cancel(p)
    PROVE  /\ DealInv'
           /\ deal_locked'[p] = 0
           /\ \A r \in Players :
                 deal_locked'[r] >= 1 =>
                    deal_locked[r] >= 1 /\ deal_item'[r] = deal_item[r]
<1>1. CASE ~Trading(p)
  <2>1. UNCHANGED dealVars
        BY <1>1 DEF Cancel
  <2>2. DealInv'
        BY <2>1 DEF DealInv, PartnersMutual, Trading, OffersOK, dealVars
  <2>3. deal_locked[p] = 0
        BY <1>1 DEF DealInv, PartnersMutual
  <2> QED BY <2>1, <2>2, <2>3 DEF dealVars
<1>2. CASE Trading(p)
  <2> DEFINE q == trade_partner[p]
  <2>1. q \in Players /\ q # p /\ trade_partner[q] = p
        BY <1>2 DEF DealInv, PartnersMutual, Trading
  <2>2. /\ deal_item' = [deal_item EXCEPT ![p] = NoOffers, ![q] = NoOffers]
        /\ deal_zeny' = [deal_zeny EXCEPT ![p] = 0, ![q] = 0]
        /\ deal_locked' = [deal_locked EXCEPT ![p] = 0, ![q] = 0]
        /\ trade_partner' = [trade_partner EXCEPT ![p] = NoPlayer, ![q] = NoPlayer]
        BY <1>2 DEF Cancel, Both
  <2> HIDE DEF q
  <2>3. NoOffers \in [Offers -> [index : {0} \cup Slots, amount : Nat]]
        BY DEF NoOffers, NoOffer
  <2>4. /\ trade_partner' \in [Players -> Players \cup {NoPlayer}]
        /\ deal_locked' \in [Players -> 0 .. 2]
        /\ deal_item' \in [Players -> [Offers -> [index : {0} \cup Slots, amount : Nat]]]
        /\ deal_zeny' \in [Players -> Nat]
    <3> DEFINE Item == [Offers -> [index : {0} \cup Slots, amount : Nat]]
               Lock2 == 0 .. 2
    <3>0. deal_item \in [Players -> Item] /\ NoOffers \in Item
          /\ deal_locked \in [Players -> Lock2] /\ 0 \in Lock2
          BY <2>3 DEF DealInv
    <3> HIDE DEF Item, Lock2
    <3>1. trade_partner' \in [Players -> Players \cup {NoPlayer}]
          BY <2>2, TwoChanged DEF DealInv
    <3>2. deal_locked' \in [Players -> Lock2]
          BY <2>2, <3>0, TwoChanged
    <3>3. deal_item' \in [Players -> Item]
          BY <2>2, <3>0, TwoChanged
    <3>4. deal_zeny' \in [Players -> Nat]
          BY <2>2, TwoChanged DEF DealInv
    <3> USE DEF Item, Lock2
    <3> QED BY <3>1, <3>2, <3>3, <3>4
  <2>5. PartnersMutual'
        BY <2>1, <2>2, PartnersPart DEF q
  <2>6. OffersOK'
    <3> SUFFICES ASSUME NEW r \in Players
                 PROVE  /\ \A i \in Offers : deal_item'[r][i].index = 0
                                               <=> deal_item'[r][i].amount = 0
                        /\ \A i, j \in Offers :
                              i < j /\ deal_item'[r][i].amount = 0
                                => deal_item'[r][j].amount = 0
                        /\ \A i, j \in Offers :
                              deal_item'[r][i].index = deal_item'[r][j].index =>
                                 i = j \/ deal_item'[r][i].index = 0
        BY DEF OffersOK
    <3>1. CASE r \in {p, q}
          BY <2>1, <2>2, <3>1 DEF NoOffers, NoOffer, DealInv
    <3>2. CASE r \notin {p, q}
      <4>1. deal_item'[r] = deal_item[r]
            BY <2>2, <3>2 DEF DealInv
      <4> QED BY <4>1 DEF DealInv, OffersOK
    <3> QED BY <3>1, <3>2
  <2>7. deal_locked'[p] = 0 /\ deal_locked'[q] = 0
        BY <2>1, <2>2 DEF DealInv
  <2>8. \A r \in Players : r \notin {p, q} =>
            deal_locked'[r] = deal_locked[r] /\ deal_item'[r] = deal_item[r]
        BY <2>2 DEF DealInv
  <2>9. DealInv'
        BY <2>4, <2>5, <2>6 DEF DealInv
  <2>10. \A r \in Players : deal_locked'[r] >= 1 =>
             deal_locked[r] >= 1 /\ deal_item'[r] = deal_item[r]
    <3> SUFFICES ASSUME NEW r \in Players, deal_locked'[r] >= 1
                 PROVE  deal_locked[r] >= 1 /\ deal_item'[r] = deal_item[r]
        OBVIOUS
    <3>1. r \notin {p, q}
          BY <2>7
    <3> QED BY <2>8, <3>1
  <2> QED BY <2>7, <2>9, <2>10
<1> QED BY <1>1, <1>2

LEMMA CountType == ASSUME HaveInv, NEW what, Count(what)
                   PROVE  count' \in [trades : Nat, changes : Nat]
<1>1. count \in [trades : Nat, changes : Nat]
      BY DEF HaveInv
<1>2. count' = [count EXCEPT ![what] = @ + 1]
      BY DEF Count
<1>3. CASE what = "trades"
      BY <1>1, <1>2, <1>3
<1>4. CASE what = "changes"
      BY <1>1, <1>2, <1>4
<1>5. CASE what \notin {"trades", "changes"}
      BY <1>1, <1>2, <1>5
<1> QED BY <1>3, <1>4, <1>5

\* Deals: actions that end, begin or change one.
LEMMA CancelStep ==
    ASSUME IInv, Forget, NEW p \in Players, Cancel(p),
           UNCHANGED << inventory, zeny, world, count >>
    PROVE  IInv'
<1>1. HaveInv'
      BY DEF IInv, HaveInv
<1> QED BY <1>1, CancelDeals, OnlyDeals DEF IInv

LEMMA RequestStep ==
    ASSUME IInv, Forget, NEW p \in Players, NEW q \in Players, Request(p, q)
    PROVE  IInv'
<1>1. CASE FreeToTrade(p, q)
  <2>1. /\ p # q /\ trade_partner' = [trade_partner EXCEPT ![p] = q, ![q] = p]
        /\ UNCHANGED << deal_locked, deal_item, deal_zeny, inventory, zeny, world >>
        /\ Count("trades")
        BY <1>1 DEF Request
  <2>2. HaveInv'
        BY <2>1, CountType DEF IInv, HaveInv
  <2>3. trade_partner' \in [Players -> Players \cup {NoPlayer}]
        BY <2>1 DEF IInv, DealInv
  <2>4. PartnersMutual'
    <3>1. ~Trading(p) /\ ~Trading(q)
          BY <1>1 DEF FreeToTrade
    <3> QED BY <2>1, <3>1, TradeAssumption DEF IInv, DealInv, PartnersMutual, Trading
  <2>5. OffersOK'
        BY <2>1 DEF IInv, DealInv, OffersOK
  <2>6. DealInv'
        BY <2>1, <2>3, <2>4, <2>5 DEF IInv, DealInv
  <2> QED BY <2>1, <2>2, <2>6, OnlyDeals
<1>2. CASE ~FreeToTrade(p, q)
      BY <1>2, CancelStep DEF Request
<1> QED BY <1>1, <1>2

LEMMA RefuseStep ==
    ASSUME IInv, Forget, NEW p \in Players, Refuse(p)
    PROVE  IInv'
<1> DEFINE q == trade_partner[p]
<1>1. q \in Players /\ q # p /\ trade_partner[q] = p
      BY DEF Refuse, IInv, DealInv, PartnersMutual, Trading
<1>2. /\ deal_locked' = [deal_locked EXCEPT ![p] = 0, ![q] = 0]
      /\ trade_partner' = [trade_partner EXCEPT ![p] = NoPlayer, ![q] = NoPlayer]
      /\ UNCHANGED << deal_item, deal_zeny, inventory, zeny, world, count >>
      BY DEF Refuse, Both
<1>3. HaveInv'
      BY <1>2 DEF IInv, HaveInv
<1> HIDE DEF q
<1>4. trade_partner' \in [Players -> Players \cup {NoPlayer}]
      BY <1>2, TwoChanged DEF IInv, DealInv
<1>5. deal_locked' \in [Players -> 0 .. 2]
  <2> DEFINE T == 0 .. 2
  <2>1. deal_locked \in [Players -> T] /\ 0 \in T
        BY DEF IInv, DealInv
  <2> HIDE DEF T
  <2>2. deal_locked' \in [Players -> T]
        BY <1>2, <2>1, TwoChanged
  <2> QED BY <2>2 DEF T
<1>6. PartnersMutual'
      BY <1>1, <1>2, PartnersPart DEF IInv, q
<1>7. DealInv'
  <2>1. OffersOK'
        BY <1>2 DEF IInv, DealInv, OffersOK
  <2> QED BY <1>2, <1>4, <1>5, <1>6, <2>1 DEF IInv, DealInv
<1>8. \A r \in Players :
         deal_locked'[r] >= 1 => deal_locked[r] >= 1 /\ deal_item'[r] = deal_item[r]
  <2> SUFFICES ASSUME NEW r \in Players, deal_locked'[r] >= 1
               PROVE  deal_locked[r] >= 1 /\ deal_item'[r] = deal_item[r]
      OBVIOUS
  <2>1. r \notin {p, q}
        BY <1>1, <1>2 DEF IInv, DealInv
  <2> QED BY <1>2, <2>1 DEF IInv, DealInv
<1> QED BY <1>2, <1>3, <1>7, <1>8, OnlyDeals

LEMMA OfferItemStep ==
    ASSUME IInv, Forget, NEW p \in Players, NEW n \in Slots, NEW amount, OfferItem(p, n, amount)
    PROVE  IInv'
<1> DEFINE free == {i \in Offers : deal_item[p][i].amount = 0}
           k == Min(free)
<1>1. CASE Redealt(p, k, n)
  <2>1. Cancel(p) /\ UNCHANGED << inventory, zeny, world, count >>
        BY <1>1 DEF OfferItem
  <2> QED BY <2>1, CancelStep
<1>2. CASE ~Redealt(p, k, n)
  <2> DEFINE offer == [index |-> n, amount |-> amount]
  <2>1. /\ deal_item' = [deal_item EXCEPT ![p][k] = offer]
        /\ UNCHANGED << trade_partner, deal_locked, deal_zeny, inventory, zeny, world, count >>
        /\ deal_locked[p] < 1 /\ free # {} /\ amount \in Nat /\ amount # 0
        BY <1>2 DEF OfferItem, MayOffer
  <2>2. k \in Offers /\ deal_item[p][k].amount = 0 /\ \A j \in free : k <= j
    <3>1. free \subseteq Nat
          BY DEF Offers
    <3> QED BY <2>1, <3>1, MinOf
  <2> HIDE DEF k
  <2>3. deal_item' = [deal_item EXCEPT ![p] = [deal_item[p] EXCEPT ![k] = offer]]
        BY <2>1 DEF IInv, DealInv
  <2>4. \A r \in Players : r # p => deal_item'[r] = deal_item[r]
        BY <2>3 DEF IInv, DealInv
  <2>5. /\ deal_item'[p][k] = offer
        /\ \A i \in Offers : i # k => deal_item'[p][i] = deal_item[p][i]
        BY <2>2, <2>3 DEF IInv, DealInv
  <2>6. \A i \in Offers : i # k /\ deal_item[p][i].index = n => FALSE
    <3> SUFFICES ASSUME NEW i \in Offers, i # k, deal_item[p][i].index = n PROVE FALSE
        OBVIOUS
    <3>1. n # 0 /\ i \in Nat /\ k \in Nat
          BY <2>2 DEF Slots, Offers
    <3>2. deal_item[p][i].amount # 0
          BY <3>1 DEF IInv, DealInv, OffersOK
    <3>3. ~ (k < i)
          BY <2>2, <3>2 DEF IInv, DealInv, OffersOK
    <3>4. i \in 1 .. k - 1
          BY <3>1, <3>3 DEF Offers
    <3> QED BY <1>2, <3>4 DEF Redealt
  <2>7. OffersOK'
    <3> SUFFICES ASSUME NEW r \in Players
                 PROVE  /\ \A i \in Offers : deal_item'[r][i].index = 0
                                               <=> deal_item'[r][i].amount = 0
                        /\ \A i, j \in Offers :
                              i < j /\ deal_item'[r][i].amount = 0
                                => deal_item'[r][j].amount = 0
                        /\ \A i, j \in Offers :
                              deal_item'[r][i].index = deal_item'[r][j].index =>
                                 i = j \/ deal_item'[r][i].index = 0
        BY DEF OffersOK
    <3>1. CASE r # p
          BY <2>4, <3>1 DEF IInv, DealInv, OffersOK
    <3>2. CASE r = p
      <4>1. n # 0 /\ offer.index = n /\ offer.amount = amount
            BY DEF Slots
      <4>2. \A i \in Offers : deal_item'[p][i].index = 0 <=> deal_item'[p][i].amount = 0
            BY <2>1, <2>5, <4>1 DEF IInv, DealInv, OffersOK
      <4>3. ASSUME NEW i \in Offers, NEW j \in Offers, i < j, deal_item'[p][i].amount = 0
            PROVE  deal_item'[p][j].amount = 0
        <5>1. i # k /\ deal_item[p][i].amount = 0
              BY <2>1, <2>5, <4>1, <4>3
        <5>2. k <= i
              BY <2>2, <5>1
        <5>3. j # k
              BY <2>2, <4>3, <5>2 DEF Offers
        <5> QED BY <2>5, <4>3, <5>1, <5>3 DEF IInv, DealInv, OffersOK
      <4>4. \A i, j \in Offers :
               deal_item'[p][i].index = deal_item'[p][j].index =>
                  i = j \/ deal_item'[p][i].index = 0
        <5> SUFFICES ASSUME NEW i \in Offers, NEW j \in Offers, i # j,
                            deal_item'[p][i].index = deal_item'[p][j].index
                     PROVE  deal_item'[p][i].index = 0
            OBVIOUS
        <5>1. CASE i = k
              BY <2>5, <2>6, <4>1, <5>1
        <5>2. CASE j = k
              BY <2>5, <2>6, <4>1, <5>2
        <5>3. CASE i # k /\ j # k
              BY <2>5, <5>3 DEF IInv, DealInv, OffersOK
        <5> QED BY <5>1, <5>2, <5>3
      <4> QED BY <3>2, <4>2, <4>3, <4>4
    <3> QED BY <3>1, <3>2
  <2>8. deal_item' \in [Players -> [Offers -> [index : {0} \cup Slots, amount : Nat]]]
    <3> DEFINE T == [index : {0} \cup Slots, amount : Nat]
    <3>1. offer \in T /\ deal_item \in [Players -> [Offers -> T]]
          BY <2>1 DEF IInv, DealInv
    <3> HIDE DEF T, offer
    <3>2. deal_item' \in [Players -> [Offers -> T]]
          BY <2>3, <3>1
    <3> QED BY <3>2 DEF T
  <2>9. DealInv'
        BY <2>1, <2>7, <2>8 DEF IInv, DealInv, PartnersMutual, Trading
  <2>10. HaveInv'
        BY <2>1 DEF IInv, HaveInv
  <2>11. \A r \in Players :
            deal_locked'[r] >= 1 => deal_locked[r] >= 1 /\ deal_item'[r] = deal_item[r]
    <3> SUFFICES ASSUME NEW r \in Players, deal_locked'[r] >= 1
                 PROVE  deal_locked[r] >= 1 /\ deal_item'[r] = deal_item[r]
        OBVIOUS
    <3>1. deal_locked' = deal_locked /\ deal_locked[p] \in 0 .. 2 /\ ~ (deal_locked[p] >= 1)
          BY <2>1 DEF IInv, DealInv
    <3>2. r # p
          BY <3>1
    <3> QED BY <2>4, <3>1, <3>2
  <2> QED BY <2>1, <2>9, <2>10, <2>11, OnlyDeals
<1> QED BY <1>1, <1>2

LEMMA OfferZenyStep ==
    ASSUME IInv, Forget, NEW p \in Players, NEW amount, OfferZeny(p, amount)
    PROVE  IInv'
<1>1. deal_zeny' = [deal_zeny EXCEPT ![p] = amount] /\ amount \in Nat
      /\ UNCHANGED << trade_partner, deal_locked, deal_item, inventory, zeny, world, count >>
      BY DEF OfferZeny
<1>2. HaveInv'
      BY <1>1 DEF IInv, HaveInv
<1>3. PartnersMutual' /\ OffersOK'
      BY <1>1 DEF IInv, DealInv, PartnersMutual, Trading, OffersOK
<1>4. DealInv'
      BY <1>1, <1>3 DEF IInv, DealInv
<1> QED BY <1>1, <1>2, <1>4, OnlyDeals

LEMMA LockStep ==
    ASSUME IInv, Forget, NEW p \in Players, Lock(p)
    PROVE  IInv'
<1>1. CASE Overdrawn(p)
      BY <1>1, CancelStep DEF Lock
<1>2. CASE ~Overdrawn(p)
  <2>1. /\ Trading(p) /\ deal_locked' = [deal_locked EXCEPT ![p] = 1]
        /\ UNCHANGED << trade_partner, deal_item, deal_zeny, inventory, zeny, world, count >>
        BY <1>2 DEF Lock
  <2>2. deal_locked' \in [Players -> 0 .. 2]
        BY <2>1 DEF IInv, DealInv
  <2>3. OffersOK'
        BY <2>1 DEF IInv, DealInv, OffersOK
  <2>4. PartnersMutual'
        BY <2>1 DEF IInv, DealInv, PartnersMutual, Trading
  <2>5. DealInv'
        BY <2>1, <2>2, <2>3, <2>4 DEF IInv, DealInv
  <2>6. HaveInv'
        BY <2>1 DEF IInv, HaveInv
  <2>7. LockedIsBacked'
    <3> SUFFICES ASSUME NEW r \in Players, r \notin stale', deal_locked'[r] >= 1,
                        NEW i \in Offers, deal_item[r][i].amount > 0
                 PROVE  deal_item[r][i].amount
                          <= inventory[r][deal_item[r][i].index].amount
        BY <2>1 DEF LockedIsBacked
    <3>1. CASE r # p
          BY <2>1, <3>1, ForgetSame DEF IInv, DealInv, LockedIsBacked
    <3>2. CASE r = p
      <4>1. deal_item[p][i].amount \in Nat /\ deal_item[p][i].index \in Slots
            BY <3>2 DEF IInv, DealInv, OffersOK
      <4>2. inventory[p][deal_item[p][i].index].amount \in Nat
            BY <4>1 DEF IInv, HaveInv, Bag
      <4>3. ~ (deal_item[p][i].amount > inventory[p][deal_item[p][i].index].amount)
            BY <1>2, <4>1 DEF Overdrawn, Slots
      <4> QED BY <3>2, <4>1, <4>2, <4>3
    <3> QED BY <3>1, <3>2
  <2> QED BY <2>5, <2>6, <2>7, ForgetStale DEF IInv
<1> QED BY <1>1, <1>2

\* What a commit that goes through does to items and money: the facts that
\* both the invariant and the theorems about trades need.
LEMMA CommitFacts ==
    ASSUME IInv, NEW p \in Players, Commit(p), UNCHANGED << inventory, zeny >> => FALSE
    PROVE  LET q == trade_partner[p]
           IN  /\ q \in Players /\ q # p /\ trade_partner[q] = p
               /\ Cancel(p) /\ UNCHANGED << world, count >>
               /\ deal_locked[p] >= 1 /\ deal_locked[q] = 2
               /\ AfterRound(inventory', p, q, TradeMax)
               /\ zeny' \in [Players -> Nat]
               /\ zeny'[p] = (zeny[p] - deal_zeny[p]) + deal_zeny[q]
               /\ zeny'[q] = (zeny[q] - deal_zeny[q]) + deal_zeny[p]
               /\ \A r \in Players : r \notin {p, q} => zeny'[r] = zeny[r]
<1> DEFINE q == trade_partner[p]
<1>1. q \in Players /\ q # p /\ trade_partner[q] = p
      BY DEF Commit, IInv, DealInv, PartnersMutual, Trading
<1>2. /\ Cancel(p) /\ UNCHANGED << world, count >>
      /\ deal_locked[p] >= 1 /\ deal_locked[q] = 2
      /\ CanPay(p) /\ CanPay(q)
      BY DEF Commit, PartnerCommitted
<1>3. PICK heavy : inventory' = Rounds(p, q, heavy)[TradeMax]
      BY DEF Commit, PartnerCommitted
<1>4. zeny' = [zeny EXCEPT ![p] = @ - deal_zeny[p] + deal_zeny[q],
                           ![q] = @ - deal_zeny[q] + deal_zeny[p]]
      BY DEF Commit, PartnerCommitted
<1> HIDE DEF q
<1>5. AfterRound(inventory', p, q, TradeMax)
  <2>1. /\ p \notin stale => Backed(inventory, p, 0)
        /\ q \notin stale => Backed(inventory, q, 0)
    <3>1. \A r \in Players, i \in Offers :
             deal_item[r][i].amount # 0 => deal_item[r][i].amount > 0
          BY DEF IInv, DealInv
    <3> QED BY <1>1, <1>2, <3>1 DEF IInv, LockedIsBacked, Backed
  <2>2. TypeOK /\ OffersOK
        BY DEF IInv, DealInv, HaveInv, StaleOK, TypeOK
  <2> QED BY <1>1, <1>3, <2>1, <2>2, RoundsFacts
<1>6. /\ zeny[p] \in Nat /\ zeny[q] \in Nat
      /\ deal_zeny[p] \in Nat /\ deal_zeny[q] \in Nat
      /\ deal_zeny[p] <= zeny[p] /\ deal_zeny[q] <= zeny[q]
      BY <1>1, <1>2 DEF IInv, DealInv, HaveInv, CanPay
<1>7. /\ zeny'[p] = (zeny[p] - deal_zeny[p]) + deal_zeny[q]
      /\ zeny'[q] = (zeny[q] - deal_zeny[q]) + deal_zeny[p]
      /\ \A r \in Players : r \notin {p, q} => zeny'[r] = zeny[r]
      BY <1>1, <1>4 DEF IInv, HaveInv
<1>8. zeny' \in [Players -> Nat]
  <2>1. (zeny[p] - deal_zeny[p]) + deal_zeny[q] \in Nat
        /\ (zeny[q] - deal_zeny[q]) + deal_zeny[p] \in Nat
        BY <1>6
  <2> QED BY <1>1, <1>4, <2>1 DEF IInv, HaveInv
<1> QED BY <1>1, <1>2, <1>5, <1>7, <1>8 DEF q

LEMMA CommitStep ==
    ASSUME IInv, Forget, NEW p \in Players, Commit(p)
    PROVE  IInv'
<1> DEFINE q == trade_partner[p]
<1>1. CASE ~PartnerCommitted(q)
  <2>1. /\ deal_locked[p] >= 1 /\ deal_locked' = [deal_locked EXCEPT ![p] = 2]
        /\ UNCHANGED << trade_partner, deal_item, deal_zeny, inventory, zeny, world, count >>
        /\ Trading(p)
        BY <1>1 DEF Commit
  <2>2. deal_locked' \in [Players -> 0 .. 2]
        BY <2>1 DEF IInv, DealInv
  <2>3. OffersOK' /\ PartnersMutual'
        BY <2>1 DEF IInv, DealInv, OffersOK, PartnersMutual, Trading
  <2>4. DealInv'
        BY <2>1, <2>2, <2>3 DEF IInv, DealInv
  <2>5. HaveInv'
        BY <2>1 DEF IInv, HaveInv
  <2>6. \A r \in Players :
           deal_locked'[r] >= 1 => deal_locked[r] >= 1 /\ deal_item'[r] = deal_item[r]
        BY <2>1 DEF IInv, DealInv
  <2> QED BY <2>1, <2>4, <2>5, <2>6, OnlyDeals
<1>2. CASE PartnerCommitted(q) /\ UNCHANGED << inventory, zeny >>
      BY <1>2, CancelStep DEF Commit
<1>3. CASE PartnerCommitted(q) /\ ~UNCHANGED << inventory, zeny >>
  <2>1. /\ q \in Players /\ trade_partner[q] = p
        /\ Cancel(p) /\ UNCHANGED << world, count >>
        /\ AfterRound(inventory', p, q, TradeMax)
        /\ zeny' \in [Players -> Nat]
        BY <1>3, CommitFacts
  <2>2. /\ DealInv' /\ deal_locked'[p] = 0
        /\ \A r \in Players :
              deal_locked'[r] >= 1 => deal_locked[r] >= 1 /\ deal_item'[r] = deal_item[r]
        BY <2>1, CancelDeals DEF IInv
  <2>3. deal_locked'[q] = 0
        BY <2>1 DEF Commit, Cancel, Both, IInv, DealInv
  <2>4. HaveInv'
        BY <2>1 DEF IInv, HaveInv, AfterRound
  <2>5. \A r \in Players, n \in Slots : inventory[r][n].amount \in Nat
        BY DEF IInv, HaveInv, Bag
  <2> HIDE DEF q
  <2>6. ASSUME NEW r \in Players, deal_locked'[r] >= 1
        PROVE  \A n \in Slots : inventory[r][n].amount <= inventory'[r][n].amount
    <3>1. r \notin {p, q}
          BY <2>2, <2>3, <2>6
    <3> QED BY <2>1, <2>5, <3>1 DEF AfterRound
  <2>7. LockedIsBacked'
        BY <2>2, <2>4, <2>6, StaysBacked
  <2> QED BY <2>2, <2>4, <2>7, ForgetStale DEF IInv
<1> QED BY <1>1, <1>2, <1>3

LEMMA QuitStep ==
    ASSUME IInv, Forget, NEW p \in Players, Quit(p)
    PROVE  IInv'
<1> DEFINE new == Packed(inventory[p])
<1>1. /\ inventory' = [inventory EXCEPT ![p] = new]
      /\ UNCHANGED << zeny, world, count >>
      BY DEF Quit
<1>2. new \in Bag
      BY PackedFacts DEF IInv, HaveInv
<1> HIDE DEF new
<1>3. HaveInv'
      BY <1>1, <1>2 DEF IInv, HaveInv
<1>4. /\ DealInv' /\ deal_locked'[p] = 0
      /\ \A r \in Players :
            deal_locked'[r] >= 1 => deal_locked[r] >= 1 /\ deal_item'[r] = deal_item[r]
  <2>1. CASE Trading(p)
    <3>1. Cancel(p)
          BY <2>1 DEF Quit, Cancel
    <3> QED BY <3>1, CancelDeals DEF IInv
  <2>2. CASE ~Trading(p)
    <3>1. /\ deal_zeny' = [deal_zeny EXCEPT ![p] = 0]
          /\ deal_item' = [deal_item EXCEPT ![p] = NoOffers]
          /\ UNCHANGED << trade_partner, deal_locked >>
          BY <2>2 DEF Quit
    <3>2. deal_item' \in [Players -> [Offers -> [index : {0} \cup Slots, amount : Nat]]]
      <4> DEFINE T == [Offers -> [index : {0} \cup Slots, amount : Nat]]
      <4>1. deal_item \in [Players -> T] /\ NoOffers \in T
            BY DEF IInv, DealInv, NoOffers, NoOffer
      <4> HIDE DEF T
      <4>2. deal_item' \in [Players -> T]
            BY <3>1, <4>1
      <4> QED BY <4>2 DEF T
    <3>3. OffersOK'
      <4> SUFFICES ASSUME NEW r \in Players
                   PROVE  /\ \A i \in Offers : deal_item'[r][i].index = 0
                                                 <=> deal_item'[r][i].amount = 0
                          /\ \A i, j \in Offers :
                                i < j /\ deal_item'[r][i].amount = 0
                                  => deal_item'[r][j].amount = 0
                          /\ \A i, j \in Offers :
                                deal_item'[r][i].index = deal_item'[r][j].index =>
                                   i = j \/ deal_item'[r][i].index = 0
          BY DEF OffersOK
      <4>1. CASE r = p
            BY <3>1, <4>1 DEF NoOffers, NoOffer, IInv, DealInv
      <4>2. CASE r # p
        <5>1. deal_item'[r] = deal_item[r]
              BY <3>1, <4>2 DEF IInv, DealInv
        <5> QED BY <5>1 DEF IInv, DealInv, OffersOK
      <4> QED BY <4>1, <4>2
    <3>4. PartnersMutual'
          BY <3>1 DEF IInv, DealInv, PartnersMutual, Trading
    <3>5. DealInv'
          BY <3>1, <3>2, <3>3, <3>4 DEF IInv, DealInv
    <3>6. deal_locked[p] = 0
          BY <2>2 DEF IInv, DealInv, PartnersMutual
    <3>7. \A r \in Players :
             deal_locked'[r] >= 1 => deal_locked[r] >= 1 /\ deal_item'[r] = deal_item[r]
      <4>1. \A r \in Players : deal_locked'[r] >= 1 => r # p
            BY <3>1, <3>6
      <4> QED BY <3>1, <4>1 DEF IInv, DealInv
    <3> QED BY <3>1, <3>5, <3>6, <3>7
  <2> QED BY <2>1, <2>2
<1>5. ASSUME NEW r \in Players, deal_locked'[r] >= 1
      PROVE  \A k \in Slots : inventory[r][k].amount <= inventory'[r][k].amount
  <2>1. r # p
        BY <1>4, <1>5
  <2>2. inventory'[r] = inventory[r]
        BY <1>1, <2>1 DEF IInv, HaveInv
  <2>3. \A k \in Slots : inventory[r][k].amount \in Nat
        BY DEF IInv, HaveInv, Bag
  <2> QED BY <2>2, <2>3
<1>6. LockedIsBacked'
      BY <1>3, <1>4, <1>5, StaysBacked
<1> QED BY <1>3, <1>4, <1>6, ForgetStale DEF IInv

\* pc_checkitem: whose locked offers are not where they were is stale.
LEMMA CheckItemStep ==
    ASSUME IInv, NEW p \in Players, CheckItem(p)
    PROVE  IInv'
<1> DEFINE new == Packed(inventory[p])
<1>1. /\ inventory' = [inventory EXCEPT ![p] = new]
      /\ UNCHANGED << zeny, trade_partner, deal_locked, deal_item, deal_zeny, world, count >>
      /\ stale' = IF deal_locked[p] >= 1 /\ Moved(p) THEN stale \cup {p} ELSE stale
      BY DEF CheckItem, dealVars
<1>2. new \in Bag
      BY PackedFacts DEF IInv, HaveInv
<1>3. HaveInv'
      BY <1>1, <1>2 DEF IInv, HaveInv
<1>4. DealInv'
      BY <1>1 DEF IInv, DealInv, PartnersMutual, Trading, OffersOK
<1>5. StaleOK'
      BY <1>1 DEF IInv, StaleOK
<1>6. LockedIsBacked'
  <2> SUFFICES ASSUME NEW r \in Players, r \notin stale', deal_locked[r] >= 1,
                      NEW i \in Offers, deal_item[r][i].amount > 0
               PROVE  deal_item[r][i].amount
                        <= inventory'[r][deal_item[r][i].index].amount
      BY <1>1 DEF LockedIsBacked
  <2>1. /\ r \notin stale
        /\ deal_item[r][i].amount <= inventory[r][deal_item[r][i].index].amount
        BY <1>1 DEF IInv, LockedIsBacked
  <2>2. CASE r # p
        BY <1>1, <2>1, <2>2 DEF IInv, HaveInv
  <2>3. CASE r = p
    <3>1. ~Moved(p)
          BY <1>1, <2>3
    <3>2. deal_item[p][i].amount # 0
          BY <2>3 DEF IInv, DealInv
    <3>3. new[deal_item[p][i].index] = inventory[p][deal_item[p][i].index]
          BY <3>1, <3>2 DEF Moved
    <3> HIDE DEF new
    <3> QED BY <1>1, <2>1, <2>3, <3>3 DEF IInv, HaveInv
  <2> QED BY <2>2, <2>3
<1> QED BY <1>3, <1>4, <1>5, <1>6 DEF IInv

\* Everything else that players gain and lose.
LEMMA LoseStep ==
    ASSUME IInv, Forget, NEW p \in Players, NEW n \in Slots, NEW amount, Lose(p, n, amount)
    PROVE  IInv'
<1> DEFINE item == inventory[p][n].item
           bag == inventory[p]
<1>1. /\ amount \in Nat /\ amount # 0 /\ bag \in Bag
      /\ bag[n].amount \in Nat /\ amount <= bag[n].amount
      /\ item \in Items
      BY DEF Lose, IInv, HaveInv, Bag
<1>2. /\ Cancel(p) /\ Count("changes") /\ zeny' = zeny
      /\ inventory' = [inventory EXCEPT ![p] = Removed(bag, n, amount)]
      /\ world' = [world EXCEPT !.items[item] = @ + amount]
      BY DEF Lose, Interrupt
<1> HIDE DEF item
<1>3. Removed(bag, n, amount) \in Bag
      BY <1>1, RemovedFacts
<1>4. inventory' \in [Players -> Bag]
      BY <1>2, <1>3 DEF IInv, HaveInv
<1>5. world' \in [items : [Items -> Nat], zeny : Nat]
      BY <1>1, <1>2 DEF IInv, HaveInv
<1>6. HaveInv'
      BY <1>2, <1>4, <1>5, CountType DEF IInv, HaveInv
<1>7. /\ DealInv' /\ deal_locked'[p] = 0
      /\ \A r \in Players :
            deal_locked'[r] >= 1 => deal_locked[r] >= 1 /\ deal_item'[r] = deal_item[r]
      BY <1>2, CancelDeals DEF IInv
<1>8. ASSUME NEW r \in Players, deal_locked'[r] >= 1
      PROVE  \A k \in Slots : inventory[r][k].amount <= inventory'[r][k].amount
  <2>1. r # p
        BY <1>7, <1>8
  <2>2. inventory'[r] = inventory[r]
        BY <1>2, <2>1 DEF IInv, HaveInv
  <2>3. \A k \in Slots : inventory[r][k].amount \in Nat
        BY DEF IInv, HaveInv, Bag
  <2> QED BY <2>2, <2>3
<1>9. LockedIsBacked'
      BY <1>6, <1>7, <1>8, StaysBacked
<1> QED BY <1>6, <1>7, <1>9, ForgetStale DEF IInv

LEMMA GainStep ==
    ASSUME IInv, Forget, NEW p \in Players, NEW item \in Items, NEW amount, Gain(p, item, amount)
    PROVE  IInv'
<1> DEFINE bag == inventory[p]
           new == Added(bag, item, amount)
<1>1. /\ amount \in Nat /\ amount # 0 /\ bag \in Bag
      /\ world.items[item] \in Nat /\ amount <= world.items[item]
      BY DEF Gain, IInv, HaveInv
<1>2. /\ Count("changes") /\ zeny' = zeny /\ UNCHANGED dealVars
      /\ inventory' = [inventory EXCEPT ![p] = new]
      /\ world' = [world EXCEPT !.items[item] = @ - amount]
      BY DEF Gain
<1>3. new \in Bag /\ \A n \in Slots : bag[n].amount <= new[n].amount
  <2>1. item \in Items \cup {NoItem}
        OBVIOUS
  <2> HIDE DEF bag
  <2> QED BY <1>1, <2>1, AddedFacts
<1> HIDE DEF new
<1>4. inventory' \in [Players -> Bag]
      BY <1>2, <1>3 DEF IInv, HaveInv
<1>5. world' \in [items : [Items -> Nat], zeny : Nat]
  <2>1. world.items[item] - amount \in Nat
        BY <1>1
  <2> QED BY <1>2, <2>1 DEF IInv, HaveInv
<1>6. HaveInv'
      BY <1>2, <1>4, <1>5, CountType DEF IInv, HaveInv
<1>7. DealInv'
      BY <1>2 DEF dealVars, IInv, DealInv, PartnersMutual, Trading, OffersOK
<1>8. ASSUME NEW r \in Players
      PROVE  \A k \in Slots : inventory[r][k].amount <= inventory'[r][k].amount
  <2>1. \A k \in Slots : inventory[r][k].amount \in Nat
        BY DEF IInv, HaveInv, Bag
  <2> QED BY <1>2, <1>3, <2>1 DEF IInv, HaveInv
<1>9. LockedIsBacked'
      BY <1>2, <1>6, <1>7, <1>8, StaysBacked DEF dealVars
<1> QED BY <1>6, <1>7, <1>9, ForgetStale DEF IInv

\* trade_verifyzeny.
LEMMA VerifyDeals ==
    ASSUME IInv, NEW p \in Players, NEW left \in Nat, VerifyZeny(p, left)
    PROVE  /\ DealInv'
           /\ \A r \in Players :
                 deal_locked'[r] >= 1 => deal_locked[r] >= 1 /\ deal_item'[r] = deal_item[r]
<1>1. CASE UNCHANGED dealVars
      BY <1>1 DEF dealVars, IInv, DealInv, PartnersMutual, Trading, OffersOK
<1>2. CASE Cancel(p)
      BY <1>2, CancelDeals DEF IInv
<1>3. CASE /\ deal_zeny' = IF left = 0 THEN deal_zeny ELSE [deal_zeny EXCEPT ![p] = left]
           /\ UNCHANGED << trade_partner, deal_locked, deal_item >>
  <2>1. deal_zeny' \in [Players -> Nat]
        BY <1>3 DEF IInv, DealInv
  <2>2. PartnersMutual' /\ OffersOK'
        BY <1>3 DEF IInv, DealInv, PartnersMutual, Trading, OffersOK
  <2> QED BY <1>3, <2>1, <2>2 DEF IInv, DealInv
<1> QED BY <1>1, <1>2, <1>3 DEF VerifyZeny

LEMMA PayStep ==
    ASSUME IInv, Forget, NEW p \in Players, NEW amount, Pay(p, amount)
    PROVE  IInv'
<1> DEFINE left == zeny[p] - amount
<1>1. amount \in Nat /\ left \in Nat
      BY DEF Pay, IInv, HaveInv
<1>2. /\ Count("changes") /\ VerifyZeny(p, left) /\ inventory' = inventory
      /\ zeny' = [zeny EXCEPT ![p] = left]
      /\ world' = [world EXCEPT !.zeny = @ + amount]
      BY DEF Pay
<1> HIDE DEF left
<1>3. HaveInv'
      BY <1>1, <1>2, CountType DEF IInv, HaveInv
<1> QED BY <1>1, <1>2, <1>3, VerifyDeals, OnlyDeals

LEMMA EarnStep ==
    ASSUME IInv, Forget, NEW p \in Players, NEW amount, Earn(p, amount)
    PROVE  IInv'
<1> DEFINE new == IF zeny[p] + amount > MaxZeny THEN MaxZeny ELSE zeny[p] + amount
<1>1. /\ amount \in Nat /\ amount <= world.zeny
      /\ zeny[p] \in Nat /\ world.zeny \in Nat
      BY DEF Earn, IInv, HaveInv
<1>2. new \in Nat /\ (world.zeny + zeny[p]) - new \in Nat
      BY <1>1, TradeAssumption
<1>3. /\ Count("changes") /\ VerifyZeny(p, new) /\ inventory' = inventory
      /\ zeny' = [zeny EXCEPT ![p] = new]
      /\ world' = [world EXCEPT !.zeny = (@ + zeny[p]) - new]
      BY DEF Earn
<1> HIDE DEF new
<1>4. HaveInv'
      BY <1>2, <1>3, CountType DEF IInv, HaveInv
<1> QED BY <1>2, <1>3, <1>4, VerifyDeals, OnlyDeals

LEMMA NextInv == IInv /\ [Next]_vars => IInv'
<1> SUFFICES ASSUME IInv, [Next]_vars PROVE IInv'
    OBVIOUS
<1>1. CASE UNCHANGED vars
      BY <1>1 DEF vars, dealVars, IInv, DealInv, HaveInv, LockedIsBacked, StaleOK,
                  PartnersMutual, Trading, OffersOK
<1>2. ASSUME NEW p \in Players, Step(p), Forget PROVE IInv'
  <2>0. \/ \E q \in Players : Request(p, q)
        \/ Refuse(p)
        \/ \E n \in Slots : \E amount \in 1 .. inventory[p][n].amount :
              \/ OfferItem(p, n, amount)
              \/ Lose(p, n, amount)
        \/ \E amount \in 1 .. zeny[p] :
              \/ OfferZeny(p, amount)
              \/ Pay(p, amount)
        \/ Lock(p)
        \/ Commit(p)
        \/ CancelTrade(p)
        \/ Quit(p)
        \/ \E item \in Items : \E amount \in 1 .. world.items[item] :
              Gain(p, item, amount)
        \/ \E amount \in 1 .. world.zeny : Earn(p, amount)
      BY <1>2 DEF Step
  <2>1. CASE \E q \in Players : Request(p, q)
        BY <2>1, <1>2, RequestStep
  <2>2. CASE Refuse(p)
        BY <2>2, <1>2, RefuseStep
  <2>3. CASE \E n \in Slots : \E amount \in 1 .. inventory[p][n].amount :
                OfferItem(p, n, amount) \/ Lose(p, n, amount)
        BY <2>3, <1>2, OfferItemStep, LoseStep
  <2>4. CASE \E amount \in 1 .. zeny[p] : OfferZeny(p, amount) \/ Pay(p, amount)
        BY <2>4, <1>2, OfferZenyStep, PayStep
  <2>5. CASE Lock(p)
        BY <2>5, <1>2, LockStep
  <2>6. CASE Commit(p)
        BY <2>6, <1>2, CommitStep
  <2>7. CASE CancelTrade(p)
        BY <2>7, <1>2, CancelStep DEF CancelTrade
  <2>8. CASE Quit(p)
        BY <2>8, <1>2, QuitStep
  <2>9. CASE \E item \in Items : \E amount \in 1 .. world.items[item] :
                Gain(p, item, amount)
        BY <2>9, <1>2, GainStep
  <2>10. CASE \E amount \in 1 .. world.zeny : Earn(p, amount)
        BY <2>10, <1>2, EarnStep
  <2> QED BY <2>0, <2>1, <2>2, <2>3, <2>4, <2>5, <2>6, <2>7, <2>8, <2>9, <2>10
<1> QED BY <1>1, <1>2, CheckItemStep DEF Next

-----------------------------------------------------------------------------
(* Trades are an exchange: every step of Trade is one of Exchange or none. *)

DealOf(p) ==
    [with |-> trade_partner[p], money |-> deal_zeny[p], goods |-> Locked(p),
     final |-> deal_locked[p] = 2, sure |-> p \notin stale]

\* Seen from outside a locked player has a deal with its partner, and the others have
\* none.
DealOK ==
    \A p \in Players :
        /\ deal_locked[p] = 0 => Deal[p] = Abstract!NoDeal
        /\ deal_locked[p] # 0 =>
              /\ trade_partner[p] \in Players /\ trade_partner[p] # p
              /\ Deal[p] = DealOf(p)
              /\ Deal[p] \in Abstract!Deals

LEMMA DealFacts == IInv => DealOK
<1> SUFFICES ASSUME IInv, NEW p \in Players
             PROVE  /\ deal_locked[p] = 0 => Deal[p] = Abstract!NoDeal
                    /\ deal_locked[p] # 0 =>
                          /\ trade_partner[p] \in Players /\ trade_partner[p] # p
                          /\ Deal[p] = DealOf(p)
                          /\ Deal[p] \in Abstract!Deals
    BY DEF DealOK
<1>1. CASE deal_locked[p] = 0
      BY <1>1 DEF Deal, Abstract!NoDeal, Abstract!Nothing
<1>2. CASE deal_locked[p] # 0
  <2>1. Deal[p] = DealOf(p)
        BY <1>2 DEF Deal, DealOf
  <2>2. trade_partner[p] \in Players /\ trade_partner[p] # p
        BY <1>2 DEF IInv, DealInv, PartnersMutual, Trading
  <2>3. Locked(p) \in [Items -> Nat]
    <3>1. TradeMax \in 0 .. TradeMax /\ inventory[p] \in Bag
          /\ deal_item[p] \in [Offers -> [index : {0} \cup Slots, amount : Nat]]
          /\ \A i \in Offers : deal_item[p][i].amount # 0 => deal_item[p][i].index # 0
          BY TradeAssumption DEF IInv, HaveInv, DealInv, OffersOK
    <3>2. \A x \in Items : Promised(inventory[p], deal_item[p], x)[TradeMax] \in Nat
          BY <3>1, PromisedType
    <3> QED BY <3>2 DEF Locked
  <2>4. deal_zeny[p] \in Nat
        BY DEF IInv, DealInv
  <2>5. DealOf(p) \in Abstract!Deals
        BY <2>2, <2>3, <2>4 DEF Abstract!Deals, DealOf
  <2> QED BY <1>2, <2>1, <2>2, <2>5
<1> QED BY <1>1, <1>2 DEF IInv, DealInv

LEMMA DealFactsNext == IInv' => DealOK'
BY DealFacts, PTL

\* The deal of a player that offers and has what it did is what it was.
LEMMA DealStays ==
    ASSUME IInv, IInv', NEW r \in Players,
           deal_locked'[r] = deal_locked[r], r \in stale' <=> r \in stale,
           deal_locked[r] # 0 =>
              /\ trade_partner'[r] = trade_partner[r]
              /\ deal_zeny'[r] = deal_zeny[r]
              /\ deal_item'[r] = deal_item[r]
              /\ r \notin stale =>
                    \A i \in Offers :
                       LET n == deal_item[r][i].index
                       IN  deal_item[r][i].amount # 0 /\ inventory[r][n].amount # 0 =>
                              inventory'[r][n].item = inventory[r][n].item
    PROVE  Deal'[r] = Deal[r]
<1>1. DealOK /\ DealOK'
      BY DealFacts, DealFactsNext
<1>2. CASE deal_locked[r] = 0
      BY <1>1, <1>2 DEF DealOK
<1>3. CASE deal_locked[r] # 0
  <2>1. inventory[r] \in Bag /\ inventory'[r] \in Bag
        BY DEF IInv, HaveInv
  <2> DEFINE offers == deal_item[r]
  <2>2. offers \in [Offers -> [index : {0} \cup Slots, amount : Nat]]
        BY DEF IInv, DealInv
  <2>3. ASSUME r \notin stale, NEW i \in Offers, offers[i].amount # 0
        PROVE  /\ offers[i].index # 0
               /\ inventory'[r][offers[i].index].item = inventory[r][offers[i].index].item
    <3>1. offers[i].index \in Slots /\ offers[i].index # 0 /\ offers[i].amount > 0
          BY <2>2, <2>3 DEF IInv, DealInv, OffersOK, Slots
    <3>2. offers[i].amount <= inventory[r][offers[i].index].amount
      <4>1. deal_locked[r] >= 1
            BY <1>3 DEF IInv, DealInv
      <4> QED BY <2>3, <3>1, <4>1 DEF IInv, LockedIsBacked
    <3>3. inventory[r][offers[i].index].amount # 0
      <4>1. offers[i].amount \in Nat /\ inventory[r][offers[i].index].amount \in Nat
            BY <2>1, <2>2, <3>1 DEF Bag
      <4> QED BY <3>1, <3>2, <4>1
    <3> QED BY <1>3, <2>3, <3>1, <3>3
  <2> HIDE DEF offers
  <2>4. r \notin stale => \A x \in Items : Promised(inventory'[r], offers, x)[TradeMax]
                           = Promised(inventory[r], offers, x)[TradeMax]
        BY <2>1, <2>2, <2>3, PromisedSame
  <2>5. Locked(r)' = Locked(r)
    <3>1. CASE r \in stale
          BY <3>1 DEF Locked
    <3>2. CASE r \notin stale
          BY <1>3, <2>4, <3>2 DEF Locked, offers
    <3> QED BY <3>1, <3>2
  <2>6. DealOf(r)' = DealOf(r)
    <3>1. (r \notin stale') = (r \notin stale)
          OBVIOUS
    <3> QED BY <1>3, <2>5, <3>1 DEF DealOf
  <2> QED BY <1>1, <1>3, <2>6 DEF DealOK
<1> QED BY <1>2, <1>3

\* The deal of a player whose lock and offers stay, and who is not renumbered.
LEMMA DealKept ==
    ASSUME IInv, IInv', Forget, NEW r \in Players,
           deal_locked'[r] = deal_locked[r],
           deal_locked[r] # 0 =>
              /\ trade_partner'[r] = trade_partner[r]
              /\ deal_zeny'[r] = deal_zeny[r]
              /\ deal_item'[r] = deal_item[r]
              /\ \A n \in Slots : inventory[r][n].amount # 0 =>
                    inventory'[r][n].item = inventory[r][n].item
    PROVE  Deal'[r] = Deal[r]
<1>1. r \in stale' <=> r \in stale
  <2>1. CASE deal_locked[r] = 0
        BY <2>1 DEF IInv, StaleOK
  <2>2. CASE deal_locked[r] # 0
    <3>1. deal_locked'[r] >= 1
          BY <2>2 DEF IInv, DealInv
    <3> QED BY <3>1, ForgetSame
  <2> QED BY <2>1, <2>2
<1>2. \A i \in Offers : deal_item[r][i].amount # 0 => deal_item[r][i].index \in Slots
      BY DEF IInv, DealInv, OffersOK
<1> QED BY <1>1, <1>2, DealStays

\* When neither p nor its partner is locked any more and the others are what they were,
\* the deals are those without p.
LEMMA DealEnds ==
    ASSUME IInv, IInv', Forget, NEW p \in Players,
           \A r \in Players :
              IF r = p \/ trade_partner[r] = p THEN deal_locked'[r] = 0
              ELSE /\ deal_locked'[r] = deal_locked[r]
                   /\ trade_partner'[r] = trade_partner[r]
                   /\ deal_zeny'[r] = deal_zeny[r]
                   /\ deal_item'[r] = deal_item[r]
                   /\ inventory'[r] = inventory[r]
    PROVE  Deal' = Abstract!Without(p)
<1>1. DealOK /\ DealOK'
      BY DealFacts, DealFactsNext
<1>2. ASSUME NEW r \in Players
      PROVE  Deal'[r] = IF r = p \/ Deal[r].with = p THEN Abstract!NoDeal ELSE Deal[r]
  <2>1. CASE r = p \/ trade_partner[r] = p
    <3>1. Deal'[r] = Abstract!NoDeal
          BY <1>1, <2>1 DEF DealOK
    <3>2. CASE deal_locked[r] = 0
          BY <1>1, <3>1, <3>2 DEF DealOK
    <3>3. CASE deal_locked[r] # 0
      <4>1. Deal[r].with = trade_partner[r]
        <5>1. Deal[r] = DealOf(r)
              BY <1>1, <3>3 DEF DealOK
        <5> QED BY <5>1 DEF DealOf
      <4> QED BY <2>1, <3>1, <4>1
    <3> QED BY <3>2, <3>3
  <2>2. CASE ~(r = p \/ trade_partner[r] = p)
    <3>1. Deal'[r] = Deal[r]
      <4>1. \A n \in Slots : inventory'[r][n] = inventory[r][n]
            BY <2>2
      <4> QED BY <2>2, <4>1, DealKept
    <3>2. Deal[r].with # p
      <4>1. CASE deal_locked[r] = 0
        <5>1. Deal[r].with = NoPlayer
          <6>1. Deal[r] = Abstract!NoDeal
                BY <1>1, <4>1 DEF DealOK
          <6> QED BY <6>1 DEF Abstract!NoDeal
        <5> QED BY <5>1, TradeAssumption
      <4>2. CASE deal_locked[r] # 0
        <5>1. Deal[r].with = trade_partner[r]
          <6>1. Deal[r] = DealOf(r)
                BY <1>1, <4>2 DEF DealOK
          <6> QED BY <6>1 DEF DealOf
        <5> QED BY <2>2, <5>1
      <4> QED BY <4>1, <4>2
    <3> QED BY <2>2, <3>1, <3>2
  <2> QED BY <2>1, <2>2
<1>3. Deal' = [r \in Players |-> Deal'[r]]
      BY DEF Deal
<1> QED BY <1>2, <1>3 DEF Abstract!Without

\* trade_tradecancel withdraws from the deal, whatever happens to p and its partner.
LEMMA CancelEnds ==
    ASSUME IInv, IInv', Forget, NEW p \in Players, Cancel(p),
           \A r \in Players : r # p /\ trade_partner[r] # p => inventory'[r] = inventory[r]
    PROVE  Deal' = Abstract!Without(p)
<1>1. CASE ~Trading(p)
  <2>1. UNCHANGED dealVars /\ deal_locked[p] = 0
        BY <1>1 DEF Cancel, IInv, DealInv, PartnersMutual
  <2>2. ASSUME NEW r \in Players, trade_partner[r] = p PROVE FALSE
    <3>1. Trading(r)
          BY <2>2, TradeAssumption DEF Trading
    <3>2. trade_partner[p] = r
          BY <2>2, <3>1 DEF IInv, DealInv, PartnersMutual
    <3> QED BY <1>1, <3>2, TradeAssumption DEF Trading
  <2> QED BY <2>1, <2>2, DealEnds DEF dealVars
<1>2. CASE Trading(p)
  <2> DEFINE q == trade_partner[p]
  <2>1. q \in Players /\ q # p /\ trade_partner[q] = p
        BY <1>2 DEF IInv, DealInv, PartnersMutual, Trading
  <2>2. /\ deal_item' = [deal_item EXCEPT ![p] = NoOffers, ![q] = NoOffers]
        /\ deal_zeny' = [deal_zeny EXCEPT ![p] = 0, ![q] = 0]
        /\ deal_locked' = [deal_locked EXCEPT ![p] = 0, ![q] = 0]
        /\ trade_partner' = [trade_partner EXCEPT ![p] = NoPlayer, ![q] = NoPlayer]
        BY <1>2 DEF Cancel, Both
  <2>3. \A r \in Players : trade_partner[r] = p => r = q
        BY <1>2, TradeAssumption DEF IInv, DealInv, PartnersMutual, Trading
  <2> HIDE DEF q
  <2>4. deal_locked'[p] = 0 /\ deal_locked'[q] = 0
        BY <2>1, <2>2 DEF IInv, DealInv
  <2>5. ASSUME NEW r \in Players, r # p, trade_partner[r] # p
        PROVE  /\ deal_locked'[r] = deal_locked[r]
               /\ trade_partner'[r] = trade_partner[r]
               /\ deal_zeny'[r] = deal_zeny[r]
               /\ deal_item'[r] = deal_item[r]
    <3>1. r # q
          BY <2>1, <2>5
    <3> QED BY <2>2, <2>5, <3>1 DEF IInv, DealInv
  <2> QED BY <2>3, <2>4, <2>5, DealEnds
<1> QED BY <1>1, <1>2

\* A step in which locked deals stay as they are is one in which all deals do.
LEMMA DealsKept ==
    ASSUME IInv, IInv', Forget,
           \A r \in Players :
              /\ deal_locked'[r] = deal_locked[r]
              /\ deal_locked[r] # 0 =>
                    /\ trade_partner'[r] = trade_partner[r]
                    /\ deal_zeny'[r] = deal_zeny[r]
                    /\ deal_item'[r] = deal_item[r]
                    /\ inventory'[r] = inventory[r]
    PROVE  Deal' = Deal
<1>1. \A r \in Players : Deal'[r] = Deal[r]
      BY DealKept
<1>2. Deal = [r \in Players |-> Deal[r]] /\ Deal' = [r \in Players |-> Deal'[r]]
      BY DEF Deal
<1> QED BY <1>1, <1>2

LEMMA DealsStay ==
    ASSUME IInv, IInv', Forget, UNCHANGED inventory,
           \A r \in Players :
              /\ deal_locked'[r] = deal_locked[r]
              /\ deal_locked[r] # 0 =>
                    /\ trade_partner'[r] = trade_partner[r]
                    /\ deal_zeny'[r] = deal_zeny[r]
                    /\ deal_item'[r] = deal_item[r]
    PROVE  Deal' = Deal /\ Goods' = Goods
BY DealsKept DEF Goods

\* pc_checkitem gives and takes nothing.
LEMMA PackedGoods ==
    ASSUME IInv, NEW p \in Players,
           inventory' = [inventory EXCEPT ![p] = Packed(@)]
    PROVE  Goods' = Goods
<1> DEFINE new == Packed(inventory[p])
<1>1. \A x \in Items : Amount(new, x) = Amount(inventory[p], x)
      BY PackedFacts DEF IInv, HaveInv
<1> HIDE DEF new
<1>2. inventory' = [inventory EXCEPT ![p] = new]
      BY DEF new
<1>3. \A r \in Players, x \in Items : Amount(inventory'[r], x) = Amount(inventory[r], x)
      BY <1>1, <1>2 DEF IInv, HaveInv
<1> QED BY <1>3 DEF Goods

\* The steps that only end a deal.
LEMMA CancelWithdraws ==
    ASSUME IInv, IInv', Forget, NEW p \in Players, Cancel(p), UNCHANGED << inventory, zeny >>
    PROVE  Abstract!Withdraw(p)
<1>1. Deal' = Abstract!Without(p)
      BY CancelEnds
<1>2. Goods' = Goods
      BY DEF Goods
<1> QED BY <1>1, <1>2 DEF Abstract!Withdraw

LEMMA RefuseWithdraws ==
    ASSUME IInv, IInv', Forget, NEW p \in Players, Refuse(p)
    PROVE  Abstract!Withdraw(p)
<1> DEFINE q == trade_partner[p]
<1>1. q \in Players /\ q # p /\ trade_partner[q] = p
      BY DEF Refuse, IInv, DealInv, PartnersMutual, Trading
<1>2. /\ deal_locked' = [deal_locked EXCEPT ![p] = 0, ![q] = 0]
      /\ trade_partner' = [trade_partner EXCEPT ![p] = NoPlayer, ![q] = NoPlayer]
      /\ UNCHANGED << deal_item, deal_zeny, inventory, zeny >>
      BY DEF Refuse, Both
<1>3. \A r \in Players : trade_partner[r] = p => r = q
      BY <1>1, TradeAssumption DEF IInv, DealInv, PartnersMutual, Trading
<1> HIDE DEF q
<1>4. deal_locked'[p] = 0 /\ deal_locked'[q] = 0
      BY <1>1, <1>2 DEF IInv, DealInv
<1>5. ASSUME NEW r \in Players, r # p, trade_partner[r] # p
      PROVE  deal_locked'[r] = deal_locked[r] /\ trade_partner'[r] = trade_partner[r]
  <2>1. r # q
        BY <1>1, <1>5
  <2> QED BY <1>2, <1>5, <2>1 DEF IInv, DealInv
<1>6. Deal' = Abstract!Without(p)
      BY <1>2, <1>3, <1>4, <1>5, DealEnds
<1>7. Goods' = Goods
      BY <1>2 DEF Goods
<1> QED BY <1>2, <1>6, <1>7 DEF Abstract!Withdraw

\* A deal that is decided or not any more is the same otherwise.
LEMMA Decided ==
    ASSUME NEW deal, NEW new, NEW with, NEW money, NEW give, NEW final, NEW yes, NEW sure,
           deal = [with |-> with, money |-> money, goods |-> give, final |-> final,
                   sure |-> sure],
           new = [with |-> with, money |-> money, goods |-> give, final |-> yes,
                  sure |-> sure]
    PROVE  new = [deal EXCEPT !.final = yes]
OBVIOUS

\* trade_tradeok locks, or takes the commit back, or repeats what was.
LEMMA LockLocks ==
    ASSUME IInv, IInv', Forget, NEW p \in Players, Lock(p), ~Overdrawn(p)
    PROVE  \/ \E q \in Players : Abstract!Lock(p, q)
           \/ Abstract!Decide(p, FALSE)
           \/ UNCHANGED << Goods, zeny, Deal >>
<1> DEFINE q == trade_partner[p]
<1>1. /\ q \in Players /\ q # p /\ trade_partner[q] = p
      /\ deal_locked' = [deal_locked EXCEPT ![p] = 1]
      /\ UNCHANGED << trade_partner, deal_item, deal_zeny, inventory, zeny >>
      BY DEF Lock, IInv, DealInv, PartnersMutual, Trading
<1> HIDE DEF q
<1>2. DealOK /\ DealOK'
      BY DealFacts, DealFactsNext
<1>3. \A r \in Players \ {p} : Deal'[r] = Deal[r]
  <2> TAKE r \in Players \ {p}
  <2>1. deal_locked'[r] = deal_locked[r]
        BY <1>1 DEF IInv, DealInv
  <2> QED BY <1>1, <2>1, DealKept
<1>4. Goods' = Goods
      BY <1>1 DEF Goods
<1>5. deal_locked'[p] = 1 /\ trade_partner'[p] = trade_partner[p]
      BY <1>1 DEF IInv, DealInv
<1>6. Deal'[p] = DealOf(p)' /\ Deal'[p] \in Abstract!Deals
      BY <1>2, <1>5 DEF DealOK
<1>7. DealOf(p)' = [with |-> trade_partner[p], money |-> deal_zeny[p],
                    goods |-> Locked(p), final |-> FALSE, sure |-> p \notin stale]
  <2>0. (p \notin stale') = (p \notin stale)
        BY <1>5, ForgetSame
  <2>1. Locked(p)' = Locked(p)
        BY <1>1, <2>0 DEF Locked
  <2>2. (deal_locked'[p] = 2) = FALSE
        BY <1>5
  <2> QED BY <1>1, <2>0, <2>1, <2>2 DEF DealOf
<1>8. CASE deal_locked[p] = 0
  <2>1. Deal[p].with = NoPlayer
    <3>1. Deal[p] = Abstract!NoDeal
          BY <1>2, <1>8 DEF DealOK
    <3> QED BY <3>1 DEF Abstract!NoDeal
  <2>2. Deal'[p].with = q /\ ~Deal'[p].final /\ Deal'[p].sure
    <3>1. p \notin stale
          BY <1>8 DEF IInv, StaleOK
    <3>2. Deal'[p].with = q /\ Deal'[p].final = FALSE /\ Deal'[p].sure = (p \notin stale)
          BY <1>6, <1>7 DEF q
    <3> QED BY <3>1, <3>2
  <2>3. Deal[q].with \in {NoPlayer, p}
    <3>1. CASE deal_locked[q] = 0
      <4>1. Deal[q] = Abstract!NoDeal
            BY <1>1, <1>2, <3>1 DEF DealOK
      <4> QED BY <4>1 DEF Abstract!NoDeal
    <3>2. CASE deal_locked[q] # 0
      <4>1. Deal[q] = DealOf(q)
            BY <1>1, <1>2, <3>2 DEF DealOK
      <4> QED BY <1>1, <4>1 DEF DealOf
    <3> QED BY <3>1, <3>2
  <2>4. Deal' \in [Players -> Abstract!Deals \cup {Abstract!NoDeal}]
    <3>1. \A r \in Players : Deal'[r] \in Abstract!Deals \cup {Abstract!NoDeal}
          BY <1>2 DEF DealOK
    <3>2. Deal' = [r \in Players |-> Deal'[r]]
          BY DEF Deal
    <3> QED BY <3>1, <3>2
  <2>5. Abstract!Lock(p, q)
        BY <1>1, <1>3, <1>4, <2>1, <2>2, <2>3, <2>4 DEF Abstract!Lock, Abstract!Locked
  <2> QED BY <1>1, <2>5
<1>9. CASE deal_locked[p] # 0
  <2>1. Deal[p] = DealOf(p) /\ trade_partner[p] \in Players
        BY <1>2, <1>9 DEF DealOK
  <2>2. Deal' = [Deal EXCEPT ![p].final = FALSE]
    <3> DEFINE final == deal_locked[p] = 2
               no == FALSE
               sure == p \notin stale
    <3>1. Deal'[p] = [Deal[p] EXCEPT !.final = no]
      <4>1. Deal[p] = [with |-> trade_partner[p], money |-> deal_zeny[p],
                       goods |-> Locked(p), final |-> final, sure |-> sure]
            BY <2>1 DEF DealOf
      <4>2. Deal'[p] = [with |-> trade_partner[p], money |-> deal_zeny[p],
                        goods |-> Locked(p), final |-> no, sure |-> sure]
            BY <1>6, <1>7
      <4> HIDE DEF final, no, sure
      <4> QED BY <4>1, <4>2, Decided
    <3>2. Deal = [r \in Players |-> Deal[r]] /\ Deal' = [r \in Players |-> Deal'[r]]
          BY DEF Deal
    <3> QED BY <1>3, <3>1, <3>2
  <2>3. Deal[p].with # NoPlayer
        BY <2>1, TradeAssumption DEF DealOf
  <2>4. Deal'[p].final = FALSE
        BY <1>6, <1>7
  <2> QED BY <1>1, <1>4, <2>2, <2>3, <2>4 DEF Abstract!Decide, Abstract!Locked
<1> QED BY <1>8, <1>9

\* trade_tradecommit decides if the partner has not, and otherwise swaps or withdraws.
LEMMA CommitDecides ==
    ASSUME IInv, IInv', Forget, NEW p \in Players, Commit(p), ~PartnerCommitted(trade_partner[p])
    PROVE  Abstract!Decide(p, TRUE)
<1> DEFINE q == trade_partner[p]
<1>1. /\ q \in Players /\ q # p /\ deal_locked[p] # 0 /\ deal_locked[q] # 0
      /\ deal_locked' = [deal_locked EXCEPT ![p] = 2]
      /\ UNCHANGED << trade_partner, deal_item, deal_zeny, inventory, zeny >>
      BY DEF Commit, IInv, DealInv, PartnersMutual, Trading
<1>2. DealOK /\ DealOK'
      BY DealFacts, DealFactsNext
<1>3. \A r \in Players \ {p} : Deal'[r] = Deal[r]
  <2> TAKE r \in Players \ {p}
  <2>1. deal_locked'[r] = deal_locked[r]
        BY <1>1 DEF IInv, DealInv
  <2> QED BY <1>1, <2>1, DealKept
<1>4. Goods' = Goods
      BY <1>1 DEF Goods
<1>5. deal_locked'[p] = 2
      BY <1>1 DEF IInv, DealInv
<1>6. /\ Deal[p] = DealOf(p) /\ Deal'[p] = DealOf(p)'
      /\ Deal[q] = DealOf(q) /\ trade_partner[q] \in Players
      BY <1>1, <1>2, <1>5 DEF DealOK
<1> DEFINE final == deal_locked[p] = 2
           yes == TRUE
           sure == p \notin stale
<1>7. /\ Deal[p] = [with |-> q, money |-> deal_zeny[p], goods |-> Locked(p), final |-> final,
                    sure |-> sure]
      /\ Deal[p].with = q
      BY <1>6 DEF DealOf
<1>8. Deal'[p] = [with |-> q, money |-> deal_zeny[p], goods |-> Locked(p), final |-> yes,
                  sure |-> sure]
  <2>0. (p \notin stale') = sure
        BY <1>5, ForgetSame
  <2>1. Locked(p)' = Locked(p)
        BY <1>1, <2>0 DEF Locked
  <2>2. (deal_locked'[p] = 2) = yes
        BY <1>5
  <2> QED BY <1>1, <1>6, <2>0, <2>1, <2>2 DEF DealOf
<1>9. Deal'[p].final = yes
      BY <1>8
<1>10. Deal[q].with # NoPlayer
  <2>1. Deal[q].with = trade_partner[q]
        BY <1>6 DEF DealOf
  <2> QED BY <1>6, <2>1, TradeAssumption
<1> HIDE DEF final, yes, q, sure
<1>11. Deal' = [Deal EXCEPT ![p].final = yes]
  <2>1. Deal'[p] = [Deal[p] EXCEPT !.final = yes]
        BY <1>7, <1>8, Decided
  <2>2. Deal = [r \in Players |-> Deal[r]] /\ Deal' = [r \in Players |-> Deal'[r]]
        BY DEF Deal
  <2> QED BY <1>3, <2>1, <2>2
<1>12. yes
      BY DEF yes
<1>13. Deal[p].with # NoPlayer /\ Deal[Deal[p].with].with # NoPlayer
      BY <1>1, <1>7, <1>10, TradeAssumption
<1>14. Abstract!Decide(p, yes)
      BY <1>1, <1>4, <1>9, <1>11, <1>13 DEF Abstract!Decide, Abstract!Locked
<1> QED BY <1>14 DEF yes

LEMMA CommitSwaps ==
    ASSUME IInv, IInv', Forget, NEW p \in Players, Commit(p), ~UNCHANGED << inventory, zeny >>
    PROVE  Abstract!Swap(p)
<1> DEFINE q == trade_partner[p]
<1>1. /\ q \in Players /\ q # p /\ trade_partner[q] = p
      /\ Cancel(p)
      /\ deal_locked[p] >= 1 /\ deal_locked[q] = 2
      /\ AfterRound(inventory', p, q, TradeMax)
      /\ zeny'[p] = (zeny[p] - deal_zeny[p]) + deal_zeny[q]
      /\ zeny'[q] = (zeny[q] - deal_zeny[q]) + deal_zeny[p]
      /\ \A r \in Players : r \notin {p, q} => zeny'[r] = zeny[r]
      BY CommitFacts
<1>2. DealOK
      BY DealFacts
<1>3. Deal[p] = DealOf(p) /\ Deal[q] = DealOf(q)
  <2>1. deal_locked[p] # 0 /\ deal_locked[q] # 0
        BY <1>1 DEF IInv, DealInv
  <2> QED BY <1>1, <1>2, <2>1 DEF DealOK
<1>4. /\ Deal[p].with = q /\ Deal[p].money = deal_zeny[p] /\ Deal[p].goods = Locked(p)
      /\ Deal[p].sure = (p \notin stale)
      BY <1>3 DEF DealOf
<1>5. /\ Deal[q].with = p /\ Deal[q].money = deal_zeny[q] /\ Deal[q].goods = Locked(q)
      /\ Deal[q].final /\ Deal[q].sure = (q \notin stale)
  <2>1. Deal[q] = [with |-> p, money |-> deal_zeny[q], goods |-> Locked(q),
                   final |-> deal_locked[q] = 2, sure |-> q \notin stale]
        BY <1>1, <1>3 DEF DealOf
  <2>2. Deal[q].final = (deal_locked[q] = 2)
        BY <2>1
  <2>3. /\ Deal[q].with = p /\ Deal[q].money = deal_zeny[q] /\ Deal[q].goods = Locked(q)
        /\ Deal[q].sure = (q \notin stale)
        BY <2>1
  <2> QED BY <1>1, <2>2, <2>3
<1> HIDE DEF q
<1>6. \A r \in Players : r \notin {p, q} => inventory'[r] = inventory[r]
      BY <1>1 DEF AfterRound
<1>7. Deal' = Abstract!Without(p)
  <2>1. \A r \in Players : trade_partner[r] # p => r # q
        BY <1>1
  <2> QED BY <1>1, <1>6, <2>1, CancelEnds
<1>8. \A r \in Players :
         inventory'[r] = inventory[r] => Goods'[r] = Goods[r]
      BY DEF Goods
<1>9. \A r \in Players, x \in Items :
         Goods[r][x] = Amount(inventory[r], x) /\ Goods'[r][x] = Amount(inventory'[r], x)
      BY DEF Goods
<1>10. ASSUME NEW x \in Items
       PROVE  /\ Goods'[p][x] + Goods'[q][x] >= Goods[p][x] + Goods[q][x]
              /\ p \notin stale /\ q \notin stale =>
                    Goods'[p][x] + Goods'[q][x] = Goods[p][x] + Goods[q][x]
              /\ p \notin stale => Goods'[p][x] + Locked(p)[x] >= Goods[p][x]
              /\ q \notin stale => Goods'[q][x] + Locked(q)[x] >= Goods[q][x]
  <2>1. /\ Amount(inventory'[p], x) + Amount(inventory'[q], x)
             >= Amount(inventory[p], x) + Amount(inventory[q], x)
        /\ p \notin stale /\ q \notin stale =>
              Amount(inventory'[p], x) + Amount(inventory'[q], x)
                = Amount(inventory[p], x) + Amount(inventory[q], x)
        /\ p \notin stale => Owes(inventory', p, TradeMax)
        /\ q \notin stale => Owes(inventory', q, TradeMax)
        BY <1>1 DEF AfterRound, Sure
  <2>2. /\ p \notin stale =>
              Locked(p)[x] = Promised(inventory[p], deal_item[p], x)[TradeMax]
        /\ q \notin stale =>
              Locked(q)[x] = Promised(inventory[q], deal_item[q], x)[TradeMax]
        BY DEF Locked
  <2>3. /\ p \notin stale => Amount(inventory[p], x) <= Amount(inventory'[p], x) + Locked(p)[x]
        /\ q \notin stale => Amount(inventory[q], x) <= Amount(inventory'[q], x) + Locked(q)[x]
        BY <2>1, <2>2 DEF Owes
  <2>4. \A r \in Players :
           Amount(inventory[r], x) \in Nat /\ Amount(inventory'[r], x) \in Nat
        BY AmountType DEF IInv, HaveInv
  <2>5. Locked(p)[x] \in Nat /\ Locked(q)[x] \in Nat
    <3>1. \A r \in Players :
             /\ TradeMax \in 0 .. TradeMax /\ inventory[r] \in Bag
             /\ deal_item[r] \in [Offers -> [index : {0} \cup Slots, amount : Nat]]
             /\ \A i \in Offers : deal_item[r][i].amount # 0 => deal_item[r][i].index # 0
          BY TradeAssumption DEF IInv, HaveInv, DealInv, OffersOK
    <3>2. \A r \in Players : Promised(inventory[r], deal_item[r], x)[TradeMax] \in Nat
          BY <3>1, PromisedType
    <3>3. \A r \in Players : Locked(r)[x] \in Nat
          BY <3>2 DEF Locked
    <3> QED BY <1>1, <3>3
  <2> QED BY <1>1, <1>9, <2>1, <2>3, <2>4, <2>5
<1>11. /\ zeny'[p] + deal_zeny[p] = zeny[p] + deal_zeny[q]
       /\ zeny'[q] + deal_zeny[q] = zeny[q] + deal_zeny[p]
  <2>1. \A r \in Players : zeny[r] \in Nat /\ deal_zeny[r] \in Nat
        BY DEF IInv, HaveInv, DealInv
  <2> QED BY <1>1, <2>1
<1>12. Abstract!Fair(p, q)
      BY <1>4, <1>5, <1>10, <1>11 DEF Abstract!Fair
<1>13. q # NoPlayer
      BY <1>1, TradeAssumption
<1> QED BY <1>1, <1>4, <1>5, <1>6, <1>7, <1>8, <1>12, <1>13
        DEF Abstract!Swap, Abstract!Locked

\* What happens to a player in the rest of the game.
LEMMA LoseLives ==
    ASSUME IInv, IInv', Forget, NEW p \in Players, NEW n \in Slots, NEW amount, Lose(p, n, amount)
    PROVE  Abstract!Live(p)
<1>1. /\ Cancel(p) /\ zeny' = zeny
      /\ inventory' = [inventory EXCEPT ![p] = Removed(@, n, amount)]
      BY DEF Lose, Interrupt
<1>2. \A r \in Players : r # p => inventory'[r] = inventory[r]
      BY <1>1 DEF IInv, HaveInv
<1>3. Deal' = Abstract!Without(p)
      BY <1>1, <1>2, CancelEnds
<1>4. \A r \in Players : r # p => Goods'[r] = Goods[r]
      BY <1>2 DEF Goods
<1> QED BY <1>1, <1>3, <1>4 DEF Abstract!Live

LEMMA GainLives ==
    ASSUME IInv, IInv', Forget, NEW p \in Players, NEW item \in Items, NEW amount,
           Gain(p, item, amount)
    PROVE  Abstract!Live(p)
<1> DEFINE bag == inventory[p]
           new == Added(bag, item, amount)
<1>1. /\ UNCHANGED << zeny, dealVars >> /\ new # bag
      /\ inventory' = [inventory EXCEPT ![p] = new]
      BY DEF Gain
<1>2. bag \in Bag /\ amount \in Nat /\ amount # 0 /\ item \in Items \cup {NoItem}
      BY DEF Gain, IInv, HaveInv
<1>3. /\ new \in Bag
      /\ \A n \in Slots : bag[n].amount # 0 => new[n].item = bag[n].item
      /\ \A x \in Items : Amount(new, x) = Amount(bag, x)
                                             + (IF x = item THEN amount ELSE 0)
  <2> HIDE DEF bag
  <2> QED BY <1>1, <1>2, AddedFacts
<1> HIDE DEF new
<1>4. \A r \in Players : inventory'[r] = IF r = p THEN new ELSE inventory[r]
      BY <1>1 DEF IInv, HaveInv
<1>5. \A r \in Players : Deal'[r] = Deal[r]
  <2> TAKE r \in Players
  <2>1. \A n \in Slots : inventory[r][n].amount # 0 =>
           inventory'[r][n].item = inventory[r][n].item
        BY <1>3, <1>4
  <2> QED BY <1>1, <2>1, DealKept DEF dealVars
<1>6. Deal' = Deal
  <2>1. Deal = [r \in Players |-> Deal[r]] /\ Deal' = [r \in Players |-> Deal'[r]]
        BY DEF Deal
  <2> QED BY <1>5, <2>1
<1>7. \A r \in Players : r # p => Goods'[r] = Goods[r]
      BY <1>4 DEF Goods
<1>8. \A x \in Items : Goods'[p][x] >= Goods[p][x]
  <2> TAKE x \in Items
  <2>1. Goods'[p][x] = Amount(new, x) /\ Goods[p][x] = Amount(bag, x)
        BY <1>4 DEF Goods
  <2>2. Amount(bag, x) \in Nat
        BY <1>2, AmountType
  <2> HIDE DEF bag
  <2> QED BY <1>2, <1>3, <2>1, <2>2
<1> QED BY <1>1, <1>6, <1>7, <1>8 DEF Abstract!Live

LEMMA MoneyLives ==
    ASSUME IInv, IInv', Forget, NEW p \in Players, NEW left, VerifyZeny(p, left),
           inventory' = inventory, zeny' = [zeny EXCEPT ![p] = left]
    PROVE  Abstract!Live(p)
<1>1. \A r \in Players : r # p => zeny'[r] = zeny[r]
      BY DEF IInv, HaveInv
<1>2. Goods' = Goods
      BY DEF Goods
<1>3. \A x \in Items : Goods'[p][x] >= Goods[p][x]
  <2>1. \A x \in Items : Goods[p][x] \in Nat
        BY AmountType DEF Goods, IInv, HaveInv
  <2> QED BY <1>2, <2>1
<1>4. CASE Cancel(p)
  <2>1. Deal' = Abstract!Without(p)
        BY <1>4, CancelEnds
  <2> QED BY <1>1, <1>2, <2>1 DEF Abstract!Live
<1>5. CASE ~Cancel(p)
  <2>1. /\ UNCHANGED << trade_partner, deal_locked, deal_item >>
        /\ \A r \in Players : deal_locked[r] # 0 => deal_zeny'[r] = deal_zeny[r]
    <3>1. CASE UNCHANGED dealVars
          BY <3>1 DEF dealVars
    <3>2. CASE ~UNCHANGED dealVars
      <4>1. /\ MayOffer(p) /\ UNCHANGED << trade_partner, deal_locked, deal_item >>
            /\ deal_zeny' = IF left = 0 THEN deal_zeny ELSE [deal_zeny EXCEPT ![p] = left]
            BY <1>5, <3>2 DEF VerifyZeny
      <4>2. deal_locked[p] = 0
            BY <4>1 DEF MayOffer, IInv, DealInv
      <4> QED BY <4>1, <4>2 DEF IInv, DealInv
    <3> QED BY <3>1, <3>2
  <2>2. Deal' = Deal
        BY <2>1, DealsStay
  <2> QED BY <1>1, <1>2, <1>3, <2>2 DEF Abstract!Live
<1> QED BY <1>4, <1>5

\* pc_checkitem disorders a locked deal or cannot be seen.
LEMMA CheckItemDisorders ==
    ASSUME IInv, IInv', NEW p \in Players, CheckItem(p)
    PROVE  UNCHANGED << Goods, zeny, Deal >> \/ Abstract!Disorder(p)
<1>1. /\ inventory' = [inventory EXCEPT ![p] = Packed(@)]
      /\ UNCHANGED << zeny, trade_partner, deal_locked, deal_item, deal_zeny >>
      /\ stale' = IF deal_locked[p] >= 1 /\ Moved(p) THEN stale \cup {p} ELSE stale
      BY DEF CheckItem, dealVars
<1>2. Goods' = Goods
      BY <1>1, PackedGoods
<1>3. DealOK /\ DealOK'
      BY DealFacts, DealFactsNext
<1>4. \A r \in Players : r # p => Deal'[r] = Deal[r]
  <2> TAKE r \in Players
  <2> HAVE r # p
  <2>1. inventory'[r] = inventory[r]
        BY <1>1 DEF IInv, HaveInv
  <2>2. r \in stale' <=> r \in stale
        BY <1>1
  <2> QED BY <1>1, <2>1, <2>2, DealStays
<1>5. Deal = [r \in Players |-> Deal[r]] /\ Deal' = [r \in Players |-> Deal'[r]]
      BY DEF Deal
<1>6. CASE deal_locked[p] >= 1 /\ Moved(p)
  <2>1. /\ p \in stale' /\ deal_locked'[p] # 0 /\ deal_locked[p] # 0
        BY <1>1, <1>6 DEF IInv, DealInv
  <2>2. Deal[p] = DealOf(p) /\ Deal'[p] = DealOf(p)' /\ trade_partner[p] \in Players
        BY <1>3, <2>1 DEF DealOK
  <2> DEFINE final == deal_locked[p] = 2
             no == FALSE
             sure == p \notin stale
             none == Abstract!Nothing
  <2>3. Deal[p] = [with |-> trade_partner[p], money |-> deal_zeny[p], goods |-> Locked(p),
                   final |-> final, sure |-> sure]
        BY <2>2 DEF DealOf
  <2>4. Locked(p)' = none
        BY <2>1 DEF Locked, Abstract!Nothing
  <2>5. Deal'[p] = [with |-> trade_partner[p], money |-> deal_zeny[p], goods |-> none,
                    final |-> final, sure |-> no]
    <3>1. (p \notin stale') = no
          BY <2>1
    <3> QED BY <1>1, <2>2, <2>4, <3>1 DEF DealOf
  <2> HIDE DEF final, no, sure, none
  <2>6. Deal'[p] = [Deal[p] EXCEPT !.sure = no, !.goods = none]
    <3> DEFINE old == Deal[p]
               new == Deal'[p]
               with == trade_partner[p]
               money == deal_zeny[p]
               give == Locked(p)
    <3>1. /\ old = [with |-> with, money |-> money, goods |-> give, final |-> final,
                    sure |-> sure]
          /\ new = [with |-> with, money |-> money, goods |-> none, final |-> final,
                    sure |-> no]
          BY <2>3, <2>5
    <3> HIDE DEF old, new, with, money, give
    <3> DEFINE mid == [old EXCEPT !.sure = no]
    <3>2. mid = [with |-> with, money |-> money, goods |-> give, final |-> final, sure |-> no]
          BY <3>1
    <3> HIDE DEF mid
    <3>3. [mid EXCEPT !.goods = none] = new
          BY <3>1, <3>2
    <3> QED BY <3>3 DEF old, new, mid
  <2>7. Deal' = [Deal EXCEPT ![p].sure = no, ![p].goods = none]
        BY <1>4, <1>5, <2>6
  <2>8. Deal[p].with # NoPlayer
        BY <2>2, <2>3, TradeAssumption
  <2> QED BY <1>1, <1>2, <2>7, <2>8 DEF Abstract!Disorder, Abstract!Locked, no, none
<1>7. CASE ~(deal_locked[p] >= 1 /\ Moved(p))
  <2>1. Deal'[p] = Deal[p]
    <3>1. ASSUME deal_locked[p] # 0, NEW i \in Offers, deal_item[p][i].amount # 0
          PROVE  inventory'[p][deal_item[p][i].index].item
                   = inventory[p][deal_item[p][i].index].item
      <4>0. deal_locked[p] \in 0 .. 2 /\ deal_locked[p] # 0
            BY <3>1 DEF IInv, DealInv
      <4>1. deal_locked[p] >= 1
            BY <4>0
      <4>2. Packed(inventory[p])[deal_item[p][i].index]
              = inventory[p][deal_item[p][i].index]
            BY <1>7, <3>1, <4>1 DEF Moved
      <4>3. inventory'[p] = Packed(inventory[p])
            BY <1>1 DEF IInv, HaveInv
      <4> QED BY <4>2, <4>3
    <3>2. p \in stale' <=> p \in stale
          BY <1>1, <1>7
    <3> QED BY <1>1, <3>1, <3>2, DealStays
  <2>2. Deal' = Deal
        BY <1>4, <1>5, <2>1
  <2> QED BY <1>1, <1>2, <2>2
<1> QED BY <1>6, <1>7

\* Every step of a trade, and of the rest of the game, is one of the exchange or cannot
\* be seen there.
LEMMA NextImplements ==
    ASSUME IInv, IInv', [Next]_vars
    PROVE  [Abstract!Next]_<< Goods, zeny, Deal >>
<1> DEFINE Hidden == UNCHANGED << Goods, zeny, Deal >>
<1>1. CASE UNCHANGED vars
  <2>1. UNCHANGED << inventory, zeny, trade_partner, deal_locked, deal_item, deal_zeny >>
        BY <1>1 DEF vars, dealVars
  <2>2. Forget
        BY <1>1 DEF vars, dealVars, Forget, IInv, StaleOK
  <2>3. Deal' = Deal /\ Goods' = Goods
        BY <2>1, <2>2, DealsStay
  <2> QED BY <2>1, <2>3
<1>2. ASSUME NEW p \in Players, CheckItem(p) PROVE Hidden \/ Abstract!Disorder(p)
      BY <1>2, CheckItemDisorders
<1>3. ASSUME NEW p \in Players, Step(p), Forget PROVE Hidden \/ Abstract!Next
  <2> USE <1>3
  <2>1.
        \/ \E q \in Players : Request(p, q)
        \/ Refuse(p)
        \/ \E n \in Slots : \E amount \in 1 .. inventory[p][n].amount :
              \/ OfferItem(p, n, amount)
              \/ Lose(p, n, amount)
        \/ \E amount \in 1 .. zeny[p] :
              \/ OfferZeny(p, amount)
              \/ Pay(p, amount)
        \/ Lock(p)
        \/ Commit(p)
        \/ CancelTrade(p)
        \/ Quit(p)
        \/ \E item \in Items : \E amount \in 1 .. world.items[item] :
              Gain(p, item, amount)
        \/ \E amount \in 1 .. world.zeny : Earn(p, amount)
      BY DEF Step
  <2>2. ASSUME NEW q \in Players, Request(p, q) PROVE Hidden \/ Abstract!Withdraw(p)
    <3>1. CASE FreeToTrade(p, q)
      <4>1. /\ trade_partner' = [trade_partner EXCEPT ![p] = q, ![q] = p]
            /\ UNCHANGED << deal_locked, deal_item, deal_zeny, inventory, zeny >>
            BY <2>2, <3>1 DEF Request
      <4>2. deal_locked[p] = 0 /\ deal_locked[q] = 0
            BY <3>1 DEF FreeToTrade, IInv, DealInv, PartnersMutual
      <4>3. \A r \in Players : deal_locked[r] # 0 => trade_partner'[r] = trade_partner[r]
            BY <4>1, <4>2 DEF IInv, DealInv
      <4> QED BY <4>1, <4>3, DealsStay
    <3>2. CASE ~FreeToTrade(p, q)
          BY <2>2, <3>2, CancelWithdraws DEF Request
    <3> QED BY <3>1, <3>2
  <2>3. ASSUME Refuse(p) PROVE Abstract!Withdraw(p)
        BY <2>3, RefuseWithdraws
  <2>4. ASSUME NEW n \in Slots, NEW amount, OfferItem(p, n, amount)
        PROVE  Hidden \/ Abstract!Withdraw(p)
    <3>1. CASE Cancel(p)
          BY <2>4, <3>1, CancelWithdraws DEF OfferItem
    <3>2. CASE ~Cancel(p)
      <4>1. /\ UNCHANGED << trade_partner, deal_locked, deal_zeny, inventory, zeny >>
            /\ \A r \in Players : r # p => deal_item'[r] = deal_item[r]
            BY <2>4, <3>2 DEF OfferItem, IInv, DealInv
      <4>2. deal_locked[p] = 0
        <5>1. deal_locked[p] < 1
              BY <2>4 DEF OfferItem, MayOffer
        <5>2. deal_locked[p] \in 0 .. 2
              BY DEF IInv, DealInv
        <5> QED BY <5>1, <5>2
      <4> QED BY <4>1, <4>2, DealsStay
    <3> QED BY <3>1, <3>2
  <2>5. ASSUME NEW amount, OfferZeny(p, amount) PROVE Hidden
    <3>1. /\ UNCHANGED << trade_partner, deal_locked, deal_item, inventory, zeny >>
          /\ \A r \in Players : r # p => deal_zeny'[r] = deal_zeny[r]
          BY <2>5 DEF OfferZeny, IInv, DealInv
    <3>2. deal_locked[p] = 0
          BY <2>5 DEF OfferZeny, MayOffer, IInv, DealInv
    <3> QED BY <3>1, <3>2, DealsStay
  <2>6. ASSUME Lock(p)
        PROVE  \/ Abstract!Withdraw(p)
               \/ \E q \in Players : Abstract!Lock(p, q)
               \/ Abstract!Decide(p, FALSE)
               \/ Hidden
    <3>1. CASE Overdrawn(p)
          BY <2>6, <3>1, CancelWithdraws DEF Lock
    <3>2. CASE ~Overdrawn(p)
          BY <2>6, <3>2, LockLocks
    <3> QED BY <3>1, <3>2
  <2>7. ASSUME Commit(p)
        PROVE  Abstract!Decide(p, TRUE) \/ Abstract!Withdraw(p) \/ Abstract!Swap(p)
    <3>1. CASE ~PartnerCommitted(trade_partner[p])
          BY <2>7, <3>1, CommitDecides
    <3>2. CASE PartnerCommitted(trade_partner[p]) /\ UNCHANGED << inventory, zeny >>
          BY <2>7, <3>2, CancelWithdraws DEF Commit
    <3>3. CASE ~UNCHANGED << inventory, zeny >>
          BY <2>7, <3>3, CommitSwaps
    <3> QED BY <3>1, <3>2, <3>3
  <2>8. ASSUME CancelTrade(p) PROVE Abstract!Withdraw(p)
        BY <2>8, CancelWithdraws DEF CancelTrade
  <2>9. ASSUME Quit(p) PROVE Hidden \/ Abstract!Withdraw(p)
    <3>1. /\ Goods' = Goods /\ zeny' = zeny
          /\ \A r \in Players : r # p => inventory'[r] = inventory[r]
          BY <2>9, PackedGoods DEF Quit, IInv, HaveInv
    <3>2. CASE Trading(p)
      <4>1. Cancel(p)
            BY <2>9, <3>2 DEF Quit, Cancel
      <4>2. Deal' = Abstract!Without(p)
            BY <3>1, <4>1, CancelEnds
      <4> QED BY <3>1, <4>2 DEF Abstract!Withdraw
    <3>3. CASE ~Trading(p)
      <4>1. /\ UNCHANGED << trade_partner, deal_locked >>
            /\ \A r \in Players : r # p => /\ deal_item'[r] = deal_item[r]
                                           /\ deal_zeny'[r] = deal_zeny[r]
            BY <2>9, <3>3 DEF Quit, IInv, DealInv
      <4>2. deal_locked[p] = 0
            BY <3>3 DEF IInv, DealInv, PartnersMutual
      <4>3. Deal' = Deal
            BY <3>1, <4>1, <4>2, DealsKept
      <4> QED BY <3>1, <4>3
    <3> QED BY <3>2, <3>3
  <2>10. ASSUME NEW amount, Pay(p, amount) PROVE Abstract!Live(p)
        BY <2>10, MoneyLives DEF Pay
  <2>11. ASSUME NEW amount, Earn(p, amount) PROVE Abstract!Live(p)
        BY <2>11, MoneyLives DEF Earn
  <2>12. Hidden \/ Abstract!Next
    <3>1. CASE Hidden
          BY <3>1
    <3>2. CASE \E q \in Players : Abstract!Lock(p, q)
          BY <3>2 DEF Abstract!Next
    <3>3. CASE Abstract!Decide(p, FALSE)
          BY <3>3 DEF Abstract!Next
    <3>4. CASE Abstract!Decide(p, TRUE)
          BY <3>4 DEF Abstract!Next
    <3>5. CASE Abstract!Withdraw(p) \/ Abstract!Swap(p) \/ Abstract!Live(p)
          BY <3>5 DEF Abstract!Next
    <3> HIDE DEF Hidden
    <3> QED BY <2>1, <2>2, <2>3, <2>4, <2>5, <2>6, <2>7, <2>8, <2>9, <2>10, <2>11,
               <3>1, <3>2, <3>3, <3>4, <3>5, LoseLives, GainLives
  <2> QED BY <2>12
<1>4. CASE Next
  <2>1. CASE \E p \in Players : CheckItem(p)
    <3>1. CASE Hidden
          BY <3>1
    <3>2. CASE \E p \in Players : Abstract!Disorder(p)
          BY <3>2 DEF Abstract!Next
    <3> HIDE DEF Hidden
    <3> QED BY <1>2, <2>1, <3>1, <3>2
  <2>2. CASE Forget /\ \E p \in Players : Step(p)
        BY <1>3, <2>2
  <2> QED BY <1>4, <2>1, <2>2 DEF Next
<1> QED BY <1>1, <1>4

LEMMA InitImplements == Init => Abstract!Init
<1> SUFFICES ASSUME Init PROVE Abstract!Init
    OBVIOUS
<1>1. IInv
      BY InitInv
<1>2. Goods \in [Players -> [Items -> Nat]]
      BY <1>1, AmountType DEF Goods, IInv, HaveInv
<1>3. \A p \in Players : Deal[p] = Abstract!NoDeal
      BY <1>1, DealFacts DEF DealOK, Init
<1>4. Deal = [p \in Players |-> Abstract!NoDeal]
  <2>1. Deal = [p \in Players |-> Deal[p]]
        BY DEF Deal
  <2> QED BY <1>3, <2>1
<1> QED BY <1>1, <1>2, <1>4 DEF Abstract!Init, IInv, HaveInv

-----------------------------------------------------------------------------
(* Theorems. *)

\* Everything has the types of the source, however trades and the rest of the
\* game mix.
THEOREM TradeTypes == Spec => []TypeOK
<1>1. IInv => TypeOK
      BY DEF IInv, DealInv, HaveInv, StaleOK, TypeOK
<1> QED BY InitInv, NextInv, <1>1, PTL DEF Spec

\* Trades are between two players who know of each other.
THEOREM TradesAreMutual == Spec => []PartnersMutual
<1>1. IInv => PartnersMutual
      BY DEF IInv, DealInv
<1> QED BY InitInv, NextInv, <1>1, PTL DEF Spec

\* Nobody has locked an offer of something it does not have, unless its slots have been
\* renumbered since.
THEOREM LocksAreBacked == Spec => []LockedIsBacked
<1>1. IInv => LockedIsBacked
      BY DEF IInv
<1> QED BY InitInv, NextInv, <1>1, PTL DEF Spec

\* If items or money change hands and the world's do not, it is by a commit.
LEMMA OnlyCommits ==
    ASSUME IInv, Next, world' = world, ~(Goods' = Goods /\ zeny' = zeny)
    PROVE  \E r \in Players : Commit(r) /\ ~UNCHANGED << inventory, zeny >>
<1>0. ~UNCHANGED << inventory, zeny >>
      BY DEF Goods
<1> SUFFICES ASSUME \A r \in Players : ~Commit(r) PROVE FALSE
    BY <1>0
<1>1. ASSUME NEW p \in Players, NEW n \in Slots, NEW amount, Lose(p, n, amount)
      PROVE  FALSE
  <2> DEFINE item == inventory[p][n].item
  <2>1. item \in Items /\ amount \in Nat /\ amount # 0
    <3>1. inventory[p] \in Bag /\ amount \in 1 .. inventory[p][n].amount
          BY <1>1 DEF Lose, IInv, HaveInv
    <3>2. inventory[p][n].amount \in Nat
          BY <3>1 DEF Bag
    <3>3. amount \in Nat /\ amount # 0 /\ inventory[p][n].amount # 0
          BY <3>1, <3>2
    <3> QED BY <3>1, <3>3 DEF Bag
  <2>2. world' = [world EXCEPT !.items[item] = @ + amount]
        BY <1>1 DEF Lose
  <2> HIDE DEF item
  <2>3. world.items[item] \in Nat /\ world'.items[item] = world.items[item] + amount
        BY <2>1, <2>2 DEF IInv, HaveInv
  <2> QED BY <2>1, <2>3
<1>2. ASSUME NEW p \in Players, NEW item \in Items, NEW amount, Gain(p, item, amount)
      PROVE  FALSE
  <2>1. amount \in Nat /\ amount # 0
        BY <1>2 DEF Gain
  <2>2. world' = [world EXCEPT !.items[item] = @ - amount]
        BY <1>2 DEF Gain
  <2>3. world.items[item] \in Nat /\ world'.items[item] = world.items[item] - amount
        BY <2>1, <2>2 DEF IInv, HaveInv
  <2> QED BY <2>1, <2>3
<1>3. ASSUME NEW p \in Players, NEW amount, Pay(p, amount)
      PROVE  FALSE
  <2>1. amount \in Nat /\ amount # 0
        BY <1>3 DEF Pay
  <2>2. world' = [world EXCEPT !.zeny = @ + amount]
        BY <1>3 DEF Pay
  <2>3. world.zeny \in Nat /\ world'.zeny = world.zeny + amount
        BY <2>1, <2>2 DEF IInv, HaveInv
  <2> QED BY <2>1, <2>3
<1>4. ASSUME NEW p \in Players, NEW amount, Earn(p, amount)
      PROVE  FALSE
  <2> DEFINE new == IF zeny[p] + amount > MaxZeny THEN MaxZeny ELSE zeny[p] + amount
  <2>1. /\ zeny' = [zeny EXCEPT ![p] = new] /\ inventory' = inventory
        /\ world' = [world EXCEPT !.zeny = (@ + zeny[p]) - new]
        BY <1>4 DEF Earn
  <2>2. world.zeny \in Nat /\ zeny[p] \in Nat /\ new \in Nat
        BY <1>4, TradeAssumption DEF Earn, IInv, HaveInv
  <2> HIDE DEF new
  <2>3. world'.zeny = (world.zeny + zeny[p]) - new
        BY <2>1 DEF IInv, HaveInv
  <2>4. new = zeny[p]
        BY <2>2, <2>3
  <2>5. zeny' = zeny
        BY <2>1, <2>4 DEF IInv, HaveInv
  <2> QED BY <1>0, <2>1, <2>5
<1>5. PICK p \in Players :
         \/ \E q \in Players : Request(p, q)
         \/ Refuse(p)
         \/ \E n \in Slots : \E amount \in 1 .. inventory[p][n].amount :
               OfferItem(p, n, amount)
         \/ \E amount \in 1 .. zeny[p] : OfferZeny(p, amount)
         \/ Lock(p)
         \/ CancelTrade(p)
         \/ Quit(p)
         \/ CheckItem(p)
      BY <1>1, <1>2, <1>3, <1>4 DEF Next, Step
<1>6. CASE Quit(p) \/ CheckItem(p)
  <2>1. inventory' = [inventory EXCEPT ![p] = Packed(@)] /\ zeny' = zeny
        BY <1>6 DEF Quit, CheckItem
  <2> QED BY <2>1, PackedGoods
<1>7. CASE ~(Quit(p) \/ CheckItem(p))
  <2>1. UNCHANGED << inventory, zeny >>
        BY <1>5, <1>7 DEF Request, Refuse, OfferItem, OfferZeny, Lock, CancelTrade
  <2> QED BY <1>0, <2>1
<1> QED BY <1>6, <1>7

\* No trade loses items or money, or makes any unless slots that were locked have been
\* renumbered, whatever the sizes of inventories, stacks and trade windows.
THEOREM NothingIsDuplicated == Spec => TradesConserve
<1> DEFINE Same(p) ==
        Trading(p) /\ world' = world =>
            LET q == trade_partner[p]
                Before(x) == Amount(inventory[p], x) + Amount(inventory[q], x)
                After(x) == Amount(inventory'[p], x) + Amount(inventory'[q], x)
            IN  /\ \A x \in Items : After(x) >= Before(x)
                /\ stale \cap {p, q} = {} => \A x \in Items : After(x) = Before(x)
                /\ zeny'[p] + zeny'[q] = zeny[p] + zeny[q]
<1>1. IInv /\ [Next]_vars => [\A p \in Players : Same(p)]_<< inventory, zeny >>
  <2> SUFFICES ASSUME IInv, [Next]_vars, ~UNCHANGED << inventory, zeny >>,
                      NEW p \in Players, Trading(p), world' = world
               PROVE  Same(p)
      OBVIOUS
  <2> DEFINE s == trade_partner[p]
  <2>1. Next
        BY DEF vars
  <2>4. s \in Players /\ s # p /\ trade_partner[s] = p
        BY DEF IInv, DealInv, PartnersMutual, Trading
  <2>0. CASE Goods' = Goods /\ zeny' = zeny
    <3>1. \A t \in Players, x \in Items : Amount(inventory'[t], x) = Amount(inventory[t], x)
          BY <2>0 DEF Goods
    <3>2. \A t \in Players, x \in Items : Amount(inventory[t], x) \in Nat
          BY AmountType DEF IInv, HaveInv
    <3> HIDE DEF s
    <3> QED BY <2>0, <2>4, <3>1, <3>2 DEF s
  <2> SUFFICES ASSUME ~(Goods' = Goods /\ zeny' = zeny) PROVE Same(p)
      BY <2>0
  <2>2. PICK r \in Players : Commit(r) /\ ~UNCHANGED << inventory, zeny >>
        BY <2>1, OnlyCommits
  <2> DEFINE q == trade_partner[r]
  <2>3. /\ q \in Players /\ q # r /\ trade_partner[q] = r
        /\ AfterRound(inventory', r, q, TradeMax)
        /\ zeny'[r] = (zeny[r] - deal_zeny[r]) + deal_zeny[q]
        /\ zeny'[q] = (zeny[q] - deal_zeny[q]) + deal_zeny[r]
        /\ \A t \in Players : t \notin {r, q} => zeny'[t] = zeny[t]
        BY <2>2, CommitFacts
  <2>5. \A t \in Players : zeny[t] \in Nat /\ deal_zeny[t] \in Nat /\ inventory[t] \in Bag
        BY DEF IInv, DealInv, HaveInv
  <2>6. inventory' \in [Players -> Bag]
        BY <2>3 DEF AfterRound
  <2>7. \A t \in Players, x \in Items :
           Amount(inventory[t], x) \in Nat /\ Amount(inventory'[t], x) \in Nat
        BY <2>5, <2>6, AmountType
  <2>8. /\ \A x \in Items : Amount(inventory'[r], x) + Amount(inventory'[q], x)
                              >= Amount(inventory[r], x) + Amount(inventory[q], x)
        /\ stale \cap {r, q} = {} =>
              \A x \in Items : Amount(inventory'[r], x) + Amount(inventory'[q], x)
                                 = Amount(inventory[r], x) + Amount(inventory[q], x)
        /\ \A t \in Players : t \notin {r, q} => inventory'[t] = inventory[t]
        BY <2>3 DEF AfterRound
  <2>9. zeny'[r] + zeny'[q] = zeny[r] + zeny[q]
        BY <2>3, <2>5
  <2>10. /\ zeny'[r] \in Nat /\ zeny'[q] \in Nat
         BY <2>2, CommitFacts
  <2> HIDE DEF q, s
  <2>11. CASE p = r
    <3>1. s = q
          BY <2>11 DEF s, q
    <3> QED BY <2>8, <2>9, <2>11, <3>1 DEF s
  <2>12. CASE p = q
    <3>1. s = r
          BY <2>3, <2>12 DEF s
    <3> QED BY <2>3, <2>7, <2>8, <2>9, <2>10, <2>12, <3>1, <2>5 DEF s
  <2>13. CASE p \notin {r, q}
    <3>1. s \notin {r, q}
          BY <2>3, <2>4, <2>13 DEF q
    <3>2. /\ inventory'[p] = inventory[p] /\ inventory'[s] = inventory[s]
          /\ zeny'[p] = zeny[p] /\ zeny'[s] = zeny[s]
          BY <2>3, <2>4, <2>8, <2>13, <3>1
    <3> QED BY <2>4, <2>7, <3>2 DEF s
  <2> QED BY <2>11, <2>12, <2>13
<1> QED BY <1>1, InitInv, NextInv, PTL DEF Spec, TradesConserve

\* Nobody gets anything of another player, or gives anything, without an
\* agreement of the two, and nobody gives more than it offered.
THEOREM NothingWithoutAgreement == Spec => OnlyByAgreement
<1> DEFINE Changes(p) ==
              /\ world' = world
              /\ \/ zeny'[p] # zeny[p]
                 \/ /\ inventory'[p] # inventory[p]
                    /\ \E x \in Items : Amount(inventory'[p], x) # Amount(inventory[p], x)
           Agreed(p) ==
              LET q == trade_partner[p]
              IN  /\ Trading(p)
                  /\ 2 \in {deal_locked[p], deal_locked[q]}
                  /\ deal_locked[p] >= 1 /\ deal_locked[q] >= 1
                  /\ zeny'[p] >= zeny[p] - deal_zeny[p]
                  /\ \A n \in Slots :
                        inventory'[p][n].amount < inventory[p][n].amount =>
                            \E i \in Offers : deal_item[p][i].index = n
<1>1. IInv /\ [Next]_vars =>
         [\A p \in Players : Changes(p) => Agreed(p)]_<< inventory, zeny >>
  <2> SUFFICES ASSUME IInv, [Next]_vars, ~UNCHANGED << inventory, zeny >>,
                      NEW p \in Players, Changes(p)
               PROVE  Agreed(p)
      OBVIOUS
  <2>0. ~(Goods' = Goods /\ zeny' = zeny)
        BY DEF Goods
  <2>1. PICK r \in Players : Commit(r) /\ ~UNCHANGED << inventory, zeny >>
        BY <2>0, OnlyCommits DEF vars
  <2> DEFINE q == trade_partner[r]
  <2>2. /\ q \in Players /\ q # r /\ trade_partner[q] = r
        /\ deal_locked[r] >= 1 /\ deal_locked[q] = 2
        /\ AfterRound(inventory', r, q, TradeMax)
        /\ zeny'[r] = (zeny[r] - deal_zeny[r]) + deal_zeny[q]
        /\ zeny'[q] = (zeny[q] - deal_zeny[q]) + deal_zeny[r]
        /\ \A t \in Players : t \notin {r, q} => zeny'[t] = zeny[t]
        BY <2>1, CommitFacts
  <2>3. \A t \in Players : zeny[t] \in Nat /\ deal_zeny[t] \in Nat
        BY DEF IInv, DealInv, HaveInv
  <2>4. \A t \in Players, n \in Slots :
           inventory[t][n].amount \in Nat /\ inventory'[t][n].amount \in Nat
    <3>1. inventory \in [Players -> Bag] /\ inventory' \in [Players -> Bag]
          BY <2>2 DEF AfterRound, IInv, HaveInv
    <3> QED BY <3>1 DEF Bag
  <2> HIDE DEF q
  <2>5. p \in {r, q}
        BY <2>2 DEF AfterRound
  <2>6. zeny'[p] >= zeny[p] - deal_zeny[p]
        BY <2>2, <2>3, <2>5
  <2>7. ASSUME NEW n \in Slots, inventory'[p][n].amount < inventory[p][n].amount
        PROVE  \E i \in Offers : deal_item[p][i].index = n
    <3>1. Keeps(inventory', p)
          BY <2>2, <2>5 DEF AfterRound
    <3>2. ~ (inventory[p][n].amount <= inventory'[p][n].amount)
          BY <2>4, <2>7
    <3> QED BY <3>1, <3>2 DEF Keeps
  <2>8. Trading(r) /\ Trading(q)
        BY <2>2, TradeAssumption DEF Trading, q
  <2>9. CASE p = r
        BY <2>2, <2>6, <2>7, <2>8, <2>9 DEF q
  <2>10. CASE p = q
        BY <2>2, <2>6, <2>7, <2>8, <2>10
  <2> QED BY <2>5, <2>9, <2>10
<1> QED BY <1>1, InitInv, NextInv, PTL DEF Spec, OnlyByAgreement

\* A locked deal does not change until it ends.
THEOREM LockedDealsStay == Spec => LockedStays
<1> DEFINE Stays(p) ==
              deal_locked[p] >= 1 /\ trade_partner'[p] # NoPlayer =>
                 /\ trade_partner'[p] = trade_partner[p]
                 /\ deal_locked'[p] >= 1
                 /\ deal_item'[p] = deal_item[p]
                 /\ deal_zeny'[p] = deal_zeny[p]
<1>1. ASSUME IInv, NEW r \in Players, Cancel(r) PROVE \A p \in Players : Stays(p)
  <2>1. CASE ~Trading(r)
        BY <1>1, <2>1 DEF Cancel, dealVars
  <2>2. CASE Trading(r)
        BY <1>1, <2>2 DEF Cancel, Both, IInv, DealInv, PartnersMutual, Trading
  <2> QED BY <2>1, <2>2
<1>2. IInv /\ [Next]_vars => [\A p \in Players : Stays(p)]_vars
  <2> SUFFICES ASSUME IInv, Next, NEW r \in Players, NEW p \in Players PROVE
           /\ \A q \in Players : Request(r, q) => Stays(p)
           /\ Refuse(r) => Stays(p)
           /\ \A n \in Slots : \A amount : OfferItem(r, n, amount) => Stays(p)
           /\ \A n \in Slots : \A amount : Lose(r, n, amount) => Stays(p)
           /\ \A amount : OfferZeny(r, amount) => Stays(p)
           /\ \A amount : Pay(r, amount) => Stays(p)
           /\ Lock(r) => Stays(p)
           /\ Commit(r) => Stays(p)
           /\ CancelTrade(r) => Stays(p)
           /\ Quit(r) => Stays(p)
           /\ \A item \in Items : \A amount : Gain(r, item, amount) => Stays(p)
           /\ \A amount : Earn(r, amount) => Stays(p)
           /\ CheckItem(r) => Stays(p)
      BY DEF Next, Step
  <2>0. \A t \in Players : deal_locked[t] \in 0 .. 2 /\ (~Trading(t) => deal_locked[t] = 0)
        BY DEF IInv, DealInv, PartnersMutual
  <2>1. ASSUME NEW q \in Players, Request(r, q) PROVE Stays(p)
    <3>1. CASE FreeToTrade(r, q)
      <4>1. /\ trade_partner' = [trade_partner EXCEPT ![r] = q, ![q] = r]
            /\ UNCHANGED << deal_locked, deal_item, deal_zeny >>
            BY <2>1, <3>1 DEF Request
      <4>2. deal_locked[r] = 0 /\ deal_locked[q] = 0
            BY <2>0, <3>1 DEF FreeToTrade
      <4>3. CASE p \in {r, q}
            BY <4>2, <4>3
      <4>4. CASE p \notin {r, q}
            BY <2>0, <4>1, <4>4 DEF IInv, DealInv
      <4> QED BY <4>3, <4>4
    <3> QED BY <1>1, <2>1, <3>1 DEF Request
  <2>2. ASSUME Refuse(r) PROVE Stays(p)
        BY <2>2 DEF Refuse, Both, IInv, DealInv, PartnersMutual, Trading
  <2>3. ASSUME NEW n \in Slots, NEW amount, OfferItem(r, n, amount) PROVE Stays(p)
    <3>1. CASE Cancel(r)
          BY <1>1, <3>1
    <3>2. CASE ~Cancel(r)
      <4>1. /\ UNCHANGED << trade_partner, deal_locked, deal_zeny >>
            /\ \A t \in Players : t # r => deal_item'[t] = deal_item[t]
            /\ deal_locked[r] < 1
            BY <2>3, <3>2 DEF OfferItem, MayOffer, IInv, DealInv
      <4> QED BY <2>0, <4>1
    <3> QED BY <3>1, <3>2
  <2>4. ASSUME NEW n \in Slots, NEW amount, Lose(r, n, amount) PROVE Stays(p)
        BY <1>1, <2>4 DEF Lose, Interrupt
  <2>5. ASSUME NEW amount, OfferZeny(r, amount) PROVE Stays(p)
    <3>1. /\ UNCHANGED << trade_partner, deal_locked, deal_item >>
          /\ \A t \in Players : t # r => deal_zeny'[t] = deal_zeny[t]
          /\ deal_locked[r] < 1
          BY <2>5 DEF OfferZeny, MayOffer, IInv, DealInv
    <3> QED BY <2>0, <3>1
  <2>6. ASSUME NEW left, VerifyZeny(r, left) PROVE Stays(p)
    <3>1. CASE Cancel(r)
          BY <1>1, <3>1
    <3>2. CASE UNCHANGED dealVars
          BY <3>2 DEF dealVars
    <3>3. CASE ~Cancel(r) /\ ~UNCHANGED dealVars
      <4>1. /\ UNCHANGED << trade_partner, deal_locked, deal_item >>
            /\ \A t \in Players : t # r => deal_zeny'[t] = deal_zeny[t]
            /\ deal_locked[r] < 1
            BY <2>6, <3>3 DEF VerifyZeny, MayOffer, IInv, DealInv
      <4> QED BY <2>0, <4>1
    <3> QED BY <3>1, <3>2, <3>3
  <2>7. ASSUME NEW amount, Pay(r, amount) PROVE Stays(p)
        BY <2>6, <2>7 DEF Pay
  <2>8. ASSUME Lock(r) PROVE Stays(p)
    <3>1. CASE Overdrawn(r)
          BY <1>1, <2>8, <3>1 DEF Lock
    <3>2. CASE ~Overdrawn(r)
      <4>1. /\ UNCHANGED << trade_partner, deal_item, deal_zeny >>
            /\ deal_locked' = [deal_locked EXCEPT ![r] = 1]
            BY <2>8, <3>2 DEF Lock
      <4>2. deal_locked'[p] = IF p = r THEN 1 ELSE deal_locked[p]
            BY <4>1 DEF IInv, DealInv
      <4> QED BY <4>1, <4>2
    <3> QED BY <3>1, <3>2
  <2>9. ASSUME Commit(r) PROVE Stays(p)
    <3>1. CASE Cancel(r)
          BY <1>1, <3>1
    <3>2. CASE ~Cancel(r)
          BY <2>9, <3>2 DEF Commit, IInv, DealInv
    <3> QED BY <3>1, <3>2
  <2>10. ASSUME CancelTrade(r) PROVE Stays(p)
        BY <1>1, <2>10 DEF CancelTrade
  <2>11. ASSUME Quit(r) PROVE Stays(p)
    <3>1. CASE Trading(r)
      <4>1. Cancel(r)
            BY <2>11, <3>1 DEF Quit, Cancel
      <4> QED BY <1>1, <4>1
    <3>2. CASE ~Trading(r)
      <4>1. /\ UNCHANGED << trade_partner, deal_locked >>
            /\ \A t \in Players : t # r => deal_zeny'[t] = deal_zeny[t]
                                           /\ deal_item'[t] = deal_item[t]
            BY <2>11, <3>2 DEF Quit, IInv, DealInv
      <4>2. deal_locked[r] = 0
            BY <2>0, <3>2
      <4> QED BY <4>1, <4>2
    <3> QED BY <3>1, <3>2
  <2>12. ASSUME NEW item \in Items, NEW amount, Gain(r, item, amount) PROVE Stays(p)
        BY <2>12 DEF Gain, dealVars
  <2>13. ASSUME NEW amount, Earn(r, amount) PROVE Stays(p)
        BY <2>6, <2>13 DEF Earn
  <2>14. ASSUME CheckItem(r) PROVE Stays(p)
        BY <2>14 DEF CheckItem, dealVars
  <2> QED BY <2>1, <2>2, <2>3, <2>4, <2>5, <2>7, <2>8, <2>9, <2>10, <2>11, <2>12, <2>13,
            <2>14
<1> QED BY <1>2, InitInv, NextInv, PTL DEF Spec, LockedStays

\* Trading is an exchange (Exchange): two players lock what they give, and in one step
\* each gets what the other one locked, or of what does not fit less, or both keep all.
\* What a player gives whose locked slots have been renumbered is left open there.
THEOREM TradesExchange == Spec => IsAnExchange
<1>1. IInv /\ IInv' /\ [Next]_vars => [Abstract!Next]_(Abstract!vars)
      BY NextImplements DEF Abstract!vars
<1> QED BY <1>1, InitInv, NextInv, InitImplements, PTL
        DEF Spec, IsAnExchange, Abstract!Spec

=============================================================================
