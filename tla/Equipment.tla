------------------------------ MODULE Equipment ------------------------------
(***************************************************************************)
(* One player's inventory, what of it is worn, what the client shows of it, *)
(* the floor around the player and the shops (pc.cpp, the requests of       *)
(* clif.cpp, npc_buylist and npc_selllist, and what scripts and game master *)
(* commands do to inventories).                                             *)
(*                                                                          *)
(* Each request, statement and command is one step: the server does nothing *)
(* else in between.  The functions of pc.cpp are operators on sd, applied   *)
(* in the order of the calls; seen is what the packets they send have told  *)
(* the client.  Who may take an item from the floor, and from when on, is   *)
(* left open, and so is what is in the storage.                             *)
(***************************************************************************)
EXTENDS Integers, Sequences, FiniteSets, FiniteSetsExt, SequencesExt

CONSTANTS
    Items,          \* ItemNameId
    none,           \* ItemNameId()
    Data,           \* item_db: type, place, weight, look, sex, price and sell of each item
    EQUIPs,         \* places of equipment; a set of them is an EPOS
    MAX_INVENTORY, MAX_AMOUNT, MAX_ZENY, MaxWeight,
    MaxFloor,       \* MAX_FLOORITEM
    Groups,         \* bound: the items that there are in a run, one of these sets
    Shops,          \* those of them that the shop of the run has (a function of Groups)
    Casters         \* bound: those of Groups with which attack spells are used

VARIABLES
    sd,         \* inventory, equip_index_maybe, looks, weight, zeny, sex, spell (whether
                \* attack_spell_override is set), seen: what was told, and as a history
                \* quiet: slots put on without a word
    state,      \* connect_new and what the player is busy with
    compacted,  \* history: @itemcheck was used in this session
    floor,      \* object: the items on the floor
    kinds       \* the member of Groups

vars == << sd, state, compacted, floor, kinds >>

Slots == 0 .. MAX_INVENTORY - 1
Objects == 1 .. MaxFloor
NoSlot == -1
Fist == "fist"
Accessory == {"misc2", "cape"}
Looks == EQUIPs \ ({"weapon", "arrow", "gloves"} \cup Accessory)
Sexes == {"female", "male"}

ASSUME EquipmentAssumption ==
    /\ none \notin Items /\ Groups \subseteq SUBSET Items /\ Casters \subseteq Groups
    /\ MAX_INVENTORY \in Nat \ {0} /\ MAX_AMOUNT \in Nat \ {0} /\ MAX_ZENY \in Nat
    /\ \A id \in Items :
          /\ Data[id].place \subseteq EQUIPs /\ Data[id].sell <= Data[id].price
          \* pc_equipitem: "assert (look_not_weapon != equip_is_weapon)"
          /\ (Data[id].look # Fist) <=> ("weapon" \in Data[id].place)

Empty == [nameid |-> none, amount |-> 0, equip |-> {}]
Stack(id, amount) == [nameid |-> id, amount |-> amount, equip |-> {}]

\* itemdb_isequip2: these take a slot for each
IsEquip(id) == Data[id].type \in {"weapon", "armor"}

Taken(s) == {i \in Slots : s.inv[i].nameid # none}
Free(s) == Slots \ Taken(s)
Sum(inv, Each(_)) ==
    MapThenSumSet(LAMBDA i : inv[i].amount * Each(inv[i].nameid),
                  {i \in DOMAIN inv : inv[i].nameid # none})
Carried(inv) == Sum(inv, LAMBDA id : Data[id].weight)

\* The slots in the order of a loop over IOff0::iter()
InOrder == [i \in 1 .. MAX_INVENTORY |-> i - 1]

\* A loop: FoldLeft as a function, which TLC evaluates once for each element
Through(Step(_, _), s, list) ==
    LET after[k \in 0 .. Len(list)] == IF k = 0 THEN s ELSE Step(after[k - 1], list[k])
    IN  after[Len(list)]

-----------------------------------------------------------------------------
(* What is worn. *)

\* pc_setequipindex: a weapon that is not worn any more leaves its type behind.
SetEquipIndex(s) ==
    LET Worn(e) == {i \in Taken(s) : e \in s.inv[i].equip}
    IN  [s EXCEPT !.idx = [e \in EQUIPs |-> IF Worn(e) = {} THEN NoSlot ELSE Max(Worn(e))],
                  !.weapontype = IF Worn("weapon") = {} THEN @
                                 ELSE Data[s.inv[Max(Worn("weapon"))].nameid].look]

\* A mistake for Unequipped: the type of the weapon stays.
UnequippedOnly(s, n) ==
    LET pos == s.inv[n].equip
    IN  [s EXCEPT !.idx = [e \in EQUIPs |-> IF e \in pos THEN NoSlot ELSE @[e]],
                  !.looks = [e \in Looks |-> IF e \in pos THEN none ELSE @[e]],
                  !.inv[n].equip = {}, !.seen[n].equip = @ \ pos,
                  !.quiet = @ \ {n}]
\* pc_unequipitem
Unequipped(s, n) ==
    LET pos == s.inv[n].equip
    IN  [s EXCEPT !.idx = [e \in EQUIPs |-> IF e \in pos THEN NoSlot ELSE @[e]],
                  !.weapontype = IF "weapon" \in pos THEN Fist ELSE @,
                  !.looks = [e \in Looks |-> IF e \in pos THEN none ELSE @[e]],
                  !.inv[n].equip = {}, !.seen[n].equip = @ \ pos,
                  !.quiet = @ \ {n}]

\* pc_unequipinvyitem: arrows stay.
UnequippedInvy(s, n) ==
    IF \E e \in EQUIPs \ {"arrow"} : s.idx[e] = n
    THEN [Unequipped(s, n) EXCEPT !.idx =
             [e \in EQUIPs |-> IF e # "arrow" /\ @[e] = n THEN NoSlot ELSE @[e]]]
    ELSE s

AllUnequipped(s, slots) == FoldSet(LAMBDA n, t : Unequipped(t, n), s, slots)

\* pc_isequip
MayWear(s, n) == Data[s.inv[n].nameid].sex \in {"any", s.sex}

\* Where pc_equipitem puts the item: an accessory has two places.
PlaceOf(s, n) ==
    LET place == Data[s.inv[n].nameid].place
        worn == UNION {s.inv[s.idx[e]].equip : e \in {a \in Accessory : s.idx[a] # NoSlot}}
    IN  IF place # Accessory THEN place
        ELSE IF worn \cap Accessory = {"cape"} THEN {"misc2"} ELSE {"cape"}

\* pc_equipitem: "Don't update re-equipping if we're using a spell"
Equipped(s, n) ==
    LET pos == PlaceOf(s, n)
        id == s.inv[n].nameid
        untold == pos = {"gloves"} /\ s.spell
        t == AllUnequipped(s, {s.idx[e] : e \in pos} \ {NoSlot})
    IN  [t EXCEPT !.idx = [e \in EQUIPs |-> IF e \in pos THEN n ELSE @[e]],
                  !.inv[n].equip = pos,
                  !.seen[n].equip = IF untold THEN @ ELSE pos,
                  !.quiet = IF untold THEN @ \cup {n} ELSE @,
                  !.weapontype = IF "weapon" \in pos THEN Data[id].look ELSE @,
                  !.looks = [e \in Looks |-> IF e \notin pos THEN @[e]
                                             ELSE IF Data[id].type = "weapon" THEN none ELSE id]]

-----------------------------------------------------------------------------
(* What is carried. *)

StacksOf(s, id) == {i \in Slots : s.inv[i].nameid = id}
OnStack(s, id) == ~IsEquip(id) /\ StacksOf(s, id) # {}

\* pc_additem returns something other than OKAY.
AddFails(s, id, amount) ==
    \/ amount <= 0
    \/ Data[id].weight * amount + s.weight > MaxWeight
    \/ OnStack(s, id) /\ s.inv[Min(StacksOf(s, id))].amount + amount > MAX_AMOUNT
    \/ ~OnStack(s, id) /\ Free(s) = {}

\* pc_additem
Added(s, id, amount) ==
    IF AddFails(s, id, amount) THEN s
    ELSE LET n == IF OnStack(s, id) THEN Min(StacksOf(s, id)) ELSE Min(Free(s))
             More(item) == [item EXCEPT !.nameid = id, !.amount = @ + amount]
         IN  [s EXCEPT !.inv[n] = More(@), !.seen[n] = More(@),
                       !.weight = @ + Data[id].weight * amount]

Less(item, amount) == IF item.amount > amount THEN [item EXCEPT !.amount = @ - amount] ELSE Empty

\* pc_delitem; the trade that it ends is in the actions
Deleted(s, n, amount) ==
    IF s.inv[n].nameid = none \/ amount <= 0 \/ s.inv[n].amount < amount THEN s
    ELSE LET t == IF s.inv[n].amount = amount THEN Unequipped(s, n) ELSE s
         IN  [t EXCEPT !.inv[n] = Less(@, amount), !.seen[n] = Less(@, amount),
                       !.weight = @ - Data[s.inv[n].nameid].weight * amount]

\* pc_checkitem: the slots are filled from the front, and the client is not told.
CheckItem(s) ==
    LET From(k) == CHOOSE i \in Taken(s) : Cardinality({j \in Taken(s) : j < i}) = k
        Fits(item) == IF item.equip \subseteq Data[item.nameid].place THEN item
                      ELSE [item EXCEPT !.equip = {}]
    IN  SetEquipIndex([s EXCEPT !.inv =
            [k \in Slots |-> IF k < Cardinality(Taken(s)) THEN Fits(s.inv[From(k)]) ELSE Empty]])

\* pc_authok, pc_calcstatus
LoggedIn(s) ==
    LET t == CheckItem([s EXCEPT !.weapontype = Fist, !.spell = FALSE])
    IN  [t EXCEPT !.weight = Carried(t.inv)]

NoItems == [i \in Slots |-> Empty]

Init ==
    /\ sd = [inv |-> NoItems, seen |-> NoItems, idx |-> [e \in EQUIPs |-> NoSlot],
             weapontype |-> Fist, looks |-> [e \in Looks |-> none],
             weight |-> 0, zeny |-> MAX_ZENY, sex |-> "female", spell |-> FALSE, quiet |-> {}]
    /\ state = [connect_new |-> TRUE, npc |-> FALSE, trade |-> FALSE, storage |-> FALSE]
    /\ compacted = FALSE
    /\ floor = [o \in Objects |-> Empty]
    /\ kinds \in Groups

-----------------------------------------------------------------------------
(* The session, and what the player is busy with. *)

Amounts == 1 .. MAX_AMOUNT

NoTrade == state' = [state EXCEPT !.trade = FALSE]

\* clif_parse_LoadEndAck: clif_itemlist and clif_equiplist
LoadEndAck ==
    /\ state.connect_new
    /\ LET s == CheckItem(sd)
       IN  sd' = [s EXCEPT !.seen = s.inv, !.quiet = {}]
    /\ state' = [state EXCEPT !.connect_new = FALSE]
    /\ UNCHANGED << compacted, floor, kinds >>

\* map_quit and pc_authok
Relog ==
    /\ sd' = [LoggedIn(sd) EXCEPT !.seen = NoItems, !.quiet = {}]
    /\ state' = [connect_new |-> TRUE, npc |-> FALSE, trade |-> FALSE, storage |-> FALSE]
    /\ compacted' = FALSE
    /\ UNCHANGED << floor, kinds >>

\* A dialog, a trade or the storage begins or ends.
Turn(what) ==
    /\ ~state.connect_new
    /\ state' = [state EXCEPT ![what] = ~@]
    /\ UNCHANGED << sd, compacted, floor, kinds >>

\* map_addflooritem: without a free object the item is nowhere.
OnFloor(f, id, amount) ==
    LET free == {o \in Objects : f[o] = Empty}
    IN  IF free = {} THEN f ELSE [f EXCEPT ![Min(free)] = Stack(id, amount)]

\* map_clearflooritem_timer
ClearFloor(o) ==
    /\ floor[o] # Empty
    /\ floor' = [floor EXCEPT ![o] = Empty]
    /\ UNCHANGED << sd, state, compacted, kinds >>

\* mob_delay_item_drop, builtin_makeitem
MakeItem(id, amount) ==
    /\ floor' = OnFloor(floor, id, amount)
    /\ UNCHANGED << sd, state, compacted, kinds >>

-----------------------------------------------------------------------------
(* Requests of the client. *)

\* clif_parse_TakeItem, pc_takeitem
TakeItem(o) ==
    /\ ~state.npc
    /\ floor[o] # Empty
    /\ ~AddFails(sd, floor[o].nameid, floor[o].amount)
    /\ sd' = Added(sd, floor[o].nameid, floor[o].amount)
    /\ floor' = [floor EXCEPT ![o] = Empty]
    /\ UNCHANGED << state, compacted, kinds >>

Busy == state.npc \/ state.trade \/ state.storage

\* pc_dropitem, of r.s onto r.floor: what is too many is only unequipped.
Dropped(r, n, amount) ==
    LET s == UnequippedInvy(r.s, n)
        item == s.inv[n]
    IN  IF Busy \/ amount <= 0 THEN r
        ELSE IF item.nameid = none \/ item.amount < amount THEN [r EXCEPT !.s = s]
        ELSE [s |-> Deleted(s, n, amount), floor |-> OnFloor(r.floor, item.nameid, amount)]

\* clif_parse_DropItem
DropItem(n, amount) ==
    /\ ~state.npc
    /\ LET r == Dropped([s |-> sd, floor |-> floor], n, amount)
       IN  sd' = r.s /\ floor' = r.floor
    /\ UNCHANGED << state, compacted, kinds >>

\* A mistake for UseItem: clif_useitemack is forgotten, and pc_delitem says nothing.
UseItemUntold(n) ==
    /\ ~state.npc
    /\ sd.inv[n].nameid # none /\ Data[sd.inv[n].nameid].type = "use"
    /\ sd' = [Deleted(sd, n, 1) EXCEPT !.seen = sd.seen]
    /\ NoTrade
    /\ UNCHANGED << compacted, floor, kinds >>

\* clif_parse_UseItem, pc_useitem: clif_useitemack tells how many are left.
UseItem(n) ==
    /\ ~state.npc
    /\ sd.inv[n].nameid # none /\ Data[sd.inv[n].nameid].type = "use"
    /\ LET s == Deleted(sd, n, 1)
       IN  sd' = [s EXCEPT !.seen[n] = IF s.inv[n] = Empty THEN Empty
                                       ELSE [sd.seen[n] EXCEPT !.amount = s.inv[n].amount]]
    /\ NoTrade
    /\ UNCHANGED << compacted, floor, kinds >>

\* clif_parse_EquipItem
EquipItem(n) ==
    /\ ~state.npc
    /\ sd.inv[n].nameid # none
    /\ MayWear(sd, n) /\ PlaceOf(sd, n) # {}
    /\ sd' = Equipped(sd, n)
    /\ UNCHANGED << state, compacted, floor, kinds >>

\* clif_parse_UnequipItem
UnequipItem(n) ==
    /\ ~state.npc
    /\ sd' = Unequipped(sd, n)
    /\ UNCHANGED << state, compacted, floor, kinds >>

\* storage_storageadd, storage_storageget
Store(n, amount) ==
    /\ state.storage
    /\ sd.inv[n].amount >= amount
    /\ sd' = Deleted(UnequippedInvy(sd, n), n, amount)
    /\ NoTrade
    /\ UNCHANGED << compacted, floor, kinds >>
Retrieve(id, amount) ==
    /\ state.storage
    /\ sd' = Added(sd, id, amount)
    /\ UNCHANGED << state, compacted, floor, kinds >>

AddedEach(s, id, amount) == Through(LAMBDA t, i : Added(t, id, 1), s, [i \in 1 .. amount |-> i])

Price(list) == Through(LAMBDA z, b : z + Data[b.nameid].price * b.count, 0, list)
Weight(list) == Through(LAMBDA w, b : w + Data[b.nameid].weight * b.count, 0, list)

\* pc_checkadditem over the whole list
OverAmount(list) ==
    \E i \in DOMAIN list : LET b == list[i] IN
        ~IsEquip(b.nameid)
        /\ b.count + (IF StacksOf(sd, b.nameid) = {} THEN 0
                      ELSE sd.inv[Min(StacksOf(sd, b.nameid))].amount) > MAX_AMOUNT
NewStacks(list) ==
    Through(LAMBDA k, b : k + (IF IsEquip(b.nameid) THEN b.count
                                ELSE IF StacksOf(sd, b.nameid) = {} THEN 1 ELSE 0), 0, list)

\* npc_buylist: it can all be paid and carried.
Buyable(list) ==
    /\ ~OverAmount(list)
    /\ Price(list) <= sd.zeny
    /\ Weight(list) + sd.weight <= MaxWeight
    /\ Cardinality(Free(sd)) >= NewStacks(list)

\* npc_buylist
Buy(list) ==
    /\ Buyable(list)
    /\ ~state.trade
    /\ sd' = Through(LAMBDA s, b : IF b.count > 1 /\ IsEquip(b.nameid)
                                    THEN AddedEach(s, b.nameid, b.count)
                                    ELSE Added(s, b.nameid, b.count),
                      [sd EXCEPT !.zeny = @ - Price(list)], list)
    /\ UNCHANGED << state, compacted, floor, kinds >>

\* npc_selllist: each slot once, and no more than there is
Sellable(list) ==
    /\ \A i, j \in DOMAIN list : i # j => list[i].slot # list[j].slot
    /\ \A i \in DOMAIN list : LET item == sd.inv[list[i].slot] IN
          item.nameid # none /\ item.amount >= list[i].count

\* pc_getzeny
WithZeny(s, z) == [s EXCEPT !.zeny = IF @ + z > MAX_ZENY THEN MAX_ZENY ELSE @ + z]

\* npc_selllist
Sell(list) ==
    /\ Sellable(list)
    /\ ~state.trade
    /\ LET z == Through(LAMBDA a, b : a + Data[sd.inv[b.slot].nameid].sell * b.count, 0, list)
       IN  sd' = Through(LAMBDA s, b : Deleted(s, b.slot, b.count), WithZeny(sd, z), list)
    /\ UNCHANGED << state, compacted, floor, kinds >>

Shopping ==
    \/ \E a, b \in [nameid : Shops[kinds], count : Amounts] : Buy(<< a >>) \/ Buy(<< a, b >>)
    \/ \E a, b \in [slot : Slots, count : Amounts] : Shops[kinds] # {} /\ (Sell(<< a >>) \/ Sell(<< a, b >>))

Request ==
    \/ \E n \in Slots :
          \/ UseItem(n) \/ EquipItem(n) \/ UnequipItem(n)
          \/ \E amount \in Amounts : DropItem(n, amount) \/ Store(n, amount)
    \/ \E o \in Objects : TakeItem(o)
    \/ Shopping

-----------------------------------------------------------------------------
(* The game, scripts and game masters. *)

\* builtin_overrideattack, and the end of the spell: by the same statement, after the
\* last charge (pc_attack_timer) or by death (pc_damage)
Spell(on) ==
    /\ kinds \in Casters
    /\ sd' = [sd EXCEPT !.spell = on, !.weight = Carried(sd.inv)]
    /\ UNCHANGED << state, compacted, floor, kinds >>

\* battle_weapon_attack with a bow: an arrow less
Shoot ==
    /\ ~sd.spell
    /\ sd.weapontype = "bow"
    /\ sd.idx["arrow"] # NoSlot
    /\ sd' = Deleted(sd, sd.idx["arrow"], 1)
    /\ NoTrade
    /\ UNCHANGED << compacted, floor, kinds >>

\* builtin_getitem: what cannot be carried lies on the floor.
GetItem(id, amount) ==
    /\ sd' = Added(sd, id, amount)
    /\ floor' = IF AddFails(sd, id, amount) THEN OnFloor(floor, id, amount) ELSE floor
    /\ UNCHANGED << state, compacted, kinds >>

\* builtin_delitem, pc_remove_items
DelItem(id, amount) ==
    LET Take(r, i) ==
            LET k == IF r.s.inv[i].nameid # id THEN 0
                     ELSE IF r.s.inv[i].amount < r.left THEN r.s.inv[i].amount ELSE r.left
            IN  [s |-> Deleted(r.s, i, k), left |-> r.left - k]
    IN  /\ StacksOf(sd, id) # {}
        /\ sd' = Through(Take, [s |-> sd, left |-> amount], InOrder).s
        /\ NoTrade
        /\ UNCHANGED << compacted, floor, kinds >>

Worn(s) == {i \in Taken(s) : s.inv[i].equip # {}}

\* Items are taken off together: builtin_nude, builtin_unequipbyid, and
\* pc_setparam and chrif_changedsex, after which a player is of the other sex.
TakeOff(s, slots) ==
    /\ sd' = AllUnequipped(s, slots)
    /\ UNCHANGED << state, compacted, floor, kinds >>
Nude == TakeOff(sd, {sd.idx[e] : e \in EQUIPs} \ {NoSlot})
UnequipById(e) == sd.idx[e] # NoSlot /\ TakeOff(sd, {sd.idx[e]})
SetSex(sex) ==
    LET s == [sd EXCEPT !.sex = sex]
    IN  TakeOff(s, {i \in Worn(s) : ~MayWear(s, i)})
ChangedSex(sex) == sd.sex # sex /\ TakeOff([sd EXCEPT !.sex = sex], Worn(sd))

\* @itemreset
ItemReset ==
    /\ sd' = Through(LAMBDA s, i : IF s.inv[i].equip = {} THEN Deleted(s, i, s.inv[i].amount) ELSE s,
                      sd, InOrder)
    /\ NoTrade
    /\ UNCHANGED << compacted, floor, kinds >>

\* @itemcheck
ItemCheck ==
    /\ sd' = CheckItem(sd)
    /\ compacted' = TRUE
    /\ UNCHANGED << state, floor, kinds >>

\* @item: equipment comes one by one.
CreateItem(id, number) ==
    /\ sd' = IF IsEquip(id) THEN AddedEach(sd, id, number) ELSE Added(sd, id, number)
    /\ UNCHANGED << state, compacted, floor, kinds >>

\* What another's inventory, which some commands look at, may have in the slots: more
\* than there is takes nothing.
Another == {has \in [Slots -> 0 .. MAX_AMOUNT] : \A i \in Slots : has[i] <= sd.inv[i].amount}

\* @wipe: what is taken is what the game master has in that slot.
CharWipe(has, worn, id) ==
    /\ sd' = Added(Through(LAMBDA s, i : Deleted(IF i \in worn THEN Unequipped(s, i) ELSE s, i, has[i]),
                            sd, InOrder), id, 1)
    /\ NoTrade
    /\ UNCHANGED << compacted, floor, kinds >>

\* @dropall, @chardropall
DropAll ==
    /\ LET r == Through(LAMBDA t, i : Dropped([t EXCEPT !.s = Unequipped(t.s, i)], i, t.s.inv[i].amount),
                         [s |-> sd, floor |-> floor], InOrder)
       IN  sd' = r.s /\ floor' = r.floor
    /\ UNCHANGED << state, compacted, kinds >>

\* @storeall, and @charstoreall with the amounts that the game master has: what the
\* storage has no room for is only unequipped.
StoreAll(has) ==
    /\ sd' = Through(LAMBDA s, i : Deleted(IF s.inv[i].equip # {} THEN Unequipped(s, i) ELSE s, i, has[i]),
                     sd, InOrder)
    /\ state' = [state EXCEPT !.storage = FALSE, !.trade = FALSE]
    /\ UNCHANGED << compacted, floor, kinds >>

Commands ==
    \/ \E id \in kinds :
          \/ \E number \in Amounts : CreateItem(id, number)
          \/ \E has \in Another, worn \in SUBSET Worn(sd) : CharWipe(has, worn, id)
    \/ \E has \in Another : StoreAll(has)
    \/ DropAll \/ ItemReset \/ ItemCheck

Scripts ==
    \/ \E id \in kinds, amount \in Amounts :
          GetItem(id, amount) \/ DelItem(id, amount) \/ MakeItem(id, amount)
    \/ \E e \in EQUIPs : UnequipById(e)
    \/ \E sex \in Sexes : SetSex(sex) \/ ChangedSex(sex)
    \/ Nude

Next ==
    \/ LoadEndAck \/ Relog
    \/ \E what \in {"npc", "trade", "storage"} : Turn(what)
    \/ \E o \in Objects : ClearFloor(o)
    \/ Request
    \/ \E id \in kinds, amount \in Amounts : Retrieve(id, amount)
    \/ \E on \in BOOLEAN : Spell(on)
    \/ Shoot \/ Scripts \/ Commands

Spec == Init /\ [][Next]_vars

-----------------------------------------------------------------------------
(* What must hold. *)

IsItem(item) ==
    /\ item.nameid \in kinds \cup {none} /\ item.amount \in 0 .. MAX_AMOUNT
    /\ (item.nameid = none) <=> (item.amount = 0)
    /\ item.equip \subseteq EQUIPs

TypeOK ==
    /\ \A n \in Slots : IsItem(sd.inv[n])
    /\ \A e \in EQUIPs : sd.idx[e] \in Slots \cup {NoSlot}
    /\ sd.zeny \in 0 .. MAX_ZENY /\ sd.weight \in Int /\ sd.sex \in Sexes
    /\ sd.spell \in BOOLEAN /\ sd.quiet \subseteq Slots
    /\ \A what \in {"connect_new", "npc", "trade", "storage"} : state[what] \in BOOLEAN
    /\ \A o \in Objects : IsItem(floor[o])

(* What is worn is known in three places: the items' own equip, equip_index  *)
(* of each place, by which battles and bonuses find them, and the looks and  *)
(* the type of the weapon.  No sequence of requests, scripts, shots,         *)
(* compactions and commands makes them disagree: a bow's type without a bow  *)
(* reads inventory_data of slot -1.  An accessory alone may leave an index   *)
(* behind, when it is put on twice (pc_equipitem moves it to its other       *)
(* place).                                                                   *)
EquipmentAgrees ==
    /\ \A e \in EQUIPs, n \in Slots :
          /\ e \in sd.inv[n].equip => sd.idx[e] = n
          /\ sd.idx[e] = n => e \in sd.inv[n].equip \cup Accessory
    /\ sd.weapontype = (IF sd.idx["weapon"] = NoSlot THEN Fist
                        ELSE Data[sd.inv[sd.idx["weapon"]].nameid].look)
    /\ \A e \in Looks :
          LET n == sd.idx[e]
          IN  sd.looks[e] = (IF n = NoSlot \/ Data[sd.inv[n].nameid].type = "weapon"
                             THEN none ELSE sd.inv[n].nameid)

(* The packets tell the client of each change: what it shows in each slot    *)
(* is what is there.  Two exceptions are in the code.  Gloves that are put on *)
(* during an attack spell are worn without a word (pc_equipitem), and stay    *)
(* shown as not worn until they are taken off, the item goes or the player   *)
(* comes anew: no other item and no other field of the slot is touched by    *)
(* that.  And @itemcheck fills the slots from the front and tells nobody, so  *)
(* the next request names another item.                                      *)
ClientKnows ==
    ~state.connect_new /\ ~compacted =>
        \A n \in Slots :
            /\ sd.seen[n] = [sd.inv[n] EXCEPT !.equip = IF n \in sd.quiet THEN {} ELSE @]
            /\ n \in sd.quiet => sd.inv[n].equip = {"gloves"}
=============================================================================
