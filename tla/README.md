# A verification project for The Mana World's servers (tmwa)

tmwa is the server software of the game The Mana World: three processes that
speak a packet protocol over TCP to each other and to the players' clients.
This directory holds TLA+ modules that model its core, configurations that check
them with TLC, and proofs that TLAPS checks. Every definition is translated from
the source; `PROJECT.json` ("map") names the lines each one stands for.

    tlc -workers 2 -config SessionSafety.cfg MCGameSession
    tlapm GameSession_proofs.tla

## 1. The system

```
                      accounts            characters, parties, storages
   client --1--> tmwa-login            (text files, saved by SaveFile)
                    |  ^ 0x2715 0x2731            |
                    v  |                          v
   client --2--> tmwa-char  <== connections ==> tmwa-map (one or more)
                    0x65-0x68      (Links)        ^  0x72, the game
                                                  |
   client --3-------------------------------------+
```

Each process is one thread: a main loop (`high/core.cpp`, `net/socket.cpp`)
that runs due timers, polls the sockets, and calls the parser of each session
that has data. Handlers run to the end without interruption. What makes the
system hard is therefore not threads but what happens *between* handlers of
different processes - packets cross, a connection is lost at one end and not yet
at the other, a client has three connections and may act on any of them - and
*inside* of handlers of the map server, where a script that starts in the middle
of one changes what the rest of it works on.

| component | state | operations | what makes it correct |
|---|---|---|---|
| login server (`login/login.cpp`), administration (`admin/ladmin.cpp`) | accounts in memory and on disk, its own `auth_fifo`, `server[]`, the GM list | login, creation, deletion, bars, `##` variables, orders of administrators | a login is announced to each char server and answered; a number stands for one account; the copies of an account's variables agree |
| char server, sessions (`char/char.cpp`) | `auth_fifo` (a ring), `char_session_data`, `char_keys`, `server_session[]`, `server[]` | 0x65-0x68 of clients; 0x2af8-0x2b05, 0x3830 of map servers; 0x2715, 0x2731 of the login server | only the owner of a character, with a login of the account, is admitted; no save goes back in time; a selection is answered |
| char server, inter (`char/inter.cpp`, `int_party.cpp`, `int_storage.cpp`) | who is online where, parties, storages, account variables | whispers routed and counted; parties, storages and variables kept and relayed | a whisper is answered with the truth; all copies of a party, storage or variable agree |
| saving (`char.cpp`, `io/lock.cpp`) | the text files, their backups, `pid` of the saving child | autosave by a forked child, save at the end, rotation, start | a save never replaces a newer one; the last one can be found again |
| map server, connection and admission (`map/chrif.cpp`, `clif.cpp`, `pc.cpp`) | `chrif_state`, its own `auth_fifo`, the sessions | connect and reconnect, 0x3829, 0x72, 0x2afd/0x2afe, ban, save, return, change of server | a player is admitted with the character asked for, or thrown out |
| trades, storage, items (`map/trade.cpp`, `storage.cpp`, `pc.cpp`) | a deal in each of two sessions; a storage with dirty and open flags; inventory, what is worn, what the client shows | trade, open, move, close; wear, use, drop, buy, sell, scripts, GM commands | items and money are neither made nor lost, and go only where both agreed; what is worn, calculated and shown is the same |
| players (`pc.cpp`, `skill*.cpp`, `magic*.cpp`) | levels, points, effects, spells, the calculated status | growth, resets, effects, death, GM commands | points agree with the table; the status is that of the last change |
| monsters (`mob.cpp`) | state, timer, target, master of each mob | AI, walking, attacking, casting, death, return | no mob is stuck, lost or doubled |
| NPCs and scripts (`npc.cpp`, `script-call.cpp`, `script-fun.cpp`) | the dialog of a player, running scripts, timers, puppets | click, answer, nested events, destruction | a dialog resumes where it stopped; nothing of a freed NPC is used |
| client interface (`clif.cpp`, `map.cpp`) | blocks, and what each screen shows | walk, warp, spawn, die, hide, load | a screen shows what is there |
| sockets, timers, files, containers, packets, S-expressions | buffers, heaps | library code | modelled where it matters (Links), otherwise taken as working |

`PROJECT.json` lists all of them with what is modelled ("components"), and every
place in the code that is hard to test, with the properties that watch it
("hazards").

### How a player gets into the game

1. The login server tells every char server about a login (0x2715), counts their
   answers (0x2742), and sends the client to them (0x0069); a char server queues
   an entry with `delflag` 2.
2. The client presents its ids (0x65). The entry is used up (`delflag` 1) and
   the client's session is authenticated.
3. The client selects a character (0x66). The char server asks *every* map
   server to expect the client (0x3829) and sets `consumed_by` to 0.
4. Each map server queues an entry and answers (0x3830). Each answer is counted;
   when as many have come as there are servers, the char server queues an entry
   with `delflag` 3 and sends the client to the server of its map (0x0071).
5. The client connects there (0x72). The map server finds its own entry, makes a
   session, and asks the char server (0x2afc).
6. The char server finds the entry of step 4 and sends the character (0x2afd,
   `pc_authok`) or refuses (0x2afe, `pc_authfail`).
7. The map server saves the character now and then (0x2b01), and when the player
   leaves. A player may return to step 3 (0x2b02) or walk to a map of another
   server (0x2b05).

## 2. The modules

| module | models | state and actions |
|---|---|---|
| `Links` | connections between the char server and each map server | the two ends of each connection, the packets under way in each direction, the invitations (0x0071, 0x0092) clients hold. Sending, reading, closing of either end; what was under way to the end that stays open arrives as a prefix |
| `CharServer` | `char.cpp` | the ring, the client sessions, the characters, the maps announced; one action per packet |
| `MapServer` | `chrif.cpp`, and what admits, saves and ends a session in `clif.cpp`, `pc.cpp`, `map.cpp` | `chrif_state`, the map server's ring, `heard` (other servers' maps), `sess` (one session per server and account, as `map_id2sd` finds it); one action per packet and per operation of a client |
| `GameSession` | both with `Links`, and login server and clients as environment | `Limits` bounds how often the environment acts; `Orderly` restricts clients to one thing at a time |
| `SaveFile` | autosaves, the save at the end, `WriteLock`, kills, starts | what is in memory and under each name on disk, as the moment of its last change; the save that the server and its child each have under way |
| `Exchange` | what trading promises: two players lock goods, agree, and swap in one step | the abstract specification of `Trade` |
| `Trade` | `trade.cpp`, and what gives, takes and counts items and money in `pc.cpp` | inventories slot by slot, money, and the deal in each session; one action per packet of a trade, and one per operation of the rest of the game that takes or gives something, ends a deal or corrects it |
| `Storage` | an account's storage in `storage.cpp`, `intif.cpp`, `int_storage.cpp`, and `chrif_save` | the storages of the char server and of each map server, bags in sessions and in the char server, the connections of `Links` |
| `Login` | `login.cpp` with the char servers as far as they speak with it, and `ladmin.cpp` | accounts in memory and on disk, logins that wait for answers, slots of char servers, the GM list, orders of administrators |
| `Accounts` | `Login` and the `##` variables, passwords, sex, e-mail of accounts | their copies in each character's record and session, and the packets that carry them up and down |
| `Party` | `int_party.cpp`, `map/party.cpp`, `intif.cpp` | the char server's table, each map server's copy with its pointers at sessions, the characters' records |
| `Messages` | `Party`, and whispers, announcements and `#` variables in `inter.cpp`, `intif.cpp`; flood and spam limits | who is believed to be online where, whispers that wait for an answer, variables in the table and in sessions |
| `Mobs` | `mob.cpp` on one map | state, timers, target, master of each mob; one action per timer, per blow, per script that strikes mobs |
| `Players` | levels, points, hp, poison of one character | one action per way to gain, lose, spend and reset, of players and GMs |
| `Status` | `Players` and `pc_calcstatus` | what is calculated from, and what was calculated; effects, gear, focused skills, spells that replace the attack |
| `Battle` | `battle.cpp`; `mob_init` and `mob_mutate`, how strong a mob is born | no state: what one being's blow can do to another, by the numbers of both, the attackers around, and chance |
| `Fights` | `Status` and `Battle`: the character and others against one mob, and `mob_damage`, `party_exp_share` | the mob with its log of who did what; `did`, `paid`, `shared` record for the properties what each did and got; one action per blow, cast, drain, heal, spawn |
| `Dialogs` | NPCs, their scripts and one player | `run`, the C++ stack of scripts that run inside of each other; the player's dialog, timers, queues, puppets |
| `Equipment` | one player's items in `pc.cpp`, `clif.cpp`, `npc.cpp` | inventory, `equip_index`, looks, what the client shows, the floor, shops |
| `Sight` | blocks, areas, insight and outsight in `map.cpp`, `clif.cpp` | where each being is, who is in the blocks, what each client shows |
| `MC...` | instances for TLC | rosters, items, budgets, symmetry |
| `..._proofs` | theorems | section 5 |

Names follow the source. Packets are records with the packet's number as `type`
and only the fields that a handler looks at. Abstractions worth knowing:

- One action is one handler with everything it calls, because the main loop does
  nothing else in between. Scripts inside of handlers are the exception that
  `Dialogs` is about; in `Mobs` the scripts that a death starts strike any set
  of other mobs within the death (`Entourage`, `Damage`).
- A login is a pair `<<n, k>>`: `n` numbers it (the two random ids the login
  server makes up), `k` counts the increments of `login_id1` by which a map
  server makes a client's ids useless (`chrif_accountban`).
- A character's data is `rev`, a counter of what happened to it in the game, and
  `at`, the map server of its map. `rev` is enough to see a save undone.
- One 0x2b04 packet stands for the several that the code sends in a row.
- `ConnectToChar` waits until the char server has noticed the loss of the last
  connection of the same map server. The code does not check this: it relies on
  the ten seconds between two attempts.
- An `assert` that fails sets `aborted`, and the char server takes no step after it.
- In `Trade`, weights are any choice of what is too heavy, and an item that
  leaves the players goes to `world`, from where it can come back: a property
  of trades speaks of the steps that leave `world` alone. Where the server would
  abort, the model takes no step. `pc_checkitem` renumbers slots also in the middle of a
  trade (`CheckItem`); `stale` remembers who had locked offers of such slots, and the
  properties and `Exchange` say what they still promise then. A second 0x2afd for an
  account that is in the game clears one side of a trade in `pc_authok` (`pc.cpp:861`);
  `Trade` has `pc_authok` only together with `map_quit`, in `Quit`, which ends both sides.
- In `Login`, a child of `check_auth_sync` holds the table of its fork (`children`) until it
  has written it, also when the server has ended or been started again meanwhile. Without a
  child the server writes itself. A write of the file is one step.
- In `Storage`, a storage and a bag are numbers of pieces of one kind of item, and `rev`
  numbers its changes: no packet of the code carries it; it is how a property tells
  an old storage from a new one. Admission has the packets of `GameSession` whose order
  matters (also in `Party` and `Messages`), but every selection is accepted.
- In `Mobs`, distances are left open: two beings are near enough or not, as the
  step likes. A spell that a mob casts as it dies sets a timer there; in the code one
  without a cast time takes effect inside of the death itself (`mob.cpp:3252`). In `Sight`
  distances are what it is about, and everything else is left out.
- In `Dialogs`, a script is a free choice of the statements that start, stop or
  move scripts. A puppet of a puppet is not modelled: `run_script_l` would take
  the script of its parent, which has none (`script-call.cpp:979`).
- In `Status`, formulas are left out: what is calculated is what it was calculated from.
  In `Fights`, what `pc_calcstatus` finds is any of a set of records (`Builds`) instead;
  `Battle` computes from them what the code computes, and a random number is the set
  of its outcomes. `Raise` is the code's `*= 1.15` on an `int`, through a `double`; what
  level a friend has who kills is left open, and so is the order of entries with the
  same damage (`std::sort`).
- In `Equipment`, the storage, and who may take what from the floor, are left open. Of a
  spell that replaces the attack only its being there counts (`spell`).

## 3. The runs

| run | asks | instance | states |
|---|---|---|---|
| `session_safety` | Can anything clients do, with a ban and a break or crash, mix up accounts, characters and logins? | 1 map server, 2 accounts with a character each, 2 client connections, rings of 2; 2 logins, 2 connections, 2 selections, 1 ban, 1 break; servers start unconnected | 632 016 |
| `session_orderly` | Does admission work, is every selection answered, do saves never go back, and do servers find each other again, for a client that does one thing at a time? | 2 map servers, 1 account, 3 characters; one of four budgets: two logins with a deletion; a game with a walk and a return; a creation; three breaks | 126 023 |
| `save_files` | Can a save be lost or go back? | 2 files, 3 backups, 3 moments, 2 kills at any step | 77 440 |
| `trade` | Is a trade an exchange, whatever else happens? | 3 players, 2 slots each, 2 places in the window, a stack of up to 2, a sword, 3 money; at most 3 of 2 trades and 1 other change, and renumbering at any time | 119 325 |
| `storage` | Is anything lost or doubled between a bag and the storage, and does what is closed get saved? | 1 map server, 1 account, 2 characters, 2 pieces; 2 selections, 3 openings, 2 moves, 1 autosave, 1 break or crash | 283 851 |
| `login` | Are logins announced and answered, numbers unique, and the copies of variables equal? | 3 names, 2 char servers, 2 clients; one of 17 budgets, each for one part of what can happen | 232 048 |
| `party` | Do the copies of parties and variables agree, and are whispers answered with the truth? | 2 accounts, 3 characters, 2 map servers; one of 15 budgets, each for one part of what can happen | 625 705 |
| `mobs` | Is a mob ever stuck, and does the boss come back? | a boss that comes back, one that is summoned, a player, 2 hp | 101 472 |
| `players` | Do points agree with the table, is the status current, and is a death paid to those who did it? | one character, and a friend against a mob of 3 hp and level 21 that is born with one of four mutations, summoned or not, with `pk_mode`; one of 6 budgets of steps of growth, life, change and fight, up to level 255 | 380 222 |
| `dialogs` | Do dialogs go on where they stopped, and is nothing of a freed NPC left? | an NPC with labels, its puppet, a shop; five groups of statements with scripts of 2 commands, nested 2 deep, and 3 or 4 requests | 99 378 |
| `equipment` | Do the places where it is known what is worn agree, and does the client show what is there? | six groups of two or fewer items, one of them with attack spells, 2 slots, amounts up to 2 | 75 762 |
| `sight` | Does a screen show what is there, and all of it? | two of a player, another player, a mob, an NPC, an item; a map of 4 x 4 cells with an area of 1 and blocks of 2, and a house of one cell | 198 221 |

All of them hold. Each property has a mutant of a definition of the code that
breaks it ("mutants").

**Bounds.** Rings have 2 entries instead of 256, so that they wrap and overwrite
within two logins. Two accounts are enough to mix one with another, two
selections or two connections to let packets of two sessions cross, and two map
servers for the count of answers and for the exchange of maps to matter. The
limits bound only the environment (logins, selections, kills...): servers answer
as much as they like. Where one budget for everything would be too large, there
are several, each for one way in which things go wrong, and the run has all of
them as initial states. Three backups instead of nine and at most two kills let
the newest table be pushed to the last-but-one backup. In `trade`, two slots and
two places in the window are enough for an inventory that is full, a stack that
is full and one that is offered twice, and the third player for a request in the
middle of a trade; a slot that is empty in front of one that is not lets a renumbering
move what is offered; the sum of the money stays far below the width of `int`
(see the hazard at `pc_getzeny`). In `storage`, two characters and two selections let a
session end and another of the account begin while packets of the first are under way;
three openings let one be asked for twice before the answer and once more after a
close. There is one map server: with two, the code keeps two copies of a storage that
differ (see the hazard at `storage_storage_save`). In `players`, levels are any of 1,
20 and 255, the ends and the middle of the table; the mob is 20 levels above a character
of level 1 and not above the same character when it has risen, so that the raise of
`pk_mode` can end in the middle of the log. In `dialogs`, two nested scripts let an
inner one start while an outer one waits to go on; two commands let it do something
before and after. In `equipment`, each group has the items that share places or follow the same rule. In
`sight`, an area of one cell on a map of four has cells away from the border, and a step
in each direction comes into and goes out of sight.

**Fairness.** `FairSpec` of `GameSession` and `Storage`, and `AccSpec`, say that a server
handles a packet that has arrived: `do_sendrecv` polls every socket and
`do_parsepacket` runs every parser in each turn of the main loop. `ReconnectSpec`
adds the timer of `check_connect_char_server` (every ten seconds) and that the
end of a connection is noticed (end of file, or the anti-freeze timer). Clients
and administrators owe nothing. In `SaveFile`, the autosave timer runs again and
again, and a process that saves is scheduled. In `Mobs`, timers that were set
run: `mob_delayspawn`, the corpse's `mob_timer`, the end of a cast. The
liveness properties are `SelectionIsAnswered`, `ServersFindEachOther`, `ChangesReachDisk`, `ClosedIsSaved`,
`LoginIsAnswered` and `KilledComeBack`.

## 4. What the properties say

*Sessions.*
- `BelongsTogether`, `OnlyOwnCharacters`, `AdmittedByLogin`: no handler compares
  all of a packet. `pc_authok` looks a session up by its account alone, 0x2b01
  replaces the key of a record by that in the packet, the rings are overwritten
  without looking. That nobody gets another account's character rests on what
  each sender can have put into its packets, hop by hop.
- `LoginOpensOneSession`: the ids of one login open one session on the char
  server, until the player comes back from the game.
- `OfferIsBacked`: whoever is sent to a map server is expected there and will be
  let in. With clients that do several things at a time this fails: entries are
  overwritten, counts mixed.
- `KeyMatchesSession`, `SavesNeverGoBack`: the character in the game is the one
  asked for, and no save undoes a later one. Both are about a client that does one
  thing at a time. One that selects two characters in turn and enters twice gets
  the character of the first 0x2afd in the session of the second.
- `SelectionIsAnswered`, `ServersFindEachOther`: no client stays between two
  servers, and after breaks every map server gets back.

*Files.* `NewestInPlace`, `BackupsInOrder`, `ChangesReachDisk`: the newest table that was
put in place can be found under one of the names, the backups go back in time, and
autosaves go on after a child was killed.

*Trades and storage.*
- `IsAnExchange`: what a player sees of `trade.cpp` is `Exchange`. `trade_tradecommit`
  adds to one inventory before it removes from the other and does not look at the
  result of the removal; nothing is doubled as long as no slot is offered twice and
  the offers are backed. One thing takes the backing away: `pc_checkitem` (`@itemcheck`,
  or the end of loading) renumbers slots and leaves the offers' numbers. Who had locked
  such offers is `stale` until the deal ends: `LockedIsBacked` speaks of all others, and
  `Exchange` lets a swap with somebody who is not `sure` give and make what it likes,
  but lose no item and keep the money.
- `PartnersMutual`, `LockedIsBacked`, `OnlyByAgreement`: the steps of a trade are
  packets of two clients in any order, with the rest of the game in between.
- `SavedTogether`, `CleanIsSaved`, `ClosedIsSaved`, `NotOverwritten`, `OpenIsMarked`: a storage is
  saved by the second of two packets, its answer does not say which save it answers,
  and the answer to an opening replaces everything. Two flags of the storage and one of
  the session, each set and cleared in several files, keep late answers from undoing
  changes. `SavedTogether`, `CleanIsSaved` and `ClosedIsSaved` say nothing once a connection
  has been lost: the code then keeps the storage dirty and the character saved without
  it, until somebody opens it.

*Accounts, parties, messages.*
- `OfferedServersKnow`, `LoginIsAnswered`: 0x2742 are counted, and compared with the number of
  char servers connected now. `IdsNameOneAccount`: a number is never given to two accounts
  unless the file did not know it at a start: after a kill, or after an end in order that
  an older child of `check_auth_sync` outlived. `VariablesAgree`: every change carries all
  variables, so two changes that meet undo each other; all others reach every copy.
- `CopiesAgree`, `ShareIsFair`: each packet tells a copy of a party only what changed, and
  some go to one server alone.
- `AnswersAreTrue`, `AccountVariablesAgree`: a whisper and its answer are routed by lists
  that may be old; the answer to the first request for variables replaces those in the
  session.

*The game.*
- `MovesOnTimers`, `KilledComeBack`: `mob_ai_sub_hard` leaves a mob alone that attacks
  already, so a lost timer would be for good. Some ten functions set and cancel it.
- `StatusPointsAccounted`, `StatusIsCurrent`: points come in six places and go in three;
  some forty places must calculate the status anew after what they change.
- `RewardsAreFair`: the log of a mob is kept through its life and read at its death, when
  whoever struck may be dead, away, or in a party with somebody who did nothing; masters
  get what their mobs did, a heal of the mob takes nothing back, and what nobody is logged
  for is paid to nobody. The limit is twice the worth, and with `pk_mode` that and 15
  percent of it: the raise comes after the limit.
- `DialogsGoOn`, `NothingOfTheFreed`: scripts that start inside of a player's script write
  the same session; scripts destroy NPCs whose scripts run.
- `EquipmentAgrees`, `ClientKnows`: what is worn is known in three places, and the client
  is told of each change by a packet of its own - except for gloves that are put on
  during an attack spell (`pc.cpp:4940`), which are shown as not worn: `quiet` has their
  slots, and the property says that this is all in which the client errs.
- `NothingOfTheGone`, `NobodyIsMissed`: each walker finds at each step whom to tell, from
  where the others are at that moment. Packets that say where somebody is are sent
  without a look at the blocks (`clif_fixpos`, `clif_fixpcpos`, `clif_movechar`): of whom they
  were sent while it was in no block is `early`, and `NothingOfTheGone` speaks of all others.

## 5. What is proved

For every value of the constants - any number of servers, accounts, players,
mobs, NPCs, items, any rings, maps, inventories and limits:

| module | theorem | states |
|---|---|---|
| `GameSession_proofs` | `TypeCorrect` | `Spec => []TypeOK` |
| | `AllBelongsTogether` | `Spec => []BelongsTogether` |
| | `CharactersStayWithOwners` | `Spec => []OnlyOwnCharacters` |
| | `AdmissionNeedsLogin` | `Spec => []AdmittedByLogin` |
| | `LoginsAreUsedOnce` | `Spec => []LoginOpensOneSession` |
| `SaveFile_proofs` | `SaveTypes` | `Spec => []TypeOK` |
| | `SavesKeepTheNewest` | `OneWriter` implies `Spec => []NewestInPlace` |
| | `BackupsGoBackInTime` | `OneWriter` implies `Spec => []BackupsInOrder` |
| `Trade_proofs` | `TradeTypes` | `Spec => []TypeOK` |
| | `TradesAreMutual` | `Spec => []PartnersMutual` |
| | `LocksAreBacked` | `Spec => []LockedIsBacked` |
| | `NothingIsDuplicated` | `Spec => TradesConserve` |
| | `NothingWithoutAgreement` | `Spec => OnlyByAgreement` |
| | `LockedDealsStay` | `Spec => LockedStays` |
| | `TradesExchange` | `Spec => IsAnExchange`: `Trade` implements `Exchange` |
| `Storage_proofs` | `StorageTypes` | `Spec => []TypeOK` |
| | `NothingMovesUnmarked` | `Spec => []OpenIsMarked` |
| | `LateAnswersAreHarmless` | `OneServer /\ Spec => NotOverwritten` |
| | `ClosedStoragesAreSaved` | `OneServer /\ Spec => []CleanIsSaved` |
| | `SavesCarryBoth` | `OneServer /\ Spec => []SavedTogether` |
| `Mobs_proofs` | `MobsMoveOnTimers` | `Orderly /\ Spec => []MovesOnTimers` |
| | `KilledAreScheduledOnce` | `Orderly /\ Spec => []KilledAreDue` |
| `Dialogs_proofs` | `DialogTypes` | `Spec => []Types` |
| | `TheFreedAreForgotten` | `Spec => []NothingOfTheFreed` |
| | `DialogsAreNotMixedUp` | `Spec => []DialogsGoOn` |
| `Sight_proofs` | `SightTypes` | `Spec => []TypeOK` |
| | `ScreensShowWhatIsThere` | `Spec => []NothingOfTheGone` |
| | `AwayFromBordersNobodyIsMissed` | `Spec => NobodyIsMissed` |
| `Players_proofs` | `CharactersAreTyped` | `FightSpec => []TypeOK` |
| | `PointsAreAccounted` | `FightSpec => []StatusPointsAccounted` |
| | `StatusStaysCurrent` | `FightSpec => []StatusIsCurrent` |
| | `RewardsStayFair` | `FightSpec => []RewardsAreFair` |

**Assumptions.** The named assumptions of the modules (`GameAssumption`, `TradeAssumption`,
`SightAssumption`, ...) say that constants are of their kinds: rosters have distinct
ids with the right owners, rings and maps are not empty, who warps lands on a
cell one can stand on, labels are in the order of their times. Where something is summed
(the characters of an account in `Storage`, skills in `Players`, fighters in `Fights`), there are
finitely many. A character begins with 5 in each parameter, so
`MaxParameter` is at least 5. TLC evaluates all of them in every run. Seven theorems have
a hypothesis more:

- `OneWriter`, for the two theorems on saves: the server does not save at its end
  while its child still saves. The code does not guarantee it (section 6).
- `OneServer`, for `NotOverwritten`, `CleanIsSaved` and `SavedTogether`: there is one map server. With two,
  the first keeps its copy of a storage after the player left, and a late save of it
  replaces what the second has saved.
- `Orderly`, for mobs: no script that a death starts strikes the mob that is dying
  (`Reentrant = FALSE`). If one does, `mob_spawn`'s assertion can fail (section 6).

`CleanIsSaved` and `SavedTogether` themselves say nothing once a connection was lost.

**Sessions.** `OnlyOwnCharacters` is not inductive: a 0x2afd under way must carry a
character of its account, which comes from a 0x2afc, an entry, a 0x3830, a selection, and so
on back to 0x66. The invariant `IInv` therefore says of *every* place where
data about a player can be - tables, rings, sessions, packets in both
directions, invitations - that it belongs together: `CharInv`, `MapInv`,
`LinkInv` and `EnvInv`, one set of well-formed values per place. Each handler
takes a value from one such set and puts one into another; there is one lemma
per handler (`PreauthStep`, `SelectStep`, ...), and lemmas for sending, reading and
losing packets that they share. `issued` only grows, which keeps what was
well-formed well-formed (`MoreLogins`). `LoginsAreUsedOnce` adds `OnceInv`: while nobody has
returned to the selection, no 0x2b02 is under way, the ids of an unused entry are
in no other unused entry and in no session of a client, and no two clients have
the same ids. A new login has a number that nothing in the rings or sessions has yet.

**Saves.** `OrderInv` adds to the two properties that at most one process
saves (`WhoSaves`), that memory is at least as new as the newest table put in
place, and that what a process has still to put in place is at least that new
(`AgeOK`). The renames keep the order whatever was missing (`RenamedInOrder`).

**Trades.** `IInv` has four parts. `DealInv` says that partners are
mutual and that each window is filled from its first place and offers no slot twice
(`OffersOK`), also when offers of a refused trade are still in it; `HaveInv` gives
what players have its types; `LockedIsBacked` is the property itself; `StaleOK` says that
only who has locked can be stale. `PackedFacts` says that a renumbering keeps the sum of
every item, and `CheckItemStep` that it leaves who is not stale its backing. That a
commit keeps the sum of every item needs sums over slots and over the rounds of the
window, for inventories of any size: both are recursive functions, and the facts
about them (`AfterRound`, and those that say what adding to and removing from a slot does
to a sum) are proved by induction with `Induction`, a lemma about subsets of `Nat`
that follows from the least element of a nonempty one. `AfterRound` says that after each
round the slots still to be given are as they were, which is why an addition in an
earlier round cannot invalidate a later removal. `TradesExchange` maps each action
of `Trade` to one of `Exchange`, or to no step: a lock to `Lock`, trade and a second ok to
`Decide`, what ends a deal to `Withdraw`, the commit of the second to `Swap`, the rest of the game
to `Live`, and a renumbering of locked offers to `Disorder`. The deal of a player exists for `Exchange` when it is locked; what it promises
is summed over the window.

**Storage.** `IInv` has one part per place: `LinkInv` for packets under way, `CharInv` for
the char server, `MapInv` for the map servers. `MapInv` says of each session and the storage of
its account that the pair is `Sound`: an open session has a storage that is known and
marked. `LateAnswersAreHarmless` needs the whole way of an account's packets, `Flow`: answers
to openings come before answers to saves, requests for openings before saves, what is
under way towards a map server that has a clean copy brings the same copy, and a map
server that has no copy has sent no save. A dirty or open storage ignores an answer; a
clean one gets what it has. `ClosedStoragesAreSaved` adds `Saved`: the last save under way, or else the
char server's copy, is what the map server has, unless the storage is open and dirty.

`SavesCarryBoth` is about two values that change in two places, at two times. `CharNow` is what the
char server has: the inventories and the storages. `Course` says what it will have after
each packet that is on its way to it; before each of them every account adds up to what
it was given (`Even`), unless that packet is the account's 0x3011, the second of a save,
which puts it right. Then what the map server has is compared with the *end* of the course
(`Amounts`): a session has what the char server will have of its character, and a clean
storage what it will have of the storage; while a storage is open and dirty, only the sum of both
agrees. So a move of pieces keeps the sum, a save of both makes the end of the course agree
piece by piece, and a save of the character alone - only of one whose storage is closed
or clean - changes nothing (`FineSaved`). What an answer under way brings must agree too:
0x2afd and 0x3810 carry what the end of the course has (`Carries`, `Loads`), because no save of the
account is behind the request (`Order`). The invariant also says whose each character is
(`Owning`), for the sum is over the characters of one account, and a save of one account must not
change that of another. Sums over finite sets are `MapThenSumSet` of the library, a
recursive function: `IsSum` says what it does, `SumExists`, `SumIs` and `SumsDiffer` are
proved by induction over the size of the set.

**Mobs.** The property is nearly inductive; what it lacks is what mobs are *off* the map.
`MobInv` says that each mob is `Alive` (its timer runs if and only if it walks or attacks, and
no spawn waits) or `Away` (exactly one spawn waits if it comes back, none if not; a mob
that was never there has no timer). The hard steps are those that end with
`mob_changestate` after other mobs have died in the middle (`AttackTimer`, `Damage`): the
attacker may have fallen itself, and then its timer is set all the same. A death takes its
slaves along: `Entourage` is the least set closed under slaves, and a lemma says that all
of it was on the map.

**Dialogs.** `DialogInv` has two halves. `FreedInv`: scripts that run are of NPCs that
are there, no timer and no puppet is left of one that is freed, and the label timer ends
with its NPC. `OneDialog`, while no dialog was cut short: of the scripts that
run inside of each other at most one is the player's; while one that began as a
dialog runs, the session is with its NPC, and otherwise the session can go on. Each
statement pushes a script, pops one, changes the innermost, or leaves the stack
alone; one lemma for each (`StartedStep`, `LeftStep`, `GoesOnStep`, `QuietStep`) reduces an action to
what it does to the session.

**Sight.** Who is in the blocks depends on the state of the session (`OneSession`): a client
that has loaded is in them, one that loads is not and shows nothing - unless its player
walks, sits or is shown before it has loaded or after it has left the blocks, which is the
exception (`early`) that both properties name. With it, `NothingOfTheGone` is inductive. For `NobodyIsMissed`, lemmas about areas say which of two
strips a step enters and leaves in each of eight directions, and why away from the
border their union is the difference of the two areas.

**Players.** `FightInv` has a part per module. `PlayersInv`: the character has its types, and a
regular one has spent and kept what the table says. What parameters cost is a sum
of a recursive function; that a level-up pays what the table says, that raising step by
step costs as much as the difference, and that a reset gives all of it back, rest on lemmas by
induction (`Induction`). `StatusInv`: `Current` says that the last calculation had
the parameters with what gear and skills add, the level, what is worn, the effects and
the spell in place of an attack; each operation is shown to end in a calculation or to
leave alone what one depends on. `FoeInv`: while a mob is there its log is what each has done to it in this life; with
`RewardsAreFair` itself it is inductive. Its hard part is the arithmetic of `Payout`: shares
are monotone in what one did (products and divisions of naturals), at most twice the worth, and a sum over a
party is positive only if some share is. Whose entries are raised is a set from the top of
the log (`FromTheTop`), and raising keeps the order (`RaiseRises`), so who did more still gets
no less when the killer's level changes in the middle.

**Only model-checked.** TLAPS has no rule for fairness or `ENABLED` here, so every liveness
property stays with TLC: `SelectionIsAnswered`, `ServersFindEachOther`, `ChangesReachDisk`,
`ClosedIsSaved`, `LoginIsAnswered`, `KilledComeBack` (of which `KilledAreScheduledOnce` is the safety part). Of the
safety properties these have no theorem yet:

- `OfferIsBacked`, `KeyMatchesSession`, `SavesNeverGoBack`: they hold for orderly clients, and the
  invariant must follow each selection of each account through all servers at once.
- `OfferedServersKnow`, `IdsNameOneAccount`, `VariablesAgree`, `CopiesAgree`, `ShareIsFair`, `AnswersAreTrue`,
  `AccountVariablesAgree`: the copies of variables and the spam weights use folds over
  sequences (`SelectSeq`, `FoldSeq`), about which no theorem can be cited here.
- `EquipmentAgrees`, `ClientKnows`: each action of `Equipment` walks through slots and places in
  its own order, and the invariant needs a lemma for each.

## 6. What the code does that one would not expect

Met while modelling; the models have these as the code does them.

- A client whose session stays open after 0x0071 can delete the character whose entry
  waits for 0x2afc; the `assert` "uh-oh - deleted while in queue?" (`char.cpp:1785`)
  then ends the char server.
- A walk to another server leaves an entry with `delflag` 0, which nothing accepts
  (`char.cpp:1935`): the other server is never reached.
- `term_func` saves while the child of an autosave may still save (`char.cpp:2825`), so an
  older table can be the last one.
- An answer of type 4 ends a trade and keeps the offers (`trade.cpp:112`), which
  belong to the next trade; pressing ok again takes trade back (`trade.cpp:229`).
- `@itemcheck` in the middle of a trade moves items to other slots and leaves the offers
  (`pc.cpp:5119`): the commit gives copies of what is in the slots now, the removal of
  more than is there fails unnoticed (`trade.cpp:400`), and items are doubled. If an
  offered item is gone before the lock, the next offer aborts the server.
- `pc_authok` clears `storage_open` but not `storage_status` (`pc.cpp:846`): after an answer
  that came before it, the account cannot open its storage until the server is restarted.
- With two map servers, a late save of the first replaces a newer storage of the second.
- A session whose party changes stays in the copy of its old party, which then points at
  freed memory (`party.cpp:616`); a char server that was killed gives out party ids
  again, and the map servers that know them exit (`party.cpp:130`).
- An account variable set before the answer to the first request is undone by it
  (`intif.cpp:383`), and the others are lost in the char server's table. Of two changes of
  `##` variables that meet, one is lost. A whisper's answer is lost when its sender is
  not yet on a list of players (0x2aff). What a player says first counts as a repetition.
- An account's number is written up to five minutes after it was given out (`login.cpp:677`).
  `term_func` of the login server writes at once and does not wait for the child that
  writes an older table (`login.cpp:3260`): when the child is last, accounts are gone and their numbers
  are given out again, without any kill.
- With `pk_mode`, experience is raised after it was limited to twice the worth
  (`mob.cpp:2615`), and whether it is raised can change from one entry of the log to the next,
  when the killer's own reward has raised its level.
- Gloves put on during an attack spell are worn, and the client is not told
  (`pc.cpp:4940`).
- A client that sits down, or whose character is shown anew, while it loads is shown to
  others although it is in no block, and nobody is told when it goes (`clif.cpp:4386`).
- An event script that kills the mob that is dying schedules a second spawn, and the
  assertion in `mob_spawn` fails (`mob.cpp:1131`).
- `overrideattack` with one charge inside of the spell's own script loses the spell.
- `@charwipe` walks through the inventory of the GM and removes from that of the other
  (`atcommand.cpp:3735`); `@setup` throws away the texts it builds (`atcommand.cpp:533`);
  `@itemcheck` fills the slots from the front and tells the client nothing.
- An accessory that is put on twice moves to its other place and leaves its index in the
  first (`pc.cpp:4911`).
- Near the border of a map, diagonal steps hide beings that are still in sight.
- A puppet of a puppet would run the null script of its parent (`script-call.cpp:979`).

## 7. Plan

Done: all modules of section 2; the proofs of section 5.

What remains:

1. `OfferedServersKnow` and `IdsNameOneAccount` of `Login`: which servers have been told of a
   login that waits, and which numbers were given out.
2. `KeyMatchesSession`, with an invariant that says for orderly clients that all that is
   under way for an account is of one selection.
3. `CopiesAgree`, by what is under way to each copy.
4. What mobs drop and players loot, with `Fights` and `Equipment` together.

## 8. What is not modelled, and why

The formulas of `pc_calcstatus`, of magic and of the yields of skills are arithmetic over large
records and random numbers, with little control; those of `battle.cpp` are in `Battle`. What
a mob drops and who may loot it are left out. The parser of scripts and its stack of
values, item and quest tables, and maps are read at the start and do not
change. Path search is a pure algorithm: a walker in the models takes any step
that is free. Parsing and building of packets is generated code. Buffers of
sockets, the timer heap, strings and containers are library code with unit
tests. In `GameSession`, what the game does to a character between two saves is
one step, `Play`. Passwords' hashes, address lists and the log do not touch what is
modelled. In `SaveFile` a failing disk appears only as the abort it causes, and
power failures, which can undo renames, are left out. Whoever reads through a
pointer to a freed session (`Party`) leaves the model.
