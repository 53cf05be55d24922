------------------------------- MODULE Storage -------------------------------
(***************************************************************************)
(* The storage of an account, shared by its characters: the copy that a    *)
(* map server keeps from the first time it is opened (map/storage.cpp,     *)
(* intif.cpp), the copy of the char server (char/int_storage.cpp), and the *)
(* saves that carry a character and the storage to it (chrif_save).  Both  *)
(* are reduced to how many pieces of one kind of item are where.           *)
(* Admission is reduced to the packets that order it; GameSession has it.  *)
(***************************************************************************)
EXTENDS Links, FiniteSetsExt

CONSTANTS
    Owner,      \* the account of each character
    Bag,        \* how much each character has to begin with
    Pieces,     \* how many a player tries to move at a time
    Limit       \* how often the environment does each thing

Kinds == {"select", "open", "move", "save", "break"}

ASSUME StorageAssumption ==
    /\ IsFiniteSet(Characters)
    /\ Owner \in [Characters -> Accounts]
    /\ Bag \in [Characters -> Nat]
    /\ Pieces \subseteq Nat \ {0}
    /\ Limit \in [Kinds -> Nat]

VARIABLES
    inventory,      \* char server: in the inventory of each character
    char_storage,   \* char server: storage_db
    sess,           \* map servers: the session of each account
    storage_db,     \* map servers: storage_db
    count           \* how often each thing in Limit has happened

vars == << linkVars, inventory, char_storage, sess, storage_db, count >>

\* rev is the number of the last change to the storage.
Content == [amount : Nat, rev : Nat]

NoSession == [char_id |-> NoChar, auth |-> FALSE, amount |-> 0, storage_open |-> FALSE]
NoStorage == [amount |-> 0, rev |-> 0, dirty |-> FALSE, status |-> 0, known |-> FALSE]

Init ==
    /\ LinksInit
    /\ server_session = [m \in MapServers |-> TRUE]
    /\ char_session = [m \in MapServers |-> TRUE]
    /\ inventory = Bag
    /\ char_storage = [a \in Accounts |-> [amount |-> 0, rev |-> 0]]
    /\ sess = [m \in MapServers |-> [a \in Accounts |-> NoSession]]
    /\ storage_db = [m \in MapServers |-> [a \in Accounts |-> NoStorage]]
    /\ count = [kind \in Kinds |-> 0]

Count(kind) ==
    /\ count[kind] < Limit[kind]
    /\ count' = [count EXCEPT ![kind] = @ + 1]

Online(m, a) == sess[m][a] # NoSession
Playing(m, a) == sess[m][a].auth
Session(m, a, s) == sess' = [sess EXCEPT ![m][a] = s]
Stored(m, a, stor) == storage_db' = [storage_db EXCEPT ![m][a] = stor]

-----------------------------------------------------------------------------
(* Admission.  0x3829, 0x3830, 0x2afc and 0x2afd go through the same        *)
(* connections as the storage and keep their order.                        *)

\* 0x66 (or a server's 0x71 after it) for a player who is not in the game
Select(m, a, c) ==
    /\ Owner[c] = a
    /\ \A n \in MapServers : ~Online(n, a)
    /\ Count("select")
    /\ SendToMap(m, [type |-> "3829", account_id |-> a, char_id |-> c])
    /\ UNCHANGED << server_session, char_session, toChar, offers, inventory,
                    char_storage, sess, storage_db >>

Preauth(m) ==
    /\ FromChar(m, "3829")
    /\ ReadFromCharAndReply(m, [Head(toMap[m]) EXCEPT !.type = "3830"])
    /\ UNCHANGED << server_session, char_session, offers, inventory, char_storage,
                    sess, storage_db, count >>

Invite(m) ==
    LET msg == Head(toChar[m])
    IN  /\ FromMap(m, "3830")
        /\ ReadFromMap(m)
        /\ offers' = offers \cup
              {[account_id |-> msg.account_id, char_id |-> msg.char_id, to |-> m]}
        /\ UNCHANGED << server_session, char_session, toMap, inventory, char_storage,
                        sess, storage_db, count >>

\* 0x72: a session that waits for the character
Enter(m, o) ==
    LET a == o.account_id
    IN  /\ o \in offers /\ o.to = m
        /\ ~Online(m, a)
        /\ offers' = offers \ {o}
        /\ Session(m, a, [NoSession EXCEPT !.char_id = o.char_id])
        /\ SendToChar(m, [type |-> "2afc", account_id |-> a, char_id |-> o.char_id])
        /\ UNCHANGED << server_session, char_session, toMap, inventory, char_storage,
                        storage_db, count >>

Authorize(m) ==
    LET msg == Head(toChar[m])
    IN  /\ FromMap(m, "2afc")
        /\ ReadFromMapAndReply(m, [type |-> "2afd", account_id |-> msg.account_id,
                                   char_id |-> msg.char_id,
                                   amount |-> inventory[msg.char_id]])
        /\ UNCHANGED << server_session, char_session, offers, inventory, char_storage,
                        sess, storage_db, count >>

\* pc_authok, which clears the whole state of the session
AuthOk(m) ==
    LET msg == Head(toMap[m])
    IN  /\ FromChar(m, "2afd")
        /\ ReadFromChar(m)
        /\ IF Online(m, msg.account_id)
           THEN Session(m, msg.account_id,
                        [char_id |-> msg.char_id, auth |-> TRUE,
                         amount |-> msg.amount, storage_open |-> FALSE])
           ELSE UNCHANGED sess
        /\ UNCHANGED << server_session, char_session, toChar, offers, inventory,
                        char_storage, storage_db, count >>

-----------------------------------------------------------------------------
(* Saves. *)

\* A mistake for SavePackets: the storage waits for a save of its own.
OnlyCharacter(m, a) ==
    << [type |-> "2b01", account_id |-> a, char_id |-> sess[m][a].char_id,
        amount |-> sess[m][a].amount] >>
\* The packets of chrif_save: the character, and the storage if it is open and
\* has changed.
SavePackets(m, a) ==
    LET s == sess[m][a]
        stor == storage_db[m][a]
        character == [type |-> "2b01", account_id |-> a, char_id |-> s.char_id,
                      amount |-> s.amount]
        storage == [type |-> "3011", account_id |-> a,
                    amount |-> stor.amount, rev |-> stor.rev]
    IN  IF s.storage_open /\ stor.dirty THEN << character, storage >>
                                        ELSE << character >>

chrif_save(m, a) ==
    toChar' = IF Open(m) THEN [toChar EXCEPT ![m] = @ \o SavePackets(m, a)] ELSE toChar

SaveCharacter(m) ==
    LET msg == Head(toChar[m])
    IN  /\ FromMap(m, "2b01")
        /\ ReadFromMap(m)
        /\ inventory' = [inventory EXCEPT ![msg.char_id] = msg.amount]
        /\ UNCHANGED << server_session, char_session, toMap, offers, char_storage,
                        sess, storage_db, count >>

\* mapif_parse_SaveStorage, and the answer
SaveStorage(m) ==
    LET msg == Head(toChar[m])
    IN  /\ FromMap(m, "3011")
        /\ ReadFromMapAndReply(m, [type |-> "3811", account_id |-> msg.account_id])
        /\ char_storage' = [char_storage EXCEPT ![msg.account_id] =
                               [amount |-> msg.amount, rev |-> msg.rev]]
        /\ UNCHANGED << server_session, char_session, offers, inventory, sess,
                        storage_db, count >>

\* A mistake for StillInUse: an answer is taken to be about the last change.
NeverInUse(stor) == FALSE
\* Another: the test is the wrong way round.
InUseNoMore(stor) == stor.status = 0
StillInUse(stor) == stor.status # 0

\* storage_storage_saved
StorageSaved(m) ==
    LET a == Head(toMap[m]).account_id
        stor == storage_db[m][a]
    IN  /\ FromChar(m, "3811")
        /\ ReadFromChar(m)
        /\ IF StillInUse(stor) THEN UNCHANGED storage_db
                               ELSE Stored(m, a, [stor EXCEPT !.dirty = FALSE])
        /\ UNCHANGED << server_session, char_session, toChar, offers, inventory,
                        char_storage, sess, count >>

\* pc_autosave
Autosave(m, a) ==
    /\ Playing(m, a)
    /\ Count("save")
    /\ chrif_save(m, a)
    /\ UNCHANGED << server_session, char_session, toMap, offers, inventory,
                    char_storage, sess, storage_db >>

-----------------------------------------------------------------------------
(* The storage. *)

\* storage_storageopen.  Until the storage is there, the player may ask again.
OpenStorage(m, a) ==
    LET stor == storage_db[m][a]
    IN  /\ Playing(m, a)
        /\ ~sess[m][a].storage_open
        /\ Count("open")
        /\ IF ~stor.known
           THEN /\ SendToChar(m, [type |-> "3010", account_id |-> a])
                /\ UNCHANGED << sess, storage_db >>
           ELSE /\ stor.status = 0
                /\ Stored(m, a, [stor EXCEPT !.status = 1])
                /\ Session(m, a, [sess[m][a] EXCEPT !.storage_open = TRUE])
                /\ UNCHANGED toChar
        /\ UNCHANGED << server_session, char_session, toMap, offers, inventory,
                        char_storage >>

\* mapif_load_storage
SendStorage(m) ==
    LET a == Head(toChar[m]).account_id
    IN  /\ FromMap(m, "3010")
        /\ ReadFromMapAndReply(m, [type |-> "3810", account_id |-> a,
                                   amount |-> char_storage[a].amount,
                                   rev |-> char_storage[a].rev])
        /\ UNCHANGED << server_session, char_session, offers, inventory, char_storage,
                        sess, storage_db, count >>

\* A mistake for Loadable: what has not been saved is not looked at.
AnyClosed(stor) == stor.status = 0
Loadable(stor) == stor.status = 0 /\ ~stor.dirty

\* intif_parse_LoadStorage: opens the storage for whatever session there is.
LoadStorage(m) ==
    LET msg == Head(toMap[m])
        a == msg.account_id
    IN  /\ FromChar(m, "3810")
        /\ ReadFromChar(m)
        /\ IF Online(m, a) /\ Loadable(storage_db[m][a])
           THEN /\ Stored(m, a, [amount |-> msg.amount, rev |-> msg.rev, dirty |-> FALSE,
                                 status |-> 1, known |-> TRUE])
                /\ Session(m, a, [sess[m][a] EXCEPT !.storage_open = TRUE])
           ELSE UNCHANGED << sess, storage_db >>
        /\ UNCHANGED << server_session, char_session, toChar, offers, inventory,
                        char_storage, count >>

\* A session and the storage after pieces have gone from one to the other.
Moved(m, a, inBag, inStorage) ==
    /\ Playing(m, a) /\ sess[m][a].storage_open
    /\ Count("move")
    /\ Session(m, a, [sess[m][a] EXCEPT !.amount = inBag])
    /\ Stored(m, a, [storage_db[m][a] EXCEPT !.amount = inStorage, !.dirty = TRUE,
                                             !.rev = count["move"] + 1])
    /\ UNCHANGED << linkVars, inventory, char_storage >>

Enough(n, amount) == n <= amount

\* storage_storageadd
Add(m, a, n) ==
    LET s == sess[m][a]
        stor == storage_db[m][a]
    IN  /\ stor.status # 0
        /\ Enough(n, s.amount)
        /\ Moved(m, a, s.amount - n, stor.amount + n)

\* storage_storageget, which does not ask for the status
Get(m, a, n) ==
    LET s == sess[m][a]
        stor == storage_db[m][a]
    IN  /\ Enough(n, stor.amount)
        /\ Moved(m, a, s.amount + n, stor.amount - n)

\* A mistake for ClosedSession: the session is not told.
LeftOpen(s) == s
ClosedSession(s) == [s EXCEPT !.storage_open = FALSE]

\* storage_storageclose, and storage_storage_quit when the player goes elsewhere,
\* which does not ask for the status
CloseStorage(m, a) ==
    /\ Playing(m, a) /\ sess[m][a].storage_open
    /\ IF storage_db[m][a].status # 0 THEN chrif_save(m, a) ELSE UNCHANGED toChar
    /\ Stored(m, a, [storage_db[m][a] EXCEPT !.status = 0])
    /\ Session(m, a, ClosedSession(sess[m][a]))
    /\ UNCHANGED << server_session, char_session, toMap, offers, inventory,
                    char_storage, count >>

\* clif_delete and map_quit: the player leaves.  One whose character has not
\* come yet waits for it, unless the connection it would come by is lost.
Quit(m, a) ==
    /\ Online(m, a)
    /\ Session(m, a, NoSession)
    /\ IF Playing(m, a)
       THEN /\ chrif_save(m, a)
            /\ IF sess[m][a].storage_open
               THEN Stored(m, a, [storage_db[m][a] EXCEPT !.status = 0])
               ELSE UNCHANGED storage_db
       ELSE /\ ~char_session[m]
            /\ UNCHANGED << toChar, storage_db >>
    /\ UNCHANGED << server_session, char_session, toMap, offers, inventory,
                    char_storage, count >>

-----------------------------------------------------------------------------
(* Failures. *)

\* One end of a connection closes: the first is a failure, the second follows.
Break(m) ==
    /\ \/ CharEndCloses(m)
       \/ MapEndCloses(m)
    /\ IF Open(m) THEN Count("break") ELSE UNCHANGED count
    /\ UNCHANGED << offers, inventory, char_storage, sess, storage_db >>

\* The map server is killed, and everything it knows is gone.
Crash(m) ==
    /\ MapEndCloses(m)
    /\ Count("break")
    /\ sess' = [sess EXCEPT ![m] = [a \in Accounts |-> NoSession]]
    /\ storage_db' = [storage_db EXCEPT ![m] = [a \in Accounts |-> NoStorage]]
    /\ offers' = {o \in offers : o.to # m}
    /\ UNCHANGED << inventory, char_storage >>

Reconnect(m) ==
    /\ ~server_session[m] /\ ~char_session[m]
    /\ server_session' = [server_session EXCEPT ![m] = TRUE]
    /\ char_session' = [char_session EXCEPT ![m] = TRUE]
    /\ UNCHANGED << toMap, toChar, offers, inventory, char_storage, sess, storage_db,
                    count >>

-----------------------------------------------------------------------------
CharReads(m) ==
    \/ Invite(m) \/ Authorize(m) \/ SaveCharacter(m) \/ SaveStorage(m) \/ SendStorage(m)
MapReads(m) ==
    \/ Preauth(m) \/ AuthOk(m) \/ StorageSaved(m) \/ LoadStorage(m)

Player(m, a) ==
    \/ \E c \in Characters : Select(m, a, c)
    \/ Autosave(m, a) \/ OpenStorage(m, a) \/ CloseStorage(m, a) \/ Quit(m, a)
    \/ \E n \in Pieces : Add(m, a, n) \/ Get(m, a, n)

Next ==
    \E m \in MapServers :
        \/ CharReads(m)
        \/ MapReads(m)
        \/ \E o \in offers : Enter(m, o)
        \/ \E a \in Accounts : Player(m, a)
        \/ Break(m) \/ Crash(m) \/ Reconnect(m)

Spec == Init /\ [][Next]_vars

\* do_sendrecv and do_parsepacket: a packet that has arrived is handled.
Fairness == \A m \in MapServers : WF_vars(CharReads(m)) /\ WF_vars(MapReads(m))
FairSpec == Spec /\ Fairness

-----------------------------------------------------------------------------
(* Properties. *)

\* What the char server and the map servers send.
CharPackets ==
    [type : {"3829"}, account_id : Accounts, char_id : Characters]
    \cup [type : {"2afd"}, account_id : Accounts, char_id : Characters, amount : Nat]
    \cup [type : {"3810"}, account_id : Accounts, amount : Nat, rev : Nat]
    \cup [type : {"3811"}, account_id : Accounts]
MapPackets ==
    [type : {"3830", "2afc"}, account_id : Accounts, char_id : Characters]
    \cup [type : {"2b01"}, account_id : Accounts, char_id : Characters, amount : Nat]
    \cup [type : {"3010"}, account_id : Accounts]
    \cup [type : {"3011"}, account_id : Accounts, amount : Nat, rev : Nat]

\* Everything has the types of the source.
TypeOK ==
    /\ toMap \in [MapServers -> Seq(CharPackets)]
    /\ toChar \in [MapServers -> Seq(MapPackets)]
    /\ server_session \in [MapServers -> BOOLEAN]
    /\ char_session \in [MapServers -> BOOLEAN]
    /\ offers \subseteq [account_id : Accounts, char_id : Characters, to : MapServers]
    /\ inventory \in [Characters -> Nat]
    /\ char_storage \in [Accounts -> Content]
    /\ sess \in [MapServers -> [Accounts ->
           [char_id : Characters \cup {NoChar}, auth : BOOLEAN, amount : Nat,
            storage_open : BOOLEAN]]]
    /\ \A m \in MapServers : \A a \in Accounts :
          Playing(m, a) => sess[m][a].char_id \in Characters
    /\ storage_db \in [MapServers -> [Accounts ->
           [amount : Nat, rev : Nat, dirty : BOOLEAN, status : {0, 1}, known : BOOLEAN]]]
    /\ count \in [Kinds -> Nat]

Owned(a) == {c \in Characters : Owner[c] = a}
Total(inv, a) == MapThenSumSet(LAMBDA c : inv[c], Owned(a))

Unbroken == count["break"] = 0

\* The char server has a character and the storage from the same moment, except
\* between the two packets of one save: nothing that it writes to disk, or gives to
\* another map server, has lost or doubled what went from one to the other.
\* chrif_save sends the two in a row, and only an open storage.
SavedTogether ==
    Unbroken =>
        \A a \in Accounts :
            \/ Total(inventory, a) + char_storage[a].amount = Total(Bag, a)
            \/ \E m \in MapServers : FromMap(m, "3011") /\ Head(toChar[m]).account_id = a

\* What the map server has of a storage is never replaced by something older,
\* however late an answer to 0x3010 is and however often the player has asked:
\* "Already have storage, and it has been modified and not saved yet!"
NotOverwritten ==
    [][\A m \in MapServers : \A a \in Accounts :
          storage_db'[m][a].known => storage_db'[m][a].rev >= storage_db[m][a].rev]_storage_db

\* A storage that is closed and not marked dirty has been saved, or its save is
\* on its way: 0x3811 does not say which save it answers.
CleanIsSaved ==
    Unbroken =>
        \A m \in MapServers : \A a \in Accounts :
            LET stor == storage_db[m][a]
            IN  stor.known /\ stor.status = 0 /\ ~stor.dirty =>
                    \/ char_storage[a].rev = stor.rev
                    \/ \E i \in DOMAIN toChar[m] :
                          /\ toChar[m][i].type = "3011"
                          /\ toChar[m][i].account_id = a
                          /\ toChar[m][i].rev = stor.rev

\* A session that may move items has a storage, marked as in use: storage_storageget
\* asks neither, and what it takes from a storage that is not marked could be
\* replaced under it or taken for saved.
OpenIsMarked ==
    \A m \in MapServers : \A a \in Accounts :
        sess[m][a].storage_open =>
            storage_db[m][a].known /\ storage_db[m][a].status = 1

\* "Modified By Valaris to save upon closing": what was changed in a storage that
\* is closed now is saved in the end, unless it is opened again or a connection
\* is lost.
ClosedIsSaved ==
    \A m \in MapServers : \A a \in Accounts :
        storage_db[m][a].dirty /\ storage_db[m][a].status = 0
            ~> \/ ~storage_db[m][a].dirty \/ storage_db[m][a].status = 1
               \/ ~Unbroken
=============================================================================
