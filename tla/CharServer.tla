----------------------------- MODULE CharServer -----------------------------
(***************************************************************************)
(* tmwa-char (char.cpp): the queue of authentication entries, the client   *)
(* sessions, the table of characters, and the handlers of the packets that *)
(* admit a client, through a character selection, to a map server.         *)
(***************************************************************************)
EXTENDS Links

CONSTANTS
    Owner,       \* the account that each id in Characters belongs to, or will
    Roster,      \* the characters read from the file at start, in order
    Conns,       \* client connections to the char server
    Start,       \* the map server of start_point
    CharFifo     \* length of auth_fifo (256 in the code)

ASSUME CharServerAssumption ==
    /\ Owner \in [Characters -> Accounts]
    /\ Start \in MapServers
    /\ CharFifo \in Nat \ {0}
    /\ Roster \in Seq([account_id : Accounts, char_id : Characters,
                       rev : Nat, at : MapServers])
    /\ \A i \in DOMAIN Roster : Roster[i].account_id = Owner[Roster[i].char_id]
    /\ \A i, j \in DOMAIN Roster :
          Roster[i].char_id = Roster[j].char_id => i = j

VARIABLES
    char_keys,       \* the characters: key (account, id) and data (rev, at)
    used_ids,        \* the ids below char_id_count
    auth_fifo,       \* AuthFifoEntry auth_fifo[]
    auth_fifo_iter,  \* index of the entry to be written next
    conns,           \* char_session_data of each client connection
    maps,            \* server[m].maps: has m sent its list of maps (0x2afa)?
    aborted          \* an assert() of the char server has failed

charVars ==
    << char_keys, used_ids, auth_fifo, auth_fifo_iter, conns, maps, aborted >>

-----------------------------------------------------------------------------
(* A character's data is abstracted to rev, which counts what happened to it *)
(* in the game, and at, the map server of its map.                           *)

Owned(a) == {c \in Characters : Owner[c] = a}

Ring == 1 .. CharFifo
EmptyEntry == [account_id |-> NoAccount, char_id |-> NoChar,
               login |-> NoLogin, delflag |-> 0]
Closed == [account_id |-> NoAccount, login |-> NoLogin,
           auth |-> FALSE, consumed_by |-> 0]

First(S) == CHOOSE i \in S : \A j \in S : i <= j
Last(S) == CHOOSE i \in S : \A j \in S : j <= i

CharInit ==
    /\ char_keys = Roster
    /\ used_ids = {Roster[i].char_id : i \in DOMAIN Roster}
    /\ auth_fifo = [i \in Ring |-> EmptyEntry]
    /\ auth_fifo_iter = 1
    /\ conns = [k \in Conns |-> Closed]
    /\ aborted = FALSE

SlotWithoutWrap == auth_fifo_iter   \* mutant: the end of the ring is forgotten

\* if (auth_fifo_iter == auth_fifo.end()) auth_fifo_iter = auth_fifo.begin()
Slot == IF auth_fifo_iter > CharFifo THEN 1 ELSE auth_fifo_iter

Enqueue(entry) ==
    /\ auth_fifo' = [auth_fifo EXCEPT ![Slot] = entry]
    /\ auth_fifo_iter' = Slot + 1

\* mutant: a selection by the id alone
PositionsById(a, c) == {i \in DOMAIN char_keys : char_keys[i].char_id = c}

\* The characters that a loop over char_keys for these two ids may stop at.
Positions(a, c) == {i \in DOMAIN char_keys : /\ char_keys[i].account_id = a
                                             /\ char_keys[i].char_id = c}

\* mutant: a character of the account, not the one with the id
OfAccountOf(c) == {i \in DOMAIN char_keys : char_keys[i].account_id = Owner[c]}

WithId(c) == {i \in DOMAIN char_keys : char_keys[i].char_id = c}

\* The map servers that a selection waits for.
OneServer == 1      \* mutant: the first answer is enough
ConnectedServers == Cardinality({s \in MapServers : server_session[s]})

search_mapserver(m) == IF server_session[m] /\ maps[m] THEN m ELSE Nowhere

-----------------------------------------------------------------------------
(* Packets from the login server. *)

\* 0x2715: the login server announces a login of account a.
PreauthFromLogin(a, login) ==
    LET mine == {i \in Ring : auth_fifo[i].account_id = a}
        entry == [account_id |-> a, char_id |-> NoChar,
                  login |-> login, delflag |-> 2]
    IN  /\ ~aborted
        /\ \/ /\ mine # {}
              /\ auth_fifo' = [auth_fifo EXCEPT ![Last(mine)] = entry]
              /\ UNCHANGED auth_fifo_iter
           \/ /\ mine = {}
              /\ Enqueue(entry)
        /\ UNCHANGED << char_keys, used_ids, conns, maps, aborted, linkVars >>

\* disconnect_player: the first client session of the account is ended.
DisconnectPlayer(a) ==
    LET of_a == {k \in Conns : conns[k].account_id = a}
    IN  \/ of_a = {} /\ UNCHANGED conns
        \/ \E k \in of_a : conns' = [conns EXCEPT ![k] = Closed]

\* 0x2731: account a has been banned, or its status has changed.
BanFromLogin(a) ==
    /\ ~aborted
    /\ SendToAllMaps([type |-> "2b14", account_id |-> a])
    /\ DisconnectPlayer(a)
    /\ UNCHANGED << char_keys, used_ids, auth_fifo, auth_fifo_iter, maps, aborted,
                    server_session, char_session, toChar, offers >>

-----------------------------------------------------------------------------
(* Packets from clients (parse_char). *)

\* The entries that match what the client presents.
LoginsByIds(a, login) ==    \* mutant: the account is not compared
    {i \in Ring : auth_fifo[i].login = login /\ auth_fifo[i].delflag = 2}
LoginEntries(a, login) ==
    {i \in Ring : /\ auth_fifo[i].account_id = a
                  /\ auth_fifo[i].login = login
                  /\ auth_fifo[i].delflag = 2}

KeepEntry(i) == auth_fifo       \* mutant: the entry is not used up
UseUp(i) == [auth_fifo EXCEPT ![i].delflag = 1]

\* 0x65: a client presents the ids it got from the login server.  busy stands
\* for count_users() having reached max_connect_user.
ConnectChar(k, a, login, busy) ==
    LET found == LoginEntries(a, login)
        session == [account_id |-> a, login |-> login,
                    auth |-> ~busy, consumed_by |-> 0]
    IN  /\ ~aborted
        /\ \/ /\ found # {}
              /\ auth_fifo' = UseUp(First(found))
              /\ conns' = [conns EXCEPT ![k] = session]
           \/ /\ found = {}
              /\ conns' = [conns EXCEPT ![k] = Closed]
              /\ UNCHANGED auth_fifo
        /\ UNCHANGED << char_keys, used_ids, auth_fifo_iter, maps, aborted, linkVars >>

KeepCount(session) == session       \* mutant: answers go on being counted
StartCount(session) == [session EXCEPT !.consumed_by = 0]

\* 0x66 (handle_x0066): the client of k selects character c.  A character
\* whose map no server has is moved to the first map of a server that has one.
SelectChar(k, c) ==
    LET a == conns[k].account_id
        i == First(Positions(a, c))
        alive == {m \in MapServers : server_session[m] /\ maps[m]}
        request == [type |-> "3829", account_id |-> a, char_id |-> c,
                    login |-> conns[k].login]
        Request == /\ conns' = [conns EXCEPT ![k] = StartCount(@)]
                   /\ SendToAllMaps(request)
    IN  /\ ~aborted
        /\ conns[k].auth
        /\ Positions(a, c) # {}
        /\ \/ /\ search_mapserver(char_keys[i].at) # Nowhere
              /\ Request
              /\ UNCHANGED char_keys
           \/ /\ search_mapserver(char_keys[i].at) = Nowhere
              /\ \E m \in alive : char_keys' = [char_keys EXCEPT ![i].at = m]
              /\ Request
           \/ /\ alive = {}           \* 0x0081: server closed
              /\ UNCHANGED << char_keys, conns, toMap >>
        /\ UNCHANGED << used_ids, auth_fifo, auth_fifo_iter, maps, aborted,
                        server_session, char_session, toChar, offers >>

\* std::swap(*cs, char_keys.back()); char_keys.pop_back();
WithoutChar(i) ==
    [j \in 1 .. Len(char_keys) - 1 |->
        IF j = i THEN char_keys[Len(char_keys)] ELSE char_keys[j]]

\* 0x68: the client of k deletes its character c; char_delete makes every map
\* server disconnect the account.
DeleteChar(k, c) ==
    LET a == conns[k].account_id
    IN  /\ ~aborted
        /\ conns[k].auth
        /\ Positions(a, c) # {}
        /\ char_keys' = WithoutChar(First(Positions(a, c)))
        /\ SendToAllMaps([type |-> "2afe", account_id |-> a])
        /\ UNCHANGED << used_ids, auth_fifo, auth_fifo_iter, conns, maps, aborted,
                        server_session, char_session, toChar, offers >>

\* 0x67 (make_new_char): a new character for the client of k, with the next id.
CreateChar(k, c) ==
    LET a == conns[k].account_id
    IN  /\ ~aborted
        /\ conns[k].auth
        /\ c \notin used_ids
        /\ Owner[c] = a
        /\ used_ids' = used_ids \cup {c}
        /\ char_keys' = Append(char_keys, [account_id |-> a, char_id |-> c,
                                          rev |-> 0, at |-> Start])
        /\ UNCHANGED << auth_fifo, auth_fifo_iter, conns, maps, aborted,
                        linkVars >>

\* The client goes away (0x7532, end of file, or a timeout).
LeaveChar(k) ==
    /\ ~aborted
    /\ conns[k] # Closed
    /\ conns' = [conns EXCEPT ![k] = Closed]
    /\ UNCHANGED << char_keys, used_ids, auth_fifo, auth_fifo_iter, maps, aborted,
                    linkVars >>

-----------------------------------------------------------------------------
(* Packets from map servers (parse_frommap). *)

\* 0x2af8 on a new connection: m takes a free slot of server_session.
AcceptMapServer(m) ==
    /\ ~aborted
    /\ ~server_session[m]
    /\ toChar[m] # << >>
    /\ Head(toChar[m]).type = "2af8"
    /\ server_session' = [server_session EXCEPT ![m] = TRUE]
    /\ maps' = [maps EXCEPT ![m] = FALSE]
    /\ ReadFromMap(m)
    /\ toMap' = [toMap EXCEPT ![m] = Append(@, [type |-> "2af9"])]
    /\ UNCHANGED << char_keys, used_ids, auth_fifo, auth_fifo_iter, conns, aborted,
                    char_session, offers >>

AckBeforeMaps(others) ==
    << [type |-> "2afb"], [type |-> "2b04", of |-> others] >>

\* 0x2afa: the maps of m.  The other map servers are told of them, and m is
\* told of theirs (0x2b04; one packet here for the one that each server has).
ReceiveMaps(m) ==
    LET others == {s \in MapServers \ {m} : server_session[s] /\ maps[s]}
        answer == IF others = {} THEN << [type |-> "2afb"] >>
                                 ELSE AckBeforeMaps(others)
        news == [type |-> "2b04", of |-> {m}]
    IN  /\ ~aborted
        /\ FromMap(m, "2afa")
        /\ maps' = [maps EXCEPT ![m] = TRUE]
        /\ ReadFromMap(m)
        /\ toMap' = [s \in MapServers |->
                       IF s # m THEN Sent(toMap, s, news)
                       ELSE IF Open(m) THEN toMap[m] \o answer ELSE toMap[m]]
        /\ UNCHANGED << char_keys, used_ids, auth_fifo, auth_fifo_iter, conns, aborted,
                        server_session, char_session, offers >>

\* delete_frommap, after any of the reasons for which the session ends.
DeleteFromMap(m) ==
    /\ ~aborted
    /\ CharEndCloses(m)
    /\ maps' = [maps EXCEPT ![m] = FALSE]
    /\ UNCHANGED << char_keys, used_ids, auth_fifo, auth_fifo_iter, conns, aborted,
                    offers >>

\* 0x3830: m has noted a selection.  The first client session with these ids
\* counts it, and when as many answers have come as map servers are connected
\* the client is sent to the server of its character's map.
ReceivePreauthAck(m) ==
    LET msg == Head(toChar[m])
        of_client == {k \in Conns : /\ conns[k].account_id = msg.account_id
                                    /\ conns[k].login = msg.login}
        at == Positions(msg.account_id, msg.char_id)
        srv == search_mapserver(char_keys[First(at)].at)
    IN  /\ ~aborted
        /\ FromMap(m, "3830")
        /\ ReadFromMap(m)
        /\ \/ /\ of_client = {}
              /\ UNCHANGED << conns, auth_fifo, auth_fifo_iter, offers >>
           \/ \E k \in of_client :
                /\ conns' = [conns EXCEPT ![k].consumed_by = @ + 1]
                /\ \/ /\ \/ conns[k].consumed_by + 1 # ConnectedServers
                         \/ at = {}
                      /\ UNCHANGED << auth_fifo, auth_fifo_iter, offers >>
                   \/ /\ conns[k].consumed_by + 1 = ConnectedServers
                      /\ at # {}
                      /\ Enqueue([account_id |-> msg.account_id,
                                  char_id |-> msg.char_id,
                                  login |-> msg.login, delflag |-> 3])
                      /\ offers' = offers \cup
                            {[via |-> "0071", account_id |-> msg.account_id,
                              char_id |-> msg.char_id, login |-> msg.login,
                              srv |-> srv]}
        /\ UNCHANGED << char_keys, used_ids, maps, aborted, server_session,
                        char_session, toMap >>

\* 0x2afc: m asks whether a client that has connected to it may play.  An
\* entry whose character is gone fails the assertion.
ReceiveAuthRequest(m) ==
    LET msg == Head(toChar[m])
        found == {i \in Ring : /\ auth_fifo[i].account_id = msg.account_id
                               /\ auth_fifo[i].char_id = msg.char_id
                               /\ auth_fifo[i].login = msg.login
                               /\ auth_fifo[i].delflag = 3}
        with_id == WithId(msg.char_id)
        key == char_keys[First(with_id)]
    IN  /\ ~aborted
        /\ FromMap(m, "2afc")
        /\ \/ /\ found = {}
              /\ ReadFromMapAndReply(m, [type |-> "2afe",
                                         account_id |-> msg.account_id])
              /\ UNCHANGED << auth_fifo, aborted >>
           \/ /\ found # {}
              /\ with_id = {}
              /\ aborted' = TRUE
              /\ ReadFromMap(m)
              /\ UNCHANGED << auth_fifo, toMap >>
           \/ /\ found # {}
              /\ with_id # {}
              /\ auth_fifo' = UseUp(First(found))
              /\ ReadFromMapAndReply(m,
                    [type |-> "2afd", account_id |-> msg.account_id,
                     char_id |-> key.char_id, rev |-> key.rev, at |-> key.at])
              /\ UNCHANGED aborted
        /\ UNCHANGED << char_keys, used_ids, auth_fifo_iter, conns, maps,
                        server_session, char_session, offers >>

\* 0x2b01: m saves a character.  The record found by the two ids of the packet
\* takes over the key and the data that the packet carries.
ReceiveSave(m) ==
    LET msg == Head(toChar[m])
        at == Positions(msg.account_id, msg.char_id)
    IN  /\ ~aborted
        /\ FromMap(m, "2b01")
        /\ ReadFromMap(m)
        /\ char_keys' = IF at = {} THEN char_keys
             ELSE [char_keys EXCEPT ![First(at)] =
                     [account_id |-> msg.key_account, char_id |-> msg.key_char,
                      rev |-> msg.rev, at |-> msg.at]]
        /\ UNCHANGED << used_ids, auth_fifo, auth_fifo_iter, conns, maps, aborted,
                        server_session, char_session, toMap, offers >>

\* 0x2b02: a client of m wants to go back to the character selection.
ReceiveCharSelect(m) ==
    LET msg == Head(toChar[m])
    IN  /\ ~aborted
        /\ FromMap(m, "2b02")
        /\ Enqueue([account_id |-> msg.account_id, char_id |-> NoChar,
                    login |-> msg.login, delflag |-> 2])
        /\ ReadFromMapAndReply(m, [type |-> "2b03",
                                   account_id |-> msg.account_id])
        /\ UNCHANGED << char_keys, used_ids, conns, maps, aborted, server_session,
                        char_session, offers >>

\* 0x2b05: a client of m walks to a map of another server.  The entry is
\* written in any case, and kept when the character exists.
ReceiveChangeServer(m) ==
    LET msg == Head(toChar[m])
        known == Positions(msg.account_id, msg.char_id) # {}
        entry == [account_id |-> msg.account_id, char_id |-> msg.char_id,
                  login |-> msg.login, delflag |-> 0]
    IN  /\ ~aborted
        /\ FromMap(m, "2b05")
        /\ auth_fifo' = [auth_fifo EXCEPT ![Slot] = entry]
        /\ auth_fifo_iter' = IF known THEN Slot + 1 ELSE Slot
        /\ ReadFromMapAndReply(m,
              [type |-> "2b06", account_id |-> msg.account_id,
               char_id |-> msg.char_id, to |-> msg.to, error |-> ~known])
        /\ UNCHANGED << char_keys, used_ids, conns, maps, aborted, server_session,
                        char_session, offers >>

HandleMapPacket(m) ==
    \/ AcceptMapServer(m)    \/ ReceiveMaps(m)
    \/ ReceivePreauthAck(m)  \/ ReceiveAuthRequest(m)
    \/ ReceiveSave(m)        \/ ReceiveCharSelect(m)
    \/ ReceiveChangeServer(m)
=============================================================================
