------------------------------ MODULE MapServer ------------------------------
(***************************************************************************)
(* The map servers as the char server and the clients see them (chrif.cpp, *)
(* and the parts of clif.cpp, pc.cpp and map.cpp that admit a client, save *)
(* its character and let it go).  What happens in the game between two     *)
(* saves is one step, Play.                                                *)
(***************************************************************************)
EXTENDS Links

CONSTANT MapFifo    \* length of auth_fifo (256 in the code)

ASSUME MapServerAssumption == MapFifo \in Nat \ {0}

VARIABLES
    chrif_state,    \* 0: not connected, 1: accepted, 2: ready
    map_fifo,       \* AuthFifoEntry auth_fifo[] of each map server
    map_fifo_iter,
    heard,          \* the servers whose maps m can send players to
    sess            \* the map_session_data of an account on a map server

mapVars == << chrif_state, map_fifo, map_fifo_iter, heard, sess >>

-----------------------------------------------------------------------------
(* map_id2sd() finds a session by its account, and a second one for the same *)
(* account is never made, so a session is named by its server and account.   *)

NoSession ==
    [char_id |-> NoChar, login |-> NoLogin, auth |-> FALSE,
     key |-> NoChar, rev |-> 0, at |-> Nowhere,
     closing |-> FALSE, waitingdisconnect |-> FALSE]

Online(m, a) == sess[m][a] # NoSession
InGame(m, a) == sess[m][a].auth

MapRing == 1 .. MapFifo

FreeEntry == [account_id |-> NoAccount, char_id |-> NoChar,
              login |-> NoLogin, delflag |-> 0]

MapInit ==
    /\ map_fifo = [m \in MapServers |-> [i \in MapRing |-> FreeEntry]]
    /\ map_fifo_iter = [m \in MapServers |-> 1]
    /\ sess = [m \in MapServers |-> [a \in Accounts |-> NoSession]]

MapSlot(m) == IF map_fifo_iter[m] > MapFifo THEN 1 ELSE map_fifo_iter[m]

\* Every step that changes a session, and sends msg to the char server.
Update(m, a, s) == sess' = [sess EXCEPT ![m][a] = s]

\* The packet of chrif_save: the session's ids, and the key and data it holds.
SavePacket(a, s) ==
    [type |-> "2b01", account_id |-> a, char_id |-> s.char_id,
     key_account |-> a, key_char |-> s.key, rev |-> s.rev, at |-> s.at]

-----------------------------------------------------------------------------
(* The connection to the char server. *)

NeverAccepted(m) ==     \* mutant: chrif_state says whether m is connected
    ~char_session[m] /\ chrif_state[m] = 0
Unconnected(m) == ~char_session[m]

\* check_connect_char_server: a new connection.  The char server is taken to
\* have noticed by then (the timer runs every ten seconds) that the last one is
\* gone, so that a map server never holds two slots of server_session.
ConnectToChar(m) ==
    /\ Unconnected(m)
    /\ ~server_session[m]
    /\ char_session' = [char_session EXCEPT ![m] = TRUE]
    /\ chrif_state' = [chrif_state EXCEPT ![m] = 0]
    /\ toChar' = [toChar EXCEPT ![m] = << [type |-> "2af8"] >>]
    /\ UNCHANGED << map_fifo, map_fifo_iter, heard, sess, server_session, toMap,
                    offers >>

\* 0x2af9 (chrif_connectack) and 0x2afb (chrif_sendmapack).
ReceiveConnectAck(m) ==
    /\ FromChar(m, "2af9")
    /\ chrif_state' = [chrif_state EXCEPT ![m] = 1]
    /\ ReadFromCharAndReply(m, [type |-> "2afa"])
    /\ UNCHANGED << map_fifo, map_fifo_iter, heard, sess, server_session,
                    char_session, offers >>

ReceiveMapAck(m) ==
    /\ FromChar(m, "2afb")
    /\ chrif_state' = [chrif_state EXCEPT ![m] = 2]
    /\ ReadFromChar(m)
    /\ UNCHANGED << map_fifo, map_fifo_iter, heard, sess, server_session,
                    char_session, toChar, offers >>

\* 0x2b04 (chrif_recvmap): maps of other servers, ignored before m is ready.
ReceiveMapsOfOthers(m) ==
    /\ FromChar(m, "2b04")
    /\ ReadFromChar(m)
    /\ heard' = IF chrif_state[m] < 2 THEN heard
                ELSE [heard EXCEPT ![m] = @ \cup Head(toMap[m]).of]
    /\ UNCHANGED << chrif_state, map_fifo, map_fifo_iter, sess,
                    server_session, char_session, toChar, offers >>

\* chrif_delete: chrif_state is left as it is.
LoseChar(m) ==
    /\ MapEndCloses(m)
    /\ UNCHANGED << mapVars, offers >>

\* The process of m dies, and with it its sessions; it will be started again.
Crash(m) ==
    /\ \/ MapEndCloses(m)
       \/ /\ ~char_session[m]
          /\ UNCHANGED << server_session, char_session, toMap, toChar >>
    /\ chrif_state' = [chrif_state EXCEPT ![m] = 0]
    /\ map_fifo' = [map_fifo EXCEPT ![m] = [i \in MapRing |-> FreeEntry]]
    /\ map_fifo_iter' = [map_fifo_iter EXCEPT ![m] = 1]
    /\ heard' = [heard EXCEPT ![m] = {}]
    /\ sess' = [sess EXCEPT ![m] = [a \in Accounts |-> NoSession]]
    /\ UNCHANGED offers

-----------------------------------------------------------------------------
(* Packets from the char server (chrif_parse). *)

\* 0x3829 (chrif_parse_preauth): expect a client, and say so.
ReceivePreauth(m) ==
    LET msg == Head(toMap[m])
    IN  /\ FromChar(m, "3829")
        /\ map_fifo' = [map_fifo EXCEPT ![m][MapSlot(m)] =
              [account_id |-> msg.account_id, char_id |-> msg.char_id,
               login |-> msg.login, delflag |-> 0]]
        /\ map_fifo_iter' = [map_fifo_iter EXCEPT ![m] = MapSlot(m) + 1]
        /\ ReadFromCharAndReply(m, [msg EXCEPT !.type = "3830"])
        /\ UNCHANGED << chrif_state, heard, sess, server_session,
                        char_session, offers >>

\* What pc_authok makes of session s.  It fills in login_id2 as well; the two
\* ids of a login go together here.
AdmittedWithoutData(s, msg) ==      \* mutant: the character's data is not copied
    [s EXCEPT !.auth = TRUE, !.key = msg.char_id, !.at = msg.at,
              !.waitingdisconnect = FALSE]
Admitted(s, msg) ==
    [s EXCEPT !.auth = TRUE, !.key = msg.char_id, !.rev = msg.rev,
              !.at = msg.at, !.waitingdisconnect = FALSE]

\* 0x2afd (pc_authok): the session of the account, whichever it is now, takes
\* the character.
ReceiveAuthOk(m) ==
    LET msg == Head(toMap[m])
        a == msg.account_id
        s == sess[m][a]
    IN  /\ FromChar(m, "2afd")
        /\ ReadFromChar(m)
        /\ IF Online(m, a)
           THEN Update(m, a, Admitted(s, msg))
           ELSE UNCHANGED sess
        /\ UNCHANGED << chrif_state, map_fifo, map_fifo_iter, heard, server_session,
                        char_session, toChar, offers >>

WaitClose(s) == [s EXCEPT !.closing = TRUE]

\* 0x2afe (pc_authfail): the session is closed five seconds later.
ReceiveAuthFail(m) ==
    LET a == Head(toMap[m]).account_id
    IN  /\ FromChar(m, "2afe")
        /\ ReadFromChar(m)
        /\ IF Online(m, a)
           THEN Update(m, a, WaitClose(sess[m][a]))
           ELSE UNCHANGED sess
        /\ UNCHANGED << chrif_state, map_fifo, map_fifo_iter, heard, server_session,
                        char_session, toChar, offers >>

\* 0x2b14 (chrif_accountban): the same, and login_id1 changes.
ReceiveBan(m) ==
    LET a == Head(toMap[m]).account_id
        s == sess[m][a]
    IN  /\ FromChar(m, "2b14")
        /\ ReadFromChar(m)
        /\ IF Online(m, a)
           THEN Update(m, a, [s EXCEPT
                      !.login = << s.login[1], s.login[2] + 1 >>,
                      !.closing = TRUE])
           ELSE UNCHANGED sess
        /\ UNCHANGED << chrif_state, map_fifo, map_fifo_iter, heard, server_session,
                        char_session, toChar, offers >>

\* 0x2b03 (clif_charselectok): the client may leave; nothing here changes.
ReceiveCharSelectOk(m) ==
    /\ FromChar(m, "2b03")
    /\ ReadFromChar(m)
    /\ UNCHANGED << mapVars, server_session, char_session, toChar, offers >>

\* 0x2b06 (chrif_changemapserverack): the client is sent to the other server.
\* It still has the ids that the login server gave it.
ReceiveChangeServerAck(m) ==
    LET msg == Head(toMap[m])
        a == msg.account_id
        s == sess[m][a]
        offer == [via |-> "0092", account_id |-> a, char_id |-> msg.char_id,
                  login |-> << s.login[1], 0 >>, srv |-> msg.to]
        mine == Online(m, a) /\ s.key = msg.char_id
    IN  /\ FromChar(m, "2b06")
        /\ ReadFromChar(m)
        /\ \/ /\ mine /\ msg.error
              /\ Update(m, a, WaitClose(s))
              /\ UNCHANGED offers
           \/ /\ mine /\ ~msg.error
              /\ offers' = offers \cup {offer}
              /\ UNCHANGED sess
           \/ /\ ~mine
              /\ UNCHANGED << sess, offers >>
        /\ UNCHANGED << chrif_state, map_fifo, map_fifo_iter, heard, server_session,
                        char_session, toChar >>

HandleCharPacket(m) ==
    \/ ReceiveConnectAck(m) \/ ReceiveMapAck(m)
    \/ ReceivePreauth(m)    \/ ReceiveAuthOk(m)
    \/ ReceiveAuthFail(m)   \/ ReceiveBan(m)
    \/ ReceiveCharSelectOk(m) \/ ReceiveChangeServerAck(m)
    \/ ReceiveMapsOfOthers(m)

-----------------------------------------------------------------------------
(* Clients of the map servers. *)

\* 0x72 (clif_parse_WantToConnection): a client acts on an offer it holds.
\* A second connection of an account ends both.
ConnectMap(o) ==
    LET m == o.srv
        a == o.account_id
        expected == {i \in MapRing : /\ map_fifo[m][i].account_id = a
                                     /\ map_fifo[m][i].char_id = o.char_id
                                     /\ map_fifo[m][i].login = o.login
                                     /\ map_fifo[m][i].delflag = 0}
        i == CHOOSE j \in expected : \A k \in expected : j <= k
        new == [NoSession EXCEPT !.char_id = o.char_id, !.login = o.login]
        request == [type |-> "2afc", account_id |-> a,
                    char_id |-> o.char_id, login |-> o.login]
    IN  /\ o \in offers
        /\ m # Nowhere
        /\ offers' = offers \ {o}
        /\ \/ /\ chrif_state[m] # 2 \/ expected = {}
              /\ UNCHANGED << map_fifo, sess, toChar >>
           \/ /\ chrif_state[m] = 2
              /\ expected # {}
              /\ map_fifo' = [map_fifo EXCEPT ![m][i].delflag = 1]
              /\ \/ /\ Online(m, a)
                    /\ Update(m, a, WaitClose(sess[m][a]))
                    /\ UNCHANGED toChar
                 \/ /\ ~Online(m, a)
                    /\ Update(m, a, new)
                    /\ SendToChar(m, request)
        /\ UNCHANGED << chrif_state, map_fifo_iter, heard, server_session,
                        char_session, toMap >>

\* The game changes the character.
Play(m, a) ==
    /\ InGame(m, a)
    /\ Update(m, a, [sess[m][a] EXCEPT !.rev = @ + 1])
    /\ UNCHANGED << chrif_state, map_fifo, map_fifo_iter, heard, linkVars >>

\* pc_autosave_sub, or any of the other callers of chrif_save.
Save(m, a) ==
    /\ InGame(m, a)
    /\ char_session[m]
    /\ SendToChar(m, SavePacket(a, sess[m][a]))
    /\ UNCHANGED << mapVars, server_session, char_session, toMap, offers >>

\* The session ends (clif_delete): the client leaves, or the timer set by
\* clif_setwaitclose closes it.  A character in the game is saved (map_quit).
CloseSession(m, a) ==
    /\ Online(m, a)
    /\ IF InGame(m, a) THEN SendToChar(m, SavePacket(a, sess[m][a]))
                       ELSE UNCHANGED toChar
    /\ Update(m, a, NoSession)
    /\ UNCHANGED << chrif_state, map_fifo, map_fifo_iter, heard, server_session,
                    char_session, toMap, offers >>

\* 0xb2 with flag 1 (chrif_charselectreq).
RequestCharSelect(m, a) ==
    /\ InGame(m, a)
    /\ ~sess[m][a].waitingdisconnect
    /\ chrif_state[m] = 2
    /\ char_session[m]
    /\ SendToChar(m, [type |-> "2b02", account_id |-> a,
                      login |-> sess[m][a].login])
    /\ UNCHANGED << mapVars, server_session, char_session, toMap, offers >>

\* pc_setpos to a map of server to: the character is saved there, and the char
\* server is asked to move the client.
WalkToServer(m, a, to) ==
    LET s == [sess[m][a] EXCEPT !.at = to, !.waitingdisconnect = TRUE]
        request == [type |-> "2b05", account_id |-> a, char_id |-> s.key,
                    login |-> s.login, to |-> to]
    IN  /\ InGame(m, a)
        /\ ~sess[m][a].waitingdisconnect
        /\ to \in heard[m]
        /\ Update(m, a, s)
        /\ toChar' = IF Open(m)
             THEN [toChar EXCEPT ![m] = @ \o << SavePacket(a, s), request >>]
             ELSE toChar
        /\ UNCHANGED << chrif_state, map_fifo, map_fifo_iter, heard, server_session,
                        char_session, toMap, offers >>
=============================================================================
