------------------------------- MODULE Links -------------------------------
(***************************************************************************)
(* The TCP connections between tmwa-char and each tmwa-map (net/socket.cpp *)
(* and the ends of it in char.cpp and chrif.cpp), and the packets that     *)
(* clients hold.  Both ends of a connection notice its loss on their own:  *)
(* server_session[m] is the char server's end, char_session[m] the map     *)
(* server's.  A packet sent is delivered once and in order, unless one of  *)
(* the ends goes away first.                                               *)
(***************************************************************************)
EXTENDS Naturals, Sequences, FiniteSets

CONSTANTS
    MapServers,
    Accounts,
    NoAccount,    \* AccountId()
    Characters,
    NoChar        \* CharId()

ASSUME NamesAssumption == NoAccount \notin Accounts /\ NoChar \notin Characters

VARIABLES
    server_session,  \* char.cpp: slot m of server_session[] is occupied
    char_session,    \* chrif.cpp: char_session # nullptr on map server m
    toMap,           \* packets the char server has sent to map server m
    toChar,          \* packets map server m has sent to the char server
    offers           \* 0x0071 and 0x0092 replies clients have not acted on

linkVars == << server_session, char_session, toMap, toChar, offers >>

\* The login server makes up a pair of ids for each login.  << n, k >> stands
\* for them: n numbers the login, and k counts the increments of login_id1 that
\* a map server makes when it throws the player out.
NoLogin == << 0, 0 >>

Nowhere == "nowhere"    \* search_mapserver() == -1

LinksInit ==
    /\ toMap = [m \in MapServers |-> << >>]
    /\ toChar = [m \in MapServers |-> << >>]
    /\ offers = {}

Open(m) == server_session[m] /\ char_session[m]

\* What a send_fpacket to m leaves in the queue: bytes written after the peer
\* has closed are lost.
Sent(queue, m, msg) == IF Open(m) THEN Append(queue[m], msg) ELSE queue[m]

SendToMap(m, msg) == toMap' = [toMap EXCEPT ![m] = Sent(toMap, m, msg)]
SendToChar(m, msg) == toChar' = [toChar EXCEPT ![m] = Sent(toChar, m, msg)]

\* for (Session *ss : iter_map_sessions()) send_fpacket(ss, msg)
SendToAllMaps(msg) == toMap' = [m \in MapServers |-> Sent(toMap, m, msg)]

FromMap(m, type) ==
    /\ server_session[m]
    /\ toChar[m] # << >>
    /\ Head(toChar[m]).type = type

FromChar(m, type) ==
    /\ char_session[m]
    /\ toMap[m] # << >>
    /\ Head(toMap[m]).type = type

ReadFromMap(m) == toChar' = [toChar EXCEPT ![m] = Tail(@)]
ReadFromChar(m) == toMap' = [toMap EXCEPT ![m] = Tail(@)]

\* Read one packet from map server m and answer it on the same connection.
ReadFromMapAndReply(m, msg) == ReadFromMap(m) /\ SendToMap(m, msg)
ReadFromCharAndReply(m, msg) == ReadFromChar(m) /\ SendToChar(m, msg)

\* A prefix of what was under way still reaches the end that stays open.
StillDelivered(queue, m, stays) ==
    IF stays THEN {SubSeq(queue[m], 1, k) : k \in 0 .. Len(queue[m])}
             ELSE {<< >>}

\* The char server deletes its session with m: the anti-freeze timer, a read
\* error, an unknown packet, or the end of file after m has closed.
CharEndCloses(m) ==
    /\ server_session[m]
    /\ server_session' = [server_session EXCEPT ![m] = FALSE]
    /\ toChar' = [toChar EXCEPT ![m] = << >>]
    /\ \E rest \in StillDelivered(toMap, m, char_session[m]) :
          toMap' = [toMap EXCEPT ![m] = rest]
    /\ UNCHANGED char_session

\* Map server m deletes its session with the char server (chrif_delete).
MapEndCloses(m) ==
    /\ char_session[m]
    /\ char_session' = [char_session EXCEPT ![m] = FALSE]
    /\ toMap' = [toMap EXCEPT ![m] = << >>]
    /\ \E rest \in StillDelivered(toChar, m, server_session[m]) :
          toChar' = [toChar EXCEPT ![m] = rest]
    /\ UNCHANGED server_session
=============================================================================
