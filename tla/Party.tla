-------------------------------- MODULE Party --------------------------------
(***************************************************************************)
(* Parties: the char server's table (char/int_party.cpp), the copies that  *)
(* the map servers keep of it (map/party.cpp, intif.cpp), and what the     *)
(* sessions of the players and the records of the characters say about     *)
(* their party.  A copy points at the sessions of the members that are on  *)
(* its server.  Admission is reduced to the packets that order it, as in   *)
(* Storage.  A record also carries its account's variables, for Messages.  *)
(***************************************************************************)
EXTENDS Links, SequencesExt

CONSTANTS
    Owner,          \* the account of each character
    Home,           \* the map servers that have the maps where each may be
    MAX_PARTY,
    ShareLevel,     \* inter_conf.party_share_level
    Limits          \* how often the environment does each thing: some budgets

\* What the environment does; the last line is what Messages adds.
Kinds == {"enter", "load", "level", "create", "invite", "reply", "leave", "option",
          "leader", "quit", "delete", "save", "crash",
          "report", "whisper", "say", "flood", "kami", "ask", "set"}

ASSUME PartyAssumption ==
    /\ Owner \in [Characters -> Accounts]
    /\ Home \in [Characters -> SUBSET MapServers]
    /\ MAX_PARTY \in Nat \ {0}
    /\ ShareLevel \in Nat
    /\ Limits \subseteq [Kinds -> Nat]

VARIABLES
    party_db,       \* char server: the parties, by their ids
    party_newid,    \* char server: the last id given out
    saved,          \* char server: party, level and account_reg in each character's record
    disk,           \* what the char server has written last
    sess,           \* map servers: the session of each account
    copies,         \* map servers: party_db
    count           \* how often each kind of thing has been done, and may be

charVars == << party_db, party_newid, saved, disk >>
mapVars == << sess, copies >>
vars == << linkVars, charVars, mapVars, count >>

NoParty == 0
NoVars == [x \in {} |-> 0]
Places == 1 .. MAX_PARTY

Nobody == [account_id |-> NoAccount, char_id |-> NoChar, leader |-> FALSE,
           online |-> FALSE, lv |-> 0]
\* pc_setnewpc, until pc_authok
NoSession == [state |-> "none", char_id |-> NoChar, party_id |-> NoParty,
              party_invite |-> NoParty, party_sent |-> FALSE, lv |-> 0,
              account_reg |-> NoVars]
Deleted == [party_id |-> NoParty, lv |-> 0, account_reg |-> NoVars]

With(table, id, entry) ==
    [i \in DOMAIN table \cup {id} |-> IF i = id THEN entry ELSE table[i]]
Without(table, id) == [i \in DOMAIN table \ {id} |-> table[i]]

Nothing == [i \in {} |-> << >>]

Init ==
    /\ LinksInit
    /\ server_session = [m \in MapServers |-> TRUE]
    /\ char_session = [m \in MapServers |-> TRUE]
    /\ party_db = Nothing
    /\ party_newid = 100
    /\ saved = [c \in Characters |-> [party_id |-> NoParty, lv |-> 1,
                                       account_reg |-> NoVars]]
    /\ disk = [party_db |-> Nothing, saved |-> saved]
    /\ sess = [m \in MapServers |-> [a \in Accounts |-> NoSession]]
    /\ copies = [m \in MapServers |-> Nothing]
    /\ count \in [done : {[kind \in Kinds |-> 0]}, limit : Limits]

Count(kind) ==
    /\ count.done[kind] < count.limit[kind]
    /\ count' = [count EXCEPT !.done[kind] = @ + 1]

Online(m, a) == sess[m][a].state # "none"
Playing(m, a) == sess[m][a].state = "playing"
Session(m, a, s) == sess' = [sess EXCEPT ![m][a] = s]

\* The places of a party that an account has, and the first of them.
PlacesOf(party, a) == {i \in Places : party.member[i].account_id = a}
PlaceOf(party, a) == CHOOSE i \in PlacesOf(party, a) : \A j \in PlacesOf(party, a) : i <= j
IsMember(party, a, c) == \E i \in PlacesOf(party, a) : party.member[i].char_id = c

-----------------------------------------------------------------------------
(* The char server.  What a packet does to the table, and what is sent to  *)
(* which map servers because of it.                                        *)

To(servers, msg) == << [to |-> servers, msg |-> msg] >>
Outcome(db, out) == [db |-> db, out |-> out]

\* mapif_party_info and mapif_party_noinfo
Info(id, party) == [type |-> "3821", party_id |-> id, party |-> party]
NoInfo(id) == [type |-> "3821 none", party_id |-> id]
MemberAdded(id, a, flag) ==
    [type |-> "3822", party_id |-> id, account_id |-> a, flag |-> flag]
OptionChanged(id, exp, flag) ==
    [type |-> "3823", party_id |-> id, exp |-> exp, flag |-> flag]
MemberLeaved(id, a) == [type |-> "3824", party_id |-> id, account_id |-> a]
MemberMoved(id, mem) ==
    [type |-> "3825", party_id |-> id, account_id |-> mem.account_id,
     online |-> mem.online, lv |-> mem.lv]
Broken(id) == [type |-> "3826", party_id |-> id]
LeaderChanged(id, a, leader) ==
    [type |-> "3828", party_id |-> id, account_id |-> a, leader |-> leader]

\* send_fpacket, for every packet of an outcome
Tell(out) ==
    toMap' = [m \in MapServers |->
                 FoldLeft(LAMBDA queue, o : IF Open(m) /\ m \in o.to
                                            THEN Append(queue, o.msg) ELSE queue,
                          toMap[m], out)]

party_check_exp_share(party) ==
    \A i, j \in Places :
        party.member[i].online /\ party.member[j].online =>
            party.member[i].lv <= party.member[j].lv + ShareLevel

\* The party, no longer sharing if its members' levels have come apart, and
\* the news of that.
Rechecked(db, id, party, out) ==
    IF party.exp > 0 /\ ~party_check_exp_share(party)
    THEN Outcome(With(db, id, [party EXCEPT !.exp = 0]),
                 out \o To(MapServers, OptionChanged(id, 0, 0)))
    ELSE Outcome(With(db, id, party), out)

\* mapif_parse_CreateParty, for a name that is free
Create(db, id, m, a, c, lv) ==
    LET founder == [account_id |-> a, char_id |-> c, leader |-> TRUE, online |-> TRUE,
                    lv |-> lv]
        party == [exp |-> 0, member |-> [i \in Places |-> IF i = 1 THEN founder ELSE Nobody]]
    IN  Outcome(With(db, id, party),
                To({m}, [type |-> "3820", account_id |-> a, party_id |-> id])
                \o To({m}, Info(id, party)))

\* mapif_parse_PartyAddMember, which does not ask who is in the party already
AddMember(db, id, m, a, c, lv) ==
    IF id \notin DOMAIN db \/ PlacesOf(db[id], NoAccount) = {}
    THEN Outcome(db, To({m}, MemberAdded(id, a, 1)))
    ELSE LET party == [db[id] EXCEPT !.member[PlaceOf(db[id], NoAccount)] =
                          [account_id |-> a, char_id |-> c, leader |-> FALSE,
                           online |-> TRUE, lv |-> lv]]
         IN  Rechecked(db, id, party, To({m}, MemberAdded(id, a, 0))
                                      \o To(MapServers, Info(id, party)))

\* mapif_parse_PartyChangeOption; a refusal goes only to the one who asked
ChangeOption(db, id, m, exp) ==
    IF id \notin DOMAIN db
    THEN Outcome(db, << >>)
    ELSE LET party == [db[id] EXCEPT !.exp = exp]
         IN  IF exp > 0 /\ ~party_check_exp_share(party)
             THEN Outcome(With(db, id, [party EXCEPT !.exp = 0]),
                          To({m}, OptionChanged(id, 0, 1)))
             ELSE Outcome(With(db, id, party), To(MapServers, OptionChanged(id, exp, 0)))

\* mapif_parse_PartyChangeLeader
ChangeLeader(db, id, a, leader) ==
    IF id \notin DOMAIN db \/ PlacesOf(db[id], a) = {}
    THEN Outcome(db, << >>)
    ELSE Outcome([db EXCEPT ![id].member[PlaceOf(db[id], a)].leader = leader],
                 To(MapServers, LeaderChanged(id, a, leader)))

\* mapif_parse_PartyLeave and party_check_empty.  Only the first place is cleared.
LeaveParty(db, id, a) ==
    IF id \notin DOMAIN db \/ PlacesOf(db[id], a) = {}
    THEN Outcome(db, << >>)
    ELSE LET party == [db[id] EXCEPT !.member[PlaceOf(db[id], a)] = Nobody]
             told == To(MapServers, MemberLeaved(id, a))
         IN  IF PlacesOf(party, NoAccount) = Places
             THEN Outcome(Without(db, id), told \o To(MapServers, Broken(id)))
             ELSE Outcome(With(db, id, party), told \o To(MapServers, Info(id, party)))

\* A mistake for ChangeMap: the levels are not looked at when one has changed.
MoveOnly(db, id, a, online, lv) ==
    IF id \notin DOMAIN db \/ PlacesOf(db[id], a) = {}
    THEN Outcome(db, << >>)
    ELSE LET i == PlaceOf(db[id], a)
             party == [db[id] EXCEPT !.member[i].online = online, !.member[i].lv = lv]
         IN  Outcome(With(db, id, party), To(MapServers, MemberMoved(id, party.member[i])))
\* mapif_parse_PartyChangeMap
ChangeMap(db, id, a, online, lv) ==
    IF id \notin DOMAIN db \/ PlacesOf(db[id], a) = {}
    THEN Outcome(db, << >>)
    ELSE LET i == PlaceOf(db[id], a)
             party == [db[id] EXCEPT !.member[i].online = online, !.member[i].lv = lv]
         IN  Rechecked(db, id, party, To(MapServers, MemberMoved(id, party.member[i])))

\* party_check_conflict: the character leaves every other party.  A party that is
\* empty then is erased from the table while the loop goes through it; the loop
\* may miss what comes after it.
Others(db, id, a, c) == {q \in DOMAIN db : q # id /\ IsMember(db[q], a, c)}
LeaveAll(db, ids, a) ==
    FoldLeft(LAMBDA so, q : LET left == LeaveParty(so.db, q, a)
                            IN  Outcome(left.db, so.out \o left.out),
             Outcome(db, << >>), SetToSortSeq(ids, <))
Conflicts(db, id, a, c) ==
    LET all == Others(db, id, a, c)
        Erases(q) == q \notin DOMAIN LeaveParty(db, q, a).db
        upTo(q) == {r \in all : r <= q}
    IN  {LeaveAll(db, all, a)} \cup {LeaveAll(db, upTo(q), a) : q \in {q \in all : Erases(q)}}

-----------------------------------------------------------------------------
(* inter_party_parse_frommap *)

\* Map server m's packet msg is handled with the given outcome.
Handle(m, type, outcome) ==
    /\ FromMap(m, type)
    /\ ReadFromMap(m)
    /\ party_db' = outcome.db
    /\ Tell(outcome.out)
    /\ UNCHANGED << server_session, char_session, offers, saved, disk, mapVars, count >>

\* 0x3020.  The name may be taken or illegal.
ParseCreateParty(m) ==
    LET msg == Head(toChar[m])
    IN  \/ /\ Handle(m, "3020", Create(party_db, party_newid + 1, m, msg.account_id,
                                       msg.char_id, msg.lv))
           /\ party_newid' = party_newid + 1
        \/ /\ Handle(m, "3020", Outcome(party_db, To({m},
                     [type |-> "3820", account_id |-> msg.account_id,
                      party_id |-> NoParty])))
           /\ UNCHANGED party_newid

ParseOther(m) ==
    LET msg == Head(toChar[m])
        id == msg.party_id
        a == msg.account_id
    IN  /\ \/ Handle(m, "3021", Outcome(party_db, To({m},
                     IF id \in DOMAIN party_db THEN Info(id, party_db[id]) ELSE NoInfo(id))))
           \/ Handle(m, "3022", AddMember(party_db, id, m, a, msg.char_id, msg.lv))
           \/ Handle(m, "3023", ChangeOption(party_db, id, m, msg.exp))
           \/ Handle(m, "3024", LeaveParty(party_db, id, a))
           \/ Handle(m, "3025", ChangeMap(party_db, id, a, msg.online, msg.lv))
           \/ Handle(m, "3026", ChangeLeader(party_db, id, a, msg.leader))
           \/ /\ FromMap(m, "3028")
              /\ \E outcome \in Conflicts(party_db, id, a, msg.char_id) :
                    Handle(m, "3028", outcome)
        /\ UNCHANGED party_newid

\* 0x2afc, answered with the character's record
Authorize(m) ==
    LET msg == Head(toChar[m])
    IN  /\ FromMap(m, "2afc")
        /\ ReadFromMapAndReply(m, [type |-> "2afd", account_id |-> msg.account_id,
                                   char_id |-> msg.char_id,
                                   status |-> saved[msg.char_id]])
        /\ UNCHANGED << server_session, char_session, offers, charVars, mapVars, count >>

\* 0x2b01
SaveCharacter(m) ==
    LET msg == Head(toChar[m])
    IN  /\ FromMap(m, "2b01")
        /\ ReadFromMap(m)
        /\ saved' = [saved EXCEPT ![msg.char_id] = msg.status]
        /\ UNCHANGED << server_session, char_session, toMap, offers, party_db,
                        party_newid, disk, mapVars, count >>

\* No character of the account is in the game or on its way into or out of it.
Away(a) ==
    \A m \in MapServers :
        /\ ~Online(m, a)
        /\ \A i \in DOMAIN toChar[m] :
              ~(toChar[m][i].type = "2b01" /\ toChar[m][i].account_id = a)

\* char_delete: the character's record says which party it leaves, its account
\* which member leaves.
DeleteCharacter(c) ==
    LET left == LeaveParty(party_db, saved[c].party_id, Owner[c])
    IN  /\ Away(Owner[c])
        /\ saved[c] # Deleted
        /\ Count("delete")
        /\ party_db' = left.db
        /\ Tell(left.out)
        /\ saved' = [saved EXCEPT ![c] = Deleted]
        /\ UNCHANGED << server_session, char_session, toChar, offers, party_newid, disk,
                        mapVars >>

-----------------------------------------------------------------------------
(* Map servers: admission. *)

\* send_fpacket to the char server, once for each packet
AskChar(m, msgs) == toChar' = IF Open(m) THEN [toChar EXCEPT ![m] = @ \o msgs] ELSE toChar

\* 0x72, when the servers have agreed on it
Enter(m, a, c) ==
    /\ Owner[c] = a /\ saved[c] # Deleted
    /\ m \in Home[c] /\ Open(m)
    /\ Away(a)
    /\ Count("enter")
    /\ Session(m, a, [NoSession EXCEPT !.state = "waiting"])
    /\ SendToChar(m, [type |-> "2afc", account_id |-> a, char_id |-> c])
    /\ UNCHANGED << server_session, char_session, toMap, offers, charVars, copies >>

\* pc_authok, which asks for what the copies lack, after asking for questions
AuthOkAsks(m, questions) ==
    LET msg == Head(toMap[m])
        id == msg.status.party_id
        unknown == id # NoParty /\ id \notin DOMAIN copies[m]
        request == [type |-> "3021", party_id |-> id, account_id |-> NoAccount]
    IN  /\ FromChar(m, "2afd")
        /\ ReadFromChar(m)
        /\ IF Online(m, msg.account_id)
           THEN /\ Session(m, msg.account_id,
                           [NoSession EXCEPT !.state = "playing", !.char_id = msg.char_id,
                                             !.party_id = id, !.lv = msg.status.lv,
                                             !.account_reg = msg.status.account_reg])
                /\ AskChar(m, questions \o IF unknown THEN << request >> ELSE << >>)
           ELSE UNCHANGED << sess, toChar >>
        /\ UNCHANGED << server_session, char_session, offers, charVars, copies, count >>
AuthOk(m) == AuthOkAsks(m, << >>)

-----------------------------------------------------------------------------
(* Map servers: the copies.  Each handler takes the sessions of the server *)
(* and its copies, and gives both as it leaves them.                       *)

Here(m) == [sess |-> sess[m], copies |-> copies[m]]
Becomes(m, here) ==
    /\ sess' = [sess EXCEPT ![m] = here.sess]
    /\ copies' = [copies EXCEPT ![m] = here.copies]

\* party_check_member: whoever believes to be in the party and is not, is not.
party_check_member(here, id) ==
    [here EXCEPT !.sess = [a \in Accounts |->
        IF /\ here.sess[a].state = "playing"
           /\ here.sess[a].party_id = id
           /\ ~IsMember(here.copies[id], a, here.sess[a].char_id)
        THEN [here.sess[a] EXCEPT !.party_id = NoParty]
        ELSE here.sess[a]]]

\* The members of a party, each pointing at the session of its account if that
\* is in the party.
Pointed(here, id, member) ==
    [i \in Places |->
        LET a == member[i].account_id
        IN  [account_id |-> a, char_id |-> member[i].char_id, leader |-> member[i].leader,
             online |-> member[i].online, lv |-> member[i].lv,
             sd |-> IF a # NoAccount /\ here.sess[a].party_id = id THEN "sd" ELSE "null"]]

\* party_recv_noinfo
RecvNoInfo(here, id) ==
    [here EXCEPT !.sess = [a \in Accounts |->
        IF here.sess[a].state = "playing" /\ here.sess[a].party_id = id
        THEN [here.sess[a] EXCEPT !.party_id = NoParty]
        ELSE here.sess[a]]]

\* A mistake for handle_info: what the copy had is kept.
OnlyFirst(here, id, party) ==
    IF id \in DOMAIN here.copies THEN here
    ELSE party_check_member([here EXCEPT !.copies = With(@, id, party)], id)
\* handle_info: the first time, the players are looked at.
handle_info(here, id, party) ==
    LET has == [here EXCEPT !.copies = With(@, id, party)]
    IN  IF id \in DOMAIN here.copies THEN has ELSE party_check_member(has, id)

\* party_recv_info
RecvInfo(here, id, party) ==
    LET has == handle_info(here, id, party)
        copy == [exp |-> has.copies[id].exp,
                 member |-> Pointed(has, id, has.copies[id].member)]
        pointedAt == {copy.member[i].account_id : i \in {i \in Places : copy.member[i].sd = "sd"}}
    IN  [sess |-> [a \in Accounts |->
                      IF a \in pointedAt THEN [has.sess[a] EXCEPT !.party_sent = TRUE]
                                         ELSE has.sess[a]],
         copies |-> [has.copies EXCEPT ![id] = copy]]

\* party_created: a copy without members, until 0x3821 comes
EmptyCopy == [exp |-> 0, member |-> [i \in Places |-> Nobody]]
Created(here, a, id) ==
    IF here.sess[a].state = "none" \/ id = NoParty \/ id \in DOMAIN here.copies
    THEN here
    ELSE [sess |-> [here.sess EXCEPT ![a].party_id = id],
          copies |-> With(here.copies, id, [EmptyCopy EXCEPT !.member =
                                               Pointed(here, id, EmptyCopy.member)])]

\* party_member_leaved: the copy forgets every place of the account.
Leaved(here, id, a) ==
    [sess |-> IF here.sess[a].state # "none" /\ here.sess[a].party_id = id
              THEN [here.sess EXCEPT ![a].party_id = NoParty, ![a].party_sent = FALSE]
              ELSE here.sess,
     copies |-> IF id \notin DOMAIN here.copies THEN here.copies
                ELSE [here.copies EXCEPT ![id].member = [i \in Places |->
                         IF @[i].account_id = a
                         THEN [@[i] EXCEPT !.account_id = NoAccount, !.sd = "null"]
                         ELSE @[i]]]]

\* party_broken: whom the copy points at is told.
PartyBroken(here, id) ==
    IF id \notin DOMAIN here.copies THEN here
    ELSE LET members == {here.copies[id].member[i] : i \in Places}
             PointedAt(a) == \E mem \in members : mem.account_id = a /\ mem.sd # "null"
         IN  [sess |-> [a \in Accounts |->
                 IF PointedAt(a)
                 THEN [here.sess[a] EXCEPT !.party_id = NoParty, !.party_sent = FALSE]
                 ELSE here.sess[a]],
              copies |-> Without(here.copies, id)]

\* party_recv_movemap: all pointers are set again.
RecvMoveMap(here, id, a, online, lv) ==
    IF id \notin DOMAIN here.copies \/ PlacesOf(here.copies[id], a) = {} THEN here
    ELSE LET i == PlaceOf(here.copies[id], a)
             member == [here.copies[id].member EXCEPT ![i].online = online, ![i].lv = lv]
         IN  [here EXCEPT !.copies[id].member = Pointed(here, id, member)]

\* party_optionchanged: a refusal changes nothing.
RecvOption(here, id, exp, flag) ==
    IF id \notin DOMAIN here.copies \/ flag = 1 THEN here
    ELSE [here EXCEPT !.copies[id].exp = exp]

\* intif_parse_PartyLeaderChanged
RecvLeader(here, id, a, leader) ==
    IF id \notin DOMAIN here.copies \/ PlacesOf(here.copies[id], a) = {} THEN here
    ELSE [here EXCEPT !.copies[id].member[PlaceOf(here.copies[id], a)].leader = leader]

\* "party_created(): ID already exists!"
CreatedTwice(m) ==
    /\ FromChar(m, "3820")
    /\ Online(m, Head(toMap[m]).account_id)
    /\ Head(toMap[m]).party_id \in DOMAIN copies[m]
\* exit(1)
Exit(m) ==
    /\ CreatedTwice(m)
    /\ MapEndCloses(m)
    /\ Becomes(m, [sess |-> [a \in Accounts |-> NoSession], copies |-> Nothing])
    /\ UNCHANGED << offers, charVars, count >>

\* intif_parse, for a packet that is not answered
Receive(m, type, here) ==
    /\ FromChar(m, type)
    /\ ReadFromChar(m)
    /\ Becomes(m, here)
    /\ UNCHANGED << server_session, char_session, toChar, offers, charVars, count >>

IntifParse(m) ==
    LET msg == Head(toMap[m])
        id == msg.party_id
        a == msg.account_id
    IN  \/ /\ ~CreatedTwice(m)
           /\ Receive(m, "3820", Created(Here(m), a, id))
        \/ Receive(m, "3821", RecvInfo(Here(m), id, msg.party))
        \/ Receive(m, "3821 none", RecvNoInfo(Here(m), id))
        \/ Receive(m, "3823", RecvOption(Here(m), id, msg.exp, msg.flag))
        \/ Receive(m, "3824", Leaved(Here(m), id, a))
        \/ Receive(m, "3825", RecvMoveMap(Here(m), id, a, msg.online, msg.lv))
        \/ Receive(m, "3826", PartyBroken(Here(m), id))
        \/ Receive(m, "3828", RecvLeader(Here(m), id, a, msg.leader))

\* party_member_added: whoever cannot be in the party leaves it again.
ParseMemberAdded(m) ==
    LET msg == Head(toMap[m])
        id == msg.party_id
        a == msg.account_id
        s == [sess[m][a] EXCEPT !.party_invite = NoParty]
        leave == [type |-> "3024", party_id |-> id, account_id |-> a]
        check == [type |-> "3028", party_id |-> id, account_id |-> a,
                  char_id |-> s.char_id]
    IN  /\ FromChar(m, "3822")
        /\ ReadFromChar(m)
        /\ CASE ~Online(m, a) ->
                  /\ UNCHANGED sess
                  /\ IF msg.flag = 0 THEN SendToChar(m, leave) ELSE UNCHANGED toChar
             [] Online(m, a) /\ id \notin DOMAIN copies[m] ->
                  Session(m, a, s) /\ SendToChar(m, leave)
             [] Online(m, a) /\ id \in DOMAIN copies[m] /\ msg.flag = 1 ->
                  Session(m, a, s) /\ UNCHANGED toChar
             [] OTHER ->
                  /\ Session(m, a, [s EXCEPT !.party_sent = FALSE, !.party_id = id])
                  /\ SendToChar(m, check)
        /\ UNCHANGED << server_session, char_session, offers, charVars, copies, count >>

-----------------------------------------------------------------------------
(* Map servers: what players do. *)

\* A player asks the char server for something.
Ask(m, a, kind, msg) ==
    /\ Playing(m, a)
    /\ Count(kind)
    /\ SendToChar(m, msg)
    /\ UNCHANGED << server_session, char_session, toMap, offers, charVars, mapVars >>

\* The copy of the session's party, if there is one
Known(m, a) == sess[m][a].party_id \in DOMAIN copies[m]
Copy(m, a) == copies[m][sess[m][a].party_id]

\* intif_party_changemap
ChangeMapPacket(s, a, online) ==
    [type |-> "3025", party_id |-> s.party_id, account_id |-> a, online |-> online,
     lv |-> s.lv]

\* party_send_movemap, for session s of account a
SendMoveMap(m, a, s) ==
    LET here == [Here(m) EXCEPT !.sess[a] = s]
        checked == IF s.party_id \in DOMAIN copies[m]
                   THEN party_check_member(here, s.party_id) ELSE here
        news == << ChangeMapPacket(s, a, TRUE) >>
                \o IF s.party_sent THEN << >>
                   ELSE << [type |-> "3028", party_id |-> s.party_id, account_id |-> a,
                            char_id |-> s.char_id] >>
    IN  IF s.party_id = NoParty
        THEN Becomes(m, here) /\ UNCHANGED toChar
        ELSE /\ AskChar(m, news)
             /\ Becomes(m, IF s.party_sent THEN here
                           ELSE [checked EXCEPT !.sess[a].party_sent =
                                    /\ s.party_id \in DOMAIN copies[m]
                                    /\ checked.sess[a].party_id = s.party_id])

\* clif_parse_LoadEndAck: the player has come to a map.
LoadEndAck(m, a) ==
    /\ Playing(m, a)
    /\ Count("load")
    /\ SendMoveMap(m, a, sess[m][a])
    /\ UNCHANGED << server_session, char_session, toMap, offers, charVars >>

\* pc_checkbaselevelup
LevelUp(m, a) ==
    /\ Playing(m, a)
    /\ Count("level")
    /\ SendMoveMap(m, a, [sess[m][a] EXCEPT !.lv = @ + 1])
    /\ UNCHANGED << server_session, char_session, toMap, offers, charVars >>

\* party_create
CreateParty(m, a) ==
    /\ sess[m][a].party_id = NoParty
    /\ Ask(m, a, "create", [type |-> "3020", account_id |-> a,
                            char_id |-> sess[m][a].char_id, lv |-> sess[m][a].lv])

\* party_invite: a invites b.
Invite(m, a, b) ==
    /\ Playing(m, a) /\ Known(m, a)
    /\ Online(m, b)
    /\ sess[m][b].party_id = NoParty /\ sess[m][b].party_invite = NoParty
    /\ PlacesOf(Copy(m, a), b) = {}
    /\ PlacesOf(Copy(m, a), NoAccount) # {}
    /\ Count("invite")
    /\ Session(m, b, [sess[m][b] EXCEPT !.party_invite = sess[m][a].party_id])
    /\ UNCHANGED << linkVars, charVars, copies >>

\* party_reply_invite, accepted: the invitation stays until the answer to 0x3022.
AcceptInvite(m, a) ==
    /\ sess[m][a].party_invite # NoParty
    /\ Ask(m, a, "reply", [type |-> "3022", party_id |-> sess[m][a].party_invite,
                           account_id |-> a, char_id |-> sess[m][a].char_id,
                           lv |-> sess[m][a].lv])

\* party_reply_invite, rejected: by the player, or by pc_setpos on a warp
RejectInvite(m, a) ==
    /\ Playing(m, a)
    /\ sess[m][a].party_invite # NoParty
    /\ Count("reply")
    /\ Session(m, a, [sess[m][a] EXCEPT !.party_invite = NoParty])
    /\ UNCHANGED << linkVars, charVars, copies >>

\* party_leave and party_removemember: b leaves, or is removed by a.
Leave(m, a, b) ==
    /\ Known(m, a)
    /\ PlacesOf(Copy(m, a), b) # {}
    /\ \/ a = b
       \/ \A i \in PlacesOf(Copy(m, a), a) : Copy(m, a).member[i].leader
    /\ Ask(m, a, "leave", [type |-> "3024", party_id |-> sess[m][a].party_id,
                           account_id |-> b])

\* party_changeoption
Option(m, a, exp) ==
    /\ sess[m][a].party_id # NoParty /\ Known(m, a)
    /\ Ask(m, a, "option", [type |-> "3023", party_id |-> sess[m][a].party_id,
                            account_id |-> a, exp |-> exp])

\* atcommand_setpartyleader, and what atcommand_setleader does of it
SetPartyLeader(m, a, b, leader) ==
    /\ Known(m, b) /\ Playing(m, b)
    /\ Ask(m, a, "leader", [type |-> "3026", party_id |-> sess[m][b].party_id,
                            account_id |-> b, leader |-> leader])

\* map_quit: party_send_logout looks only into the copy of the session's party;
\* every other pointer at the session is left behind.
LeftBehind(here, a) ==
    [id \in DOMAIN here.copies |->
        [here.copies[id] EXCEPT !.member = [i \in Places |->
            IF @[i].account_id = a /\ @[i].sd = "sd"
            THEN [@[i] EXCEPT !.sd = IF id = here.sess[a].party_id THEN "null" ELSE "freed"]
            ELSE @[i]]]]

\* A session that is over: what is told and saved of it, if the char server let it in
Leaves(m, a) ==
    LET s == sess[m][a]
        logout == IF s.party_id = NoParty THEN << >> ELSE << ChangeMapPacket(s, a, FALSE) >>
        save == << [type |-> "2b01", account_id |-> a, char_id |-> s.char_id,
                    status |-> [party_id |-> s.party_id, lv |-> s.lv,
                                account_reg |-> s.account_reg]] >>
    IN  /\ IF Playing(m, a) THEN AskChar(m, logout \o save) ELSE UNCHANGED toChar
        /\ Becomes(m, [sess |-> [sess[m] EXCEPT ![a] = NoSession],
                       copies |-> LeftBehind(Here(m), a)])

\* The player closes the connection, or clif_parse does without a char server.
Quit(m, a) ==
    /\ Online(m, a)
    /\ IF char_session[m] THEN Count("quit") ELSE UNCHANGED count
    /\ Leaves(m, a)
    /\ UNCHANGED << server_session, char_session, toMap, offers, charVars >>

-----------------------------------------------------------------------------
(* The char server's disk. *)

\* mmo_char_sync and inter_party_save
Unsaved == disk # [party_db |-> party_db, saved |-> saved]
Saved ==
    /\ Count("save")
    /\ disk' = [party_db |-> party_db, saved |-> saved]
    /\ UNCHANGED << linkVars, party_db, party_newid, saved, mapVars >>
Save == Unsaved /\ Saved

\* What inter_party_tostr writes and impl_extract reads of a party, without the
\* members that party_check_deleted_init does not know.  The members move up.
Reread(party, characters) ==
    LET written == SelectSeq(party.member, LAMBDA mem : mem.account_id # NoAccount)
    IN  [party EXCEPT !.member = [i \in Places |->
            IF i <= Len(written) /\ characters[written[i].char_id] # Deleted
            THEN [written[i] EXCEPT !.online = FALSE, !.lv = 0]
            ELSE Nobody]]

\* The char server is killed and started again (inter_party_init).  Records are written
\* without account_reg.
CrashAndRestart ==
    LET all == {id \in DOMAIN disk.party_db : TRUE}
        read == [id \in all |-> Reread(disk.party_db[id], disk.saved)]
        full == {id \in all : PlacesOf(read[id], NoAccount) # Places}
    IN  /\ Count("crash")
        /\ server_session' = [m \in MapServers |-> FALSE]
        /\ toChar' = [m \in MapServers |-> << >>]
        /\ \E cut \in [MapServers -> 0 .. Max({Len(toMap[m]) : m \in MapServers})] :
              /\ \A m \in MapServers : cut[m] <= Len(toMap[m])
              /\ toMap' = [m \in MapServers |-> SubSeq(toMap[m], 1, cut[m])]
        /\ party_db' = [id \in full |-> read[id]]
        /\ party_newid' = IF all = {} THEN 100
                          ELSE 1 + (CHOOSE id \in all : \A other \in all : other <= id)
        /\ saved' = [c \in Characters |-> [disk.saved[c] EXCEPT !.account_reg = NoVars]]
        /\ UNCHANGED << char_session, offers, disk, mapVars >>

\* chrif_delete, when the map server sees that the char server has gone
Disconnect(m) ==
    /\ ~server_session[m]
    /\ MapEndCloses(m)
    /\ UNCHANGED << offers, charVars, mapVars, count >>

Reconnect(m) ==
    /\ ~server_session[m] /\ ~char_session[m]
    /\ server_session' = [server_session EXCEPT ![m] = TRUE]
    /\ char_session' = [char_session EXCEPT ![m] = TRUE]
    /\ UNCHANGED << toMap, toChar, offers, charVars, mapVars, count >>

-----------------------------------------------------------------------------
CharReads(m) == ParseCreateParty(m) \/ ParseOther(m) \/ Authorize(m) \/ SaveCharacter(m)
MapReads(m) == AuthOk(m) \/ IntifParse(m) \/ ParseMemberAdded(m) \/ Exit(m)

\* What a player does, but for LoadEndAck and Quit
PartyPlay(m, a) ==
    \/ \E c \in Characters : Enter(m, a, c)
    \/ LevelUp(m, a)
    \/ CreateParty(m, a) \/ AcceptInvite(m, a) \/ RejectInvite(m, a)
    \/ \E b \in Accounts : Invite(m, a, b) \/ Leave(m, a, b)
    \/ \E exp \in {0, 1} : Option(m, a, exp)
    \/ \E b \in Accounts : \E leader \in BOOLEAN : SetPartyLeader(m, a, b, leader)

Next ==
    \/ \E m \in MapServers :
          \/ CharReads(m) \/ MapReads(m)
          \/ \E a \in Accounts : PartyPlay(m, a) \/ LoadEndAck(m, a) \/ Quit(m, a)
          \/ Disconnect(m) \/ Reconnect(m)
    \/ \E c \in Characters : DeleteCharacter(c)
    \/ Save \/ CrashAndRestart

Spec == Init /\ [][Next]_vars

-----------------------------------------------------------------------------
(* Properties. *)

MemberType ==
    [account_id : Accounts \cup {NoAccount}, char_id : Characters \cup {NoChar},
     leader : BOOLEAN, online : BOOLEAN, lv : Nat]

\* The parts of a member that the two tables have in common.
Seen(mem) ==
    IF mem.account_id = NoAccount THEN Nobody
    ELSE [account_id |-> mem.account_id, char_id |-> mem.char_id, leader |-> mem.leader,
          online |-> mem.online, lv |-> mem.lv]

\* Everything has the types of the source, and only members are pointed at.
TypeOK ==
    /\ \A id \in DOMAIN party_db : party_db[id].exp \in {0, 1}
                                   /\ party_db[id].member \in [Places -> MemberType]
    /\ party_newid \in Nat
    /\ \A c \in Characters : saved[c].party_id \in Nat /\ saved[c].lv \in Nat
    /\ \A m \in MapServers : \A a \in Accounts :
          LET s == sess[m][a]
          IN  /\ s.state \in {"none", "waiting", "playing"}
              /\ s.party_id \in Nat /\ s.party_invite \in Nat /\ s.lv \in Nat
              /\ s.party_sent \in BOOLEAN
              /\ IF s.state = "playing" THEN s.char_id \in Characters ELSE s.char_id = NoChar
    /\ \A m \in MapServers : \A id \in DOMAIN copies[m] : \A i \in Places :
          LET mem == copies[m][id].member[i]
          IN  /\ mem.sd \in {"null", "sd", "freed"}
              /\ Seen(mem) \in MemberType
              /\ mem.sd # "null" => mem.account_id # NoAccount
    /\ count.limit \in Limits
    /\ count.done \in [Kinds -> Nat]

Unbroken == count.done["crash"] = 0

\* Nothing about party id is under way to map server m.
Told(m, id) == \A i \in DOMAIN toMap[m] :
    toMap[m][i].type \in {"3820", "3821", "3821 none", "3822", "3823", "3824", "3825",
                         "3826", "3828"} => toMap[m][i].party_id # id

\* A map server's copy of a party is the char server's party, whenever it has been told
\* everything: the members are in the same places, and the same option is on, though
\* each packet tells it only what changed, and some go to one server alone.
CopiesAgree ==
    Unbroken =>
        \A m \in MapServers : \A id \in DOMAIN copies[m] :
            Told(m, id) =>
                /\ id \in DOMAIN party_db
                /\ copies[m][id].exp = party_db[id].exp
                /\ \A i \in Places :
                      Seen(copies[m][id].member[i]) = party_db[id].member[i]

\* Experience is never shared between members who are in the game and whose levels
\* are too far apart, whatever changes the levels or who is in the game.
ShareIsFair ==
    \A id \in DOMAIN party_db : party_db[id].exp > 0 => party_check_exp_share(party_db[id])
=============================================================================
