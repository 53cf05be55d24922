------------------------------ MODULE Accounts ------------------------------
(***************************************************************************)
(* What the servers know of an account besides who may log in: its         *)
(* password, e-mail, sex and memo, and the ## variables that scripts set   *)
(* for it.  The login server has them (Login), every character's record at *)
(* each char server has a copy of the variables (char/char.cpp), and so    *)
(* has the session of the player in the game (map/chrif.cpp, map/pc.cpp).  *)
(* Each char server has one map server here.  A change goes from the map   *)
(* server up and from the login server down, always with all variables.    *)
(***************************************************************************)
EXTENDS Login

CONSTANTS
    Owners,           \* ids of accounts with characters
    CharSlots,           \* the characters an account may have on one char server
    StartMembers,     \* << char server, account, slot >>: the characters there are
    VarNames,         \* names of ## variables: positive numbers
    ACCOUNT_REG2_NUM

ASSUME AccountsAssumption ==
    /\ StartMembers \subseteq CharServers \X Owners \X CharSlots
    /\ VarNames \subseteq Nat \ {0}
    /\ ACCOUNT_REG2_NUM \in Nat \ {0}

VARIABLES
    records,     \* char servers: account_reg2 of each character
    clients,     \* char servers: the accounts that have a session there
    asking,      \* whose password is to be changed, since when
    linked,      \* the char server's map server is connected to it
    sess,        \* map servers: who is in the game
    toMap, fromMap,  \* packets between each char server and its map server
    apart        \* history: changes of an account's variables have met

loginSide == << loginVars, fileVars, charVars, netVars, ladmin, lost >>
gameVars == << records, clients, asking, linked, sess, toMap, fromMap, apart >>
accVars == << vars, gameVars >>

NoSession == [slot |-> 0, reg2 |-> << >>]
NoEntry == << 0, 0 >>

Characters(c) == DOMAIN records[c]

AccInit ==
    /\ Init
    /\ records = [c \in CharServers |->
                     [ck \in {m \in Owners \X CharSlots : << c, m[1], m[2] >> \in StartMembers} |->
                         << >>]]
    /\ clients = [c \in CharServers |-> {}]
    /\ asking = {}
    /\ linked = [c \in CharServers |-> TRUE]
    /\ sess = [c \in CharServers |-> [id \in Owners |-> NoSession]]
    /\ toMap = [c \in CharServers |-> << >>]
    /\ fromMap = [c \in CharServers |-> << >>]
    /\ apart = {}

\* A packet sent between a char server and its map server.
SentUp(c, msgs) == fromMap' = IF linked[c] THEN [fromMap EXCEPT ![c] = @ \o msgs] ELSE fromMap
SentDown(c, msgs) == toMap' = IF linked[c] THEN [toMap EXCEPT ![c] = @ \o msgs] ELSE toMap

-----------------------------------------------------------------------------
(* The variables, an array of names and values. *)

PlaceIn(reg, name) == SelectInSeq(reg, LAMBDA entry : entry[1] = name)

\* What is in the array: it may have empty entries, and a value of 0 is none.
Values(reg) == {entry \in ToSet(reg) : entry[1] # 0 /\ entry[2] # 0}

\* parse_admin 0x795a, and pc_setaccountreg2 with a value that is not 0
CanSet(reg, name) == PlaceIn(reg, name) # 0 \/ Len(reg) < ACCOUNT_REG2_NUM
With(reg, name, value) ==
    IF PlaceIn(reg, name) # 0
    THEN ReplaceAt(reg, PlaceIn(reg, name), << name, value >>)
    ELSE Append(reg, << name, value >>)

\* pc_setaccountreg2 with 0: the last entry takes the place
Without(reg, name) ==
    IF PlaceIn(reg, name) = 0 THEN reg
    ELSE Front(ReplaceAt(reg, PlaceIn(reg, name), Last(reg)))

\* chrif_saveaccountreg2 leaves out what is empty.
Stripped(reg) == SelectSeq(reg, LAMBDA entry : entry[1] # 0 /\ entry[2] # 0)

\* parse_admin 0x795c tells the char servers the whole array, with its empty entries.
Padded(reg) == reg \o [i \in 1 .. ACCOUNT_REG2_NUM - Len(reg) |-> NoEntry]

\* A fault: only the first character of the account is found.
FirstOnly(c, id, reg) ==
    records' = [records EXCEPT ![c] = [ck \in DOMAIN @ |->
        IF ck[1] = id /\ \A other \in DOMAIN @ : other[1] = id => ck[2] <= other[2]
        THEN reg ELSE @[ck]]]

\* set_account_reg2: every character of the account
set_account_reg2(c, id, reg) ==
    records' = [records EXCEPT ![c] = [ck \in DOMAIN @ |-> IF ck[1] = id THEN reg ELSE @[ck]]]

\* History: what is under way about the variables of account id, besides what came from
\* the map server of char server c.
About(queue, types, id) ==
    \E i \in DOMAIN queue : queue[i].type \in types /\ queue[i].account_id = id
Carriers == {"2728", "2729", "2b10", "2b11", "2b01"}
Elsewhere(c, id) ==
    \/ \E s \in Slots : /\ server_session[s] # c
                        /\ About(toLogin[s], Carriers, id)
    \/ \E s \in Slots : server_session[s] = c /\ About(toChar[s], Carriers, id)
    \/ About(toMap[c], Carriers, id)
    \/ \E other \in CharServers \ {c} : About(fromMap[other], Carriers, id)
Meets(c, id) == apart' = apart \cup {i \in {id} : Elsewhere(c, i)}

Anywhere(id) ==
    \/ \E s \in Slots : About(toLogin[s], Carriers, id)
    \/ \E c \in CharServers : About(fromMap[c], Carriers, id)

-----------------------------------------------------------------------------
(* Map servers. *)

Save(c, id) ==
    << [type |-> "2b01", account_id |-> id, slot |-> sess[c][id].slot,
        reg2 |-> sess[c][id].reg2] >>

Playing(c, id) == sess[c][id].slot # 0

\* 0x2afc, when a player comes into the game with a character
Enter(c, id, slot) ==
    /\ Count("enter")
    /\ linked[c]
    /\ ~Playing(c, id)
    /\ << id, slot >> \in Characters(c)
    /\ ~About(fromMap[c], {"2afc", "2b01"}, id) /\ ~About(toMap[c], {"2afd"}, id)
    /\ SentUp(c, << [type |-> "2afc", account_id |-> id, slot |-> slot] >>)
    /\ UNCHANGED << loginSide, records, clients, asking, linked, sess, toMap, apart >>

\* pc_setaccountreg2, from a script
pc_setaccountreg2(c, id, name, value) ==
    /\ Count("script")
    /\ Playing(c, id)
    /\ LET reg == sess[c][id].reg2
           set == IF value = 0 THEN Without(reg, name) ELSE With(reg, name, value)
       IN  /\ value = 0 \/ CanSet(reg, name)
           /\ sess' = [sess EXCEPT ![c][id].reg2 = set]
           /\ SentUp(c, << [type |-> "2b10", account_id |-> id, reg2 |-> Stripped(set)] >>)
    /\ Meets(c, id)
    /\ UNCHANGED << loginSide, records, clients, asking, linked, toMap >>

\* map_quit
Quit(c, id) ==
    /\ Count("quit")
    /\ Playing(c, id)
    /\ SentUp(c, Save(c, id))
    /\ sess' = [sess EXCEPT ![c][id] = NoSession]
    /\ Meets(c, id)
    /\ UNCHANGED << loginSide, records, clients, asking, linked, toMap >>

\* chrif_changeemail, from @email
chrif_changeemail(c, id, old, new) ==
    /\ Count("script")
    /\ Playing(c, id)
    /\ SentUp(c, << [type |-> "2b0c", account_id |-> id, old |-> old, new |-> new] >>)
    /\ UNCHANGED << loginSide, records, clients, asking, linked, sess, toMap, apart >>

\* pc_authok
AuthOk(c, msg) ==
    /\ sess' = [sess EXCEPT ![c][msg.account_id] = [slot |-> msg.slot, reg2 |-> msg.reg2]]
    /\ UNCHANGED << fromMap, apart >>

\* chrif_accountreg2
chrif_accountreg2(c, msg) ==
    /\ sess' = [sess EXCEPT ![c][msg.account_id].reg2 =
                   IF Playing(c, msg.account_id) THEN msg.reg2 ELSE @]
    /\ UNCHANGED << fromMap, apart >>

\* chrif_changedsex: a character that had the other sex is saved
chrif_changedsex(c, msg) ==
    /\ UNCHANGED sess
    /\ \/ Playing(c, msg.account_id) /\ SentUp(c, Save(c, msg.account_id)) /\ Meets(c, msg.account_id)
       \/ UNCHANGED << fromMap, apart >>

\* chrif_parse and intif_parse; 0x3800 and 0x2b12 change nothing here
MapReads(c) ==
    /\ toMap[c] # << >>
    /\ toMap' = [toMap EXCEPT ![c] = Tail(@)]
    /\ LET msg == Head(toMap[c])
       IN  \/ msg.type = "2afd" /\ AuthOk(c, msg)
           \/ msg.type = "2b11" /\ chrif_accountreg2(c, msg)
           \/ msg.type = "2b0d" /\ chrif_changedsex(c, msg)
           \/ msg.type = "3800" /\ UNCHANGED << sess, fromMap, apart >>
    /\ UNCHANGED << vars, records, clients, asking, linked >>

-----------------------------------------------------------------------------
(* Char servers. *)

\* What goes to the login server is lost when there is none.
ToLogin(c, msg) ==
    toLogin' = IF Free(c) THEN toLogin ELSE [toLogin EXCEPT ![at[c]] = Append(@, msg)]

\* 0x2afc, answered with the character's record
AuthRequest(c, msg) ==
    /\ SentDown(c, << [type |-> "2afd", account_id |-> msg.account_id, slot |-> msg.slot,
                       reg2 |-> records[c][<< msg.account_id, msg.slot >>]] >>)
    /\ UNCHANGED << records, toLogin >>

\* 0x2b01: the record is what the map server has
SaveRequest(c, msg) ==
    /\ records' = [records EXCEPT ![c] = [ck \in DOMAIN @ |->
                      IF ck = << msg.account_id, msg.slot >> THEN msg.reg2 ELSE @[ck]]]
    /\ UNCHANGED << toMap, toLogin >>

\* 0x2b10: for every character of the account, and for the login server
SaveAccountReg2(c, msg) ==
    /\ set_account_reg2(c, msg.account_id, msg.reg2)
    /\ ToLogin(c, [type |-> "2728", account_id |-> msg.account_id, reg2 |-> msg.reg2])
    /\ UNCHANGED toMap

\* 0x2b0c
ChangeEmail(c, msg) ==
    /\ ToLogin(c, [type |-> "2722", account_id |-> msg.account_id, old |-> msg.old,
                   new |-> msg.new])
    /\ UNCHANGED << records, toMap >>

\* parse_frommap
CharReadsMap(c) ==
    /\ linked[c]
    /\ fromMap[c] # << >>
    /\ fromMap' = [fromMap EXCEPT ![c] = Tail(@)]
    /\ LET msg == Head(fromMap[c])
       IN  \/ /\ msg.type = "2afc"
              /\ << msg.account_id, msg.slot >> \in Characters(c)
              /\ AuthRequest(c, msg)
           \/ /\ msg.type = "2afc"
              /\ << msg.account_id, msg.slot >> \notin Characters(c)
              /\ UNCHANGED << records, toLogin, toMap >>
           \/ msg.type = "2b01" /\ SaveRequest(c, msg)
           \/ msg.type = "2b10" /\ SaveAccountReg2(c, msg)
           \/ msg.type = "2b0c" /\ ChangeEmail(c, msg)
    /\ UNCHANGED << loginVars, fileVars, charVars, toChar, offers, ladmin, lost, count, clients,
                    asking, linked, sess, apart >>

\* How often a connection between servers has come or gone.
Troubles == Times("connect") + Times("lose") + Times("stop") + Times("crash")

\* parse_char 0x61: the client may ask again before the answer
ChangePassword(c, id, old, new) ==
    /\ Count("password")
    /\ id \in clients[c]
    /\ ~Free(c)
    /\ ToLogin(c, [type |-> "2740", account_id |-> id, old |-> old, new |-> new])
    /\ asking' = asking \cup {[server |-> c, account_id |-> id, since |-> Troubles]}
    /\ UNCHANGED << loginVars, fileVars, charVars, toChar, offers, ladmin, lost, records,
                    clients, linked, sess, toMap, fromMap, apart >>

\* The sessions of accounts ids end.
Leaves(c, ids) ==
    /\ clients' = [clients EXCEPT ![c] = @ \ ids]
    /\ asking' = {q \in asking : ~(q.server = c /\ q.account_id \in ids)}

LeaveChar(c, id) ==
    /\ Count("quit")
    /\ id \in clients[c]
    /\ Leaves(c, {id})
    /\ UNCHANGED << loginSide, records, linked, sess, toMap, fromMap, apart >>

\* parse_char 0x67: a new character begins without variables
NewCharacter(c, id, slot) ==
    /\ Count("member")
    /\ id \in clients[c]
    /\ << id, slot >> \notin Characters(c)
    /\ records' = [records EXCEPT ![c] = @ @@ (<< id, slot >> :> << >>)]
    /\ apart' = apart \cup {id}
    /\ UNCHANGED << loginSide, clients, asking, linked, sess, toMap, fromMap >>

\* parse_tologin 0x2723, which ends a session (disconnect_player)
ReceiveSex(c, msg) ==
    /\ Leaves(c, {msg.account_id})
    /\ SentDown(c, << [type |-> "2b0d", account_id |-> msg.account_id] >>)
    /\ UNCHANGED records

\* parse_tologin 0x2726
ReceiveBroadcast(c) ==
    /\ SentDown(c, << [type |-> "3800"] >>)
    /\ UNCHANGED << records, clients, asking >>

\* parse_tologin 0x2729
ReceiveAccountReg2(c, msg) ==
    /\ set_account_reg2(c, msg.account_id, msg.reg2)
    /\ SentDown(c, << [type |-> "2b11", account_id |-> msg.account_id, reg2 |-> msg.reg2] >>)
    /\ UNCHANGED << clients, asking >>

\* parse_tologin 0x2741: whoever asked, and has not gone
ReceivePassword(c, msg) ==
    /\ asking' = {q \in asking : ~(q.server = c /\ q.account_id = msg.account_id)}
    /\ UNCHANGED << records, clients, toMap >>

\* parse_tologin, for what Login does not have
CharReadsLogin(c) ==
    /\ ~Free(c)
    /\ toChar[at[c]] # << >>
    /\ LET msg == Head(toChar[at[c]])
       IN  \/ msg.type = "2723" /\ ReceiveSex(c, msg)
           \/ msg.type = "2726" /\ ReceiveBroadcast(c)
           \/ msg.type = "2729" /\ ReceiveAccountReg2(c, msg)
           \/ msg.type = "2741" /\ ReceivePassword(c, msg)
    /\ toChar' = [toChar EXCEPT ![at[c]] = Tail(@)]
    /\ UNCHANGED << loginVars, fileVars, charVars, toLogin, offers, ladmin, lost, count,
                    linked, sess, fromMap, apart >>

\* What becomes of the rest when Login's part of a char server reads a packet: 0x2730
\* takes the characters of an account, and with 0x2731 its session ends.
ReadLoginToo(c) ==
    /\ ReadLogin(c)
    /\ LET msg == Head(toChar[at[c]])
       IN  /\ IF msg.type \in {"2730", "2731"} THEN Leaves(c, {msg.account_id})
                                               ELSE UNCHANGED << clients, asking >>
           /\ records' = IF msg.type # "2730" THEN records
                         ELSE [records EXCEPT ![c] =
                                  [ck \in {k \in DOMAIN @ : k[1] # msg.account_id} |-> @[ck]]]
    /\ UNCHANGED << linked, sess, toMap, fromMap, apart >>

\* A client is let in, and gets a session.
PlayToo(c, o) ==
    /\ Play(c, o)
    /\ clients' = [clients EXCEPT ![c] = @ \cup {o.account_id}]
    /\ UNCHANGED << records, asking, linked, sess, toMap, fromMap, apart >>

\* The char server ends: account_reg2 is not in its files.
DieToo(c) ==
    /\ Die(c)
    /\ records' = [records EXCEPT ![c] = [ck \in DOMAIN @ |-> << >>]]
    /\ Leaves(c, clients[c])
    /\ linked' = [linked EXCEPT ![c] = FALSE]
    /\ fromMap' = [fromMap EXCEPT ![c] = << >>]
    /\ \E n \in 0 .. Len(toMap[c]) : toMap' = [toMap EXCEPT ![c] = SubSeq(@, 1, n)]
    /\ UNCHANGED << sess, apart >>

\* A char server that connects is not told the variables, and tells none: those there
\* are already may differ from here on.
Kept(c, id) ==
    \/ \E i \in Found(id) : auth_data[i].reg2 # << >>
    \/ \E ck \in Characters(c) : ck[1] = id /\ records[c][ck] # << >>
    \/ sess[c][id].reg2 # << >>
    \/ About(fromMap[c], Carriers, id)

ConnectToo(c) ==
    /\ Connect(c)
    /\ apart' = apart \cup {id \in Owners : Kept(c, id)}
    /\ UNCHANGED << records, clients, asking, linked, sess, toMap, fromMap >>

\* check_connect_char_server
Relink(c) ==
    /\ ~linked[c]
    /\ toMap[c] = << >>
    /\ linked' = [linked EXCEPT ![c] = TRUE]
    /\ UNCHANGED << vars, records, clients, asking, sess, toMap, fromMap, apart >>

-----------------------------------------------------------------------------
(* The login server. *)

\* parse_fromchar 0x2722: the old e-mail must be the right one
RequestEmail(msg) ==
    /\ auth_data' = [i \in DOMAIN auth_data |->
          IF i \in Found(msg.account_id) /\ auth_data[i].own.email = msg.old
          THEN [auth_data[i] EXCEPT !.own.email = msg.new]
          ELSE auth_data[i]]
    /\ UNCHANGED toChar

\* To every char server but the one in slot s
ToOtherChars(s, msg) ==
    toChar' = [r \in Slots |-> IF r # s /\ r \in Connected /\ at[server_session[r]] = r
                               THEN Append(toChar[r], msg) ELSE toChar[r]]

\* parse_fromchar 0x2728: all variables of the account are replaced, here and at the other
\* char servers
ReceiveReg2(s, msg) ==
    /\ auth_data' = [i \in DOMAIN auth_data |->
          IF i \in Found(msg.account_id) THEN [auth_data[i] EXCEPT !.reg2 = msg.reg2]
                                         ELSE auth_data[i]]
    /\ IF Found(msg.account_id) = {} THEN UNCHANGED toChar
       ELSE ToOtherChars(s, [type |-> "2729", account_id |-> msg.account_id, reg2 |-> msg.reg2])

\* parse_fromchar 0x2740: whether or not it is done, there is an answer
RequestPassword(s, msg) ==
    /\ auth_data' = [i \in DOMAIN auth_data |->
          IF i \in Found(msg.account_id) /\ auth_data[i].own.pass = msg.old
          THEN [auth_data[i] EXCEPT !.own.pass = msg.new]
          ELSE auth_data[i]]
    /\ toChar' = IF at[server_session[s]] = s
                 THEN [toChar EXCEPT ![s] = Append(@, [type |-> "2741",
                                                      account_id |-> msg.account_id])]
                 ELSE toChar

\* parse_fromchar, for what Login does not have
LoginReadsChar(s) ==
    /\ s \in Connected
    /\ toLogin[s] # << >>
    /\ LET msg == Head(toLogin[s])
       IN  \/ msg.type = "2722" /\ RequestEmail(msg)
           \/ msg.type = "2728" /\ ReceiveReg2(s, msg)
           \/ msg.type = "2740" /\ RequestPassword(s, msg)
    /\ toLogin' = [toLogin EXCEPT ![s] = Tail(@)]
    /\ UNCHANGED << up, account_id_count, gm_account_db, server_session, session_data, fileVars,
                    charVars, offers, ladmin, lost, count, gameVars >>

-----------------------------------------------------------------------------
(* The administration client: a command is a request and one answer. *)

Asked(kind, msg) == Command(kind, msg) /\ UNCHANGED gameVars

\* A field of an account, and its new value; 0 stands for one that is not allowed.
Change(field) ==
    \E name \in Names, value \in 0 .. 2 :
        Asked("ask", [type |-> "change", field |-> field, userid |-> name, value |-> value])

changepasswd == Change("pass")
changeemail == Change("email")
changememo == Change("memo")
changesex == Change("sex")

\* A question about an account or the servers
Look(what) == Asked("look", [type |-> what])

checkaccount == Look("check")
idaccount == Look("id")
nameaccount == Look("name")
whoaccount == Look("info by name")
infoaccount == Look("info by id")
getlogincount == Look("servers")
checkloginversion == Look("version")
get_all_accreg2 == Look("registers")
get_accreg2 == Look("register")

sendbroadcast == Look("broadcast")

\* The administrator's value is not one a script sets.
set_accreg2 ==
    \E id \in Owners, name \in VarNames :
        Asked("variable", [type |-> "set", account_id |-> id, name |-> name, value |-> 2])

del_accreg2 ==
    \E id \in Owners, name \in VarNames :
        Asked("variable", [type |-> "del", account_id |-> id, name |-> name])

\* The kind of request that was read, and the answer to it.
RequestOf(msg) == IF msg.type = "change" THEN msg.field ELSE msg.type
Says(said) == Answer([type |-> RequestOf(Head(ladmin.asked)), said |-> said])

\* What an answer about a change says: which account has the new value, or that none has.
Changed(msg) == [type |-> "changed", field |-> msg.field, userid |-> msg.userid,
                 value |-> msg.value]
Failed == [type |-> "failed"]
Shown == [type |-> "shown"]

\* What the requests for a change of a field have in common.
ChangeField(msg, Allowed(_), Others) ==
    \/ \E i \in search_account(msg.userid) :
          /\ Allowed(i)
          /\ Says(Changed(msg))
          /\ auth_data' = [auth_data EXCEPT ![i].own[msg.field] = msg.value]
          /\ Others
          /\ UNCHANGED << account_id_count, gm_account_db, gm_file >>
    \/ ~(\E i \in search_account(msg.userid) : Allowed(i)) /\ Says(Failed) /\ NoChange

\* 0x7934
ChangePass(msg) ==
    msg.field = "pass" /\ ChangeField(msg, LAMBDA i : TRUE, UNCHANGED toChar)

\* 0x7942
ChangeMemo(msg) ==
    msg.field = "memo" /\ ChangeField(msg, LAMBDA i : TRUE, UNCHANGED toChar)

\* 0x7940
ChangeEmailOf(msg) ==
    msg.field = "email" /\ ChangeField(msg, LAMBDA i : msg.value # 0, UNCHANGED toChar)

\* 0x793c, which the char servers are told of
ChangeSex(msg) ==
    msg.field = "sex" /\
    ChangeField(msg, LAMBDA i : msg.value # 0 /\ auth_data[i].own.sex # msg.value,
        ToChars([type |-> "2723",
                 account_id |-> IdOf(auth_data, msg.userid)]))

\* 0x793a, 0x7938, 0x7944, 0x7946, 0x7952, 0x7954, 0x7956, 0x7958, 0x7530: what the answer
\* shows is the account's or the servers', and nothing changes
CheckPassword(msg) == msg.type = "check" /\ Says(Shown)
ListServers(msg) == msg.type = "servers" /\ Says(Shown)
FindId(msg) == msg.type = "id" /\ Says(Shown)
FindName(msg) == msg.type = "name" /\ Says(Shown)
InfoByName(msg) == msg.type = "info by name" /\ Says(Shown)
InfoById(msg) == msg.type = "info by id" /\ Says(Shown)
AllRegisters(msg) == msg.type = "registers" /\ Says(Shown)
OneRegister(msg) == msg.type = "register" /\ Says(Shown)
LoginVersion(msg) == msg.type = "version" /\ Says(Shown)

\* 0x794e
Broadcast(msg) ==
    /\ msg.type = "broadcast"
    /\ Says(IF Connected = {} THEN Failed ELSE Shown)
    /\ ToChars([type |-> "2726"])
    /\ UNCHANGED << auth_data, account_id_count, gm_account_db, gm_file >>

\* A change of the variables, and who is told of it; Told is the array as it is told.
NewReg2(i, reg, told) ==
    /\ Says(Shown)
    /\ auth_data' = [auth_data EXCEPT ![i].reg2 = reg]
    /\ ToChars([type |-> "2729", account_id |-> auth_data[i].account_id, reg2 |-> told])
    /\ apart' = apart \cup {id \in {auth_data[i].account_id} : Anywhere(id)}
    /\ UNCHANGED << account_id_count, gm_account_db, gm_file >>

\* 0x795a
SetRegister(msg) ==
    /\ msg.type = "set"
    /\ \/ \E i \in Found(msg.account_id) :
             LET reg == auth_data[i].reg2
             IN  /\ CanSet(reg, msg.name)
                 /\ NewReg2(i, With(reg, msg.name, msg.value), With(reg, msg.name, msg.value))
       \/ /\ \A i \in Found(msg.account_id) : ~CanSet(auth_data[i].reg2, msg.name)
          /\ Says(Failed)
          /\ NoChange /\ UNCHANGED apart

\* 0x795c
DeleteRegister(msg) ==
    /\ msg.type = "del"
    /\ \/ \E i \in Found(msg.account_id) :
             LET reg == auth_data[i].reg2
                 left == RemoveAt(reg, PlaceIn(reg, msg.name))
             IN  /\ PlaceIn(reg, msg.name) # 0
                 /\ NewReg2(i, left, Padded(left))
       \/ /\ \A i \in Found(msg.account_id) : PlaceIn(auth_data[i].reg2, msg.name) = 0
          /\ Says(Failed)
          /\ NoChange /\ UNCHANGED apart

\* The answers that only show.
Shows(msg) ==
    /\ \/ CheckPassword(msg) \/ ListServers(msg) \/ FindId(msg) \/ FindName(msg)
       \/ InfoByName(msg) \/ InfoById(msg) \/ AllRegisters(msg) \/ OneRegister(msg)
       \/ LoginVersion(msg)
    /\ NoChange

LoginReadsAdmin ==
    /\ up
    /\ ladmin.asked # << >>
    /\ LET msg == Head(ladmin.asked)
       IN  \/ /\ msg.type = "change"
              /\ ChangePass(msg) \/ ChangeMemo(msg) \/ ChangeEmailOf(msg) \/ ChangeSex(msg)
              /\ UNCHANGED apart
           \/ Shows(msg) /\ UNCHANGED apart
           \/ Broadcast(msg) /\ UNCHANGED apart
           \/ SetRegister(msg)
           \/ DeleteRegister(msg)
    /\ UNCHANGED << up, server_session, session_data, account_file, children, charVars, toLogin,
                    offers, lost, count, records, clients, asking, linked, sess, toMap, fromMap >>

\* parse_fromlogin of ladmin: each answer ends the wait.
Prints(requests) ==
    /\ ladmin.answers # << >>
    /\ Head(ladmin.answers).type \in requests
    /\ ladmin' = [ladmin EXCEPT !.answers = Tail(@), !.waiting = FALSE,
                                !.said = Head(ladmin.answers).said]

PassAnswer == Prints({"pass"})
ServersAnswer == Prints({"servers"})
CheckAnswer == Prints({"check"})
SexAnswer == Prints({"sex"})
EmailAnswer == Prints({"email"})
MemoAnswer == Prints({"memo"})
IdAnswer == Prints({"id"})
NameAnswer == Prints({"name"})
BroadcastAnswer == Prints({"broadcast"})
InfoAnswer == Prints({"info by name", "info by id"})
RegistersAnswer == Prints({"registers"})
RegisterAnswer == Prints({"register"})
ChangedRegisterAnswer == Prints({"set", "del"})
VersionAnswer == Prints({"version"})

ReadAnswerToo ==
    /\ \/ PassAnswer \/ ServersAnswer \/ CheckAnswer \/ SexAnswer \/ EmailAnswer \/ MemoAnswer
       \/ IdAnswer \/ NameAnswer \/ BroadcastAnswer \/ InfoAnswer \/ RegistersAnswer
       \/ RegisterAnswer \/ ChangedRegisterAnswer \/ VersionAnswer
    /\ UNCHANGED << loginVars, fileVars, charVars, netVars, lost, count, gameVars >>

-----------------------------------------------------------------------------
(* All steps.  What Login does besides the ones above changes nothing here. *)

LoginAlone ==
    /\ \/ Stop \/ Crash \/ Start \/ Sync \/ EditGM \/ check_GM_file
       \/ \E c \in children : Written(c)
       \/ \E k \in Clients : Login64(k) \/ Leave(k)
       \/ \E c \in CharServers : Refused(c) \/ Lose(c) \/ Order(c)
       \/ \E s \in Slots : NoticeLoss(s) \/ Freeze(s)
       \/ create_account \/ delaccount \/ changegmlevel \/ blockaccount \/ banaddaccount
       \/ listaccount \/ reloadGM
    /\ UNCHANGED gameVars

Player(c, id) ==
    \/ \E slot \in CharSlots : Enter(c, id, slot) \/ NewCharacter(c, id, slot)
    \/ \E name \in VarNames, value \in 0 .. 1 : pc_setaccountreg2(c, id, name, value)
    \/ \E old, new \in 1 .. 2 : \/ chrif_changeemail(c, id, old, new)
                                \/ ChangePassword(c, id, old, new)
    \/ Quit(c, id) \/ LeaveChar(c, id)

Commands ==
    \/ changepasswd \/ changeemail \/ changememo \/ changesex
    \/ checkaccount \/ idaccount \/ nameaccount \/ whoaccount \/ infoaccount \/ getlogincount
    \/ checkloginversion \/ get_all_accreg2 \/ get_accreg2 \/ sendbroadcast
    \/ set_accreg2 \/ del_accreg2

ReadsLogin(c) == ReadLoginToo(c) \/ CharReadsLogin(c)
ReadsChar(s) == (ReadChar(s) /\ UNCHANGED gameVars) \/ LoginReadsChar(s)
ReadsAdmin == (ReadAdmin /\ UNCHANGED gameVars) \/ LoginReadsAdmin
ReadsAnswer == (ReadAnswer /\ UNCHANGED gameVars) \/ ReadAnswerToo

AccNext ==
    \/ LoginAlone
    \/ \E c \in CharServers : \/ ReadsLogin(c) \/ CharReadsMap(c) \/ MapReads(c)
                              \/ ConnectToo(c) \/ DieToo(c) \/ Relink(c)
                              \/ \E o \in offers : PlayToo(c, o)
                              \/ \E id \in Owners : Player(c, id)
    \/ \E s \in Slots : ReadsChar(s)
    \/ Commands \/ ReadsAdmin \/ ReadsAnswer

AccSpec ==
    /\ AccInit
    /\ [][AccNext]_accVars
    /\ \A c \in CharServers : WF_accVars(ReadsLogin(c))
    /\ \A s \in Slots : WF_accVars(ReadsChar(s))
    /\ WF_accVars(ReadsAdmin)
    /\ WF_accVars(ReadsAnswer)

-----------------------------------------------------------------------------
(* Properties. *)

Undisturbed == Times("lose") + Times("stop") + Times("crash") + Times("delete") = 0

\* Everybody who keeps the ## variables of an account has the same ones once nothing about
\* them is under way: the login server, every character of the account at every char
\* server that is connected, and the session in the game.  That is as long as changes
\* have not met, no character was made and no connection was lost.
VariablesAgree ==
    Undisturbed =>
        \A i \in DOMAIN auth_data :
            LET id == auth_data[i].account_id
                Settled == /\ \A s \in Slots : ~About(toChar[s], Carriers, id)
                                              /\ ~About(toLogin[s], Carriers, id)
                           /\ \A c \in CharServers : ~About(toMap[c], Carriers \cup {"2afd"}, id)
                                                    /\ ~About(fromMap[c], Carriers, id)
            IN  id \notin apart /\ Settled =>
                    \A c \in CharServers : ~Free(c) =>
                        /\ \A ck \in Characters(c) : ck[1] = id =>
                               Values(records[c][ck]) = Values(auth_data[i].reg2)
                        /\ id \in Owners /\ Playing(c, id) =>
                               Values(sess[c][id].reg2) = Values(auth_data[i].reg2)

=============================================================================
