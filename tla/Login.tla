-------------------------------- MODULE Login --------------------------------
(***************************************************************************)
(* The login server (login/login.cpp), the char servers as far as they     *)
(* speak with it (parse_tologin in char/char.cpp), and the administration  *)
(* client (admin/ladmin.cpp).  A login is announced to every char server;  *)
(* their answers are counted, and when all have come the client gets the   *)
(* list of servers.  Accounts are kept in memory and saved now and then.   *)
(***************************************************************************)
EXTENDS Integers, SequencesExt

CONSTANTS
    Names,          \* account names
    NoName,         \* what a deleted account is called
    CharServers,
    NoServer,
    Main,           \* the char server called login_conf.main_server
    MAX_SERVERS,
    Clients,        \* connections of clients to the login server
    StartAccounts,  \* the accounts in the file when the login server starts
    StartGMs,       \* the ids in the file of GM accounts
    Limits          \* how often the environment does each thing: some budgets

Kinds == {"login", "connect", "lose", "play", "sync", "stop", "crash", "edit", "bar",
          "create", "delete", "level", "list",
          "ask", "look", "variable", "enter", "quit", "script", "member", "password"}
Slots == 0 .. MAX_SERVERS - 1

ASSUME LoginAssumption ==
    /\ NoName \notin Names
    /\ NoServer \notin CharServers
    /\ Main \in CharServers
    /\ MAX_SERVERS \in Nat \ {0}
    /\ Limits \subseteq [Kinds -> Nat]

VARIABLES
    up,               \* the login server runs
    auth_data,        \* the accounts, in the order of the file
    account_id_count, \* the id of the next new account
    gm_account_db,    \* the ids of GM accounts, as last read
    server_session,   \* the char server in each slot
    session_data,     \* what each client's session waits for
    account_file, gm_file,
    children,         \* child processes that are writing the account file: what they write
    at,               \* the slot each char server is connected to
    auth_fifo,        \* char servers: the login announced last for each id
    char_keys,        \* char servers: whose characters they have, and under which id
    gm_accounts,      \* char servers: the GM accounts they have been told
    toChar, toLogin,  \* packets under way on each slot's connection
    offers,           \* what clients have been told: 0x0069
    ladmin,           \* the administration client
    lost,             \* history: ids that were given out and that the file does not know
    count             \* what the environment has done, and the most it may do of each kind

loginVars == << up, auth_data, account_id_count, gm_account_db, server_session,
                session_data >>
fileVars == << account_file, gm_file, children >>
charVars == << at, auth_fifo, char_keys, gm_accounts >>
netVars == << toChar, toLogin, offers >>
vars == << loginVars, fileVars, charVars, netVars, ladmin, lost, count >>

Nowhere == -1
Nothing == [account_id |-> 0, userid |-> NoName, n |-> 0, verified |-> FALSE,
            consumed_by |-> 0, since |-> 0]
Idle == [waiting |-> FALSE, asked |-> << >>, answers |-> << >>, first |-> 0, last |-> 0,
         shown |-> {}, said |-> [type |-> ""]]

Times(kind) == count.done[kind]

Count(kind) ==
    /\ Times(kind) < count.limit[kind]
    /\ count' = [count EXCEPT !.done[kind] = @ + 1]

Connected == {s \in Slots : server_session[s] # NoServer}

\* iter_char_sessions: every session in server_session, whether or not the char server
\* is still at its other end
ToChars(msg) ==
    toChar' = [s \in Slots |-> IF s \in Connected /\ at[server_session[s]] = s
                               THEN Append(toChar[s], msg) ELSE toChar[s]]

-----------------------------------------------------------------------------
(* Accounts. *)

search_account(name) == {i \in DOMAIN auth_data : auth_data[i].userid = name}
Exists(id) == \E i \in DOMAIN auth_data : auth_data[i].account_id = id

\* mmo_auth_new gives out no id that the file of GM accounts lists
NewId(db) ==
    CHOOSE id \in account_id_count .. account_id_count + Cardinality(db) :
        id \notin db /\ \A i \in account_id_count .. id - 1 : i \in db

\* What the owner of an account may change, and the administrator.
Fresh == [pass |-> 1, email |-> 1, memo |-> 1, sex |-> 1]

mmo_auth_new(name) ==
    LET id == NewId(gm_account_db)
    IN  /\ auth_data' = Append(auth_data, [account_id |-> id, userid |-> name, barred |-> {},
                                          own |-> Fresh, reg2 |-> << >>])
        /\ account_id_count' = id + 1

Existing(data) == SelectSeq(data, LAMBDA ad : ad.account_id # 0)

\* A fault: the next id is not written.
SyncWithoutNext == [accounts |-> Existing(auth_data), newid |-> 1]

\* mmo_auth_sync: deleted accounts are not written, the next id is
mmo_auth_sync == [accounts |-> Existing(auth_data), newid |-> account_id_count]

\* account_id_count, when the file has been read
NextFrom(file) ==
    Max({file.newid, 1} \cup {ad.account_id + 1 : ad \in ToSet(file.accounts)})

\* The GM accounts that exist, which is what char servers are told.
GMs(db) == [type |-> "2732", list |-> {id \in db : Exists(id)}]

send_GM_accounts(db) == ToChars(GMs(db))

-----------------------------------------------------------------------------
(* Start and end. *)

\* A char server has no connection any more, and the login server has not noticed.
Free(c) == at[c] = Nowhere

Init ==
    /\ up = TRUE
    /\ auth_data = StartAccounts
    /\ account_file = [accounts |-> StartAccounts, newid |-> 1]
    /\ account_id_count = NextFrom(account_file)
    /\ gm_file = StartGMs
    /\ gm_account_db = StartGMs
    /\ server_session = [s \in Slots |-> NoServer]
    /\ session_data = [k \in Clients |-> Nothing]
    /\ at = [c \in CharServers |-> Nowhere]
    /\ auth_fifo = [c \in CharServers |-> {}]
    /\ char_keys = [c \in CharServers |-> {}]
    /\ gm_accounts = [c \in CharServers |-> {}]
    /\ toChar = [s \in Slots |-> << >>]
    /\ toLogin = [s \in Slots |-> << >>]
    /\ offers = {}
    /\ ladmin = Idle
    /\ children = {}
    /\ lost = {}
    /\ count \in [done : {[kind \in Kinds |-> 0]}, limit : Limits]

\* Every session ends with the process; a child that is writing goes on.
Down ==
    /\ up
    /\ up' = FALSE
    /\ server_session' = [s \in Slots |-> NoServer]
    /\ session_data' = [k \in Clients |-> Nothing]
    /\ at' = [c \in CharServers |-> Nowhere]
    /\ toChar' = [s \in Slots |-> << >>]
    /\ toLogin' = [s \in Slots |-> << >>]
    /\ ladmin' = Idle
    /\ auth_data' = << >>
    /\ gm_account_db' = {}
    /\ account_id_count' = 1
    /\ children' = {[c EXCEPT !.own = FALSE] : c \in children}
    /\ UNCHANGED << auth_fifo, char_keys, gm_accounts, offers, gm_file >>

\* term_func, which does not wait for a child
Stop ==
    /\ Count("stop")
    /\ Down
    /\ account_file' = mmo_auth_sync
    /\ UNCHANGED lost

\* The process is killed.
Crash ==
    /\ Count("crash")
    /\ Down
    /\ lost' = lost \cup (NextFrom(account_file) .. account_id_count - 1)
    /\ UNCHANGED account_file

\* do_init: read_gm_account and mmo_auth_init
Start ==
    /\ ~up
    /\ up' = TRUE
    /\ gm_account_db' = gm_file
    /\ auth_data' = account_file.accounts
    /\ account_id_count' = NextFrom(account_file)
    /\ UNCHANGED << server_session, session_data, fileVars, charVars, netVars, ladmin,
                    lost, count >>

\* check_auth_sync, unless the child of the last time is still writing.  Without a child
\* the server itself writes.
Sync ==
    /\ Count("sync")
    /\ up
    /\ \A c \in children : ~c.own
    /\ \/ /\ children' = children \cup {[own |-> TRUE, table |-> mmo_auth_sync]}
          /\ UNCHANGED account_file
       \/ account_file' = mmo_auth_sync /\ UNCHANGED children
    /\ UNCHANGED << loginVars, gm_file, charVars, netVars, ladmin, lost >>

\* A child has written what memory held at the fork, perhaps after the end of the
\* server that forked it.  Then the file forgets the ids given out since.
Written(c) ==
    /\ account_file' = c.table
    /\ children' = children \ {c}
    /\ lost' = IF up THEN lost
               ELSE lost \cup (NextFrom(c.table) .. NextFrom(account_file) - 1)
    /\ UNCHANGED << loginVars, gm_file, charVars, netVars, ladmin, count >>

\* Somebody edits the file of GM accounts.
EditGM ==
    /\ Count("edit")
    /\ \E id \in 1 .. account_id_count : gm_file' = (gm_file \cup {id}) \ (gm_file \cap {id})
    /\ UNCHANGED << loginVars, account_file, children, charVars, netVars, ladmin, lost >>

\* check_GM_file, when the file has another date
check_GM_file ==
    /\ up
    /\ gm_account_db # gm_file
    /\ gm_account_db' = gm_file
    /\ send_GM_accounts(gm_file)
    /\ UNCHANGED << up, auth_data, account_id_count, server_session, session_data,
                    fileVars, charVars, toLogin, offers, ladmin, lost, count >>

-----------------------------------------------------------------------------
(* Clients. *)

\* mmo_auth: which account a name and a password of 0x64 give.  A login that is refused
\* changes nothing; a ban that is over is forgotten when somebody logs in.
Admitted(ad) == [ad EXCEPT !.barred = {}]

mmo_auth(name, create) ==
    IF search_account(name) = {}
    THEN create /\ mmo_auth_new(name)
    ELSE /\ ~create
         /\ \E i \in search_account(name) :
               /\ auth_data[i].barred \subseteq {"ban"}
               /\ auth_data' = [auth_data EXCEPT ![i] = Admitted(@)]
         /\ UNCHANGED account_id_count

IdOf(data, name) ==
    (CHOOSE ad \in ToSet(data) : ad.userid = name).account_id

\* How often a char server has come or gone, and that none has gone unnoticed.
Churn == Times("connect") + Times("lose")
Healthy == \A s \in Connected : at[server_session[s]] = s

\* What 0x64 leaves in the session, in place of an earlier login of the same session.
\* Since is a history variable: the value of Churn, or 0 for a login that a server was
\* told of over a connection that had ended.
Started(id, name, n) ==
    [account_id |-> id, userid |-> name, n |-> n, verified |-> TRUE, consumed_by |-> 0,
     since |-> IF Healthy THEN Churn ELSE 0]

\* parse_login 0x64.  That a client is too old, that its GM level is too low, or that there
\* is no char server, is found out after the account has been created.
Login64(k) ==
    /\ Count("login")
    /\ up
    /\ \E name \in Names, create \in BOOLEAN :
          /\ mmo_auth(name, create)
          /\ LET id == IdOf(auth_data', name)
                 n == count'.done["login"]
             IN  \/ /\ Connected # {}
                    /\ session_data' = [session_data EXCEPT ![k] = Started(id, name, n)]
                    /\ ToChars([type |-> "2715", account_id |-> id, n |-> n])
                 \/ UNCHANGED << session_data, toChar >>
    /\ UNCHANGED << up, gm_account_db, server_session, fileVars, charVars, toLogin, offers,
                    ladmin, lost >>

\* The client ends the connection (0x7532), or login_waitclose does.
Leave(k) ==
    /\ session_data[k] # Nothing
    /\ session_data' = [session_data EXCEPT ![k] = Nothing]
    /\ UNCHANGED << up, auth_data, account_id_count, gm_account_db, server_session,
                    fileVars, charVars, netVars, ladmin, lost, count >>

\* parse_fromchar 0x2742: whose answer it is
Announced(k, p) ==
    session_data[k].account_id = p.account_id /\ session_data[k].n = p.n
AnsweredBy(p) == {k \in Clients : session_data[k].verified /\ Announced(k, p)}

\* 0x0069, which lists the char servers that are connected
Offer(sd) == [account_id |-> sd.account_id, userid |-> sd.userid, n |-> sd.n,
              servers |-> {server_session[s] : s \in Connected}]

\* A fault: the first answer suffices.
FirstAnswer(p) ==
    IF AnsweredBy(p) = {} THEN UNCHANGED << session_data, offers >>
    ELSE \E k \in AnsweredBy(p) :
        /\ session_data' = [session_data EXCEPT ![k].verified = FALSE]
        /\ offers' = offers \cup {Offer(session_data[k])}

\* parse_fromchar 0x2742: one more char server knows the login; when as many do as are
\* connected, the client is sent the list of those that are connected.
ReceiveAuthSuccess(p) ==
    IF AnsweredBy(p) = {} THEN UNCHANGED << session_data, offers >>
    ELSE \E k \in AnsweredBy(p) :
        LET consumed_by == session_data[k].consumed_by + 1
            all == consumed_by = Cardinality(Connected)
        IN  /\ session_data' = [session_data EXCEPT ![k].consumed_by = consumed_by,
                                                    ![k].verified = ~all]
            /\ offers' = IF all
                         THEN offers \cup {Offer(session_data[k])}
                         ELSE offers

-----------------------------------------------------------------------------
(* Char servers. *)

\* parse_login 0x2710: slot 0 is for the main server, and for it alone
SlotsFor(c) ==
    IF server_session[0] = NoServer /\ c = Main THEN {0}
    ELSE {s \in Slots \ {0} : /\ server_session[s] = NoServer
                              /\ \A r \in 1 .. s - 1 : server_session[r] # NoServer}

\* What a char server that connects is sent: 0x2711, and the GM accounts.
Welcome == << GMs(gm_account_db) >>

\* check_connect_login_server and parse_login 0x2710
Connect(c) ==
    /\ Count("connect")
    /\ up
    /\ Free(c)
    /\ \E s \in SlotsFor(c) :
          /\ server_session' = [server_session EXCEPT ![s] = c]
          /\ at' = [at EXCEPT ![c] = s]
          /\ toChar' = [toChar EXCEPT ![s] = Welcome]
          /\ toLogin' = [toLogin EXCEPT ![s] = << >>]
    /\ UNCHANGED << up, auth_data, account_id_count, gm_account_db, session_data, fileVars,
                    auth_fifo, char_keys, gm_accounts, offers, ladmin, lost >>

\* A char server that finds no slot is refused (0x2711 with code 3), and exits.
Refused(c) ==
    /\ Count("connect")
    /\ up
    /\ Free(c)
    /\ SlotsFor(c) = {}
    /\ auth_fifo' = [auth_fifo EXCEPT ![c] = {}]
    /\ gm_accounts' = [gm_accounts EXCEPT ![c] = {}]
    /\ UNCHANGED << loginVars, fileVars, at, char_keys, netVars, ladmin, lost >>

\* A char server's end of the connection closes.  What it has sent is still read.
Cut(c) ==
    /\ Count("lose")
    /\ ~Free(c)
    /\ toChar' = [toChar EXCEPT ![at[c]] = << >>]
    /\ at' = [at EXCEPT ![c] = Nowhere]
    /\ UNCHANGED << loginVars, fileVars, char_keys, toLogin, offers, ladmin, lost >>

\* delete_tologin
Lose(c) == Cut(c) /\ UNCHANGED << auth_fifo, gm_accounts >>

\* The char server ends, with what is only in its memory.
Die(c) ==
    /\ Cut(c)
    /\ auth_fifo' = [auth_fifo EXCEPT ![c] = {}]
    /\ gm_accounts' = [gm_accounts EXCEPT ![c] = {}]

\* delete_fromchar
Forget(s) ==
    /\ server_session' = [server_session EXCEPT ![s] = NoServer]
    /\ UNCHANGED << up, auth_data, account_id_count, gm_account_db, session_data, fileVars,
                    auth_fifo, char_keys, gm_accounts, offers, ladmin, lost >>

\* The login server has read everything, and finds that the connection has ended.
NoticeLoss(s) ==
    /\ s \in Connected
    /\ at[server_session[s]] # s
    /\ toLogin[s] = << >>
    /\ Forget(s)
    /\ UNCHANGED << at, toChar, toLogin, count >>

\* char_anti_freeze_system: a char server that is connected has been silent for too long
Freeze(s) ==
    /\ Count("lose")
    /\ s \in Connected
    /\ Forget(s)
    /\ at' = [c \in CharServers |-> IF at[c] = s THEN Nowhere ELSE at[c]]
    /\ toChar' = [toChar EXCEPT ![s] = << >>]
    /\ toLogin' = [toLogin EXCEPT ![s] = << >>]

\* A fault: only a login that has no earlier one is answered.
AnswerNewLogin(c, msg) ==
    /\ auth_fifo' = [auth_fifo EXCEPT ![c] = {e \in @ : e.account_id # msg.account_id}
                        \cup {[account_id |-> msg.account_id, n |-> msg.n, delflag |-> 2]}]
    /\ IF \E e \in auth_fifo[c] : e.account_id = msg.account_id
       THEN UNCHANGED toLogin
       ELSE toLogin' = [toLogin EXCEPT ![at[c]] = Append(@, [type |-> "2742",
                            account_id |-> msg.account_id, n |-> msg.n])]
    /\ UNCHANGED << char_keys, gm_accounts >>

\* parse_tologin 0x2715: the login takes the place of an earlier one of the account, and
\* the login server is told so
ReceiveLogin(c, msg) ==
    /\ auth_fifo' = [auth_fifo EXCEPT ![c] = {e \in @ : e.account_id # msg.account_id}
                        \cup {[account_id |-> msg.account_id, n |-> msg.n, delflag |-> 2]}]
    /\ toLogin' = [toLogin EXCEPT ![at[c]] =
                       Append(@, [type |-> "2742", account_id |-> msg.account_id, n |-> msg.n])]
    /\ UNCHANGED << char_keys, gm_accounts >>

\* parse_tologin 0x2730: the characters go, and logins that wait for the player stay
ReceiveDeleted(c, msg) ==
    /\ char_keys' = [char_keys EXCEPT ![c] = {ck \in @ : ck[1] # msg.account_id}]
    /\ UNCHANGED << auth_fifo, gm_accounts, toLogin >>

\* parse_tologin 0x2731, which ends a session (GameSession has those)
ReceiveBarred == UNCHANGED << auth_fifo, char_keys, gm_accounts, toLogin >>

\* parse_tologin 0x2732
ReceiveGMs(c, msg) ==
    /\ gm_accounts' = [gm_accounts EXCEPT ![c] = msg.list]
    /\ UNCHANGED << auth_fifo, char_keys, toLogin >>

\* parse_tologin
ReadLogin(c) ==
    /\ ~Free(c)
    /\ toChar[at[c]] # << >>
    /\ LET msg == Head(toChar[at[c]])
       IN  \/ msg.type = "2715" /\ ReceiveLogin(c, msg)
           \/ msg.type = "2730" /\ ReceiveDeleted(c, msg)
           \/ msg.type = "2731" /\ ReceiveBarred
           \/ msg.type = "2732" /\ ReceiveGMs(c, msg)
    /\ toChar' = [toChar EXCEPT ![at[c]] = Tail(@)]
    /\ UNCHANGED << loginVars, fileVars, at, offers, ladmin, lost, count >>

\* A player goes to a char server that 0x0069 listed (0x65), and makes a character there.
Play(c, o) ==
    /\ Count("play")
    /\ ~Free(c)
    /\ \E e \in auth_fifo[c] :
          /\ c \in o.servers
          /\ e = [account_id |-> o.account_id, n |-> o.n, delflag |-> 2]
          /\ auth_fifo' = [auth_fifo EXCEPT ![c] = (@ \ {e}) \cup {[e EXCEPT !.delflag = 1]}]
          /\ char_keys' = [char_keys EXCEPT ![c] = @ \cup {<< o.account_id, o.userid >>}]
    /\ UNCHANGED << loginVars, fileVars, at, gm_accounts, netVars, ladmin, lost >>

\* The map server sends an order about an account, and the char server passes it on.
Order(c) ==
    /\ Count("bar")
    /\ ~Free(c)
    /\ \E type \in {"2724", "2725", "272a"}, i \in DOMAIN auth_data, bar \in BOOLEAN :
          toLogin' = [toLogin EXCEPT ![at[c]] =
              Append(@, [type |-> type, account_id |-> auth_data[i].account_id, bar |-> bar])]
    /\ UNCHANGED << loginVars, fileVars, charVars, toChar, offers, ladmin, lost >>

\* An account is given a state that is not 0, or a date until which it is banned, or is
\* rid of it; the char servers are told of what is new.
Barred(i, why, bar) ==
    /\ auth_data' = [auth_data EXCEPT ![i].barred = IF bar THEN @ \cup {why} ELSE @ \ {why}]
    /\ IF bar /\ why \notin auth_data[i].barred
       THEN ToChars([type |-> "2731", account_id |-> auth_data[i].account_id])
       ELSE UNCHANGED toChar

\* The search by the number of an account, in parse_fromchar.
Found(id) == {i \in DOMAIN auth_data : auth_data[i].account_id = id}

\* parse_fromchar 0x2724
ChangeStatus(i, bar) == Barred(i, "state", bar)

\* parse_fromchar 0x2725, which makes a ban longer or shorter
ChangeBan(i, bar) == Barred(i, "ban", bar)

\* parse_fromchar 0x272a
Unban(i) == Barred(i, "ban", FALSE)

\* parse_fromchar
ReadChar(s) ==
    /\ s \in Connected
    /\ toLogin[s] # << >>
    /\ LET msg == Head(toLogin[s])
           Ordered(type, Do(_)) ==
               /\ msg.type = type
               /\ \/ \E i \in Found(msg.account_id) : Do(i)
                  \/ Found(msg.account_id) = {} /\ UNCHANGED << auth_data, toChar >>
               /\ UNCHANGED << session_data, offers >>
       IN  \/ /\ msg.type = "2742"
              /\ ReceiveAuthSuccess(msg)
              /\ UNCHANGED << auth_data, toChar >>
           \/ Ordered("2724", LAMBDA i : ChangeStatus(i, msg.bar))
           \/ Ordered("2725", LAMBDA i : ChangeBan(i, msg.bar))
           \/ Ordered("272a", Unban)
    /\ toLogin' = [toLogin EXCEPT ![s] = Tail(@)]
    /\ UNCHANGED << up, account_id_count, gm_account_db, server_session, fileVars, charVars,
                    ladmin, lost, count >>

-----------------------------------------------------------------------------
(* The administration client. *)

\* The client sends a request and waits (bytes_to_read = 1).  Prompt reads a command only
\* when it does not.
Request(msg) ==
    ladmin' = [ladmin EXCEPT !.waiting = TRUE, !.asked = Append(@, msg), !.said = [type |-> ""]]

Command(kind, msg) ==
    /\ Count(kind)
    /\ up
    /\ ~ladmin.waiting
    /\ Request(msg)
    /\ UNCHANGED << loginVars, fileVars, charVars, netVars, lost >>

\* create_account
create_account ==
    \E name \in Names : Command("create", [type |-> "create", userid |-> name])

\* delaccount
delaccount == \E name \in Names : Command("delete", [type |-> "delete", userid |-> name])

\* changegmlevel
changegmlevel == \E name \in Names : Command("level", [type |-> "level", userid |-> name])

\* blockaccount, unblockaccount
blockaccount ==
    \E name \in Names, bar \in BOOLEAN :
        Command("bar", [type |-> "state", userid |-> name, bar |-> bar])

\* banaddaccount, unbanaccount
banaddaccount ==
    \E name \in Names, bar \in BOOLEAN :
        Command("bar", [type |-> "ban", userid |-> name, bar |-> bar])

\* listaccount: a last account that is before the first is none
listaccount ==
    \E first, last \in 0 .. account_id_count :
        LET end == IF last < first THEN 0 ELSE last
        IN  /\ Count("list")
            /\ up
            /\ ~ladmin.waiting
            /\ ladmin' = [ladmin EXCEPT !.waiting = TRUE, !.first = first, !.last = end,
                             !.shown = {},
                             !.asked = Append(@, [type |-> "list", first |-> first, last |-> end])]
            /\ UNCHANGED << loginVars, fileVars, charVars, netVars, lost >>

\* reloadGM: a request that is not answered, and a list
reloadGM ==
    /\ Count("list")
    /\ up
    /\ ~ladmin.waiting
    /\ ladmin' = [ladmin EXCEPT !.waiting = TRUE, !.first = 0, !.last = 0, !.shown = {},
                     !.asked = @ \o << [type |-> "reload"],
                                       [type |-> "list", first |-> 0, last |-> 0] >>]
    /\ UNCHANGED << loginVars, fileVars, charVars, netVars, lost >>

\* parse_admin answers what it reads; the list is read by ReadAnswer.
Answer(reply) == ladmin' = [ladmin EXCEPT !.asked = Tail(@), !.answers = Append(@, reply)]
Done == [type |-> "done"]

NoChange == UNCHANGED << auth_data, account_id_count, gm_account_db, gm_file, toChar >>

\* parse_admin 0x7930
CreateAccount(msg) ==
    /\ Answer(Done)
    /\ \/ /\ search_account(msg.userid) = {}
          /\ mmo_auth_new(msg.userid)
          /\ UNCHANGED << gm_account_db, gm_file, toChar >>
       \/ search_account(msg.userid) # {} /\ NoChange

\* What a request does to the account of a name, if there is one.
OnAccount(name, Do(_)) ==
    \/ \E i \in search_account(name) : Do(i)
    \/ search_account(name) = {} /\ NoChange

\* parse_admin 0x7932: the account keeps its place in auth_data
Deleted(ad) == [ad EXCEPT !.account_id = 0, !.userid = NoName]

DeleteAccount(msg) ==
    /\ Answer(Done)
    /\ OnAccount(msg.userid, LAMBDA i :
          /\ ToChars([type |-> "2730", account_id |-> auth_data[i].account_id])
          /\ auth_data' = [auth_data EXCEPT ![i] = Deleted(@)]
          /\ UNCHANGED << account_id_count, gm_account_db, gm_file >>)

\* parse_admin 0x7936
ChangeState(msg) ==
    /\ Answer(Done)
    /\ OnAccount(msg.userid, LAMBDA i :
          /\ Barred(i, "state", msg.bar)
          /\ UNCHANGED << account_id_count, gm_account_db, gm_file >>)

\* parse_admin 0x794a, 0x794c
BanUntil(msg) ==
    /\ Answer(Done)
    /\ OnAccount(msg.userid, LAMBDA i :
          /\ Barred(i, "ban", msg.bar)
          /\ UNCHANGED << account_id_count, gm_account_db, gm_file >>)

\* parse_admin 0x793e: the file is written anew from what it holds now, and read
Toggled(id) == IF id \in gm_account_db THEN gm_file \ {id} ELSE gm_file \cup {id}

ChangeLevel(msg) ==
    /\ Answer(Done)
    /\ OnAccount(msg.userid, LAMBDA i :
          /\ gm_file' = Toggled(auth_data[i].account_id)
          /\ gm_account_db' = gm_file'
          /\ send_GM_accounts(gm_account_db')
          /\ UNCHANGED << auth_data, account_id_count >>)

\* parse_admin 0x7955
Reload ==
    /\ ladmin' = [ladmin EXCEPT !.asked = Tail(@)]
    /\ gm_account_db' = gm_file
    /\ send_GM_accounts(gm_file)
    /\ UNCHANGED << auth_data, account_id_count, gm_file >>

\* parse_admin 0x7920: the last account asked for is forgotten when the first is after it
LastOf(msg) == IF msg.last = 0 \/ msg.last < msg.first
               THEN account_id_count ELSE msg.last

ListAccounts(msg) ==
    /\ Answer([type |-> "list",
               ids |-> SelectSeq([i \in DOMAIN auth_data |-> auth_data[i].account_id],
                                 LAMBDA id : msg.first <= id /\ id <= LastOf(msg))])
    /\ NoChange

\* parse_admin
ReadAdmin ==
    /\ up
    /\ ladmin.asked # << >>
    /\ LET msg == Head(ladmin.asked)
       IN  \/ msg.type = "create" /\ CreateAccount(msg)
           \/ msg.type = "delete" /\ DeleteAccount(msg)
           \/ msg.type = "level" /\ ChangeLevel(msg)
           \/ msg.type = "state" /\ ChangeState(msg)
           \/ msg.type = "ban" /\ BanUntil(msg)
           \/ msg.type = "reload" /\ Reload
           \/ msg.type = "list" /\ ListAccounts(msg)
    /\ UNCHANGED << up, server_session, session_data, account_file, children, charVars, toLogin,
                    offers, lost, count >>

\* parse_fromlogin of ladmin: the answer ends the wait, but for a list that is not empty,
\* after whose last account the list is asked for again
Listed(l, ids) ==
    IF ids = << >> THEN [l EXCEPT !.waiting = FALSE]
    ELSE [l EXCEPT !.shown = @ \cup ToSet(ids), !.first = Last(ids) + 1,
                   !.asked = Append(@, [type |-> "list", first |-> Last(ids) + 1,
                                        last |-> l.last])]

ReadAnswer ==
    /\ ladmin.answers # << >>
    /\ LET msg == Head(ladmin.answers)
           l == [ladmin EXCEPT !.answers = Tail(@)]
       IN  \/ msg.type = "list" /\ ladmin' = Listed(l, msg.ids)
           \/ msg.type = "done" /\ ladmin' = [l EXCEPT !.waiting = FALSE]
    /\ UNCHANGED << loginVars, fileVars, charVars, netVars, lost, count >>

-----------------------------------------------------------------------------
Next ==
    \/ Stop \/ Crash \/ Start \/ Sync \/ EditGM \/ check_GM_file
    \/ \E c \in children : Written(c)
    \/ \E k \in Clients : Login64(k) \/ Leave(k)
    \/ \E c \in CharServers : \/ Connect(c) \/ Refused(c) \/ Lose(c) \/ Die(c) \/ ReadLogin(c)
                              \/ Order(c) \/ \E o \in offers : Play(c, o)
    \/ \E s \in Slots : NoticeLoss(s) \/ Freeze(s) \/ ReadChar(s)
    \/ create_account \/ delaccount \/ changegmlevel \/ blockaccount \/ banaddaccount
    \/ listaccount \/ reloadGM \/ ReadAdmin \/ ReadAnswer

Spec == Init /\ [][Next]_vars

\* Every process goes on reading; nothing is said of the clients, nor of the timers.
Reads ==
    /\ \A c \in CharServers : WF_vars(ReadLogin(c))
    /\ \A s \in Slots : WF_vars(ReadChar(s))
    /\ WF_vars(ReadAdmin)
    /\ WF_vars(ReadAnswer)

LiveSpec == Spec /\ Reads

-----------------------------------------------------------------------------
(* Properties. *)

Account == [account_id : Nat, userid : Names \cup {NoName}, barred : SUBSET {"state", "ban"},
            own : [DOMAIN Fresh -> Nat], reg2 : Seq(Nat \X Nat)]

\* The accounts in memory, the slots and the connections are what the types say, and the
\* two ends of a connection name one another.
TypeOK ==
    /\ up \in BOOLEAN
    /\ auth_data \in Seq(Account)
    /\ \A table \in {account_file} \cup {c.table : c \in children} :
          table.accounts \in Seq(Account) /\ table.newid \in Nat
    /\ account_id_count \in Nat
    /\ gm_account_db \subseteq Nat /\ gm_file \subseteq Nat
    /\ server_session \in [Slots -> CharServers \cup {NoServer}]
    /\ at \in [CharServers -> Slots \cup {Nowhere}]
    /\ \A c \in CharServers : Free(c) \/ server_session[at[c]] = c
    /\ char_keys \in [CharServers -> SUBSET (Nat \X Names)]

\* A client is sent to a char server only when that server knows its login, as long as no
\* server has been lost: what is counted (parse_fromchar 0x2742) are answers, and with whom
\* they are compared are the servers connected now.
OfferedServersKnow ==
    Times("lose") = 0 =>
        \A o \in offers : \A c \in o.servers :
            \E e \in auth_fifo[c] : e.account_id = o.account_id /\ e.n >= o.n

\* A login that has been announced to every char server is answered, unless a char server
\* comes or goes meanwhile.
LoginIsAnswered ==
    \A k \in Clients :
        session_data[k].verified /\ session_data[k].since = Churn
            ~> (~session_data[k].verified \/ session_data[k].since # Churn)

\* A number stands for one account only: the characters a char server keeps under it are
\* those of the player who made them.  Except for numbers that the file does not know when
\* the server starts: those given out since the last save when the server is killed, and
\* those given out since a fork (check_auth_sync) whose child writes after the server's end.
IdsNameOneAccount ==
    \A c \in CharServers : \A ck \in char_keys[c] :
        ck[1] \notin lost =>
            \A i \in DOMAIN auth_data :
                auth_data[i].account_id = ck[1] => auth_data[i].userid = ck[2]

=============================================================================
