------------------------------ MODULE Messages ------------------------------
(***************************************************************************)
(* What the char server passes between the map servers besides parties and *)
(* storages (char/inter.cpp, map/intif.cpp): whispers and the answers to   *)
(* them, the announcements of game masters, and the variables that scripts *)
(* keep for an account.  A whisper goes to the server where the char       *)
(* server believes its addressee to be, which it learns from the lists of  *)
(* players that the map servers send (0x2aff).  What a player says is      *)
(* first weighed for flooding and spam (clif.cpp, tmw.cpp).  The players,  *)
(* their records and the connections are those of Party.                   *)
(***************************************************************************)
EXTENDS Party

CONSTANTS
    GameMasters,        \* the accounts that pc_isGM is about
    Texts, LameTexts,   \* what players say, and what of it is capitals and signs
    AccountVars, VarValues,
    ACCOUNT_REG_NUM,
    ChatSpamFlood, ChatLamePenalty, PacketSpamFlood     \* battle_config

ASSUME MessagesAssumption ==
    /\ GameMasters \subseteq Accounts
    /\ LameTexts \subseteq Texts
    /\ VarValues \subseteq Nat
    /\ ACCOUNT_REG_NUM \in Nat
    /\ ChatSpamFlood \in Nat /\ ChatLamePenalty \in Nat /\ PacketSpamFlood \in Nat

VARIABLES
    online_chars,   \* char server: the map server each character is on
    accreg_db,      \* char server: the variables of each account
    accreg_txt,     \* what it has written of them last
    talk,           \* map servers: what else the session of each account has
    whispers,       \* the whispers that were sent, and what became of them
    truth,          \* what scripts have set last
    raced           \* accounts with a variable set while 0x3804 was still to come

regVars == << accreg_db, accreg_txt >>
mailVars == << online_chars, regVars >>
ghostVars == << whispers, truth, raced >>
talkVars == << vars, mailVars, talk, ghostVars >>

Silence == "silence"    \* chat_lastmsg of a new session

\* shown is set by clif_parse_LoadEndAck, heard by the answer to 0x3005.
NoTalk == [shown |-> FALSE, heard |-> FALSE,
           chat_lines_in |-> 0, chat_total_repeats |-> 0, chat_lastmsg |-> Silence,
           in_progress |-> FALSE, packet_flood_in |-> 0]

TalkInit ==
    /\ Init
    /\ online_chars = [c \in Characters |-> Nowhere]
    /\ accreg_db = [a \in Accounts |-> NoVars]
    /\ accreg_txt = accreg_db
    /\ talk = [m \in MapServers |-> [a \in Accounts |-> NoTalk]]
    /\ whispers = << >>
    /\ truth = accreg_db
    /\ raced = {}

Talker(m, a, t) == talk' = [talk EXCEPT ![m][a] = t]

\* pc_setnewpc and map_quit: a session that begins or ends has said nothing.
TalkFollows ==
    talk' = [m \in MapServers |-> [a \in Accounts |->
                IF sess'[m][a].state = sess[m][a].state THEN talk[m][a] ELSE NoTalk]]

\* map_nick2sd
map_nick2sd(m, c) == {a \in Accounts : Playing(m, a) /\ sess[m][a].char_id = c}

SentTo(servers, msg) ==
    [m \in MapServers |-> IF m \in servers THEN Sent(toMap, m, msg) ELSE toMap[m]]

-----------------------------------------------------------------------------
(* The char server. *)

Told3802(n, from, flag) == [type |-> "3802", n |-> n, sender |-> from, flag |-> flag]

\* mapif_parse_WisRequest
WisRequest(m, msg) ==
    LET to == msg.to_char_name
        from == msg.from_char_name
    IN  IF to \notin Characters \/ from = to \/ online_chars[to] = Nowhere
        THEN SentTo({m}, Told3802(msg.n, from, 1))
        ELSE SentTo({online_chars[to]},
                    [type |-> "3801", n |-> msg.n, whisper_id |-> from, src |-> from, dst |-> to])

\* mapif_parse_WisReply
WisReply(m, msg) ==
    IF online_chars[msg.char_id] = Nowhere THEN toMap
    ELSE SentTo({online_chars[msg.char_id]}, Told3802(msg.n, msg.char_id, msg.flag))

AccountReg(a, reg) == [type |-> "3804", account_id |-> a, account_reg |-> reg]

\* parse_frommap 0x2b0e: an order about whoever has a name, which goes to the login
\* server if that is there (Accounts has what follows), and is answered if a player
\* has given it.
NameErrors(msg) ==
    IF msg.char_name \notin Characters THEN {1}
    ELSE IF /\ msg.account_id # NoAccount
            /\ (msg.account_id \notin GameMasters \/ Owner[msg.char_name] \in GameMasters)
         THEN {2}
         ELSE {0, 3}
NameAnswer(m, msg, error) ==
    IF msg.account_id = NoAccount THEN toMap
    ELSE SentTo({m}, [type |-> "2b0f", account_id |-> msg.account_id, error |-> error])

\* inter_parse_frommap, for packets that change nothing but what is sent
RelayMail(m) ==
    /\ server_session[m] /\ toChar[m] # << >>
    /\ LET msg == Head(toChar[m])
       IN  \/ msg.type = "3000" /\ SendToAllMaps([type |-> "3800"])
           \/ msg.type = "3001" /\ toMap' = WisRequest(m, msg)
           \/ msg.type = "3002" /\ toMap' = WisReply(m, msg)
           \/ msg.type = "3003" /\ SendToAllMaps([type |-> "3803"])
           \/ msg.type = "3005" /\ SendToMap(m, AccountReg(msg.account_id,
                                                           accreg_db[msg.account_id]))
           \/ msg.type = "2b0e" /\ \E error \in NameErrors(msg) : toMap' = NameAnswer(m, msg, error)
    /\ ReadFromMap(m)
    /\ UNCHANGED << server_session, char_session, offers, charVars, mapVars, count,
                    mailVars, talk, ghostVars >>

\* mapif_parse_AccReg
KeepAccountReg(m) ==
    LET msg == Head(toChar[m])
    IN  /\ FromMap(m, "3004")
        /\ accreg_db' = [accreg_db EXCEPT ![msg.account_id] = msg.account_reg]
        /\ toMap' = SentTo(MapServers \ {m}, AccountReg(msg.account_id, msg.account_reg))
        /\ ReadFromMap(m)
        /\ UNCHANGED << server_session, char_session, offers, charVars, mapVars, count,
                        online_chars, accreg_txt, talk, ghostVars >>

\* parse_frommap 0x2aff
ReceiveUsers(m) ==
    /\ FromMap(m, "2aff")
    /\ online_chars' = [c \in Characters |->
                           IF c \in Head(toChar[m]).users THEN m
                           ELSE IF online_chars[c] = m THEN Nowhere ELSE online_chars[c]]
    /\ ReadFromMap(m)
    /\ UNCHANGED << server_session, char_session, toMap, offers, charVars, mapVars, count,
                    regVars, talk, ghostVars >>

-----------------------------------------------------------------------------
(* Map servers: what the char server sends. *)

\* pc_authok: account_reg is what the record carries, until the answer to 0x3005.
TalkAuthOk(m) ==
    LET a == Head(toMap[m]).account_id
    IN  /\ AuthOkAsks(m, << [type |-> "3005", account_id |-> a] >>)
        /\ Talker(m, a, NoTalk)
        /\ UNCHANGED << mailVars, ghostVars >>

Replies(m, msg, flag) ==
    SendToChar(m, [type |-> "3002", n |-> msg.n, char_id |-> msg.whisper_id, flag |-> flag])

\* intif_parse_WisMessage
WisMessage(m, msg) ==
    IF map_nick2sd(m, msg.dst) = {}
    THEN /\ UNCHANGED whispers
         /\ Replies(m, msg, 1)
    ELSE /\ whispers' = [whispers EXCEPT ![msg.n].seen = @ + 1]
         /\ Replies(m, msg, 0)

\* intif_parse_WisEnd
WisEnd(m, msg) ==
    /\ whispers' = IF map_nick2sd(m, msg.sender) = {} THEN whispers
                   ELSE [whispers EXCEPT ![msg.n].told = Append(@, msg.flag)]
    /\ UNCHANGED toChar

\* chrif_char_ask_name_answer: whoever gave the order and is still here reads a line.
AskNameAnswer(m, msg) == UNCHANGED << whispers, toChar >>

\* intif_parse.  An announcement (0x3800, and 0x3803 for game masters) only goes on
\* to clients.
ReadMail(m) ==
    /\ char_session[m] /\ toMap[m] # << >>
    /\ LET msg == Head(toMap[m])
       IN  \/ msg.type \in {"3800", "3803"} /\ UNCHANGED << whispers, toChar >>
           \/ msg.type = "2b0f" /\ AskNameAnswer(m, msg)
           \/ msg.type = "3801" /\ WisMessage(m, msg)
           \/ msg.type = "3802" /\ WisEnd(m, msg)
    /\ ReadFromChar(m)
    /\ UNCHANGED << server_session, char_session, offers, charVars, mapVars, count,
                    mailVars, talk, truth, raced >>

\* intif_parse_AccountReg
ReadAccountReg(m) ==
    LET msg == Head(toMap[m])
        a == msg.account_id
    IN  /\ FromChar(m, "3804")
        /\ ReadFromChar(m)
        /\ IF Online(m, a)
           THEN /\ Session(m, a, [sess[m][a] EXCEPT !.account_reg = msg.account_reg])
                /\ Talker(m, a, [talk[m][a] EXCEPT !.heard = TRUE])
           ELSE UNCHANGED << sess, talk >>
        /\ UNCHANGED << server_session, char_session, toChar, offers, charVars, copies, count,
                        mailVars, ghostVars >>

\* send_users_tochar: the players who have come to a map
Report(m) ==
    /\ char_session[m]
    /\ Count("report")
    /\ SendToChar(m, [type |-> "2aff",
                      users |-> {sess[m][a].char_id : a \in {a \in Accounts : talk[m][a].shown}}])
    /\ UNCHANGED << server_session, char_session, toMap, offers, charVars, mapVars,
                    mailVars, talk, ghostVars >>

-----------------------------------------------------------------------------
(* Map servers: players. *)

\* clif_parse_LoadEndAck
Appear(m, a) ==
    /\ LoadEndAck(m, a)
    /\ Talker(m, a, [talk[m][a] EXCEPT !.shown = TRUE])
    /\ UNCHANGED << mailVars, ghostVars >>

\* clif_waitclose, after clif_setwaitclose
WaitClose(m, a) ==
    /\ Playing(m, a) /\ talk[m][a].in_progress
    /\ Leaves(m, a)
    /\ TalkFollows
    /\ UNCHANGED << server_session, char_session, toMap, offers, charVars, count,
                    mailVars, ghostVars >>

\* clif_check_packet_flood: a packet that comes too soon is skipped, and too many of
\* them in packet_spam_threshold end the session.
Flood(m, a) ==
    LET t == talk[m][a]
    IN  /\ Playing(m, a) /\ char_session[m]
        /\ a \notin GameMasters
        /\ Count("flood")
        /\ \E others \in {t.packet_flood_in, 0} :
              IF others + 1 >= PacketSpamFlood
              THEN Leaves(m, a) /\ TalkFollows
              ELSE /\ Talker(m, a, [t EXCEPT !.packet_flood_in = others + 1])
                   /\ UNCHANGED << mapVars, toChar >>
        /\ UNCHANGED << server_session, char_session, toMap, offers, charVars, mailVars,
                        ghostVars >>

\* tmw_CheckChatSpam: what becomes of a session that says something.  Any message
\* repeats the silence before the first one.  late says whether the time for
\* the lines has passed, long whether that for the repeats has.
CheckChatSpam(a, t, text, late, long) ==
    LET repeat == t.chat_lastmsg \in {text, Silence}
        lame == (IF repeat THEN ChatLamePenalty ELSE 0)
                + (IF text \in LameTexts THEN ChatLamePenalty ELSE 0)
        lines == (IF late THEN 0 ELSE t.chat_lines_in) + 1 + lame
        repeats == IF ~repeat THEN 0 ELSE (IF long THEN 0 ELSE t.chat_total_repeats) + 1
        spam == lines >= ChatSpamFlood \/ repeats >= ChatSpamFlood
    IN  IF a \in GameMasters THEN t
        ELSE [t EXCEPT !.chat_lastmsg = text,
                       !.chat_lines_in = IF spam THEN 0 ELSE lines,
                       !.chat_total_repeats = IF spam THEN 0 ELSE repeats,
                       !.in_progress = spam]

\* tmw_AutoBan
Ban(m, a) == << [type |-> "3003"],
                [type |-> "2b0e", account_id |-> NoAccount, char_name |-> sess[m][a].char_id] >>

\* A player whose client is served
Speaks(m, a) == Playing(m, a) /\ char_session[m] /\ ~talk[m][a].in_progress

\* What a player says, in whatever way, when clif_validate_chat lets it pass and it is
\* neither a spell nor a command, and the player is not muted.  It is told to the game
\* masters when it bans the player (tmw_AutoBan, with a chat_spam_ban that is not
\* zero), or else goes out.
Says(m, a, kind, Out) ==
    /\ Speaks(m, a)
    /\ Count(kind)
    /\ \E text \in Texts : \E late, long \in BOOLEAN :
          LET after == CheckChatSpam(a, talk[m][a], text, late, long)
          IN  /\ Talker(m, a, after)
              /\ IF after.in_progress THEN AskChar(m, Ban(m, a)) /\ UNCHANGED whispers ELSE Out
    /\ UNCHANGED << server_session, char_session, toMap, offers, charVars, mapVars, mailVars,
                    truth, raced >>

\* clif_parse_Wis, after all that: to a player on this server, or to the char server
WhisperedTo(m, a, to, asks) ==
    LET here == map_nick2sd(m, to)
        whisper == [from |-> << m, a >>, to |-> to, seen |-> IF here = {} THEN 0 ELSE 1,
                    told |-> IF here = {} THEN << >> ELSE << 0 >>]
    IN  IF a \in here
        THEN UNCHANGED << whispers, toChar >>
        ELSE /\ whispers' = Append(whispers, whisper)
             /\ IF asks
                THEN SendToChar(m, [type |-> "3001", n |-> Len(whispers) + 1,
                                    from_char_name |-> sess[m][a].char_id, to_char_name |-> to])
                ELSE UNCHANGED toChar

\* A mistake for Whispered: whoever is here is looked for elsewhere, too.
WhisperedTwice(m, a, to) == WhisperedTo(m, a, to, TRUE)
Whispered(m, a, to) == WhisperedTo(m, a, to, map_nick2sd(m, to) = {})

Whisper(m, a) == Says(m, a, "whisper", \E to \in Characters \cup {NoChar} : Whispered(m, a, to))

\* clif_parse_GlobalMessage
SayAloud(m, a) == Says(m, a, "say", UNCHANGED << whispers, toChar >>)

\* A packet of a player's that changes nothing here
Sends(m, a, kind, msg) ==
    /\ Playing(m, a) /\ char_session[m]
    /\ Count(kind)
    /\ SendToChar(m, msg)
    /\ UNCHANGED << server_session, char_session, toMap, offers, charVars, mapVars, mailVars,
                    talk, ghostVars >>

\* atcommand_kami and atcommand_broadcast
Kami(m, a) == a \in GameMasters /\ Sends(m, a, "kami", [type |-> "3000"])

\* atcommand_char_block, atcommand_char_ban, and what undoes them
AskName(m, a) ==
    /\ a \in GameMasters
    /\ \E name \in Characters \cup {NoChar} :
          Sends(m, a, "ask", [type |-> "2b0e", account_id |-> a, char_name |-> name])

WithVar(reg, x, v) == [y \in DOMAIN reg \cup {x} |-> IF y = x THEN v ELSE reg[y]]
WithoutVar(reg, x) == [y \in DOMAIN reg \ {x} |-> reg[y]]
Assigned(reg, x, v) == IF v = 0 THEN WithoutVar(reg, x) ELSE WithVar(reg, x, v)

Saving(a, reg) == << [type |-> "3004", account_id |-> a, account_reg |-> reg] >>

\* What is still to come will undo what is set now.
Awaits(m, a) ==
    \/ ~talk[m][a].heard
    \/ \E msg \in Range(toChar[m]) : msg.type = "3005" /\ msg.account_id = a
    \/ \E msg \in Range(toMap[m]) : msg.type = "3804" /\ msg.account_id = a

\* pc_setaccountreg, which saves the variables after setting one to a value of telling
SetAndSent(m, a, telling) ==
    /\ talk[m][a].shown
    /\ Count("set")
    /\ \E x \in AccountVars : \E v \in VarValues :
          LET reg == sess[m][a].account_reg
              new == Assigned(reg, x, v)
          IN  IF v # 0 /\ x \notin DOMAIN reg /\ Cardinality(DOMAIN reg) >= ACCOUNT_REG_NUM
              THEN UNCHANGED << sess, toChar, truth, raced >>
              ELSE /\ Session(m, a, [sess[m][a] EXCEPT !.account_reg = new])
                   /\ AskChar(m, IF v \in telling THEN Saving(a, new) ELSE << >>)
                   /\ truth' = [truth EXCEPT ![a] = Assigned(@, x, v)]
                   /\ raced' = IF Awaits(m, a) THEN raced \cup {a} ELSE raced
    /\ UNCHANGED << server_session, char_session, toMap, offers, charVars, copies,
                    mailVars, talk, whispers >>

\* A mistake for SetAccountReg: a variable that is cleared is not saved.
SetAccountRegOnly(m, a) == SetAndSent(m, a, VarValues \ {0})
\* pc_setaccountreg, by a script of the player's: nothing is set when all are in use.
SetAccountReg(m, a) == SetAndSent(m, a, VarValues)

-----------------------------------------------------------------------------
(* The char server's disk. *)

\* inter_accreg_save, with the rest of a save
SaveAccountRegs ==
    /\ Unsaved \/ accreg_txt # accreg_db
    /\ Saved
    /\ accreg_txt' = accreg_db
    /\ UNCHANGED << online_chars, accreg_db, talk, ghostVars >>

\* The char server is killed and started again (inter_accreg_init).
KillCharServer ==
    /\ CrashAndRestart
    /\ online_chars' = [c \in Characters |-> Nowhere]
    /\ accreg_db' = accreg_txt
    /\ UNCHANGED << accreg_txt, talk, ghostVars >>

-----------------------------------------------------------------------------
(* All steps.  What Party does besides the ones above changes nothing here. *)

PartyAlone ==
    /\ \/ \E m \in MapServers :
             \/ CharReads(m) \/ IntifParse(m) \/ ParseMemberAdded(m) \/ Exit(m)
             \/ \E a \in Accounts : Quit(m, a) \/ PartyPlay(m, a)
             \/ Disconnect(m) \/ Reconnect(m)
       \/ \E c \in Characters : DeleteCharacter(c)
    /\ TalkFollows
    /\ UNCHANGED << mailVars, ghostVars >>

TalkReads(m) ==
    \/ RelayMail(m) \/ KeepAccountReg(m) \/ ReceiveUsers(m)
    \/ TalkAuthOk(m) \/ ReadMail(m) \/ ReadAccountReg(m)

Talks(m, a) ==
    \/ Appear(m, a) \/ WaitClose(m, a) \/ Flood(m, a)
    \/ SayAloud(m, a) \/ Whisper(m, a) \/ Kami(m, a) \/ AskName(m, a)
    \/ SetAccountReg(m, a)

TalkNext ==
    \/ PartyAlone
    \/ \E m \in MapServers :
          \/ TalkReads(m) \/ Report(m)
          \/ \E a \in Accounts : Talks(m, a)
    \/ SaveAccountRegs \/ KillCharServer

TalkSpec == TalkInit /\ [][TalkNext]_talkVars

-----------------------------------------------------------------------------
(* Properties. *)

\* A player hears of a whisper at most once, and what is true: that it was sent if the
\* addressee has seen it, and that it was not otherwise, though both may move between
\* servers and the answer is looked up by names and ids.
AnswersAreTrue ==
    \A n \in DOMAIN whispers :
        LET w == whispers[n]
        IN  /\ w.seen <= 1
            /\ Len(w.told) <= 1
            /\ w.told = << 0 >> => w.seen = 1
            /\ w.told = << 1 >> => w.seen = 0

Pending(a) ==
    \E m \in MapServers :
        \E msg \in Range(toMap[m]) \cup Range(toChar[m]) :
            msg.type \in {"3004", "3804"} /\ msg.account_id = a

\* A variable of an account has the value that a script gave it last, in the char
\* server's table and in the session that has been told, unless a script was quicker
\* than an answer to the session's request for them.
AccountVariablesAgree ==
    Unbroken =>
        \A a \in Accounts : a \notin raced /\ ~Pending(a) =>
            /\ accreg_db[a] = truth[a]
            /\ \A m \in MapServers : talk[m][a].heard => sess[m][a].account_reg = truth[a]
=============================================================================
