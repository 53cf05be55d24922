---------------------------- MODULE GameSession ----------------------------
(***************************************************************************)
(* A char server, its map servers and their clients together: how a client *)
(* that the login server has announced picks a character, is admitted to a *)
(* map server, plays, is saved and leaves.  The login server and the       *)
(* clients are the environment; Limits bounds what they do.                *)
(***************************************************************************)
EXTENDS CharServer, MapServer

CONSTANTS
    Limits,     \* how often the environment does each of Kinds: some budgets
    Orderly,    \* clients do one thing at a time and wait for its outcome
    Booted      \* the servers have found each other before the clients come

Kinds == {"login", "select", "delete", "create", "play", "save", "return", "walk",
          "ban", "connect", "break"}

ASSUME GameAssumption ==
    /\ Limits \subseteq [Kinds -> Nat]
    /\ Orderly \in BOOLEAN
    /\ Booted \in BOOLEAN

VARIABLES
    issued,    \* << account, n >>: the logins the login server has made
    spent      \* how often each of Kinds has happened

vars == << charVars, mapVars, linkVars, issued, spent >>

Spend(kind) ==
    /\ spent' = [spent EXCEPT ![kind] = @ + 1]
    /\ \E limit \in Limits : \A k \in Kinds : spent'[k] <= limit[k]

Init ==
    /\ server_session = [m \in MapServers |-> Booted]
    /\ char_session = [m \in MapServers |-> Booted]
    /\ maps = [m \in MapServers |-> Booted]
    /\ chrif_state = [m \in MapServers |-> IF Booted THEN 2 ELSE 0]
    /\ heard = [m \in MapServers |-> IF Booted THEN MapServers \ {m} ELSE {}]
    /\ LinksInit
    /\ CharInit
    /\ MapInit
    /\ issued = {}
    /\ spent = [kind \in Kinds |-> 0]

-----------------------------------------------------------------------------
(* What an orderly client waits for. *)

Pending(queue, a, types) ==
    \E i \in DOMAIN queue : /\ queue[i].type \in types
                            /\ queue[i].account_id = a

InFlight(a, types) ==
    \E m \in MapServers : Pending(toMap[m], a, types)
                          \/ Pending(toChar[m], a, types)

\* Account a has nothing under way between the char server and the game.
Idle(a) ==
    /\ \A o \in offers : o.account_id # a
    /\ \A m \in MapServers : ~Online(m, a)
    /\ ~InFlight(a, {"3829", "3830", "2b02", "2b03"})

\* Map server m waits for the answer to its 0x2afc.
Unanswered(m, a) ==
    Pending(toChar[m], a, {"2afc"}) \/ Pending(toMap[m], a, {"2afd", "2afe"})

-----------------------------------------------------------------------------
(* The login server. *)

Login(a) ==
    LET n == spent["login"] + 1
    IN  /\ Spend("login")
        /\ Orderly => Idle(a) /\ \A k \in Conns : conns[k].account_id # a
        /\ PreauthFromLogin(a, << n, 0 >>)
        /\ issued' = issued \cup {<< a, n >>}
        /\ UNCHANGED mapVars

Ban(a) ==
    /\ Spend("ban")
    /\ BanFromLogin(a)
    /\ UNCHANGED << mapVars, issued >>

(* The clients of the char server. *)

Connect(k) ==
    /\ Spend("connect")
    /\ \E pair \in issued, a \in Accounts, busy \in BOOLEAN :
          /\ Orderly => /\ a = pair[1]
                        /\ Idle(a)
                        /\ \A j \in Conns : conns[j].account_id # a
          /\ ConnectChar(k, a, << pair[2], 0 >>, busy)
    /\ UNCHANGED << mapVars, issued >>

Select(k) ==
    /\ Spend("select")
    /\ Orderly => conns[k].auth /\ Idle(conns[k].account_id)
    /\ \E c \in Characters : SelectChar(k, c)
    /\ UNCHANGED << mapVars, issued >>

Delete(k) ==
    /\ Spend("delete")
    /\ Orderly => conns[k].auth /\ Idle(conns[k].account_id)
    /\ \E c \in Characters : DeleteChar(k, c)
    /\ UNCHANGED << mapVars, issued >>

Create(k) ==
    /\ Spend("create")
    /\ Orderly => conns[k].auth /\ Idle(conns[k].account_id)
    /\ \E c \in Characters : CreateChar(k, c)
    /\ UNCHANGED << mapVars, issued >>

Leave(k) ==
    /\ LeaveChar(k)
    /\ UNCHANGED << mapVars, issued, spent >>

(* The clients of the map servers. *)

EnterMap ==
    /\ \E o \in offers :
          /\ Orderly => \A m \in MapServers : ~Online(m, o.account_id)
          /\ ConnectMap(o)
    /\ UNCHANGED << charVars, issued, spent >>

PlayOn(m, a) ==
    /\ Spend("play")
    /\ Play(m, a)
    /\ UNCHANGED << charVars, issued >>

SaveNow(m, a) ==
    /\ Spend("save")
    /\ Save(m, a)
    /\ UNCHANGED << charVars, issued >>

Close(m, a) ==
    /\ Orderly => ~Unanswered(m, a)
    /\ CloseSession(m, a)
    /\ UNCHANGED << charVars, issued, spent >>

Return(m, a) ==
    /\ Spend("return")
    /\ RequestCharSelect(m, a)
    /\ UNCHANGED << charVars, issued >>

Walk(m, a) ==
    /\ Spend("walk")
    /\ \E to \in MapServers : WalkToServer(m, a, to)
    /\ UNCHANGED << charVars, issued >>

(* The servers. *)

CharReads(m) ==
    /\ HandleMapPacket(m)
    /\ UNCHANGED << mapVars, issued, spent >>

MapReads(m) ==
    /\ HandleCharPacket(m)
    /\ UNCHANGED << charVars, issued, spent >>

MapConnects(m) ==
    /\ ConnectToChar(m)
    /\ UNCHANGED << charVars, issued, spent >>

\* The end that is still open finds that the other has gone.
NoticeLoss(m) ==
    /\ ~Open(m)
    /\ \/ DeleteFromMap(m) /\ UNCHANGED mapVars
       \/ /\ toChar[m] = << >>      \* not a connection about to be accepted
          /\ LoseChar(m) /\ UNCHANGED charVars
    /\ UNCHANGED << issued, spent >>

\* A connection breaks at one of its ends, or a map server dies.
Break(m) ==
    /\ Spend("break")
    /\ \/ Open(m) /\ DeleteFromMap(m) /\ UNCHANGED mapVars
       \/ Open(m) /\ LoseChar(m) /\ UNCHANGED charVars
       \/ Crash(m) /\ UNCHANGED charVars
    /\ UNCHANGED issued

Servers(m) == CharReads(m) \/ MapReads(m) \/ MapConnects(m) \/ NoticeLoss(m)

Next ==
    \/ \E a \in Accounts : Login(a) \/ Ban(a)
    \/ \E k \in Conns : Connect(k) \/ Select(k) \/ Delete(k) \/ Create(k)
                        \/ Leave(k)
    \/ EnterMap
    \/ \E m \in MapServers, a \in Accounts :
          \/ PlayOn(m, a) \/ SaveNow(m, a) \/ Close(m, a)
          \/ Return(m, a) \/ Walk(m, a)
    \/ \E m \in MapServers : Servers(m) \/ Break(m)

Spec == Init /\ [][Next]_vars

\* The main loop of each server polls every socket and parses what it has read
\* before it sleeps again (do_sendrecv, do_parsepacket), so a packet that has
\* arrived is handled.  Clients owe nothing.
Fairness == \A m \in MapServers : WF_vars(CharReads(m)) /\ WF_vars(MapReads(m))

FairSpec == Spec /\ Fairness

\* check_connect_char_server runs every ten seconds, and a closed socket reads
\* as an end of file (or falls silent until the anti-freeze timer).
ReconnectSpec ==
    FairSpec /\ \A m \in MapServers : /\ WF_vars(MapConnects(m))
                                     /\ WF_vars(NoticeLoss(m))

-----------------------------------------------------------------------------
(* Types. *)

Logins == Nat \X Nat
AnyChar == Characters \cup {NoChar}

Entries == [account_id : Accounts \cup {NoAccount}, char_id : AnyChar,
            login : Logins, delflag : 0 .. 3]

Records == [account_id : Accounts, char_id : Characters,
            rev : Nat, at : MapServers]

ConnRecords == [account_id : Accounts \cup {NoAccount}, login : Logins,
                auth : BOOLEAN, consumed_by : Nat]

Sessions == [char_id : AnyChar, login : Logins, auth : BOOLEAN,
             key : AnyChar, rev : Nat, at : MapServers \cup {Nowhere},
             closing : BOOLEAN, waitingdisconnect : BOOLEAN]

Offers == [via : {"0071", "0092"}, account_id : Accounts,
           char_id : Characters, login : Logins,
           srv : MapServers \cup {Nowhere}]

CharPackets ==      \* what a char server sends to a map server
    [type : {"2af9", "2afb"}]
    \cup [type : {"2b04"}, of : SUBSET MapServers]
    \cup [type : {"2afe", "2b14", "2b03"}, account_id : Accounts]
    \cup [type : {"3829"}, account_id : Accounts, char_id : Characters,
          login : Logins]
    \cup [type : {"2afd"}, account_id : Accounts, char_id : Characters,
          rev : Nat, at : MapServers]
    \cup [type : {"2b06"}, account_id : Accounts, char_id : Characters,
          to : MapServers, error : BOOLEAN]

MapPackets ==       \* what a map server sends to the char server
    [type : {"2af8", "2afa"}]
    \cup [type : {"3830", "2afc"}, account_id : Accounts,
          char_id : Characters, login : Logins]
    \cup [type : {"2b01"}, account_id : Accounts, char_id : Characters,
          key_account : Accounts, key_char : Characters,
          rev : Nat, at : MapServers]
    \cup [type : {"2b02"}, account_id : Accounts, login : Logins]
    \cup [type : {"2b05"}, account_id : Accounts, char_id : Characters,
          login : Logins, to : MapServers]

\* The type invariant of the servers' variables, of the packets under way
\* (only those the receiver's switch knows) and of the environment.
TypeOK ==
    /\ char_keys \in Seq(Records)
    /\ used_ids \in SUBSET Characters
    /\ auth_fifo \in [Ring -> Entries]
    /\ auth_fifo_iter \in 1 .. CharFifo + 1
    /\ conns \in [Conns -> ConnRecords]
    /\ maps \in [MapServers -> BOOLEAN]
    /\ aborted \in BOOLEAN
    /\ chrif_state \in [MapServers -> 0 .. 2]
    /\ map_fifo \in [MapServers -> [MapRing -> Entries]]
    /\ map_fifo_iter \in [MapServers -> 1 .. MapFifo + 1]
    /\ heard \in [MapServers -> SUBSET MapServers]
    /\ sess \in [MapServers -> [Accounts -> Sessions]]
    /\ server_session \in [MapServers -> BOOLEAN]
    /\ char_session \in [MapServers -> BOOLEAN]
    /\ toMap \in [MapServers -> Seq(CharPackets)]
    /\ toChar \in [MapServers -> Seq(MapPackets)]
    /\ offers \in SUBSET Offers
    /\ issued \in SUBSET (Accounts \X Nat)
    /\ spent \in [Kinds -> Nat]

-----------------------------------------------------------------------------
(* Safety, whatever clients and connections do. *)

\* Whatever packets cross on the way, a player in the game plays a character
\* of the player's own account, and the table never gives a character to
\* another account (pc_authok looks a session up by its account alone, and
\* 0x2b01 replaces the key of a record by the one in the packet).
OnlyOwnCharacters ==
    /\ \A m \in MapServers, a \in Accounts :
          InGame(m, a) => sess[m][a].key \in Owned(a)
    /\ \A i \in DOMAIN char_keys :
          char_keys[i].char_id \in Owned(char_keys[i].account_id)

\* Nobody is let to the characters of an account, or into the game, who does
\* not hold a login that the login server made for that account: the entries
\* of both queues descend from its 0x2715.
AdmittedByLogin ==
    /\ \A m \in MapServers, a \in Accounts :
          InGame(m, a) => << a, sess[m][a].login[1] >> \in issued
    /\ \A k \in Conns : conns[k].auth =>
          << conns[k].account_id, conns[k].login[1] >> \in issued

Known(a, login) == << a, login[1] >> \in issued

OwnRecords == {r \in Records : r.char_id \in Owned(r.account_id)}

KnownEntries ==
    {e \in Entries : e.account_id # NoAccount => Known(e.account_id, e.login)}

KnownConns ==
    {c \in ConnRecords :
        c.auth => c.account_id \in Accounts /\ Known(c.account_id, c.login)}

SessionsOf(a) ==
    {s \in Sessions :
        /\ s # NoSession => s.char_id \in Owned(a) /\ Known(a, s.login)
        /\ s.auth => s.key \in Owned(a) /\ s.at \in MapServers}

KnownOffers ==
    {o \in Offers : o.char_id \in Owned(o.account_id)
                    /\ Known(o.account_id, o.login)}

SoundCharPackets ==
    {p \in CharPackets :
        /\ p.type \in {"3829", "2afd", "2b06"} => p.char_id \in Owned(p.account_id)
        /\ p.type = "3829" => Known(p.account_id, p.login)}

SoundMapPackets ==
    {p \in MapPackets :
        /\ p.type \in {"3830", "2afc", "2b01", "2b05"}
           => p.char_id \in Owned(p.account_id)
        /\ p.type = "2b01" => p.key_char \in Owned(p.key_account)
        /\ p.type \in {"3830", "2afc", "2b02", "2b05"}
           => Known(p.account_id, p.login)}

\* What the three servers pass on about a player belongs together at every
\* hop, in every queue and table: the character is one of the account, and the
\* ids are those of a login of that account.  No handler compares all of it
\* (0x2b01 trusts the key it is sent, 0x2afd the account alone), so this rests
\* on what each sender can have put into its packet.
BelongsTogether ==
    /\ char_keys \in Seq(OwnRecords)
    /\ auth_fifo \in [Ring -> KnownEntries]
    /\ conns \in [Conns -> KnownConns]
    /\ \A m \in MapServers, a \in Accounts : sess[m][a] \in SessionsOf(a)
    /\ offers \in SUBSET KnownOffers
    /\ toMap \in [MapServers -> Seq(SoundCharPackets)]
    /\ toChar \in [MapServers -> Seq(SoundMapPackets)]

\* The ids of one login open one session on the char server (0x65 uses its
\* entry up); a second one needs a return from the game (0x2b02).
LoginOpensOneSession ==
    \A j, k \in Conns :
        /\ j # k
        /\ conns[j].auth /\ conns[k].auth
        /\ conns[j].login = conns[k].login
        => spent["return"] > 0

-----------------------------------------------------------------------------
(* Safety with clients that do one thing at a time. *)

\* A client that has been sent to a map server (0x0071, "All map servers
\* accepted pre-auth details") is expected there, and its entry on the char
\* server is still there to let it in.
OfferIsBacked ==
    \A o \in offers : o.via = "0071" =>
        /\ o.srv # Nowhere
        /\ \E i \in MapRing : map_fifo[o.srv][i] =
              [account_id |-> o.account_id, char_id |-> o.char_id,
               login |-> o.login, delflag |-> 0]
        /\ \E i \in Ring : auth_fifo[i] =
              [account_id |-> o.account_id, char_id |-> o.char_id,
               login |-> o.login, delflag |-> 3]

\* The character in the game is the one that the client asked for: the save
\* packet names by char_id_ the record that it overwrites by status_key.
KeyMatchesSession ==
    \A m \in MapServers, a \in Accounts :
        InGame(m, a) => sess[m][a].key = sess[m][a].char_id

\* No save undoes a later one: what the char server knows of a character
\* never becomes older.
SavesNeverGoBack ==
    [][\A i \in DOMAIN char_keys, j \in DOMAIN char_keys' :
          char_keys[i].char_id = char_keys'[j].char_id
          => char_keys[i].rev <= char_keys'[j].rev]_vars

-----------------------------------------------------------------------------
(* Liveness while no connection breaks. *)

\* A selection is not forgotten: the count of the map servers' answers
\* (consumed_by) comes out right, and the client gets its 0x0071 unless it
\* leaves first.
SelectionIsAnswered ==
    \A a \in Accounts :
        InFlight(a, {"3829"})
        ~> \/ \E o \in offers : o.account_id = a
           \/ \A k \in Conns : conns[k].account_id # a

-----------------------------------------------------------------------------
(* Connections that break and come back. *)

\* Once nothing breaks any more, every map server gets back to the char server
\* and players can be sent to it from every other.
ServersFindEachOther ==
    <>[](\A m \in MapServers : /\ Open(m)
                               /\ maps[m]
                               /\ chrif_state[m] = 2
                               /\ heard[m] = MapServers \ {m})

=============================================================================
