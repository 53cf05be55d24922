------------------------- MODULE GameSession_proofs -------------------------
(***************************************************************************)
(* Proofs about GameSession for any servers, accounts, characters and      *)
(* limits: its types, that what the servers hold about a player belongs    *)
(* together (which is inductive along with the types), and what follows.   *)
(***************************************************************************)
EXTENDS GameSession, SequenceTheorems, WellFoundedInduction, TLAPS

(* The queues of packets keep their types, whatever is sent, read and lost. *)

\* A packet that is sent keeps the queue one of packets of the same kind.
LEMMA SentType ==
    ASSUME NEW P, NEW queue \in [MapServers -> Seq(P)], NEW m \in MapServers,
           NEW msg \in P
    PROVE  Sent(queue, m, msg) \in Seq(P)
BY AppendProperties DEF Sent

LEMMA SendType ==
    ASSUME NEW P, NEW queue \in [MapServers -> Seq(P)], NEW m \in MapServers,
           NEW msg \in P
    PROVE  [queue EXCEPT ![m] = Sent(queue, m, msg)] \in [MapServers -> Seq(P)]
BY SentType

LEMMA SendAllType ==
    ASSUME NEW P, NEW queue \in [MapServers -> Seq(P)], NEW msg \in P
    PROVE  [m \in MapServers |-> Sent(queue, m, msg)] \in [MapServers -> Seq(P)]
BY SentType

LEMMA ReadType ==
    ASSUME NEW P, NEW queue \in [MapServers -> Seq(P)], NEW m \in MapServers,
           queue[m] # << >>
    PROVE  /\ [queue EXCEPT ![m] = Tail(@)] \in [MapServers -> Seq(P)]
           /\ Head(queue[m]) \in P
<1>1. queue[m] \in Seq(P)
    OBVIOUS
<1>2. Tail(queue[m]) \in Seq(P) /\ Head(queue[m]) \in P
    BY <1>1, HeadTailProperties
<1> QED
    BY <1>2

LEMMA StillDeliveredType ==
    ASSUME NEW P, NEW queue \in [MapServers -> Seq(P)], NEW m \in MapServers,
           NEW stays \in BOOLEAN
    PROVE  StillDelivered(queue, m, stays) \subseteq Seq(P)
<1>1. queue[m] \in Seq(P)
    OBVIOUS
<1>2. ASSUME NEW k \in 0 .. Len(queue[m])
      PROVE  SubSeq(queue[m], 1, k) \in Seq(P)
    <2>1. \A i \in 1 .. k : queue[m][i] \in P
        BY <1>1, LenProperties, ElementOfSeq
    <2> QED
        BY <1>1, <2>1, LenProperties, SubSeqProperties
<1>3. << >> \in Seq(P)
    BY EmptySeq
<1> QED
    BY <1>2, <1>3 DEF StillDelivered

LEMMA CharEndType ==
    ASSUME NEW P, NEW Q, toMap \in [MapServers -> Seq(P)],
           toChar \in [MapServers -> Seq(Q)],
           server_session \in [MapServers -> BOOLEAN],
           char_session \in [MapServers -> BOOLEAN],
           NEW m \in MapServers, CharEndCloses(m)
    PROVE  /\ toMap' \in [MapServers -> Seq(P)]
           /\ toChar' \in [MapServers -> Seq(Q)]
           /\ server_session' \in [MapServers -> BOOLEAN]
           /\ char_session' \in [MapServers -> BOOLEAN]
<1>1. char_session[m] \in BOOLEAN
    OBVIOUS
<1>2. PICK rest \in Seq(P) : toMap' = [toMap EXCEPT ![m] = rest]
    BY <1>1, StillDeliveredType DEF CharEndCloses
<1>3. << >> \in Seq(Q)
    BY EmptySeq
<1> QED
    BY <1>2, <1>3 DEF CharEndCloses

LEMMA MapEndCloseType ==
    ASSUME NEW P, NEW Q, toMap \in [MapServers -> Seq(P)],
           toChar \in [MapServers -> Seq(Q)],
           server_session \in [MapServers -> BOOLEAN],
           char_session \in [MapServers -> BOOLEAN],
           NEW m \in MapServers, MapEndCloses(m)
    PROVE  /\ toMap' \in [MapServers -> Seq(P)]
           /\ toChar' \in [MapServers -> Seq(Q)]
           /\ server_session' \in [MapServers -> BOOLEAN]
           /\ char_session' \in [MapServers -> BOOLEAN]
<1>1. server_session[m] \in BOOLEAN
    OBVIOUS
<1>2. PICK rest \in Seq(Q) : toChar' = [toChar EXCEPT ![m] = rest]
    BY <1>1, StillDeliveredType DEF MapEndCloses
<1>3. << >> \in Seq(P)
    BY EmptySeq
<1> QED
    BY <1>2, <1>3 DEF MapEndCloses
-----------------------------------------------------------------------------

(***************************************************************************)
(* The inductive invariant: TypeOK and BelongsTogether, server by server.  *)
(***************************************************************************)
CharInv ==
    /\ char_keys \in Seq(OwnRecords)
    /\ used_ids \in SUBSET Characters
    /\ auth_fifo \in [Ring -> KnownEntries]
    /\ auth_fifo_iter \in 1 .. CharFifo + 1
    /\ conns \in [Conns -> KnownConns]
    /\ maps \in [MapServers -> BOOLEAN]
    /\ aborted \in BOOLEAN

MapInv ==
    /\ chrif_state \in [MapServers -> 0 .. 2]
    /\ map_fifo \in [MapServers -> [MapRing -> Entries]]
    /\ map_fifo_iter \in [MapServers -> 1 .. MapFifo + 1]
    /\ heard \in [MapServers -> SUBSET MapServers]
    /\ sess \in [MapServers -> [Accounts -> Sessions]]
    /\ \A m \in MapServers, a \in Accounts : sess[m][a] \in SessionsOf(a)

LinkInv ==
    /\ server_session \in [MapServers -> BOOLEAN]
    /\ char_session \in [MapServers -> BOOLEAN]
    /\ toMap \in [MapServers -> Seq(SoundCharPackets)]
    /\ toChar \in [MapServers -> Seq(SoundMapPackets)]
    /\ offers \in SUBSET KnownOffers

EnvInv ==
    /\ issued \in SUBSET (Accounts \X Nat)
    /\ spent \in [Kinds -> Nat]

IInv == CharInv /\ MapInv /\ LinkInv /\ EnvInv

-----------------------------------------------------------------------------
(* Lemmas on what the model is built from. *)

\* A loop over a table finds the first entry there is.
LEMMA FirstIsFound ==
    ASSUME NEW S, S \subseteq Nat, S # {}
    PROVE  /\ First(S) \in S
           /\ \A j \in S : First(S) <= j
<1> DEFINE R == {ss \in Nat \X Nat : ss[1] < ss[2]}
<1>1. OpToRel(<, Nat) = R
    BY DEF OpToRel
<1>2. IsWellFoundedOn(R, Nat)
    BY <1>1, NatLessThanWellFounded
<1>3. \A i, j \in Nat : i < j => << i, j >> \in R
    OBVIOUS
<1> HIDE DEF R
<1>4. PICK i \in S : \A j \in S : ~(<< j, i >> \in R)
    BY <1>2, WFMin
<1>5. ASSUME NEW j \in S
      PROVE  i <= j
    <2>1. i \in Nat /\ j \in Nat
        OBVIOUS
    <2>2. ~(j < i)
        BY <1>3, <1>4, <2>1
    <2> QED
        BY <2>1, <2>2
<1> QED
    BY <1>5 DEF First

\* What is known of logins stays known while no login is made.
LEMMA SameLogins ==
    ASSUME issued' = issued
    PROVE  /\ KnownEntries' = KnownEntries
           /\ KnownConns' = KnownConns
           /\ KnownOffers' = KnownOffers
           /\ SoundCharPackets' = SoundCharPackets
           /\ SoundMapPackets' = SoundMapPackets
           /\ \A a : SessionsOf(a)' = SessionsOf(a)
BY DEF KnownEntries, KnownConns, KnownOffers, SoundCharPackets, SoundMapPackets,
       SessionsOf, Known

\* One more login takes nothing away.
LEMMA MoreLogins ==
    ASSUME issued \subseteq issued'
    PROVE  /\ KnownEntries \subseteq KnownEntries'
           /\ KnownConns \subseteq KnownConns'
           /\ KnownOffers \subseteq KnownOffers'
           /\ SoundCharPackets \subseteq SoundCharPackets'
           /\ SoundMapPackets \subseteq SoundMapPackets'
           /\ \A a : SessionsOf(a) \subseteq SessionsOf(a)'
BY DEF KnownEntries, KnownConns, KnownOffers, SoundCharPackets, SoundMapPackets,
       SessionsOf, Known

\* Writing an entry keeps the ring one of entries of the same kind.
LEMMA EnqueueType ==
    ASSUME NEW E, auth_fifo \in [Ring -> E], auth_fifo_iter \in 1 .. CharFifo + 1,
           NEW entry \in E, Enqueue(entry)
    PROVE  /\ auth_fifo' \in [Ring -> E]
           /\ auth_fifo_iter' \in 1 .. CharFifo + 1
<1>1. CharFifo \in Nat \ {0}
    BY CharServerAssumption
<1>2. Slot \in Ring
    BY <1>1 DEF Slot, Ring
<1> QED
    BY <1>1, <1>2 DEF Enqueue, Ring

\* An entry that is used up still is of whom it was.
LEMMA UseUpType ==
    ASSUME CharInv, NEW i
    PROVE  UseUp(i) \in [Ring -> KnownEntries]
<1>1. auth_fifo \in [Ring -> KnownEntries]
    BY DEF CharInv
<1>2. CASE i \in Ring
    <2> DEFINE e == auth_fifo[i]
               new == [e EXCEPT !.delflag = 1]
    <2>1. e \in Entries /\ (e.account_id # NoAccount
                               => Known(e.account_id, e.login))
        BY <1>1, <1>2 DEF KnownEntries
    <2>2. /\ new \in Entries
          /\ new.account_id = e.account_id
          /\ new.login = e.login
        BY <2>1 DEF Entries
    <2>3. new \in KnownEntries
        BY <2>1, <2>2 DEF KnownEntries
    <2>4. UseUp(i) = [auth_fifo EXCEPT ![i] = new]
        BY DEF UseUp
    <2> QED
        BY <1>1, <1>2, <2>3, <2>4
<1>3. CASE i \notin Ring
    BY <1>1, <1>3 DEF UseUp
<1> QED
    BY <1>2, <1>3

\* A session that is written is the only one that changes.
LEMMA UpdateType ==
    ASSUME MapInv, issued' = issued, NEW m \in MapServers, NEW a \in Accounts,
           NEW s \in SessionsOf(a), Update(m, a, s)
    PROVE  /\ sess' \in [MapServers -> [Accounts -> Sessions]]
           /\ \A n \in MapServers, b \in Accounts : sess'[n][b] \in SessionsOf(b)'
<1>1. s \in Sessions
    BY DEF SessionsOf
<1>2. sess' \in [MapServers -> [Accounts -> Sessions]]
    BY <1>1 DEF MapInv, Update
<1>3. ASSUME NEW n \in MapServers, NEW b \in Accounts
      PROVE  sess'[n][b] = IF n = m /\ b = a THEN s ELSE sess[n][b]
    BY DEF MapInv, Update
<1>4. ASSUME NEW n \in MapServers, NEW b \in Accounts
      PROVE  sess'[n][b] \in SessionsOf(b)'
    BY <1>3, SameLogins DEF MapInv
<1> QED
    BY <1>2, <1>4

-----------------------------------------------------------------------------
(* What the receiver of a packet may rely on. *)

LEMMA FieldsToChar ==
    ASSUME NEW p \in SoundMapPackets
    PROVE  /\ p.type \in {"3830", "2afc", "2b05"}
              => /\ p.account_id \in Accounts
                 /\ p.char_id \in Characters
                 /\ p.char_id \in Owned(p.account_id)
                 /\ p.login \in Logins
                 /\ Known(p.account_id, p.login)
           /\ p.type = "2b01"
              => /\ p.account_id \in Accounts
                 /\ p.key_account \in Accounts
                 /\ p.key_char \in Characters
                 /\ p.key_char \in Owned(p.key_account)
                 /\ p.rev \in Nat
                 /\ p.at \in MapServers
           /\ p.type = "2b02"
              => /\ p.account_id \in Accounts
                 /\ p.login \in Logins
                 /\ Known(p.account_id, p.login)
           /\ p.type = "2b05" => p.to \in MapServers
BY DEF SoundMapPackets, MapPackets

LEMMA FieldsToMap ==
    ASSUME NEW p \in SoundCharPackets
    PROVE  /\ p.type = "3829"
              => /\ p.account_id \in Accounts
                 /\ p.char_id \in Characters
                 /\ p.char_id \in Owned(p.account_id)
                 /\ p.login \in Logins
                 /\ Known(p.account_id, p.login)
                 /\ p = [type |-> "3829", account_id |-> p.account_id,
                         char_id |-> p.char_id, login |-> p.login]
           /\ p.type = "2afd"
              => /\ p.account_id \in Accounts
                 /\ p.char_id \in Characters
                 /\ p.char_id \in Owned(p.account_id)
                 /\ p.rev \in Nat
                 /\ p.at \in MapServers
           /\ p.type \in {"2afe", "2b14", "2b03"} => p.account_id \in Accounts
           /\ p.type = "2b06"
              => /\ p.account_id \in Accounts
                 /\ p.char_id \in Characters
                 /\ p.char_id \in Owned(p.account_id)
                 /\ p.to \in MapServers
                 /\ p.error \in BOOLEAN
           /\ p.type = "2b04" => p.of \in SUBSET MapServers
BY DEF SoundCharPackets, CharPackets

\* A record found by its two ids is there, and it is one of the account.
LEMMA FoundCharacter ==
    ASSUME CharInv, NEW S, S \subseteq DOMAIN char_keys, S # {}
    PROVE  /\ First(S) \in S
           /\ char_keys[First(S)] \in OwnRecords
           /\ char_keys[First(S)].at \in MapServers
<1>1. DOMAIN char_keys = 1 .. Len(char_keys) /\ Len(char_keys) \in Nat
    BY LenProperties DEF CharInv
<1>2. First(S) \in S
    BY <1>1, FirstIsFound
<1>3. char_keys[First(S)] \in OwnRecords
    BY <1>1, <1>2, ElementOfSeq DEF CharInv
<1> QED
    BY <1>2, <1>3 DEF OwnRecords, Records

LEMMA FoundOfAccount ==
    ASSUME CharInv, NEW a, NEW c, Positions(a, c) # {}
    PROVE  c \in Characters /\ c \in Owned(a)
<1>1. Positions(a, c) \subseteq DOMAIN char_keys
    BY DEF Positions
<1>2. PICK i \in Positions(a, c) : char_keys[i] \in OwnRecords
    BY <1>1, FoundCharacter
<1> QED
    BY <1>2 DEF Positions, OwnRecords, Records, Owned

-----------------------------------------------------------------------------
(* The steps of the char server: login server and clients. *)

\* 0x2715, the one step that adds to issued.
LEMMA PreauthStep ==
    ASSUME CharInv, LinkInv, NEW a \in Accounts, NEW n \in Nat,
           issued' = issued \cup {<< a, n >>}, PreauthFromLogin(a, << n, 0 >>)
    PROVE  CharInv' /\ LinkInv'
<1> DEFINE entry == [account_id |-> a, char_id |-> NoChar,
                     login |-> << n, 0 >>, delflag |-> 2]
           mine == {i \in Ring : auth_fifo[i].account_id = a}
<1>1. entry \in KnownEntries'
    BY DEF KnownEntries, Entries, Known, Logins, AnyChar
<1>2. auth_fifo \in [Ring -> KnownEntries']
    BY MoreLogins DEF CharInv
<1>3. /\ auth_fifo' \in [Ring -> KnownEntries']
      /\ auth_fifo_iter' \in 1 .. CharFifo + 1
    <2>1. CASE /\ auth_fifo' = [auth_fifo EXCEPT ![Last(mine)] = entry]
               /\ UNCHANGED auth_fifo_iter
        BY <2>1, <1>1, <1>2 DEF CharInv
    <2>2. CASE Enqueue(entry)
        BY <2>2, <1>1, <1>2, EnqueueType DEF CharInv
    <2> QED
        BY <2>1, <2>2 DEF PreauthFromLogin
<1>4. CharInv'
    <2>1. conns' \in [Conns -> KnownConns']
        BY MoreLogins DEF CharInv, PreauthFromLogin
    <2> QED
        BY <1>3, <2>1 DEF CharInv, PreauthFromLogin
<1>5. LinkInv'
    <2>1. /\ SoundCharPackets \subseteq SoundCharPackets'
          /\ SoundMapPackets \subseteq SoundMapPackets'
          /\ KnownOffers \subseteq KnownOffers'
        BY MoreLogins
    <2>2. UNCHANGED << server_session, char_session, toMap, toChar, offers >>
        BY DEF PreauthFromLogin, linkVars
    <2>3. toMap \in [MapServers -> Seq(SoundCharPackets')]
        BY <2>1, SeqMonotonic DEF LinkInv
    <2>4. toChar \in [MapServers -> Seq(SoundMapPackets')]
        BY <2>1, SeqMonotonic DEF LinkInv
    <2> QED
        BY <2>1, <2>2, <2>3, <2>4 DEF LinkInv
<1> QED
    BY <1>4, <1>5

LEMMA BanStep ==
    ASSUME CharInv, LinkInv, issued' = issued, NEW a \in Accounts,
           BanFromLogin(a)
    PROVE  CharInv' /\ LinkInv'
<1>1. [type |-> "2b14", account_id |-> a] \in SoundCharPackets
    BY DEF SoundCharPackets, CharPackets
<1>2. toMap' \in [MapServers -> Seq(SoundCharPackets)]
    BY <1>1, SendAllType DEF LinkInv, BanFromLogin, SendToAllMaps
<1>3. conns' \in [Conns -> KnownConns]
    <2>1. Closed \in KnownConns
        BY DEF Closed, KnownConns, ConnRecords, Logins, NoLogin
    <2> QED
        BY <2>1 DEF CharInv, BanFromLogin, DisconnectPlayer
<1> QED
    BY <1>2, <1>3, SameLogins DEF CharInv, LinkInv, BanFromLogin

LEMMA ConnectStep ==
    ASSUME CharInv, LinkInv, issued' = issued, NEW k \in Conns,
           NEW a \in Accounts, NEW login \in Logins, NEW busy \in BOOLEAN,
           ConnectChar(k, a, login, busy)
    PROVE  CharInv' /\ LinkInv'
<1> DEFINE found == LoginEntries(a, login)
           session == [account_id |-> a, login |-> login,
                       auth |-> ~busy, consumed_by |-> 0]
<1>1. Closed \in KnownConns
    BY DEF Closed, KnownConns, ConnRecords, Logins, NoLogin
<1>2. CASE /\ found # {}
           /\ auth_fifo' = UseUp(First(found))
           /\ conns' = [conns EXCEPT ![k] = session]
    <2>1. PICK i \in Ring : /\ auth_fifo[i].account_id = a
                            /\ auth_fifo[i].login = login
        BY <1>2 DEF LoginEntries
    <2>2. Known(a, login)
        <3>1. auth_fifo[i] \in KnownEntries
            BY DEF CharInv
        <3> QED
            BY <2>1, <3>1, NamesAssumption DEF KnownEntries
    <2>3. session \in KnownConns
        BY <2>2 DEF KnownConns, ConnRecords
    <2>4. auth_fifo' \in [Ring -> KnownEntries]
        BY <1>2, UseUpType
    <2> QED
        BY <1>2, <2>3, <2>4, SameLogins
           DEF CharInv, LinkInv, ConnectChar, linkVars
<1>3. CASE /\ conns' = [conns EXCEPT ![k] = Closed]
           /\ UNCHANGED auth_fifo
    BY <1>1, <1>3, SameLogins DEF CharInv, LinkInv, ConnectChar, linkVars
<1> QED
    BY <1>2, <1>3 DEF ConnectChar

\* A client that selects is one that a login let in.
LEMMA SelectStep ==
    ASSUME CharInv, LinkInv, issued' = issued, NEW k \in Conns,
           NEW c \in Characters, SelectChar(k, c)
    PROVE  CharInv' /\ LinkInv'
<1> DEFINE a == conns[k].account_id
           i == First(Positions(a, c))
           request == [type |-> "3829", account_id |-> a, char_id |-> c,
                       login |-> conns[k].login]
           Request == /\ conns' = [conns EXCEPT ![k] = StartCount(@)]
                      /\ SendToAllMaps(request)
<1>1. conns[k] \in KnownConns /\ conns[k].auth
    BY DEF CharInv, SelectChar
<1>2. conns[k] \in ConnRecords /\ a \in Accounts /\ Known(a, conns[k].login)
    BY <1>1 DEF KnownConns
<1>3. Positions(a, c) # {} /\ c \in Owned(a)
    BY FoundOfAccount DEF SelectChar
<1>4. request \in SoundCharPackets
    BY <1>2, <1>3 DEF SoundCharPackets, CharPackets, ConnRecords
<1>5. StartCount(conns[k]) \in KnownConns
    BY <1>2 DEF StartCount, KnownConns, ConnRecords
<1>6. Request => /\ conns' \in [Conns -> KnownConns]
                 /\ toMap' \in [MapServers -> Seq(SoundCharPackets)]
    <2>1. [conns EXCEPT ![k] = StartCount(@)] \in [Conns -> KnownConns]
        BY <1>5 DEF CharInv
    <2>2. [m \in MapServers |-> Sent(toMap, m, request)]
             \in [MapServers -> Seq(SoundCharPackets)]
        BY <1>4, SendAllType DEF LinkInv
    <2> QED
        BY <2>1, <2>2 DEF SendToAllMaps
<1>7. ASSUME NEW m \in MapServers
      PROVE  [char_keys EXCEPT ![i].at = m] \in Seq(OwnRecords)
    <2>1. i \in Positions(a, c) /\ char_keys[i] \in OwnRecords
        BY <1>3, FoundCharacter DEF Positions
    <2>2. i \in 1 .. Len(char_keys)
        BY <2>1, LenProperties DEF CharInv, Positions
    <2>3. [char_keys[i] EXCEPT !.at = m] \in OwnRecords
        BY <2>1 DEF OwnRecords, Records
    <2>4. [char_keys EXCEPT ![i] = [char_keys[i] EXCEPT !.at = m]]
             \in Seq(OwnRecords)
        BY <2>2, <2>3, ExceptSeq DEF CharInv
    <2> QED
        BY <2>4
<1>8. char_keys' \in Seq(OwnRecords)
    BY <1>7 DEF SelectChar, CharInv
<1>9. /\ conns' \in [Conns -> KnownConns]
      /\ toMap' \in [MapServers -> Seq(SoundCharPackets)]
    BY <1>6 DEF SelectChar, CharInv, LinkInv
<1> QED
    BY <1>8, <1>9, SameLogins DEF CharInv, LinkInv, SelectChar

\* The last record takes the place of the one that is deleted.
LEMMA DeleteStep ==
    ASSUME CharInv, LinkInv, issued' = issued, NEW k \in Conns,
           NEW c \in Characters, DeleteChar(k, c)
    PROVE  CharInv' /\ LinkInv'
<1> DEFINE a == conns[k].account_id
           i == First(Positions(a, c))
<1>1. a \in Accounts
    BY DEF CharInv, DeleteChar, KnownConns
<1>2. [type |-> "2afe", account_id |-> a] \in SoundCharPackets
    BY <1>1 DEF SoundCharPackets, CharPackets
<1>3. toMap' \in [MapServers -> Seq(SoundCharPackets)]
    BY <1>2, SendAllType DEF LinkInv, DeleteChar, SendToAllMaps
<1>4. Len(char_keys) \in Nat /\ DOMAIN char_keys = 1 .. Len(char_keys)
    BY LenProperties DEF CharInv
<1>5. Positions(a, c) # {} /\ Positions(a, c) \subseteq 1 .. Len(char_keys)
    BY <1>4 DEF DeleteChar, Positions
<1>6. Len(char_keys) - 1 \in Nat
    BY <1>4, <1>5
<1>7. \A j \in 1 .. Len(char_keys) : char_keys[j] \in OwnRecords
    BY ElementOfSeq DEF CharInv
<1>8. WithoutChar(i) \in [1 .. Len(char_keys) - 1 -> OwnRecords]
    BY <1>4, <1>6, <1>7 DEF WithoutChar
<1>9. char_keys' \in Seq(OwnRecords)
    BY <1>6, <1>8 DEF DeleteChar
<1> QED
    BY <1>3, <1>9, SameLogins DEF CharInv, LinkInv, DeleteChar

LEMMA CreateStep ==
    ASSUME CharInv, LinkInv, issued' = issued, NEW k \in Conns,
           NEW c \in Characters, CreateChar(k, c)
    PROVE  CharInv' /\ LinkInv'
<1> DEFINE new == [account_id |-> conns[k].account_id, char_id |-> c,
                   rev |-> 0, at |-> Start]
<1>1. conns[k].account_id \in Accounts
    BY DEF CharInv, CreateChar, KnownConns
<1>2. new \in OwnRecords
    BY <1>1, CharServerAssumption DEF CreateChar, OwnRecords, Records, Owned
<1>3. char_keys' \in Seq(OwnRecords)
    BY <1>2, AppendProperties DEF CharInv, CreateChar
<1> QED
    BY <1>3, SameLogins DEF CharInv, LinkInv, CreateChar, linkVars

LEMMA LeaveStep ==
    ASSUME CharInv, LinkInv, issued' = issued, NEW k \in Conns, LeaveChar(k)
    PROVE  CharInv' /\ LinkInv'
<1>1. Closed \in KnownConns
    BY DEF Closed, KnownConns, ConnRecords, Logins, NoLogin
<1> QED
    BY <1>1, SameLogins DEF CharInv, LinkInv, LeaveChar, linkVars

-----------------------------------------------------------------------------
(* The steps of the char server: packets from map server m. *)

\* What every handler of parse_frommap starts with.
LEMMA HeadFromMap ==
    ASSUME LinkInv, NEW m \in MapServers, NEW type, FromMap(m, type)
    PROVE  /\ Head(toChar[m]) \in SoundMapPackets
           /\ Head(toChar[m]).type = type
           /\ ReadFromMap(m) => toChar' \in [MapServers -> Seq(SoundMapPackets)]
<1>1. toChar \in [MapServers -> Seq(SoundMapPackets)]
    BY DEF LinkInv
<1>2. toChar[m] # << >> /\ Head(toChar[m]).type = type
    BY DEF FromMap
<1>3. /\ [toChar EXCEPT ![m] = Tail(@)] \in [MapServers -> Seq(SoundMapPackets)]
      /\ Head(toChar[m]) \in SoundMapPackets
    BY <1>1, <1>2, ReadType
<1> QED
    BY <1>2, <1>3 DEF ReadFromMap

LEMMA ReplyToMap ==
    ASSUME LinkInv, NEW m \in MapServers, NEW type, FromMap(m, type),
           NEW msg \in SoundCharPackets, ReadFromMapAndReply(m, msg)
    PROVE  /\ toChar' \in [MapServers -> Seq(SoundMapPackets)]
           /\ toMap' \in [MapServers -> Seq(SoundCharPackets)]
BY HeadFromMap, SendType DEF LinkInv, ReadFromMapAndReply, SendToMap

LEMMA AcceptStep ==
    ASSUME CharInv, LinkInv, issued' = issued, NEW m \in MapServers,
           AcceptMapServer(m)
    PROVE  CharInv' /\ LinkInv'
<1>1. [type |-> "2af9"] \in SoundCharPackets
    BY DEF SoundCharPackets, CharPackets
<1>2. toMap[m] \in Seq(SoundCharPackets)
    BY DEF LinkInv
<1>3. toMap' \in [MapServers -> Seq(SoundCharPackets)]
    BY <1>1, <1>2, AppendProperties DEF LinkInv, AcceptMapServer
<1>4. toChar' \in [MapServers -> Seq(SoundMapPackets)]
    BY ReadType DEF LinkInv, AcceptMapServer, ReadFromMap
<1>5. /\ server_session' \in [MapServers -> BOOLEAN]
      /\ maps' \in [MapServers -> BOOLEAN]
    BY DEF CharInv, LinkInv, AcceptMapServer
<1> QED
    BY <1>3, <1>4, <1>5, SameLogins DEF CharInv, LinkInv, AcceptMapServer

LEMMA MapsStep ==
    ASSUME CharInv, LinkInv, issued' = issued, NEW m \in MapServers,
           ReceiveMaps(m)
    PROVE  CharInv' /\ LinkInv'
<1> DEFINE others == {s \in MapServers \ {m} : server_session[s] /\ maps[s]}
           answer == IF others = {} THEN << [type |-> "2afb"] >>
                                    ELSE AckBeforeMaps(others)
           news == [type |-> "2b04", of |-> {m}]
<1>1. /\ [type |-> "2afb"] \in SoundCharPackets
      /\ [type |-> "2b04", of |-> others] \in SoundCharPackets
      /\ news \in SoundCharPackets
    BY DEF SoundCharPackets, CharPackets
<1>2. answer \in Seq(SoundCharPackets)
    BY <1>1 DEF AckBeforeMaps
<1>3. ASSUME NEW s \in MapServers
      PROVE  /\ Sent(toMap, s, news) \in Seq(SoundCharPackets)
             /\ toMap[s] \in Seq(SoundCharPackets)
             /\ toMap[s] \o answer \in Seq(SoundCharPackets)
    <2>1. toMap[s] \in Seq(SoundCharPackets)
        BY DEF LinkInv
    <2> HIDE DEF answer, news
    <2> QED
        BY <1>1, <1>2, <2>1, SentType, ConcatProperties DEF LinkInv
<1>4. toMap' \in [MapServers -> Seq(SoundCharPackets)]
    BY <1>3 DEF ReceiveMaps
<1>5. /\ toChar' \in [MapServers -> Seq(SoundMapPackets)]
      /\ maps' \in [MapServers -> BOOLEAN]
    BY HeadFromMap DEF CharInv, ReceiveMaps
<1> QED
    BY <1>4, <1>5, SameLogins DEF CharInv, LinkInv, ReceiveMaps

LEMMA CharEndStep ==
    ASSUME CharInv, LinkInv, issued' = issued, NEW m \in MapServers,
           DeleteFromMap(m)
    PROVE  CharInv' /\ LinkInv'
<1>1. char_session[m] \in BOOLEAN
    BY DEF LinkInv
<1>2. PICK rest \in Seq(SoundCharPackets) : toMap' = [toMap EXCEPT ![m] = rest]
    BY <1>1, StillDeliveredType DEF LinkInv, DeleteFromMap, CharEndCloses
<1>3. << >> \in Seq(SoundMapPackets)
    BY EmptySeq
<1>4. /\ toChar' \in [MapServers -> Seq(SoundMapPackets)]
      /\ toMap' \in [MapServers -> Seq(SoundCharPackets)]
      /\ server_session' \in [MapServers -> BOOLEAN]
      /\ maps' \in [MapServers -> BOOLEAN]
    BY <1>2, <1>3 DEF CharInv, LinkInv, DeleteFromMap, CharEndCloses
<1> QED
    BY <1>4, SameLogins DEF CharInv, LinkInv, DeleteFromMap, CharEndCloses

\* The entry and the offer that the last of the awaited answers brings about.
LEMMA PreauthAckStep ==
    ASSUME CharInv, LinkInv, issued' = issued, NEW m \in MapServers,
           ReceivePreauthAck(m)
    PROVE  CharInv' /\ LinkInv'
<1> DEFINE msg == Head(toChar[m])
           at == Positions(msg.account_id, msg.char_id)
           srv == search_mapserver(char_keys[First(at)].at)
           entry == [account_id |-> msg.account_id, char_id |-> msg.char_id,
                     login |-> msg.login, delflag |-> 3]
           offer == [via |-> "0071", account_id |-> msg.account_id,
                     char_id |-> msg.char_id, login |-> msg.login,
                     srv |-> srv]
<1>1. /\ msg \in SoundMapPackets
      /\ msg.type = "3830"
      /\ toChar' \in [MapServers -> Seq(SoundMapPackets)]
    BY HeadFromMap DEF ReceivePreauthAck
<1>2. /\ msg.account_id \in Accounts
      /\ msg.char_id \in Characters
      /\ msg.char_id \in Owned(msg.account_id)
      /\ msg.login \in Logins
      /\ Known(msg.account_id, msg.login)
    BY <1>1, FieldsToChar
<1> HIDE DEF msg
<1>3. entry \in KnownEntries
    BY <1>2 DEF KnownEntries, Entries, AnyChar, Known
<1>4. ASSUME at # {}
      PROVE  offer \in KnownOffers
    <2>1. char_keys[First(at)].at \in MapServers
        BY <1>4, FoundCharacter DEF Positions
    <2>2. srv \in MapServers \cup {Nowhere}
        BY <2>1 DEF search_mapserver
    <2> HIDE DEF srv
    <2> QED
        BY <1>2, <2>2 DEF KnownOffers, Offers, Known
<1>5. ASSUME NEW k \in Conns
      PROVE  [conns EXCEPT ![k].consumed_by = @ + 1] \in [Conns -> KnownConns]
    <2> DEFINE new == [conns[k] EXCEPT !.consumed_by = @ + 1]
    <2>1. conns[k] \in KnownConns
        BY DEF CharInv
    <2>2. new \in KnownConns
        BY <2>1 DEF KnownConns, ConnRecords, Known
    <2> QED
        BY <2>2 DEF CharInv
<1>6. conns' \in [Conns -> KnownConns]
    BY <1>5 DEF ReceivePreauthAck, CharInv
<1>7. CASE UNCHANGED << auth_fifo, auth_fifo_iter, offers >>
    BY <1>1, <1>6, <1>7, SameLogins DEF CharInv, LinkInv, ReceivePreauthAck
<1>8. CASE at # {} /\ Enqueue(entry) /\ offers' = offers \cup {offer}
    <2>1. /\ auth_fifo' \in [Ring -> KnownEntries]
          /\ auth_fifo_iter' \in 1 .. CharFifo + 1
        BY <1>3, <1>8, EnqueueType DEF CharInv
    <2>2. offers' \in SUBSET KnownOffers
        BY <1>4, <1>8 DEF LinkInv
    <2> QED
        BY <1>1, <1>6, <2>1, <2>2, SameLogins
           DEF CharInv, LinkInv, ReceivePreauthAck
<1> QED
    BY <1>7, <1>8 DEF ReceivePreauthAck, msg

\* The answer to 0x2afc carries a character of the account that asked.
LEMMA AuthRequestStep ==
    ASSUME CharInv, LinkInv, issued' = issued, NEW m \in MapServers,
           ReceiveAuthRequest(m)
    PROVE  CharInv' /\ LinkInv'
<1> DEFINE msg == Head(toChar[m])
           with_id == WithId(msg.char_id)
           key == char_keys[First(with_id)]
           no == [type |-> "2afe", account_id |-> msg.account_id]
           ok == [type |-> "2afd", account_id |-> msg.account_id,
                  char_id |-> key.char_id, rev |-> key.rev, at |-> key.at]
<1>1. msg \in SoundMapPackets /\ msg.type = "2afc" /\ FromMap(m, "2afc")
    BY HeadFromMap DEF ReceiveAuthRequest
<1>2. /\ msg.account_id \in Accounts
      /\ msg.char_id \in Owned(msg.account_id)
    BY <1>1, FieldsToChar
<1>3. no \in SoundCharPackets
    BY <1>2 DEF SoundCharPackets, CharPackets
<1>4. ASSUME with_id # {}
      PROVE  ok \in SoundCharPackets
    <2>1. First(with_id) \in with_id /\ key \in OwnRecords
        BY <1>4, FoundCharacter DEF WithId
    <2>2. key.char_id = msg.char_id
        BY <2>1 DEF WithId
    <2> HIDE DEF key, msg
    <2> QED
        BY <1>2, <2>1, <2>2
           DEF SoundCharPackets, CharPackets, OwnRecords, Records, Known
<1>5. auth_fifo' \in [Ring -> KnownEntries]
    BY UseUpType DEF CharInv, ReceiveAuthRequest
<1>6. aborted' \in BOOLEAN
    BY DEF CharInv, ReceiveAuthRequest
<1>7. CASE ReadFromMap(m) /\ UNCHANGED toMap
    BY <1>1, <1>5, <1>6, <1>7, HeadFromMap, SameLogins
       DEF CharInv, LinkInv, ReceiveAuthRequest
<1>8. CASE ReadFromMapAndReply(m, no)
    BY <1>1, <1>3, <1>5, <1>6, <1>8, ReplyToMap, SameLogins
       DEF CharInv, LinkInv, ReceiveAuthRequest
<1>9. CASE with_id # {} /\ ReadFromMapAndReply(m, ok)
    BY <1>1, <1>4, <1>5, <1>6, <1>9, ReplyToMap, SameLogins
       DEF CharInv, LinkInv, ReceiveAuthRequest
<1> QED
    BY <1>7, <1>8, <1>9 DEF ReceiveAuthRequest

LEMMA SaveStep ==
    ASSUME CharInv, LinkInv, issued' = issued, NEW m \in MapServers,
           ReceiveSave(m)
    PROVE  CharInv' /\ LinkInv'
<1> DEFINE msg == Head(toChar[m])
           at == Positions(msg.account_id, msg.char_id)
           record == [account_id |-> msg.key_account, char_id |-> msg.key_char,
                      rev |-> msg.rev, at |-> msg.at]
<1>1. /\ msg \in SoundMapPackets
      /\ msg.type = "2b01"
      /\ toChar' \in [MapServers -> Seq(SoundMapPackets)]
    BY HeadFromMap DEF ReceiveSave
<1>2. record \in OwnRecords
    BY <1>1, FieldsToChar DEF OwnRecords, Records
<1>3. char_keys' \in Seq(OwnRecords)
    <2>1. CASE at = {}
        BY <2>1 DEF CharInv, ReceiveSave
    <2>2. CASE at # {}
        <3>1. First(at) \in at
            BY <2>2, FoundCharacter DEF Positions
        <3>2. First(at) \in 1 .. Len(char_keys)
            BY <3>1, LenProperties DEF CharInv, Positions
        <3>3. char_keys' = [char_keys EXCEPT ![First(at)] = record]
            BY <2>2 DEF ReceiveSave
        <3> QED
            BY <1>2, <3>2, <3>3, ExceptSeq DEF CharInv
    <2> QED
        BY <2>1, <2>2
<1> QED
    BY <1>1, <1>3, SameLogins DEF CharInv, LinkInv, ReceiveSave

LEMMA CharSelectStep ==
    ASSUME CharInv, LinkInv, issued' = issued, NEW m \in MapServers,
           ReceiveCharSelect(m)
    PROVE  CharInv' /\ LinkInv'
<1> DEFINE msg == Head(toChar[m])
           entry == [account_id |-> msg.account_id, char_id |-> NoChar,
                     login |-> msg.login, delflag |-> 2]
           ok == [type |-> "2b03", account_id |-> msg.account_id]
<1>1. msg \in SoundMapPackets /\ msg.type = "2b02" /\ FromMap(m, "2b02")
    BY HeadFromMap DEF ReceiveCharSelect
<1>2. /\ msg.account_id \in Accounts
      /\ msg.login \in Logins
      /\ Known(msg.account_id, msg.login)
    BY <1>1, FieldsToChar
<1>3. entry \in KnownEntries /\ ok \in SoundCharPackets
    BY <1>2 DEF KnownEntries, Entries, AnyChar, Known, SoundCharPackets, CharPackets
<1>4. /\ auth_fifo' \in [Ring -> KnownEntries]
      /\ auth_fifo_iter' \in 1 .. CharFifo + 1
    BY <1>3, EnqueueType DEF CharInv, ReceiveCharSelect
<1>5. /\ toChar' \in [MapServers -> Seq(SoundMapPackets)]
      /\ toMap' \in [MapServers -> Seq(SoundCharPackets)]
    BY <1>1, <1>3, ReplyToMap DEF ReceiveCharSelect
<1> QED
    BY <1>4, <1>5, SameLogins DEF CharInv, LinkInv, ReceiveCharSelect

LEMMA ChangeServerStep ==
    ASSUME CharInv, LinkInv, issued' = issued, NEW m \in MapServers,
           ReceiveChangeServer(m)
    PROVE  CharInv' /\ LinkInv'
<1> DEFINE msg == Head(toChar[m])
           known == Positions(msg.account_id, msg.char_id) # {}
           entry == [account_id |-> msg.account_id, char_id |-> msg.char_id,
                     login |-> msg.login, delflag |-> 0]
           ack == [type |-> "2b06", account_id |-> msg.account_id,
                   char_id |-> msg.char_id, to |-> msg.to, error |-> ~known]
<1>1. msg \in SoundMapPackets /\ msg.type = "2b05" /\ FromMap(m, "2b05")
    BY HeadFromMap DEF ReceiveChangeServer
<1>2. /\ msg.account_id \in Accounts
      /\ msg.char_id \in Characters
      /\ msg.char_id \in Owned(msg.account_id)
      /\ msg.login \in Logins
      /\ Known(msg.account_id, msg.login)
      /\ msg.to \in MapServers
    BY <1>1, FieldsToChar
<1>3. entry \in KnownEntries
    BY <1>2 DEF KnownEntries, Entries, AnyChar, Known
<1>4. ack \in SoundCharPackets
    BY <1>2 DEF SoundCharPackets, CharPackets
<1>5. Slot \in Ring /\ Slot + 1 \in 1 .. CharFifo + 1
    BY CharServerAssumption DEF CharInv, Slot, Ring
<1>6. auth_fifo' \in [Ring -> KnownEntries]
    BY <1>3 DEF CharInv, ReceiveChangeServer
<1>7. auth_fifo_iter' \in 1 .. CharFifo + 1
    BY <1>5, CharServerAssumption DEF ReceiveChangeServer, Ring
<1>8. /\ toChar' \in [MapServers -> Seq(SoundMapPackets)]
      /\ toMap' \in [MapServers -> Seq(SoundCharPackets)]
    BY <1>1, <1>4, ReplyToMap DEF ReceiveChangeServer
<1> QED
    BY <1>6, <1>7, <1>8, SameLogins DEF CharInv, LinkInv, ReceiveChangeServer

LEMMA CharReadsStep ==
    ASSUME CharInv, LinkInv, issued' = issued, NEW m \in MapServers,
           HandleMapPacket(m)
    PROVE  CharInv' /\ LinkInv'
BY AcceptStep, MapsStep, PreauthAckStep, AuthRequestStep, SaveStep,
   CharSelectStep, ChangeServerStep DEF HandleMapPacket

-----------------------------------------------------------------------------
(* The steps of map server m: its connection and packets of the char server. *)

\* What every handler of chrif_parse starts with.
LEMMA HeadFromChar ==
    ASSUME LinkInv, NEW m \in MapServers, NEW type, FromChar(m, type)
    PROVE  /\ Head(toMap[m]) \in SoundCharPackets
           /\ Head(toMap[m]).type = type
           /\ ReadFromChar(m) => toMap' \in [MapServers -> Seq(SoundCharPackets)]
<1>1. toMap \in [MapServers -> Seq(SoundCharPackets)]
    BY DEF LinkInv
<1>2. toMap[m] # << >> /\ Head(toMap[m]).type = type
    BY DEF FromChar
<1>3. /\ [toMap EXCEPT ![m] = Tail(@)] \in [MapServers -> Seq(SoundCharPackets)]
      /\ Head(toMap[m]) \in SoundCharPackets
    BY <1>1, <1>2, ReadType
<1> QED
    BY <1>2, <1>3 DEF ReadFromChar

LEMMA ReplyToChar ==
    ASSUME LinkInv, NEW m \in MapServers, NEW type, FromChar(m, type),
           NEW msg \in SoundMapPackets, ReadFromCharAndReply(m, msg)
    PROVE  /\ toMap' \in [MapServers -> Seq(SoundCharPackets)]
           /\ toChar' \in [MapServers -> Seq(SoundMapPackets)]
BY HeadFromChar, SendType DEF LinkInv, ReadFromCharAndReply, SendToChar

\* The states in which a session can be found, at any time.
LEMMA SessionType ==
    ASSUME MapInv, NEW m \in MapServers, NEW a \in Accounts
    PROVE  /\ sess[m][a] \in SessionsOf(a)
           /\ NoSession \in SessionsOf(a)
           /\ NoSession \in Sessions
           /\ Online(m, a) => /\ sess[m][a].char_id \in Owned(a)
                              /\ Known(a, sess[m][a].login)
           /\ InGame(m, a) => /\ Online(m, a)
                              /\ sess[m][a].key \in Owned(a)
                              /\ sess[m][a].at \in MapServers
<1>1. sess[m][a] \in SessionsOf(a)
    BY DEF MapInv
<1>2. NoSession \in Sessions
    BY DEF NoSession, Sessions, AnyChar, Logins, NoLogin
<1>3. ~NoSession.auth
    BY DEF NoSession
<1>4. NoSession \in SessionsOf(a)
    BY <1>2, <1>3 DEF SessionsOf
<1> QED
    BY <1>1, <1>2, <1>3, <1>4 DEF SessionsOf, Online, InGame

\* A session that keeps its character and login remains one of its account.
LEMMA SessionKept ==
    ASSUME MapInv, NEW m \in MapServers, NEW a \in Accounts, Online(m, a),
           NEW s \in Sessions, s.char_id = sess[m][a].char_id,
           Known(a, s.login), s.auth = sess[m][a].auth, s.key = sess[m][a].key,
           s.at = sess[m][a].at \/ s.at \in MapServers
    PROVE  s \in SessionsOf(a)
BY SessionType DEF SessionsOf, InGame

LEMMA WaitCloseType ==
    ASSUME MapInv, NEW m \in MapServers, NEW a \in Accounts, Online(m, a)
    PROVE  WaitClose(sess[m][a]) \in SessionsOf(a)
<1> DEFINE s == WaitClose(sess[m][a])
<1>1. sess[m][a] \in Sessions
    BY DEF MapInv
<1>2. /\ s \in Sessions
      /\ s.char_id = sess[m][a].char_id
      /\ s.login = sess[m][a].login
      /\ s.auth = sess[m][a].auth
      /\ s.key = sess[m][a].key
      /\ s.at = sess[m][a].at
    BY <1>1 DEF WaitClose, Sessions
<1>3. Known(a, s.login)
    BY <1>2, SessionType
<1> QED
    BY <1>2, <1>3, SessionKept

LEMMA ConnectToCharStep ==
    ASSUME MapInv, LinkInv, issued' = issued, NEW m \in MapServers,
           ConnectToChar(m)
    PROVE  MapInv' /\ LinkInv'
<1>1. << [type |-> "2af8"] >> \in Seq(SoundMapPackets)
    BY DEF SoundMapPackets, MapPackets
<1>2. /\ chrif_state' \in [MapServers -> 0 .. 2]
      /\ char_session' \in [MapServers -> BOOLEAN]
      /\ toChar' \in [MapServers -> Seq(SoundMapPackets)]
    BY <1>1 DEF MapInv, LinkInv, ConnectToChar
<1> QED
    BY <1>2, SameLogins DEF MapInv, LinkInv, ConnectToChar

LEMMA MapEndType ==
    ASSUME LinkInv, NEW m \in MapServers, MapEndCloses(m)
    PROVE  /\ char_session' \in [MapServers -> BOOLEAN]
           /\ server_session' \in [MapServers -> BOOLEAN]
           /\ toMap' \in [MapServers -> Seq(SoundCharPackets)]
           /\ toChar' \in [MapServers -> Seq(SoundMapPackets)]
<1>1. server_session[m] \in BOOLEAN
    BY DEF LinkInv
<1>2. PICK rest \in Seq(SoundMapPackets) : toChar' = [toChar EXCEPT ![m] = rest]
    BY <1>1, StillDeliveredType DEF LinkInv, MapEndCloses
<1>3. << >> \in Seq(SoundCharPackets)
    BY EmptySeq
<1> QED
    BY <1>2, <1>3 DEF LinkInv, MapEndCloses

LEMMA LoseCharStep ==
    ASSUME MapInv, LinkInv, issued' = issued, NEW m \in MapServers, LoseChar(m)
    PROVE  MapInv' /\ LinkInv'
BY MapEndType, SameLogins DEF MapInv, LinkInv, LoseChar, mapVars

LEMMA CrashStep ==
    ASSUME MapInv, LinkInv, issued' = issued, NEW m \in MapServers, Crash(m)
    PROVE  MapInv' /\ LinkInv'
<1>1. LinkInv'
    <2>1. /\ char_session' \in [MapServers -> BOOLEAN]
          /\ server_session' \in [MapServers -> BOOLEAN]
          /\ toMap' \in [MapServers -> Seq(SoundCharPackets)]
          /\ toChar' \in [MapServers -> Seq(SoundMapPackets)]
        BY MapEndType DEF LinkInv, Crash
    <2> QED
        BY <2>1, SameLogins DEF LinkInv, Crash
<1>2. [i \in MapRing |-> FreeEntry] \in [MapRing -> Entries]
    BY DEF FreeEntry, Entries, AnyChar, Logins, NoLogin
<1>3. /\ chrif_state' \in [MapServers -> 0 .. 2]
      /\ map_fifo' \in [MapServers -> [MapRing -> Entries]]
      /\ map_fifo_iter' \in [MapServers -> 1 .. MapFifo + 1]
      /\ heard' \in [MapServers -> SUBSET MapServers]
    BY <1>2, MapServerAssumption DEF MapInv, Crash
<1>4. \A a \in Accounts : NoSession \in Sessions /\ NoSession \in SessionsOf(a)
    BY SessionType
<1>5. sess' \in [MapServers -> [Accounts -> Sessions]]
    BY <1>4 DEF MapInv, Crash
<1>6. ASSUME NEW n \in MapServers, NEW a \in Accounts
      PROVE  sess'[n][a] \in SessionsOf(a)'
    <2>1. sess'[n][a] = IF n = m THEN NoSession ELSE sess[n][a]
        BY DEF MapInv, Crash
    <2> QED
        BY <2>1, <1>4, SameLogins DEF MapInv
<1> QED
    BY <1>1, <1>3, <1>5, <1>6 DEF MapInv

LEMMA ConnectAckStep ==
    ASSUME MapInv, LinkInv, issued' = issued, NEW m \in MapServers,
           ReceiveConnectAck(m)
    PROVE  MapInv' /\ LinkInv'
<1>1. [type |-> "2afa"] \in SoundMapPackets
    BY DEF SoundMapPackets, MapPackets
<1>2. /\ toMap' \in [MapServers -> Seq(SoundCharPackets)]
      /\ toChar' \in [MapServers -> Seq(SoundMapPackets)]
    BY <1>1, ReplyToChar DEF ReceiveConnectAck
<1>3. chrif_state' \in [MapServers -> 0 .. 2]
    BY DEF MapInv, ReceiveConnectAck
<1> QED
    BY <1>2, <1>3, SameLogins DEF MapInv, LinkInv, ReceiveConnectAck

LEMMA MapAckStep ==
    ASSUME MapInv, LinkInv, issued' = issued, NEW m \in MapServers,
           ReceiveMapAck(m)
    PROVE  MapInv' /\ LinkInv'
<1>1. /\ toMap' \in [MapServers -> Seq(SoundCharPackets)]
      /\ chrif_state' \in [MapServers -> 0 .. 2]
    BY HeadFromChar DEF MapInv, ReceiveMapAck
<1> QED
    BY <1>1, SameLogins DEF MapInv, LinkInv, ReceiveMapAck

LEMMA MapsOfOthersStep ==
    ASSUME MapInv, LinkInv, issued' = issued, NEW m \in MapServers,
           ReceiveMapsOfOthers(m)
    PROVE  MapInv' /\ LinkInv'
<1>1. /\ toMap' \in [MapServers -> Seq(SoundCharPackets)]
      /\ Head(toMap[m]).of \in SUBSET MapServers
    BY HeadFromChar, FieldsToMap DEF ReceiveMapsOfOthers
<1>2. heard' \in [MapServers -> SUBSET MapServers]
    BY <1>1 DEF MapInv, ReceiveMapsOfOthers
<1>3. UNCHANGED << chrif_state, map_fifo, map_fifo_iter, sess,
                   server_session, char_session, toChar, offers >>
    BY DEF ReceiveMapsOfOthers
<1> QED
    BY <1>1, <1>2, <1>3, SameLogins DEF MapInv, LinkInv

LEMMA PreauthAtMapStep ==
    ASSUME MapInv, LinkInv, issued' = issued, NEW m \in MapServers,
           ReceivePreauth(m)
    PROVE  MapInv' /\ LinkInv'
<1> DEFINE msg == Head(toMap[m])
           entry == [account_id |-> msg.account_id, char_id |-> msg.char_id,
                     login |-> msg.login, delflag |-> 0]
           ack == [msg EXCEPT !.type = "3830"]
<1>1. msg \in SoundCharPackets /\ msg.type = "3829" /\ FromChar(m, "3829")
    BY HeadFromChar DEF ReceivePreauth
<1>2. /\ msg.account_id \in Accounts
      /\ msg.char_id \in Characters
      /\ msg.char_id \in Owned(msg.account_id)
      /\ msg.login \in Logins
      /\ Known(msg.account_id, msg.login)
      /\ ack = [type |-> "3830", account_id |-> msg.account_id,
                char_id |-> msg.char_id, login |-> msg.login]
    BY <1>1, FieldsToMap
<1>3. entry \in Entries /\ ack \in SoundMapPackets
    BY <1>2 DEF Entries, AnyChar, SoundMapPackets, MapPackets, Known
<1>4. MapSlot(m) \in MapRing /\ MapSlot(m) + 1 \in 1 .. MapFifo + 1
    BY MapServerAssumption DEF MapInv, MapSlot, MapRing
<1>5. /\ map_fifo' \in [MapServers -> [MapRing -> Entries]]
      /\ map_fifo_iter' \in [MapServers -> 1 .. MapFifo + 1]
    BY <1>3, <1>4 DEF MapInv, ReceivePreauth
<1>6. /\ toMap' \in [MapServers -> Seq(SoundCharPackets)]
      /\ toChar' \in [MapServers -> Seq(SoundMapPackets)]
    BY <1>1, <1>3, ReplyToChar DEF ReceivePreauth
<1> QED
    BY <1>5, <1>6, SameLogins DEF MapInv, LinkInv, ReceivePreauth

\* Whichever session the account has now, the character is of the account.
LEMMA AuthOkStep ==
    ASSUME MapInv, LinkInv, issued' = issued, NEW m \in MapServers,
           ReceiveAuthOk(m)
    PROVE  MapInv' /\ LinkInv'
<1> DEFINE msg == Head(toMap[m])
           a == msg.account_id
           s == Admitted(sess[m][a], msg)
<1>1. msg \in SoundCharPackets /\ msg.type = "2afd"
    BY HeadFromChar DEF ReceiveAuthOk
<1>2. /\ a \in Accounts
      /\ msg.char_id \in Characters
      /\ msg.char_id \in Owned(a)
      /\ msg.rev \in Nat
      /\ msg.at \in MapServers
    BY <1>1, FieldsToMap
<1>3. toMap' \in [MapServers -> Seq(SoundCharPackets)]
    BY HeadFromChar DEF ReceiveAuthOk
<1> HIDE DEF msg
<1>4. ASSUME Online(m, a)
      PROVE  s \in SessionsOf(a)
    <2>1. sess[m][a] \in Sessions
        BY <1>2 DEF MapInv
    <2>2. sess[m][a].char_id \in Owned(a) /\ Known(a, sess[m][a].login)
        BY <1>2, <1>4, SessionType
    <2>3. /\ s \in Sessions
          /\ s.char_id = sess[m][a].char_id
          /\ s.login = sess[m][a].login
          /\ s.key = msg.char_id
          /\ s.at = msg.at
        BY <1>2, <2>1 DEF Admitted, Sessions, AnyChar
    <2> HIDE DEF s
    <2> QED
        BY <1>2, <2>2, <2>3 DEF SessionsOf, Known
<1>5. CASE Online(m, a) /\ Update(m, a, s)
    <2> HIDE DEF s
    <2> QED
        BY <1>2, <1>3, <1>4, <1>5, UpdateType, SameLogins
           DEF MapInv, LinkInv, ReceiveAuthOk
<1>6. CASE UNCHANGED sess
    BY <1>3, <1>6, SameLogins DEF MapInv, LinkInv, ReceiveAuthOk
<1> QED
    BY <1>5, <1>6 DEF ReceiveAuthOk, msg

LEMMA AuthFailStep ==
    ASSUME MapInv, LinkInv, issued' = issued, NEW m \in MapServers,
           ReceiveAuthFail(m)
    PROVE  MapInv' /\ LinkInv'
<1> DEFINE a == Head(toMap[m]).account_id
           s == WaitClose(sess[m][a])
<1>1. /\ a \in Accounts
      /\ toMap' \in [MapServers -> Seq(SoundCharPackets)]
    BY HeadFromChar, FieldsToMap DEF ReceiveAuthFail
<1>2. CASE Online(m, a) /\ Update(m, a, s)
    <2>1. s \in SessionsOf(a)
        BY <1>1, <1>2, WaitCloseType
    <2> HIDE DEF s, a
    <2> QED
        BY <1>1, <1>2, <2>1, UpdateType, SameLogins
           DEF MapInv, LinkInv, ReceiveAuthFail
<1>3. CASE UNCHANGED sess
    BY <1>1, <1>3, SameLogins DEF MapInv, LinkInv, ReceiveAuthFail
<1> QED
    BY <1>2, <1>3 DEF ReceiveAuthFail

\* login_id1 counts up, which the pair of ids keeps apart from the login.
LEMMA BanAtMapStep ==
    ASSUME MapInv, LinkInv, issued' = issued, NEW m \in MapServers,
           ReceiveBan(m)
    PROVE  MapInv' /\ LinkInv'
<1> DEFINE a == Head(toMap[m]).account_id
           login == << sess[m][a].login[1], sess[m][a].login[2] + 1 >>
           s == [sess[m][a] EXCEPT !.login = login, !.closing = TRUE]
<1>1. /\ a \in Accounts
      /\ toMap' \in [MapServers -> Seq(SoundCharPackets)]
    BY HeadFromChar, FieldsToMap DEF ReceiveBan
<1> HIDE DEF a
<1>2. CASE Online(m, a) /\ Update(m, a, s)
    <2>1. sess[m][a] \in Sessions /\ Known(a, sess[m][a].login)
        BY <1>1, <1>2, SessionType DEF MapInv
    <2>2. login \in Logins /\ Known(a, login)
        BY <2>1 DEF Sessions, Logins, Known
    <2> HIDE DEF login
    <2>3. /\ s \in Sessions
          /\ s.login = login
          /\ s.char_id = sess[m][a].char_id
          /\ s.auth = sess[m][a].auth
          /\ s.key = sess[m][a].key
          /\ s.at = sess[m][a].at
        BY <2>1, <2>2 DEF Sessions
    <2> HIDE DEF s
    <2>4. s \in SessionsOf(a)
        BY <1>1, <1>2, <2>2, <2>3, SessionKept
    <2> QED
        BY <1>1, <1>2, <2>4, UpdateType, SameLogins
           DEF MapInv, LinkInv, ReceiveBan
<1>3. CASE UNCHANGED sess
    BY <1>1, <1>3, SameLogins DEF MapInv, LinkInv, ReceiveBan
<1> QED
    BY <1>2, <1>3 DEF ReceiveBan, a

LEMMA CharSelectOkStep ==
    ASSUME MapInv, LinkInv, issued' = issued, NEW m \in MapServers,
           ReceiveCharSelectOk(m)
    PROVE  MapInv' /\ LinkInv'
<1>1. toMap' \in [MapServers -> Seq(SoundCharPackets)]
    BY HeadFromChar DEF ReceiveCharSelectOk
<1> QED
    BY <1>1, SameLogins DEF MapInv, LinkInv, ReceiveCharSelectOk, mapVars

\* The offer of another server is made to the account whose character moves.
LEMMA ChangeServerAckStep ==
    ASSUME MapInv, LinkInv, issued' = issued, NEW m \in MapServers,
           ReceiveChangeServerAck(m)
    PROVE  MapInv' /\ LinkInv'
<1> DEFINE msg == Head(toMap[m])
           a == msg.account_id
           s == sess[m][a]
           offer == [via |-> "0092", account_id |-> a, char_id |-> msg.char_id,
                     login |-> << s.login[1], 0 >>, srv |-> msg.to]
           closing == WaitClose(s)
<1>1. /\ msg \in SoundCharPackets
      /\ msg.type = "2b06"
      /\ toMap' \in [MapServers -> Seq(SoundCharPackets)]
    BY HeadFromChar DEF ReceiveChangeServerAck
<1>2. /\ a \in Accounts
      /\ msg.char_id \in Characters
      /\ msg.char_id \in Owned(a)
      /\ msg.to \in MapServers
    BY <1>1, FieldsToMap
<1> HIDE DEF msg
<1>3. ASSUME Online(m, a)
      PROVE  closing \in SessionsOf(a) /\ offer \in KnownOffers
    <2>1. s \in Sessions /\ Known(a, s.login)
        BY <1>2, <1>3, SessionType DEF MapInv
    <2>2. << s.login[1], 0 >> \in Logins /\ Known(a, << s.login[1], 0 >>)
        BY <2>1 DEF Sessions, Logins, Known
    <2>3. offer \in KnownOffers
        BY <1>2, <2>2 DEF KnownOffers, Offers, Known
    <2> QED
        BY <1>2, <1>3, <2>3, WaitCloseType
<1>4. CASE Online(m, a) /\ Update(m, a, closing) /\ UNCHANGED offers
    <2> HIDE DEF closing
    <2> QED
        BY <1>1, <1>2, <1>3, <1>4, UpdateType, SameLogins
           DEF MapInv, LinkInv, ReceiveChangeServerAck
<1>5. CASE Online(m, a) /\ offers' = offers \cup {offer} /\ UNCHANGED sess
    <2>1. offers' \in SUBSET KnownOffers
        BY <1>3, <1>5 DEF LinkInv
    <2>2. MapInv'
        BY <1>5, SameLogins DEF MapInv, ReceiveChangeServerAck
    <2>3. LinkInv'
        BY <1>1, <2>1, SameLogins DEF LinkInv, ReceiveChangeServerAck
    <2> QED
        BY <2>2, <2>3
<1>6. CASE UNCHANGED << sess, offers >>
    <2>1. MapInv'
        BY <1>6, SameLogins DEF MapInv, ReceiveChangeServerAck
    <2>2. LinkInv'
        BY <1>1, <1>6, SameLogins DEF LinkInv, ReceiveChangeServerAck
    <2> QED
        BY <2>1, <2>2
<1> QED
    BY <1>4, <1>5, <1>6 DEF ReceiveChangeServerAck, msg

LEMMA MapReadsStep ==
    ASSUME MapInv, LinkInv, issued' = issued, NEW m \in MapServers,
           HandleCharPacket(m)
    PROVE  MapInv' /\ LinkInv'
BY ConnectAckStep, MapAckStep, MapsOfOthersStep, PreauthAtMapStep, AuthOkStep,
   AuthFailStep, BanAtMapStep, CharSelectOkStep, ChangeServerAckStep
   DEF HandleCharPacket

-----------------------------------------------------------------------------
(* The steps of map server m: its clients and timers. *)

LEMMA ConnectMapStep ==
    ASSUME MapInv, LinkInv, issued' = issued, NEW o, ConnectMap(o)
    PROVE  MapInv' /\ LinkInv'
<1> DEFINE m == o.srv
           a == o.account_id
           new == [NoSession EXCEPT !.char_id = o.char_id, !.login = o.login]
           request == [type |-> "2afc", account_id |-> a,
                       char_id |-> o.char_id, login |-> o.login]
           closing == WaitClose(sess[m][a])
<1>1. /\ o \in KnownOffers
      /\ offers' \in SUBSET KnownOffers
    BY DEF LinkInv, ConnectMap
<1>2. /\ a \in Accounts
      /\ m \in MapServers
      /\ o.char_id \in Characters
      /\ o.char_id \in Owned(a)
      /\ o.login \in Logins
      /\ Known(a, o.login)
    BY <1>1 DEF KnownOffers, Offers, ConnectMap
<1>3. request \in SoundMapPackets
    BY <1>2 DEF SoundMapPackets, MapPackets, Known
<1>4. new \in SessionsOf(a)
    <2>1. NoSession \in Sessions /\ ~NoSession.auth
        BY <1>2, SessionType DEF NoSession
    <2>2. /\ new \in Sessions
          /\ new.char_id = o.char_id
          /\ new.login = o.login
          /\ ~new.auth
        BY <1>2, <2>1 DEF Sessions, AnyChar
    <2> HIDE DEF new
    <2> QED
        BY <1>2, <2>2 DEF SessionsOf, Known
<1>5. map_fifo' \in [MapServers -> [MapRing -> Entries]]
    <2>1. ASSUME NEW i \in MapRing
          PROVE  [map_fifo EXCEPT ![m][i].delflag = 1]
                    \in [MapServers -> [MapRing -> Entries]]
        <3>1. map_fifo[m][i] \in Entries
            BY <1>2 DEF MapInv
        <3>2. [map_fifo[m][i] EXCEPT !.delflag = 1] \in Entries
            BY <3>1 DEF Entries
        <3> QED
            BY <1>2, <3>2 DEF MapInv
    <2> DEFINE expected == {i \in MapRing :
                               /\ map_fifo[m][i].account_id = a
                               /\ map_fifo[m][i].char_id = o.char_id
                               /\ map_fifo[m][i].login = o.login
                               /\ map_fifo[m][i].delflag = 0}
               i == CHOOSE j \in expected : \A k \in expected : j <= k
    <2>2. expected # {} => i \in MapRing
        <3>1. expected \subseteq Nat
            BY DEF MapRing
        <3>2. i = First(expected)
            BY DEF First
        <3> HIDE DEF i
        <3> QED
            BY <3>1, <3>2, FirstIsFound
    <2>3. \/ UNCHANGED map_fifo
          \/ /\ expected # {}
             /\ map_fifo' = [map_fifo EXCEPT ![m][i].delflag = 1]
        BY DEF ConnectMap
    <2> HIDE DEF i, expected
    <2> QED
        BY <2>1, <2>2, <2>3 DEF MapInv
<1>6. CASE UNCHANGED << sess, toChar >>
    <2>1. UNCHANGED << chrif_state, map_fifo_iter, heard, server_session,
                       char_session, toMap >>
        BY DEF ConnectMap
    <2> QED
        BY <1>1, <1>5, <1>6, <2>1, SameLogins DEF MapInv, LinkInv
<1>7. CASE Online(m, a) /\ Update(m, a, closing) /\ UNCHANGED toChar
    <2>1. closing \in SessionsOf(a)
        BY <1>2, <1>7, WaitCloseType
    <2> HIDE DEF closing
    <2> QED
        BY <1>1, <1>2, <1>5, <1>7, <2>1, UpdateType, SameLogins
           DEF MapInv, LinkInv, ConnectMap
<1>8. CASE Update(m, a, new) /\ SendToChar(m, request)
    <2>1. toChar' \in [MapServers -> Seq(SoundMapPackets)]
        BY <1>2, <1>3, <1>8, SendType DEF LinkInv, SendToChar
    <2> HIDE DEF new
    <2> QED
        BY <1>1, <1>2, <1>4, <1>5, <1>8, <2>1, UpdateType, SameLogins
           DEF MapInv, LinkInv, ConnectMap
<1> QED
    BY <1>6, <1>7, <1>8 DEF ConnectMap

LEMMA PlayStep ==
    ASSUME MapInv, LinkInv, issued' = issued, NEW m \in MapServers,
           NEW a \in Accounts, Play(m, a)
    PROVE  MapInv' /\ LinkInv'
<1> DEFINE s == [sess[m][a] EXCEPT !.rev = @ + 1]
<1>1. sess[m][a] \in Sessions /\ Online(m, a) /\ Known(a, sess[m][a].login)
    BY SessionType DEF MapInv, Play
<1>2. /\ s \in Sessions
      /\ s.login = sess[m][a].login
      /\ s.char_id = sess[m][a].char_id
      /\ s.auth = sess[m][a].auth
      /\ s.key = sess[m][a].key
      /\ s.at = sess[m][a].at
    BY <1>1 DEF Sessions
<1>3. Update(m, a, s)
    BY DEF Play
<1> HIDE DEF s
<1>4. s \in SessionsOf(a)
    BY <1>1, <1>2, SessionKept
<1> QED
    BY <1>3, <1>4, UpdateType, SameLogins DEF MapInv, LinkInv, Play, linkVars

\* What a session in the game sends to be saved.
LEMMA SavePacketType ==
    ASSUME NEW a \in Accounts, NEW s \in SessionsOf(a), s.auth
    PROVE  SavePacket(a, s) \in SoundMapPackets
<1>1. /\ s.char_id \in Owned(a)
      /\ s.key \in Owned(a)
      /\ s.at \in MapServers
      /\ s.rev \in Nat
    BY DEF SessionsOf, Sessions, NoSession
<1> QED
    BY <1>1 DEF SavePacket, SoundMapPackets, MapPackets, Owned

LEMMA SaveAtMapStep ==
    ASSUME MapInv, LinkInv, issued' = issued, NEW m \in MapServers,
           NEW a \in Accounts, Save(m, a)
    PROVE  MapInv' /\ LinkInv'
<1>1. SavePacket(a, sess[m][a]) \in SoundMapPackets
    BY SessionType, SavePacketType DEF Save, InGame
<1>2. toChar' \in [MapServers -> Seq(SoundMapPackets)]
    BY <1>1, SendType DEF LinkInv, Save, SendToChar
<1> QED
    BY <1>2, SameLogins DEF MapInv, LinkInv, Save, mapVars

LEMMA CloseStep ==
    ASSUME MapInv, LinkInv, issued' = issued, NEW m \in MapServers,
           NEW a \in Accounts, CloseSession(m, a)
    PROVE  MapInv' /\ LinkInv'
<1>1. InGame(m, a) => SavePacket(a, sess[m][a]) \in SoundMapPackets
    BY SessionType, SavePacketType DEF InGame
<1>2. toChar' \in [MapServers -> Seq(SoundMapPackets)]
    <2>1. CASE InGame(m, a)
        <3>1. SendToChar(m, SavePacket(a, sess[m][a]))
            BY <2>1 DEF CloseSession
        <3> QED
            BY <1>1, <2>1, <3>1, SendType DEF LinkInv, SendToChar
    <2>2. CASE ~InGame(m, a)
        BY <2>2 DEF LinkInv, CloseSession
    <2> QED
        BY <2>1, <2>2
<1>3. NoSession \in SessionsOf(a) /\ Update(m, a, NoSession)
    BY SessionType DEF CloseSession
<1> QED
    BY <1>2, <1>3, UpdateType, SameLogins DEF MapInv, LinkInv, CloseSession

LEMMA ReturnStep ==
    ASSUME MapInv, LinkInv, issued' = issued, NEW m \in MapServers,
           NEW a \in Accounts, RequestCharSelect(m, a)
    PROVE  MapInv' /\ LinkInv'
<1> DEFINE request == [type |-> "2b02", account_id |-> a,
                       login |-> sess[m][a].login]
<1>1. sess[m][a] \in Sessions /\ Known(a, sess[m][a].login)
    BY SessionType DEF MapInv, RequestCharSelect
<1>2. request \in SoundMapPackets
    BY <1>1 DEF SoundMapPackets, MapPackets, Sessions, Known
<1>3. toChar' \in [MapServers -> Seq(SoundMapPackets)]
    BY <1>2, SendType DEF LinkInv, RequestCharSelect, SendToChar
<1> QED
    BY <1>3, SameLogins DEF MapInv, LinkInv, RequestCharSelect, mapVars

LEMMA WalkStep ==
    ASSUME MapInv, LinkInv, issued' = issued, NEW m \in MapServers,
           NEW a \in Accounts, NEW to \in MapServers, WalkToServer(m, a, to)
    PROVE  MapInv' /\ LinkInv'
<1> DEFINE s == [sess[m][a] EXCEPT !.at = to, !.waitingdisconnect = TRUE]
           request == [type |-> "2b05", account_id |-> a, char_id |-> s.key,
                       login |-> s.login, to |-> to]
<1>1. /\ sess[m][a] \in Sessions
      /\ InGame(m, a) /\ Online(m, a)
      /\ Known(a, sess[m][a].login)
      /\ sess[m][a].key \in Owned(a)
    BY SessionType DEF MapInv, WalkToServer
<1>2. /\ s \in Sessions
      /\ s.login = sess[m][a].login
      /\ s.char_id = sess[m][a].char_id
      /\ s.auth = sess[m][a].auth
      /\ s.key = sess[m][a].key
      /\ s.at = to
    BY <1>1 DEF Sessions
<1>3. Update(m, a, s)
    BY DEF WalkToServer
<1>4. \/ UNCHANGED toChar
      \/ toChar' = [toChar EXCEPT ![m] = @ \o << SavePacket(a, s), request >>]
    BY DEF WalkToServer
<1> HIDE DEF s
<1>5. s \in SessionsOf(a)
    BY <1>1, <1>2, SessionKept
<1>6. SavePacket(a, s) \in SoundMapPackets
    BY <1>1, <1>2, <1>5, SavePacketType DEF InGame
<1>7. request \in SoundMapPackets
    BY <1>1, <1>2 DEF SoundMapPackets, MapPackets, Sessions, Owned, Known
<1>8. toChar' \in [MapServers -> Seq(SoundMapPackets)]
    <2>1. toChar[m] \in Seq(SoundMapPackets)
        BY DEF LinkInv
    <2>2. << SavePacket(a, s), request >> \in Seq(SoundMapPackets)
        BY <1>6, <1>7
    <2>3. toChar[m] \o << SavePacket(a, s), request >> \in Seq(SoundMapPackets)
        BY <2>1, <2>2, ConcatProperties
    <2> QED
        BY <1>4, <2>3 DEF LinkInv
<1> QED
    BY <1>3, <1>5, <1>8, UpdateType, SameLogins
       DEF MapInv, LinkInv, WalkToServer

-----------------------------------------------------------------------------
(* The system. *)

LEMMA Stutters ==
    ASSUME issued' = issued
    PROVE  /\ CharInv /\ UNCHANGED charVars => CharInv'
           /\ MapInv /\ UNCHANGED mapVars => MapInv'
           /\ LinkInv /\ UNCHANGED linkVars => LinkInv'
BY SameLogins DEF CharInv, MapInv, LinkInv, charVars, mapVars, linkVars

LEMMA SpendStep ==
    ASSUME EnvInv, NEW kind \in Kinds, Spend(kind)
    PROVE  spent' \in [Kinds -> Nat]
BY DEF EnvInv, Spend

LEMMA LoginStep ==
    ASSUME IInv, NEW a \in Accounts, Login(a)
    PROVE  IInv'
<1> DEFINE n == spent["login"] + 1
<1>1. "login" \in Kinds
    BY DEF Kinds
<1>2. n \in Nat /\ spent' \in [Kinds -> Nat]
    BY <1>1, SpendStep DEF IInv, EnvInv, Login
<1>3. issued' = issued \cup {<< a, n >>} /\ PreauthFromLogin(a, << n, 0 >>)
    BY DEF Login
<1> HIDE DEF n
<1>4. CharInv' /\ LinkInv'
    BY <1>2, <1>3, PreauthStep DEF IInv
<1>5. MapInv'
    <2>1. \A b : SessionsOf(b) \subseteq SessionsOf(b)'
        BY <1>3, MoreLogins
    <2>2. UNCHANGED << chrif_state, map_fifo, map_fifo_iter, heard, sess >>
        BY DEF Login, mapVars
    <2> QED
        BY <2>1, <2>2 DEF IInv, MapInv
<1>6. EnvInv'
    BY <1>2, <1>3 DEF IInv, EnvInv
<1> QED
    BY <1>4, <1>5, <1>6 DEF IInv

LEMMA CharClientStep ==
    ASSUME IInv,
           \/ \E a \in Accounts : Ban(a)
           \/ \E k \in Conns : Connect(k) \/ Select(k) \/ Delete(k) \/ Create(k)
                               \/ Leave(k)
    PROVE  IInv'
<1>1. {"ban", "connect", "select", "delete", "create"} \subseteq Kinds
    BY DEF Kinds
<1>2. /\ issued' = issued
      /\ UNCHANGED mapVars
    BY DEF Ban, Connect, Select, Delete, Create, Leave
<1>3. EnvInv'
    <2>1. \/ \E kind \in Kinds : Spend(kind)
          \/ UNCHANGED spent
        BY <1>1 DEF Ban, Connect, Select, Delete, Create, Leave
    <2> QED
        BY <1>2, <2>1, SpendStep DEF IInv, EnvInv
<1>4. CharInv' /\ LinkInv'
    <2>1. CASE \E a \in Accounts : Ban(a)
        BY <1>2, <2>1, BanStep DEF IInv, Ban
    <2>2. ASSUME NEW k \in Conns, Connect(k)
          PROVE  CharInv' /\ LinkInv'
        <3>1. PICK pair \in issued, a \in Accounts, busy \in BOOLEAN :
                  ConnectChar(k, a, << pair[2], 0 >>, busy)
            BY <2>2 DEF Connect
        <3>2. << pair[2], 0 >> \in Logins
            BY DEF IInv, EnvInv, Logins
        <3> QED
            BY <1>2, <3>1, <3>2, ConnectStep DEF IInv
    <2>3. ASSUME NEW k \in Conns, Select(k)
          PROVE  CharInv' /\ LinkInv'
        BY <1>2, <2>3, SelectStep DEF IInv, Select
    <2>4. ASSUME NEW k \in Conns, Delete(k)
          PROVE  CharInv' /\ LinkInv'
        BY <1>2, <2>4, DeleteStep DEF IInv, Delete
    <2>5. ASSUME NEW k \in Conns, Create(k)
          PROVE  CharInv' /\ LinkInv'
        BY <1>2, <2>5, CreateStep DEF IInv, Create
    <2>6. ASSUME NEW k \in Conns, Leave(k)
          PROVE  CharInv' /\ LinkInv'
        BY <1>2, <2>6, LeaveStep DEF IInv, Leave
    <2> QED
        BY <2>1, <2>2, <2>3, <2>4, <2>5, <2>6
<1> QED
    BY <1>2, <1>3, <1>4, Stutters DEF IInv

LEMMA MapClientStep ==
    ASSUME IInv,
           \/ EnterMap
           \/ \E m \in MapServers, a \in Accounts :
                 \/ PlayOn(m, a) \/ SaveNow(m, a) \/ Close(m, a)
                 \/ Return(m, a) \/ Walk(m, a)
    PROVE  IInv'
<1>1. {"play", "save", "return", "walk"} \subseteq Kinds
    BY DEF Kinds
<1>2. /\ issued' = issued
      /\ UNCHANGED charVars
    BY DEF EnterMap, PlayOn, SaveNow, Close, Return, Walk
<1>3. EnvInv'
    <2>1. \/ \E kind \in Kinds : Spend(kind)
          \/ UNCHANGED spent
        BY <1>1 DEF EnterMap, PlayOn, SaveNow, Close, Return, Walk
    <2> QED
        BY <1>2, <2>1, SpendStep DEF IInv, EnvInv
<1>4. MapInv' /\ LinkInv'
    <2>1. CASE EnterMap
        BY <1>2, <2>1, ConnectMapStep DEF IInv, EnterMap
    <2>2. ASSUME NEW m \in MapServers, NEW a \in Accounts,
                 \/ PlayOn(m, a) \/ SaveNow(m, a) \/ Close(m, a)
                 \/ Return(m, a) \/ Walk(m, a)
          PROVE  MapInv' /\ LinkInv'
        BY <1>2, <2>2, PlayStep, SaveAtMapStep, CloseStep, ReturnStep, WalkStep
           DEF IInv, PlayOn, SaveNow, Close, Return, Walk
    <2> QED
        BY <2>1, <2>2
<1> QED
    BY <1>2, <1>3, <1>4, Stutters DEF IInv

LEMMA ServersStep ==
    ASSUME IInv, NEW m \in MapServers, Servers(m) \/ Break(m)
    PROVE  IInv'
<1>1. issued' = issued
    BY DEF Servers, Break, CharReads, MapReads, MapConnects, NoticeLoss
<1>2. EnvInv'
    <2>1. "break" \in Kinds
        BY DEF Kinds
    <2>2. Spend("break") \/ UNCHANGED spent
        BY DEF Servers, Break, CharReads, MapReads, MapConnects, NoticeLoss
    <2> QED
        BY <1>1, <2>1, <2>2, SpendStep DEF IInv, EnvInv
<1>3. CASE CharReads(m)
    BY <1>1, <1>2, <1>3, CharReadsStep, Stutters DEF IInv, CharReads
<1>4. CASE MapReads(m)
    BY <1>1, <1>2, <1>4, MapReadsStep, Stutters DEF IInv, MapReads
<1>5. CASE MapConnects(m)
    BY <1>1, <1>2, <1>5, ConnectToCharStep, Stutters DEF IInv, MapConnects
<1>6. CASE DeleteFromMap(m) /\ UNCHANGED mapVars
    BY <1>1, <1>2, <1>6, CharEndStep, Stutters DEF IInv
<1>7. CASE LoseChar(m) /\ UNCHANGED charVars
    BY <1>1, <1>2, <1>7, LoseCharStep, Stutters DEF IInv
<1>8. CASE Crash(m) /\ UNCHANGED charVars
    BY <1>1, <1>2, <1>8, CrashStep, Stutters DEF IInv
<1> QED
    BY <1>3, <1>4, <1>5, <1>6, <1>7, <1>8 DEF Servers, Break, NoticeLoss

LEMMA InitIInv == Init => IInv
<1> SUFFICES ASSUME Init
             PROVE  IInv
    OBVIOUS
<1>1. CharInv
    <2>1. char_keys \in Seq(OwnRecords)
        <3>1. Roster \in Seq(Records) /\ DOMAIN Roster = 1 .. Len(Roster)
            BY CharServerAssumption, LenProperties DEF Records
        <3>2. ASSUME NEW i \in 1 .. Len(Roster)
              PROVE  Roster[i] \in OwnRecords
            <4>1. Roster[i] \in Records
                BY <3>1, ElementOfSeq
            <4>2. Roster[i].account_id = Owner[Roster[i].char_id]
                BY <3>1, CharServerAssumption
            <4> QED
                BY <4>1, <4>2 DEF OwnRecords, Records, Owned
        <3>3. Len(Roster) \in Nat /\ Roster \in [1 .. Len(Roster) -> OwnRecords]
            BY <3>1, <3>2, LenProperties
        <3> QED
            BY <3>3 DEF Init, CharInit
    <2>2. used_ids \in SUBSET Characters
        <3>1. Roster \in Seq(Records) /\ DOMAIN Roster = 1 .. Len(Roster)
            BY CharServerAssumption, LenProperties DEF Records
        <3>2. \A i \in DOMAIN Roster : Roster[i] \in Records
            BY <3>1, ElementOfSeq
        <3> QED
            BY <3>2 DEF Init, CharInit, Records
    <2>3. EmptyEntry \in KnownEntries /\ Closed \in KnownConns
        BY DEF EmptyEntry, Closed, KnownEntries, KnownConns, Entries, ConnRecords,
               AnyChar, Logins, NoLogin
    <2>4. maps \in [MapServers -> BOOLEAN]
        BY GameAssumption DEF Init
    <2>5. /\ auth_fifo \in [Ring -> KnownEntries]
          /\ conns \in [Conns -> KnownConns]
        BY <2>3 DEF Init, CharInit
    <2>6. auth_fifo_iter \in 1 .. CharFifo + 1
        <3>1. auth_fifo_iter = 1
            BY DEF Init, CharInit
        <3>2. CharFifo \in Nat \ {0}
            BY CharServerAssumption
        <3> QED
            BY <3>1, <3>2
    <2>7. aborted \in BOOLEAN
        BY DEF Init, CharInit
    <2> QED
        BY <2>1, <2>2, <2>4, <2>5, <2>6, <2>7 DEF CharInv
<1>2. MapInv
    <2>1. FreeEntry \in Entries
        BY DEF FreeEntry, Entries, AnyChar, Logins, NoLogin
    <2>2. NoSession \in Sessions /\ ~NoSession.auth
        BY DEF NoSession, Sessions, AnyChar, Logins, NoLogin
    <2>3. \A a : NoSession \in SessionsOf(a)
        BY <2>2 DEF SessionsOf
    <2>4. /\ chrif_state \in [MapServers -> 0 .. 2]
          /\ heard \in [MapServers -> SUBSET MapServers]
        BY DEF Init
    <2>5. /\ map_fifo \in [MapServers -> [MapRing -> Entries]]
          /\ map_fifo_iter \in [MapServers -> 1 .. MapFifo + 1]
        BY <2>1, MapServerAssumption DEF Init, MapInit
    <2>6. sess = [m \in MapServers |-> [a \in Accounts |-> NoSession]]
        BY DEF Init, MapInit
    <2> QED
        BY <2>2, <2>3, <2>4, <2>5, <2>6 DEF MapInv
<1>3. LinkInv
    <2>1. << >> \in Seq(SoundCharPackets) /\ << >> \in Seq(SoundMapPackets)
        BY EmptySeq
    <2> QED
        BY <2>1, GameAssumption DEF LinkInv, Init, LinksInit
<1>4. EnvInv
    BY DEF EnvInv, Init
<1> QED
    BY <1>1, <1>2, <1>3, <1>4 DEF IInv

LEMMA NextIInv == IInv /\ [Next]_vars => IInv'
<1> SUFFICES ASSUME IInv, [Next]_vars
             PROVE  IInv'
    OBVIOUS
<1>1. ASSUME NEW a \in Accounts, Login(a)
      PROVE  IInv'
    BY <1>1, LoginStep
<1>2. CASE \/ \E a \in Accounts : Ban(a)
           \/ \E k \in Conns : Connect(k) \/ Select(k) \/ Delete(k) \/ Create(k)
                               \/ Leave(k)
    BY <1>2, CharClientStep
<1>3. CASE \/ EnterMap
           \/ \E m \in MapServers, a \in Accounts :
                 \/ PlayOn(m, a) \/ SaveNow(m, a) \/ Close(m, a)
                 \/ Return(m, a) \/ Walk(m, a)
    BY <1>3, MapClientStep
<1>4. ASSUME NEW m \in MapServers, Servers(m) \/ Break(m)
      PROVE  IInv'
    BY <1>4, ServersStep
<1>5. CASE UNCHANGED vars
    <2>1. EnvInv'
        BY <1>5 DEF IInv, EnvInv, vars
    <2>2. /\ issued' = issued
          /\ UNCHANGED charVars
          /\ UNCHANGED mapVars
          /\ UNCHANGED linkVars
        BY <1>5 DEF vars
    <2> QED
        BY <2>1, <2>2, Stutters DEF IInv
<1> QED
    BY <1>1, <1>2, <1>3, <1>4, <1>5 DEF Next

-----------------------------------------------------------------------------
(* The theorems. *)

LEMMA IInvHolds == Spec => []IInv
BY InitIInv, NextIInv, PTL DEF Spec

\* The variables of the servers always have their types.
THEOREM TypeCorrect == Spec => []TypeOK
<1>1. IInv => TypeOK
    <2> SUFFICES ASSUME IInv
                 PROVE  TypeOK
        OBVIOUS
    <2>1. char_keys \in Seq(Records)
        <3>1. OwnRecords \subseteq Records
            BY DEF OwnRecords
        <3> QED
            BY <3>1, SeqMonotonic DEF IInv, CharInv
    <2>2. /\ auth_fifo \in [Ring -> Entries]
          /\ conns \in [Conns -> ConnRecords]
        BY DEF IInv, CharInv, KnownEntries, KnownConns
    <2>3. /\ SoundCharPackets \subseteq CharPackets
          /\ SoundMapPackets \subseteq MapPackets
        BY DEF SoundCharPackets, SoundMapPackets
    <2>4. /\ toMap \in [MapServers -> Seq(CharPackets)]
          /\ toChar \in [MapServers -> Seq(MapPackets)]
        BY <2>3, SeqMonotonic DEF IInv, LinkInv
    <2>5. offers \in SUBSET Offers
        BY DEF IInv, LinkInv, KnownOffers
    <2> QED
        BY <2>1, <2>2, <2>4, <2>5
           DEF IInv, CharInv, MapInv, LinkInv, EnvInv, TypeOK
<1> QED
    BY <1>1, IInvHolds, PTL

\* Characters, accounts and logins stay together at every hop between the
\* servers, whatever connections break and in whatever order packets cross.
THEOREM AllBelongsTogether == Spec => []BelongsTogether
<1>1. IInv => BelongsTogether
    BY DEF IInv, CharInv, MapInv, LinkInv, BelongsTogether
<1> QED
    BY <1>1, IInvHolds, PTL

\* Nobody ever plays, or is handed, a character of another account.
THEOREM CharactersStayWithOwners == Spec => []OnlyOwnCharacters
<1>1. IInv => OnlyOwnCharacters
    <2> SUFFICES ASSUME IInv
                 PROVE  OnlyOwnCharacters
        OBVIOUS
    <2>1. ASSUME NEW m \in MapServers, NEW a \in Accounts, InGame(m, a)
          PROVE  sess[m][a].key \in Owned(a)
        BY <2>1, SessionType DEF IInv
    <2>2. ASSUME NEW i \in DOMAIN char_keys
          PROVE  char_keys[i].char_id \in Owned(char_keys[i].account_id)
        <3>1. char_keys[i] \in OwnRecords
            BY LenProperties, ElementOfSeq DEF IInv, CharInv
        <3> QED
            BY <3>1 DEF OwnRecords
    <2> QED
        BY <2>1, <2>2 DEF OnlyOwnCharacters
<1> QED
    BY <1>1, IInvHolds, PTL

\* Every player in the game, and every client at the character selection,
\* holds a login that the login server made for the player's account.
THEOREM AdmissionNeedsLogin == Spec => []AdmittedByLogin
<1>1. IInv => AdmittedByLogin
    <2> SUFFICES ASSUME IInv
                 PROVE  AdmittedByLogin
        OBVIOUS
    <2>1. ASSUME NEW m \in MapServers, NEW a \in Accounts, InGame(m, a)
          PROVE  << a, sess[m][a].login[1] >> \in issued
        BY <2>1, SessionType DEF IInv, Known
    <2>2. ASSUME NEW k \in Conns, conns[k].auth
          PROVE  << conns[k].account_id, conns[k].login[1] >> \in issued
        BY <2>2 DEF IInv, CharInv, KnownConns, Known
    <2> QED
        BY <2>1, <2>2 DEF AdmittedByLogin
<1> QED
    BY <1>1, IInvHolds, PTL

-----------------------------------------------------------------------------
(* One session for each login.  As long as nobody has asked to go back to the *)
(* character selection, a login is either in one unused entry of auth_fifo or  *)
(* with one client, and no packet under way makes another entry for it.        *)

OtherPackets == {p \in MapPackets : p.type # "2b02"}

Unused(i) == auth_fifo[i].delflag = 2

UsedOnce ==
    /\ \A i \in Ring : Unused(i) => auth_fifo[i].login[1] <= spent["login"]
    /\ \A i, j \in Ring :
          Unused(i) /\ Unused(j) /\ auth_fifo[i].login = auth_fifo[j].login => i = j
    /\ \A i \in Ring, k \in Conns :
          Unused(i) /\ conns[k].auth => auth_fifo[i].login # conns[k].login
    /\ \A j, k \in Conns :
          conns[j].auth /\ conns[k].auth /\ conns[j].login = conns[k].login => j = k

IssuedInOrder == \A pair \in issued : pair[2] <= spent["login"]

OnceInv ==
    /\ IssuedInOrder
    /\ spent["return"] = 0 => /\ toChar \in [MapServers -> Seq(OtherPackets)]
                              /\ UsedOnce

\* Nothing is used twice by a step that adds neither an unused entry nor a session.
LEMMA UsedOnceStays ==
    ASSUME UsedOnce, spent["login"] \in Nat, spent'["login"] \in Nat,
           spent["login"] <= spent'["login"], auth_fifo' \in [Ring -> Entries],
           auth_fifo \in [Ring -> Entries],
           \A i \in Ring : Unused(i)' => /\ Unused(i)
                                         /\ auth_fifo'[i].login = auth_fifo[i].login,
           \A k \in Conns : conns'[k].auth => /\ conns[k].auth
                                              /\ conns'[k].login = conns[k].login
    PROVE  UsedOnce'
<1>1. \A i \in Ring : Unused(i)' => auth_fifo'[i].login[1] <= spent'["login"]
  <2> SUFFICES ASSUME NEW i \in Ring, Unused(i)'
               PROVE  auth_fifo'[i].login[1] <= spent'["login"]
      OBVIOUS
  <2>1. auth_fifo[i].login[1] <= spent["login"] /\ auth_fifo[i].login \in Nat \X Nat
      BY DEF UsedOnce, Entries, Logins
  <2>2. auth_fifo[i].login[1] \in Nat
      BY <2>1
  <2> QED
      BY <2>1, <2>2
<1> QED
    BY <1>1 DEF UsedOnce, Unused

\* The packets to the char server, but for the one that asks to go back.
LEMMA OtherPacketsStay ==
    ASSUME IInv, Next, spent'["return"] = 0, spent["return"] = 0,
           toChar \in [MapServers -> Seq(OtherPackets)]
    PROVE  toChar' \in [MapServers -> Seq(OtherPackets)]
<1> DEFINE Good == toChar' \in [MapServers -> Seq(OtherPackets)]
<1>1. SoundMapPackets \subseteq MapPackets
    BY DEF SoundMapPackets
<1>2. ASSUME NEW m \in MapServers, NEW msg \in SoundMapPackets, msg.type # "2b02",
             SendToChar(m, msg)
      PROVE  Good
  <2>1. msg \in OtherPackets
      BY <1>1, <1>2 DEF OtherPackets
  <2> QED
      BY <1>2, <2>1, SendType DEF SendToChar
<1>3. ASSUME NEW m \in MapServers, HandleMapPacket(m)
      PROVE  Good
  <2>1. toChar[m] # << >> /\ ReadFromMap(m)
      BY <1>3 DEF HandleMapPacket, AcceptMapServer, ReceiveMaps, ReceivePreauthAck,
                  ReceiveAuthRequest, ReceiveSave, ReceiveCharSelect,
                  ReceiveChangeServer, FromMap, ReadFromMapAndReply
  <2> QED
      BY <2>1, ReadType DEF ReadFromMap
<1>4. ASSUME NEW m \in MapServers, HandleCharPacket(m)
      PROVE  Good
  <2>1. CASE ReceiveConnectAck(m)
    <3>1. [type |-> "2afa"] \in SoundMapPackets
        BY DEF SoundMapPackets, MapPackets
    <3> QED
        BY <1>2, <2>1, <3>1 DEF ReceiveConnectAck, ReadFromCharAndReply
  <2>2. CASE ReceivePreauth(m)
    <3> DEFINE msg == Head(toMap[m])
               ack == [msg EXCEPT !.type = "3830"]
    <3>1. msg \in SoundCharPackets /\ msg.type = "3829" /\ SendToChar(m, ack)
        BY <2>2, HeadFromChar DEF IInv, ReceivePreauth, ReadFromCharAndReply
    <3>2. /\ msg.account_id \in Accounts
          /\ msg.char_id \in Characters
          /\ msg.char_id \in Owned(msg.account_id)
          /\ msg.login \in Logins
          /\ Known(msg.account_id, msg.login)
          /\ ack = [type |-> "3830", account_id |-> msg.account_id,
                    char_id |-> msg.char_id, login |-> msg.login]
        BY <3>1, FieldsToMap
    <3>3. ack \in SoundMapPackets /\ ack.type # "2b02"
        BY <3>2 DEF SoundMapPackets, MapPackets, Known
    <3> QED
        BY <1>2, <3>1, <3>3
  <2>3. CASE UNCHANGED toChar
      BY <2>3
  <2> QED
      BY <1>4, <2>1, <2>2, <2>3
         DEF HandleCharPacket, ReceiveMapAck, ReceiveAuthOk, ReceiveAuthFail, ReceiveBan,
             ReceiveCharSelectOk, ReceiveChangeServerAck, ReceiveMapsOfOthers
<1>5. ASSUME NEW o, ConnectMap(o)
      PROVE  Good
  <2> DEFINE request == [type |-> "2afc", account_id |-> o.account_id,
                         char_id |-> o.char_id, login |-> o.login]
  <2>1. o \in KnownOffers /\ o.srv \in MapServers
      BY <1>5 DEF IInv, LinkInv, ConnectMap, KnownOffers, Offers
  <2>2. request \in SoundMapPackets /\ request.type # "2b02"
      BY <2>1 DEF KnownOffers, Offers, SoundMapPackets, MapPackets, Known
  <2>3. UNCHANGED toChar \/ SendToChar(o.srv, request)
      BY <1>5 DEF ConnectMap
  <2> QED
      BY <1>2, <2>1, <2>2, <2>3
<1>6. ASSUME NEW m \in MapServers, NEW a \in Accounts, NEW s \in SessionsOf(a), s.auth
      PROVE  SavePacket(a, s) \in OtherPackets
    BY <1>1, <1>6, SavePacketType DEF OtherPackets, SavePacket
<1>7. ASSUME NEW m \in MapServers, NEW a \in Accounts, InGame(m, a),
             SendToChar(m, SavePacket(a, sess[m][a]))
      PROVE  Good
  <2>1. SavePacket(a, sess[m][a]) \in OtherPackets
      BY <1>6, <1>7, SessionType DEF IInv, InGame
  <2> QED
      BY <1>7, <2>1, SendType DEF SendToChar
<1>8. ASSUME NEW m \in MapServers, NEW a \in Accounts, NEW to \in MapServers,
             WalkToServer(m, a, to)
      PROVE  Good
  <2> DEFINE s == [sess[m][a] EXCEPT !.at = to, !.waitingdisconnect = TRUE]
             request == [type |-> "2b05", account_id |-> a, char_id |-> s.key,
                         login |-> s.login, to |-> to]
  <2>1. /\ sess[m][a] \in Sessions /\ InGame(m, a) /\ Online(m, a)
        /\ Known(a, sess[m][a].login) /\ sess[m][a].key \in Owned(a)
      BY <1>8, SessionType DEF IInv, MapInv, WalkToServer
  <2>2. /\ s \in Sessions
        /\ s.login = sess[m][a].login
        /\ s.char_id = sess[m][a].char_id
        /\ s.auth = sess[m][a].auth
        /\ s.key = sess[m][a].key
        /\ s.at = to
      BY <2>1 DEF Sessions
  <2>3. \/ UNCHANGED toChar
        \/ toChar' = [toChar EXCEPT ![m] = @ \o << SavePacket(a, s), request >>]
      BY <1>8 DEF WalkToServer
  <2> HIDE DEF s
  <2>4. s \in SessionsOf(a)
      BY <2>1, <2>2, SessionKept DEF IInv
  <2>5. SavePacket(a, s) \in OtherPackets
      BY <1>6, <2>1, <2>2, <2>4 DEF InGame
  <2>6. request \in OtherPackets
      BY <2>1, <2>2 DEF OtherPackets, MapPackets, Sessions, Owned
  <2>7. toChar[m] \o << SavePacket(a, s), request >> \in Seq(OtherPackets)
      BY <2>5, <2>6, ConcatProperties
  <2> QED
      BY <2>3, <2>7
<1>9. ASSUME NEW m \in MapServers, DeleteFromMap(m)
      PROVE  Good
    BY <1>9, CharEndType DEF IInv, LinkInv, DeleteFromMap
<1>10. ASSUME NEW m \in MapServers, LoseChar(m) \/ Crash(m)
       PROVE  Good
    BY <1>10, MapEndCloseType DEF IInv, LinkInv, LoseChar, Crash
<1>11. ASSUME NEW m \in MapServers, ConnectToChar(m)
       PROVE  Good
  <2>1. << [type |-> "2af8"] >> \in Seq(OtherPackets)
      BY DEF OtherPackets, MapPackets
  <2> QED
      BY <1>11, <2>1 DEF ConnectToChar
<1>12. ASSUME NEW m \in MapServers, Servers(m) \/ Break(m)
       PROVE  Good
    BY <1>3, <1>4, <1>9, <1>10, <1>11, <1>12
       DEF Servers, Break, CharReads, MapReads, MapConnects, NoticeLoss
<1>13. ASSUME NEW m \in MapServers, NEW a \in Accounts,
              \/ PlayOn(m, a) \/ SaveNow(m, a) \/ Close(m, a) \/ Walk(m, a)
       PROVE  Good
    BY <1>7, <1>8, <1>13
       DEF PlayOn, Play, SaveNow, Save, Close, CloseSession, Walk, linkVars
<1>14. ASSUME NEW m \in MapServers, NEW a \in Accounts
       PROVE  ~Return(m, a)
    BY DEF Return, Spend, Kinds, IInv, EnvInv
<1>15. CASE \/ \E a \in Accounts : Login(a) \/ Ban(a)
            \/ \E k \in Conns : Connect(k) \/ Select(k) \/ Delete(k) \/ Create(k)
                                \/ Leave(k)
    BY <1>15 DEF Login, Ban, Connect, Select, Delete, Create, Leave, PreauthFromLogin,
                 BanFromLogin, ConnectChar, SelectChar, DeleteChar, CreateChar, LeaveChar,
                 linkVars
<1>16. CASE EnterMap
    BY <1>5, <1>16 DEF EnterMap
<1> QED
    BY <1>12, <1>13, <1>14, <1>15, <1>16 DEF Next

\* A login that the login server makes has a number that nothing holds yet.
LEMMA LoginUsedOnce ==
    ASSUME IInv, IssuedInOrder, UsedOnce, NEW a \in Accounts, Login(a)
    PROVE  UsedOnce'
<1> DEFINE n == spent["login"] + 1
           entry == [account_id |-> a, char_id |-> NoChar,
                     login |-> << n, 0 >>, delflag |-> 2]
<1>1. spent["login"] \in Nat /\ spent'["login"] = n
    BY DEF Login, Spend, Kinds, IInv, EnvInv
<1>2. auth_fifo \in [Ring -> Entries] /\ conns' = conns
    BY DEF IInv, CharInv, KnownEntries, Login, PreauthFromLogin
<1>3. PICK at : auth_fifo' = [auth_fifo EXCEPT ![at] = entry]
    BY DEF Login, PreauthFromLogin, Enqueue
<1>4. ASSUME NEW i \in Ring
      PROVE  auth_fifo'[i] = IF i = at THEN entry ELSE auth_fifo[i]
    BY <1>2, <1>3
<1>5. ASSUME NEW i \in Ring, Unused(i)
      PROVE  auth_fifo[i].login \in Nat \X Nat /\ auth_fifo[i].login[1] <= spent["login"]
    BY <1>2, <1>5 DEF UsedOnce, Entries, Logins
<1>6. ASSUME NEW k \in Conns, conns[k].auth
      PROVE  conns[k].login \in Nat \X Nat /\ conns[k].login[1] <= spent["login"]
  <2>1. conns[k] \in ConnRecords /\ Known(conns[k].account_id, conns[k].login)
      BY <1>6 DEF IInv, CharInv, KnownConns
  <2> QED
      BY <2>1 DEF ConnRecords, Logins, Known, IssuedInOrder
<1>7. ASSUME NEW i \in Ring, Unused(i)'
      PROVE  IF i = at THEN auth_fifo'[i].login = << n, 0 >>
             ELSE Unused(i) /\ auth_fifo'[i].login = auth_fifo[i].login
    BY <1>4, <1>7 DEF Unused
<1>8. \A login \in Nat \X Nat : login[1] <= spent["login"] =>
          login # << n, 0 >> /\ login[1] <= n
  <2> SUFFICES ASSUME NEW login \in Nat \X Nat, login[1] <= spent["login"]
               PROVE  login # << n, 0 >> /\ login[1] <= n
      OBVIOUS
  <2>1. login[1] \in Nat /\ login[1] # n /\ login[1] <= n
      BY <1>1
  <2>2. << n, 0 >>[1] = n
      OBVIOUS
  <2> QED
      BY <2>1, <2>2
<1>9. \A i \in Ring : Unused(i)' => auth_fifo'[i].login[1] <= spent'["login"]
  <2> SUFFICES ASSUME NEW i \in Ring, Unused(i)'
               PROVE  auth_fifo'[i].login[1] <= n
      BY <1>1
  <2>1. CASE i = at
      BY <1>1, <1>7, <2>1
  <2>2. CASE i # at
      BY <1>5, <1>7, <1>8, <2>2
  <2> QED
      BY <2>1, <2>2
<1> HIDE DEF n
<1>10. \A i, j \in Ring : Unused(i)' /\ Unused(j)'
                          /\ auth_fifo'[i].login = auth_fifo'[j].login => i = j
    BY <1>5, <1>7, <1>8 DEF UsedOnce
<1>11. \A i \in Ring, k \in Conns :
           Unused(i)' /\ conns[k].auth => auth_fifo'[i].login # conns[k].login
    BY <1>5, <1>6, <1>7, <1>8 DEF UsedOnce
<1> QED
    BY <1>2, <1>9, <1>10, <1>11 DEF UsedOnce

\* 0x65 uses up the entry for the login that it lets in.
LEMMA ConnectUsedOnce ==
    ASSUME IInv, UsedOnce, NEW k \in Conns, Connect(k)
    PROVE  UsedOnce'
<1>1. PICK pair \in issued, a \in Accounts, busy \in BOOLEAN :
          ConnectChar(k, a, << pair[2], 0 >>, busy)
    BY DEF Connect
<1> DEFINE login == << pair[2], 0 >>
           found == LoginEntries(a, login)
           session == [account_id |-> a, login |-> login,
                       auth |-> ~busy, consumed_by |-> 0]
<1>2. /\ auth_fifo \in [Ring -> Entries]
      /\ conns \in [Conns -> ConnRecords]
      /\ spent["login"] \in Nat
      /\ spent'["login"] = spent["login"]
    BY DEF IInv, CharInv, KnownEntries, KnownConns, EnvInv, Kinds, Connect, Spend
<1>3. CASE found = {}
  <2>1. auth_fifo' = auth_fifo /\ conns' = [conns EXCEPT ![k] = Closed]
      BY <1>1, <1>3 DEF ConnectChar
  <2>2. ASSUME NEW j \in Conns, conns'[j].auth
        PROVE  conns[j].auth /\ conns'[j].login = conns[j].login
      BY <1>2, <2>1, <2>2 DEF Closed
  <2> QED
      BY <1>2, <2>1, <2>2, UsedOnceStays DEF Unused
<1>4. CASE found # {}
  <2> DEFINE used == First(found)
  <2>1. auth_fifo' = UseUp(used) /\ conns' = [conns EXCEPT ![k] = session]
      BY <1>1, <1>4 DEF ConnectChar
  <2>2. used \in Ring /\ Unused(used) /\ auth_fifo[used].login = login
    <3>1. found \subseteq Nat
        BY DEF LoginEntries, Ring
    <3>2. used \in found
        BY <1>4, <3>1, FirstIsFound
    <3> QED
        BY <3>2 DEF LoginEntries, Unused
  <2> HIDE DEF used, found
  <2>3. ASSUME NEW i \in Ring, Unused(i)'
        PROVE  i # used /\ Unused(i) /\ auth_fifo'[i].login = auth_fifo[i].login
    <3>1. auth_fifo'[i] = IF i = used THEN [auth_fifo[i] EXCEPT !.delflag = 1]
                                      ELSE auth_fifo[i]
        BY <1>2, <2>1, <2>2 DEF UseUp
    <3>2. [auth_fifo[i] EXCEPT !.delflag = 1].delflag = 1
        BY <1>2 DEF Entries
    <3> QED
        BY <2>3, <3>1, <3>2 DEF Unused
  <2>4. ASSUME NEW j \in Conns, conns'[j].auth
        PROVE  IF j = k THEN conns'[j].login = login
               ELSE conns[j].auth /\ conns'[j].login = conns[j].login
      BY <1>2, <2>1, <2>4
  <2>5. \A i \in Ring : Unused(i)' => auth_fifo'[i].login[1] <= spent'["login"]
      BY <1>2, <2>3 DEF UsedOnce
  <2>6. \A i, j \in Ring : Unused(i)' /\ Unused(j)'
                           /\ auth_fifo'[i].login = auth_fifo'[j].login => i = j
      BY <2>3 DEF UsedOnce
  <2>7. \A i \in Ring, j \in Conns :
            Unused(i)' /\ conns'[j].auth => auth_fifo'[i].login # conns'[j].login
      BY <2>2, <2>3, <2>4 DEF UsedOnce
  <2>8. \A i, j \in Conns : conns'[i].auth /\ conns'[j].auth
                            /\ conns'[i].login = conns'[j].login => i = j
      BY <2>2, <2>4 DEF UsedOnce
  <2> QED
      BY <2>5, <2>6, <2>7, <2>8 DEF UsedOnce
<1> QED
    BY <1>3, <1>4

\* The other steps make no unused entry, but for 0x2b02, and no session.
LEMMA OthersUseOnce ==
    ASSUME IInv, IInv', Next, spent["return"] = 0, UsedOnce,
           toChar \in [MapServers -> Seq(OtherPackets)],
           \A a \in Accounts : ~Login(a), \A k \in Conns : ~Connect(k)
    PROVE  UsedOnce'
<1>1. /\ auth_fifo \in [Ring -> Entries]
      /\ auth_fifo' \in [Ring -> Entries]
      /\ conns \in [Conns -> ConnRecords]
    BY DEF IInv, CharInv, KnownEntries, KnownConns
<1>2. spent["login"] \in Nat /\ spent'["login"] = spent["login"]
  <2>1. UNCHANGED spent \/ \E kind \in Kinds \ {"login"} : Spend(kind)
      BY DEF Next, Kinds, Ban, Select, Delete, Create, Leave, EnterMap, PlayOn, SaveNow,
             Close, Return, Walk, Servers, CharReads, MapReads, MapConnects, NoticeLoss,
             Break
  <2> QED
      BY <2>1 DEF IInv, EnvInv, Kinds, Spend
<1> DEFINE Fewer == \A i \in Ring : Unused(i)' =>
                       Unused(i) /\ auth_fifo'[i].login = auth_fifo[i].login
           Closing == \A k \in Conns : conns'[k].auth =>
                       conns[k].auth /\ conns'[k].login = conns[k].login
<1>3. auth_fifo' = auth_fifo => Fewer
    BY DEF Unused
<1>4. conns' = conns => Closing
    OBVIOUS
<1>5. ASSUME NEW k \in Conns, conns' = [conns EXCEPT ![k] = Closed]
      PROVE  Closing
    BY <1>1, <1>5 DEF Closed
<1>6. ASSUME NEW i, NEW entry, entry.delflag # 2, auth_fifo' = [auth_fifo EXCEPT ![i] = entry]
      PROVE  Fewer
    BY <1>1, <1>6 DEF Unused
<1>7. ASSUME NEW at, auth_fifo' = UseUp(at)
      PROVE  Fewer
  <2> SUFFICES ASSUME NEW i \in Ring, auth_fifo'[i].delflag = 2
               PROVE  /\ auth_fifo[i].delflag = 2
                      /\ auth_fifo'[i].login = auth_fifo[i].login
      BY DEF Unused
  <2> DEFINE spoilt == [auth_fifo[i] EXCEPT !.delflag = 1]
  <2>1. auth_fifo'[i] = IF i = at THEN spoilt ELSE auth_fifo[i]
      BY <1>1, <1>7 DEF UseUp
  <2>2. spoilt.delflag = 1
      BY <1>1 DEF Entries
  <2> HIDE DEF spoilt
  <2> QED
      BY <2>1, <2>2
<1> HIDE DEF Fewer, Closing
<1>8. ASSUME NEW m \in MapServers, HandleMapPacket(m)
      PROVE  Fewer /\ Closing
  <2>1. CASE AcceptMapServer(m) \/ ReceiveMaps(m) \/ ReceiveSave(m)
      BY <1>3, <1>4, <2>1 DEF AcceptMapServer, ReceiveMaps, ReceiveSave
  <2>2. CASE ReceivePreauthAck(m)
    <3> DEFINE msg == Head(toChar[m])
               entry == [account_id |-> msg.account_id, char_id |-> msg.char_id,
                         login |-> msg.login, delflag |-> 3]
    <3>1. /\ auth_fifo' = auth_fifo \/ Enqueue(entry)
          /\ \/ conns' = conns
             \/ \E k \in Conns : conns' = [conns EXCEPT ![k].consumed_by = @ + 1]
        BY <2>2 DEF ReceivePreauthAck
    <3>2. Fewer
      <4>1. entry.delflag # 2
          OBVIOUS
      <4> QED
          BY <1>3, <1>6, <3>1, <4>1 DEF Enqueue
    <3>3. ASSUME NEW k \in Conns, conns' = [conns EXCEPT ![k].consumed_by = @ + 1]
          PROVE  Closing
        BY <1>1, <3>3 DEF Closing, ConnRecords
    <3> QED
        BY <1>4, <3>1, <3>2, <3>3
  <2>3. CASE ReceiveAuthRequest(m)
    <3>1. /\ auth_fifo' = auth_fifo \/ \E i : auth_fifo' = UseUp(i)
          /\ conns' = conns
        BY <2>3 DEF ReceiveAuthRequest
    <3> QED
        BY <1>3, <1>4, <1>7, <3>1
  <2>4. ~ReceiveCharSelect(m)
    <3>1. SUFFICES ASSUME FromMap(m, "2b02")
                   PROVE  FALSE
        BY DEF ReceiveCharSelect
    <3>2. Head(toChar[m]) \in OtherPackets
        BY <3>1, ReadType DEF FromMap
    <3> QED
        BY <3>1, <3>2 DEF FromMap, OtherPackets
  <2>5. CASE ReceiveChangeServer(m)
    <3> DEFINE entry == [account_id |-> Head(toChar[m]).account_id,
                         char_id |-> Head(toChar[m]).char_id,
                         login |-> Head(toChar[m]).login, delflag |-> 0]
    <3>1. /\ auth_fifo' = [auth_fifo EXCEPT ![Slot] = entry]
          /\ conns' = conns
        BY <2>5 DEF ReceiveChangeServer
    <3>2. entry.delflag # 2
        OBVIOUS
    <3> QED
        BY <1>4, <1>6, <3>1, <3>2
  <2> QED
      BY <1>8, <2>1, <2>2, <2>3, <2>4, <2>5 DEF HandleMapPacket
<1>9. ASSUME NEW a \in Accounts, Ban(a)
      PROVE  Fewer /\ Closing
  <2>1. conns' = conns \/ \E k \in Conns : conns' = [conns EXCEPT ![k] = Closed]
      BY <1>9 DEF Ban, BanFromLogin, DisconnectPlayer
  <2> QED
      BY <1>3, <1>4, <1>5, <1>9, <2>1 DEF Ban, BanFromLogin
<1>10. ASSUME NEW k \in Conns, Select(k)
      PROVE  Fewer /\ Closing
  <2>1. /\ auth_fifo' = auth_fifo
        /\ conns' = conns \/ conns' = [conns EXCEPT ![k] = StartCount(@)]
      BY <1>10 DEF Select, SelectChar
  <2>2. conns' = [conns EXCEPT ![k] = StartCount(@)] => Closing
      BY <1>1 DEF Closing, StartCount, ConnRecords
  <2> QED
      BY <1>3, <1>4, <2>1, <2>2
<1>11. ASSUME NEW k \in Conns, Delete(k) \/ Create(k) \/ Leave(k)
       PROVE  Fewer /\ Closing
    BY <1>3, <1>4, <1>5, <1>11
       DEF Delete, DeleteChar, Create, CreateChar, Leave, LeaveChar
<1>12. ASSUME NEW m \in MapServers, DeleteFromMap(m)
       PROVE  Fewer /\ Closing
    BY <1>3, <1>4, <1>12 DEF DeleteFromMap
<1>13. ASSUME UNCHANGED charVars
       PROVE  Fewer /\ Closing
    BY <1>3, <1>4, <1>13 DEF charVars
<1>14. Fewer /\ Closing
  <2>1. ASSUME NEW m \in MapServers, Servers(m) \/ Break(m)
        PROVE  Fewer /\ Closing
      BY <1>8, <1>12, <1>13, <2>1
         DEF Servers, Break, CharReads, MapReads, MapConnects, NoticeLoss
  <2>2. ASSUME \/ EnterMap
               \/ \E m \in MapServers, a \in Accounts :
                     \/ PlayOn(m, a) \/ SaveNow(m, a) \/ Close(m, a)
                     \/ Return(m, a) \/ Walk(m, a)
        PROVE  UNCHANGED charVars
      BY <2>2 DEF EnterMap, PlayOn, SaveNow, Close, Return, Walk
  <2> QED
      BY <1>9, <1>10, <1>11, <1>13, <2>1, <2>2 DEF Next
<1> QED
    BY <1>1, <1>2, <1>14, UsedOnceStays DEF Fewer, Closing

LEMMA NextOnceInv == IInv /\ IInv' /\ OnceInv /\ [Next]_vars => OnceInv'
<1> SUFFICES ASSUME IInv, IInv', OnceInv, [Next]_vars
             PROVE  OnceInv'
    OBVIOUS
<1>1. CASE UNCHANGED vars
    BY <1>1 DEF vars, charVars, linkVars, OnceInv, IssuedInOrder, UsedOnce, Unused
<1>2. CASE Next
  <2>1. /\ spent["return"] \in Nat /\ spent'["return"] \in Nat
        /\ spent["return"] <= spent'["return"]
        /\ spent["login"] \in Nat /\ spent'["login"] \in Nat
        /\ spent["login"] <= spent'["login"]
    <3>1. UNCHANGED spent \/ \E kind \in Kinds : Spend(kind)
        BY <1>2
           DEF Next, Kinds, Login, Ban, Connect, Select, Delete, Create, Leave, EnterMap,
               PlayOn, SaveNow, Close, Return, Walk, Servers, CharReads, MapReads,
               MapConnects, NoticeLoss, Break
    <3> QED
        BY <3>1 DEF IInv, EnvInv, Kinds, Spend
  <2>2. IssuedInOrder'
    <3>1. \/ issued' = issued
          \/ \E a \in Accounts : /\ issued' = issued \cup {<< a, spent["login"] + 1 >>}
                                 /\ Spend("login")
        BY <1>2
           DEF Next, Login, Ban, Connect, Select, Delete, Create, Leave, EnterMap,
               PlayOn, SaveNow, Close, Return, Walk, Servers, CharReads, MapReads,
               MapConnects, NoticeLoss, Break
    <3>2. issued \subseteq Accounts \X Nat
        BY DEF IInv, EnvInv
    <3>3. CASE issued' = issued
      <4> SUFFICES ASSUME NEW pair \in issued
                   PROVE  pair[2] <= spent'["login"]
          BY <3>3 DEF IssuedInOrder
      <4>1. pair[2] \in Nat /\ pair[2] <= spent["login"]
          BY <3>2 DEF OnceInv, IssuedInOrder
      <4> QED
          BY <2>1, <4>1
    <3>4. ASSUME NEW a \in Accounts, issued' = issued \cup {<< a, spent["login"] + 1 >>},
                 Spend("login")
          PROVE  IssuedInOrder'
      <4>1. spent'["login"] = spent["login"] + 1
          BY <3>4 DEF IInv, EnvInv, Kinds, Spend
      <4> SUFFICES ASSUME NEW pair \in issued'
                   PROVE  pair[2] <= spent["login"] + 1
          BY <4>1 DEF IssuedInOrder
      <4>2. CASE pair \in issued
        <5>1. pair[2] \in Nat /\ pair[2] <= spent["login"]
            BY <3>2, <4>2 DEF OnceInv, IssuedInOrder
        <5> QED
            BY <2>1, <5>1
      <4>3. CASE pair = << a, spent["login"] + 1 >>
          BY <2>1, <4>3
      <4> QED
          BY <3>4, <4>2, <4>3
    <3> QED
        BY <3>1, <3>3, <3>4
  <2>3. ASSUME spent'["return"] = 0
        PROVE  toChar' \in [MapServers -> Seq(OtherPackets)] /\ UsedOnce'
    <3>1. /\ spent["return"] = 0 /\ IssuedInOrder
          /\ toChar \in [MapServers -> Seq(OtherPackets)] /\ UsedOnce
        BY <2>1, <2>3 DEF OnceInv
    <3>2. toChar' \in [MapServers -> Seq(OtherPackets)]
        BY <1>2, <2>3, <3>1, OtherPacketsStay
    <3>3. UsedOnce'
        BY <1>2, <3>1, LoginUsedOnce, ConnectUsedOnce, OthersUseOnce
    <3> QED
        BY <3>2, <3>3
  <2> QED
      BY <2>2, <2>3 DEF OnceInv
<1> QED
    BY <1>1, <1>2

LEMMA InitOnceInv == Init => OnceInv
<1> SUFFICES ASSUME Init
             PROVE  OnceInv
    OBVIOUS
<1>1. << >> \in Seq(OtherPackets)
    BY EmptySeq
<1>2. toChar \in [MapServers -> Seq(OtherPackets)]
    BY <1>1 DEF Init, LinksInit
<1>3. \A i \in Ring : ~Unused(i)
    BY DEF Init, CharInit, Unused, EmptyEntry
<1>4. \A k \in Conns : ~conns[k].auth
    BY DEF Init, CharInit, Closed
<1>5. IssuedInOrder
    BY DEF Init, IssuedInOrder
<1> QED
    BY <1>2, <1>3, <1>4, <1>5 DEF OnceInv, UsedOnce

\* Until somebody has gone back to the character selection, no login has two
\* clients there: 0x65 marks the entry that it lets a client in by.
THEOREM LoginsAreUsedOnce == Spec => []LoginOpensOneSession
<1>1. IInv /\ OnceInv => LoginOpensOneSession
  <2> SUFFICES ASSUME OnceInv, NEW j \in Conns, NEW k \in Conns, j # k,
                      conns[j].auth, conns[k].auth, conns[j].login = conns[k].login,
                      ~(spent["return"] > 0), IInv
               PROVE  FALSE
      BY DEF LoginOpensOneSession
  <2>1. spent["return"] = 0
      BY DEF IInv, EnvInv, Kinds
  <2> QED
      BY <2>1 DEF OnceInv, UsedOnce
<1> QED
    BY <1>1, InitIInv, NextIInv, InitOnceInv, NextOnceInv, PTL DEF Spec
=============================================================================
