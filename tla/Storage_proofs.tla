--------------------------- MODULE Storage_proofs ---------------------------
(***************************************************************************)
(* Proofs about Storage for any servers, accounts and characters: its      *)
(* types, and that a session only moves items of a storage in use.  With   *)
(* one map server, that what it has never becomes older, that what is      *)
(* closed has been saved, and that a character and its storage are saved   *)
(* together.                                                               *)
(***************************************************************************)
EXTENDS Storage, SequenceTheorems, FiniteSetTheorems, WellFoundedInduction, TLAPS

(* The queues of packets keep their types, whatever is sent, read and lost. *)

\* A packet that is sent keeps the queue one of packets of the same kind.
LEMMA SentType ==
    ASSUME NEW P, NEW queue \in [MapServers -> Seq(P)], NEW m \in MapServers,
           NEW msg \in P
    PROVE  Sent(queue, m, msg) \in Seq(P)
BY AppendProperties DEF Sent

LEMMA SendType ==
    ASSUME NEW P, NEW queue \in [MapServers -> Seq(P)], NEW m \in MapServers,
           NEW msg \in P
    PROVE  [queue EXCEPT ![m] = Sent(queue, m, msg)] \in [MapServers -> Seq(P)]
BY SentType

LEMMA ReadType ==
    ASSUME NEW P, NEW queue \in [MapServers -> Seq(P)], NEW m \in MapServers,
           queue[m] # << >>
    PROVE  /\ [queue EXCEPT ![m] = Tail(@)] \in [MapServers -> Seq(P)]
           /\ Head(queue[m]) \in P
<1>1. queue[m] \in Seq(P)
    OBVIOUS
<1>2. Tail(queue[m]) \in Seq(P) /\ Head(queue[m]) \in P
    BY <1>1, HeadTailProperties
<1> QED
    BY <1>2

LEMMA StillDeliveredType ==
    ASSUME NEW P, NEW queue \in [MapServers -> Seq(P)], NEW m \in MapServers,
           NEW stays \in BOOLEAN
    PROVE  StillDelivered(queue, m, stays) \subseteq Seq(P)
<1>1. queue[m] \in Seq(P)
    OBVIOUS
<1>2. ASSUME NEW k \in 0 .. Len(queue[m])
      PROVE  SubSeq(queue[m], 1, k) \in Seq(P)
    <2>1. \A i \in 1 .. k : queue[m][i] \in P
        BY <1>1, LenProperties, ElementOfSeq
    <2> QED
        BY <1>1, <2>1, LenProperties, SubSeqProperties
<1>3. << >> \in Seq(P)
    BY EmptySeq
<1> QED
    BY <1>2, <1>3 DEF StillDelivered

LEMMA CharEndType ==
    ASSUME NEW P, NEW Q, toMap \in [MapServers -> Seq(P)],
           toChar \in [MapServers -> Seq(Q)],
           server_session \in [MapServers -> BOOLEAN],
           char_session \in [MapServers -> BOOLEAN],
           NEW m \in MapServers, CharEndCloses(m)
    PROVE  /\ toMap' \in [MapServers -> Seq(P)]
           /\ toChar' \in [MapServers -> Seq(Q)]
           /\ server_session' \in [MapServers -> BOOLEAN]
           /\ char_session' \in [MapServers -> BOOLEAN]
<1>1. char_session[m] \in BOOLEAN
    OBVIOUS
<1>2. PICK rest \in Seq(P) : toMap' = [toMap EXCEPT ![m] = rest]
    BY <1>1, StillDeliveredType DEF CharEndCloses
<1>3. << >> \in Seq(Q)
    BY EmptySeq
<1> QED
    BY <1>2, <1>3 DEF CharEndCloses

LEMMA MapEndCloseType ==
    ASSUME NEW P, NEW Q, toMap \in [MapServers -> Seq(P)],
           toChar \in [MapServers -> Seq(Q)],
           server_session \in [MapServers -> BOOLEAN],
           char_session \in [MapServers -> BOOLEAN],
           NEW m \in MapServers, MapEndCloses(m)
    PROVE  /\ toMap' \in [MapServers -> Seq(P)]
           /\ toChar' \in [MapServers -> Seq(Q)]
           /\ server_session' \in [MapServers -> BOOLEAN]
           /\ char_session' \in [MapServers -> BOOLEAN]
<1>1. server_session[m] \in BOOLEAN
    OBVIOUS
<1>2. PICK rest \in Seq(Q) : toChar' = [toChar EXCEPT ![m] = rest]
    BY <1>1, StillDeliveredType DEF MapEndCloses
<1>3. << >> \in Seq(P)
    BY EmptySeq
<1> QED
    BY <1>2, <1>3 DEF MapEndCloses
-----------------------------------------------------------------------------

(***************************************************************************)
(* The inductive invariant: TypeOK and OpenIsMarked, server by server.     *)
(***************************************************************************)
Sessions ==
    [char_id : Characters \cup {NoChar}, auth : BOOLEAN, amount : Nat,
     storage_open : BOOLEAN]
Storages == [amount : Nat, rev : Nat, dirty : BOOLEAN, status : {0, 1}, known : BOOLEAN]

\* A session and the storage of its account on the same server.
Sound(s, stor) ==
    /\ s.auth => s.char_id \in Characters
    /\ s.storage_open => stor.known /\ stor.status = 1

LinkInv ==
    /\ server_session \in [MapServers -> BOOLEAN]
    /\ char_session \in [MapServers -> BOOLEAN]
    /\ toMap \in [MapServers -> Seq(CharPackets)]
    /\ toChar \in [MapServers -> Seq(MapPackets)]
    /\ offers \in SUBSET [account_id : Accounts, char_id : Characters, to : MapServers]

CharInv ==
    /\ inventory \in [Characters -> Nat]
    /\ char_storage \in [Accounts -> Content]
    /\ count \in [Kinds -> Nat]

MapInv ==
    /\ sess \in [MapServers -> [Accounts -> Sessions]]
    /\ storage_db \in [MapServers -> [Accounts -> Storages]]
    /\ \A m \in MapServers : \A a \in Accounts : Sound(sess[m][a], storage_db[m][a])

IInv == LinkInv /\ CharInv /\ MapInv

LEMMA IInvIsBoth == IInv <=> TypeOK /\ OpenIsMarked
BY DEF IInv, LinkInv, CharInv, MapInv, TypeOK, OpenIsMarked, Sessions, Storages, Sound,
       Playing

-----------------------------------------------------------------------------
(* Lemmas that the steps share. *)

LEMMA CountType ==
    ASSUME CharInv, NEW kind \in Kinds, Count(kind)
    PROVE  count' \in [Kinds -> Nat]
BY DEF CharInv, Count

LEMMA Moves ==
    ASSUME CharInv
    PROVE  count["move"] \in Nat
BY DEF CharInv, Kinds

\* One session and one storage change, or stay as they are.
LEMMA OneChanges ==
    ASSUME MapInv, NEW m \in MapServers, NEW a \in Accounts,
           NEW s \in Sessions, NEW stor \in Storages, Sound(s, stor),
           \/ Session(m, a, s)
           \/ UNCHANGED sess /\ s = sess[m][a],
           \/ Stored(m, a, stor)
           \/ UNCHANGED storage_db /\ stor = storage_db[m][a]
    PROVE  MapInv'
<1>1. sess' = [sess EXCEPT ![m][a] = s]
      BY DEF MapInv, Session
<1>2. storage_db' = [storage_db EXCEPT ![m][a] = stor]
      BY DEF MapInv, Stored
<1>3. sess' \in [MapServers -> [Accounts -> Sessions]]
      BY <1>1 DEF MapInv
<1>4. storage_db' \in [MapServers -> [Accounts -> Storages]]
      BY <1>2 DEF MapInv
<1>5. ASSUME NEW n \in MapServers, NEW b \in Accounts
      PROVE  Sound(sess'[n][b], storage_db'[n][b])
  <2>1. CASE n = m /\ b = a
        BY <1>1, <1>2, <2>1 DEF MapInv
  <2>2. CASE ~(n = m /\ b = a)
        BY <1>1, <1>2, <2>2 DEF MapInv
  <2> QED BY <2>1, <2>2
<1> QED BY <1>3, <1>4, <1>5 DEF MapInv

LEMMA Here ==
    ASSUME MapInv, NEW m \in MapServers, NEW a \in Accounts
    PROVE  /\ sess[m][a] \in Sessions
           /\ storage_db[m][a] \in Storages
           /\ Sound(sess[m][a], storage_db[m][a])
           /\ NoSession \in Sessions
           /\ NoStorage \in Storages
BY DEF MapInv, NoSession, NoStorage, Sessions, Storages

\* What a receiver may rely on.
LEMMA HeadFromMap ==
    ASSUME LinkInv, NEW m \in MapServers, NEW type, FromMap(m, type)
    PROVE  /\ Head(toChar[m]) \in MapPackets
           /\ Head(toChar[m]).type = type
           /\ ReadFromMap(m) => toChar' \in [MapServers -> Seq(MapPackets)]
<1>1. toChar \in [MapServers -> Seq(MapPackets)] /\ toChar[m] # << >>
      BY DEF LinkInv, FromMap
<1>2. /\ [toChar EXCEPT ![m] = Tail(@)] \in [MapServers -> Seq(MapPackets)]
      /\ Head(toChar[m]) \in MapPackets
      BY <1>1, ReadType
<1> QED BY <1>2 DEF ReadFromMap, FromMap

LEMMA HeadFromChar ==
    ASSUME LinkInv, NEW m \in MapServers, NEW type, FromChar(m, type)
    PROVE  /\ Head(toMap[m]) \in CharPackets
           /\ Head(toMap[m]).type = type
           /\ ReadFromChar(m) => toMap' \in [MapServers -> Seq(CharPackets)]
<1>1. toMap \in [MapServers -> Seq(CharPackets)] /\ toMap[m] # << >>
      BY DEF LinkInv, FromChar
<1>2. /\ [toMap EXCEPT ![m] = Tail(@)] \in [MapServers -> Seq(CharPackets)]
      /\ Head(toMap[m]) \in CharPackets
      BY <1>1, ReadType
<1> QED BY <1>2 DEF ReadFromChar, FromChar

LEMMA FieldsToChar ==
    ASSUME NEW p \in MapPackets
    PROVE  /\ p.account_id \in Accounts
           /\ p.type \in {"3830", "2afc", "2b01"} => p.char_id \in Characters
           /\ p.type \in {"2b01", "3011"} => p.amount \in Nat
           /\ p.type = "3011" => p.rev \in Nat
BY DEF MapPackets

LEMMA FieldsToMap ==
    ASSUME NEW p \in CharPackets
    PROVE  /\ p.account_id \in Accounts
           /\ p.type \in {"3829", "2afd"} => p.char_id \in Characters
           /\ p.type \in {"2afd", "3810"} => p.amount \in Nat
           /\ p.type = "3810" => p.rev \in Nat
           /\ p.type = "3829" =>
                 p = [type |-> "3829", account_id |-> p.account_id, char_id |-> p.char_id]
BY DEF CharPackets

LEMMA SaveType ==
    ASSUME LinkInv, MapInv, NEW m \in MapServers, NEW a \in Accounts,
           Playing(m, a), chrif_save(m, a)
    PROVE  toChar' \in [MapServers -> Seq(MapPackets)]
<1> DEFINE s == sess[m][a]
           stor == storage_db[m][a]
           character == [type |-> "2b01", account_id |-> a, char_id |-> s.char_id,
                         amount |-> s.amount]
           storage == [type |-> "3011", account_id |-> a,
                       amount |-> stor.amount, rev |-> stor.rev]
<1>1. s \in Sessions /\ stor \in Storages /\ s.char_id \in Characters
      BY Here DEF Playing, Sound
<1>2. character \in MapPackets /\ storage \in MapPackets
      BY <1>1 DEF MapPackets, Sessions, Storages
<1>3. SavePackets(m, a) \in {<< character, storage >>, << character >>}
      BY DEF SavePackets
<1>4. << character, storage >> \in Seq(MapPackets) /\ << character >> \in Seq(MapPackets)
      BY <1>2
<1>5. toChar[m] \o SavePackets(m, a) \in Seq(MapPackets)
      BY <1>3, <1>4, ConcatProperties DEF LinkInv
<1> QED BY <1>5 DEF chrif_save, LinkInv

-----------------------------------------------------------------------------
(* One lemma for each action. *)

LEMMA SelectStep ==
    ASSUME IInv, NEW m \in MapServers, NEW a \in Accounts, NEW c \in Characters,
           Select(m, a, c)
    PROVE  IInv'
<1>1. [type |-> "3829", account_id |-> a, char_id |-> c] \in CharPackets
      BY DEF CharPackets
<1>2. toMap' \in [MapServers -> Seq(CharPackets)]
      BY <1>1, SendType DEF IInv, LinkInv, Select, SendToMap
<1>3. CharInv'
      BY CountType DEF IInv, CharInv, Select, Kinds
<1> QED BY <1>2, <1>3 DEF IInv, LinkInv, MapInv, Select

LEMMA PreauthStep ==
    ASSUME IInv, NEW m \in MapServers, Preauth(m)
    PROVE  IInv'
<1> DEFINE p == Head(toMap[m])
           r == [p EXCEPT !.type = "3830"]
<1>1. /\ p \in CharPackets /\ p.type = "3829"
      /\ ReadFromChar(m) => toMap' \in [MapServers -> Seq(CharPackets)]
      BY HeadFromChar DEF IInv, Preauth
<1>2. r = [type |-> "3830", account_id |-> p.account_id, char_id |-> p.char_id]
  <2> HIDE DEF p
  <2> QED BY <1>1, FieldsToMap
<1>3. r \in MapPackets
      BY <1>1, <1>2, FieldsToMap DEF MapPackets
<1>4. toChar' \in [MapServers -> Seq(MapPackets)]
      BY <1>3, SendType DEF IInv, LinkInv, Preauth, ReadFromCharAndReply, SendToChar
<1> QED BY <1>1, <1>4 DEF IInv, LinkInv, CharInv, MapInv, Preauth, ReadFromCharAndReply

LEMMA InviteStep ==
    ASSUME IInv, NEW m \in MapServers, Invite(m)
    PROVE  IInv'
<1>1. /\ Head(toChar[m]) \in MapPackets /\ Head(toChar[m]).type = "3830"
      /\ toChar' \in [MapServers -> Seq(MapPackets)]
      BY HeadFromMap DEF IInv, Invite
<1>2. /\ Head(toChar[m]).account_id \in Accounts
      /\ Head(toChar[m]).char_id \in Characters
      BY <1>1, FieldsToChar
<1> QED BY <1>1, <1>2 DEF IInv, LinkInv, CharInv, MapInv, Invite

LEMMA EnterStep ==
    ASSUME IInv, NEW m \in MapServers, NEW o \in offers, Enter(m, o)
    PROVE  IInv'
<1> DEFINE a == o.account_id
           s == [NoSession EXCEPT !.char_id = o.char_id]
<1>1. a \in Accounts /\ o.char_id \in Characters
      BY DEF IInv, LinkInv
<1>2. s \in Sessions /\ ~s.auth /\ ~s.storage_open
      BY <1>1 DEF NoSession, Sessions
<1>3. [type |-> "2afc", account_id |-> a, char_id |-> o.char_id] \in MapPackets
      BY <1>1 DEF MapPackets
<1>4. toChar' \in [MapServers -> Seq(MapPackets)]
      BY <1>3, SendType DEF IInv, LinkInv, Enter, SendToChar
<1>5. MapInv'
  <2>1. Session(m, a, s) /\ UNCHANGED storage_db
        BY DEF Enter
  <2>2. Sound(s, storage_db[m][a]) /\ storage_db[m][a] \in Storages
        BY <1>1, <1>2, Here DEF IInv, Sound
  <2> QED BY <1>1, <1>2, <2>1, <2>2, OneChanges DEF IInv
<1> QED BY <1>4, <1>5 DEF IInv, LinkInv, CharInv, Enter

LEMMA AuthorizeStep ==
    ASSUME IInv, NEW m \in MapServers, Authorize(m)
    PROVE  IInv'
<1> DEFINE p == Head(toChar[m])
           r == [type |-> "2afd", account_id |-> p.account_id, char_id |-> p.char_id,
                 amount |-> inventory[p.char_id]]
<1>1. /\ p \in MapPackets /\ p.type = "2afc"
      /\ toChar' \in [MapServers -> Seq(MapPackets)]
      BY HeadFromMap DEF IInv, Authorize, ReadFromMapAndReply
<1>2. p.account_id \in Accounts /\ p.char_id \in Characters
      BY <1>1, FieldsToChar
<1>3. inventory[p.char_id] \in Nat
      BY <1>2 DEF IInv, CharInv
<1>4. r \in CharPackets
      BY <1>2, <1>3 DEF CharPackets
<1>5. toMap' \in [MapServers -> Seq(CharPackets)]
      BY <1>4, SendType DEF IInv, LinkInv, Authorize, ReadFromMapAndReply, SendToMap
<1> QED BY <1>1, <1>5 DEF IInv, LinkInv, CharInv, MapInv, Authorize

LEMMA AuthOkStep ==
    ASSUME IInv, NEW m \in MapServers, AuthOk(m)
    PROVE  IInv'
<1> DEFINE p == Head(toMap[m])
           a == p.account_id
           s == [char_id |-> p.char_id, auth |-> TRUE, amount |-> p.amount,
                 storage_open |-> FALSE]
<1>1. /\ p \in CharPackets /\ p.type = "2afd"
      /\ toMap' \in [MapServers -> Seq(CharPackets)]
      BY HeadFromChar DEF IInv, AuthOk
<1>2. a \in Accounts /\ p.char_id \in Characters /\ p.amount \in Nat
      BY <1>1, FieldsToMap
<1>3. s \in Sessions /\ s.char_id \in Characters /\ ~s.storage_open
      BY <1>2 DEF Sessions
<1>4. MapInv'
  <2>1. CASE Online(m, a)
    <3>1. Session(m, a, s) /\ UNCHANGED storage_db
          BY <2>1 DEF AuthOk
    <3>2. Sound(s, storage_db[m][a]) /\ storage_db[m][a] \in Storages
          BY <1>2, <1>3, Here DEF IInv, Sound
    <3> QED BY <1>2, <1>3, <3>1, <3>2, OneChanges DEF IInv
  <2>2. CASE ~Online(m, a)
        BY <2>2 DEF AuthOk, IInv, MapInv
  <2> QED BY <2>1, <2>2
<1> QED BY <1>1, <1>4 DEF IInv, LinkInv, CharInv, AuthOk

LEMMA SaveCharacterStep ==
    ASSUME IInv, NEW m \in MapServers, SaveCharacter(m)
    PROVE  IInv'
<1> DEFINE p == Head(toChar[m])
<1>1. /\ p \in MapPackets /\ p.type = "2b01"
      /\ toChar' \in [MapServers -> Seq(MapPackets)]
      BY HeadFromMap DEF IInv, SaveCharacter
<1>2. p.char_id \in Characters /\ p.amount \in Nat
      BY <1>1, FieldsToChar
<1>3. inventory' \in [Characters -> Nat]
      BY <1>2 DEF IInv, CharInv, SaveCharacter
<1> QED BY <1>1, <1>3 DEF IInv, LinkInv, CharInv, MapInv, SaveCharacter

LEMMA SaveStorageStep ==
    ASSUME IInv, NEW m \in MapServers, SaveStorage(m)
    PROVE  IInv'
<1> DEFINE p == Head(toChar[m])
<1>1. /\ p \in MapPackets /\ p.type = "3011"
      /\ toChar' \in [MapServers -> Seq(MapPackets)]
      BY HeadFromMap DEF IInv, SaveStorage, ReadFromMapAndReply
<1>2. p.account_id \in Accounts /\ p.amount \in Nat /\ p.rev \in Nat
      BY <1>1, FieldsToChar
<1>3. [type |-> "3811", account_id |-> p.account_id] \in CharPackets
      BY <1>2 DEF CharPackets
<1>4. toMap' \in [MapServers -> Seq(CharPackets)]
      BY <1>3, SendType DEF IInv, LinkInv, SaveStorage, ReadFromMapAndReply, SendToMap
<1>5. char_storage' \in [Accounts -> Content]
      BY <1>2 DEF IInv, CharInv, SaveStorage, Content
<1> QED BY <1>1, <1>4, <1>5 DEF IInv, LinkInv, CharInv, MapInv, SaveStorage

LEMMA StorageSavedStep ==
    ASSUME IInv, NEW m \in MapServers, StorageSaved(m)
    PROVE  IInv'
<1> DEFINE a == Head(toMap[m]).account_id
           stor == storage_db[m][a]
           clean == [stor EXCEPT !.dirty = FALSE]
<1>1. /\ Head(toMap[m]) \in CharPackets
      /\ toMap' \in [MapServers -> Seq(CharPackets)]
      BY HeadFromChar DEF IInv, StorageSaved
<1>2. a \in Accounts
      BY <1>1, FieldsToMap
<1>3. MapInv'
  <2>1. CASE StillInUse(stor)
        BY <2>1 DEF StorageSaved, IInv, MapInv
  <2>2. CASE ~StillInUse(stor)
    <3>1. Stored(m, a, clean) /\ UNCHANGED sess
          BY <2>2 DEF StorageSaved
    <3>2. /\ stor \in Storages /\ Sound(sess[m][a], stor) /\ sess[m][a] \in Sessions
          BY <1>2, Here DEF IInv
    <3>3. clean \in Storages /\ clean.known = stor.known /\ clean.status = stor.status
          BY <3>2 DEF Storages
    <3>4. Sound(sess[m][a], clean)
          BY <3>2, <3>3 DEF Sound
    <3> QED BY <1>2, <3>1, <3>2, <3>3, <3>4, OneChanges DEF IInv
  <2> QED BY <2>1, <2>2
<1> QED BY <1>1, <1>3 DEF IInv, LinkInv, CharInv, StorageSaved

LEMMA AutosaveStep ==
    ASSUME IInv, NEW m \in MapServers, NEW a \in Accounts, Autosave(m, a)
    PROVE  IInv'
<1>1. toChar' \in [MapServers -> Seq(MapPackets)]
      BY SaveType DEF IInv, Autosave
<1>2. count' \in [Kinds -> Nat]
      BY CountType DEF IInv, Autosave, Kinds
<1> QED BY <1>1, <1>2 DEF IInv, LinkInv, CharInv, MapInv, Autosave

LEMMA OpenStorageStep ==
    ASSUME IInv, NEW m \in MapServers, NEW a \in Accounts, OpenStorage(m, a)
    PROVE  IInv'
<1> DEFINE s == sess[m][a]
           stor == storage_db[m][a]
           opened == [s EXCEPT !.storage_open = TRUE]
           used == [stor EXCEPT !.status = 1]
<1>1. count' \in [Kinds -> Nat]
      BY CountType DEF IInv, OpenStorage, Kinds
<1>2. s \in Sessions /\ stor \in Storages /\ Sound(s, stor)
      BY Here DEF IInv
<1>3. CASE ~stor.known
  <2>1. [type |-> "3010", account_id |-> a] \in MapPackets
        BY DEF MapPackets
  <2>2. SendToChar(m, [type |-> "3010", account_id |-> a]) /\ UNCHANGED << sess, storage_db >>
        BY <1>3 DEF OpenStorage
  <2>3. toChar' \in [MapServers -> Seq(MapPackets)]
        BY <2>1, <2>2, SendType DEF IInv, LinkInv, SendToChar
  <2> QED BY <1>1, <2>2, <2>3 DEF IInv, LinkInv, CharInv, MapInv, OpenStorage
<1>4. CASE stor.known
  <2>1. Stored(m, a, used) /\ Session(m, a, opened) /\ UNCHANGED toChar
        BY <1>4 DEF OpenStorage
  <2>2. /\ opened \in Sessions /\ used \in Storages
        /\ opened.auth = s.auth /\ opened.char_id = s.char_id
        /\ used.known = stor.known /\ used.status = 1
        BY <1>2 DEF Sessions, Storages
  <2>3. Sound(opened, used)
        BY <1>2, <1>4, <2>2 DEF Sound
  <2>4. MapInv'
        BY <2>1, <2>2, <2>3, OneChanges DEF IInv
  <2> QED BY <1>1, <2>1, <2>4 DEF IInv, LinkInv, CharInv, OpenStorage
<1> QED BY <1>2, <1>3, <1>4 DEF Storages

LEMMA SendStorageStep ==
    ASSUME IInv, NEW m \in MapServers, SendStorage(m)
    PROVE  IInv'
<1> DEFINE a == Head(toChar[m]).account_id
           r == [type |-> "3810", account_id |-> a, amount |-> char_storage[a].amount,
                 rev |-> char_storage[a].rev]
<1>1. /\ Head(toChar[m]) \in MapPackets
      /\ toChar' \in [MapServers -> Seq(MapPackets)]
      BY HeadFromMap DEF IInv, SendStorage, ReadFromMapAndReply
<1>2. a \in Accounts
      BY <1>1, FieldsToChar
<1>3. char_storage[a] \in Content
      BY <1>2 DEF IInv, CharInv
<1>4. r \in CharPackets
      BY <1>2, <1>3 DEF CharPackets, Content
<1>5. toMap' \in [MapServers -> Seq(CharPackets)]
      BY <1>4, SendType DEF IInv, LinkInv, SendStorage, ReadFromMapAndReply, SendToMap
<1> QED BY <1>1, <1>5 DEF IInv, LinkInv, CharInv, MapInv, SendStorage

LEMMA LoadStorageStep ==
    ASSUME IInv, NEW m \in MapServers, LoadStorage(m)
    PROVE  IInv'
<1> DEFINE p == Head(toMap[m])
           a == p.account_id
           s == sess[m][a]
           opened == [s EXCEPT !.storage_open = TRUE]
           loaded == [amount |-> p.amount, rev |-> p.rev, dirty |-> FALSE,
                      status |-> 1, known |-> TRUE]
<1>1. /\ p \in CharPackets /\ p.type = "3810"
      /\ toMap' \in [MapServers -> Seq(CharPackets)]
      BY HeadFromChar DEF IInv, LoadStorage
<1>2. a \in Accounts /\ p.amount \in Nat /\ p.rev \in Nat
      BY <1>1, FieldsToMap
<1>3. MapInv'
  <2>1. CASE Online(m, a) /\ Loadable(storage_db[m][a])
    <3>1. Stored(m, a, loaded) /\ Session(m, a, opened)
          BY <2>1 DEF LoadStorage
    <3>2. s \in Sessions /\ Sound(s, storage_db[m][a])
          BY <1>2, Here DEF IInv
    <3>3. /\ opened \in Sessions /\ loaded \in Storages
          /\ opened.auth = s.auth /\ opened.char_id = s.char_id
          BY <1>2, <3>2 DEF Sessions, Storages
    <3>4. Sound(opened, loaded)
          BY <3>2, <3>3 DEF Sound
    <3> QED BY <1>2, <3>1, <3>3, <3>4, OneChanges DEF IInv
  <2>2. CASE ~(Online(m, a) /\ Loadable(storage_db[m][a]))
        BY <2>2 DEF LoadStorage, IInv, MapInv
  <2> QED BY <2>1, <2>2
<1> QED BY <1>1, <1>3 DEF IInv, LinkInv, CharInv, LoadStorage

LEMMA MovedStep ==
    ASSUME IInv, NEW m \in MapServers, NEW a \in Accounts,
           NEW i \in Nat, NEW k \in Nat, Moved(m, a, i, k)
    PROVE  IInv'
<1> DEFINE s == sess[m][a]
           stor == storage_db[m][a]
           t == [s EXCEPT !.amount = i]
           moved == [stor EXCEPT !.amount = k, !.dirty = TRUE, !.rev = count["move"] + 1]
<1>1. count' \in [Kinds -> Nat]
      BY CountType DEF IInv, Moved, Kinds
<1>2. s \in Sessions /\ stor \in Storages /\ Sound(s, stor)
      BY Here DEF IInv
<1>3. count["move"] + 1 \in Nat
      BY Moves DEF IInv
<1>4. /\ t \in Sessions /\ moved \in Storages
      /\ t.auth = s.auth /\ t.char_id = s.char_id /\ t.storage_open = s.storage_open
      /\ moved.known = stor.known /\ moved.status = stor.status
      BY <1>2, <1>3 DEF Sessions, Storages
<1>5. Sound(t, moved)
      BY <1>2, <1>4 DEF Sound
<1>6. Session(m, a, t) /\ Stored(m, a, moved)
      BY DEF Moved
<1>7. MapInv'
      BY <1>4, <1>5, <1>6, OneChanges DEF IInv
<1> QED BY <1>1, <1>7 DEF IInv, LinkInv, CharInv, Moved, linkVars

LEMMA AddStep ==
    ASSUME IInv, NEW m \in MapServers, NEW a \in Accounts, NEW n \in Pieces,
           Add(m, a, n) \/ Get(m, a, n)
    PROVE  IInv'
<1>1. /\ sess[m][a].amount \in Nat /\ storage_db[m][a].amount \in Nat /\ n \in Nat
      BY Here, StorageAssumption DEF IInv, Sessions, Storages
<1>2. CASE Add(m, a, n)
  <2>1. sess[m][a].amount - n \in Nat /\ storage_db[m][a].amount + n \in Nat
        BY <1>1, <1>2 DEF Add, Enough
  <2> QED BY <1>2, <2>1, MovedStep DEF Add
<1>3. CASE Get(m, a, n)
  <2>1. sess[m][a].amount + n \in Nat /\ storage_db[m][a].amount - n \in Nat
        BY <1>1, <1>3 DEF Get, Enough
  <2> QED BY <1>3, <2>1, MovedStep DEF Get
<1> QED BY <1>2, <1>3

LEMMA CloseStorageStep ==
    ASSUME IInv, NEW m \in MapServers, NEW a \in Accounts, CloseStorage(m, a)
    PROVE  IInv'
<1> DEFINE s == sess[m][a]
           stor == storage_db[m][a]
           t == [s EXCEPT !.storage_open = FALSE]
           free == [stor EXCEPT !.status = 0]
<1>1. toChar' \in [MapServers -> Seq(MapPackets)]
  <2>1. CASE chrif_save(m, a)
        BY <2>1, SaveType DEF IInv, CloseStorage
  <2>2. CASE UNCHANGED toChar
        BY <2>2 DEF IInv, LinkInv
  <2> QED BY <2>1, <2>2 DEF CloseStorage
<1>2. s \in Sessions /\ stor \in Storages /\ Sound(s, stor)
      BY Here DEF IInv
<1>3. /\ t \in Sessions /\ free \in Storages
      /\ t.auth = s.auth /\ t.char_id = s.char_id /\ ~t.storage_open
      BY <1>2 DEF Sessions, Storages
<1>4. Sound(t, free)
      BY <1>2, <1>3 DEF Sound
<1>5. Session(m, a, t) /\ Stored(m, a, free)
      BY DEF CloseStorage, ClosedSession
<1>6. MapInv'
      BY <1>3, <1>4, <1>5, OneChanges DEF IInv
<1> QED BY <1>1, <1>6 DEF IInv, LinkInv, CharInv, CloseStorage

LEMMA QuitStep ==
    ASSUME IInv, NEW m \in MapServers, NEW a \in Accounts, Quit(m, a)
    PROVE  IInv'
<1> DEFINE stor == storage_db[m][a]
           free == [stor EXCEPT !.status = 0]
<1>1. toChar' \in [MapServers -> Seq(MapPackets)]
  <2>1. CASE Playing(m, a)
        BY <2>1, SaveType DEF IInv, Quit
  <2>2. CASE ~Playing(m, a)
        BY <2>2 DEF Quit, IInv, LinkInv
  <2> QED BY <2>1, <2>2
<1>2. stor \in Storages /\ NoSession \in Sessions
      BY Here DEF IInv
<1>3. free \in Storages
      BY <1>2 DEF Storages
<1>4. Sound(NoSession, free) /\ Sound(NoSession, stor)
      BY DEF Sound, NoSession
<1>5. Session(m, a, NoSession) /\ (Stored(m, a, free) \/ UNCHANGED storage_db)
      BY DEF Quit
<1>6. MapInv'
      BY <1>2, <1>3, <1>4, <1>5, OneChanges DEF IInv
<1> QED BY <1>1, <1>6 DEF IInv, LinkInv, CharInv, Quit

LEMMA BreakStep ==
    ASSUME IInv, NEW m \in MapServers, Break(m)
    PROVE  IInv'
<1>1. /\ toMap' \in [MapServers -> Seq(CharPackets)]
      /\ toChar' \in [MapServers -> Seq(MapPackets)]
      /\ server_session' \in [MapServers -> BOOLEAN]
      /\ char_session' \in [MapServers -> BOOLEAN]
  <2>1. CASE CharEndCloses(m)
        BY <2>1, CharEndType DEF IInv, LinkInv
  <2>2. CASE MapEndCloses(m)
        BY <2>2, MapEndCloseType DEF IInv, LinkInv
  <2> QED BY <2>1, <2>2 DEF Break
<1>2. count' \in [Kinds -> Nat]
  <2>1. CASE Open(m)
        BY <2>1, CountType DEF IInv, Break, Kinds
  <2>2. CASE ~Open(m)
        BY <2>2 DEF IInv, CharInv, Break
  <2> QED BY <2>1, <2>2
<1> QED BY <1>1, <1>2 DEF IInv, LinkInv, CharInv, MapInv, Break

LEMMA CrashStep ==
    ASSUME IInv, NEW m \in MapServers, Crash(m)
    PROVE  IInv'
<1>1. /\ toMap' \in [MapServers -> Seq(CharPackets)]
      /\ toChar' \in [MapServers -> Seq(MapPackets)]
      /\ server_session' \in [MapServers -> BOOLEAN]
      /\ char_session' \in [MapServers -> BOOLEAN]
      BY MapEndCloseType DEF IInv, LinkInv, Crash
<1>2. count' \in [Kinds -> Nat]
      BY CountType DEF IInv, Crash, Kinds
<1>3. NoSession \in Sessions /\ NoStorage \in Storages /\ Sound(NoSession, NoStorage)
      BY DEF NoSession, NoStorage, Sessions, Storages, Sound
<1>4. MapInv'
  <2>1. sess' \in [MapServers -> [Accounts -> Sessions]]
        BY <1>3 DEF IInv, MapInv, Crash
  <2>2. storage_db' \in [MapServers -> [Accounts -> Storages]]
        BY <1>3 DEF IInv, MapInv, Crash
  <2>3. ASSUME NEW n \in MapServers, NEW a \in Accounts
        PROVE  Sound(sess'[n][a], storage_db'[n][a])
    <3>1. CASE n = m
      <4>1. sess'[n][a] = NoSession /\ storage_db'[n][a] = NoStorage
            BY <3>1 DEF IInv, MapInv, Crash
      <4> QED BY <1>3, <4>1
    <3>2. CASE n # m
      <4>1. sess'[n] = sess[n] /\ storage_db'[n] = storage_db[n]
            BY <3>2 DEF IInv, MapInv, Crash
      <4> QED BY <4>1 DEF IInv, MapInv
    <3> QED BY <3>1, <3>2
  <2> QED BY <2>1, <2>2, <2>3 DEF MapInv
<1>5. offers' \in SUBSET [account_id : Accounts, char_id : Characters, to : MapServers]
      BY DEF IInv, LinkInv, Crash
<1> QED BY <1>1, <1>2, <1>4, <1>5 DEF IInv, LinkInv, CharInv, Crash

LEMMA ReconnectStep ==
    ASSUME IInv, NEW m \in MapServers, Reconnect(m)
    PROVE  IInv'
BY DEF IInv, LinkInv, CharInv, MapInv, Reconnect

-----------------------------------------------------------------------------
LEMMA InitIsSound == Init => IInv
<1> SUFFICES ASSUME Init PROVE IInv
    OBVIOUS
<1>1. LinkInv
  <2>1. << >> \in Seq(CharPackets) /\ << >> \in Seq(MapPackets)
        BY EmptySeq
  <2> QED BY <2>1 DEF Init, LinksInit, LinkInv
<1>2. CharInv
      BY StorageAssumption DEF Init, CharInv, Content
<1>3. MapInv
  <2>1. NoSession \in Sessions /\ NoStorage \in Storages /\ Sound(NoSession, NoStorage)
        BY DEF NoSession, NoStorage, Sessions, Storages, Sound
  <2> QED BY <2>1 DEF Init, MapInv
<1> QED BY <1>1, <1>2, <1>3 DEF IInv

LEMMA NextKeepsIInv == IInv /\ [Next]_vars => IInv'
<1>1. ASSUME IInv, UNCHANGED vars PROVE IInv'
      BY <1>1 DEF IInv, LinkInv, CharInv, MapInv, vars, linkVars
<1>2. ASSUME IInv, Next PROVE IInv'
  <2>1. PICK m \in MapServers :
            \/ CharReads(m) \/ MapReads(m)
            \/ \E o \in offers : Enter(m, o)
            \/ \E a \in Accounts : Player(m, a)
            \/ Break(m) \/ Crash(m) \/ Reconnect(m)
        BY <1>2 DEF Next
  <2>2. CASE CharReads(m)
        BY <1>2, <2>2, InviteStep, AuthorizeStep, SaveCharacterStep, SaveStorageStep,
           SendStorageStep DEF CharReads
  <2>3. CASE MapReads(m)
        BY <1>2, <2>3, PreauthStep, AuthOkStep, StorageSavedStep, LoadStorageStep
           DEF MapReads
  <2>4. CASE \E o \in offers : Enter(m, o)
        BY <1>2, <2>4, EnterStep
  <2>5. ASSUME NEW a \in Accounts, Player(m, a) PROVE IInv'
        BY <1>2, <2>5, SelectStep, AutosaveStep, OpenStorageStep, CloseStorageStep,
           QuitStep, AddStep DEF Player
  <2>6. CASE Break(m) \/ Crash(m) \/ Reconnect(m)
        BY <1>2, <2>6, BreakStep, CrashStep, ReconnectStep
  <2> QED BY <2>1, <2>2, <2>3, <2>4, <2>5, <2>6
<1> QED BY <1>1, <1>2

LEMMA IInvHolds == Spec => []IInv
<1> QED BY InitIsSound, NextKeepsIInv, PTL DEF Spec

\* Everything keeps its type: no amount becomes negative, in an inventory, in
\* a storage or on the way.
THEOREM StorageTypes == Spec => []TypeOK
<1> QED BY IInvHolds, IInvIsBoth, PTL

\* Whatever is lost, late or asked for twice, a session that may move items
\* has a storage that is marked as in use.
THEOREM NothingMovesUnmarked == Spec => []OpenIsMarked
<1> QED BY IInvHolds, IInvIsBoth, PTL

-----------------------------------------------------------------------------
(* With one map server, what it has of a storage never becomes older, and what *)
(* is closed has been saved.  Both rest on the order of the packets: the       *)
(* answers to 0x3010 all come before the answers to a save, because nothing    *)
(* asks for a storage that is there.                                           *)

OneServer == \A m, n \in MapServers : m = n

Is(p, type, a) == p.type = type /\ p.account_id = a

Has(q, type, a) == \E i \in 1 .. Len(q) : Is(q[i], type, a)

\* No packet of the first type comes after one of the second.
InOrder(q, first, second, a) ==
    \A i, j \in 1 .. Len(q) : i < j /\ Is(q[i], second, a) => ~Is(q[j], first, a)

\* The answers to 0x3010 that are under way bring content with this number.
Bring(q, a, rev) == \A i \in 1 .. Len(q) : Is(q[i], "3810", a) => q[i].rev = rev

\* Account a, between the copy of the char server (with number cs) and the one of
\* the map server: tm and tc are the packets to and from the map server.
Flow(a, tm, tc, stor, cs, open) ==
    /\ InOrder(tm, "3810", "3811", a)
    /\ InOrder(tc, "3010", "3011", a)
    /\ Has(tm, "3811", a) => ~Has(tc, "3010", a)
    /\ ~open => tm = << >>
    /\ ~stor.known => /\ stor.rev = 0
                      /\ ~open \/ (~Has(tc, "3011", a) /\ ~Has(tm, "3811", a))
                      /\ Bring(tm, a, cs)
    /\ stor.known /\ ~stor.dirty => /\ Bring(tm, a, stor.rev)
                                    /\ Has(tc, "3010", a) => cs = stor.rev

\* The last save of the account on its way, or else the char server's copy, is
\* what the map server has.
Saved(a, tc, stor, cs) ==
    stor.known /\ (stor.status = 0 \/ ~stor.dirty) =>
        \/ cs = stor.rev /\ ~Has(tc, "3011", a)
        \/ \E i \in 1 .. Len(tc) :
              /\ Is(tc[i], "3011", a)
              /\ tc[i].rev = stor.rev
              /\ \A j \in 1 .. Len(tc) : i < j => ~Is(tc[j], "3011", a)

\* The saves under way are of changes that were made.
Past(q, n) == \A i \in 1 .. Len(q) : q[i].type = "3011" => q[i].rev <= n

FlowAt(m) ==
    /\ ~server_session[m] => toChar[m] = << >>
    /\ Past(toChar[m], count["move"])
    /\ \A a \in Accounts :
          /\ Flow(a, toMap[m], toChar[m], storage_db[m][a], char_storage[a].rev,
                  char_session[m])
          /\ char_storage[a].rev <= count["move"]
          /\ storage_db[m][a].rev <= count["move"]

FlowInv == \A m \in MapServers : FlowAt(m)

SavedInv ==
    Unbroken =>
        \A m \in MapServers :
            /\ Open(m)
            /\ \A a \in Accounts :
                  Saved(a, toChar[m], storage_db[m][a], char_storage[a].rev)

-----------------------------------------------------------------------------
(* Queues. *)

LEMMA TailIs ==
    ASSUME NEW P, NEW q \in Seq(P), q # << >>
    PROVE  /\ Len(Tail(q)) \in Nat /\ Len(q) = Len(Tail(q)) + 1
           /\ \A i \in 1 .. Len(Tail(q)) : i + 1 \in 1 .. Len(q) /\ Tail(q)[i] = q[i + 1]
           /\ 1 \in 1 .. Len(q) /\ Head(q) = q[1]
<1>1. /\ Len(q) \in Nat /\ Len(q) # 0
      /\ Len(Tail(q)) = Len(q) - 1
      /\ \A i \in 1 .. Len(Tail(q)) : Tail(q)[i] = q[i + 1]
      BY HeadTailProperties, LenProperties, EmptySeq
<1>2. Head(q) = q[1]
      BY DEF Head
<1> QED BY <1>1, <1>2

LEMMA AppendIs ==
    ASSUME NEW P, NEW q \in Seq(P), NEW msg
    PROVE  /\ Len(q) \in Nat /\ Len(Append(q, msg)) = Len(q) + 1
           /\ \A i \in 1 .. Len(q) : Append(q, msg)[i] = q[i]
           /\ Append(q, msg)[Len(q) + 1] = msg
BY LenProperties, AppendProperties

LEMMA TailKeeps ==
    ASSUME NEW P, NEW q \in Seq(P), q # << >>, NEW a, NEW type, NEW first
    PROVE  /\ Has(Tail(q), type, a) => Has(q, type, a)
           /\ InOrder(q, first, type, a) => InOrder(Tail(q), first, type, a)
           /\ InOrder(q, first, type, a) /\ Is(Head(q), type, a) => ~Has(Tail(q), first, a)
           /\ \A rev : Bring(q, a, rev) => Bring(Tail(q), a, rev)
           /\ Is(Head(q), type, a) => Has(q, type, a)
<1> DEFINE t == Tail(q)
<1>1. /\ Len(t) \in Nat /\ Len(q) = Len(t) + 1
      /\ \A i \in 1 .. Len(t) : i + 1 \in 1 .. Len(q) /\ t[i] = q[i + 1]
      /\ 1 \in 1 .. Len(q) /\ Head(q) = q[1]
      BY TailIs
<1> HIDE DEF t
<1>2. Has(t, type, a) => Has(q, type, a)
      BY <1>1 DEF Has
<1>3. InOrder(q, first, type, a) => InOrder(t, first, type, a)
  <2> SUFFICES ASSUME InOrder(q, first, type, a), NEW i \in 1 .. Len(t), NEW j \in 1 .. Len(t),
                      i < j, Is(t[i], type, a)
               PROVE  ~Is(t[j], first, a)
      BY DEF InOrder
  <2>1. /\ i + 1 \in 1 .. Len(q) /\ j + 1 \in 1 .. Len(q) /\ i + 1 < j + 1
        /\ t[i] = q[i + 1] /\ t[j] = q[j + 1]
        BY <1>1
  <2> QED BY <2>1 DEF InOrder
<1>4. InOrder(q, first, type, a) /\ Is(Head(q), type, a) => ~Has(t, first, a)
  <2> SUFFICES ASSUME InOrder(q, first, type, a), Is(Head(q), type, a), NEW j \in 1 .. Len(t)
               PROVE  ~Is(t[j], first, a)
      BY DEF Has
  <2>1. 1 < j + 1 /\ j + 1 \in 1 .. Len(q) /\ t[j] = q[j + 1]
        BY <1>1
  <2> QED BY <1>1, <2>1 DEF InOrder
<1>5. \A rev : Bring(q, a, rev) => Bring(t, a, rev)
      BY <1>1 DEF Bring
<1>6. Is(Head(q), type, a) => Has(q, type, a)
      BY <1>1 DEF Has
<1> QED BY <1>2, <1>3, <1>4, <1>5, <1>6 DEF t

LEMMA AppendKeeps ==
    ASSUME NEW P, NEW q \in Seq(P), NEW msg, NEW a, NEW type, NEW first
    PROVE  /\ Has(Append(q, msg), type, a) <=> Has(q, type, a) \/ Is(msg, type, a)
           /\ InOrder(q, first, type, a) /\ (Is(msg, first, a) => ~Has(q, type, a))
                 => InOrder(Append(q, msg), first, type, a)
           /\ \A rev : Bring(q, a, rev) /\ (Is(msg, "3810", a) => msg.rev = rev)
                 => Bring(Append(q, msg), a, rev)
<1> DEFINE t == Append(q, msg)
<1>1. /\ Len(q) \in Nat /\ Len(t) = Len(q) + 1
      /\ \A i \in 1 .. Len(q) : t[i] = q[i]
      /\ t[Len(q) + 1] = msg
      BY AppendIs
<1> HIDE DEF t
<1>2. ASSUME NEW i \in 1 .. Len(t)
      PROVE  (i \in 1 .. Len(q) /\ t[i] = q[i]) \/ (i = Len(q) + 1 /\ t[i] = msg)
      BY <1>1
<1>3. /\ \A i \in 1 .. Len(q) : i \in 1 .. Len(t)
      /\ Len(q) + 1 \in 1 .. Len(t)
      BY <1>1
<1>4. Has(t, type, a) <=> Has(q, type, a) \/ Is(msg, type, a)
      BY <1>1, <1>2, <1>3 DEF Has
<1>5. InOrder(q, first, type, a) /\ (Is(msg, first, a) => ~Has(q, type, a))
         => InOrder(t, first, type, a)
  <2> SUFFICES ASSUME InOrder(q, first, type, a), Is(msg, first, a) => ~Has(q, type, a),
                      NEW i \in 1 .. Len(t), NEW j \in 1 .. Len(t), i < j,
                      Is(t[i], type, a), Is(t[j], first, a)
               PROVE  FALSE
      BY DEF InOrder
  <2>1. i \in 1 .. Len(q) /\ t[i] = q[i]
        BY <1>1
  <2>2. CASE j \in 1 .. Len(q) /\ t[j] = q[j]
        BY <2>1, <2>2 DEF InOrder
  <2>3. CASE t[j] = msg
        BY <2>1, <2>3 DEF Has
  <2> QED BY <1>2, <2>2, <2>3
<1>6. \A rev : Bring(q, a, rev) /\ (Is(msg, "3810", a) => msg.rev = rev) => Bring(t, a, rev)
      BY <1>2 DEF Bring
<1> QED BY <1>4, <1>5, <1>6 DEF t

\* A queue of which the end is lost.
LEMMA PrefixKeeps ==
    ASSUME NEW P, NEW q \in Seq(P), NEW k \in 0 .. Len(q), NEW a, NEW type, NEW first
    PROVE  LET t == SubSeq(q, 1, k)
           IN  /\ Has(t, type, a) => Has(q, type, a)
               /\ InOrder(q, first, type, a) => InOrder(t, first, type, a)
               /\ \A rev : Bring(q, a, rev) => Bring(t, a, rev)
<1> DEFINE t == SubSeq(q, 1, k)
<1>1. /\ Len(q) \in Nat /\ Len(t) = k
      /\ \A i \in 1 .. Len(t) : t[i] = q[i] /\ i \in 1 .. Len(q)
  <2>1. Len(q) \in Nat /\ \A i \in 1 .. k : q[i] \in P
        BY LenProperties, ElementOfSeq
  <2> QED BY <2>1, SubSeqProperties
<1> HIDE DEF t
<1>2. Has(t, type, a) => Has(q, type, a)
      BY <1>1 DEF Has
<1>3. InOrder(q, first, type, a) => InOrder(t, first, type, a)
      BY <1>1 DEF InOrder
<1>4. \A rev : Bring(q, a, rev) => Bring(t, a, rev)
      BY <1>1 DEF Bring
<1> QED BY <1>2, <1>3, <1>4 DEF t

\* An empty queue has nothing.
LEMMA EmptyHasNothing ==
    ASSUME NEW a, NEW type, NEW first, NEW rev
    PROVE  /\ ~Has(<< >>, type, a) /\ InOrder(<< >>, first, type, a)
           /\ Bring(<< >>, a, rev)
<1>1. Len(<< >>) = 0
      BY EmptySeq
<1> QED BY <1>1 DEF Has, InOrder, Bring

\* No save is of a change still to come, whatever is read, sent or lost.
LEMMA PastKeeps ==
    ASSUME NEW P, NEW q \in Seq(P), NEW n, Past(q, n), NEW msg
    PROVE  /\ q # << >> => Past(Tail(q), n)
           /\ (msg.type = "3011" => msg.rev <= n) => Past(Append(q, msg), n)
           /\ \A k \in 0 .. Len(q) : Past(SubSeq(q, 1, k), n)
           /\ Past(<< >>, n)
<1>1. q # << >> => Past(Tail(q), n)
      BY TailIs DEF Past
<1>2. (msg.type = "3011" => msg.rev <= n) => Past(Append(q, msg), n)
  <2> DEFINE t == Append(q, msg)
  <2>1. /\ Len(q) \in Nat /\ Len(t) = Len(q) + 1
        /\ \A i \in 1 .. Len(q) : t[i] = q[i]
        /\ t[Len(q) + 1] = msg
        BY AppendIs
  <2> HIDE DEF t
  <2>2. (msg.type = "3011" => msg.rev <= n) => Past(t, n)
        BY <2>1 DEF Past
  <2> QED BY <2>2 DEF t
<1>3. ASSUME NEW k \in 0 .. Len(q) PROVE Past(SubSeq(q, 1, k), n)
  <2>1. Len(q) \in Nat /\ \A i \in 1 .. k : q[i] \in P
        BY LenProperties, ElementOfSeq
  <2>2. /\ Len(SubSeq(q, 1, k)) = k
        /\ \A i \in 1 .. k : SubSeq(q, 1, k)[i] = q[i] /\ i \in 1 .. Len(q)
        BY <2>1, SubSeqProperties
  <2> QED BY <2>2 DEF Past
<1>4. Past(<< >>, n)
      BY EmptySeq DEF Past
<1> QED BY <1>1, <1>2, <1>3, <1>4

-----------------------------------------------------------------------------
(* What each kind of step does to the packets of one account. *)

LEMMA FlowRead ==
    ASSUME NEW P, NEW Q, NEW tm \in Seq(P), NEW tc \in Seq(Q), NEW a, NEW stor, NEW cs,
           NEW open, Flow(a, tm, tc, stor, cs, open)
    PROVE  /\ tm # << >> => Flow(a, Tail(tm), tc, stor, cs, open)
           /\ tc # << >> => Flow(a, tm, Tail(tc), stor, cs, open)
<1>1. ASSUME tm # << >> PROVE Flow(a, Tail(tm), tc, stor, cs, open)
      BY <1>1, TailKeeps DEF Flow
<1>2. ASSUME tc # << >> PROVE Flow(a, tm, Tail(tc), stor, cs, open)
      BY <1>2, TailKeeps DEF Flow
<1> QED BY <1>1, <1>2

\* Packets that are not about the storage of the account.
LEMMA FlowOther ==
    ASSUME NEW P, NEW Q, NEW tm \in Seq(P), NEW tc \in Seq(Q), NEW a, NEW stor, NEW cs,
           NEW open, Flow(a, tm, tc, stor, cs, open), NEW msg
    PROVE  /\ open /\ ~Is(msg, "3810", a) /\ ~Is(msg, "3811", a)
                 => Flow(a, Append(tm, msg), tc, stor, cs, open)
           /\ ~Is(msg, "3010", a) /\ ~Is(msg, "3011", a)
                 => Flow(a, tm, Append(tc, msg), stor, cs, open)
<1>1. ASSUME open, ~Is(msg, "3810", a), ~Is(msg, "3811", a)
      PROVE  Flow(a, Append(tm, msg), tc, stor, cs, open)
      BY <1>1, AppendKeeps DEF Flow
<1>2. ASSUME ~Is(msg, "3010", a), ~Is(msg, "3011", a)
      PROVE  Flow(a, tm, Append(tc, msg), stor, cs, open)
      BY <1>2, AppendKeeps DEF Flow
<1> QED BY <1>1, <1>2

\* A storage that is there is saved; one that is not is asked for.
LEMMA FlowAsked ==
    ASSUME NEW P, NEW Q, NEW tm \in Seq(P), NEW tc \in Seq(Q), NEW a, NEW stor, NEW cs,
           NEW open, Flow(a, tm, tc, stor, cs, open), NEW msg, open
    PROVE  /\ Is(msg, "3011", a) /\ stor.known
                 => Flow(a, tm, Append(tc, msg), stor, cs, open)
           /\ Is(msg, "3010", a) /\ ~stor.known
                 => Flow(a, tm, Append(tc, msg), stor, cs, open)
<1>1. ASSUME Is(msg, "3011", a), stor.known
      PROVE  Flow(a, tm, Append(tc, msg), stor, cs, open)
  <2>1. ~Is(msg, "3010", a)
        BY <1>1 DEF Is
  <2> QED BY <1>1, <2>1, AppendKeeps DEF Flow
<1>2. ASSUME Is(msg, "3010", a), ~stor.known
      PROVE  Flow(a, tm, Append(tc, msg), stor, cs, open)
  <2>1. ~Is(msg, "3011", a) /\ ~Has(tc, "3011", a) /\ ~Has(tm, "3811", a)
        BY <1>2 DEF Is, Flow
  <2> QED BY <1>2, <2>1, AppendKeeps DEF Flow
<1> QED BY <1>1, <1>2

\* The char server answers: with its copy, or that it has the new one.
LEMMA FlowAnswered ==
    ASSUME NEW P, NEW Q, NEW tm \in Seq(P), NEW tc \in Seq(Q), NEW a, NEW stor, NEW cs,
           NEW open, Flow(a, tm, tc, stor, cs, open), tc # << >>, NEW msg
    PROVE  /\ Is(Head(tc), "3010", a) /\ Is(msg, "3810", a) /\ msg.rev = cs /\ open
                 => Flow(a, Append(tm, msg), Tail(tc), stor, cs, open)
           /\ Is(Head(tc), "3011", a) /\ Is(msg, "3811", a) /\ open
                 => Flow(a, Append(tm, msg), Tail(tc), stor, Head(tc).rev, open)
           /\ Is(Head(tc), "3011", a) /\ ~open
                 => Flow(a, tm, Tail(tc), stor, Head(tc).rev, open)
<1>1. ASSUME Is(Head(tc), "3010", a), Is(msg, "3810", a), msg.rev = cs, open
      PROVE  Flow(a, Append(tm, msg), Tail(tc), stor, cs, open)
  <2>1. ~Is(msg, "3811", a) /\ Has(tc, "3010", a)
        BY <1>1, TailKeeps DEF Is
  <2>2. ~Has(tm, "3811", a)
        BY <2>1 DEF Flow
  <2>3. Flow(a, Append(tm, msg), tc, stor, cs, open)
        BY <1>1, <2>1, <2>2, AppendKeeps DEF Flow
  <2>4. Append(tm, msg) \in Seq(P \cup {msg})
        BY AppendProperties, SeqMonotonic
  <2> QED BY <2>3, <2>4, FlowRead
<1>2. ASSUME Is(Head(tc), "3011", a)
      PROVE  /\ ~Has(Tail(tc), "3010", a) /\ Has(tc, "3011", a)
             /\ InOrder(Tail(tc), "3010", "3011", a)
             /\ Has(Tail(tc), "3011", a) => Has(tc, "3011", a)
      BY <1>2, TailKeeps DEF Flow
<1>3. ASSUME Is(Head(tc), "3011", a), Is(msg, "3811", a), open
      PROVE  Flow(a, Append(tm, msg), Tail(tc), stor, Head(tc).rev, open)
  <2>1. ~Is(msg, "3810", a) /\ stor.known
        BY <1>2, <1>3 DEF Is, Flow
  <2> QED BY <1>2, <1>3, <2>1, AppendKeeps DEF Flow
<1>4. ASSUME Is(Head(tc), "3011", a), ~open
      PROVE  Flow(a, tm, Tail(tc), stor, Head(tc).rev, open)
  <2>1. tm = << >>
        BY <1>4 DEF Flow
  <2> QED BY <1>2, <1>4, <2>1, EmptyHasNothing DEF Flow
<1> QED BY <1>1, <1>3, <1>4

\* The answers arrive.
LEMMA FlowArrived ==
    ASSUME NEW P, NEW Q, NEW tm \in Seq(P), NEW tc \in Seq(Q), NEW a, NEW stor, NEW cs,
           NEW open, Flow(a, tm, tc, stor, cs, open), tm # << >>, NEW new
    PROVE  /\ Is(Head(tm), "3811", a) /\ new.known = stor.known /\ new.rev = stor.rev
                 => Flow(a, Tail(tm), tc, new, cs, open)
           /\ Is(Head(tm), "3810", a) /\ (~stor.known \/ ~stor.dirty) /\ new.known
              /\ new.rev = Head(tm).rev
                 => Flow(a, Tail(tm), tc, new, cs, open)
<1>1. ASSUME Is(Head(tm), "3811", a), new.known = stor.known, new.rev = stor.rev
      PROVE  Flow(a, Tail(tm), tc, new, cs, open)
  <2>1. Has(tm, "3811", a) /\ ~Has(Tail(tm), "3810", a)
        BY <1>1, TailKeeps DEF Flow
  <2>2. \A rev : Bring(Tail(tm), a, rev)
        BY <2>1 DEF Has, Bring
  <2> QED BY <1>1, <2>1, <2>2, TailKeeps DEF Flow
<1>2. ASSUME Is(Head(tm), "3810", a), ~stor.known \/ ~stor.dirty, new.known,
             new.rev = Head(tm).rev
      PROVE  Flow(a, Tail(tm), tc, new, cs, open)
  <2> DEFINE rev == IF stor.known THEN stor.rev ELSE cs
  <2>1. Bring(tm, a, rev) /\ (Has(tc, "3010", a) => cs = rev)
        BY <1>2 DEF Flow
  <2>2. 1 \in 1 .. Len(tm) /\ Head(tm) = tm[1]
        BY TailIs
  <2>3. new.rev = rev
        BY <1>2, <2>1, <2>2 DEF Bring
  <2> HIDE DEF rev
  <2>4. Bring(Tail(tm), a, rev)
        BY <2>1, TailKeeps
  <2>5. InOrder(Tail(tm), "3810", "3811", a)
        BY TailKeeps DEF Flow
  <2>6. Has(Tail(tm), "3811", a) => ~Has(tc, "3010", a)
        BY TailKeeps DEF Flow
  <2>7. ~open => Tail(tm) = << >>
        BY DEF Flow
  <2> QED BY <1>2, <2>1, <2>3, <2>4, <2>5, <2>6, <2>7 DEF Flow
<1> QED BY <1>1, <1>2

\* The storage changes here, or is marked.
LEMMA FlowChanged ==
    ASSUME NEW tm, NEW tc, NEW a, NEW stor, NEW cs, NEW open, NEW new,
           Flow(a, tm, tc, stor, cs, open), new.known = stor.known,
           \/ stor.known /\ new.dirty
           \/ new.rev = stor.rev /\ new.dirty = stor.dirty
    PROVE  Flow(a, tm, tc, new, cs, open)
BY DEF Flow

\* Ends of the connection close, and it comes back.
LEMMA FlowBroken ==
    ASSUME NEW P, NEW Q, NEW tm \in Seq(P), NEW tc \in Seq(Q), NEW a, NEW stor, NEW cs,
           NEW open, Flow(a, tm, tc, stor, cs, open)
    PROVE  /\ \A k \in 0 .. Len(tm) : Flow(a, SubSeq(tm, 1, k), << >>, stor, cs, TRUE)
           /\ Flow(a, << >>, << >>, stor, cs, open)
           /\ Flow(a, << >>, << >>, stor, cs, TRUE)
           /\ Flow(a, << >>, << >>, stor, cs, FALSE)
           /\ \A k \in 0 .. Len(tc) : Flow(a, << >>, SubSeq(tc, 1, k), stor, cs, FALSE)
<1>1. ASSUME NEW k \in 0 .. Len(tm) PROVE Flow(a, SubSeq(tm, 1, k), << >>, stor, cs, TRUE)
  <2> DEFINE t == SubSeq(tm, 1, k)
  <2>1. /\ InOrder(t, "3810", "3811", a)
        /\ \A rev : Bring(tm, a, rev) => Bring(t, a, rev)
        /\ Has(t, "3811", a) => Has(tm, "3811", a)
        BY PrefixKeeps DEF Flow
  <2>2. ~stor.known => ~Has(t, "3811", a)
    <3>1. ~open => ~Has(tm, "3811", a)
          BY EmptyHasNothing DEF Flow
    <3> QED BY <2>1, <3>1 DEF Flow
  <2> HIDE DEF t
  <2>3. /\ InOrder(<< >>, "3010", "3011", a)
        /\ ~Has(<< >>, "3010", a) /\ ~Has(<< >>, "3011", a)
        BY EmptyHasNothing
  <2>4. ~stor.known => stor.rev = 0 /\ Bring(t, a, cs)
        BY <2>1 DEF Flow
  <2>5. stor.known /\ ~stor.dirty => Bring(t, a, stor.rev)
        BY <2>1 DEF Flow
  <2>6. Flow(a, t, << >>, stor, cs, TRUE)
        BY <2>1, <2>2, <2>3, <2>4, <2>5 DEF Flow
  <2> QED BY <2>6 DEF t
<1>2. /\ Flow(a, << >>, << >>, stor, cs, open)
      /\ Flow(a, << >>, << >>, stor, cs, TRUE)
      /\ Flow(a, << >>, << >>, stor, cs, FALSE)
      BY EmptyHasNothing DEF Flow
<1>3. ASSUME NEW k \in 0 .. Len(tc) PROVE Flow(a, << >>, SubSeq(tc, 1, k), stor, cs, FALSE)
      BY PrefixKeeps, EmptyHasNothing DEF Flow
<1> QED BY <1>1, <1>2, <1>3

-----------------------------------------------------------------------------
(* The steps, of which the one map server is enough. *)

LEMMA OnlyHere ==
    ASSUME OneServer, NEW m \in MapServers, FlowAt(m)'
    PROVE  FlowInv'
BY DEF OneServer, FlowInv

\* What a step sends and reads.
LEMMA Queues ==
    ASSUME LinkInv, NEW m \in MapServers, NEW msg
    PROVE  /\ toMap[m] \in Seq(CharPackets) /\ toChar[m] \in Seq(MapPackets)
           /\ SendToMap(m, msg) =>
                 toMap'[m] = IF Open(m) THEN Append(toMap[m], msg) ELSE toMap[m]
           /\ SendToChar(m, msg) =>
                 toChar'[m] = IF Open(m) THEN Append(toChar[m], msg) ELSE toChar[m]
           /\ ReadFromMap(m) => toChar'[m] = Tail(toChar[m])
           /\ ReadFromChar(m) => toMap'[m] = Tail(toMap[m])
           /\ Open(m) => server_session[m] /\ char_session[m]
BY DEF LinkInv, SendToMap, SendToChar, Sent, ReadFromMap, ReadFromChar, Open

LEMMA CountsOn ==
    ASSUME CharInv, NEW kind \in Kinds, Count(kind)
    PROVE  /\ count["move"] \in Nat
           /\ kind # "move" => count'["move"] = count["move"]
           /\ kind = "move" => count'["move"] = count["move"] + 1
BY DEF CharInv, Count, Kinds

\* Packets that have nothing to do with the storage, and what is not sent.
LEMMA FlowQuiet ==
    ASSUME IInv, OneServer, FlowInv, NEW m \in MapServers, NEW msg,
           msg.type \notin {"3810", "3811", "3010", "3011"},
           \/ UNCHANGED toMap
           \/ ReadFromChar(m) /\ toMap[m] # << >>
           \/ SendToMap(m, msg),
           \/ UNCHANGED toChar
           \/ ReadFromMap(m) /\ toChar[m] # << >>
           \/ SendToChar(m, msg),
           UNCHANGED << server_session, char_session, storage_db, char_storage >>,
           count'["move"] = count["move"]
    PROVE  FlowInv'
<1>1. /\ FlowAt(m)
      /\ toMap[m] \in Seq(CharPackets) /\ toChar[m] \in Seq(MapPackets)
      /\ Open(m) => server_session[m] /\ char_session[m]
      BY Queues DEF FlowInv, IInv
<1>2. /\ UNCHANGED << server_session, char_session, storage_db, char_storage >>
      /\ count'["move"] = count["move"]
      OBVIOUS
<1>3. \/ toMap'[m] = toMap[m]
      \/ toMap[m] # << >> /\ toMap'[m] = Tail(toMap[m])
      \/ Open(m) /\ toMap'[m] = Append(toMap[m], msg)
      BY Queues DEF IInv
<1>4. \/ toChar'[m] = toChar[m]
      \/ toChar[m] # << >> /\ toChar'[m] = Tail(toChar[m])
      \/ Open(m) /\ toChar'[m] = Append(toChar[m], msg)
      BY Queues DEF IInv
<1>5. ASSUME NEW a \in Accounts
      PROVE  Flow(a, toMap'[m], toChar'[m], storage_db[m][a], char_storage[a].rev,
                  char_session[m])
  <2>1. Flow(a, toMap[m], toChar[m], storage_db[m][a], char_storage[a].rev, char_session[m])
        BY <1>1 DEF FlowAt
  <2>2. /\ ~Is(msg, "3010", a) /\ ~Is(msg, "3011", a)
        /\ ~Is(msg, "3810", a) /\ ~Is(msg, "3811", a)
        BY DEF Is
  <2>3. Flow(a, toMap'[m], toChar[m], storage_db[m][a], char_storage[a].rev, char_session[m])
        BY <1>1, <1>3, <2>1, <2>2, FlowRead, FlowOther
  <2>4. \E P : toMap'[m] \in Seq(P)
    <3>1. Append(toMap[m], msg) \in Seq(CharPackets \cup {msg})
          BY <1>1, AppendProperties, SeqMonotonic
    <3>2. toMap[m] # << >> => Tail(toMap[m]) \in Seq(CharPackets)
          BY <1>1, HeadTailProperties
    <3> QED BY <1>1, <1>3, <3>1, <3>2
  <2> QED BY <1>1, <1>4, <2>2, <2>3, <2>4, FlowRead, FlowOther
<1>6. Past(toChar'[m], count["move"])
      BY <1>1, <1>4, PastKeeps DEF FlowAt
<1>7. ~server_session[m] => toChar'[m] = << >>
      BY <1>1, <1>4 DEF FlowAt
<1>8. FlowAt(m)'
      BY <1>1, <1>2, <1>5, <1>6, <1>7 DEF FlowAt
<1> QED BY <1>8, OnlyHere

\* The handlers that have nothing to do with the storage, and admission.
LEMMA FlowAdmission ==
    ASSUME IInv, OneServer, FlowInv, NEW m \in MapServers,
           \/ \E a \in Accounts, c \in Characters : Select(m, a, c)
           \/ Preauth(m) \/ Invite(m) \/ Authorize(m) \/ AuthOk(m) \/ SaveCharacter(m)
           \/ \E o \in offers : Enter(m, o)
    PROVE  FlowInv'
<1> DEFINE other == [type |-> "2af8"]
<1>0. other.type \notin {"3810", "3811", "3010", "3011"}
      OBVIOUS
<1>1. ASSUME NEW a \in Accounts, NEW c \in Characters, Select(m, a, c) PROVE FlowInv'
  <2> DEFINE msg == [type |-> "3829", account_id |-> a, char_id |-> c]
  <2>1. msg.type \notin {"3810", "3811", "3010", "3011"}
        OBVIOUS
  <2>2. count'["move"] = count["move"]
        BY <1>1, CountsOn DEF IInv, Select, Kinds
  <2>3. /\ SendToMap(m, msg) /\ UNCHANGED toChar
        /\ UNCHANGED << server_session, char_session, storage_db, char_storage >>
        BY <1>1 DEF Select
  <2> HIDE DEF msg
  <2> QED BY <2>1, <2>2, <2>3, FlowQuiet
<1>2. CASE Preauth(m)
  <2> DEFINE msg == [Head(toMap[m]) EXCEPT !.type = "3830"]
  <2>1. msg.type = "3830"
    <3>1. Head(toMap[m]) \in CharPackets /\ Head(toMap[m]).type = "3829"
          BY <1>2, HeadFromChar DEF IInv, Preauth
    <3> QED BY <3>1, FieldsToMap
  <2>2. /\ ReadFromChar(m) /\ SendToChar(m, msg) /\ toMap[m] # << >>
        /\ UNCHANGED << server_session, char_session, storage_db, char_storage, count >>
        BY <1>2 DEF Preauth, ReadFromCharAndReply, FromChar
  <2> HIDE DEF msg
  <2> QED BY <2>1, <2>2, FlowQuiet
<1>3. CASE Invite(m) \/ SaveCharacter(m)
      BY <1>0, <1>3, FlowQuiet DEF Invite, SaveCharacter, FromMap
<1>4. CASE AuthOk(m)
      BY <1>0, <1>4, FlowQuiet DEF AuthOk, FromChar
<1>5. CASE Authorize(m)
  <2> DEFINE p == Head(toChar[m])
             msg == [type |-> "2afd", account_id |-> p.account_id, char_id |-> p.char_id,
                     amount |-> inventory[p.char_id]]
  <2>1. msg.type \notin {"3810", "3811", "3010", "3011"}
        OBVIOUS
  <2>2. /\ ReadFromMap(m) /\ SendToMap(m, msg) /\ toChar[m] # << >>
        /\ UNCHANGED << server_session, char_session, storage_db, char_storage, count >>
        BY <1>5 DEF Authorize, ReadFromMapAndReply, FromMap
  <2> HIDE DEF msg
  <2> QED BY <2>1, <2>2, FlowQuiet
<1>6. ASSUME NEW o \in offers, Enter(m, o) PROVE FlowInv'
  <2> DEFINE msg == [type |-> "2afc", account_id |-> o.account_id, char_id |-> o.char_id]
  <2>1. msg.type \notin {"3810", "3811", "3010", "3011"}
        OBVIOUS
  <2>2. /\ SendToChar(m, msg) /\ UNCHANGED toMap
        /\ UNCHANGED << server_session, char_session, storage_db, char_storage, count >>
        BY <1>6 DEF Enter
  <2> HIDE DEF msg
  <2> QED BY <2>1, <2>2, FlowQuiet
<1> QED BY <1>1, <1>2, <1>3, <1>4, <1>5, <1>6

LEMMA TwoAtTheEnd ==
    ASSUME NEW P, NEW q \in Seq(P), NEW x \in P, NEW y \in P
    PROVE  q \o << x, y >> = Append(Append(q, x), y)
<1>2. << x >> \in Seq(P) /\ << y >> \in Seq(P) /\ << x, y >> \in Seq(P)
      OBVIOUS
<1>1. << x, y >> = << x >> \o << y >>
  <2> DEFINE both == << x >> \o << y >>
             pair == << x, y >>
  <2>1. Len(<< x >>) = 1 /\ << x >>[1] = x /\ Len(<< y >>) = 1 /\ << y >>[1] = y
        OBVIOUS
  <2>2. /\ both \in Seq(P) /\ Len(both) = 2
        /\ \A i \in 1 .. 2 : both[i] = IF i <= 1 THEN << x >>[i] ELSE << y >>[i - 1]
        BY <1>2, <2>1, ConcatProperties
  <2>3. Len(pair) = 2 /\ pair[1] = x /\ pair[2] = y /\ pair \in Seq(P)
        BY <1>2
  <2> HIDE DEF both, pair
  <2>4. both[1] = x /\ both[2] = y
        BY <2>1, <2>2
  <2>5. \A i \in 1 .. Len(pair) : pair[i] = both[i]
        BY <2>3, <2>4
  <2>6. pair = both
        BY <2>2, <2>3, <2>5, SeqEqual
  <2> QED BY <2>6 DEF pair, both
<1>3. q \o << x, y >> = (q \o << x >>) \o << y >>
      BY <1>1, <1>2, ConcatAssociative
<1>4. q \o << x >> = Append(q, x) /\ Append(q, x) \in Seq(P)
      BY AppendIsConcat, AppendProperties
<1>5. Append(q, x) \o << y >> = Append(Append(q, x), y)
      BY <1>4, AppendIsConcat
<1> QED BY <1>3, <1>4, <1>5

\* What chrif_save adds to the packets under way.
LEMMA SavesAre ==
    ASSUME IInv, NEW m \in MapServers, NEW a \in Accounts, Playing(m, a), chrif_save(m, a)
    PROVE  LET s == sess[m][a]
               stor == storage_db[m][a]
               character == [type |-> "2b01", account_id |-> a, char_id |-> s.char_id,
                             amount |-> s.amount]
               storage == [type |-> "3011", account_id |-> a,
                           amount |-> stor.amount, rev |-> stor.rev]
               once == Append(toChar[m], character)
           IN  /\ once \in Seq(MapPackets)
               /\ \/ ~Open(m) /\ toChar'[m] = toChar[m]
                  \/ /\ Open(m) /\ ~(s.storage_open /\ stor.dirty)
                     /\ toChar'[m] = once
                  \/ /\ Open(m) /\ s.storage_open /\ stor.dirty /\ stor.known
                     /\ toChar'[m] = Append(once, storage)
<1> DEFINE s == sess[m][a]
           stor == storage_db[m][a]
           character == [type |-> "2b01", account_id |-> a, char_id |-> s.char_id,
                         amount |-> s.amount]
           storage == [type |-> "3011", account_id |-> a,
                       amount |-> stor.amount, rev |-> stor.rev]
           q == toChar[m]
<1>1. /\ s \in Sessions /\ stor \in Storages /\ s.char_id \in Characters
      /\ s.storage_open => stor.known
      BY Here DEF IInv, Playing, Sound
<1>2. character \in MapPackets /\ storage \in MapPackets
      BY <1>1 DEF MapPackets, Sessions, Storages
<1>3. q \in Seq(MapPackets)
      BY DEF IInv, LinkInv
<1>4. toChar'[m] = IF Open(m) THEN q \o SavePackets(m, a) ELSE q
      BY DEF IInv, LinkInv, chrif_save
<1>5. SavePackets(m, a) = IF s.storage_open /\ stor.dirty THEN << character, storage >>
                                                         ELSE << character >>
      BY DEF SavePackets
<1> HIDE DEF s, stor, character, storage, q
<1>6. Append(q, character) \in Seq(MapPackets)
      BY <1>2, <1>3, AppendProperties
<1>7. q \o << character >> = Append(q, character)
      BY <1>2, <1>3, AppendIsConcat
<1>8. q \o << character, storage >> = Append(Append(q, character), storage)
      BY <1>2, <1>3, TwoAtTheEnd
<1>9. /\ Append(q, character) \in Seq(MapPackets)
      /\ \/ ~Open(m) /\ toChar'[m] = q
         \/ /\ Open(m) /\ ~(s.storage_open /\ stor.dirty)
            /\ toChar'[m] = Append(q, character)
         \/ /\ Open(m) /\ s.storage_open /\ stor.dirty /\ stor.known
            /\ toChar'[m] = Append(Append(q, character), storage)
      BY <1>1, <1>4, <1>5, <1>6, <1>7, <1>8
<1> QED BY <1>9 DEF s, stor, character, storage, q

\* A save in which the storage, if it goes along, is one that is there.
LEMMA FlowSaving ==
    ASSUME IInv, FlowInv, NEW m \in MapServers, NEW a \in Accounts,
           Playing(m, a), chrif_save(m, a)
    PROVE  /\ \A b \in Accounts :
                 Flow(b, toMap[m], toChar'[m], storage_db[m][b], char_storage[b].rev,
                      char_session[m])
           /\ Past(toChar'[m], count["move"])
           /\ ~server_session[m] => toChar'[m] = << >>
<1> DEFINE s == sess[m][a]
           stor == storage_db[m][a]
           character == [type |-> "2b01", account_id |-> a, char_id |-> s.char_id,
                         amount |-> s.amount]
           storage == [type |-> "3011", account_id |-> a,
                       amount |-> stor.amount, rev |-> stor.rev]
           once == Append(toChar[m], character)
<1>1. /\ once \in Seq(MapPackets)
      /\ \/ ~Open(m) /\ toChar'[m] = toChar[m]
         \/ Open(m) /\ toChar'[m] = once
         \/ Open(m) /\ stor.known /\ toChar'[m] = Append(once, storage)
      BY SavesAre
<1>2. /\ FlowAt(m) /\ stor.rev <= count["move"]
      /\ toMap[m] \in Seq(CharPackets) /\ toChar[m] \in Seq(MapPackets)
      /\ Open(m) => server_session[m] /\ char_session[m]
      BY Queues DEF FlowInv, FlowAt, IInv
<1>3. /\ character.type = "2b01" /\ storage.type = "3011" /\ storage.account_id = a
      /\ storage.rev = stor.rev
      OBVIOUS
<1>4. ASSUME NEW b \in Accounts
      PROVE  Flow(b, toMap[m], toChar'[m], storage_db[m][b], char_storage[b].rev,
                  char_session[m])
  <2> DEFINE cs == char_storage[b].rev
  <2>1. Flow(b, toMap[m], toChar[m], storage_db[m][b], cs, char_session[m])
        BY <1>2 DEF FlowAt
  <2>2. ~Is(character, "3010", b) /\ ~Is(character, "3011", b) /\ ~Is(storage, "3010", b)
        BY <1>3 DEF Is
  <2> HIDE DEF once, character, storage, cs
  <2>3. Flow(b, toMap[m], once, storage_db[m][b], cs, char_session[m])
        BY <1>2, <2>1, <2>2, FlowOther DEF once
  <2>4. ASSUME Open(m), stor.known
        PROVE  Flow(b, toMap[m], Append(once, storage), storage_db[m][b], cs, char_session[m])
    <3>1. CASE b = a
      <4>1. Is(storage, "3011", b)
            BY <1>3, <3>1 DEF Is
      <4> QED BY <1>1, <1>2, <2>3, <2>4, <3>1, <4>1, FlowAsked
    <3>2. CASE b # a
      <4>1. ~Is(storage, "3011", b)
            BY <1>3, <3>2 DEF Is
      <4> QED BY <1>1, <1>2, <2>2, <2>3, <4>1, FlowOther
    <3> QED BY <3>1, <3>2
  <2> QED BY <1>1, <2>1, <2>3, <2>4 DEF cs
<1>5. Past(toChar'[m], count["move"])
  <2> HIDE DEF character, storage
  <2>1. Past(toChar[m], count["move"])
        BY <1>2 DEF FlowAt
  <2>2. Past(once, count["move"])
        BY <1>2, <1>3, <2>1, PastKeeps
  <2> HIDE DEF once
  <2>3. Past(Append(once, storage), count["move"])
        BY <1>1, <1>2, <1>3, <2>2, PastKeeps
  <2> QED BY <1>1, <2>1, <2>2, <2>3
<1>6. ~server_session[m] => toChar'[m] = << >>
      BY <1>1, <1>2 DEF FlowAt
<1> QED BY <1>4, <1>5, <1>6

LEMMA NowHere ==
    ASSUME IInv, FlowInv, NEW m \in MapServers
    PROVE  /\ FlowAt(m)
           /\ toMap[m] \in Seq(CharPackets) /\ toChar[m] \in Seq(MapPackets)
           /\ server_session[m] /\ char_session[m] <=> Open(m)
           /\ ~server_session[m] => toChar[m] = << >>
           /\ Past(toChar[m], count["move"])
           /\ count["move"] \in Nat
           /\ \A a \in Accounts :
                 /\ Flow(a, toMap[m], toChar[m], storage_db[m][a], char_storage[a].rev,
                         char_session[m])
                 /\ char_storage[a].rev <= count["move"]
                 /\ storage_db[m][a].rev <= count["move"]
                 /\ char_storage[a] \in Content
                 /\ storage_db[m][a] \in Storages
BY Moves, Here DEF FlowInv, FlowAt, IInv, LinkInv, CharInv, Open

LEMMA FlowSaveStorage ==
    ASSUME IInv, OneServer, FlowInv, NEW m \in MapServers, SaveStorage(m)
    PROVE  FlowInv'
<1> DEFINE p == Head(toChar[m])
           a == p.account_id
           msg == [type |-> "3811", account_id |-> a]
           tc == toChar[m]
           tm == toMap[m]
<1>1. /\ tm \in Seq(CharPackets) /\ tc \in Seq(MapPackets) /\ tc # << >>
      /\ Past(tc, count["move"]) /\ count["move"] \in Nat
      /\ Open(m) <=> char_session[m]
      /\ server_session[m]
      BY NowHere DEF SaveStorage, FromMap
<1>2. p \in MapPackets /\ p.type = "3011" /\ a \in Accounts /\ p.rev \in Nat
      BY HeadFromMap, FieldsToChar DEF IInv, SaveStorage
<1>3. /\ toChar'[m] = Tail(tc)
      /\ toMap'[m] = IF char_session[m] THEN Append(tm, msg) ELSE tm
      BY <1>1, Queues DEF IInv, SaveStorage, ReadFromMapAndReply
<1>4. /\ char_storage'[a].rev = p.rev
      /\ \A b \in Accounts : b # a => char_storage'[b] = char_storage[b]
      BY <1>2 DEF IInv, CharInv, SaveStorage
<1>5. UNCHANGED << server_session, char_session, storage_db, count >>
      BY DEF SaveStorage
<1>6. p.rev <= count["move"]
      BY <1>1, <1>2, TailIs DEF Past
<1>7. msg.type = "3811" /\ msg.account_id = a
      OBVIOUS
<1> HIDE DEF msg
<1>8. ASSUME NEW b \in Accounts
      PROVE  Flow(b, toMap'[m], toChar'[m], storage_db[m][b], char_storage'[b].rev,
                  char_session[m])
  <2>1. Flow(b, tm, tc, storage_db[m][b], char_storage[b].rev, char_session[m])
        BY NowHere
  <2>2. CASE b = a
    <3>1. Is(p, "3011", b) /\ Is(msg, "3811", b)
          BY <1>2, <1>7, <2>2 DEF Is
    <3>2. Flow(b, toMap'[m], toChar'[m], storage_db[m][b], p.rev, char_session[m])
      <4> HIDE DEF a, tc, tm
      <4>1. CASE char_session[m]
            BY <1>1, <1>3, <2>1, <3>1, <4>1, FlowAnswered DEF p, tc
      <4>2. CASE ~char_session[m]
            BY <1>1, <1>3, <2>1, <3>1, <4>2, FlowAnswered DEF p, tc
      <4> QED BY <4>1, <4>2
    <3> QED BY <1>4, <2>2, <3>2
  <2>3. CASE b # a
    <3>1. ~Is(msg, "3810", b) /\ ~Is(msg, "3811", b)
          BY <1>7, <2>3 DEF Is
    <3>2. Flow(b, tm, Tail(tc), storage_db[m][b], char_storage[b].rev, char_session[m])
          BY <1>1, <2>1, FlowRead
    <3>3. Tail(tc) \in Seq(MapPackets)
          BY <1>1, HeadTailProperties
    <3>4. char_session[m] => Flow(b, Append(tm, msg), Tail(tc), storage_db[m][b],
                                  char_storage[b].rev, char_session[m])
          BY <1>1, <3>1, <3>2, <3>3, FlowOther
    <3> QED BY <1>3, <1>4, <2>3, <3>2, <3>4
  <2> QED BY <2>2, <2>3
<1>9. Past(toChar'[m], count["move"])
      BY <1>1, <1>3, PastKeeps
<1>10. ASSUME NEW b \in Accounts
       PROVE  char_storage'[b].rev <= count["move"] /\ storage_db[m][b].rev <= count["move"]
       BY <1>4, <1>6, NowHere
<1>11. FlowAt(m)'
       BY <1>1, <1>5, <1>8, <1>9, <1>10 DEF FlowAt
<1> QED BY <1>11, OnlyHere

LEMMA FlowSendStorage ==
    ASSUME IInv, OneServer, FlowInv, NEW m \in MapServers, SendStorage(m)
    PROVE  FlowInv'
<1> DEFINE p == Head(toChar[m])
           a == p.account_id
           msg == [type |-> "3810", account_id |-> a, amount |-> char_storage[a].amount,
                   rev |-> char_storage[a].rev]
           tc == toChar[m]
           tm == toMap[m]
<1>1. /\ tm \in Seq(CharPackets) /\ tc \in Seq(MapPackets) /\ tc # << >>
      /\ Past(tc, count["move"]) /\ count["move"] \in Nat
      /\ Open(m) <=> char_session[m]
      /\ server_session[m]
      BY NowHere DEF SendStorage, FromMap
<1>2. p \in MapPackets /\ p.type = "3010" /\ a \in Accounts
      BY HeadFromMap, FieldsToChar DEF IInv, SendStorage
<1>3. /\ toChar'[m] = Tail(tc)
      /\ toMap'[m] = IF char_session[m] THEN Append(tm, msg) ELSE tm
      BY <1>1, Queues DEF IInv, SendStorage, ReadFromMapAndReply
<1>4. UNCHANGED << server_session, char_session, storage_db, char_storage, count >>
      BY DEF SendStorage
<1>5. msg.type = "3810" /\ msg.account_id = a /\ msg.rev = char_storage[a].rev
      OBVIOUS
<1> HIDE DEF msg
<1>6. Tail(tc) \in Seq(MapPackets)
      BY <1>1, HeadTailProperties
<1>7. ASSUME NEW b \in Accounts
      PROVE  Flow(b, toMap'[m], toChar'[m], storage_db[m][b], char_storage[b].rev,
                  char_session[m])
  <2>1. Flow(b, tm, tc, storage_db[m][b], char_storage[b].rev, char_session[m])
        BY NowHere
  <2>2. Flow(b, tm, Tail(tc), storage_db[m][b], char_storage[b].rev, char_session[m])
        BY <1>1, <2>1, FlowRead
  <2>3. CASE ~char_session[m]
        BY <1>3, <2>2, <2>3
  <2>4. CASE char_session[m] /\ b = a
    <3>1. Is(p, "3010", b) /\ Is(msg, "3810", b) /\ msg.rev = char_storage[b].rev
          BY <1>2, <1>5, <2>4 DEF Is
    <3> HIDE DEF a, tc, tm
    <3> QED BY <1>1, <1>3, <2>1, <2>4, <3>1, FlowAnswered DEF p, tc
  <2>5. CASE char_session[m] /\ b # a
    <3>1. ~Is(msg, "3810", b) /\ ~Is(msg, "3811", b)
          BY <1>5, <2>5 DEF Is
    <3> QED BY <1>1, <1>3, <1>6, <2>2, <2>5, <3>1, FlowOther
  <2> QED BY <2>3, <2>4, <2>5
<1>8. Past(toChar'[m], count["move"])
      BY <1>1, <1>3, PastKeeps
<1>9. FlowAt(m)'
      BY <1>1, <1>4, <1>7, <1>8, NowHere DEF FlowAt
<1> QED BY <1>9, OnlyHere

\* The answers to a save and to a load.
LEMMA FlowMapReads ==
    ASSUME IInv, OneServer, FlowInv, NEW m \in MapServers,
           StorageSaved(m) \/ LoadStorage(m)
    PROVE  FlowInv'
<1> DEFINE p == Head(toMap[m])
           a == p.account_id
           stor == storage_db[m][a]
           new == storage_db'[m][a]
           tc == toChar[m]
           tm == toMap[m]
<1>1. /\ tm \in Seq(CharPackets) /\ tc \in Seq(MapPackets) /\ tm # << >>
      /\ Past(tc, count["move"]) /\ count["move"] \in Nat
      /\ ~server_session[m] => tc = << >>
      BY NowHere DEF StorageSaved, LoadStorage, FromChar
<1>2. p \in CharPackets /\ a \in Accounts /\ p.type \in {"3811", "3810"}
      BY HeadFromChar, FieldsToMap DEF IInv, StorageSaved, LoadStorage
<1>3. toMap'[m] = Tail(tm)
      BY Queues DEF IInv, StorageSaved, LoadStorage
<1>4. UNCHANGED << server_session, char_session, toChar, char_storage, count >>
      BY DEF StorageSaved, LoadStorage
<1>5. \A b \in Accounts : b # a => storage_db'[m][b] = storage_db[m][b]
      BY <1>2 DEF IInv, MapInv, StorageSaved, LoadStorage, Stored
<1>6. stor \in Storages
      BY <1>2, Here DEF IInv
<1>7. \/ new = stor
      \/ p.type = "3811" /\ new.known = stor.known /\ new.rev = stor.rev
      \/ p.type = "3810" /\ ~stor.dirty /\ new.known /\ new.rev = p.rev
  <2>1. CASE StorageSaved(m)
    <3>1. p.type = "3811"
          BY <2>1 DEF StorageSaved, FromChar
    <3>2. new = stor \/ new = [stor EXCEPT !.dirty = FALSE]
          BY <1>2, <2>1 DEF IInv, MapInv, StorageSaved, Stored
    <3> HIDE DEF new, stor
    <3> QED BY <1>6, <3>1, <3>2 DEF Storages
  <2>2. CASE LoadStorage(m)
    <3>1. p.type = "3810"
          BY <2>2 DEF LoadStorage, FromChar
    <3>2. new = stor
          \/ (~stor.dirty /\ new = [amount |-> p.amount, rev |-> p.rev, dirty |-> FALSE,
                                   status |-> 1, known |-> TRUE])
          BY <1>2, <2>2 DEF IInv, MapInv, LoadStorage, Stored, Loadable
    <3> HIDE DEF new, stor, a, p
    <3> QED BY <3>1, <3>2
  <2> QED BY <2>1, <2>2
<1>8. ASSUME NEW b \in Accounts
      PROVE  Flow(b, Tail(tm), tc, storage_db'[m][b], char_storage[b].rev, char_session[m])
  <2>1. Flow(b, tm, tc, storage_db[m][b], char_storage[b].rev, char_session[m])
        BY NowHere
  <2>2. Flow(b, Tail(tm), tc, storage_db[m][b], char_storage[b].rev, char_session[m])
        BY <1>1, <2>1, FlowRead
  <2>3. CASE b # a \/ new = stor
        BY <1>5, <2>2, <2>3
  <2>4. CASE b = a /\ new # stor
    <3>1. Flow(a, tm, tc, stor, char_storage[a].rev, char_session[m])
          BY <2>1, <2>4
    <3>2. \/ Is(p, "3811", a) /\ new.known = stor.known /\ new.rev = stor.rev
          \/ Is(p, "3810", a) /\ ~stor.dirty /\ new.known /\ new.rev = p.rev
          BY <1>7, <2>4 DEF Is
    <3> HIDE DEF a, new, stor, tc, tm
    <3>3. Flow(a, Tail(tm), tc, new, char_storage[a].rev, char_session[m])
          BY <1>1, <3>1, <3>2, FlowArrived DEF p, tm
    <3> QED BY <2>4, <3>3 DEF new
  <2> QED BY <2>3, <2>4
<1>9. ASSUME NEW b \in Accounts
      PROVE  char_storage[b].rev <= count["move"] /\ storage_db'[m][b].rev <= count["move"]
  <2>1. /\ storage_db[m][b].rev <= count["move"] /\ char_storage[b].rev <= count["move"]
        BY NowHere
  <2>2. CASE storage_db'[m][b].rev = storage_db[m][b].rev
        BY <2>1, <2>2
  <2>3. CASE b = a /\ p.type = "3810" /\ ~stor.dirty /\ new.rev = p.rev
    <3>1. Flow(a, tm, tc, stor, char_storage[a].rev, char_session[m])
          BY <1>2, NowHere
    <3>2. Bring(tm, a, stor.rev) \/ Bring(tm, a, char_storage[a].rev)
          BY <2>3, <3>1 DEF Flow
    <3>3. Is(p, "3810", a) /\ 1 \in 1 .. Len(tm) /\ p = tm[1]
          BY <1>1, <2>3, TailIs DEF Is
    <3>4. p.rev \in {stor.rev, char_storage[a].rev}
          BY <3>2, <3>3 DEF Bring
    <3> QED BY <1>2, <2>1, <2>3, <3>4
  <2> QED BY <1>5, <1>7, <2>2, <2>3
<1>10. FlowAt(m)'
       BY <1>1, <1>3, <1>4, <1>8, <1>9 DEF FlowAt
<1> QED BY <1>10, OnlyHere

\* The player asks for a storage, opens one, or moves something.
LEMMA FlowOpenStorage ==
    ASSUME IInv, OneServer, FlowInv, NEW m \in MapServers, NEW a \in Accounts,
           OpenStorage(m, a)
    PROVE  FlowInv'
<1> DEFINE stor == storage_db[m][a]
           used == [stor EXCEPT !.status = 1]
           msg == [type |-> "3010", account_id |-> a]
           tc == toChar[m]
           tm == toMap[m]
<1>1. /\ tm \in Seq(CharPackets) /\ tc \in Seq(MapPackets)
      /\ Past(tc, count["move"]) /\ count["move"] \in Nat
      /\ Open(m) <=> server_session[m] /\ char_session[m]
      /\ ~server_session[m] => tc = << >>
      /\ stor \in Storages
      BY NowHere
<1>2. /\ UNCHANGED << server_session, char_session, toMap, char_storage >>
      /\ count'["move"] = count["move"]
      BY CountsOn DEF IInv, OpenStorage, Kinds
<1>3. msg.type = "3010" /\ msg.account_id = a
      OBVIOUS
<1>4. \/ ~stor.known /\ SendToChar(m, msg) /\ UNCHANGED storage_db
      \/ stor.known /\ Stored(m, a, used) /\ UNCHANGED toChar
      BY DEF OpenStorage
<1> HIDE DEF msg
<1>5. CASE ~stor.known /\ SendToChar(m, msg) /\ UNCHANGED storage_db
  <2>1. toChar'[m] = IF Open(m) THEN Append(tc, msg) ELSE tc
        BY <1>5, Queues DEF IInv
  <2>2. ASSUME NEW b \in Accounts
        PROVE  Flow(b, tm, toChar'[m], storage_db[m][b], char_storage[b].rev, char_session[m])
    <3>1. Flow(b, tm, tc, storage_db[m][b], char_storage[b].rev, char_session[m])
          BY NowHere
    <3>2. CASE ~Open(m)
          BY <2>1, <3>1, <3>2
    <3>3. CASE Open(m) /\ b = a
      <4>1. Is(msg, "3010", a)
            BY <1>3 DEF Is
      <4> QED BY <1>1, <1>5, <2>1, <3>1, <3>3, <4>1, FlowAsked
    <3>4. CASE Open(m) /\ b # a
      <4>1. ~Is(msg, "3010", b) /\ ~Is(msg, "3011", b)
            BY <1>3, <3>4 DEF Is
      <4> QED BY <1>1, <2>1, <3>1, <3>4, <4>1, FlowOther
    <3> QED BY <3>2, <3>3, <3>4
  <2>3. Past(toChar'[m], count["move"])
        BY <1>1, <1>3, <2>1, PastKeeps
  <2>4. FlowAt(m)'
        BY <1>1, <1>2, <1>5, <2>1, <2>2, <2>3, NowHere DEF FlowAt
  <2> QED BY <2>4, OnlyHere
<1>6. CASE stor.known /\ Stored(m, a, used) /\ UNCHANGED toChar
  <2>1. /\ storage_db'[m][a] = used
        /\ \A b \in Accounts : b # a => storage_db'[m][b] = storage_db[m][b]
        BY <1>6 DEF IInv, MapInv, Stored
  <2>2. used.known = stor.known /\ used.rev = stor.rev /\ used.dirty = stor.dirty
        BY <1>1 DEF Storages
  <2>3. ASSUME NEW b \in Accounts
        PROVE  /\ Flow(b, tm, tc, storage_db'[m][b], char_storage[b].rev, char_session[m])
               /\ storage_db'[m][b].rev = storage_db[m][b].rev
    <3>1. Flow(b, tm, tc, storage_db[m][b], char_storage[b].rev, char_session[m])
          BY NowHere
    <3>2. CASE b = a
      <4> HIDE DEF used
      <4> QED BY <2>1, <2>2, <3>1, <3>2, FlowChanged
    <3>3. CASE b # a
          BY <2>1, <3>1, <3>3
    <3> QED BY <3>2, <3>3
  <2>4. FlowAt(m)'
        BY <1>1, <1>2, <1>6, <2>3, NowHere DEF FlowAt
  <2> QED BY <2>4, OnlyHere
<1> QED BY <1>4, <1>5, <1>6

LEMMA FlowMoved ==
    ASSUME IInv, OneServer, FlowInv, NEW m \in MapServers, NEW a \in Accounts,
           NEW i \in Nat, NEW k \in Nat, Moved(m, a, i, k)
    PROVE  /\ FlowInv'
           /\ storage_db'[m][a].rev = count["move"] + 1
           /\ \A b \in Accounts : b # a => storage_db'[m][b] = storage_db[m][b]
           /\ storage_db[m][a].known /\ storage_db'[m][a].known
           /\ storage_db'[m][a].dirty /\ storage_db'[m][a].status = 1
<1> DEFINE stor == storage_db[m][a]
           moved == [stor EXCEPT !.amount = k, !.dirty = TRUE, !.rev = count["move"] + 1]
           tc == toChar[m]
           tm == toMap[m]
           n == count["move"]
<1>1. /\ Past(tc, n) /\ n \in Nat
      /\ ~server_session[m] => tc = << >>
      /\ stor \in Storages
      BY NowHere
<1>2. stor.known /\ stor.status = 1
      BY Here DEF IInv, Moved, Sound
<1>3. /\ UNCHANGED << server_session, char_session, toMap, toChar, char_storage >>
      /\ count'["move"] = n + 1
      BY CountsOn DEF IInv, Moved, Kinds, linkVars
<1>4. /\ storage_db'[m][a] = moved
      /\ \A b \in Accounts : b # a => storage_db'[m][b] = storage_db[m][b]
      BY DEF IInv, MapInv, Moved, Stored
<1>5. moved.known /\ moved.dirty /\ moved.rev = n + 1 /\ moved.status = 1
      BY <1>1, <1>2 DEF Storages
<1> HIDE DEF moved
<1>6. ASSUME NEW b \in Accounts
      PROVE  /\ Flow(b, tm, tc, storage_db'[m][b], char_storage[b].rev, char_session[m])
             /\ storage_db'[m][b].rev <= n + 1 /\ char_storage[b].rev <= n + 1
  <2>1. /\ Flow(b, tm, tc, storage_db[m][b], char_storage[b].rev, char_session[m])
        /\ storage_db[m][b].rev <= n /\ char_storage[b].rev <= n
        /\ storage_db[m][b].rev \in Nat /\ char_storage[b].rev \in Nat
        BY NowHere DEF Storages, Content
  <2>2. CASE b = a
    <3>1. Flow(a, tm, tc, moved, char_storage[a].rev, char_session[m])
          BY <1>2, <1>5, <2>1, <2>2, FlowChanged
    <3> QED BY <1>1, <1>4, <1>5, <2>1, <2>2, <3>1
  <2>3. CASE b # a
    <3>1. storage_db'[m][b] = storage_db[m][b] /\ n <= n + 1
          BY <1>1, <1>4, <2>3
    <3> QED BY <1>1, <2>1, <3>1
  <2> QED BY <2>2, <2>3
<1>7. Past(tc, n + 1)
  <2> SUFFICES ASSUME NEW j \in 1 .. Len(tc), tc[j].type = "3011"
               PROVE  tc[j].rev <= n + 1
      BY DEF Past
  <2>1. tc[j] \in MapPackets
        BY NowHere, ElementOfSeq
  <2>2. tc[j].rev \in Nat /\ tc[j].rev <= n
        BY <1>1, <2>1, FieldsToChar DEF Past
  <2> QED BY <1>1, <2>2
<1>8. FlowAt(m)'
      BY <1>1, <1>3, <1>6, <1>7 DEF FlowAt
<1> QED BY <1>2, <1>4, <1>5, <1>8, OnlyHere

LEMMA FlowMoves ==
    ASSUME IInv, OneServer, FlowInv, NEW m \in MapServers, NEW a \in Accounts,
           NEW n \in Pieces, Add(m, a, n) \/ Get(m, a, n)
    PROVE  \E i, k \in Nat : /\ Moved(m, a, i, k)
                             /\ i + k = sess[m][a].amount + storage_db[m][a].amount
<1> DEFINE x == sess[m][a].amount
           y == storage_db[m][a].amount
<1>1. x \in Nat /\ y \in Nat /\ n \in Nat
      BY Here, StorageAssumption DEF IInv, Sessions, Storages
<1>2. CASE Add(m, a, n)
  <2>1. n <= x /\ Moved(m, a, x - n, y + n)
        BY <1>2 DEF Add, Enough
  <2> HIDE DEF x, y
  <2>2. x - n \in Nat /\ y + n \in Nat /\ (x - n) + (y + n) = x + y
        BY <1>1, <2>1
  <2> QED BY <2>1, <2>2 DEF x, y
<1>3. CASE Get(m, a, n)
  <2>1. n <= y /\ Moved(m, a, x + n, y - n)
        BY <1>3 DEF Get, Enough
  <2> HIDE DEF x, y
  <2>2. x + n \in Nat /\ y - n \in Nat /\ (x + n) + (y - n) = x + y
        BY <1>1, <2>1
  <2> QED BY <2>1, <2>2 DEF x, y
<1> QED BY <1>2, <1>3

\* What a close or an exit does to the storage.
LEMMA FlowFreed ==
    ASSUME IInv, OneServer, FlowInv, NEW m \in MapServers, NEW a \in Accounts,
           \/ UNCHANGED toChar
           \/ Playing(m, a) /\ chrif_save(m, a),
           \/ UNCHANGED storage_db
           \/ Stored(m, a, [storage_db[m][a] EXCEPT !.status = 0]),
           UNCHANGED << server_session, char_session, toMap, char_storage >>,
           count'["move"] = count["move"]
    PROVE  /\ FlowInv'
           /\ \A b \in Accounts : storage_db'[m][b].rev = storage_db[m][b].rev
<1> DEFINE tm == toMap[m]
<1>1. /\ \A b \in Accounts :
            Flow(b, tm, toChar'[m], storage_db[m][b], char_storage[b].rev, char_session[m])
      /\ Past(toChar'[m], count["move"])
      /\ ~server_session[m] => toChar'[m] = << >>
  <2>1. CASE UNCHANGED toChar
        BY <2>1, NowHere
  <2>2. CASE Playing(m, a) /\ chrif_save(m, a)
        BY <2>2, FlowSaving
  <2> QED BY <2>1, <2>2
<1>2. ASSUME NEW b \in Accounts
      PROVE  /\ storage_db'[m][b].known = storage_db[m][b].known
             /\ storage_db'[m][b].rev = storage_db[m][b].rev
             /\ storage_db'[m][b].dirty = storage_db[m][b].dirty
  <2>1. storage_db[m][b] \in Storages
        BY NowHere
  <2>2. \/ storage_db'[m][b] = storage_db[m][b]
        \/ storage_db'[m][b] = [storage_db[m][b] EXCEPT !.status = 0]
        BY DEF IInv, MapInv, Stored
  <2> QED BY <2>1, <2>2 DEF Storages
<1>3. ASSUME NEW b \in Accounts
      PROVE  Flow(b, tm, toChar'[m], storage_db'[m][b], char_storage[b].rev, char_session[m])
      BY <1>1, <1>2, FlowChanged
<1>4. ASSUME NEW b \in Accounts
      PROVE  char_storage[b].rev <= count["move"] /\ storage_db'[m][b].rev <= count["move"]
      BY <1>2, NowHere
<1>5. /\ UNCHANGED << server_session, char_session, toMap, char_storage >>
      /\ count'["move"] = count["move"]
      OBVIOUS
<1>6. FlowAt(m)'
      BY <1>1, <1>3, <1>4, <1>5 DEF FlowAt
<1> QED BY <1>2, <1>6, OnlyHere

LEMMA FlowSaves ==
    ASSUME IInv, OneServer, FlowInv, NEW m \in MapServers, NEW a \in Accounts,
           Autosave(m, a) \/ CloseStorage(m, a) \/ Quit(m, a)
    PROVE  /\ FlowInv'
           /\ \A b \in Accounts : storage_db'[m][b].rev = storage_db[m][b].rev
<1>1. CASE Autosave(m, a)
  <2>1. count'["move"] = count["move"]
        BY <1>1, CountsOn DEF IInv, Autosave, Kinds
  <2>2. /\ Playing(m, a) /\ chrif_save(m, a) /\ UNCHANGED storage_db
        /\ UNCHANGED << server_session, char_session, toMap, char_storage >>
        BY <1>1 DEF Autosave
  <2> QED BY <2>1, <2>2, FlowFreed
<1>2. CASE CloseStorage(m, a)
  <2>1. /\ (UNCHANGED toChar \/ (Playing(m, a) /\ chrif_save(m, a)))
        /\ Stored(m, a, [storage_db[m][a] EXCEPT !.status = 0])
        /\ UNCHANGED << server_session, char_session, toMap, char_storage >>
        /\ UNCHANGED count
        BY <1>2 DEF CloseStorage
  <2> QED BY <2>1, FlowFreed
<1>3. CASE Quit(m, a)
  <2>1. /\ (UNCHANGED toChar \/ (Playing(m, a) /\ chrif_save(m, a)))
        /\ \/ Stored(m, a, [storage_db[m][a] EXCEPT !.status = 0])
           \/ UNCHANGED storage_db
        /\ UNCHANGED << server_session, char_session, toMap, char_storage >>
        /\ UNCHANGED count
        BY <1>3 DEF Quit
  <2> QED BY <2>1, FlowFreed
<1> QED BY <1>1, <1>2, <1>3

\* What is left of the packets under way when an end closes.
LEMMA EndsOf ==
    ASSUME IInv, NEW m \in MapServers
    PROVE  /\ CharEndCloses(m) =>
                 /\ server_session'[m] = FALSE /\ UNCHANGED char_session
                 /\ toChar'[m] = << >>
                 /\ \/ /\ char_session[m]
                       /\ \E k \in 0 .. Len(toMap[m]) : toMap'[m] = SubSeq(toMap[m], 1, k)
                    \/ toMap'[m] = << >>
           /\ MapEndCloses(m) =>
                 /\ char_session'[m] = FALSE /\ UNCHANGED server_session
                 /\ toMap'[m] = << >>
                 /\ \/ /\ server_session[m]
                       /\ \E k \in 0 .. Len(toChar[m]) : toChar'[m] = SubSeq(toChar[m], 1, k)
                    \/ toChar'[m] = << >>
<1>1. ASSUME CharEndCloses(m)
      PROVE  /\ server_session'[m] = FALSE /\ UNCHANGED char_session
             /\ toChar'[m] = << >>
             /\ \/ /\ char_session[m]
                   /\ \E k \in 0 .. Len(toMap[m]) : toMap'[m] = SubSeq(toMap[m], 1, k)
                \/ toMap'[m] = << >>
      BY <1>1 DEF IInv, LinkInv, CharEndCloses, StillDelivered
<1>2. ASSUME MapEndCloses(m)
      PROVE  /\ char_session'[m] = FALSE /\ UNCHANGED server_session
             /\ toMap'[m] = << >>
             /\ \/ /\ server_session[m]
                   /\ \E k \in 0 .. Len(toChar[m]) : toChar'[m] = SubSeq(toChar[m], 1, k)
                \/ toChar'[m] = << >>
      BY <1>2 DEF IInv, LinkInv, MapEndCloses, StillDelivered
<1> QED BY <1>1, <1>2

LEMMA FlowBreak ==
    ASSUME IInv, OneServer, FlowInv, NEW m \in MapServers, Break(m)
    PROVE  FlowInv'
<1> DEFINE tc == toChar[m]
           tm == toMap[m]
<1>1. UNCHANGED << char_storage, storage_db >> /\ count'["move"] = count["move"]
      BY CountsOn DEF IInv, Break, Kinds
<1>2. /\ tm \in Seq(CharPackets) /\ tc \in Seq(MapPackets)
      /\ Past(tc, count["move"]) /\ count["move"] \in Nat
      BY NowHere
<1>3. CASE CharEndCloses(m)
  <2>1. /\ toChar'[m] = << >> /\ UNCHANGED char_session
        /\ \/ /\ char_session[m]
              /\ \E k \in 0 .. Len(tm) : toMap'[m] = SubSeq(tm, 1, k)
           \/ toMap'[m] = << >>
        BY <1>3, EndsOf
  <2>2. ASSUME NEW b \in Accounts
        PROVE  Flow(b, toMap'[m], << >>, storage_db[m][b], char_storage[b].rev, char_session[m])
    <3>1. Flow(b, tm, tc, storage_db[m][b], char_storage[b].rev, char_session[m])
          BY NowHere
    <3>2. /\ \A k \in 0 .. Len(tm) :
                Flow(b, SubSeq(tm, 1, k), << >>, storage_db[m][b], char_storage[b].rev, TRUE)
          /\ Flow(b, << >>, << >>, storage_db[m][b], char_storage[b].rev, char_session[m])
          BY <1>2, <3>1, FlowBroken
    <3>3. char_session[m] => char_session[m] = TRUE
          BY DEF IInv, LinkInv
    <3> QED BY <2>1, <3>2, <3>3
  <2>3. Past(<< >>, count["move"])
        BY <1>2, PastKeeps
  <2>4. FlowAt(m)'
        BY <1>1, <2>1, <2>2, <2>3, NowHere DEF FlowAt
  <2> QED BY <2>4, OnlyHere
<1>4. CASE MapEndCloses(m)
  <2>1. /\ toMap'[m] = << >> /\ char_session'[m] = FALSE /\ UNCHANGED server_session
        /\ \/ /\ server_session[m]
              /\ \E k \in 0 .. Len(tc) : toChar'[m] = SubSeq(tc, 1, k)
           \/ toChar'[m] = << >>
        BY <1>4, EndsOf
  <2>2. ASSUME NEW b \in Accounts
        PROVE  Flow(b, << >>, toChar'[m], storage_db[m][b], char_storage[b].rev, FALSE)
    <3>1. Flow(b, tm, tc, storage_db[m][b], char_storage[b].rev, char_session[m])
          BY NowHere
    <3>2. /\ \A k \in 0 .. Len(tc) :
                Flow(b, << >>, SubSeq(tc, 1, k), storage_db[m][b], char_storage[b].rev, FALSE)
          /\ Flow(b, << >>, << >>, storage_db[m][b], char_storage[b].rev, FALSE)
          BY <1>2, <3>1, FlowBroken
    <3> QED BY <2>1, <3>2
  <2>3. Past(toChar'[m], count["move"])
        BY <1>2, <2>1, PastKeeps
  <2>4. ~server_session[m] => toChar'[m] = << >>
        BY <2>1
  <2>5. FlowAt(m)'
        BY <1>1, <2>1, <2>2, <2>3, <2>4, NowHere DEF FlowAt
  <2> QED BY <2>5, OnlyHere
<1> QED BY <1>3, <1>4 DEF Break

LEMMA FlowCrash ==
    ASSUME IInv, OneServer, FlowInv, NEW m \in MapServers, Crash(m)
    PROVE  FlowInv' /\ \A b \in Accounts : ~storage_db'[m][b].known
<1> DEFINE tc == toChar[m]
           tm == toMap[m]
<1>1. UNCHANGED char_storage /\ count'["move"] = count["move"]
      BY CountsOn DEF IInv, Crash, Kinds
<1>2. /\ tm \in Seq(CharPackets) /\ tc \in Seq(MapPackets)
      /\ Past(tc, count["move"]) /\ count["move"] \in Nat
      BY NowHere
<1>3. /\ toMap'[m] = << >> /\ char_session'[m] = FALSE /\ UNCHANGED server_session
      /\ \/ /\ server_session[m]
            /\ \E k \in 0 .. Len(tc) : toChar'[m] = SubSeq(tc, 1, k)
         \/ toChar'[m] = << >>
      BY EndsOf DEF Crash
<1>4. ASSUME NEW b \in Accounts
      PROVE  ~storage_db'[m][b].known /\ storage_db'[m][b].rev = 0
  <2>1. storage_db'[m][b] = NoStorage
        BY DEF IInv, MapInv, Crash
  <2> QED BY <2>1 DEF NoStorage
<1>5. ASSUME NEW b \in Accounts
      PROVE  Flow(b, << >>, toChar'[m], storage_db'[m][b], char_storage[b].rev, FALSE)
  <2>1. Flow(b, tm, tc, storage_db[m][b], char_storage[b].rev, char_session[m])
        BY NowHere
  <2>2. /\ \A k \in 0 .. Len(tc) :
              Flow(b, << >>, SubSeq(tc, 1, k), storage_db[m][b], char_storage[b].rev, FALSE)
        /\ Flow(b, << >>, << >>, storage_db[m][b], char_storage[b].rev, FALSE)
        BY <1>2, <2>1, FlowBroken
  <2>3. Flow(b, << >>, toChar'[m], storage_db[m][b], char_storage[b].rev, FALSE)
        BY <1>3, <2>2
  <2>4. InOrder(toChar'[m], "3010", "3011", b)
        BY <2>3 DEF Flow
  <2> QED BY <1>4, <2>4, EmptyHasNothing DEF Flow
<1>6. Past(toChar'[m], count["move"])
      BY <1>2, <1>3, PastKeeps
<1>7. ~server_session[m] => toChar'[m] = << >>
      BY <1>3
<1>8. ASSUME NEW b \in Accounts
      PROVE  char_storage[b].rev <= count["move"] /\ storage_db'[m][b].rev <= count["move"]
      BY <1>2, <1>4, NowHere
<1>9. FlowAt(m)'
      BY <1>1, <1>3, <1>5, <1>6, <1>7, <1>8 DEF FlowAt
<1> QED BY <1>4, <1>9, OnlyHere

LEMMA FlowReconnect ==
    ASSUME IInv, OneServer, FlowInv, NEW m \in MapServers, Reconnect(m)
    PROVE  FlowInv'
<1>1. /\ ~server_session[m] /\ ~char_session[m]
      /\ char_session'[m] = TRUE
      /\ UNCHANGED << toMap, toChar, char_storage, storage_db, count >>
      BY DEF IInv, LinkInv, Reconnect
<1>2. toChar[m] = << >>
      BY <1>1, NowHere
<1>3. ASSUME NEW b \in Accounts
      PROVE  Flow(b, toMap[m], toChar[m], storage_db[m][b], char_storage[b].rev, TRUE)
  <2>1. Flow(b, toMap[m], toChar[m], storage_db[m][b], char_storage[b].rev, char_session[m])
        BY NowHere
  <2>2. toMap[m] = << >>
        BY <1>1, <2>1 DEF Flow
  <2>3. Flow(b, << >>, << >>, storage_db[m][b], char_storage[b].rev, TRUE)
        BY <2>1, NowHere, FlowBroken
  <2> QED BY <1>2, <2>2, <2>3
<1>4. FlowAt(m)'
      BY <1>1, <1>2, <1>3, NowHere DEF FlowAt
<1> QED BY <1>4, OnlyHere

LEMMA InitFlows == Init => FlowInv
<1> SUFFICES ASSUME Init, NEW m \in MapServers PROVE FlowAt(m)
    BY DEF FlowInv
<1>1. /\ toMap[m] = << >> /\ toChar[m] = << >>
      /\ char_session[m] = TRUE /\ server_session[m] = TRUE
      /\ count["move"] = 0
      BY DEF Init, LinksInit, Kinds
<1>2. ASSUME NEW a \in Accounts
      PROVE  char_storage[a].rev = 0 /\ storage_db[m][a] = NoStorage
      BY DEF Init
<1>3. NoStorage.known = FALSE /\ NoStorage.rev = 0
      BY DEF NoStorage
<1>4. Past(<< >>, 0)
      BY EmptySeq DEF Past
<1>5. ASSUME NEW a \in Accounts
      PROVE  Flow(a, << >>, << >>, NoStorage, 0, TRUE)
      BY <1>3, EmptyHasNothing DEF Flow
<1>6. ASSUME NEW a \in Accounts
      PROVE  /\ Flow(a, toMap[m], toChar[m], storage_db[m][a], char_storage[a].rev,
                     char_session[m])
             /\ char_storage[a].rev <= count["move"] /\ storage_db[m][a].rev <= count["move"]
  <2>1. char_storage[a].rev <= count["move"] /\ storage_db[m][a].rev <= count["move"]
        BY <1>1, <1>2, <1>3
  <2>2. Flow(a, toMap[m], toChar[m], storage_db[m][a], char_storage[a].rev, char_session[m])
        BY <1>1, <1>2, <1>5
  <2> QED BY <2>1, <2>2
<1> QED BY <1>1, <1>4, <1>6 DEF FlowAt

\* Every step: the invariant goes on, and what is there does not become older.
Newer(m) ==
    \A a \in Accounts :
        storage_db'[m][a].known => storage_db'[m][a].rev >= storage_db[m][a].rev

LEMMA LoadsAreNewer ==
    ASSUME IInv, FlowInv, NEW m \in MapServers,
           StorageSaved(m) \/ LoadStorage(m)
    PROVE  Newer(m)
<1> SUFFICES ASSUME NEW b \in Accounts PROVE storage_db'[m][b].rev >= storage_db[m][b].rev
    BY DEF Newer
<1> DEFINE p == Head(toMap[m])
           a == p.account_id
           stor == storage_db[m][b]
           new == storage_db'[m][b]
<1>1. /\ p \in CharPackets /\ a \in Accounts
      /\ LoadStorage(m) => p.type = "3810" /\ p.rev \in Nat
      BY HeadFromChar, FieldsToMap DEF IInv, StorageSaved, LoadStorage
<1>2. stor \in Storages /\ stor.rev \in Nat /\ char_storage[b].rev \in Nat
      BY NowHere DEF Storages, Content
<1>3. CASE StorageSaved(m)
  <2>1. CASE b = a
    <3>1. new = stor \/ new = [stor EXCEPT !.dirty = FALSE]
          BY <1>1, <1>3, <2>1 DEF IInv, MapInv, StorageSaved, Stored
    <3>2. new.rev = stor.rev
          BY <1>2, <3>1 DEF Storages
    <3> QED BY <1>2, <3>2
  <2>2. CASE b # a
    <3>1. new = stor
          BY <1>1, <1>3, <2>2 DEF IInv, MapInv, StorageSaved, Stored
    <3> QED BY <1>2, <3>1
  <2> QED BY <2>1, <2>2
<1>4. CASE LoadStorage(m)
  <2>1. \/ new = stor
        \/ /\ b = a /\ ~stor.dirty
           /\ new = [amount |-> p.amount, rev |-> p.rev, dirty |-> FALSE,
                     status |-> 1, known |-> TRUE]
        BY <1>1, <1>4 DEF IInv, MapInv, LoadStorage, Stored, Loadable
  <2>2. CASE new = stor
        BY <1>2, <2>2
  <2>3. CASE b = a /\ ~stor.dirty /\ new.rev = p.rev
    <3>1. Flow(b, toMap[m], toChar[m], stor, char_storage[b].rev, char_session[m])
          BY NowHere
    <3>2. Is(p, "3810", b) /\ 1 \in 1 .. Len(toMap[m]) /\ p = toMap[m][1]
          BY <1>1, <1>4, <2>3, NowHere, TailIs DEF Is, LoadStorage, FromChar
    <3>3. CASE stor.known
      <4>1. Bring(toMap[m], b, stor.rev)
            BY <2>3, <3>1, <3>3 DEF Flow
      <4> QED BY <1>2, <2>3, <3>2, <4>1 DEF Bring
    <3>4. CASE ~stor.known
      <4>1. stor.rev = 0
            BY <3>1, <3>4 DEF Flow
      <4> QED BY <1>1, <1>4, <2>3, <4>1
    <3> QED BY <3>3, <3>4
  <2> QED BY <2>1, <2>2, <2>3
<1> QED BY <1>3, <1>4

LEMMA FlowNext ==
    ASSUME IInv, OneServer, FlowInv, [Next]_vars
    PROVE  FlowInv' /\ \A m \in MapServers : Newer(m)
<1>1. ASSUME NEW m \in MapServers, \A b \in Accounts : storage_db'[m][b].rev = storage_db[m][b].rev
      PROVE  Newer(m)
  <2>1. \A b \in Accounts : storage_db[m][b].rev \in Nat
        BY NowHere DEF Storages
  <2> QED BY <1>1, <2>1 DEF Newer
<1>2. ASSUME NEW m \in MapServers, UNCHANGED storage_db
      PROVE  Newer(m)
      BY <1>1, <1>2
<1>3. ASSUME NEW m \in MapServers, Newer(m)
      PROVE  \A n \in MapServers : Newer(n)
      BY <1>3 DEF OneServer
<1>4. CASE UNCHANGED vars
      BY <1>2, <1>4 DEF vars, linkVars, FlowInv, FlowAt
<1>5. CASE Next
  <2>1. PICK m \in MapServers :
            \/ CharReads(m) \/ MapReads(m)
            \/ \E o \in offers : Enter(m, o)
            \/ \E a \in Accounts : Player(m, a)
            \/ Break(m) \/ Crash(m) \/ Reconnect(m)
        BY <1>5 DEF Next
  <2>2. CASE Preauth(m) \/ Invite(m) \/ Authorize(m) \/ AuthOk(m) \/ SaveCharacter(m)
             \/ \E o \in offers : Enter(m, o)
    <3>1. UNCHANGED storage_db
          BY <2>2 DEF Preauth, Invite, Authorize, AuthOk, SaveCharacter, Enter
    <3>2. FlowInv'
          BY <2>2, FlowAdmission
    <3> QED BY <1>2, <1>3, <3>1, <3>2
  <2>3. CASE SaveStorage(m) \/ SendStorage(m)
    <3>1. UNCHANGED storage_db
          BY <2>3 DEF SaveStorage, SendStorage
    <3> QED BY <1>2, <1>3, <2>3, <3>1, FlowSaveStorage, FlowSendStorage
  <2>4. CASE StorageSaved(m) \/ LoadStorage(m)
        BY <1>3, <2>4, FlowMapReads, LoadsAreNewer
  <2>5. ASSUME NEW a \in Accounts, \E c \in Characters : Select(m, a, c)
        PROVE  FlowInv' /\ Newer(m)
    <3>1. UNCHANGED storage_db
          BY <2>5 DEF Select
    <3> QED BY <1>2, <2>5, <3>1, FlowAdmission
  <2>6. ASSUME NEW a \in Accounts, Autosave(m, a) \/ CloseStorage(m, a) \/ Quit(m, a)
        PROVE  FlowInv' /\ Newer(m)
        BY <1>1, <2>6, FlowSaves
  <2>7. ASSUME NEW a \in Accounts, OpenStorage(m, a)
        PROVE  FlowInv' /\ Newer(m)
    <3>1. ASSUME NEW b \in Accounts PROVE storage_db'[m][b].rev = storage_db[m][b].rev
      <4>1. storage_db[m][b] \in Storages
            BY NowHere
      <4>2. \/ storage_db'[m][b] = storage_db[m][b]
            \/ storage_db'[m][b] = [storage_db[m][b] EXCEPT !.status = 1]
            BY <2>7 DEF IInv, MapInv, OpenStorage, Stored
      <4> QED BY <4>1, <4>2 DEF Storages
    <3> QED BY <1>1, <2>7, <3>1, FlowOpenStorage
  <2>8. ASSUME NEW a \in Accounts, NEW n \in Pieces, Add(m, a, n) \/ Get(m, a, n)
        PROVE  FlowInv' /\ Newer(m)
    <3>1. PICK i \in Nat, k \in Nat : Moved(m, a, i, k)
          BY <2>8, FlowMoves
    <3>2. /\ storage_db'[m][a].rev = count["move"] + 1
          /\ \A b \in Accounts : b # a => storage_db'[m][b] = storage_db[m][b]
          BY <3>1, FlowMoved
    <3>3. ASSUME NEW b \in Accounts PROVE storage_db'[m][b].rev >= storage_db[m][b].rev
      <4>1. /\ storage_db[m][b].rev <= count["move"] /\ count["move"] \in Nat
            /\ storage_db[m][b].rev \in Nat
            BY NowHere DEF Storages
      <4>2. CASE b = a
            BY <3>2, <4>1, <4>2
      <4>3. CASE b # a
            BY <3>2, <4>1, <4>3
      <4> QED BY <4>2, <4>3
    <3> QED BY <3>1, <3>3, FlowMoved DEF Newer
  <2>9. ASSUME NEW a \in Accounts, Player(m, a) PROVE FlowInv' /\ Newer(m)
        BY <2>5, <2>6, <2>7, <2>8, <2>9 DEF Player
  <2>10. CASE Break(m) \/ Reconnect(m)
    <3>1. UNCHANGED storage_db
          BY <2>10 DEF Break, Reconnect
    <3> QED BY <1>2, <1>3, <2>10, <3>1, FlowBreak, FlowReconnect
  <2>11. CASE Crash(m)
    <3>1. Newer(m)
          BY <2>11, FlowCrash DEF Newer
    <3> QED BY <1>3, <2>11, <3>1, FlowCrash
  <2> QED BY <1>3, <2>1, <2>2, <2>3, <2>4, <2>9, <2>10, <2>11 DEF CharReads, MapReads
<1> QED BY <1>4, <1>5

LEMMA FlowHolds == OneServer /\ Spec => [](OneServer /\ FlowInv)
<1>1. OneServer /\ IInv /\ FlowInv /\ [Next]_vars => FlowInv'
      BY FlowNext
<1>2. OneServer => OneServer'
      BY DEF OneServer
<1> QED BY <1>1, <1>2, InitFlows, IInvHolds, PTL DEF Spec

\* With one map server, an answer to 0x3010 that comes late, or a second time,
\* never puts an older storage in the place of what the map server has.
THEOREM LateAnswersAreHarmless == OneServer /\ Spec => NotOverwritten
<1>1. OneServer /\ IInv /\ FlowInv /\ [Next]_vars => \A m \in MapServers : Newer(m)
      BY FlowNext
<1>2. OneServer /\ IInv /\ FlowInv /\ [Next]_vars =>
          [\A m \in MapServers : \A a \in Accounts :
              storage_db'[m][a].known => storage_db'[m][a].rev >= storage_db[m][a].rev]_storage_db
      BY <1>1 DEF Newer
<1> QED BY <1>2, IInvHolds, FlowHolds, PTL DEF Spec, NotOverwritten

-----------------------------------------------------------------------------
(* What is closed has been saved, or its save is under way. *)

SavedHere(m) ==
    /\ Open(m)
    /\ \A a \in Accounts :
          Saved(a, toChar[m], storage_db[m][a], char_storage[a].rev)

LEMMA SavedThere ==
    ASSUME OneServer, NEW m \in MapServers, SavedHere(m)'
    PROVE  SavedInv'
BY DEF OneServer, SavedInv, SavedHere

LEMMA SavedNow ==
    ASSUME SavedInv, Unbroken, NEW m \in MapServers
    PROVE  SavedHere(m)
BY DEF SavedInv, SavedHere

LEMMA UnbrokenBefore ==
    ASSUME CharInv, UNCHANGED count \/ \E kind \in Kinds : Count(kind)
    PROVE  Unbroken' => Unbroken
<1>1. CASE UNCHANGED count
      BY <1>1 DEF Unbroken
<1>2. ASSUME NEW kind \in Kinds, Count(kind) PROVE Unbroken' => Unbroken
      BY <1>2 DEF CharInv, Count, Unbroken, Kinds
<1> QED BY <1>1, <1>2

LEMMA BreaksCount ==
    ASSUME CharInv, Count("break")
    PROVE  ~Unbroken'
BY DEF CharInv, Count, Unbroken, Kinds

\* What reading, sending and marking do to the saves of one account.
LEMMA SavedRead ==
    ASSUME NEW P, NEW tc \in Seq(P), tc # << >>, NEW a, NEW stor, NEW cs,
           Saved(a, tc, stor, cs)
    PROVE  /\ ~Is(Head(tc), "3011", a) => Saved(a, Tail(tc), stor, cs)
           /\ Is(Head(tc), "3011", a) => Saved(a, Tail(tc), stor, Head(tc).rev)
<1> DEFINE t == Tail(tc)
           h == Head(tc)
<1>1. /\ Len(t) \in Nat /\ Len(tc) = Len(t) + 1
      /\ \A i \in 1 .. Len(t) : i + 1 \in 1 .. Len(tc) /\ t[i] = tc[i + 1]
      /\ 1 \in 1 .. Len(tc) /\ h = tc[1]
      BY TailIs
<1> HIDE DEF t, h
<1>2. ASSUME NEW i \in 1 .. Len(tc), i # 1,
             \A j \in 1 .. Len(tc) : i < j => ~Is(tc[j], "3011", a)
      PROVE  /\ i - 1 \in 1 .. Len(t) /\ t[i - 1] = tc[i]
             /\ \A j \in 1 .. Len(t) : i - 1 < j => ~Is(t[j], "3011", a)
  <2>1. i - 1 \in 1 .. Len(t) /\ t[i - 1] = tc[i]
        BY <1>1, <1>2
  <2>2. ASSUME NEW j \in 1 .. Len(t), i - 1 < j PROVE ~Is(t[j], "3011", a)
    <3>1. j + 1 \in 1 .. Len(tc) /\ t[j] = tc[j + 1] /\ i < j + 1
          BY <1>1, <2>2
    <3> QED BY <1>2, <3>1
  <2> QED BY <2>1, <2>2
<1>3. ASSUME ~Has(tc, "3011", a) PROVE ~Has(t, "3011", a)
      BY <1>1, <1>3 DEF Has
<1>4. Is(h, "3011", a) => Has(tc, "3011", a)
      BY <1>1 DEF Has
<1>5. ASSUME ~Is(h, "3011", a) PROVE Saved(a, t, stor, cs)
  <2>1. ASSUME NEW i \in 1 .. Len(tc), Is(tc[i], "3011", a) PROVE i # 1
        BY <1>1, <1>5, <2>1
  <2> QED BY <1>2, <1>3, <2>1 DEF Saved
<1>6. ASSUME Is(h, "3011", a) PROVE Saved(a, t, stor, h.rev)
  <2> SUFFICES ASSUME stor.known /\ (stor.status = 0 \/ ~stor.dirty)
               PROVE  \/ h.rev = stor.rev /\ ~Has(t, "3011", a)
                      \/ \E i \in 1 .. Len(t) :
                            /\ Is(t[i], "3011", a)
                            /\ t[i].rev = stor.rev
                            /\ \A j \in 1 .. Len(t) : i < j => ~Is(t[j], "3011", a)
      BY DEF Saved
  <2>1. PICK i \in 1 .. Len(tc) :
            /\ Is(tc[i], "3011", a)
            /\ tc[i].rev = stor.rev
            /\ \A j \in 1 .. Len(tc) : i < j => ~Is(tc[j], "3011", a)
        BY <1>4, <1>6 DEF Saved
  <2>2. CASE i = 1
    <3>1. ASSUME NEW j \in 1 .. Len(t) PROVE ~Is(t[j], "3011", a)
          BY <1>1, <2>1, <2>2
    <3> QED BY <1>1, <2>1, <2>2, <3>1 DEF Has
  <2>3. CASE i # 1
        BY <1>2, <2>1, <2>3
  <2> QED BY <2>2, <2>3
<1> QED BY <1>5, <1>6 DEF t, h

LEMMA SavedSent ==
    ASSUME NEW P, NEW tc \in Seq(P), NEW a, NEW stor, NEW cs, NEW msg
    PROVE  /\ Saved(a, tc, stor, cs) /\ ~Is(msg, "3011", a)
                 => Saved(a, Append(tc, msg), stor, cs)
           /\ Is(msg, "3011", a) /\ msg.rev = stor.rev => Saved(a, Append(tc, msg), stor, cs)
<1> DEFINE t == Append(tc, msg)
<1>1. /\ Len(tc) \in Nat /\ Len(t) = Len(tc) + 1
      /\ \A i \in 1 .. Len(tc) : t[i] = tc[i]
      /\ t[Len(tc) + 1] = msg
      BY AppendIs
<1> HIDE DEF t
<1>2. ASSUME Saved(a, tc, stor, cs), ~Is(msg, "3011", a) PROVE Saved(a, t, stor, cs)
  <2>1. Has(t, "3011", a) => Has(tc, "3011", a)
    <3> SUFFICES ASSUME NEW i \in 1 .. Len(t), Is(t[i], "3011", a)
                 PROVE  Has(tc, "3011", a)
        BY DEF Has
    <3>1. i \in 1 .. Len(tc)
          BY <1>1, <1>2
    <3> QED BY <1>1, <3>1 DEF Has
  <2>2. ASSUME NEW i \in 1 .. Len(tc), Is(tc[i], "3011", a), tc[i].rev = stor.rev,
               \A j \in 1 .. Len(tc) : i < j => ~Is(tc[j], "3011", a)
        PROVE  /\ i \in 1 .. Len(t) /\ Is(t[i], "3011", a) /\ t[i].rev = stor.rev
               /\ \A j \in 1 .. Len(t) : i < j => ~Is(t[j], "3011", a)
    <3>1. i \in 1 .. Len(t) /\ t[i] = tc[i]
          BY <1>1
    <3>2. ASSUME NEW j \in 1 .. Len(t), i < j PROVE ~Is(t[j], "3011", a)
      <4>1. CASE j \in 1 .. Len(tc)
            BY <1>1, <2>2, <3>2, <4>1
      <4>2. CASE j = Len(tc) + 1
            BY <1>1, <1>2, <4>2
      <4> QED BY <1>1, <4>1, <4>2
    <3> QED BY <2>2, <3>1, <3>2
  <2> QED BY <1>2, <2>1, <2>2 DEF Saved
<1>3. ASSUME Is(msg, "3011", a), msg.rev = stor.rev PROVE Saved(a, t, stor, cs)
  <2>1. /\ Len(t) \in 1 .. Len(t) /\ t[Len(t)] = msg
        /\ \A j \in 1 .. Len(t) : ~(Len(t) < j)
        BY <1>1
  <2> QED BY <1>3, <2>1 DEF Saved
<1> QED BY <1>2, <1>3 DEF t

LEMMA SavedMarked ==
    ASSUME NEW tc, NEW a, NEW stor, NEW cs, NEW new,
           \/ /\ Saved(a, tc, stor, cs)
              /\ new.known => stor.known /\ new.rev = stor.rev
              /\ (new.status = 0 \/ ~new.dirty) => (stor.status = 0 \/ ~stor.dirty)
           \/ new.status # 0 /\ new.dirty
    PROVE  Saved(a, tc, new, cs)
BY DEF Saved

\* Steps that touch neither the storage nor its saves.
LEMMA SavedQuiet ==
    ASSUME IInv, OneServer, NEW m \in MapServers, SavedHere(m), NEW msg, msg.type # "3011",
           \/ UNCHANGED toChar
           \/ ReadFromMap(m) /\ toChar[m] # << >> /\ Head(toChar[m]).type # "3011"
           \/ SendToChar(m, msg),
           UNCHANGED << server_session, char_session, storage_db, char_storage >>
    PROVE  SavedInv'
<1>1. toChar[m] \in Seq(MapPackets) /\ Open(m) /\ Open(m)'
      BY Queues DEF IInv, SavedHere, Open
<1>2. \/ toChar'[m] = toChar[m]
      \/ /\ toChar'[m] = Tail(toChar[m]) /\ toChar[m] # << >>
         /\ Head(toChar[m]).type # "3011"
      \/ toChar'[m] = Append(toChar[m], msg)
      BY <1>1, Queues DEF IInv
<1>3. ASSUME NEW a \in Accounts
      PROVE  Saved(a, toChar'[m], storage_db[m][a], char_storage[a].rev)
  <2>1. Saved(a, toChar[m], storage_db[m][a], char_storage[a].rev)
        BY DEF SavedHere
  <2>2. ~Is(msg, "3011", a) /\ (Head(toChar[m]).type # "3011" => ~Is(Head(toChar[m]), "3011", a))
        BY DEF Is
  <2> QED BY <1>1, <1>2, <2>1, <2>2, SavedRead, SavedSent
<1>4. SavedHere(m)'
      BY <1>1, <1>3 DEF SavedHere
<1> QED BY <1>4, SavedThere

LEMMA SavedAdmission ==
    ASSUME IInv, OneServer, NEW m \in MapServers, SavedHere(m),
           \/ \E a \in Accounts, c \in Characters : Select(m, a, c)
           \/ Preauth(m) \/ Invite(m) \/ Authorize(m) \/ AuthOk(m) \/ SaveCharacter(m)
           \/ SendStorage(m)
           \/ \E o \in offers : Enter(m, o)
    PROVE  SavedInv'
<1> DEFINE other == [type |-> "2af8"]
<1>0. other.type # "3011"
      OBVIOUS
<1>1. ASSUME NEW a \in Accounts, NEW c \in Characters, Select(m, a, c) PROVE SavedInv'
  <2>1. UNCHANGED << server_session, char_session, toChar, storage_db, char_storage >>
        BY <1>1 DEF Select
  <2> QED BY <1>0, <2>1, SavedQuiet
<1>2. CASE Preauth(m)
  <2> DEFINE msg == [Head(toMap[m]) EXCEPT !.type = "3830"]
  <2>1. msg.type = "3830"
    <3>1. Head(toMap[m]) \in CharPackets /\ Head(toMap[m]).type = "3829"
          BY <1>2, HeadFromChar DEF IInv, Preauth
    <3> QED BY <3>1, FieldsToMap
  <2>2. /\ SendToChar(m, msg)
        /\ UNCHANGED << server_session, char_session, storage_db, char_storage >>
        BY <1>2 DEF Preauth, ReadFromCharAndReply
  <2> HIDE DEF msg
  <2> QED BY <2>1, <2>2, SavedQuiet
<1>3. CASE Invite(m) \/ Authorize(m) \/ SaveCharacter(m) \/ SendStorage(m)
  <2>1. /\ ReadFromMap(m) /\ toChar[m] # << >> /\ Head(toChar[m]).type # "3011"
        /\ UNCHANGED << server_session, char_session, storage_db, char_storage >>
        BY <1>3 DEF Invite, Authorize, SaveCharacter, SendStorage, ReadFromMapAndReply, FromMap
  <2> QED BY <1>0, <2>1, SavedQuiet
<1>4. CASE AuthOk(m)
      BY <1>0, <1>4, SavedQuiet DEF AuthOk
<1>5. ASSUME NEW o \in offers, Enter(m, o) PROVE SavedInv'
  <2> DEFINE msg == [type |-> "2afc", account_id |-> o.account_id, char_id |-> o.char_id]
  <2>1. msg.type # "3011"
        OBVIOUS
  <2>2. /\ SendToChar(m, msg)
        /\ UNCHANGED << server_session, char_session, storage_db, char_storage >>
        BY <1>5 DEF Enter
  <2> HIDE DEF msg
  <2> QED BY <2>1, <2>2, SavedQuiet
<1> QED BY <1>1, <1>2, <1>3, <1>4, <1>5

LEMMA SavedSaveStorage ==
    ASSUME IInv, OneServer, NEW m \in MapServers, SavedHere(m), SaveStorage(m)
    PROVE  SavedInv'
<1> DEFINE p == Head(toChar[m])
           a == p.account_id
           tc == toChar[m]
<1>1. /\ tc \in Seq(MapPackets) /\ tc # << >> /\ p.type = "3011" /\ a \in Accounts
      /\ toChar'[m] = Tail(tc)
      BY Queues, HeadFromMap, FieldsToChar DEF IInv, SaveStorage, ReadFromMapAndReply, FromMap
<1>2. /\ char_storage'[a].rev = p.rev
      /\ \A b \in Accounts : b # a => char_storage'[b] = char_storage[b]
      BY <1>1 DEF IInv, CharInv, SaveStorage
<1>3. UNCHANGED << server_session, char_session, storage_db >>
      BY DEF SaveStorage
<1>4. ASSUME NEW b \in Accounts
      PROVE  Saved(b, toChar'[m], storage_db[m][b], char_storage'[b].rev)
  <2>1. Saved(b, tc, storage_db[m][b], char_storage[b].rev)
        BY DEF SavedHere
  <2>2. CASE b = a
    <3>1. Is(p, "3011", b)
          BY <1>1, <2>2 DEF Is
    <3>2. Saved(b, Tail(tc), storage_db[m][b], p.rev)
          BY <1>1, <2>1, <3>1, SavedRead
    <3> QED BY <1>1, <1>2, <2>2, <3>2
  <2>3. CASE b # a
    <3>1. ~Is(p, "3011", b)
          BY <2>3 DEF Is
    <3>2. Saved(b, Tail(tc), storage_db[m][b], char_storage[b].rev)
          BY <1>1, <2>1, <3>1, SavedRead
    <3> QED BY <1>1, <1>2, <2>3, <3>2
  <2> QED BY <2>2, <2>3
<1>5. SavedHere(m)'
      BY <1>3, <1>4 DEF SavedHere, Open
<1> QED BY <1>5, SavedThere

LEMMA SavedMapReads ==
    ASSUME IInv, OneServer, FlowInv, NEW m \in MapServers, SavedHere(m),
           StorageSaved(m) \/ LoadStorage(m)
    PROVE  SavedInv'
<1> DEFINE p == Head(toMap[m])
           a == p.account_id
           stor == storage_db[m][a]
           new == storage_db'[m][a]
           tc == toChar[m]
<1>1. /\ p \in CharPackets /\ a \in Accounts
      /\ LoadStorage(m) => p.type = "3810"
      /\ toMap[m] # << >> /\ toMap[m] \in Seq(CharPackets)
      BY HeadFromChar, FieldsToMap, NowHere DEF IInv, StorageSaved, LoadStorage, FromChar
<1>2. /\ UNCHANGED << server_session, char_session, toChar, char_storage >>
      /\ \A b \in Accounts : b # a => storage_db'[m][b] = storage_db[m][b]
      BY <1>1 DEF IInv, MapInv, StorageSaved, LoadStorage, Stored
<1>3. stor \in Storages /\ Saved(a, tc, stor, char_storage[a].rev)
      BY <1>1, NowHere DEF SavedHere
<1>4. Saved(a, tc, new, char_storage[a].rev)
  <2>1. CASE StorageSaved(m)
    <3>1. new = stor \/ (stor.status = 0 /\ new = [stor EXCEPT !.dirty = FALSE])
          BY <1>1, <2>1 DEF IInv, MapInv, StorageSaved, Stored, StillInUse
    <3>2. /\ new.known = stor.known /\ new.rev = stor.rev /\ new.status = stor.status
          /\ new.dirty = stor.dirty \/ stor.status = 0
      <4> HIDE DEF new, stor
      <4> QED BY <1>3, <3>1 DEF Storages
    <3> HIDE DEF new, stor, tc
    <3> QED BY <1>3, <3>2, SavedMarked
  <2>2. CASE LoadStorage(m)
    <3>1. \/ new = stor
          \/ /\ ~stor.dirty
             /\ new = [amount |-> p.amount, rev |-> p.rev, dirty |-> FALSE,
                       status |-> 1, known |-> TRUE]
          BY <1>1, <2>2 DEF IInv, MapInv, LoadStorage, Stored, Loadable
    <3>2. CASE new = stor
          BY <1>3, <3>2
    <3>3. CASE ~stor.dirty /\ new.rev = p.rev
      <4>1. Flow(a, toMap[m], tc, stor, char_storage[a].rev, char_session[m])
            BY <1>1, NowHere
      <4>2. Is(p, "3810", a) /\ 1 \in 1 .. Len(toMap[m]) /\ p = toMap[m][1]
            BY <1>1, <2>2, TailIs DEF Is
      <4>3. CASE stor.known
        <5>1. new.rev = stor.rev
          <6>1. Bring(toMap[m], a, stor.rev)
                BY <3>3, <4>1, <4>3 DEF Flow
          <6> QED BY <3>3, <4>2, <6>1 DEF Bring
        <5> HIDE DEF new, stor, tc
        <5> QED BY <1>3, <3>3, <4>3, <5>1, SavedMarked
      <4>4. CASE ~stor.known
        <5>1. /\ ~Has(tc, "3011", a) /\ Bring(toMap[m], a, char_storage[a].rev)
              BY <4>1, <4>4 DEF Flow, SavedHere, Open
        <5>2. new.rev = char_storage[a].rev
              BY <3>3, <4>2, <5>1 DEF Bring
        <5> QED BY <5>1, <5>2 DEF Saved
      <4> QED BY <4>3, <4>4
    <3> HIDE DEF new, stor, p
    <3> QED BY <3>1, <3>2, <3>3
  <2> QED BY <2>1, <2>2
<1>5. ASSUME NEW b \in Accounts
      PROVE  Saved(b, tc, storage_db'[m][b], char_storage[b].rev)
      BY <1>2, <1>4 DEF SavedHere
<1>6. SavedHere(m)'
      BY <1>2, <1>5 DEF SavedHere, Open
<1> QED BY <1>6, SavedThere

LEMMA SavedOpenStorage ==
    ASSUME IInv, OneServer, NEW m \in MapServers, SavedHere(m), NEW a \in Accounts,
           OpenStorage(m, a)
    PROVE  SavedInv'
<1> DEFINE stor == storage_db[m][a]
           used == [stor EXCEPT !.status = 1]
           msg == [type |-> "3010", account_id |-> a]
<1>1. msg.type # "3011" /\ stor \in Storages
      BY Here DEF IInv
<1>2. UNCHANGED << server_session, char_session, char_storage >>
      BY DEF OpenStorage
<1>3. CASE ~stor.known
  <2>1. SendToChar(m, msg) /\ UNCHANGED storage_db
        BY <1>3 DEF OpenStorage
  <2> HIDE DEF msg
  <2> QED BY <1>1, <1>2, <2>1, SavedQuiet
<1>4. CASE stor.known
  <2>1. /\ storage_db'[m][a] = used /\ stor.status = 0 /\ UNCHANGED toChar
        /\ \A b \in Accounts : b # a => storage_db'[m][b] = storage_db[m][b]
    <3>1. storage_db \in [MapServers -> [Accounts -> Storages]]
          BY DEF IInv, MapInv
    <3>2. stor.status = 0 /\ Stored(m, a, used) /\ UNCHANGED toChar
          BY <1>4 DEF OpenStorage
    <3> HIDE DEF used
    <3> QED BY <3>1, <3>2 DEF Stored
  <2>2. used.known = stor.known /\ used.rev = stor.rev
        BY <1>1 DEF Storages
  <2>3. ASSUME NEW b \in Accounts
        PROVE  Saved(b, toChar[m], storage_db'[m][b], char_storage[b].rev)
    <3>1. Saved(b, toChar[m], storage_db[m][b], char_storage[b].rev)
          BY DEF SavedHere
    <3>2. CASE b = a
      <4> HIDE DEF used
      <4> QED BY <2>1, <2>2, <3>1, <3>2, SavedMarked
    <3>3. CASE b # a
          BY <2>1, <3>1, <3>3
    <3> QED BY <3>2, <3>3
  <2>4. SavedHere(m)'
        BY <1>2, <2>1, <2>3 DEF SavedHere, Open
  <2> QED BY <2>4, SavedThere
<1> QED BY <1>3, <1>4

LEMMA SavedMoved ==
    ASSUME IInv, OneServer, FlowInv, NEW m \in MapServers, SavedHere(m), NEW a \in Accounts,
           NEW i \in Nat, NEW k \in Nat, Moved(m, a, i, k)
    PROVE  SavedInv'
<1>1. /\ \A b \in Accounts : b # a => storage_db'[m][b] = storage_db[m][b]
      /\ storage_db'[m][a].dirty /\ storage_db'[m][a].status # 0
      BY FlowMoved
<1>2. UNCHANGED << server_session, char_session, toChar, char_storage >>
      BY DEF Moved, linkVars
<1>3. ASSUME NEW b \in Accounts
      PROVE  Saved(b, toChar[m], storage_db'[m][b], char_storage[b].rev)
  <2>1. Saved(b, toChar[m], storage_db[m][b], char_storage[b].rev)
        BY DEF SavedHere
  <2> QED BY <1>1, <2>1, SavedMarked
<1>4. SavedHere(m)'
      BY <1>2, <1>3 DEF SavedHere, Open
<1> QED BY <1>4, SavedThere

\* A save of a session: an open storage that has changed goes along, and only
\* then is it marked as not in use.
LEMMA SavedSaves ==
    ASSUME IInv, OneServer, NEW m \in MapServers, SavedHere(m), NEW a \in Accounts,
           Autosave(m, a) \/ CloseStorage(m, a) \/ Quit(m, a)
    PROVE  SavedInv'
<1> DEFINE s == sess[m][a]
           stor == storage_db[m][a]
           new == storage_db'[m][a]
           free == [stor EXCEPT !.status = 0]
           character == [type |-> "2b01", account_id |-> a, char_id |-> s.char_id,
                         amount |-> s.amount]
           storage == [type |-> "3011", account_id |-> a,
                       amount |-> stor.amount, rev |-> stor.rev]
           tc == toChar[m]
           once == Append(tc, character)
<1>1. /\ tc \in Seq(MapPackets) /\ Open(m) /\ char_session[m] /\ stor \in Storages
      /\ s.storage_open => stor.known /\ stor.status = 1
      BY Here, Queues DEF IInv, SavedHere, Sound
<1>2. Playing(m, a) /\ chrif_save(m, a)
  <2>1. CASE Autosave(m, a)
        BY <2>1 DEF Autosave
  <2>2. CASE CloseStorage(m, a)
        BY <1>1, <2>2 DEF CloseStorage
  <2>3. CASE Quit(m, a)
        BY <1>1, <2>3 DEF Quit
  <2> QED BY <2>1, <2>2, <2>3
<1>3. /\ once \in Seq(MapPackets)
      /\ \/ ~(s.storage_open /\ stor.dirty) /\ toChar'[m] = once
         \/ s.storage_open /\ stor.dirty /\ toChar'[m] = Append(once, storage)
      BY <1>1, <1>2, SavesAre
<1>4. /\ UNCHANGED << server_session, char_session, char_storage >>
      /\ \A b \in Accounts : b # a => storage_db'[m][b] = storage_db[m][b]
      /\ new = stor \/ (s.storage_open /\ new = free)
      BY DEF IInv, MapInv, Autosave, CloseStorage, Quit, Stored
<1>5. free.known = stor.known /\ free.rev = stor.rev /\ free.dirty = stor.dirty
      BY <1>1 DEF Storages
<1>6. /\ character.type = "2b01" /\ storage.type = "3011" /\ storage.account_id = a
      /\ storage.rev = stor.rev
      OBVIOUS
<1> HIDE DEF character, storage
<1>7. ASSUME NEW b \in Accounts
      PROVE  Saved(b, once, storage_db[m][b], char_storage[b].rev)
  <2>1. Saved(b, tc, storage_db[m][b], char_storage[b].rev) /\ ~Is(character, "3011", b)
        BY <1>6 DEF SavedHere, Is
  <2> QED BY <1>1, <2>1, SavedSent
<1>8. ASSUME NEW b \in Accounts, b # a
      PROVE  Saved(b, toChar'[m], storage_db'[m][b], char_storage[b].rev)
  <2>1. ~Is(storage, "3011", b)
        BY <1>6, <1>8 DEF Is
  <2> HIDE DEF once
  <2>2. Saved(b, Append(once, storage), storage_db[m][b], char_storage[b].rev)
        BY <1>3, <1>7, <2>1, SavedSent
  <2> QED BY <1>3, <1>4, <1>7, <1>8, <2>2
<1>9. Saved(a, toChar'[m], new, char_storage[a].rev)
  <2>1. Is(storage, "3011", a)
        BY <1>6 DEF Is
  <2> HIDE DEF free, new, stor, once, s
  <2>2. CASE s.storage_open /\ stor.dirty /\ toChar'[m] = Append(once, storage)
    <3>1. new.rev = stor.rev
          BY <1>4, <1>5
    <3> QED BY <1>3, <1>6, <2>1, <2>2, <3>1, SavedSent
  <2>3. CASE ~(s.storage_open /\ stor.dirty) /\ toChar'[m] = once
    <3>1. Saved(a, once, stor, char_storage[a].rev)
          BY <1>7 DEF stor
    <3>2. /\ new.known = stor.known /\ new.rev = stor.rev
          /\ (new.status = 0 \/ ~new.dirty) => (stor.status = 0 \/ ~stor.dirty)
          BY <1>4, <1>5, <2>3
    <3> QED BY <2>3, <3>1, <3>2, SavedMarked
  <2> QED BY <1>3, <2>2, <2>3
<1>10. SavedHere(m)'
       BY <1>1, <1>4, <1>8, <1>9 DEF SavedHere, Open
<1> QED BY <1>10, SavedThere

LEMMA InitSaves == Init => SavedInv
<1> SUFFICES ASSUME Init, NEW m \in MapServers
             PROVE  /\ Open(m)
                    /\ \A a \in Accounts :
                          Saved(a, toChar[m], storage_db[m][a], char_storage[a].rev)
    BY DEF SavedInv
<1>1. Open(m)
      BY DEF Init, Open
<1>2. ASSUME NEW a \in Accounts PROVE ~storage_db[m][a].known
      BY DEF Init, NoStorage
<1> QED BY <1>1, <1>2 DEF Saved

LEMMA SavedNext ==
    ASSUME IInv, OneServer, FlowInv, SavedInv, [Next]_vars
    PROVE  SavedInv'
<1> SUFFICES ASSUME Unbroken' PROVE SavedInv'
    BY DEF SavedInv
<1>0. CharInv
      BY DEF IInv
<1>1. CASE UNCHANGED vars
      BY <1>1 DEF vars, linkVars, SavedInv, Unbroken, Open
<1>2. CASE Next
  <2>1. PICK m \in MapServers :
            \/ CharReads(m) \/ MapReads(m)
            \/ \E o \in offers : Enter(m, o)
            \/ \E a \in Accounts : Player(m, a)
            \/ Break(m) \/ Crash(m) \/ Reconnect(m)
        BY <1>2 DEF Next
  <2>2. ASSUME UNCHANGED count \/ \E kind \in Kinds : Count(kind)
        PROVE  SavedHere(m)
        BY <1>0, <2>2, UnbrokenBefore, SavedNow
  <2>3. CASE CharReads(m)
    <3>1. UNCHANGED count
          BY <2>3 DEF CharReads, Invite, Authorize, SaveCharacter, SaveStorage, SendStorage
    <3> QED BY <2>2, <2>3, <3>1, SavedAdmission, SavedSaveStorage DEF CharReads
  <2>4. CASE MapReads(m)
    <3>1. UNCHANGED count
          BY <2>4 DEF MapReads, Preauth, AuthOk, StorageSaved, LoadStorage
    <3> QED BY <2>2, <2>4, <3>1, SavedAdmission, SavedMapReads DEF MapReads
  <2>5. ASSUME NEW o \in offers, Enter(m, o) PROVE SavedInv'
    <3>1. UNCHANGED count
          BY <2>5 DEF Enter
    <3> QED BY <2>2, <2>5, <3>1, SavedAdmission
  <2>6. ASSUME NEW a \in Accounts, Player(m, a) PROVE SavedInv'
    <3>1. CASE \E c \in Characters : Select(m, a, c)
      <4>1. Count("select") /\ "select" \in Kinds
            BY <3>1 DEF Select, Kinds
      <4> QED BY <2>2, <3>1, <4>1, SavedAdmission
    <3>2. CASE Autosave(m, a) \/ CloseStorage(m, a) \/ Quit(m, a)
      <4>1. UNCHANGED count \/ Count("save")
            BY <3>2 DEF Autosave, CloseStorage, Quit
      <4>2. "save" \in Kinds
            BY DEF Kinds
      <4> QED BY <2>2, <3>2, <4>1, <4>2, SavedSaves
    <3>3. CASE OpenStorage(m, a)
      <4>1. Count("open") /\ "open" \in Kinds
            BY <3>3 DEF OpenStorage, Kinds
      <4> QED BY <2>2, <3>3, <4>1, SavedOpenStorage
    <3>4. ASSUME NEW n \in Pieces, Add(m, a, n) \/ Get(m, a, n) PROVE SavedInv'
      <4>1. PICK i \in Nat, k \in Nat : Moved(m, a, i, k)
            BY <3>4, FlowMoves
      <4>2. Count("move") /\ "move" \in Kinds
            BY <4>1 DEF Moved, Kinds
      <4> QED BY <2>2, <4>1, <4>2, SavedMoved
    <3> QED BY <2>6, <3>1, <3>2, <3>3, <3>4 DEF Player
  <2>7. CASE Break(m) \/ Crash(m) \/ Reconnect(m)
    <3>1. Count("break") \/ ~Open(m)
          BY <2>7 DEF Break, Crash, Reconnect, Open
    <3>2. ~Count("break")
          BY <1>0, BreaksCount
    <3>3. UNCHANGED count
          BY <2>7, <3>2 DEF Break, Crash, Reconnect
    <3> QED BY <2>2, <3>1, <3>2, <3>3 DEF SavedHere
  <2> QED BY <2>1, <2>3, <2>4, <2>5, <2>6, <2>7
<1> QED BY <1>1, <1>2

LEMMA SavedIsClean == IInv /\ SavedInv => CleanIsSaved
<1> SUFFICES ASSUME IInv, SavedInv, Unbroken, NEW m \in MapServers, NEW a \in Accounts,
                    storage_db[m][a].known, storage_db[m][a].status = 0
             PROVE  \/ char_storage[a].rev = storage_db[m][a].rev
                    \/ \E i \in DOMAIN toChar[m] :
                          /\ toChar[m][i].type = "3011"
                          /\ toChar[m][i].account_id = a
                          /\ toChar[m][i].rev = storage_db[m][a].rev
    BY DEF CleanIsSaved
<1>1. Saved(a, toChar[m], storage_db[m][a], char_storage[a].rev)
      BY SavedNow DEF SavedHere
<1>2. DOMAIN toChar[m] = 1 .. Len(toChar[m])
      BY LenProperties DEF IInv, LinkInv
<1> QED BY <1>1, <1>2 DEF Saved, Is

\* With one map server and no connection lost, a storage that is closed has been
\* saved or its save is under way: an answer to another save does no harm.
THEOREM ClosedStoragesAreSaved == OneServer /\ Spec => []CleanIsSaved
<1>1. OneServer /\ IInv /\ FlowInv /\ SavedInv /\ [Next]_vars => SavedInv'
      BY SavedNext
<1>2. IInv /\ SavedInv => CleanIsSaved
      BY SavedIsClean
<1> QED BY <1>1, <1>2, InitSaves, IInvHolds, FlowHolds, PTL DEF Spec

-----------------------------------------------------------------------------
(* Sums over finite sets: how much the characters of an account have.          *)

\* A set of numbers with 0 and with the successor of each of its elements has
\* them all.
LEMMA Induction ==
    ASSUME NEW S, 0 \in S, \A n \in Nat : n \in S => n + 1 \in S
    PROVE  Nat \subseteq S
<1> DEFINE Below == OpToRel(<, Nat)
           Rest == Nat \ S
<1>1. SUFFICES ASSUME Rest # {} PROVE FALSE
      OBVIOUS
<1>2. PICK x \in Rest : \A y \in Rest : << y, x >> \notin Below
  <2> HIDE DEF Below, Rest
  <2>1. IsWellFoundedOn(Below, Nat)
        BY NatLessThanWellFounded, Zenon DEF Below
  <2>2. Rest \subseteq Nat
        BY DEF Rest
  <2> QED BY <1>1, <2>1, <2>2, WFMin
<1>3. x \in Nat /\ x # 0 /\ x - 1 \in Nat
      OBVIOUS
<1>4. << x - 1, x >> \in Below
      BY <1>3 DEF OpToRel
<1>5. x - 1 \notin Rest
  <2> HIDE DEF Below, Rest
  <2> QED BY <1>2, <1>4
<1>6. x - 1 \in S
      BY <1>3, <1>5
<1>7. (x - 1) + 1 = x
      BY <1>3
<1> QED BY <1>3, <1>6, <1>7

\* The recursive definition of MapThenSumSet
IsSum(plus, S, c) ==
    plus = [T \in SUBSET S |-> IF T = {} THEN 0
                               ELSE LET x == CHOOSE y \in T : TRUE IN c[x] + plus[T \ {x}]]

LEMMA SumExists ==
    ASSUME NEW S, IsFiniteSet(S), NEW c
    PROVE  \E plus : IsSum(plus, S, c)
<1> DEFINE Small(n) == {T \in SUBSET S : Cardinality(T) <= n}
           F(g, n) == [T \in Small(n) |-> IF T = {} THEN 0
                                          ELSE c[CHOOSE y \in T : TRUE]
                                                 + g[T \ {CHOOSE y \in T : TRUE}]]
           Defined == {n \in Nat : \E g : g = F(g, n)}
<1>1. \A T \in SUBSET S : IsFiniteSet(T) /\ Cardinality(T) \in Nat
      BY FS_Subset, FS_CardinalityType
<1>2. 0 \in Defined
  <2>1. \A T \in Small(0) : T = {}
        BY <1>1, FS_EmptySet
  <2>2. [T \in Small(0) |-> 0] = F([T \in Small(0) |-> 0], 0)
    <3> HIDE DEF Small
    <3> QED BY <2>1
  <2> HIDE DEF F
  <2> QED BY <2>2
<1>3. ASSUME NEW n \in Nat, n \in Defined PROVE n + 1 \in Defined
  <2>1. PICK g : g = F(g, n)
        BY <1>3
  <2> DEFINE h == F(g, n + 1)
  <2>2. \A T \in Small(n) : T \in Small(n + 1) /\ h[T] = g[T]
    <3>1. \A T \in Small(n) : T \in Small(n + 1)
          BY <1>1
    <3>2. \A T \in Small(n) : g[T] = F(g, n)[T]
      <4> HIDE DEF F
      <4> QED BY <2>1
    <3> HIDE DEF Small
    <3> QED BY <3>1, <3>2
  <2>3. ASSUME NEW T \in Small(n + 1), T # {}
        PROVE  T \ {CHOOSE y \in T : TRUE} \in Small(n)
    <3> DEFINE x == CHOOSE y \in T : TRUE
    <3>1. x \in T
          BY <2>3
    <3> HIDE DEF x
    <3>2. Cardinality(T \ {x}) = Cardinality(T) - 1
          BY <3>1, <1>1, FS_RemoveElement
    <3>3. Cardinality(T \ {x}) <= n /\ T \ {x} \in SUBSET S
          BY <3>2, <1>1
    <3> QED BY <3>3 DEF x
  <2>4. h = F(h, n + 1)
    <3>1. ASSUME NEW T \in Small(n + 1)
          PROVE  (IF T = {} THEN 0
                  ELSE c[CHOOSE y \in T : TRUE] + g[T \ {CHOOSE y \in T : TRUE}])
                   = (IF T = {} THEN 0
                      ELSE c[CHOOSE y \in T : TRUE] + h[T \ {CHOOSE y \in T : TRUE}])
      <4> HIDE DEF h, Small
      <4> QED BY <2>2, <2>3
    <3> HIDE DEF Small
    <3> QED BY <3>1
  <2> HIDE DEF h, F
  <2> QED BY <2>4
<1>4. Cardinality(S) \in Defined
  <2>1. Cardinality(S) \in Nat
        BY FS_CardinalityType
  <2> HIDE DEF Defined
  <2> QED BY <2>1, <1>2, <1>3, Induction
<1>5. Small(Cardinality(S)) = SUBSET S
  <2>1. \A T \in SUBSET S : Cardinality(T) <= Cardinality(S)
        BY FS_Subset
  <2> QED BY <2>1
<1>6. PICK g : g = F(g, Cardinality(S))
      BY <1>4
<1>7. IsSum(g, S, c)
  <2> HIDE DEF Small
  <2> QED BY <1>5, <1>6 DEF IsSum
<1> QED BY <1>7

AddsUp(plus, S, c) ==
    \A T \in SUBSET S :
        plus[T] = IF T = {} THEN 0
                  ELSE c[CHOOSE y \in T : TRUE] + plus[T \ {CHOOSE y \in T : TRUE}]

LEMMA SumIs ==
    ASSUME NEW S, NEW c, NEW plus, IsSum(plus, S, c)
    PROVE  AddsUp(plus, S, c)
<1> SUFFICES ASSUME NEW T \in SUBSET S
             PROVE  plus[T] = IF T = {} THEN 0
                              ELSE c[CHOOSE y \in T : TRUE] + plus[T \ {CHOOSE y \in T : TRUE}]
    BY DEF AddsUp
<1> DEFINE F(g) == [U \in SUBSET S |-> IF U = {} THEN 0
                                       ELSE c[CHOOSE y \in U : TRUE]
                                              + g[U \ {CHOOSE y \in U : TRUE}]]
<1>1. plus = F(plus)
      BY DEF IsSum
<1>2. plus[T] = F(plus)[T]
  <2> HIDE DEF F
  <2> QED BY <1>1
<1> QED BY <1>2

\* Two sums of numbers of which at most one differs.
LEMMA SumsDiffer ==
    ASSUME NEW S, IsFiniteSet(S), NEW c \in [S -> Nat], NEW d \in [S -> Nat], NEW x,
           \A y \in S : y # x => d[y] = c[y],
           NEW plus, IsSum(plus, S, c), NEW sum, IsSum(sum, S, d)
    PROVE  /\ plus[S] \in Nat /\ sum[S] \in Nat
           /\ x \in S => sum[S] + c[x] = plus[S] + d[x]
           /\ x \notin S => sum[S] = plus[S]
<1> DEFINE Differ(T) == /\ plus[T] \in Nat /\ sum[T] \in Nat
                        /\ x \in T => sum[T] + c[x] = plus[T] + d[x]
                        /\ x \notin T => sum[T] = plus[T]
           Good == {n \in Nat : \A T \in SUBSET S : Cardinality(T) = n => Differ(T)}
<1>1. \A T \in SUBSET S : IsFiniteSet(T) /\ Cardinality(T) \in Nat
      BY FS_Subset, FS_CardinalityType
<1>2. AddsUp(plus, S, c) /\ AddsUp(sum, S, d)
      BY SumIs
<1>3. 0 \in Good
  <2>1. \A T \in SUBSET S : Cardinality(T) = 0 => T = {}
        BY <1>1, FS_EmptySet
  <2>2. plus[{}] = 0 /\ sum[{}] = 0
        BY <1>2 DEF AddsUp
  <2>3. Differ({})
        BY <2>2
  <2> HIDE DEF Differ
  <2> QED BY <2>1, <2>3
<1>4. ASSUME NEW n \in Nat, n \in Good PROVE n + 1 \in Good
  <2> SUFFICES ASSUME NEW T \in SUBSET S, Cardinality(T) = n + 1 PROVE Differ(T)
        OBVIOUS
  <2> DEFINE z == CHOOSE y \in T : TRUE
             U == T \ {z}
  <2>1. T # {}
        BY FS_EmptySet
  <2>2. z \in T
        BY <2>1
  <2>3. plus[T] = c[z] + plus[U] /\ sum[T] = d[z] + sum[U]
        BY <1>2, <2>1 DEF AddsUp
  <2> HIDE DEF z
  <2>4. Cardinality(U) = n
    <3>1. Cardinality(T \ {z}) = Cardinality(T) - 1
          BY <2>2, <1>1, FS_RemoveElement
    <3> QED BY <3>1
  <2>5. Differ(U)
    <3>1. U \in SUBSET S
          OBVIOUS
    <3> QED BY <1>4, <2>4, <3>1
  <2>6. /\ c[z] \in Nat /\ d[z] \in Nat /\ (z # x => d[z] = c[z])
        /\ x \in T => c[x] \in Nat /\ d[x] \in Nat
        /\ x \in U <=> x \in T /\ x # z
        BY <2>2
  <2> HIDE DEF U
  <2>7. CASE z = x
        BY <2>2, <2>3, <2>5, <2>6, <2>7
  <2>8. CASE z # x
        BY <2>2, <2>3, <2>5, <2>6, <2>8
  <2> QED BY <2>7, <2>8
<1>5. Cardinality(S) \in Good
  <2>1. Cardinality(S) \in Nat
        BY FS_CardinalityType
  <2> HIDE DEF Good
  <2> QED BY <2>1, <1>3, <1>4, Induction
<1> QED BY <1>5

\* What the characters of an account have together, when one of them has more or less.
LEMMA TotalIs ==
    ASSUME NEW a \in Accounts, NEW inv \in [Characters -> Nat]
    PROVE  \E plus : /\ IsSum(plus, Owned(a), [c \in Owned(a) |-> inv[c]])
                     /\ Total(inv, a) = plus[Owned(a)]
<1> DEFINE S == Owned(a)
           v == [c \in S |-> inv[c]]
           F(g) == [s \in SUBSET S |-> IF s = {} THEN 0
                                       ELSE LET x == CHOOSE y \in s : TRUE
                                            IN inv[x] + g[s \ {x}]]
           plus == CHOOSE g : g = F(g)
<1>1. IsFiniteSet(S)
      BY StorageAssumption, FS_Subset DEF Owned
<1>2. Total(inv, a) = plus[S]
      BY DEF Total, MapThenSumSet, MapThenFoldSet
<1>3. \A g : IsSum(g, S, v) <=> g = F(g)
  <2>1. ASSUME NEW T \in SUBSET S, T # {}
        PROVE  v[CHOOSE y \in T : TRUE] = inv[CHOOSE y \in T : TRUE]
    <3> DEFINE x == CHOOSE y \in T : TRUE
    <3>1. x \in S
          BY <2>1
    <3> HIDE DEF x, S
    <3> QED BY <3>1 DEF x
  <2> TAKE g
  <2> HIDE DEF v, S
  <2> QED BY <2>1 DEF IsSum
<1>4. IsSum(plus, S, v)
  <2>1. \E g : IsSum(g, S, v)
    <3> HIDE DEF S, v
    <3> QED BY <1>1, SumExists
  <2> HIDE DEF F, S, v
  <2> QED BY <2>1, <1>3
<1> HIDE DEF plus
<1> QED BY <1>2, <1>4

LEMMA TotalChanges ==
    ASSUME NEW a \in Accounts, NEW inv \in [Characters -> Nat],
           NEW new \in [Characters -> Nat], NEW x,
           \A c \in Owned(a) : c # x => new[c] = inv[c]
    PROVE  /\ Total(inv, a) \in Nat /\ Total(new, a) \in Nat
           /\ x \in Owned(a) => Total(new, a) + inv[x] = Total(inv, a) + new[x]
           /\ x \notin Owned(a) => Total(new, a) = Total(inv, a)
<1> DEFINE S == Owned(a)
           c == [y \in S |-> inv[y]]
           d == [y \in S |-> new[y]]
<1>1. IsFiniteSet(S) /\ S \subseteq Characters
      BY StorageAssumption, FS_Subset DEF Owned
<1>2. c \in [S -> Nat] /\ d \in [S -> Nat]
      BY <1>1
<1>3. PICK plus : IsSum(plus, S, c) /\ Total(inv, a) = plus[S]
      BY TotalIs
<1>4. PICK sum : IsSum(sum, S, d) /\ Total(new, a) = sum[S]
      BY TotalIs
<1>5. \A y \in S : y # x => d[y] = c[y]
      OBVIOUS
<1>6. x \in S => c[x] = inv[x] /\ d[x] = new[x]
      OBVIOUS
<1> HIDE DEF S, c, d
<1> QED BY <1>1, <1>2, <1>3, <1>4, <1>5, <1>6, SumsDiffer DEF S

-----------------------------------------------------------------------------
(* The char server while it reads what is under way: inventories and storages  *)
(* after each packet.                                                          *)

Point == [inv : [Characters -> Nat], cs : [Accounts -> Nat]]

Read(p, h) ==
    [inv |-> IF p.type = "2b01" THEN [h.inv EXCEPT ![p.char_id] = p.amount] ELSE h.inv,
     cs |-> IF p.type = "3011" THEN [h.cs EXCEPT ![p.account_id] = p.amount] ELSE h.cs]

\* Nothing of an account is lost or doubled.
Even(a, h) == Total(h.inv, a) + h.cs[a] = Total(Bag, a)

\* Before each packet nothing is lost or doubled, but for what it puts right.
IsCourse(q, h) ==
    /\ h \in [0 .. Len(q) -> Point]
    /\ \A i \in 1 .. Len(q) :
          /\ h[i] = Read(q[i], h[i - 1])
          /\ \A a \in Accounts : Even(a, h[i - 1]) \/ Is(q[i], "3011", a)

Course(q, from, to) == \E h : IsCourse(q, h) /\ h[0] = from /\ h[Len(q)] = to

LEMMA ReadPoint ==
    ASSUME NEW p \in MapPackets, NEW h \in Point
    PROVE  Read(p, h) \in Point
<1>1. p.type = "2b01" => [h.inv EXCEPT ![p.char_id] = p.amount] \in [Characters -> Nat]
      BY FieldsToChar DEF Point
<1>2. p.type = "3011" => [h.cs EXCEPT ![p.account_id] = p.amount] \in [Accounts -> Nat]
      BY FieldsToChar DEF Point
<1> QED BY <1>1, <1>2 DEF Read, Point

LEMMA CourseStarts ==
    ASSUME NEW q, Len(q) = 0, NEW from \in Point
    PROVE  Course(q, from, from)
<1> DEFINE h == [i \in 0 .. 0 |-> from]
<1>1. h \in [0 .. 0 -> Point] /\ h[0] = from
      OBVIOUS
<1> HIDE DEF h
<1> QED BY <1>1 DEF Course, IsCourse

\* Where it begins and ends
LEMMA CourseEnds ==
    ASSUME NEW P, NEW q \in Seq(P), NEW from, NEW to, Course(q, from, to)
    PROVE  from \in Point /\ to \in Point
<1>1. Len(q) \in Nat
      BY LenProperties
<1> QED BY <1>1 DEF Course, IsCourse

\* The next packet is read.
LEMMA CourseRead ==
    ASSUME NEW P, NEW q \in Seq(P), q # << >>, NEW from, NEW to, Course(q, from, to)
    PROVE  /\ Course(Tail(q), Read(Head(q), from), to)
           /\ \A a \in Accounts : Even(a, from) \/ Is(Head(q), "3011", a)
<1> DEFINE t == Tail(q)
<1>1. /\ Len(t) \in Nat /\ Len(q) = Len(t) + 1
      /\ \A i \in 1 .. Len(t) : i + 1 \in 1 .. Len(q) /\ t[i] = q[i + 1]
      /\ 1 \in 1 .. Len(q) /\ Head(q) = q[1]
      BY TailIs
<1>2. PICK h : IsCourse(q, h) /\ h[0] = from /\ h[Len(q)] = to
      BY DEF Course
<1> HIDE DEF t
<1> DEFINE g == [i \in 0 .. Len(t) |-> h[i + 1]]
<1>3. /\ g \in [0 .. Len(t) -> Point]
      /\ \A i \in 0 .. Len(t) : g[i] = h[i + 1]
      BY <1>1, <1>2 DEF IsCourse
<1>4. ASSUME NEW i \in 1 .. Len(t)
      PROVE  /\ g[i] = Read(t[i], g[i - 1])
             /\ \A a \in Accounts : Even(a, g[i - 1]) \/ Is(t[i], "3011", a)
  <2>1. i + 1 \in 1 .. Len(q) /\ t[i] = q[i + 1] /\ (i + 1) - 1 = i
        BY <1>1
  <2>2. g[i] = h[i + 1] /\ g[i - 1] = h[i]
    <3>1. i - 1 \in 0 .. Len(t) /\ i \in 0 .. Len(t) /\ (i - 1) + 1 = i
          BY <1>1
    <3> HIDE DEF g
    <3> QED BY <1>3, <3>1
  <2> HIDE DEF g
  <2> QED BY <1>2, <2>1, <2>2 DEF IsCourse
<1>5. g[0] = Read(Head(q), from) /\ g[Len(t)] = to
  <2>1. g[0] = h[1] /\ g[Len(t)] = h[Len(t) + 1]
    <3>1. 0 \in 0 .. Len(t) /\ Len(t) \in 0 .. Len(t) /\ 0 + 1 = 1
          BY <1>1
    <3> HIDE DEF g
    <3> QED BY <1>3, <3>1
  <2>2. h[1] = Read(q[1], h[1 - 1]) /\ 1 - 1 = 0
        BY <1>1, <1>2 DEF IsCourse
  <2> HIDE DEF g
  <2> QED BY <1>1, <1>2, <2>1, <2>2
<1>6. ASSUME NEW a \in Accounts PROVE Even(a, from) \/ Is(Head(q), "3011", a)
  <2>1. (Even(a, h[1 - 1]) \/ Is(q[1], "3011", a)) /\ 1 - 1 = 0
        BY <1>1, <1>2 DEF IsCourse
  <2> QED BY <1>1, <1>2, <2>1
<1> HIDE DEF g
<1>7. IsCourse(t, g)
      BY <1>3, <1>4 DEF IsCourse
<1> QED BY <1>5, <1>6, <1>7 DEF Course, t

\* A packet is sent.
LEMMA CourseSent ==
    ASSUME NEW q \in Seq(MapPackets), NEW p \in MapPackets, NEW from, NEW to,
           Course(q, from, to), \A a \in Accounts : Even(a, to) \/ Is(p, "3011", a)
    PROVE  Course(Append(q, p), from, Read(p, to))
<1> DEFINE t == Append(q, p)
           n == Len(q)
<1>1. /\ n \in Nat /\ Len(t) = n + 1
      /\ \A i \in 1 .. n : t[i] = q[i]
      /\ t[n + 1] = p
      BY AppendIs
<1>2. PICK h : IsCourse(q, h) /\ h[0] = from /\ h[n] = to
      BY DEF Course
<1>3. to \in Point /\ Read(p, to) \in Point
      BY CourseEnds, ReadPoint
<1> HIDE DEF t, n
<1> DEFINE g == [i \in 0 .. n + 1 |-> IF i = n + 1 THEN Read(p, to) ELSE h[i]]
<1>4. /\ g \in [0 .. n + 1 -> Point]
      /\ \A i \in 0 .. n : g[i] = h[i]
      /\ g[n + 1] = Read(p, to)
      BY <1>1, <1>2, <1>3 DEF IsCourse, n
<1>5. ASSUME NEW i \in 1 .. n + 1
      PROVE  /\ g[i] = Read(t[i], g[i - 1])
             /\ \A a \in Accounts : Even(a, g[i - 1]) \/ Is(t[i], "3011", a)
  <2> HIDE DEF g
  <2>1. i - 1 \in 0 .. n
        BY <1>1
  <2>2. CASE i = n + 1
    <3>1. i - 1 = n /\ g[i - 1] = to
          BY <1>1, <1>2, <1>4, <2>1, <2>2
    <3> QED BY <1>1, <1>4, <2>2, <3>1
  <2>3. CASE i # n + 1
    <3>1. i \in 1 .. n /\ i \in 0 .. n
          BY <1>1, <2>3
    <3>2. g[i] = h[i] /\ g[i - 1] = h[i - 1] /\ t[i] = q[i]
          BY <1>1, <1>4, <2>1, <3>1
    <3> QED BY <1>2, <3>1, <3>2 DEF IsCourse, n
  <2> QED BY <2>2, <2>3
<1>6. g[0] = from
  <2>1. 0 \in 0 .. n
        BY <1>1
  <2> HIDE DEF g
  <2> QED BY <1>2, <1>4, <2>1
<1> HIDE DEF g
<1>7. IsCourse(t, g)
      BY <1>1, <1>4, <1>5 DEF IsCourse
<1> QED BY <1>1, <1>4, <1>6, <1>7 DEF Course, t

\* Without a save of a character, or of a storage, it is the same in the end.
LEMMA CourseStays ==
    ASSUME NEW q \in Seq(MapPackets), NEW from, NEW to, Course(q, from, to)
    PROVE  /\ \A c \in Characters :
                 (\A i \in 1 .. Len(q) : ~(q[i].type = "2b01" /\ q[i].char_id = c))
                    => to.inv[c] = from.inv[c]
           /\ \A a \in Accounts : ~Has(q, "3011", a) => to.cs[a] = from.cs[a]
<1> DEFINE n == Len(q)
<1>1. /\ n \in Nat
      /\ \A i \in 1 .. n : q[i] \in MapPackets
      BY LenProperties, ElementOfSeq
<1>2. PICK h : IsCourse(q, h) /\ h[0] = from /\ h[n] = to
      BY DEF Course
<1>3. \A i \in 1 .. n : h[i - 1] \in Point /\ h[i] = Read(q[i], h[i - 1])
      BY <1>1, <1>2 DEF IsCourse
<1> HIDE DEF n
<1>4. ASSUME NEW c \in Characters,
             \A i \in 1 .. n : ~(q[i].type = "2b01" /\ q[i].char_id = c)
      PROVE  to.inv[c] = from.inv[c]
  <2> DEFINE Same == {i \in Nat : i <= n => h[i].inv[c] = from.inv[c]}
  <2>1. 0 \in Same
        BY <1>2
  <2>2. ASSUME NEW i \in Nat, i \in Same PROVE i + 1 \in Same
    <3> SUFFICES ASSUME i + 1 <= n PROVE h[i + 1].inv[c] = from.inv[c]
        OBVIOUS
    <3>1. i + 1 \in 1 .. n /\ (i + 1) - 1 = i /\ i <= n
          BY <1>1
    <3>2. h[i] \in Point /\ h[i + 1] = Read(q[i + 1], h[i]) /\ h[i].inv[c] = from.inv[c]
          BY <1>3, <2>2, <3>1
    <3>3. ~(q[i + 1].type = "2b01" /\ q[i + 1].char_id = c)
          BY <1>4, <3>1
    <3>4. Read(q[i + 1], h[i]).inv[c] = h[i].inv[c]
          BY <3>2, <3>3 DEF Read, Point
    <3> QED BY <3>2, <3>4
  <2>3. n \in Same
    <3> HIDE DEF Same
    <3> QED BY <1>1, <2>1, <2>2, Induction
  <2> QED BY <1>1, <1>2, <2>3
<1>5. ASSUME NEW a \in Accounts, ~Has(q, "3011", a)
      PROVE  to.cs[a] = from.cs[a]
  <2> DEFINE Same == {i \in Nat : i <= n => h[i].cs[a] = from.cs[a]}
  <2>1. 0 \in Same
        BY <1>2
  <2>2. ASSUME NEW i \in Nat, i \in Same PROVE i + 1 \in Same
    <3> SUFFICES ASSUME i + 1 <= n PROVE h[i + 1].cs[a] = from.cs[a]
        OBVIOUS
    <3>1. i + 1 \in 1 .. n /\ (i + 1) - 1 = i /\ i <= n
          BY <1>1
    <3>2. h[i] \in Point /\ h[i + 1] = Read(q[i + 1], h[i]) /\ h[i].cs[a] = from.cs[a]
          BY <1>3, <2>2, <3>1
    <3>3. ~Is(q[i + 1], "3011", a)
          BY <1>5, <3>1 DEF Has, n
    <3>4. Read(q[i + 1], h[i]).cs[a] = h[i].cs[a]
          BY <3>2, <3>3 DEF Read, Point, Is
    <3> QED BY <3>2, <3>4
  <2>3. n \in Same
    <3> HIDE DEF Same
    <3> QED BY <1>1, <2>1, <2>2, Induction
  <2> QED BY <1>1, <1>2, <2>3
<1> QED BY <1>4, <1>5 DEF n

-----------------------------------------------------------------------------
(* A character and its storage: what is under way for an account.              *)

\* The packets that carry a character or a storage, or ask for one
Watched == {"2afc", "2afd", "2b01", "3010", "3011", "3810"}

Silent(p, a) == \A type \in Watched : ~Is(p, type, a)

\* The characters and the storages that come to the map server are the last ones.
Carries(q, a, to) ==
    \A i \in 1 .. Len(q) : Is(q[i], "2afd", a) => q[i].amount = to.inv[q[i].char_id]
Loads(q, a, amount) == \A i \in 1 .. Len(q) : Is(q[i], "3810", a) => q[i].amount = amount

\* A session that waits has one request or one answer under way, and nothing of it
\* is saved yet.
Order(a, tm, tc, s) ==
    /\ Has(tc, "2afc", a) \/ Has(tm, "2afd", a) => s # NoSession /\ ~s.auth
    /\ ~(Has(tc, "2afc", a) /\ Has(tm, "2afd", a))
    /\ InOrder(tc, "2afc", "2afc", a)
    /\ InOrder(tc, "2b01", "2afc", a)
    /\ InOrder(tm, "2afd", "2afd", a)

\* What a session and a storage have is what the char server will have, or together as
\* much, while the storage is open and has changed.
Amounts(a, to, tm, tc, s, stor) ==
    /\ stor.dirty /\ stor.status = 1 => s.auth /\ s.storage_open
    /\ Carries(tm, a, to)
    /\ s.auth /\ ~(s.storage_open /\ stor.dirty) => s.amount = to.inv[s.char_id]
    /\ s.auth /\ s.storage_open /\ stor.dirty =>
          s.amount + stor.amount = to.inv[s.char_id] + to.cs[a]
    /\ stor.known /\ ~(stor.status = 1 /\ stor.dirty) => stor.amount = to.cs[a]
    /\ ~stor.known \/ ~stor.dirty => /\ Loads(tm, a, to.cs[a])
                                     /\ Has(tc, "3010", a) => ~Has(tc, "3011", a)

Fine(tm, tc, ss, db, from) ==
    /\ \A a \in Accounts : Order(a, tm, tc, ss[a])
    /\ \E to : /\ Course(tc, from, to)
               /\ \A a \in Accounts : Even(a, to) /\ Amounts(a, to, tm, tc, ss[a], db[a])

\* A queue of which the first is read, or to which a packet is added that has nothing
\* to do with the accounts outside of S.
Passes(q, new, S) ==
    \/ new = q
    \/ q # << >> /\ new = Tail(q)
    \/ \E p : new = Append(q, p) /\ \A b \in Accounts \ S : Silent(p, b)

LEMMA SilentKeeps ==
    ASSUME NEW P, NEW q \in Seq(P), NEW S, NEW new, Passes(q, new, S), NEW a \in Accounts \ S
    PROVE  /\ \A type \in Watched : Has(new, type, a) => Has(q, type, a)
           /\ \A type, first \in Watched :
                 InOrder(q, first, type, a) => InOrder(new, first, type, a)
           /\ \A to : Carries(q, a, to) => Carries(new, a, to)
           /\ \A amount : Loads(q, a, amount) => Loads(new, a, amount)
<1>1. CASE new = q
      BY <1>1
<1>2. CASE q # << >> /\ new = Tail(q)
  <2>1. /\ \A type : Has(new, type, a) => Has(q, type, a)
        /\ \A type, first : InOrder(q, first, type, a) => InOrder(new, first, type, a)
        BY <1>2, TailKeeps
  <2>2. \A i \in 1 .. Len(new) : i + 1 \in 1 .. Len(q) /\ new[i] = q[i + 1]
        BY <1>2, TailIs
  <2> QED BY <2>1, <2>2 DEF Carries, Loads
<1>3. ASSUME NEW p, new = Append(q, p), Silent(p, a)
      PROVE  /\ \A type \in Watched : Has(new, type, a) => Has(q, type, a)
             /\ \A type, first \in Watched :
                   InOrder(q, first, type, a) => InOrder(new, first, type, a)
             /\ \A to : Carries(q, a, to) => Carries(new, a, to)
             /\ \A amount : Loads(q, a, amount) => Loads(new, a, amount)
  <2>1. \A type \in Watched : ~Is(p, type, a)
        BY <1>3 DEF Silent
  <2>2. /\ \A type \in Watched : Has(new, type, a) => Has(q, type, a)
        /\ \A type, first \in Watched :
              InOrder(q, first, type, a) => InOrder(new, first, type, a)
        BY <1>3, <2>1, AppendKeeps
  <2>3. /\ Len(q) \in Nat /\ Len(new) = Len(q) + 1
        /\ \A i \in 1 .. Len(q) : new[i] = q[i]
        /\ new[Len(q) + 1] = p
        BY <1>3, AppendIs
  <2>4. \A i \in 1 .. Len(new) :
           (i \in 1 .. Len(q) /\ new[i] = q[i]) \/ (~Is(new[i], "2afd", a) /\ ~Is(new[i], "3810", a))
        BY <2>1, <2>3 DEF Watched
  <2>5. \A to : Carries(q, a, to) => Carries(new, a, to)
        BY <2>4 DEF Carries
  <2>6. \A amount : Loads(q, a, amount) => Loads(new, a, amount)
        BY <2>4 DEF Loads
  <2> QED BY <2>2, <2>5, <2>6
<1> QED BY <1>1, <1>2, <1>3 DEF Passes

\* Accounts that a step has nothing to do with
LEMMA OthersKeep ==
    ASSUME NEW tm \in Seq(CharPackets), NEW tc \in Seq(MapPackets), NEW S, NEW a \in Accounts \ S,
           NEW tm2, Passes(tm, tm2, S), NEW tc2, Passes(tc, tc2, S)
    PROVE  /\ \A s : Order(a, tm, tc, s) => Order(a, tm2, tc2, s)
           /\ \A to, s, stor : Amounts(a, to, tm, tc, s, stor) => Amounts(a, to, tm2, tc2, s, stor)
<1>1. /\ \A type \in Watched : Has(tm2, type, a) => Has(tm, type, a)
      /\ \A type, first \in Watched :
            InOrder(tm, first, type, a) => InOrder(tm2, first, type, a)
      /\ \A to : Carries(tm, a, to) => Carries(tm2, a, to)
      /\ \A amount : Loads(tm, a, amount) => Loads(tm2, a, amount)
      BY SilentKeeps
<1>2. /\ \A type \in Watched : Has(tc2, type, a) => Has(tc, type, a)
      /\ \A type, first \in Watched :
            InOrder(tc, first, type, a) => InOrder(tc2, first, type, a)
      BY SilentKeeps
<1>3. /\ "2afc" \in Watched /\ "2afd" \in Watched /\ "2b01" \in Watched
      /\ "3010" \in Watched /\ "3011" \in Watched
      BY DEF Watched
<1>4. \A s : Order(a, tm, tc, s) => Order(a, tm2, tc2, s)
      BY <1>1, <1>2, <1>3 DEF Order
<1>5. \A to, s, stor : Amounts(a, to, tm, tc, s, stor) => Amounts(a, to, tm2, tc2, s, stor)
      BY <1>1, <1>2, <1>3 DEF Amounts
<1> QED BY <1>4, <1>5

\* A step after which the char server will have the same in the end: what is left to
\* show is about the accounts in S.
LEMMA FineMoves ==
    ASSUME NEW tm \in Seq(CharPackets), NEW tc \in Seq(MapPackets), NEW ss, NEW db, NEW from,
           Fine(tm, tc, ss, db, from), NEW S,
           NEW tm2, Passes(tm, tm2, S), NEW tc2, Passes(tc, tc2, S),
           NEW ss2, NEW db2, NEW from2,
           \/ tc2 = tc /\ from2 = from
           \/ tc # << >> /\ tc2 = Tail(tc) /\ from2 = Read(Head(tc), from)
           \/ from2 = from /\ \E p \in MapPackets : /\ p.type \notin {"2b01", "3011"}
                                                    /\ tc2 = Append(tc, p),
           \A b \in Accounts \ S : ss2[b] = ss[b] /\ db2[b] = db[b],
           \A a \in Accounts \cap S : Order(a, tm2, tc2, ss2[a]),
           \A a \in Accounts \cap S : \A to \in Point :
              Course(tc, from, to) /\ Amounts(a, to, tm, tc, ss[a], db[a])
                 => Amounts(a, to, tm2, tc2, ss2[a], db2[a])
    PROVE  Fine(tm2, tc2, ss2, db2, from2)
<1>1. PICK to : /\ Course(tc, from, to)
                /\ \A a \in Accounts : Even(a, to) /\ Amounts(a, to, tm, tc, ss[a], db[a])
      BY DEF Fine
<1>2. from \in Point /\ to \in Point
      BY <1>1, CourseEnds
<1>3. Course(tc2, from2, to)
  <2>1. CASE tc2 = tc /\ from2 = from
        BY <1>1, <2>1
  <2>2. CASE tc # << >> /\ tc2 = Tail(tc) /\ from2 = Read(Head(tc), from)
        BY <1>1, <2>2, CourseRead
  <2>3. ASSUME from2 = from, NEW p \in MapPackets, p.type \notin {"2b01", "3011"},
               tc2 = Append(tc, p)
        PROVE  Course(tc2, from2, to)
    <3>1. Course(tc2, from, Read(p, to))
          BY <1>1, <2>3, CourseSent
    <3>2. Read(p, to) = to
          BY <1>2, <2>3 DEF Read, Point
    <3> QED BY <2>3, <3>1, <3>2
  <2> QED BY <2>1, <2>2, <2>3
<1>4. ASSUME NEW a \in Accounts
      PROVE  Order(a, tm2, tc2, ss2[a]) /\ Amounts(a, to, tm2, tc2, ss2[a], db2[a])
  <2>1. CASE a \in S
        BY <1>1, <1>2, <2>1
  <2>2. CASE a \notin S
    <3>1. Order(a, tm, tc, ss[a]) /\ Amounts(a, to, tm, tc, ss[a], db[a])
          BY <1>1 DEF Fine
    <3>2. ss2[a] = ss[a] /\ db2[a] = db[a]
          BY <2>2
    <3> QED BY <2>2, <3>1, <3>2, OthersKeep
  <2> QED BY <2>1, <2>2
<1> QED BY <1>1, <1>3, <1>4 DEF Fine

-----------------------------------------------------------------------------
(* Whose the characters are.                                                   *)

Owns(p) ==
    p.type \in {"3829", "3830", "2afc", "2afd", "2b01"} => p.char_id \in Owned(p.account_id)

AllOwn(q) == \A i \in 1 .. Len(q) : Owns(q[i])

\* Whatever names a character names the account it belongs to.
Owning(m) ==
    /\ AllOwn(toMap[m])
    /\ AllOwn(toChar[m])
    /\ \A a \in Accounts : sess[m][a].char_id \in Owned(a) \cup {NoChar}
    /\ \A o \in offers : o.char_id \in Owned(o.account_id)

LEMMA OwnPasses ==
    ASSUME NEW P, NEW q \in Seq(P), AllOwn(q)
    PROVE  /\ q # << >> => Owns(Head(q)) /\ AllOwn(Tail(q))
           /\ \A p : Owns(p) => AllOwn(Append(q, p))
<1>1. ASSUME q # << >> PROVE Owns(Head(q)) /\ AllOwn(Tail(q))
      BY <1>1, TailIs DEF AllOwn
<1>2. ASSUME NEW p, Owns(p) PROVE AllOwn(Append(q, p))
  <2>1. /\ Len(q) \in Nat /\ Len(Append(q, p)) = Len(q) + 1
        /\ \A i \in 1 .. Len(q) : Append(q, p)[i] = q[i]
        /\ Append(q, p)[Len(q) + 1] = p
        BY AppendIs
  <2>2. \A i \in 1 .. Len(Append(q, p)) : i \in 1 .. Len(q) \/ i = Len(q) + 1
        BY <2>1
  <2> QED BY <1>2, <2>1, <2>2 DEF AllOwn
<1> QED BY <1>1, <1>2

\* What the char server will have of an account depends on its own characters.
LEMMA OwnAmounts ==
    ASSUME NEW a \in Accounts, NEW to \in Point, NEW new \in Point,
           \A c \in Owned(a) : new.inv[c] = to.inv[c], new.cs[a] = to.cs[a],
           NEW tm \in Seq(CharPackets), AllOwn(tm), NEW tc, NEW s, NEW stor,
           s.auth => s.char_id \in Owned(a),
           Even(a, to), Amounts(a, to, tm, tc, s, stor)
    PROVE  Even(a, new) /\ Amounts(a, new, tm, tc, s, stor)
<1>1. Total(new.inv, a) = Total(to.inv, a)
  <2>1. NoChar \notin Owned(a)
        BY NamesAssumption DEF Owned
  <2>2. to.inv \in [Characters -> Nat] /\ new.inv \in [Characters -> Nat]
        BY DEF Point
  <2> QED BY <2>1, <2>2, TotalChanges
<1>2. Even(a, new)
      BY <1>1 DEF Even
<1>3. Carries(tm, a, new)
  <2> SUFFICES ASSUME NEW i \in 1 .. Len(tm), Is(tm[i], "2afd", a)
               PROVE  tm[i].amount = new.inv[tm[i].char_id]
      BY DEF Carries
  <2>1. tm[i].char_id \in Owned(a)
        BY DEF AllOwn, Owns, Is
  <2> QED BY <2>1 DEF Amounts, Carries
<1> QED BY <1>2, <1>3 DEF Amounts

-----------------------------------------------------------------------------
(* A session is saved: alone, which changes nothing of what the char server will *)
(* have, or with its storage, and then both are what it will have.                *)

LEMMA SavedAlone ==
    ASSUME NEW q \in Seq(MapPackets), NEW p \in MapPackets, p.type = "2b01",
           NEW from, NEW to, Course(q, from, to), \A a \in Accounts : Even(a, to),
           p.amount = to.inv[p.char_id]
    PROVE  Course(Append(q, p), from, to)
<1>1. Course(Append(q, p), from, Read(p, to))
      BY CourseSent
<1>2. to \in Point
      BY CourseEnds
<1>3. Read(p, to) = to
      BY <1>2 DEF Read, Point
<1> QED BY <1>1, <1>3

\* The character and the storage of one account, as the two packets have them
Both(a, p, r, to, new) ==
    /\ Even(a, new)
    /\ new.inv[p.char_id] = p.amount /\ new.cs[a] = r.amount
    /\ \A b \in Accounts \ {a} : /\ \A c \in Owned(b) : new.inv[c] = to.inv[c]
                                 /\ new.cs[b] = to.cs[b]

LEMMA SavedBoth ==
    ASSUME NEW q \in Seq(MapPackets), NEW a \in Accounts,
           NEW p \in MapPackets, p.type = "2b01", p.account_id = a, p.char_id \in Owned(a),
           NEW r \in MapPackets, r.type = "3011", r.account_id = a,
           NEW from, NEW to, Course(q, from, to), \A b \in Accounts : Even(b, to),
           p.amount + r.amount = to.inv[p.char_id] + to.cs[a]
    PROVE  \E new \in Point :
              Course(Append(Append(q, p), r), from, new) /\ Both(a, p, r, to, new)
<1> DEFINE mid == Read(p, to)
           new == Read(r, mid)
           c == p.char_id
<1>1. to \in Point /\ c \in Characters /\ p.amount \in Nat /\ r.amount \in Nat
      BY CourseEnds, FieldsToChar DEF Owned
<1>2. mid \in Point /\ new \in Point
      BY <1>1, ReadPoint
<1>3. /\ mid.inv = [to.inv EXCEPT ![c] = p.amount] /\ mid.cs = to.cs
      /\ new.inv = mid.inv /\ new.cs = [to.cs EXCEPT ![a] = r.amount]
      BY DEF Read
<1>4. /\ to.inv \in [Characters -> Nat] /\ to.cs \in [Accounts -> Nat]
      /\ mid.inv \in [Characters -> Nat]
      BY <1>1, <1>2 DEF Point
<1> HIDE DEF mid, new
<1>5. ASSUME NEW b \in Accounts \ {a} PROVE c \notin Owned(b)
      BY <1>5 DEF Owned
<1>6. Append(q, p) \in Seq(MapPackets)
      BY AppendProperties
<1>7. Course(Append(q, p), from, mid)
      BY CourseSent DEF mid
<1>8. ASSUME NEW b \in Accounts \ {a}
      PROVE  /\ Even(b, mid)
             /\ \A d \in Owned(b) : new.inv[d] = to.inv[d]
             /\ new.cs[b] = to.cs[b]
  <2>1. \A d \in Owned(b) : d \in Characters /\ d # c
        BY <1>5 DEF Owned
  <2>2. \A d \in Owned(b) : mid.inv[d] = to.inv[d]
        BY <1>3, <1>4, <2>1
  <2>3. Total(mid.inv, b) = Total(to.inv, b)
        BY <1>4, <1>5, <2>2, TotalChanges
  <2> QED BY <1>3, <1>4, <2>2, <2>3 DEF Even
<1>9. \A b \in Accounts : Even(b, mid) \/ Is(r, "3011", b)
      BY <1>8 DEF Is
<1>10. Course(Append(Append(q, p), r), from, new)
       BY <1>6, <1>7, <1>9, CourseSent DEF new
<1>11. new.inv[c] = p.amount /\ new.cs[a] = r.amount
       BY <1>1, <1>3, <1>4
<1>12. Even(a, new)
  <2>1. \A d \in Owned(a) : d # c => mid.inv[d] = to.inv[d]
        BY <1>3, <1>4 DEF Owned
  <2>2. /\ Total(to.inv, a) \in Nat /\ Total(mid.inv, a) \in Nat
        /\ Total(mid.inv, a) + to.inv[c] = Total(to.inv, a) + mid.inv[c]
        BY <1>4, <2>1, TotalChanges
  <2>3. to.inv[c] \in Nat /\ to.cs[a] \in Nat
        BY <1>1, <1>4
  <2>4. Total(to.inv, a) + to.cs[a] = Total(Bag, a)
        BY DEF Even
  <2>5. Total(new.inv, a) + new.cs[a] = Total(Bag, a)
    <3>1. mid.inv[c] = p.amount /\ new.inv = mid.inv /\ new.cs[a] = r.amount
          BY <1>3, <1>11
    <3>2. p.amount + r.amount = to.inv[c] + to.cs[a]
          OBVIOUS
    <3> DEFINE t == Total(to.inv, a)
               u == Total(mid.inv, a)
               x == to.inv[c]
               k == to.cs[a]
               i == p.amount
               j == r.amount
    <3>3. /\ t \in Nat /\ u \in Nat /\ x \in Nat /\ k \in Nat /\ i \in Nat /\ j \in Nat
          /\ u + x = t + i /\ i + j = x + k
          BY <1>1, <2>2, <2>3, <3>1, <3>2
    <3>4. u + j = t + k
      <4> HIDE DEF t, u, x, k, i, j
      <4> QED BY <3>3
    <3> QED BY <2>4, <3>1, <3>4
  <2> QED BY <2>5 DEF Even
<1>13. Both(a, p, r, to, new)
       BY <1>8, <1>11, <1>12 DEF Both
<1> QED BY <1>2, <1>10, <1>13

LEMMA FineSaved ==
    ASSUME NEW tm \in Seq(CharPackets), NEW tc \in Seq(MapPackets), NEW ss, NEW db, NEW from,
           Fine(tm, tc, ss, db, from), AllOwn(tm), NEW a \in Accounts,
           \A b \in Accounts : ss[b].auth => ss[b].char_id \in Owned(b),
           NEW s, s = ss[a], s.auth, NEW stor, stor = db[a],
           s.storage_open => stor.known /\ stor.status = 1,
           NEW p \in MapPackets, p.type = "2b01", p.account_id = a, p.char_id = s.char_id,
           p.amount = s.amount,
           NEW r \in MapPackets, r.type = "3011", r.account_id = a, r.amount = stor.amount,
           NEW tc2,
           \/ ~(s.storage_open /\ stor.dirty) /\ tc2 = Append(tc, p)
           \/ s.storage_open /\ stor.dirty /\ tc2 = Append(Append(tc, p), r),
           NEW ss2, NEW db2, \A b \in Accounts \ {a} : ss2[b] = ss[b] /\ db2[b] = db[b],
           NEW s2, s2 = ss2[a], NEW stor2, stor2 = db2[a],
           stor2.amount = stor.amount, stor2.known = stor.known, stor2.dirty = stor.dirty,
           s2.auth => s2.char_id = s.char_id /\ s2.amount = s.amount,
           \/ s2 = s /\ stor2 = stor
           \/ /\ ~(s2.auth /\ s2.storage_open)
              /\ stor2.status = 0 \/ (stor2.status = stor.status /\ ~s.storage_open)
    PROVE  Fine(tm, tc2, ss2, db2, from)
<1> DEFINE once == Append(tc, p)
<1>1. PICK to : /\ Course(tc, from, to)
                /\ \A b \in Accounts : Even(b, to) /\ Amounts(b, to, tm, tc, ss[b], db[b])
      BY DEF Fine
<1>2. /\ from \in Point /\ to \in Point
      /\ once \in Seq(MapPackets)
      BY <1>1, CourseEnds, AppendProperties
<1>3. /\ Order(a, tm, tc, s) /\ Amounts(a, to, tm, tc, s, stor)
      /\ ~Has(tc, "2afc", a) /\ ~Has(tm, "2afd", a)
      BY <1>1 DEF Fine, Order
<1>4. /\ \A type : type # "2b01" => (Has(once, type, a) <=> Has(tc, type, a))
      /\ InOrder(once, "2afc", "2afc", a) /\ InOrder(once, "2b01", "2afc", a)
  <2>1. \A type : Is(p, type, a) => type = "2b01"
        BY DEF Is
  <2>2. \A type : Has(once, type, a) <=> Has(tc, type, a) \/ Is(p, type, a)
        BY AppendKeeps
  <2>3. InOrder(once, "2afc", "2afc", a) /\ InOrder(once, "2b01", "2afc", a)
        BY <1>3, <2>1, AppendKeeps DEF Order
  <2> HIDE DEF once
  <2> QED BY <2>1, <2>2, <2>3
<1>5. /\ ~Has(tc2, "2afc", a)
      /\ InOrder(tc2, "2afc", "2afc", a) /\ InOrder(tc2, "2b01", "2afc", a)
  <2>1. CASE tc2 = once
        BY <1>3, <1>4, <2>1
  <2>2. CASE tc2 = Append(once, r)
    <3>1. \A type : Is(r, type, a) => type = "3011"
          BY DEF Is
    <3> HIDE DEF once
    <3>2. \A type : Has(tc2, type, a) <=> Has(once, type, a) \/ Is(r, type, a)
          BY <1>2, <2>2, AppendKeeps
    <3>3. InOrder(tc2, "2afc", "2afc", a) /\ InOrder(tc2, "2b01", "2afc", a)
          BY <1>2, <1>4, <2>2, <3>1, AppendKeeps
    <3> QED BY <1>3, <1>4, <3>1, <3>2, <3>3
  <2> QED BY <2>1, <2>2
<1>6. Order(a, tm, tc2, s2)
      BY <1>3, <1>5 DEF Order
<1>7. ASSUME NEW b \in Accounts \ {a}
      PROVE  /\ Order(b, tm, tc2, ss2[b])
             /\ \A at : Amounts(b, at, tm, tc, ss[b], db[b]) => Amounts(b, at, tm, tc2, ss2[b], db2[b])
  <2>1. Silent(p, b) /\ Silent(r, b)
        BY <1>7 DEF Silent, Is
  <2>2. /\ \A t : Order(b, tm, tc, t) => Order(b, tm, once, t)
        /\ \A at, t, st : Amounts(b, at, tm, tc, t, st) => Amounts(b, at, tm, once, t, st)
    <3>1. Passes(tm, tm, Accounts \ {b}) /\ Passes(tc, once, Accounts \ {b})
          BY <2>1 DEF Passes
    <3> HIDE DEF once
    <3> QED BY <3>1, OthersKeep
  <2> HIDE DEF once
  <2>3. /\ \A t : Order(b, tm, once, t) => Order(b, tm, Append(once, r), t)
        /\ \A at, t, st : Amounts(b, at, tm, once, t, st)
                             => Amounts(b, at, tm, Append(once, r), t, st)
    <3>1. Passes(tm, tm, Accounts \ {b}) /\ Passes(once, Append(once, r), Accounts \ {b})
          BY <2>1 DEF Passes
    <3> QED BY <1>2, <3>1, OthersKeep
  <2>4. Order(b, tm, tc, ss[b]) /\ ss2[b] = ss[b] /\ db2[b] = db[b]
        BY <1>7 DEF Fine
  <2>5. CASE tc2 = once
        BY <2>2, <2>4, <2>5
  <2>6. CASE tc2 = Append(once, r)
        BY <2>2, <2>3, <2>4, <2>6
  <2> QED BY <2>5, <2>6 DEF once
<1>8. CASE ~(s.storage_open /\ stor.dirty) /\ tc2 = once
  <2>1. p.amount = to.inv[p.char_id]
        BY <1>3, <1>8 DEF Amounts
  <2>2. Course(tc2, from, to)
        BY <1>1, <1>8, <2>1, SavedAlone
  <2> HIDE DEF once
  <2>3. Amounts(a, to, tm, tc2, s2, stor2)
    <3>1. /\ Has(tc2, "3010", a) <=> Has(tc, "3010", a)
          /\ Has(tc2, "3011", a) <=> Has(tc, "3011", a)
          BY <1>4, <1>8
    <3> QED BY <1>3, <1>8, <3>1 DEF Amounts
  <2> QED BY <1>1, <1>6, <1>7, <2>2, <2>3 DEF Fine
<1>9. CASE s.storage_open /\ stor.dirty /\ tc2 = Append(once, r)
  <2>1. s.char_id \in Owned(a) /\ p.amount + r.amount = to.inv[p.char_id] + to.cs[a]
        BY <1>3, <1>9 DEF Amounts
  <2>2. PICK new \in Point : Course(tc2, from, new) /\ Both(a, p, r, to, new)
    <3>1. \A b \in Accounts : Even(b, to)
          BY <1>1
    <3>2. /\ p.char_id \in Owned(a) /\ tc2 = Append(Append(tc, p), r)
          BY <1>9, <2>1
    <3> HIDE DEF once
    <3> QED BY <1>1, <2>1, <3>1, <3>2, SavedBoth
  <2> HIDE DEF once
  <2>3. Carries(tm, a, new)
        BY <1>3 DEF Carries, Has
  <2>4. Amounts(a, new, tm, tc2, s2, stor2)
        BY <1>3, <1>9, <2>2, <2>3 DEF Amounts, Both
  <2>5. ASSUME NEW b \in Accounts \ {a}
        PROVE  Even(b, new) /\ Amounts(b, new, tm, tc2, ss2[b], db2[b])
    <3>1. Even(b, to) /\ Amounts(b, to, tm, tc, ss[b], db[b])
          BY <1>1
    <3>2. Even(b, new) /\ Amounts(b, new, tm, tc, ss[b], db[b])
          BY <1>2, <2>2, <3>1, OwnAmounts DEF Both
    <3> QED BY <1>7, <3>2
  <2> QED BY <1>6, <1>7, <2>2, <2>4, <2>5 DEF Fine, Both
<1> QED BY <1>8, <1>9

-----------------------------------------------------------------------------
(* The steps. *)

CharNow == [inv |-> inventory, cs |-> [a \in Accounts |-> char_storage[a].amount]]

TogetherHere(m) ==
    /\ Open(m)
    /\ Owning(m)
    /\ Fine(toMap[m], toChar[m], sess[m], storage_db[m], CharNow)

TogetherInv == Unbroken => \A m \in MapServers : TogetherHere(m)

LEMMA TogetherThere ==
    ASSUME OneServer, NEW m \in MapServers, TogetherHere(m)'
    PROVE  TogetherInv'
BY DEF OneServer, TogetherInv

\* A queue passes, and what is added to it names a character of its account.
Travels(q, new, S) ==
    \/ new = q
    \/ q # << >> /\ new = Tail(q)
    \/ \E p : Owns(p) /\ new = Append(q, p) /\ \A b \in Accounts \ S : Silent(p, b)

LEMMA SilentFor ==
    ASSUME NEW p
    PROVE  /\ p.type \notin Watched => \A b : Silent(p, b)
           /\ \A b \in Accounts \ {p.account_id} : Silent(p, b)
BY DEF Silent, Is

LEMMA TogetherMoves ==
    ASSUME IInv, OneServer, NEW m \in MapServers, TogetherHere(m), NEW S,
           UNCHANGED << server_session, char_session >>,
           Travels(toMap[m], toMap'[m], S), Travels(toChar[m], toChar'[m], S),
           \/ toChar'[m] = toChar[m] /\ CharNow' = CharNow
           \/ /\ toChar[m] # << >> /\ toChar'[m] = Tail(toChar[m])
              /\ CharNow' = Read(Head(toChar[m]), CharNow)
           \/ CharNow' = CharNow /\ \E p \in MapPackets : /\ p.type \notin {"2b01", "3011"}
                                                          /\ toChar'[m] = Append(toChar[m], p),
           \A b \in Accounts \ S : sess'[m][b] = sess[m][b] /\ storage_db'[m][b] = storage_db[m][b],
           \A o \in offers' : o.char_id \in Owned(o.account_id),
           \A a \in Accounts \cap S : /\ sess'[m][a].char_id \in Owned(a) \cup {NoChar}
                                      /\ Order(a, toMap'[m], toChar'[m], sess'[m][a]),
           \A a \in Accounts \cap S : \A to \in Point :
              Course(toChar[m], CharNow, to)
                 /\ Amounts(a, to, toMap[m], toChar[m], sess[m][a], storage_db[m][a])
                 => Amounts(a, to, toMap'[m], toChar'[m], sess'[m][a], storage_db'[m][a])
    PROVE  TogetherInv'
<1>1. toMap[m] \in Seq(CharPackets) /\ toChar[m] \in Seq(MapPackets)
      BY Queues DEF IInv
<1>2. Open(m)'
      BY DEF TogetherHere, Open
<1>3. Owning(m)'
  <2>1. ASSUME NEW P, NEW q \in Seq(P), AllOwn(q), NEW new, Travels(q, new, S)
        PROVE  AllOwn(new)
    <3>1. /\ q # << >> => AllOwn(Tail(q))
          /\ \A p : Owns(p) => AllOwn(Append(q, p))
          BY <2>1, OwnPasses
    <3>2. CASE \E p : Owns(p) /\ new = Append(q, p)
          BY <3>1, <3>2
    <3> QED BY <2>1, <3>1, <3>2 DEF Travels
  <2>2. AllOwn(toMap'[m]) /\ AllOwn(toChar'[m])
        BY <1>1, <2>1 DEF TogetherHere, Owning
  <2>3. \A a \in Accounts : sess'[m][a].char_id \in Owned(a) \cup {NoChar}
        BY DEF TogetherHere, Owning
  <2> QED BY <2>2, <2>3 DEF Owning, AllOwn, Owns, Owned
<1>4. Passes(toMap[m], toMap'[m], S) /\ Passes(toChar[m], toChar'[m], S)
      BY DEF Travels, Passes
<1>5. Fine(toMap[m], toChar[m], sess[m], storage_db[m], CharNow)
      BY DEF TogetherHere
<1>6. Fine(toMap'[m], toChar'[m], sess'[m], storage_db'[m], CharNow')
  <2> DEFINE tm == toMap[m]
             tc == toChar[m]
             ss == sess[m]
             db == storage_db[m]
             from == CharNow
             tm2 == toMap'[m]
             tc2 == toChar'[m]
             ss2 == sess'[m]
             db2 == storage_db'[m]
             from2 == CharNow'
  <2>1. /\ tm \in Seq(CharPackets) /\ tc \in Seq(MapPackets)
        /\ Passes(tm, tm2, S) /\ Passes(tc, tc2, S)
        /\ Fine(tm, tc, ss, db, from)
        BY <1>1, <1>4, <1>5
  <2>2. \/ tc2 = tc /\ from2 = from
        \/ tc # << >> /\ tc2 = Tail(tc) /\ from2 = Read(Head(tc), from)
        \/ from2 = from /\ \E p \in MapPackets : /\ p.type \notin {"2b01", "3011"}
                                                 /\ tc2 = Append(tc, p)
        OBVIOUS
  <2>3. \A b \in Accounts \ S : ss2[b] = ss[b] /\ db2[b] = db[b]
        OBVIOUS
  <2>4. \A a \in Accounts \cap S : Order(a, tm2, tc2, ss2[a])
        OBVIOUS
  <2>5. \A a \in Accounts \cap S : \A to \in Point :
           Course(tc, from, to) /\ Amounts(a, to, tm, tc, ss[a], db[a])
              => Amounts(a, to, tm2, tc2, ss2[a], db2[a])
        OBVIOUS
  <2> HIDE DEF tm, tc, ss, db, from, tm2, tc2, ss2, db2, from2
  <2>6. Fine(tm2, tc2, ss2, db2, from2)
        BY <2>1, <2>2, <2>3, <2>4, <2>5, FineMoves
  <2> QED BY <2>6 DEF tm2, tc2, ss2, db2, from2
<1>7. TogetherHere(m)'
      BY <1>2, <1>3, <1>6 DEF TogetherHere
<1> QED BY <1>7, TogetherThere

\* The same for one account, or for none
LEMMA QuietMoves ==
    ASSUME IInv, OneServer, NEW m \in MapServers, TogetherHere(m),
           UNCHANGED << server_session, char_session, sess, storage_db >>,
           Travels(toMap[m], toMap'[m], {}), Travels(toChar[m], toChar'[m], {}),
           \/ toChar'[m] = toChar[m] /\ CharNow' = CharNow
           \/ /\ toChar[m] # << >> /\ toChar'[m] = Tail(toChar[m])
              /\ CharNow' = Read(Head(toChar[m]), CharNow)
           \/ CharNow' = CharNow /\ \E p \in MapPackets : /\ p.type \notin {"2b01", "3011"}
                                                          /\ toChar'[m] = Append(toChar[m], p),
           \A o \in offers' : o.char_id \in Owned(o.account_id)
    PROVE  TogetherInv'
<1> DEFINE S == {}
<1>1. /\ Travels(toMap[m], toMap'[m], S) /\ Travels(toChar[m], toChar'[m], S)
      /\ Accounts \cap S = {}
      OBVIOUS
<1> HIDE DEF S
<1>2. \A b \in Accounts \ S : sess'[m][b] = sess[m][b] /\ storage_db'[m][b] = storage_db[m][b]
      OBVIOUS
<1>3. \A a \in Accounts \cap S : /\ sess'[m][a].char_id \in Owned(a) \cup {NoChar}
                                 /\ Order(a, toMap'[m], toChar'[m], sess'[m][a])
      BY <1>1
<1>4. \A a \in Accounts \cap S : \A to \in Point :
         Course(toChar[m], CharNow, to)
            /\ Amounts(a, to, toMap[m], toChar[m], sess[m][a], storage_db[m][a])
            => Amounts(a, to, toMap'[m], toChar'[m], sess'[m][a], storage_db'[m][a])
      BY <1>1
<1> QED BY <1>1, <1>2, <1>3, <1>4, TogetherMoves

LEMMA AccountMoves ==
    ASSUME IInv, OneServer, NEW m \in MapServers, TogetherHere(m), NEW a \in Accounts,
           UNCHANGED << server_session, char_session >>,
           Travels(toMap[m], toMap'[m], {a}), Travels(toChar[m], toChar'[m], {a}),
           \/ toChar'[m] = toChar[m] /\ CharNow' = CharNow
           \/ /\ toChar[m] # << >> /\ toChar'[m] = Tail(toChar[m])
              /\ CharNow' = Read(Head(toChar[m]), CharNow)
           \/ CharNow' = CharNow /\ \E p \in MapPackets : /\ p.type \notin {"2b01", "3011"}
                                                          /\ toChar'[m] = Append(toChar[m], p),
           \A b \in Accounts \ {a} : sess'[m][b] = sess[m][b] /\ storage_db'[m][b] = storage_db[m][b],
           \A o \in offers' : o.char_id \in Owned(o.account_id),
           sess'[m][a].char_id \in Owned(a) \cup {NoChar},
           Order(a, toMap'[m], toChar'[m], sess'[m][a]),
           \A to \in Point :
              Course(toChar[m], CharNow, to)
                 /\ Amounts(a, to, toMap[m], toChar[m], sess[m][a], storage_db[m][a])
                 => Amounts(a, to, toMap'[m], toChar'[m], sess'[m][a], storage_db'[m][a])
    PROVE  TogetherInv'
<1> DEFINE S == {a}
<1>1. /\ Travels(toMap[m], toMap'[m], S) /\ Travels(toChar[m], toChar'[m], S)
      /\ \A b \in Accounts \cap S : b = a
      /\ \A b \in Accounts \ S : b \in Accounts \ {a}
      OBVIOUS
<1> HIDE DEF S
<1>2. \A b \in Accounts \ S : sess'[m][b] = sess[m][b] /\ storage_db'[m][b] = storage_db[m][b]
      BY <1>1
<1>3. \A b \in Accounts \cap S : /\ sess'[m][b].char_id \in Owned(b) \cup {NoChar}
                                 /\ Order(b, toMap'[m], toChar'[m], sess'[m][b])
      BY <1>1
<1>4. \A b \in Accounts \cap S : \A to \in Point :
         Course(toChar[m], CharNow, to)
            /\ Amounts(b, to, toMap[m], toChar[m], sess[m][b], storage_db[m][b])
            => Amounts(b, to, toMap'[m], toChar'[m], sess'[m][b], storage_db'[m][b])
      BY <1>1
<1> QED BY <1>1, <1>2, <1>3, <1>4, TogetherMoves

\* Steps that no account notices
LEMMA TogetherQuiet ==
    ASSUME IInv, OneServer, NEW m \in MapServers, TogetherHere(m),
           \/ \E a \in Accounts, c \in Characters : Select(m, a, c)
           \/ Preauth(m) \/ Invite(m) \/ SaveCharacter(m) \/ SaveStorage(m)
    PROVE  TogetherInv'
<1>0. /\ toMap[m] \in Seq(CharPackets) /\ toChar[m] \in Seq(MapPackets)
      /\ AllOwn(toMap[m]) /\ AllOwn(toChar[m]) /\ Open(m)
      /\ \A o \in offers : o.char_id \in Owned(o.account_id)
      BY Queues DEF IInv, TogetherHere, Owning
<1>1. /\ toMap[m] # << >> => Owns(Head(toMap[m]))
      /\ toChar[m] # << >> => Owns(Head(toChar[m]))
      BY <1>0, OwnPasses
<1>2. \A q : Travels(q, q, {}) /\ (q # << >> => Travels(q, Tail(q), {}))
      BY DEF Travels
<1>3. ASSUME NEW p, NEW q, p.type \notin Watched, Owns(p)
      PROVE  Travels(q, Append(q, p), {})
      BY <1>3, SilentFor DEF Travels
<1>4. ASSUME NEW a \in Accounts, NEW c \in Characters, Select(m, a, c) PROVE TogetherInv'
  <2> DEFINE p == [type |-> "3829", account_id |-> a, char_id |-> c]
  <2>1. p.type \notin Watched /\ Owns(p)
        BY <1>4 DEF Watched, Owns, Owned, Select
  <2>2. /\ toMap'[m] = Append(toMap[m], p)
        /\ UNCHANGED << server_session, char_session, toChar, offers, inventory,
                        char_storage, sess, storage_db >>
        BY <1>0, <1>4, Queues DEF IInv, Select
  <2> HIDE DEF p
  <2>3. CharNow' = CharNow
        BY <2>2 DEF CharNow
  <2>4. Travels(toMap[m], toMap'[m], {}) /\ Travels(toChar[m], toChar'[m], {})
        BY <1>2, <1>3, <2>1, <2>2
  <2> QED BY <1>0, <2>2, <2>3, <2>4, QuietMoves
<1>5. CASE Preauth(m)
  <2> DEFINE h == Head(toMap[m])
             p == [h EXCEPT !.type = "3830"]
  <2>1. /\ h \in CharPackets /\ h.type = "3829" /\ toMap[m] # << >>
        BY <1>5, HeadFromChar DEF IInv, Preauth, FromChar
  <2>2. /\ p.type = "3830" /\ p.account_id = h.account_id /\ p.char_id = h.char_id
        /\ p \in MapPackets
    <3>1. h = [type |-> "3829", account_id |-> h.account_id, char_id |-> h.char_id]
          BY <2>1, FieldsToMap
    <3>2. h.account_id \in Accounts /\ h.char_id \in Characters
          BY <2>1, FieldsToMap
    <3>3. p = [type |-> "3830", account_id |-> h.account_id, char_id |-> h.char_id]
      <4> HIDE DEF h
      <4> QED BY <3>1
    <3> HIDE DEF h
    <3> QED BY <3>2, <3>3 DEF MapPackets
  <2>3. p.type \notin Watched /\ Owns(p)
    <3>1. Owns(h)
          BY <1>1, <2>1
    <3> HIDE DEF p, h
    <3> QED BY <2>1, <2>2, <3>1 DEF Watched, Owns
  <2>4. /\ toMap'[m] = Tail(toMap[m]) /\ toChar'[m] = Append(toChar[m], p)
        /\ UNCHANGED << server_session, char_session, offers, inventory,
                        char_storage, sess, storage_db >>
        BY <1>0, <1>5, Queues DEF IInv, Preauth, ReadFromCharAndReply
  <2> HIDE DEF p
  <2>5. CharNow' = CharNow
        BY <2>4 DEF CharNow
  <2>6. Travels(toMap[m], toMap'[m], {}) /\ Travels(toChar[m], toChar'[m], {})
        BY <1>2, <1>3, <2>1, <2>3, <2>4
  <2>7. p.type \notin {"2b01", "3011"}
        BY <2>2
  <2> QED BY <1>0, <2>2, <2>4, <2>5, <2>6, <2>7, QuietMoves
<1>6. CASE Invite(m)
  <2> DEFINE p == Head(toChar[m])
  <2>1. /\ p \in MapPackets /\ p.type = "3830" /\ toChar[m] # << >> /\ Owns(p)
        BY <1>1, <1>6, HeadFromMap DEF IInv, Invite, FromMap
  <2>2. /\ toChar'[m] = Tail(toChar[m])
        /\ offers' = offers \cup
              {[account_id |-> p.account_id, char_id |-> p.char_id, to |-> m]}
        /\ UNCHANGED << server_session, char_session, toMap, inventory,
                        char_storage, sess, storage_db >>
        BY <1>6, Queues DEF IInv, Invite
  <2> HIDE DEF p
  <2>3. \A o \in offers' : o.char_id \in Owned(o.account_id)
        BY <1>0, <2>1, <2>2 DEF Owns
  <2>4. CharNow' = Read(p, CharNow)
        BY <2>1, <2>2 DEF CharNow, Read
  <2>5. Travels(toMap[m], toMap'[m], {}) /\ Travels(toChar[m], toChar'[m], {})
        BY <1>2, <2>1, <2>2
  <2> QED BY <2>1, <2>2, <2>3, <2>4, <2>5, QuietMoves DEF p
<1>7. CASE SaveCharacter(m)
  <2> DEFINE p == Head(toChar[m])
  <2>1. /\ p \in MapPackets /\ p.type = "2b01" /\ toChar[m] # << >>
        BY <1>7, HeadFromMap DEF IInv, SaveCharacter, FromMap
  <2>2. /\ toChar'[m] = Tail(toChar[m])
        /\ inventory' = [inventory EXCEPT ![p.char_id] = p.amount]
        /\ UNCHANGED << server_session, char_session, toMap, offers,
                        char_storage, sess, storage_db >>
        BY <1>7, Queues DEF IInv, SaveCharacter
  <2> HIDE DEF p
  <2>4. CharNow' = Read(p, CharNow)
        BY <2>1, <2>2 DEF CharNow, Read
  <2>5. Travels(toMap[m], toMap'[m], {}) /\ Travels(toChar[m], toChar'[m], {})
        BY <1>2, <2>1, <2>2
  <2> QED BY <1>0, <2>1, <2>2, <2>4, <2>5, QuietMoves DEF p
<1>8. CASE SaveStorage(m)
  <2> DEFINE p == Head(toChar[m])
             r == [type |-> "3811", account_id |-> p.account_id]
  <2>1. /\ p \in MapPackets /\ p.type = "3011" /\ toChar[m] # << >> /\ p.account_id \in Accounts
        BY <1>8, HeadFromMap, FieldsToChar DEF IInv, SaveStorage, FromMap
  <2>2. /\ toChar'[m] = Tail(toChar[m]) /\ toMap'[m] = Append(toMap[m], r)
        /\ char_storage' = [char_storage EXCEPT ![p.account_id] =
                               [amount |-> p.amount, rev |-> p.rev]]
        /\ UNCHANGED << server_session, char_session, offers, inventory,
                        sess, storage_db >>
        BY <1>0, <1>8, Queues DEF IInv, SaveStorage, ReadFromMapAndReply
  <2>3. r.type \notin Watched /\ Owns(r)
        BY DEF Watched, Owns
  <2> HIDE DEF p, r
  <2>4. CharNow' = Read(p, CharNow)
    <3>1. char_storage \in [Accounts -> Content]
          BY DEF IInv, CharInv
    <3> DEFINE cs == [a \in Accounts |-> char_storage[a].amount]
    <3>2. [a \in Accounts |-> char_storage'[a].amount] = [cs EXCEPT ![p.account_id] = p.amount]
          BY <2>1, <2>2, <3>1
    <3> QED BY <2>1, <2>2, <3>2 DEF CharNow, Read
  <2>5. Travels(toMap[m], toMap'[m], {}) /\ Travels(toChar[m], toChar'[m], {})
        BY <1>2, <1>3, <2>1, <2>2, <2>3
  <2> QED BY <1>0, <2>1, <2>2, <2>4, <2>5, QuietMoves DEF p
<1> QED BY <1>4, <1>5, <1>6, <1>7, <1>8

LEMMA TogetherNow ==
    ASSUME IInv, NEW m \in MapServers, TogetherHere(m)
    PROVE  /\ toMap[m] \in Seq(CharPackets) /\ toChar[m] \in Seq(MapPackets)
           /\ Open(m) /\ server_session[m] /\ char_session[m]
           /\ AllOwn(toMap[m]) /\ AllOwn(toChar[m])
           /\ toMap[m] # << >> => Owns(Head(toMap[m]))
           /\ toChar[m] # << >> => Owns(Head(toChar[m]))
           /\ \A o \in offers : o.char_id \in Owned(o.account_id)
           /\ \A a \in Accounts : /\ Order(a, toMap[m], toChar[m], sess[m][a])
                                  /\ sess[m][a].char_id \in Owned(a) \cup {NoChar}
                                  /\ sess[m][a] \in Sessions /\ storage_db[m][a] \in Storages
                                  /\ Sound(sess[m][a], storage_db[m][a])
<1>1. toMap[m] \in Seq(CharPackets) /\ toChar[m] \in Seq(MapPackets)
      BY Queues DEF IInv
<1>2. AllOwn(toMap[m]) /\ AllOwn(toChar[m])
      BY DEF TogetherHere, Owning
<1>3. /\ toMap[m] # << >> => Owns(Head(toMap[m]))
      /\ toChar[m] # << >> => Owns(Head(toChar[m]))
      BY <1>1, <1>2, OwnPasses
<1>4. /\ Open(m) /\ server_session[m] /\ char_session[m]
      /\ \A o \in offers : o.char_id \in Owned(o.account_id)
      /\ \A a \in Accounts : sess[m][a].char_id \in Owned(a) \cup {NoChar}
      BY DEF TogetherHere, Owning, Open
<1>5. \A a \in Accounts : Order(a, toMap[m], toChar[m], sess[m][a])
      BY DEF TogetherHere, Fine
<1> QED BY <1>1, <1>2, <1>3, <1>4, <1>5, Here DEF IInv

\* What a queue has of an account once a packet was read or sent
LEMMA HasNow ==
    ASSUME NEW P, NEW q \in Seq(P), NEW a
    PROVE  /\ \A p, type : Has(Append(q, p), type, a) <=> Has(q, type, a) \/ Is(p, type, a)
           /\ \A p, first, type :
                 InOrder(q, first, type, a) /\ (Is(p, first, a) => ~Has(q, type, a))
                    => InOrder(Append(q, p), first, type, a)
           /\ \A p, to : Carries(q, a, to) /\ (Is(p, "2afd", a) => p.amount = to.inv[p.char_id])
                            => Carries(Append(q, p), a, to)
           /\ \A p, n : Loads(q, a, n) /\ (Is(p, "3810", a) => p.amount = n)
                           => Loads(Append(q, p), a, n)
           /\ q # << >> =>
                 /\ \A type : Has(Tail(q), type, a) => Has(q, type, a)
                 /\ \A type : Is(Head(q), type, a) => Has(q, type, a)
                 /\ \A first, type : InOrder(q, first, type, a) => InOrder(Tail(q), first, type, a)
                 /\ \A first, type : InOrder(q, first, type, a) /\ Is(Head(q), type, a)
                                        => ~Has(Tail(q), first, a)
                 /\ \A to : Carries(q, a, to) =>
                       /\ Carries(Tail(q), a, to)
                       /\ Is(Head(q), "2afd", a) => Head(q).amount = to.inv[Head(q).char_id]
                 /\ \A n : Loads(q, a, n) =>
                       /\ Loads(Tail(q), a, n)
                       /\ Is(Head(q), "3810", a) => Head(q).amount = n
<1>1. ASSUME NEW p
      PROVE  /\ \A to : Carries(q, a, to) /\ (Is(p, "2afd", a) => p.amount = to.inv[p.char_id])
                           => Carries(Append(q, p), a, to)
             /\ \A n : Loads(q, a, n) /\ (Is(p, "3810", a) => p.amount = n)
                          => Loads(Append(q, p), a, n)
  <2>1. /\ Len(q) \in Nat /\ Len(Append(q, p)) = Len(q) + 1
        /\ \A i \in 1 .. Len(q) : Append(q, p)[i] = q[i]
        /\ Append(q, p)[Len(q) + 1] = p
        BY AppendIs
  <2>2. \A i \in 1 .. Len(Append(q, p)) : i \in 1 .. Len(q) \/ i = Len(q) + 1
        BY <2>1
  <2>3. \A to : Carries(q, a, to) /\ (Is(p, "2afd", a) => p.amount = to.inv[p.char_id])
                   => Carries(Append(q, p), a, to)
        BY <2>1, <2>2 DEF Carries
  <2>4. \A n : Loads(q, a, n) /\ (Is(p, "3810", a) => p.amount = n)
                  => Loads(Append(q, p), a, n)
        BY <2>1, <2>2 DEF Loads
  <2> QED BY <2>3, <2>4
<1>2. /\ \A p, type : Has(Append(q, p), type, a) <=> Has(q, type, a) \/ Is(p, type, a)
      /\ \A p, first, type :
            InOrder(q, first, type, a) /\ (Is(p, first, a) => ~Has(q, type, a))
               => InOrder(Append(q, p), first, type, a)
      BY AppendKeeps
<1>3. ASSUME q # << >>
      PROVE  /\ \A to : Carries(q, a, to) =>
                   /\ Carries(Tail(q), a, to)
                   /\ Is(Head(q), "2afd", a) => Head(q).amount = to.inv[Head(q).char_id]
             /\ \A n : Loads(q, a, n) =>
                   /\ Loads(Tail(q), a, n)
                   /\ Is(Head(q), "3810", a) => Head(q).amount = n
      BY <1>3, TailIs DEF Carries, Loads
<1>4. ASSUME q # << >>
      PROVE  /\ \A type : Has(Tail(q), type, a) => Has(q, type, a)
             /\ \A type : Is(Head(q), type, a) => Has(q, type, a)
             /\ \A first, type : InOrder(q, first, type, a) => InOrder(Tail(q), first, type, a)
             /\ \A first, type : InOrder(q, first, type, a) /\ Is(Head(q), type, a)
                                    => ~Has(Tail(q), first, a)
      BY <1>4, TailKeeps
<1> QED BY <1>1, <1>2, <1>3, <1>4

LEMMA BringsNow ==
    ASSUME NEW P, NEW q \in Seq(P), NEW a, NEW p, NEW to, NEW n
    PROVE  /\ Carries(q, a, to) /\ ~Is(p, "2afd", a) => Carries(Append(q, p), a, to)
           /\ Carries(q, a, to) /\ p.amount = to.inv[p.char_id] => Carries(Append(q, p), a, to)
           /\ Loads(q, a, n) /\ ~Is(p, "3810", a) => Loads(Append(q, p), a, n)
           /\ Loads(q, a, n) /\ p.amount = n => Loads(Append(q, p), a, n)
BY HasNow

\* 0x72 and 0x2afc: a session that waits, and the character it is sent
LEMMA TogetherEnter ==
    ASSUME IInv, OneServer, NEW m \in MapServers, TogetherHere(m), NEW o \in offers, Enter(m, o)
    PROVE  TogetherInv'
<1> DEFINE a == o.account_id
           p == [type |-> "2afc", account_id |-> a, char_id |-> o.char_id]
           tm == toMap[m]
           tc == toChar[m]
           s == [NoSession EXCEPT !.char_id = o.char_id]
<1>1. /\ a \in Accounts /\ o.char_id \in Characters /\ o.char_id \in Owned(a)
      BY TogetherNow DEF IInv, LinkInv
<1>2. p \in MapPackets /\ p.type = "2afc" /\ p.account_id = a /\ Owns(p)
      BY <1>1 DEF MapPackets, Owns
<1>3. s # NoSession /\ ~s.auth /\ s.char_id = o.char_id
      BY <1>1, NamesAssumption DEF NoSession
<1>4. /\ sess[m][a] = NoSession
      /\ sess'[m][a] = s
      /\ \A b \in Accounts \ {a} : sess'[m][b] = sess[m][b]
  <2>1. sess \in [MapServers -> [Accounts -> Sessions]]
        BY DEF IInv, MapInv
  <2>2. Session(m, a, s) /\ ~Online(m, a)
        BY DEF Enter
  <2> HIDE DEF s, a
  <2> QED BY <1>1, <2>1, <2>2 DEF Session, Online
<1>5. /\ toChar'[m] = Append(tc, p)
      /\ UNCHANGED << server_session, char_session, toMap, inventory, char_storage, storage_db >>
      /\ offers' = offers \ {o}
      BY TogetherNow, Queues DEF IInv, Enter
<1>6. tm \in Seq(CharPackets) /\ tc \in Seq(MapPackets) /\ Order(a, tm, tc, sess[m][a])
      BY <1>1, TogetherNow
<1> HIDE DEF p, s, tm, tc, a
<1>7. CharNow' = CharNow
      BY <1>5 DEF CharNow
<1>8. Travels(tm, toMap'[m], {a}) /\ Travels(tc, toChar'[m], {a})
      BY <1>2, <1>5, SilentFor DEF Travels, tm
<1>9. /\ ~Has(tc, "2afc", a) /\ ~Has(tm, "2afd", a)
      BY <1>4, <1>6 DEF Order
<1>10. /\ \A type : Is(p, type, a) => type = "2afc"
       BY <1>2 DEF Is
<1>11. Order(a, tm, Append(tc, p), s)
  <2>1. /\ InOrder(Append(tc, p), "2afc", "2afc", a)
        /\ InOrder(Append(tc, p), "2b01", "2afc", a)
        BY <1>6, <1>9, <1>10, HasNow DEF Order
  <2> QED BY <1>3, <1>6, <1>9, <2>1 DEF Order
<1>12. ASSUME NEW to, Amounts(a, to, tm, tc, sess[m][a], storage_db[m][a])
       PROVE  Amounts(a, to, tm, Append(tc, p), s, storage_db[m][a])
  <2>1. \A type : type # "2afc" => (Has(Append(tc, p), type, a) => Has(tc, type, a))
        BY <1>6, <1>10, HasNow
  <2>2. ~NoSession.auth
        BY DEF NoSession
  <2> QED BY <1>3, <1>4, <1>12, <2>1, <2>2 DEF Amounts
<1>13. \A x \in offers' : x.char_id \in Owned(x.account_id)
       BY <1>5, TogetherNow
<1>14. /\ \A b \in Accounts \ {a} : sess'[m][b] = sess[m][b] /\ storage_db'[m][b] = storage_db[m][b]
       /\ storage_db'[m][a] = storage_db[m][a] /\ toMap'[m] = tm /\ s.char_id \in Owned(a) \cup {NoChar}
       BY <1>1, <1>3, <1>4, <1>5 DEF tm
<1>15. p.type \notin {"2b01", "3011"}
       BY <1>2
<1>16. CharNow' = CharNow /\ \E x \in MapPackets : /\ x.type \notin {"2b01", "3011"}
                                                    /\ toChar'[m] = Append(toChar[m], x)
       BY <1>2, <1>5, <1>7, <1>15 DEF tc
<1>17. Order(a, toMap'[m], toChar'[m], sess'[m][a]) /\ sess'[m][a].char_id \in Owned(a) \cup {NoChar}
       BY <1>4, <1>5, <1>11, <1>14
<1>18. \A to \in Point :
          Course(toChar[m], CharNow, to)
             /\ Amounts(a, to, toMap[m], toChar[m], sess[m][a], storage_db[m][a])
             => Amounts(a, to, toMap'[m], toChar'[m], sess'[m][a], storage_db'[m][a])
       BY <1>4, <1>5, <1>12, <1>14 DEF tm, tc
<1>19. UNCHANGED << server_session, char_session >>
       BY <1>5
<1> QED BY <1>1, <1>8, <1>13, <1>14, <1>16, <1>17, <1>18, <1>19, AccountMoves
        DEF tm, tc

\* The character is the last one: nothing of a session that waits is on its way.
LEMMA TogetherAuthorize ==
    ASSUME IInv, OneServer, NEW m \in MapServers, TogetherHere(m), Authorize(m)
    PROVE  TogetherInv'
<1> DEFINE h == Head(toChar[m])
           a == h.account_id
           p == [type |-> "2afd", account_id |-> a, char_id |-> h.char_id,
                 amount |-> inventory[h.char_id]]
           tm == toMap[m]
           tc == toChar[m]
           s == sess[m][a]
           stor == storage_db[m][a]
<1>1. /\ h \in MapPackets /\ h.type = "2afc" /\ tc # << >> /\ Owns(h)
      /\ a \in Accounts /\ h.char_id \in Characters
      BY HeadFromMap, FieldsToChar, TogetherNow DEF IInv, Authorize, FromMap
<1>2. /\ p.type = "2afd" /\ p.account_id = a /\ p.char_id = h.char_id
      /\ p.amount = inventory[h.char_id]
      OBVIOUS
<1>3. /\ toChar'[m] = Tail(tc) /\ toMap'[m] = Append(tm, p)
      /\ UNCHANGED << server_session, char_session, offers, inventory, char_storage,
                      sess, storage_db >>
      BY TogetherNow, Queues DEF IInv, Authorize, ReadFromMapAndReply
<1>4. tm \in Seq(CharPackets) /\ tc \in Seq(MapPackets) /\ Order(a, tm, tc, s) /\ AllOwn(tc)
      BY <1>1, TogetherNow
<1>5. CharNow' = Read(h, CharNow)
      BY <1>1, <1>3 DEF CharNow, Read
<1>6. h.char_id \in Owned(a) /\ Owns(p)
      BY <1>1 DEF Owns
<1>7. tc \in Seq(MapPackets) /\ h = Head(tc)
      BY <1>4
<1> HIDE DEF p, tm, tc, h, a, s, stor
<1>8. Travels(tm, toMap'[m], {a}) /\ Travels(tc, toChar'[m], {a})
      BY <1>1, <1>2, <1>3, <1>6, SilentFor DEF Travels
<1>9. Is(h, "2afc", a) /\ Has(tc, "2afc", a) /\ s # NoSession /\ ~s.auth
  <2>1. Is(h, "2afc", a)
        BY <1>1 DEF Is, a
  <2>2. Has(tc, "2afc", a)
        BY <1>1, <1>7, <2>1, HasNow
  <2> QED BY <1>4, <2>1, <2>2 DEF Order
<1>10. /\ ~Has(Tail(tc), "2afc", a) /\ ~Has(Tail(tc), "2b01", a) /\ ~Has(tm, "2afd", a)
       /\ \A type : Has(Tail(tc), type, a) => Has(tc, type, a)
       BY <1>1, <1>4, <1>7, <1>9, HasNow DEF Order
<1>11. \A type : Is(p, type, a) => type = "2afd"
       BY <1>2 DEF Is
<1>12. Order(a, Append(tm, p), Tail(tc), s)
  <2>1. InOrder(Append(tm, p), "2afd", "2afd", a)
        BY <1>4, <1>10, HasNow DEF Order
  <2>2. InOrder(Tail(tc), "2afc", "2afc", a) /\ InOrder(Tail(tc), "2b01", "2afc", a)
        BY <1>1, <1>4, HasNow DEF Order
  <2> QED BY <1>9, <1>10, <2>1, <2>2 DEF Order
<1>13. ASSUME NEW to, Course(tc, CharNow, to), Amounts(a, to, tm, tc, s, stor)
       PROVE  Amounts(a, to, Append(tm, p), Tail(tc), s, stor)
  <2>1. \A i \in 1 .. Len(tc) : ~(tc[i].type = "2b01" /\ tc[i].char_id = h.char_id)
    <3> SUFFICES ASSUME NEW i \in 1 .. Len(tc), tc[i].type = "2b01", tc[i].char_id = h.char_id
                 PROVE  FALSE
        OBVIOUS
    <3>1. tc[i].account_id = a
          BY <1>4, <1>6 DEF AllOwn, Owns, Owned
    <3>2. Has(tc, "2b01", a)
          BY <3>1 DEF Has, Is
    <3>3. /\ Len(Tail(tc)) \in Nat /\ Len(tc) = Len(Tail(tc)) + 1
          /\ \A j \in 1 .. Len(Tail(tc)) : Tail(tc)[j] = tc[j + 1]
          /\ h = tc[1]
          BY <1>1, <1>4, <1>7, TailIs
    <3>4. i # 1
          BY <1>1, <3>3
    <3>5. i - 1 \in 1 .. Len(Tail(tc)) /\ Tail(tc)[i - 1] = tc[i]
          BY <3>3, <3>4
    <3>6. Has(Tail(tc), "2b01", a)
          BY <3>1, <3>5 DEF Has, Is
    <3> QED BY <1>10, <3>6
  <2>2. to.inv[h.char_id] = inventory[h.char_id]
    <3>1. to.inv[h.char_id] = CharNow.inv[h.char_id]
          BY <1>1, <1>4, <1>13, <2>1, CourseStays
    <3> QED BY <3>1 DEF CharNow
  <2>3. Carries(Append(tm, p), a, to)
    <3>1. p.amount = to.inv[p.char_id] /\ Carries(tm, a, to)
          BY <1>2, <1>13, <2>2 DEF Amounts
    <3> QED BY <1>4, <3>1, BringsNow
  <2>4. Loads(tm, a, to.cs[a]) => Loads(Append(tm, p), a, to.cs[a])
    <3>1. ~Is(p, "3810", a)
          BY <1>11
    <3> QED BY <1>4, <3>1, BringsNow
  <2> QED BY <1>10, <1>13, <2>3, <2>4 DEF Amounts
<1>14. \A x \in offers' : x.char_id \in Owned(x.account_id)
       BY <1>3, TogetherNow
<1>15. /\ \A b \in Accounts \ {a} : sess'[m][b] = sess[m][b] /\ storage_db'[m][b] = storage_db[m][b]
       /\ sess'[m][a] = s /\ storage_db'[m][a] = stor /\ s.char_id \in Owned(a) \cup {NoChar}
       BY <1>1, <1>3, TogetherNow DEF s, stor
<1> QED BY <1>1, <1>3, <1>5, <1>7, <1>8, <1>12, <1>13, <1>14, <1>15, AccountMoves
        DEF tm, tc, s, stor

\* pc_authok: the session has what the char server will have of the character.
LEMMA TogetherAuthOk ==
    ASSUME IInv, OneServer, NEW m \in MapServers, TogetherHere(m), AuthOk(m)
    PROVE  TogetherInv'
<1> DEFINE h == Head(toMap[m])
           a == h.account_id
           tm == toMap[m]
           tc == toChar[m]
           s == sess[m][a]
           stor == storage_db[m][a]
           new == [char_id |-> h.char_id, auth |-> TRUE, amount |-> h.amount,
                   storage_open |-> FALSE]
<1>1. /\ h \in CharPackets /\ h.type = "2afd" /\ tm # << >> /\ Owns(h)
      /\ a \in Accounts /\ h.char_id \in Characters
      BY HeadFromChar, FieldsToMap, TogetherNow DEF IInv, AuthOk, FromChar
<1>2. /\ tm \in Seq(CharPackets) /\ tc \in Seq(MapPackets) /\ Order(a, tm, tc, s)
      /\ h = Head(tm) /\ h.char_id \in Owned(a)
      BY <1>1, TogetherNow DEF Owns
<1>3. /\ toMap'[m] = Tail(tm)
      /\ UNCHANGED << server_session, char_session, toChar, offers, inventory, char_storage,
                      storage_db >>
      BY TogetherNow, Queues DEF IInv, AuthOk
<1>4. Is(h, "2afd", a) /\ s # NoSession /\ ~s.auth /\ ~Has(tc, "2afc", a)
  <2>1. Is(h, "2afd", a)
        BY <1>1 DEF Is
  <2>2. Has(tm, "2afd", a)
    <3> HIDE DEF h, a, tm
    <3> QED BY <1>1, <1>2, <2>1, HasNow
  <2> QED BY <1>2, <2>1, <2>2 DEF Order
<1>5. /\ sess'[m][a] = new
      /\ \A b \in Accounts \ {a} : sess'[m][b] = sess[m][b]
  <2>1. sess \in [MapServers -> [Accounts -> Sessions]]
        BY DEF IInv, MapInv
  <2>2. Session(m, a, new)
        BY <1>4 DEF AuthOk, Online
  <2> HIDE DEF new, a
  <2> QED BY <1>1, <2>1, <2>2 DEF Session
<1>6. /\ new.auth /\ new.char_id = h.char_id /\ new.amount = h.amount /\ ~new.storage_open
      OBVIOUS
<1> HIDE DEF h, a, tm, tc, s, stor, new
<1>7. CharNow' = CharNow /\ toChar'[m] = toChar[m]
      BY <1>3 DEF CharNow
<1>8. Travels(toMap[m], toMap'[m], {a}) /\ Travels(toChar[m], toChar'[m], {a})
      BY <1>1, <1>3 DEF Travels, tm
<1>9. ~Has(Tail(tm), "2afd", a) /\ InOrder(Tail(tm), "2afd", "2afd", a)
      BY <1>1, <1>2, <1>4, HasNow DEF Order
<1>10. Order(a, toMap'[m], toChar'[m], sess'[m][a])
       BY <1>2, <1>3, <1>4, <1>9 DEF Order, tc
<1>11. ASSUME NEW to, Amounts(a, to, tm, tc, s, stor)
       PROVE  Amounts(a, to, Tail(tm), tc, new, stor)
  <2>1. /\ Carries(Tail(tm), a, to) /\ h.amount = to.inv[h.char_id]
        /\ \A n : Loads(tm, a, n) => Loads(Tail(tm), a, n)
        BY <1>1, <1>2, <1>4, <1>11, HasNow DEF Amounts
  <2> QED BY <1>4, <1>6, <1>11, <2>1 DEF Amounts
<1>12. \A to \in Point :
          Course(toChar[m], CharNow, to)
             /\ Amounts(a, to, toMap[m], toChar[m], sess[m][a], storage_db[m][a])
             => Amounts(a, to, toMap'[m], toChar'[m], sess'[m][a], storage_db'[m][a])
       BY <1>3, <1>5, <1>11 DEF tm, tc, s, stor
<1>13. /\ sess'[m][a].char_id \in Owned(a) \cup {NoChar}
       /\ \A b \in Accounts \ {a} : sess'[m][b] = sess[m][b] /\ storage_db'[m][b] = storage_db[m][b]
       /\ \A x \in offers' : x.char_id \in Owned(x.account_id)
       BY <1>2, <1>3, <1>5, <1>6, TogetherNow
<1>14. UNCHANGED << server_session, char_session >>
       BY <1>3
<1> QED BY <1>1, <1>7, <1>8, <1>10, <1>12, <1>13, <1>14, AccountMoves

\* The answers about storages
LEMMA TogetherMapReads ==
    ASSUME IInv, OneServer, FlowInv, NEW m \in MapServers, TogetherHere(m),
           StorageSaved(m) \/ LoadStorage(m)
    PROVE  TogetherInv'
<1> DEFINE h == Head(toMap[m])
           a == h.account_id
           tm == toMap[m]
           tc == toChar[m]
           s == sess[m][a]
           stor == storage_db[m][a]
<1>1. /\ h \in CharPackets /\ tm # << >> /\ a \in Accounts
      /\ StorageSaved(m) => h.type = "3811"
      /\ LoadStorage(m) => h.type = "3810"
      BY HeadFromChar, FieldsToMap DEF IInv, StorageSaved, LoadStorage, FromChar
<1>2. /\ tm \in Seq(CharPackets) /\ tc \in Seq(MapPackets) /\ Order(a, tm, tc, s)
      /\ h = Head(tm) /\ s.char_id \in Owned(a) \cup {NoChar}
      /\ s \in Sessions /\ stor \in Storages /\ Sound(s, stor)
      BY <1>1, TogetherNow
<1>3. /\ toMap'[m] = Tail(tm)
      /\ UNCHANGED << server_session, char_session, toChar, offers, inventory, char_storage >>
      BY TogetherNow, Queues DEF IInv, StorageSaved, LoadStorage
<1>4. /\ \A b \in Accounts \ {a} : sess'[m][b] = sess[m][b] /\ storage_db'[m][b] = storage_db[m][b]
      /\ \/ sess'[m][a] = s /\ storage_db'[m][a] = stor
         \/ /\ StorageSaved(m) /\ stor.status = 0
            /\ sess'[m][a] = s /\ storage_db'[m][a] = [stor EXCEPT !.dirty = FALSE]
         \/ /\ LoadStorage(m) /\ s # NoSession /\ stor.status = 0 /\ ~stor.dirty
            /\ sess'[m][a] = [s EXCEPT !.storage_open = TRUE]
            /\ storage_db'[m][a] = [amount |-> h.amount, rev |-> h.rev, dirty |-> FALSE,
                                    status |-> 1, known |-> TRUE]
  <2>1. /\ sess \in [MapServers -> [Accounts -> Sessions]]
        /\ storage_db \in [MapServers -> [Accounts -> Storages]]
        BY DEF IInv, MapInv
  <2>2. CASE StorageSaved(m)
        BY <1>1, <2>1, <2>2 DEF StorageSaved, Stored, StillInUse
  <2>3. CASE LoadStorage(m)
    <3> DEFINE loaded == [amount |-> h.amount, rev |-> h.rev, dirty |-> FALSE,
                          status |-> 1, known |-> TRUE]
               open == [s EXCEPT !.storage_open = TRUE]
    <3>1. \/ UNCHANGED << sess, storage_db >>
          \/ /\ s # NoSession /\ stor.status = 0 /\ ~stor.dirty
             /\ storage_db' = [storage_db EXCEPT ![m][a] = loaded]
             /\ sess' = [sess EXCEPT ![m][a] = open]
          BY <2>3 DEF LoadStorage, Session, Stored, Online, Loadable
    <3> HIDE DEF loaded, open, a
    <3>2. CASE UNCHANGED << sess, storage_db >>
          BY <3>2
    <3>3. CASE /\ storage_db' = [storage_db EXCEPT ![m][a] = loaded]
               /\ sess' = [sess EXCEPT ![m][a] = open]
      <4>1. /\ storage_db'[m][a] = loaded /\ sess'[m][a] = open
            /\ \A b \in Accounts \ {a} : /\ sess'[m][b] = sess[m][b]
                                         /\ storage_db'[m][b] = storage_db[m][b]
            BY <1>1, <2>1, <3>3
      <4> QED BY <2>3, <3>1, <4>1 DEF loaded, open
    <3> QED BY <3>1, <3>2, <3>3
  <2> QED BY <2>2, <2>3
<1>5. /\ InOrder(tm, "3810", "3811", a)
      /\ Has(tm, "3811", a) => ~Has(tc, "3010", a)
      BY <1>1, NowHere DEF Flow
<1> DEFINE s2 == sess'[m][a]
           stor2 == storage_db'[m][a]
<1> HIDE DEF h, a, tm, tc, s, stor, s2, stor2
<1>6. CharNow' = CharNow /\ toChar'[m] = toChar[m]
      BY <1>3 DEF CharNow
<1>7. Travels(toMap[m], toMap'[m], {a}) /\ Travels(toChar[m], toChar'[m], {a})
      BY <1>1, <1>3 DEF Travels, tm
<1>8. /\ s2.auth = s.auth /\ s2.char_id = s.char_id /\ s2.amount = s.amount
      /\ s # NoSession => s2 # NoSession
  <2>1. CASE s2 = s
        BY <2>1
  <2>2. CASE s2 = [s EXCEPT !.storage_open = TRUE]
        BY <1>2, <2>2 DEF Sessions, NoSession
  <2> QED BY <1>4, <2>1, <2>2 DEF s2
<1>9. Order(a, Tail(tm), tc, s2)
  <2>1. /\ \A type : Has(Tail(tm), type, a) => Has(tm, type, a)
        /\ InOrder(tm, "2afd", "2afd", a) => InOrder(Tail(tm), "2afd", "2afd", a)
        BY <1>1, <1>2, HasNow
  <2> QED BY <1>2, <1>8, <2>1 DEF Order
<1>10. ASSUME NEW to, Amounts(a, to, tm, tc, s, stor)
       PROVE  Amounts(a, to, Tail(tm), tc, s2, stor2)
  <2>1. /\ Carries(Tail(tm), a, to)
        /\ \A n : Loads(tm, a, n) => Loads(Tail(tm), a, n)
        BY <1>1, <1>2, <1>10, HasNow DEF Amounts
  <2>2. CASE s2 = s /\ stor2 = stor
        BY <1>10, <2>1, <2>2 DEF Amounts
  <2>3. CASE /\ StorageSaved(m) /\ stor.status = 0
             /\ s2 = s /\ stor2 = [stor EXCEPT !.dirty = FALSE]
    <3>1. /\ stor2.known = stor.known /\ stor2.status = 0 /\ ~stor2.dirty
          /\ stor2.amount = stor.amount
          BY <1>2, <2>3 DEF Storages
    <3>2. ~s.storage_open
          BY <1>2, <2>3 DEF Sound
    <3>3. Is(h, "3811", a)
          BY <1>1, <2>3 DEF Is, a
    <3>4. Has(tm, "3811", a) /\ ~Has(Tail(tm), "3810", a)
          BY <1>1, <1>2, <1>5, <3>3, HasNow
    <3>5. Loads(Tail(tm), a, to.cs[a])
          BY <3>4 DEF Loads, Has
    <3> QED BY <1>5, <1>10, <2>1, <2>3, <3>1, <3>2, <3>4, <3>5 DEF Amounts
  <2>4. CASE /\ LoadStorage(m) /\ stor.status = 0 /\ ~stor.dirty
             /\ stor2 = [amount |-> h.amount, rev |-> h.rev, dirty |-> FALSE,
                         status |-> 1, known |-> TRUE]
    <3>1. stor2.known /\ ~stor2.dirty /\ stor2.amount = h.amount
          BY <2>4
    <3>2. Is(h, "3810", a)
          BY <1>1, <2>4 DEF Is, a
    <3>3. Loads(tm, a, to.cs[a])
          BY <1>10, <2>4 DEF Amounts
    <3>4. h.amount = to.cs[a]
          BY <1>1, <1>2, <3>2, <3>3, HasNow
    <3> QED BY <1>8, <1>10, <2>1, <2>4, <3>1, <3>3, <3>4 DEF Amounts
  <2> QED BY <1>4, <2>2, <2>3, <2>4 DEF s2, stor2
<1>11. \A to \in Point :
          Course(toChar[m], CharNow, to)
             /\ Amounts(a, to, toMap[m], toChar[m], sess[m][a], storage_db[m][a])
             => Amounts(a, to, toMap'[m], toChar'[m], sess'[m][a], storage_db'[m][a])
       BY <1>3, <1>10 DEF tm, tc, s, stor, s2, stor2
<1>12. /\ sess'[m][a].char_id \in Owned(a) \cup {NoChar}
       /\ Order(a, toMap'[m], toChar'[m], sess'[m][a])
       /\ \A x \in offers' : x.char_id \in Owned(x.account_id)
       BY <1>2, <1>3, <1>8, <1>9, TogetherNow DEF s2, tc
<1>13. UNCHANGED << server_session, char_session >>
       BY <1>3
<1> QED BY <1>1, <1>4, <1>6, <1>7, <1>11, <1>12, <1>13, AccountMoves

\* 0x3010: the storage the char server sends is the last one, if it is needed.
LEMMA TogetherSendStorage ==
    ASSUME IInv, OneServer, NEW m \in MapServers, TogetherHere(m), SendStorage(m)
    PROVE  TogetherInv'
<1> DEFINE h == Head(toChar[m])
           a == h.account_id
           p == [type |-> "3810", account_id |-> a, amount |-> char_storage[a].amount,
                 rev |-> char_storage[a].rev]
           tm == toMap[m]
           tc == toChar[m]
           s == sess[m][a]
           stor == storage_db[m][a]
<1>1. /\ h \in MapPackets /\ h.type = "3010" /\ tc # << >> /\ a \in Accounts
      BY HeadFromMap, FieldsToChar DEF IInv, SendStorage, FromMap
<1>2. /\ p.type = "3810" /\ p.account_id = a /\ p.amount = char_storage[a].amount
      /\ Owns(p)
      BY DEF Owns
<1>3. /\ toChar'[m] = Tail(tc) /\ toMap'[m] = Append(tm, p)
      /\ UNCHANGED << server_session, char_session, offers, inventory, char_storage,
                      sess, storage_db >>
      BY TogetherNow, Queues DEF IInv, SendStorage, ReadFromMapAndReply
<1>4. /\ tm \in Seq(CharPackets) /\ tc \in Seq(MapPackets) /\ Order(a, tm, tc, s)
      /\ h = Head(tc) /\ s.char_id \in Owned(a) \cup {NoChar}
      BY <1>1, TogetherNow
<1>5. CharNow' = Read(h, CharNow) /\ CharNow.cs[a] = char_storage[a].amount
      BY <1>1, <1>3 DEF CharNow, Read
<1> HIDE DEF p, tm, tc, h, a, s, stor
<1>6. Travels(toMap[m], toMap'[m], {a}) /\ Travels(toChar[m], toChar'[m], {a})
      BY <1>1, <1>2, <1>3, SilentFor DEF Travels, tm, tc
<1>7. Has(tc, "3010", a)
  <2>1. Is(h, "3010", a)
        BY <1>1 DEF Is, a
  <2> QED BY <1>1, <1>4, <2>1, HasNow
<1>8. /\ \A type : type # "3810" => ~Is(p, type, a)
      /\ \A type : Has(Tail(tc), type, a) => Has(tc, type, a)
      /\ \A type, first : InOrder(tc, first, type, a) => InOrder(Tail(tc), first, type, a)
      BY <1>1, <1>2, <1>4, HasNow DEF Is
<1>9. Order(a, Append(tm, p), Tail(tc), s)
  <2>1. Has(Append(tm, p), "2afd", a) => Has(tm, "2afd", a)
        BY <1>4, <1>8, HasNow
  <2>2. InOrder(Append(tm, p), "2afd", "2afd", a)
        BY <1>4, <1>8, HasNow DEF Order
  <2> QED BY <1>4, <1>8, <2>1, <2>2 DEF Order
<1>10. ASSUME NEW to, Course(tc, CharNow, to), Amounts(a, to, tm, tc, s, stor)
       PROVE  Amounts(a, to, Append(tm, p), Tail(tc), s, stor)
  <2>1. Carries(Append(tm, p), a, to)
    <3>1. ~Is(p, "2afd", a) /\ Carries(tm, a, to)
          BY <1>8, <1>10 DEF Amounts
    <3> QED BY <1>4, <3>1, BringsNow
  <2>2. ASSUME ~stor.known \/ ~stor.dirty PROVE Loads(Append(tm, p), a, to.cs[a])
    <3>1. Loads(tm, a, to.cs[a]) /\ ~Has(tc, "3011", a)
          BY <1>7, <1>10, <2>2 DEF Amounts
    <3>2. to.cs[a] = CharNow.cs[a]
          BY <1>1, <1>4, <1>10, <3>1, CourseStays
    <3>3. p.amount = to.cs[a]
          BY <1>2, <1>5, <3>2
    <3> QED BY <1>4, <3>1, <3>3, BringsNow
  <2> QED BY <1>8, <1>10, <2>1, <2>2 DEF Amounts
<1>11. \A to \in Point :
          Course(toChar[m], CharNow, to)
             /\ Amounts(a, to, toMap[m], toChar[m], sess[m][a], storage_db[m][a])
             => Amounts(a, to, toMap'[m], toChar'[m], sess'[m][a], storage_db'[m][a])
       BY <1>3, <1>10 DEF tm, tc, s, stor
<1>12. /\ sess'[m][a].char_id \in Owned(a) \cup {NoChar}
       /\ Order(a, toMap'[m], toChar'[m], sess'[m][a])
       /\ \A x \in offers' : x.char_id \in Owned(x.account_id)
       /\ \A b \in Accounts \ {a} : sess'[m][b] = sess[m][b] /\ storage_db'[m][b] = storage_db[m][b]
       BY <1>3, <1>4, <1>9, TogetherNow DEF s
<1>13. /\ UNCHANGED << server_session, char_session >>
       /\ toChar[m] # << >> /\ toChar'[m] = Tail(toChar[m]) /\ CharNow' = Read(Head(toChar[m]), CharNow)
       BY <1>1, <1>3, <1>4, <1>5 DEF tc
<1> QED BY <1>1, <1>6, <1>11, <1>12, <1>13, AccountMoves

LEMMA TogetherOpen ==
    ASSUME IInv, OneServer, FlowInv, NEW m \in MapServers, TogetherHere(m), NEW a \in Accounts,
           OpenStorage(m, a)
    PROVE  TogetherInv'
<1> DEFINE p == [type |-> "3010", account_id |-> a]
           tm == toMap[m]
           tc == toChar[m]
           s == sess[m][a]
           stor == storage_db[m][a]
<1>1. /\ tm \in Seq(CharPackets) /\ tc \in Seq(MapPackets) /\ Order(a, tm, tc, s)
      /\ s.char_id \in Owned(a) \cup {NoChar} /\ s \in Sessions /\ stor \in Storages
      /\ s.auth /\ ~s.storage_open
      /\ \A x \in offers' : x.char_id \in Owned(x.account_id)
      BY TogetherNow DEF OpenStorage, Playing
<1>2. p \in MapPackets /\ p.type = "3010" /\ p.account_id = a /\ Owns(p)
      BY DEF MapPackets, Owns
<1>3. UNCHANGED << server_session, char_session, toMap, offers, inventory, char_storage >>
      BY DEF OpenStorage
<1>4. \/ ~stor.known /\ toChar'[m] = Append(tc, p) /\ UNCHANGED << sess, storage_db >>
      \/ /\ stor.known /\ stor.status = 0 /\ UNCHANGED toChar
         /\ sess'[m][a] = [s EXCEPT !.storage_open = TRUE]
         /\ storage_db'[m][a] = [stor EXCEPT !.status = 1]
         /\ \A b \in Accounts \ {a} : /\ sess'[m][b] = sess[m][b]
                                      /\ storage_db'[m][b] = storage_db[m][b]
  <2>1. /\ sess \in [MapServers -> [Accounts -> Sessions]]
        /\ storage_db \in [MapServers -> [Accounts -> Storages]]
        BY DEF IInv, MapInv
  <2>2. CASE ~stor.known
        BY <2>2, TogetherNow, Queues DEF IInv, OpenStorage
  <2>3. CASE stor.known
    <3> DEFINE open == [s EXCEPT !.storage_open = TRUE]
               used == [stor EXCEPT !.status = 1]
    <3>1. stor.status = 0 /\ UNCHANGED toChar /\ Session(m, a, open) /\ Stored(m, a, used)
          BY <2>3 DEF OpenStorage
    <3> HIDE DEF open, used
    <3>2. /\ sess'[m][a] = open /\ storage_db'[m][a] = used
          /\ \A b \in Accounts \ {a} : /\ sess'[m][b] = sess[m][b]
                                       /\ storage_db'[m][b] = storage_db[m][b]
          BY <2>1, <3>1 DEF Session, Stored
    <3>3. /\ sess'[m][a] = [s EXCEPT !.storage_open = TRUE]
          /\ storage_db'[m][a] = [stor EXCEPT !.status = 1]
          BY <3>2 DEF open, used
    <3> HIDE DEF s, stor
    <3> QED BY <2>1, <2>3, <3>1, <3>2, <3>3
  <2> QED BY <2>2, <2>3
<1>5. ~stor.known => ~Has(tc, "3011", a)
      BY NowHere, TogetherNow DEF Flow
<1> DEFINE s2 == sess'[m][a]
           stor2 == storage_db'[m][a]
           tc2 == toChar'[m]
<1> HIDE DEF p, tm, tc, s, stor, s2, stor2, tc2
<1>6. CharNow' = CharNow
      BY <1>3 DEF CharNow
<1>7. Travels(toMap[m], toMap'[m], {a}) /\ Travels(toChar[m], toChar'[m], {a})
      BY <1>2, <1>4, <1>3, SilentFor DEF Travels, tc
<1>8. \A type : type # "3010" => ~Is(p, type, a)
      BY <1>2 DEF Is
<1>9. /\ Order(a, tm, tc2, s2)
      /\ s2.char_id = s.char_id
      /\ \A to : Amounts(a, to, tm, tc, s, stor) => Amounts(a, to, tm, tc2, s2, stor2)
  <2>1. CASE ~stor.known /\ tc2 = Append(tc, p) /\ s2 = s /\ stor2 = stor
    <3>1. \A type : type # "3010" => (Has(tc2, type, a) => Has(tc, type, a))
          BY <1>1, <1>8, <2>1, HasNow
    <3>2. InOrder(tc2, "2afc", "2afc", a) /\ InOrder(tc2, "2b01", "2afc", a)
          BY <1>1, <1>8, <2>1, HasNow DEF Order
    <3>3. Order(a, tm, tc2, s2)
          BY <1>1, <2>1, <3>1, <3>2 DEF Order
    <3>4. ASSUME NEW to, Amounts(a, to, tm, tc, s, stor) PROVE Amounts(a, to, tm, tc2, s2, stor2)
          BY <1>5, <2>1, <3>1, <3>4 DEF Amounts
    <3> QED BY <2>1, <3>3, <3>4
  <2>2. CASE /\ stor.known /\ stor.status = 0 /\ tc2 = tc
             /\ s2 = [s EXCEPT !.storage_open = TRUE] /\ stor2 = [stor EXCEPT !.status = 1]
    <3>1. /\ s2.auth = s.auth /\ s2.char_id = s.char_id /\ s2.amount = s.amount
          /\ s2.storage_open /\ s2 # NoSession
          /\ stor2.known = stor.known /\ stor2.dirty = stor.dirty /\ stor2.amount = stor.amount
          BY <1>1, <2>2 DEF Sessions, Storages, NoSession
    <3>2. Order(a, tm, tc2, s2)
          BY <1>1, <2>2, <3>1 DEF Order
    <3>3. ASSUME NEW to, Amounts(a, to, tm, tc, s, stor) PROVE Amounts(a, to, tm, tc2, s2, stor2)
          BY <1>1, <2>2, <3>1, <3>3 DEF Amounts
    <3> QED BY <3>1, <3>2, <3>3
  <2> QED BY <1>4, <1>3, <2>1, <2>2 DEF s2, stor2, tc2, s, stor, tc
<1>10. \A to \in Point :
         Course(toChar[m], CharNow, to)
            /\ Amounts(a, to, toMap[m], toChar[m], sess[m][a], storage_db[m][a])
            => Amounts(a, to, toMap'[m], toChar'[m], sess'[m][a], storage_db'[m][a])
      BY <1>4, <1>3, <1>9 DEF tm, tc, s, stor, s2, stor2, tc2
<1>11. /\ sess'[m][a].char_id \in Owned(a) \cup {NoChar}
       /\ Order(a, toMap'[m], toChar'[m], sess'[m][a])
       /\ \A b \in Accounts \ {a} : sess'[m][b] = sess[m][b] /\ storage_db'[m][b] = storage_db[m][b]
       BY <1>1, <1>4, <1>3, <1>9 DEF s2, tc2, tm
<1>12. \/ toChar'[m] = toChar[m] /\ CharNow' = CharNow
       \/ CharNow' = CharNow /\ \E x \in MapPackets : /\ x.type \notin {"2b01", "3011"}
                                                      /\ toChar'[m] = Append(toChar[m], x)
       BY <1>2, <1>4, <1>3, <1>6 DEF tc
<1>13. UNCHANGED << server_session, char_session >>
       BY <1>4, <1>3
<1> QED BY <1>1, <1>7, <1>10, <1>11, <1>12, <1>13, AccountMoves

\* Pieces go from one to the other.
LEMMA TogetherMoved ==
    ASSUME IInv, OneServer, NEW m \in MapServers, TogetherHere(m), NEW a \in Accounts,
           NEW i \in Nat, NEW k \in Nat, Moved(m, a, i, k),
           i + k = sess[m][a].amount + storage_db[m][a].amount
    PROVE  TogetherInv'
<1> DEFINE tm == toMap[m]
           tc == toChar[m]
           s == sess[m][a]
           stor == storage_db[m][a]
           s2 == sess'[m][a]
           stor2 == storage_db'[m][a]
<1>1. /\ Order(a, tm, tc, s)
      /\ s.char_id \in Owned(a) \cup {NoChar} /\ s \in Sessions /\ stor \in Storages
      /\ s.auth /\ s.storage_open /\ stor.known /\ stor.status = 1
      BY TogetherNow DEF Moved, Playing, Sound
<1>2. /\ UNCHANGED << server_session, char_session, toMap, toChar, offers, inventory,
                      char_storage >>
      /\ s2 = [s EXCEPT !.amount = i]
      /\ stor2 = [stor EXCEPT !.amount = k, !.dirty = TRUE, !.rev = count["move"] + 1]
      /\ \A b \in Accounts \ {a} : sess'[m][b] = sess[m][b] /\ storage_db'[m][b] = storage_db[m][b]
      BY DEF IInv, MapInv, Moved, Session, Stored, linkVars
<1>3. i + k = s.amount + stor.amount
      OBVIOUS
<1> HIDE DEF tm, tc, s, stor, s2, stor2
<1>4. /\ s2.auth = s.auth /\ s2.char_id = s.char_id /\ s2.amount = i
      /\ s2.storage_open = s.storage_open /\ s2 # NoSession
      /\ stor2.known = stor.known /\ stor2.dirty /\ stor2.amount = k /\ stor2.status = stor.status
  <2>1. /\ s2.auth = s.auth /\ s2.char_id = s.char_id /\ s2.amount = i
        /\ s2.storage_open = s.storage_open
        BY <1>1, <1>2 DEF Sessions
  <2>2. /\ stor2.known = stor.known /\ stor2.dirty /\ stor2.amount = k
        /\ stor2.status = stor.status
        BY <1>1, <1>2 DEF Storages
  <2>3. ~NoSession.auth
        BY DEF NoSession
  <2>4. s2.auth
        BY <1>1, <2>1
  <2> QED BY <2>1, <2>2, <2>3, <2>4
<1>5. CharNow' = CharNow /\ toChar'[m] = toChar[m]
      BY <1>2 DEF CharNow
<1>6. Travels(toMap[m], toMap'[m], {a}) /\ Travels(toChar[m], toChar'[m], {a})
      BY <1>2 DEF Travels
<1>7. Order(a, tm, tc, s2)
      BY <1>1, <1>4 DEF Order
<1>8. ASSUME NEW to, Amounts(a, to, tm, tc, s, stor)
      PROVE  Amounts(a, to, tm, tc, s2, stor2)
  <2>1. s.amount + stor.amount = to.inv[s.char_id] + to.cs[a]
        BY <1>1, <1>8 DEF Amounts
  <2> QED BY <1>1, <1>4, <1>3, <1>8, <2>1 DEF Amounts
<1>9. \A to \in Point :
         Course(toChar[m], CharNow, to)
            /\ Amounts(a, to, toMap[m], toChar[m], sess[m][a], storage_db[m][a])
            => Amounts(a, to, toMap'[m], toChar'[m], sess'[m][a], storage_db'[m][a])
      BY <1>2, <1>8 DEF tm, tc, s, stor, s2, stor2
<1>10. /\ sess'[m][a].char_id \in Owned(a) \cup {NoChar}
       /\ Order(a, toMap'[m], toChar'[m], sess'[m][a])
       /\ \A x \in offers' : x.char_id \in Owned(x.account_id)
       BY <1>1, <1>2, <1>4, <1>7, TogetherNow DEF s2, tc, tm
<1>11. UNCHANGED << server_session, char_session >>
       BY <1>2
<1> QED BY <1>2, <1>5, <1>6, <1>9, <1>10, <1>11, AccountMoves

\* A save carries what the player has, in one packet or in two.
LEMMA TogetherSaves ==
    ASSUME IInv, OneServer, NEW m \in MapServers, TogetherHere(m), NEW a \in Accounts,
           Autosave(m, a) \/ CloseStorage(m, a) \/ Quit(m, a)
    PROVE  TogetherInv'
<1> DEFINE tm == toMap[m]
           tc == toChar[m]
           ss == sess[m]
           db == storage_db[m]
           s == sess[m][a]
           stor == storage_db[m][a]
           p == [type |-> "2b01", account_id |-> a, char_id |-> s.char_id, amount |-> s.amount]
           r == [type |-> "3011", account_id |-> a, amount |-> stor.amount, rev |-> stor.rev]
           free == [stor EXCEPT !.status = 0]
           closed == [s EXCEPT !.storage_open = FALSE]
           tc2 == toChar'[m]
           ss2 == sess'[m]
           db2 == storage_db'[m]
           s2 == sess'[m][a]
           stor2 == storage_db'[m][a]
<1>1. /\ tm \in Seq(CharPackets) /\ tc \in Seq(MapPackets) /\ Open(m) /\ char_session[m]
      /\ AllOwn(tm) /\ AllOwn(tc) /\ s \in Sessions /\ stor \in Storages
      /\ s.char_id \in Owned(a) \cup {NoChar}
      /\ s.auth => s.char_id \in Characters
      /\ s.storage_open => stor.known /\ stor.status = 1
      /\ Fine(tm, tc, ss, db, CharNow)
      BY TogetherNow DEF TogetherHere, Sound
<1>2. \A b \in Accounts : ss[b].auth => ss[b].char_id \in Owned(b)
  <2>1. ASSUME NEW b \in Accounts, ss[b].auth PROVE ss[b].char_id \in Owned(b)
    <3>1. ss[b].char_id \in Owned(b) \cup {NoChar} /\ ss[b].char_id \in Characters
          BY <2>1, TogetherNow DEF Sound
    <3> QED BY <3>1, NamesAssumption
  <2> QED BY <2>1
<1>3. Playing(m, a) /\ chrif_save(m, a)
  <2>1. CASE Autosave(m, a)
        BY <2>1 DEF Autosave
  <2>2. CASE CloseStorage(m, a)
        BY <1>1, <2>2 DEF CloseStorage
  <2>3. CASE Quit(m, a)
        BY <1>1, <2>3 DEF Quit
  <2> QED BY <2>1, <2>2, <2>3
<1>4. \/ ~(s.storage_open /\ stor.dirty) /\ tc2 = Append(tc, p)
      \/ s.storage_open /\ stor.dirty /\ tc2 = Append(Append(tc, p), r)
      BY <1>1, <1>3, SavesAre
<1>5. p \in MapPackets /\ r \in MapPackets /\ Owns(p) /\ Owns(r)
      BY <1>1, <1>2, <1>3 DEF MapPackets, Sessions, Storages, Playing, Owns
<1>6. /\ p.type = "2b01" /\ p.account_id = a /\ p.char_id = s.char_id /\ p.amount = s.amount
      /\ r.type = "3011" /\ r.account_id = a /\ r.amount = stor.amount
      OBVIOUS
<1>7. /\ UNCHANGED << server_session, char_session, toMap, offers, inventory, char_storage >>
      /\ \A b \in Accounts \ {a} : ss2[b] = ss[b] /\ db2[b] = db[b]
      /\ \/ s2 = s /\ stor2 = stor
         \/ s2 = closed /\ stor2 = free
         \/ s2 = NoSession /\ stor2 = free
         \/ ~s.storage_open /\ s2 = NoSession /\ stor2 = stor
  <2>1. /\ sess \in [MapServers -> [Accounts -> Sessions]]
        /\ storage_db \in [MapServers -> [Accounts -> Storages]]
        BY DEF IInv, MapInv
  <2>2. CASE Autosave(m, a)
        BY <2>2 DEF Autosave
  <2>3. CASE CloseStorage(m, a)
        BY <2>1, <2>3 DEF CloseStorage, Session, Stored, ClosedSession
  <2>4. CASE Quit(m, a)
        BY <1>3, <2>1, <2>4 DEF Quit, Session, Stored
  <2> QED BY <2>2, <2>3, <2>4
<1>8. /\ closed.auth = s.auth /\ closed.char_id = s.char_id /\ closed.amount = s.amount
      /\ ~closed.storage_open
      BY <1>1 DEF Sessions
<1>9. /\ free.amount = stor.amount /\ free.known = stor.known /\ free.dirty = stor.dirty
      /\ free.status = 0
      BY <1>1 DEF Storages
<1>10. NoSession.char_id = NoChar /\ ~NoSession.auth
       BY DEF NoSession
<1>11. s = ss[a] /\ stor = db[a] /\ s2 = ss2[a] /\ stor2 = db2[a] /\ s.auth
       BY <1>3 DEF Playing
<1> HIDE DEF tm, tc, ss, db, s, stor, p, r, free, closed, tc2, ss2, db2, s2, stor2
<1>12. /\ stor2.amount = stor.amount /\ stor2.known = stor.known /\ stor2.dirty = stor.dirty
       /\ s2.auth => s2.char_id = s.char_id /\ s2.amount = s.amount
       /\ \/ s2 = s /\ stor2 = stor
          \/ /\ ~(s2.auth /\ s2.storage_open)
             /\ stor2.status = 0 \/ (stor2.status = stor.status /\ ~s.storage_open)
       /\ s2.char_id \in Owned(a) \cup {NoChar}
       BY <1>1, <1>7, <1>8, <1>9, <1>10
<1>13. Fine(tm, tc2, ss2, db2, CharNow)
  <2>1. /\ s = ss[a] /\ s.auth /\ stor = db[a] /\ s2 = ss2[a] /\ stor2 = db2[a]
        /\ s.storage_open => stor.known /\ stor.status = 1
        BY <1>1, <1>11
  <2>2. \A b \in Accounts \ {a} : ss2[b] = ss[b] /\ db2[b] = db[b]
        BY <1>7
  <2>3. tm \in Seq(CharPackets) /\ tc \in Seq(MapPackets) /\ AllOwn(tm)
        BY <1>1
  <2>4. Fine(tm, tc, ss, db, CharNow)
        BY <1>1
  <2>5. p \in MapPackets /\ r \in MapPackets
        BY <1>5
  <2>6. /\ stor2.amount = stor.amount /\ stor2.known = stor.known /\ stor2.dirty = stor.dirty
        /\ s2.auth => s2.char_id = s.char_id /\ s2.amount = s.amount
        BY <1>12
  <2>7. \/ s2 = s /\ stor2 = stor
        \/ /\ ~(s2.auth /\ s2.storage_open)
           /\ stor2.status = 0 \/ (stor2.status = stor.status /\ ~s.storage_open)
        BY <1>12
  <2> DEFINE from == CharNow
  <2>8. Fine(tm, tc, ss, db, from)
        BY <2>4
  <2> HIDE DEF from
  <2>9. Fine(tm, tc2, ss2, db2, from)
        BY <1>2, <1>4, <1>6, <2>1, <2>2, <2>3, <2>5, <2>6, <2>7, <2>8, FineSaved
  <2> QED BY <2>9 DEF from
<1>14. AllOwn(tc2)
  <2>1. AllOwn(Append(tc, p)) /\ Append(tc, p) \in Seq(MapPackets)
        BY <1>1, <1>5, OwnPasses, AppendProperties
  <2>2. AllOwn(Append(Append(tc, p), r))
        BY <1>5, <2>1, OwnPasses
  <2> QED BY <1>4, <2>1, <2>2
<1>15. \A b \in Accounts : sess'[m][b].char_id \in Owned(b) \cup {NoChar}
  <2>1. ASSUME NEW b \in Accounts, b # a PROVE sess'[m][b] = sess[m][b]
        BY <1>7, <2>1 DEF ss, ss2
  <2> QED BY <1>12, <2>1, TogetherNow DEF s2
<1>16. CharNow' = CharNow /\ toMap'[m] = tm /\ Open(m)'
       BY <1>1, <1>7 DEF CharNow, Open, tm
<1>17. Owning(m)'
       BY <1>1, <1>7, <1>14, <1>15, <1>16, TogetherNow DEF Owning, tc2
<1>18. Fine(toMap[m], toChar[m], sess[m], storage_db[m], CharNow)'
       BY <1>13, <1>16 DEF tc2, ss2, db2
<1>19. TogetherHere(m)'
       BY <1>16, <1>17, <1>18 DEF TogetherHere
<1> QED BY <1>19, TogetherThere

\* In the beginning each character has its bag, and the storages are empty.
LEMMA EvenAtFirst == Init => CharNow \in Point /\ \A a \in Accounts : Even(a, CharNow)
<1> SUFFICES ASSUME Init PROVE CharNow \in Point /\ \A a \in Accounts : Even(a, CharNow)
    OBVIOUS
<1>1. inventory = Bag /\ Bag \in [Characters -> Nat]
      BY StorageAssumption DEF Init
<1>2. char_storage = [a \in Accounts |-> [amount |-> 0, rev |-> 0]]
      BY DEF Init
<1>3. /\ CharNow.inv = Bag /\ CharNow.cs \in [Accounts -> Nat]
      /\ CharNow = [inv |-> CharNow.inv, cs |-> CharNow.cs]
      /\ \A a \in Accounts : CharNow.cs[a] = 0
      BY <1>1, <1>2 DEF CharNow
<1>4. CharNow \in Point
      BY <1>1, <1>3 DEF Point
<1>5. ASSUME NEW a \in Accounts PROVE Even(a, CharNow)
  <2>1. \A c \in Owned(a) : c # NoChar => Bag[c] = Bag[c]
        OBVIOUS
  <2>2. Total(Bag, a) \in Nat
        BY <1>1, TotalChanges
  <2>3. CharNow.cs[a] = 0
        BY <1>3
  <2> QED BY <1>3, <2>2, <2>3 DEF Even
<1> QED BY <1>4, <1>5

LEMMA InitTogether == Init => TogetherInv
<1> SUFFICES ASSUME Init, NEW m \in MapServers PROVE TogetherHere(m)
    BY DEF TogetherInv
<1>1. /\ toMap[m] = << >> /\ toChar[m] = << >> /\ Open(m) /\ offers = {}
      /\ \A a \in Accounts : sess[m][a] = NoSession /\ storage_db[m][a] = NoStorage
      BY DEF Init, LinksInit, Open
<1>2. CharNow \in Point /\ \A a \in Accounts : Even(a, CharNow)
      BY EvenAtFirst
<1>3. Len(toMap[m]) = 0 /\ Len(toChar[m]) = 0
      BY <1>1, EmptySeq
<1>4. ASSUME NEW a PROVE /\ \A type : ~Has(toMap[m], type, a) /\ ~Has(toChar[m], type, a)
                         /\ \A x, y : InOrder(toMap[m], x, y, a) /\ InOrder(toChar[m], x, y, a)
                         /\ Carries(toMap[m], a, CharNow) /\ Loads(toMap[m], a, CharNow.cs[a])
      BY <1>3 DEF Has, InOrder, Carries, Loads
<1>5. AllOwn(toMap[m]) /\ AllOwn(toChar[m])
      BY <1>3 DEF AllOwn
<1>6. /\ ~NoSession.auth /\ ~NoSession.storage_open /\ NoSession.char_id = NoChar
      /\ ~NoStorage.known /\ ~NoStorage.dirty
      BY DEF NoSession, NoStorage
<1>7. Owning(m)
      BY <1>1, <1>5, <1>6 DEF Owning
<1>8. Course(toChar[m], CharNow, CharNow)
      BY <1>2, <1>3, CourseStarts
<1>9. ASSUME NEW a \in Accounts
      PROVE  /\ Order(a, toMap[m], toChar[m], sess[m][a])
             /\ Amounts(a, CharNow, toMap[m], toChar[m], sess[m][a], storage_db[m][a])
      BY <1>1, <1>4, <1>6 DEF Order, Amounts
<1> QED BY <1>1, <1>2, <1>7, <1>8, <1>9 DEF TogetherHere, Fine

LEMMA TogetherNext ==
    ASSUME IInv, OneServer, FlowInv, TogetherInv, [Next]_vars
    PROVE  TogetherInv'
<1> SUFFICES ASSUME Unbroken' PROVE TogetherInv'
    BY DEF TogetherInv
<1>0. CharInv
      BY DEF IInv
<1>1. CASE UNCHANGED vars
  <2>1. CharNow' = CharNow
        BY <1>1 DEF vars, linkVars, CharNow
  <2>2. \A m \in MapServers : TogetherHere(m)' <=> TogetherHere(m)
        BY <1>1, <2>1 DEF vars, linkVars, TogetherHere, Open, Owning
  <2> QED BY <1>1, <2>2 DEF vars, TogetherInv, Unbroken
<1>2. CASE Next
  <2>1. PICK m \in MapServers :
            \/ CharReads(m) \/ MapReads(m)
            \/ \E o \in offers : Enter(m, o)
            \/ \E a \in Accounts : Player(m, a)
            \/ Break(m) \/ Crash(m) \/ Reconnect(m)
        BY <1>2 DEF Next
  <2>2. ASSUME UNCHANGED count \/ \E kind \in Kinds : Count(kind)
        PROVE  TogetherHere(m)
        BY <1>0, <2>2, UnbrokenBefore DEF TogetherInv
  <2>3. CASE CharReads(m)
    <3>1. UNCHANGED count
          BY <2>3 DEF CharReads, Invite, Authorize, SaveCharacter, SaveStorage, SendStorage
    <3> QED BY <2>2, <2>3, <3>1, TogetherQuiet, TogetherAuthorize, TogetherSendStorage
            DEF CharReads
  <2>4. CASE MapReads(m)
    <3>1. UNCHANGED count
          BY <2>4 DEF MapReads, Preauth, AuthOk, StorageSaved, LoadStorage
    <3> QED BY <2>2, <2>4, <3>1, TogetherQuiet, TogetherAuthOk, TogetherMapReads DEF MapReads
  <2>5. ASSUME NEW o \in offers, Enter(m, o) PROVE TogetherInv'
    <3>1. UNCHANGED count
          BY <2>5 DEF Enter
    <3> QED BY <2>2, <2>5, <3>1, TogetherEnter
  <2>6. ASSUME NEW a \in Accounts, Player(m, a) PROVE TogetherInv'
    <3>1. CASE \E c \in Characters : Select(m, a, c)
      <4>1. Count("select") /\ "select" \in Kinds
            BY <3>1 DEF Select, Kinds
      <4> QED BY <2>2, <3>1, <4>1, TogetherQuiet
    <3>2. CASE Autosave(m, a) \/ CloseStorage(m, a) \/ Quit(m, a)
      <4>1. UNCHANGED count \/ Count("save")
            BY <3>2 DEF Autosave, CloseStorage, Quit
      <4>2. "save" \in Kinds
            BY DEF Kinds
      <4> QED BY <2>2, <3>2, <4>1, <4>2, TogetherSaves
    <3>3. CASE OpenStorage(m, a)
      <4>1. Count("open") /\ "open" \in Kinds
            BY <3>3 DEF OpenStorage, Kinds
      <4> QED BY <2>2, <3>3, <4>1, TogetherOpen
    <3>4. ASSUME NEW n \in Pieces, Add(m, a, n) \/ Get(m, a, n) PROVE TogetherInv'
      <4>1. PICK i \in Nat, k \in Nat :
                Moved(m, a, i, k) /\ i + k = sess[m][a].amount + storage_db[m][a].amount
            BY <3>4, FlowMoves
      <4>2. Count("move") /\ "move" \in Kinds
            BY <4>1 DEF Moved, Kinds
      <4> QED BY <2>2, <4>1, <4>2, TogetherMoved
    <3> QED BY <2>6, <3>1, <3>2, <3>3, <3>4 DEF Player
  <2>7. CASE Break(m) \/ Crash(m) \/ Reconnect(m)
    <3>1. Count("break") \/ ~Open(m)
          BY <2>7 DEF Break, Crash, Reconnect, Open
    <3>2. ~Count("break")
          BY <1>0, BreaksCount
    <3>3. UNCHANGED count
          BY <2>7, <3>2 DEF Break, Crash, Reconnect
    <3> QED BY <2>2, <3>1, <3>2, <3>3 DEF TogetherHere
  <2> QED BY <2>1, <2>3, <2>4, <2>5, <2>6, <2>7
<1> QED BY <1>1, <1>2

\* Without a map server nothing happens.
Idle == MapServers = {} => \A a \in Accounts : Even(a, CharNow)

LEMMA IdleStays == Idle /\ [Next]_vars => Idle'
<1> SUFFICES ASSUME Idle, MapServers = {}, [Next]_vars
             PROVE  \A a \in Accounts : Even(a, CharNow')
    BY DEF Idle
<1>1. CharNow' = CharNow
      BY DEF Next, vars, CharNow
<1> QED BY <1>1 DEF Idle

LEMMA TogetherIs == IInv /\ OneServer /\ TogetherInv /\ Idle => SavedTogether
<1> SUFFICES ASSUME IInv, TogetherInv, Idle, Unbroken, NEW a \in Accounts
             PROVE  \/ Total(inventory, a) + char_storage[a].amount = Total(Bag, a)
                    \/ \E m \in MapServers : /\ FromMap(m, "3011")
                                             /\ Head(toChar[m]).account_id = a
    BY DEF SavedTogether
<1>1. CharNow.inv = inventory /\ CharNow.cs[a] = char_storage[a].amount
      BY DEF CharNow
<1>2. CASE MapServers = {}
      BY <1>1, <1>2 DEF Idle, Even
<1>3. ASSUME NEW m \in MapServers
      PROVE  \/ Total(inventory, a) + char_storage[a].amount = Total(Bag, a)
             \/ FromMap(m, "3011") /\ Head(toChar[m]).account_id = a
  <2>1. TogetherHere(m)
        BY DEF TogetherInv
  <2>2. toChar[m] \in Seq(MapPackets) /\ server_session[m]
        BY <2>1, TogetherNow
  <2>3. PICK to : Course(toChar[m], CharNow, to) /\ Even(a, to)
        BY <2>1 DEF TogetherHere, Fine
  <2>4. CASE toChar[m] # << >>
    <3>1. Even(a, CharNow) \/ Is(Head(toChar[m]), "3011", a)
          BY <2>2, <2>3, <2>4, CourseRead
    <3> QED BY <1>1, <2>2, <2>4, <3>1 DEF Even, Is, FromMap
  <2>5. CASE toChar[m] = << >>
    <3>1. Len(toChar[m]) = 0
          BY <2>5, EmptySeq
    <3>2. to = CharNow
          BY <2>3, <3>1 DEF Course
    <3> QED BY <1>1, <2>3, <3>2 DEF Even
  <2> QED BY <2>4, <2>5
<1> QED BY <1>2, <1>3

\* With one map server and no connection lost, what the char server has of the
\* characters of an account and of its storage adds up to what the account was given,
\* except between the two packets of one save.
THEOREM SavesCarryBoth == OneServer /\ Spec => []SavedTogether
<1>1. Init => Idle
      BY EvenAtFirst DEF Idle
<1>2. OneServer /\ IInv /\ FlowInv /\ TogetherInv /\ [Next]_vars => TogetherInv'
      BY TogetherNext
<1>3. IInv /\ OneServer /\ TogetherInv /\ Idle => SavedTogether
      BY TogetherIs
<1> QED BY <1>1, <1>2, <1>3, InitTogether, IdleStays, IInvHolds, FlowHolds, PTL DEF Spec
=============================================================================
