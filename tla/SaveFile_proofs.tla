--------------------------- MODULE SaveFile_proofs ---------------------------
(***************************************************************************)
(* What SaveFile keeps true, for any number of files, of backups, of        *)
(* changes and of kills.                                                    *)
(***************************************************************************)
EXTENDS SaveFile, TLAPS

-----------------------------------------------------------------------------
(* Types. *)

\* The record of a writer that has begun.
LEMMA BeginType ==
    ASSUME TypeOK
    PROVE  /\ Begin \in [file : 0 .. NFiles, step : 0 .. Writing,
                         snap : [Files -> 0 .. clock]]
           /\ Begin # Idle
           /\ Begin.file = 1 /\ Begin.snap = mem
  <1>1. 1 \in 0 .. NFiles /\ Writing \in 0 .. Writing
    BY SaveFileAssumption DEF Writing
  <1>2. mem \in [Files -> 0 .. clock]
    <2>1. \A f \in Files : mem[f] \in 0 .. clock
      BY DEF TypeOK
    <2> QED BY <2>1 DEF TypeOK
  <1> QED BY <1>1, <1>2 DEF Begin, Idle

LEMMA IdleType ==
    ASSUME TypeOK
    PROVE  Idle \in [file : 0 .. NFiles, step : 0 .. Writing,
                     snap : [Files -> 0 .. clock]]
  <1>1. 0 \in 0 .. NFiles /\ 0 \in 0 .. Writing /\ 0 \in 0 .. clock
    BY SaveFileAssumption DEF Writing, TypeOK
  <1> QED BY <1>1 DEF Idle, Absent

\* A writer that saves is at one of the files.
WriterOK ==
    \A w \in Writers : Saving(w) => writer[w].file \in Files

\* TypeOK and what makes it inductive.
TypeInv == TypeOK /\ WriterOK

LEMMA TypeInit == Init => TypeInv
  <1> SUFFICES ASSUME Init PROVE TypeInv
    OBVIOUS
  <1>1. Idle \in [file : 0 .. NFiles, step : 0 .. Writing,
                  snap : [Files -> 0 .. clock]]
    <2>1. 0 \in 0 .. NFiles /\ 0 \in 0 .. Writing /\ 0 \in 0 .. clock
      BY SaveFileAssumption DEF Writing, Init
    <2> QED BY <2>1 DEF Idle, Absent
  <1>2. TypeOK
    <2>1. clock = 1 /\ 1 \in 1 .. clock /\ 1 \in 0 .. clock /\ 0 \in 0 .. clock
      BY DEF Init
    <2>2. disk \in [Files -> [Names -> 0 .. clock]]
      BY <2>1 DEF Init, Absent
    <2>3. writer \in [Writers -> [file : 0 .. NFiles, step : 0 .. Writing,
                                 snap : [Files -> 0 .. clock]]]
      BY <1>1, <2>1 DEF Init
    <2>4. mem \in [Files -> 1 .. clock] /\ newest \in [Files -> 1 .. clock]
      BY <2>1 DEF Init
    <2>5. /\ server \in {"up", "saving", "stopping", "ended", "killed"}
          /\ forked \in BOOLEAN /\ clock \in Nat /\ kills \in Nat
      BY DEF Init
    <2> QED BY <2>2, <2>3, <2>4, <2>5 DEF TypeOK
  <1> QED BY <1>2 DEF Init, TypeInv, WriterOK, Saving

\* rename keeps what is on disk among the tables there have been.
LEMMA RenamedType ==
    ASSUME NEW T, Absent \in T, NEW names \in [Names -> T], NEW n \in 1 .. Backups
    PROVE  Renamed(names, n) \in [Names -> T]
  <1>1. n \in Names /\ n - 1 \in Names
    BY SaveFileAssumption DEF Names
  <1> QED BY <1>1 DEF Renamed

LEMMA TypeStep == TypeInv /\ [Next]_vars => TypeInv'
  <1> SUFFICES ASSUME TypeInv, [Next]_vars PROVE TypeInv'
    OBVIOUS
  <1> DEFINE Record(c) == [file : 0 .. NFiles, step : 0 .. Writing,
                           snap : [Files -> 0 .. c]]
  <1>0. /\ TypeOK /\ WriterOK
        /\ Begin \in Record(clock) /\ Begin # Idle /\ Begin.file = 1
        /\ Idle \in Record(clock) /\ 1 \in Files
    BY BeginType, IdleType, SaveFileAssumption DEF TypeInv, Files
  <1>1. CASE Change
    <2>1. /\ clock' = clock + 1 /\ clock' \in Nat
          /\ 1 .. clock \subseteq 1 .. clock' /\ 0 .. clock \subseteq 0 .. clock'
          /\ clock + 1 \in 1 .. clock'
      BY <1>0, <1>1 DEF Change, TypeOK
    <2>2. writer \in [Writers -> Record(clock')]
      BY <1>0, <2>1 DEF TypeOK
    <2>3. disk \in [Files -> [Names -> 0 .. clock']]
      BY <1>0, <2>1 DEF TypeOK
    <2>4. newest \in [Files -> 1 .. clock'] /\ mem' \in [Files -> 1 .. clock']
      BY <1>0, <1>1, <2>1 DEF TypeOK, Change
    <2>5. TypeOK'
      BY <1>0, <1>1, <2>1, <2>2, <2>3, <2>4 DEF TypeOK, Change
    <2> QED BY <1>0, <1>1, <2>5 DEF Change, TypeInv, WriterOK, Saving
  <1>2. CASE Autosave
    <2>1. TypeOK'
      BY <1>0, <1>2 DEF Autosave, TypeOK, Writers
    <2> QED BY <1>0, <1>2, <2>1 DEF Autosave, TypeInv, TypeOK, WriterOK, Saving, Writers
  <1>3. CASE Stop
    <2>1. TypeOK'
      BY <1>0, <1>3 DEF Stop, TypeOK, Writers
    <2> QED BY <1>0, <1>3, <2>1 DEF Stop, TypeInv, TypeOK, WriterOK, Saving, Writers
  <1>4. CASE Start
    <2>1. /\ clock' = clock + 1 /\ clock' \in Nat
          /\ 1 .. clock \subseteq 1 .. clock' /\ 0 .. clock \subseteq 0 .. clock'
          /\ clock + 1 \in 1 .. clock'
      BY <1>0, <1>4 DEF Start, TypeOK
    <2>2. writer \in [Writers -> Record(clock')]
      BY <1>0, <2>1 DEF TypeOK
    <2>3. disk \in [Files -> [Names -> 0 .. clock']]
      BY <1>0, <2>1 DEF TypeOK
    <2>4. newest \in [Files -> 1 .. clock']
      BY <1>0, <2>1 DEF TypeOK
    <2>5. mem' \in [Files -> 1 .. clock']
      <3>1. \A f \in Files : disk[f][0] \in 0 .. clock
        BY <1>0, SaveFileAssumption DEF TypeOK, Names
      <3>2. \A f \in Files : disk[f][0] # Absent => disk[f][0] \in 1 .. clock
        BY <1>0, <3>1 DEF TypeOK, Absent
      <3> QED BY <1>4, <2>1, <3>2 DEF Start
    <2>6. TypeOK'
      BY <1>0, <1>4, <2>1, <2>2, <2>3, <2>4, <2>5 DEF TypeOK, Start
    <2> QED BY <1>0, <1>4, <2>6 DEF Start, TypeInv, WriterOK, Saving
  <1>5. CASE Kill
    <2>1. PICK victims \in SUBSET Writers :
             /\ writer' = [w \in Writers |-> IF w \in victims THEN Idle
                                                              ELSE writer[w]]
             /\ server' = IF "server" \in victims THEN "killed" ELSE server
      BY <1>5 DEF Kill
    <2>2. TypeOK'
      BY <1>0, <1>5, <2>1 DEF Kill, TypeOK
    <2> QED BY <1>0, <1>5, <2>1, <2>2 DEF Kill, TypeInv, WriterOK, Saving
  <1>6. ASSUME NEW w \in Writers, Close(w) PROVE TypeInv'
    <2>1. writer[w].step - 1 \in 0 .. Writing
      BY <1>6, SaveFileAssumption DEF Close, At, Writing
    <2>2. writer' \in [Writers -> Record(clock)]
      BY <1>0, <1>6, <2>1 DEF Close, GoOn, TypeOK
    <2>3. WriterOK'
      BY <1>0, <1>6 DEF Close, At, GoOn, TypeOK, WriterOK, Saving
    <2> QED BY <1>0, <1>6, <2>2, <2>3 DEF Close, TypeInv, TypeOK
  <1>7. ASSUME NEW w \in Writers, Rotate(w) PROVE TypeInv'
    <2>1. PICK n \in 1 .. Backups :
             /\ At(w, n)
             /\ disk' = [disk EXCEPT ![writer[w].file] =
                            Renamed(@, LastToFirst(n))]
      BY <1>7 DEF Rotate
    <2>2. writer[w].step - 1 \in 0 .. Writing
      BY <2>1, SaveFileAssumption DEF At, Writing
    <2>3. writer' \in [Writers -> Record(clock)]
      BY <1>0, <1>7, <2>2 DEF Rotate, GoOn, TypeOK
    <2>4. WriterOK'
      BY <1>0, <1>7, <2>1 DEF Rotate, At, GoOn, TypeOK, WriterOK, Saving
    <2>5. writer[w].file \in Files
      BY <1>0, <2>1 DEF At, WriterOK
    <2>6. Renamed(disk[writer[w].file], n) \in [Names -> 0 .. clock]
      <3>1. Absent \in 0 .. clock
        BY <1>0 DEF Absent, TypeOK
      <3>2. disk[writer[w].file] \in [Names -> 0 .. clock]
        BY <1>0, <2>5 DEF TypeOK
      <3> QED BY <3>1, <3>2, RenamedType
    <2>7. disk' \in [Files -> [Names -> 0 .. clock]]
      BY <1>0, <2>1, <2>5, <2>6 DEF TypeOK, LastToFirst
    <2> QED BY <1>0, <1>7, <2>3, <2>4, <2>7 DEF Rotate, TypeInv, TypeOK
  <1>8. ASSUME NEW w \in Writers, Replace(w) PROVE TypeInv'
    <2> DEFINE f == writer[w].file
               new == writer[w].snap[f]
    <2>1. f \in Files /\ new \in 0 .. clock
      BY <1>0, <1>8 DEF Replace, At, WriterOK, TypeOK
    <2>2. f < NFiles => f + 1 \in Files /\ f + 1 \in 0 .. NFiles
      BY <2>1, SaveFileAssumption DEF Files
    <2>3. Writing \in 0 .. Writing
      BY SaveFileAssumption DEF Writing
    <2>4. writer' \in [Writers -> Record(clock)]
      <3>1. CASE f < NFiles
        <4>1. writer' = [writer EXCEPT ![w] =
                           [writer[w] EXCEPT !.file = f + 1, !.step = Writing]]
          BY <1>8, <3>1 DEF Replace, LastFile
        <4>2. [writer[w] EXCEPT !.file = f + 1, !.step = Writing] \in Record(clock)
          BY <1>0, <2>2, <2>3, <3>1 DEF TypeOK
        <4> QED BY <1>0, <4>1, <4>2 DEF TypeOK
      <3>2. CASE ~(f < NFiles)
        BY <1>0, <1>8, <3>2 DEF Replace, LastFile, TypeOK
      <3> QED BY <3>1, <3>2
    <2>5. disk' \in [Files -> [Names -> 0 .. clock]]
      BY <1>0, <1>8, <2>1 DEF Replace, Table, TypeOK
    <2>6. newest' \in [Files -> 1 .. clock]
      <3>1. new > newest[f] => new \in 1 .. clock
        BY <1>0, <2>1 DEF TypeOK
      <3> QED BY <1>0, <1>8, <2>1, <3>1 DEF Replace, Table, TypeOK
    <2>7. WriterOK'
      <3>1. CASE f < NFiles
        BY <1>0, <1>8, <2>2, <3>1 DEF Replace, LastFile, WriterOK, Saving, TypeOK
      <3>2. CASE ~(f < NFiles)
        BY <1>0, <1>8, <3>2 DEF Replace, LastFile, WriterOK, Saving, TypeOK
      <3> QED BY <3>1, <3>2
    <2>8. server' \in {"up", "saving", "stopping", "ended", "killed"}
      BY <1>0, <1>8 DEF Replace, TypeOK
    <2> QED BY <1>0, <1>8, <2>4, <2>5, <2>6, <2>7, <2>8 DEF Replace, TypeInv, TypeOK
  <1>9. CASE UNCHANGED vars
    BY <1>0, <1>9 DEF vars, TypeInv, TypeOK, WriterOK, Saving
  <1> QED BY <1>1, <1>2, <1>3, <1>4, <1>5, <1>6, <1>7, <1>8, <1>9 DEF Next

\* The tables, files and writers of mmo_char_sync are what they should be, in
\* every state that forks, ends and kills lead to.
THEOREM SaveTypes == Spec => []TypeOK
  <1>1. Spec => []TypeInv
    BY TypeInit, TypeStep, PTL DEF Spec
  <1>2. TypeInv => TypeOK
    BY DEF TypeInv
  <1> QED BY <1>1, <1>2, PTL

-----------------------------------------------------------------------------
(* Order. *)

\* The server saves in two states only, and its child was forked.
WhoSaves ==
    /\ Saving("server") <=> server \in {"saving", "stopping"}
    /\ Saving("child") => forked
    /\ ~(Saving("server") /\ Saving("child"))

\* What is in memory is the newest, nothing on disk is newer than the newest
\* table ever put in place, and what a process has still to put in place is not
\* older than that.
AgeOK ==
    /\ \A f \in Files : newest[f] <= mem[f]
    /\ \A f \in Files : \A n \in Names : disk[f][n] <= newest[f]
    /\ \A w \in Writers : Saving(w) =>
          \A f \in Files :
              /\ writer[w].snap[f] <= mem[f]
              /\ writer[w].file <= f => newest[f] <= writer[w].snap[f]

OrderInv == TypeInv /\ WhoSaves /\ AgeOK /\ NewestInPlace /\ BackupsInOrder

LEMMA OrderInit == Init => OrderInv
  <1> SUFFICES ASSUME Init PROVE OrderInv
    OBVIOUS
  <1>1. TypeInv
    BY TypeInit
  <1>2. \A f \in Files :
           /\ newest[f] = 1 /\ mem[f] = 1
           /\ \A n \in Names : disk[f][n] = IF n = 0 THEN 1 ELSE 0
    BY DEF Init, Absent
  <1>3. WhoSaves /\ \A w \in Writers : ~Saving(w)
    BY DEF Init, WhoSaves, Saving, Writers
  <1>4. AgeOK
    <2>1. \A f \in Files : newest[f] <= mem[f]
      BY <1>2
    <2>2. \A f \in Files : \A n \in Names : disk[f][n] <= newest[f]
      <3>1. \A f \in Files : \A n \in Names :
               disk[f][n] \in {0, 1} /\ newest[f] = 1
        BY <1>2, SaveFileAssumption DEF Names, Files
      <3> QED BY <3>1
    <2> QED BY <1>3, <2>1, <2>2 DEF AgeOK
  <1>5. NewestInPlace
    BY <1>2, SaveFileAssumption DEF NewestInPlace, Names
  <1>6. BackupsInOrder
    BY <1>2 DEF BackupsInOrder, Names, Absent
  <1> QED BY <1>1, <1>3, <1>4, <1>5, <1>6 DEF OrderInv

InOrder(names) ==
    \A i, j \in Names : i < j /\ names[i] # Absent => names[j] <= names[i]

\* rename(.n-1, .n) keeps the order of the backups, and brings nothing that was
\* not there.
LEMMA RenamedInOrder ==
    ASSUME NEW names \in [Names -> Nat], NEW n \in 1 .. Backups, InOrder(names),
           NEW top \in Nat, \A i \in Names : names[i] <= top
    PROVE  /\ InOrder(Renamed(names, n))
           /\ \A i \in Names : Renamed(names, n)[i] <= top
           /\ Renamed(names, n)[0] \in {Absent, names[0]}
  <1>1. n \in Names /\ n - 1 \in Names /\ 0 \in Names /\ n # n - 1
    BY SaveFileAssumption DEF Names
  <1>2. CASE names[n - 1] = Absent
    BY <1>1, <1>2 DEF Renamed
  <1>3. CASE names[n - 1] # Absent
    <2> DEFINE new == Renamed(names, n)
    <2>1. \A i \in Names : new[i] = IF i = n - 1 THEN Absent
                                   ELSE IF i = n THEN names[n - 1] ELSE names[i]
      BY <1>1, <1>3 DEF Renamed
    <2> HIDE DEF new
    <2>2. ASSUME NEW i \in Names, NEW j \in Names, i < j, new[i] # Absent
          PROVE  new[j] <= new[i]
      <3>1. i # n - 1 /\ i \in Nat /\ j \in Nat /\ names[i] \in Nat /\ names[j] \in Nat
        BY <2>1, <2>2 DEF Names
      <3>2. CASE j = n - 1
        BY <2>1, <2>2, <3>1, <3>2, <1>1 DEF Absent
      <3>3. CASE j = n
        <4>1. i < n - 1
          BY <3>1, <3>3, <2>2, <1>1 DEF Names
        <4>2. names[n - 1] <= names[i]
          BY <4>1, <1>1, <2>1, <2>2, <3>1 DEF InOrder
        <4> QED BY <4>1, <4>2, <3>3, <2>1, <2>2, <1>1 DEF Names
      <3>4. CASE j # n /\ j # n - 1 /\ i = n
        <4>1. names[j] <= names[n - 1]
          <5>1. n - 1 < j
            BY <3>4, <2>2, <3>1 DEF Names
          <5> QED BY <5>1, <1>1, <1>3 DEF InOrder
        <4> QED BY <4>1, <3>4, <2>1, <1>1
      <3>5. CASE j # n /\ j # n - 1 /\ i # n
        BY <2>1, <2>2, <3>1, <3>5 DEF InOrder
      <3> QED BY <3>2, <3>3, <3>4, <3>5
    <2>3. \A i \in Names : new[i] <= top
      BY <2>1, <1>1 DEF Absent
    <2>4. new[0] \in {Absent, names[0]}
      BY <2>1, <1>1, SaveFileAssumption DEF Names
    <2>5. InOrder(new)
      BY <2>2 DEF InOrder
    <2> QED BY <2>3, <2>4, <2>5 DEF new
  <1> QED BY <1>2, <1>3

\* Putting in place a table as new as all of them keeps the order.
LEMMA ReplacedInOrder ==
    ASSUME NEW names \in [Names -> Nat], InOrder(names),
           NEW top \in Nat, \A i \in Names : names[i] <= top
    PROVE  InOrder([names EXCEPT ![0] = top])
  <1> DEFINE new == [names EXCEPT ![0] = top]
  <1>1. 0 \in Names
    BY SaveFileAssumption DEF Names
  <1>2. \A i \in Names : new[i] = IF i = 0 THEN top ELSE names[i]
    BY <1>1
  <1> HIDE DEF new
  <1>3. ASSUME NEW i \in Names, NEW j \in Names, i < j, new[i] # Absent
        PROVE  new[j] <= new[i]
    <2>1. j # 0
      BY <1>3 DEF Names
    <2>2. CASE i = 0
      BY <1>2, <2>1, <2>2
    <2>3. CASE i # 0
      BY <1>2, <1>3, <2>1, <2>3 DEF InOrder
    <2> QED BY <2>2, <2>3
  <1> QED BY <1>3 DEF InOrder, new

LEMMA OrderStep ==
    ASSUME OneWriter, OrderInv, [Next]_vars PROVE OrderInv'
  <1>0. /\ TypeOK /\ WriterOK /\ WhoSaves /\ AgeOK
        /\ NewestInPlace /\ BackupsInOrder
        /\ Begin # Idle /\ Begin.file = 1 /\ Begin.snap = mem
    BY BeginType DEF OrderInv, TypeInv
  <1>t. TypeInv'
    BY TypeStep DEF OrderInv
  <1>n. \A f \in Files : /\ mem[f] \in Nat /\ newest[f] \in Nat /\ newest[f] # 0
                         /\ disk[f] \in [Names -> Nat]
                         /\ \A n \in Names : disk[f][n] \in Nat
                         /\ \A w \in Writers : writer[w].snap[f] \in Nat
    BY <1>0 DEF TypeOK
  <1>z. 0 \in Names /\ "server" \in Writers /\ "child" \in Writers
        /\ \A w \in Writers : w = "server" \/ w = "child"
    BY SaveFileAssumption DEF Names, Writers
  <1>1. CASE Change
    <2>1. \A f \in Files : mem'[f] = clock + 1 /\ mem[f] <= clock + 1
                            /\ mem[f] <= mem'[f]
      BY <1>0, <1>1 DEF Change, TypeOK
    <2>2. AgeOK'
      <3>1. \A f \in Files : newest[f] <= mem'[f]
        BY <1>0, <1>n, <2>1, <1>t DEF AgeOK, TypeInv, TypeOK
      <3>2. ASSUME NEW w \in Writers, Saving(w), NEW f \in Files
            PROVE  writer[w].snap[f] <= mem'[f]
        <4>1. writer[w].snap[f] <= mem[f]
          BY <1>0, <3>2 DEF AgeOK
        <4>2. mem'[f] \in Nat
          BY <1>t DEF TypeInv, TypeOK
        <4> QED BY <4>1, <4>2, <1>n, <2>1
      <3> QED BY <1>0, <1>1, <3>1, <3>2 DEF AgeOK, Change, Saving
    <2> QED BY <1>0, <1>1, <1>t, <2>2
            DEF Change, OrderInv, WhoSaves, Saving, NewestInPlace, BackupsInOrder
  <1>2. CASE Autosave
    <2>1. ~Saving("server") /\ ~Saving("child")
      BY <1>0, <1>2 DEF Autosave, WhoSaves, ChildIsSaving
    <2>2. WhoSaves'
      BY <1>0, <1>2, <2>1, <1>z DEF Autosave, WhoSaves, Saving, TypeOK
    <2>3. AgeOK'
      <3>1. ASSUME NEW w \in Writers, Saving(w)' PROVE writer'[w] = Begin
        BY <1>0, <1>2, <2>1, <3>1, <1>z DEF Autosave, Saving, TypeOK
      <3> QED BY <1>0, <1>2, <1>n, <3>1 DEF AgeOK, Autosave
    <2> QED BY <1>0, <1>2, <1>t, <2>2, <2>3
            DEF Autosave, OrderInv, NewestInPlace, BackupsInOrder
  <1>3. CASE Stop
    <2>1. ~Saving("server") /\ ~Saving("child")
      BY <1>0, <1>3 DEF Stop, WhoSaves
    <2>2. WhoSaves'
      BY <1>0, <1>3, <2>1, <1>z DEF Stop, WhoSaves, Saving, TypeOK
    <2>3. AgeOK'
      <3>1. ASSUME NEW w \in Writers, Saving(w)' PROVE writer'[w] = Begin
        BY <1>0, <1>3, <2>1, <3>1, <1>z DEF Stop, Saving, TypeOK
      <3> QED BY <1>0, <1>3, <1>n, <3>1 DEF AgeOK, Stop
    <2> QED BY <1>0, <1>3, <1>t, <2>2, <2>3
            DEF Stop, OrderInv, NewestInPlace, BackupsInOrder
  <1>4. CASE Start
    <2>1. \A w \in Writers : ~Saving(w)
      BY <1>0, <1>4, <1>z DEF Start, WhoSaves
    <2>2. WhoSaves'
      BY <1>0, <1>4, <2>1, <1>z DEF Start, WhoSaves, Saving
    <2>3. \A f \in Files : newest[f] <= mem'[f]
      <3> SUFFICES ASSUME NEW f \in Files PROVE newest[f] <= mem'[f]
        OBVIOUS
      <3>1. CASE disk[f][0] = Absent
        <4>1. mem'[f] = clock + 1
          BY <1>4, <3>1 DEF Start
        <4> QED BY <1>0, <4>1 DEF TypeOK
      <3>2. CASE disk[f][0] # Absent
        <4>1. mem'[f] = newest[f]
          BY <1>0, <1>4, <3>2 DEF Start, NewestInPlace
        <4> QED BY <1>n, <4>1
      <3> QED BY <3>1, <3>2
    <2>4. AgeOK'
      BY <1>0, <1>4, <2>1, <2>3 DEF AgeOK, Start, Saving
    <2> QED BY <1>0, <1>4, <1>t, <2>2, <2>4
            DEF Start, OrderInv, NewestInPlace, BackupsInOrder
  <1>5. CASE Kill
    <2>1. PICK victims \in SUBSET Writers :
             /\ "child" \in victims => Saving("child")
             /\ "server" \in victims => server \notin {"ended", "killed"}
             /\ writer' = [w \in Writers |-> IF w \in victims THEN Idle
                                                              ELSE writer[w]]
             /\ server' = IF "server" \in victims THEN "killed" ELSE server
      BY <1>5 DEF Kill
    <2>2. \A w \in Writers : Saving(w)' <=> Saving(w) /\ w \notin victims
      BY <2>1 DEF Saving, Idle
    <2>3. WhoSaves'
      BY <1>0, <1>5, <2>1, <2>2, <1>z DEF WhoSaves, Kill
    <2>4. AgeOK'
      <3>1. ASSUME NEW w \in Writers, Saving(w)'
            PROVE  Saving(w) /\ writer'[w] = writer[w]
        BY <2>1, <2>2, <3>1
      <3> QED BY <1>0, <1>5, <3>1 DEF AgeOK, Kill
    <2> QED BY <1>0, <1>5, <1>t, <2>3, <2>4
            DEF Kill, OrderInv, NewestInPlace, BackupsInOrder
  \* A step of WriteLock that only goes on.
  <1>g. ASSUME NEW w \in Writers, Saving(w), GoOn(w),
               UNCHANGED << server, forked, mem, newest >>
        PROVE  /\ WhoSaves'
               /\ \A v \in Writers : Saving(v)' =>
                    \A f \in Files :
                        /\ writer'[v].snap[f] <= mem'[f]
                        /\ writer'[v].file <= f => newest'[f] <= writer'[v].snap[f]
    <2>1. \A v \in Writers : /\ writer'[v].snap = writer[v].snap
                             /\ writer'[v].file = writer[v].file
                             /\ Saving(v)' => Saving(v)
      <3>1. \A v \in Writers : v # w => writer'[v] = writer[v]
        BY <1>0, <1>g DEF GoOn, TypeOK
      <3>2. /\ writer'[w].snap = writer[w].snap /\ writer'[w].file = writer[w].file
        BY <1>0, <1>g DEF GoOn, TypeOK
      <3> QED BY <1>g, <3>1, <3>2 DEF Saving
    <2>2. Saving(w)'
      <3>1. writer[w].file # 0
        BY <1>0, <1>g, SaveFileAssumption DEF WriterOK, Files
      <3> QED BY <2>1, <3>1 DEF Saving, Idle
    <2>3. \A v \in Writers : Saving(v)' <=> Saving(v)
      BY <1>0, <1>g, <2>1, <2>2 DEF GoOn, Saving, TypeOK
    <2>4. WhoSaves'
      BY <1>0, <1>g, <2>3, <1>z DEF WhoSaves
    <2> QED BY <1>0, <1>g, <2>1, <2>4 DEF AgeOK
  <1>6. ASSUME NEW w \in Writers, Close(w) PROVE OrderInv'
    <2>1. Saving(w) /\ GoOn(w) /\ UNCHANGED << server, forked, mem, disk, newest >>
      BY <1>6 DEF Close, At
    <2>2. WhoSaves' /\ AgeOK'
      BY <1>0, <1>g, <2>1 DEF AgeOK
    <2> QED BY <1>0, <1>t, <2>1, <2>2 DEF OrderInv, NewestInPlace, BackupsInOrder
  <1>7. ASSUME NEW w \in Writers, Rotate(w) PROVE OrderInv'
    <2> DEFINE f == writer[w].file
    <2>1. PICK n \in 1 .. Backups :
             /\ At(w, n)
             /\ disk' = [disk EXCEPT ![f] = Renamed(@, n)]
      BY <1>7 DEF Rotate, LastToFirst
    <2>2. Saving(w) /\ GoOn(w) /\ UNCHANGED << server, forked, mem, newest >>
      BY <1>7, <2>1 DEF Rotate, At
    <2>3. f \in Files
      BY <1>0, <2>2 DEF WriterOK
    <2> HIDE DEF f
    <2>4. /\ InOrder(Renamed(disk[f], n))
          /\ \A i \in Names : Renamed(disk[f], n)[i] <= newest[f]
          /\ Renamed(disk[f], n)[0] \in {Absent, disk[f][0]}
      <3>1. InOrder(disk[f])
        BY <1>0, <2>3 DEF InOrder, BackupsInOrder
      <3>2. disk[f] \in [Names -> Nat] /\ newest[f] \in Nat
            /\ \A i \in Names : disk[f][i] <= newest[f]
        BY <1>0, <1>n, <2>3 DEF AgeOK
      <3> QED BY <3>1, <3>2, RenamedInOrder
    <2>5. \A g \in Files : disk'[g] = IF g = f THEN Renamed(disk[f], n) ELSE disk[g]
      BY <1>0, <2>1, <2>3 DEF TypeOK
    <2>6. WhoSaves' /\ AgeOK'
      BY <1>0, <1>g, <2>2, <2>4, <2>5 DEF AgeOK
    <2>7. NewestInPlace'
      BY <1>0, <2>2, <2>3, <2>4, <2>5 DEF NewestInPlace
    <2>8. BackupsInOrder'
      BY <1>0, <2>4, <2>5 DEF BackupsInOrder, InOrder
    <2> QED BY <1>t, <2>6, <2>7, <2>8 DEF OrderInv
  <1>8. ASSUME NEW w \in Writers, Replace(w) PROVE OrderInv'
    <2> DEFINE f == writer[w].file
               new == writer[w].snap[f]
    <2>1. Saving(w) /\ f \in Files
      BY <1>0, <1>8 DEF Replace, At, WriterOK
    <2>2. newest[f] <= new /\ new <= mem[f] /\ new \in Nat /\ new # 0
      <3>1. f <= f
        BY <2>1 DEF Files
      <3>2. newest[f] <= new /\ new <= mem[f]
        BY <1>0, <2>1, <3>1 DEF AgeOK
      <3> QED BY <1>n, <2>1, <3>2
    <2>3. \A v \in Writers : v # w => ~Saving(v)
      BY <1>0, <2>1, <1>z DEF WhoSaves
    <2>4. \A g \in Files : disk'[g] = IF g = f THEN [disk[f] EXCEPT ![0] = new]
                                       ELSE disk[g]
      BY <1>0, <1>8, <2>1 DEF Replace, Table, TypeOK
    <2>5. \A g \in Files : newest'[g] = IF g = f THEN new ELSE newest[g]
      <3>1. newest' = [newest EXCEPT ![f] = IF new > newest[f] THEN new ELSE newest[f]]
        BY <1>8 DEF Replace, Table
      <3>2. (IF new > newest[f] THEN new ELSE newest[f]) = new
        BY <2>1, <2>2, <1>n
      <3> QED BY <1>0, <2>1, <3>1, <3>2 DEF TypeOK
    <2>6. \A v \in Writers : v # w => writer'[v] = writer[v]
      BY <1>0, <1>8 DEF Replace, TypeOK
    <2>7. f < NFiles => /\ writer'[w].file = f + 1
                        /\ writer'[w].snap = writer[w].snap
                       /\ server' = server
      BY <1>0, <1>8 DEF Replace, LastFile, TypeOK
    <2>8. ~(f < NFiles) =>
             /\ writer'[w] = Idle
             /\ server' = IF w = "child" THEN server
                          ELSE IF server = "saving" THEN "up" ELSE "ended"
      BY <1>0, <1>8 DEF Replace, LastFile, TypeOK
    <2>9. UNCHANGED << forked, mem >>
      BY <1>8 DEF Replace
    <2>10. Saving(w)' <=> f < NFiles
      <3>1. f + 1 # 0
        BY <2>1 DEF Files
      <3> QED BY <2>7, <2>8, <3>1 DEF Saving, Idle
    <2>11. WhoSaves'
      <3>1. \A v \in Writers : v # w => ~Saving(v)'
        BY <2>3, <2>6 DEF Saving
      <3>2. CASE f < NFiles
        BY <1>0, <2>1, <2>7, <2>9, <2>10, <3>1, <3>2, <1>z DEF WhoSaves
      <3>3. CASE ~(f < NFiles)
        BY <1>0, <2>1, <2>8, <2>9, <2>10, <3>1, <3>3, <1>z DEF WhoSaves
      <3> QED BY <3>2, <3>3
    <2>12. ASSUME NEW g \in Files
           PROVE  /\ newest'[g] <= mem'[g]
                  /\ \A n \in Names : disk'[g][n] <= newest'[g]
      <3>1. CASE g = f
        <4>1. \A n \in Names : disk[f][n] <= new
          BY <1>0, <1>n, <2>1, <2>2 DEF AgeOK
        <4>2. \A n \in Names : disk'[f][n] = IF n = 0 THEN new ELSE disk[f][n]
          BY <2>1, <2>4, <1>n
        <4> QED BY <2>1, <2>2, <2>5, <2>9, <3>1, <4>1, <4>2
      <3>2. CASE g # f
        BY <1>0, <2>4, <2>5, <2>9, <3>2 DEF AgeOK
      <3> QED BY <3>1, <3>2
    <2>13. ASSUME NEW v \in Writers, Saving(v)', NEW g \in Files
           PROVE  /\ writer'[v].snap[g] <= mem'[g]
                  /\ writer'[v].file <= g => newest'[g] <= writer'[v].snap[g]
      <3>1. v = w /\ f < NFiles
        BY <2>3, <2>6, <2>10, <2>13 DEF Saving
      <3>2. writer[w].snap[g] <= mem[g]
        BY <1>0, <2>1 DEF AgeOK
      <3>3. f + 1 <= g => newest[g] <= writer[w].snap[g] /\ g # f
        <4>1. f \in Nat /\ g \in Nat
          BY <2>1, <2>13 DEF Files
        <4>2. f + 1 <= g => f <= g /\ g # f
          BY <4>1
        <4> QED BY <1>0, <2>1, <4>2 DEF AgeOK
      <3> QED BY <2>5, <2>7, <2>9, <3>1, <3>2, <3>3
    <2>14. AgeOK'
      BY <2>12, <2>13 DEF AgeOK
    <2>15. \A g \in Files : disk'[g][0] \in {Absent, newest'[g]}
      <3>1. disk'[f][0] = new
        BY <2>1, <2>4, <1>n, <1>z
      <3> QED BY <1>0, <2>1, <2>4, <2>5, <3>1 DEF NewestInPlace
    <2>16. NewestInPlace'
      BY <2>15 DEF NewestInPlace
    <2>17. InOrder(disk'[f])
      <3>1. \A n \in Names : disk[f][n] <= new
        BY <1>0, <1>n, <2>1, <2>2 DEF AgeOK
      <3>2. InOrder(disk[f]) /\ disk[f] \in [Names -> Nat]
        BY <1>0, <1>n, <2>1 DEF InOrder, BackupsInOrder
      <3>3. InOrder([disk[f] EXCEPT ![0] = new])
        BY <2>2, <3>1, <3>2, ReplacedInOrder
      <3> QED BY <2>1, <2>4, <3>3
    <2>18. BackupsInOrder'
      <3>1. \A g \in Files : InOrder(disk'[g])
        BY <1>0, <2>4, <2>17 DEF InOrder, BackupsInOrder
      <3> QED BY <3>1 DEF InOrder, BackupsInOrder
    <2> QED BY <1>t, <2>11, <2>14, <2>16, <2>18 DEF OrderInv
  <1>9. CASE UNCHANGED vars
    BY <1>0, <1>t, <1>9 DEF vars, OrderInv, WhoSaves, Saving, AgeOK,
                            NewestInPlace, BackupsInOrder
  <1> QED BY <1>1, <1>2, <1>3, <1>4, <1>5, <1>6, <1>7, <1>8, <1>9 DEF Next

\* As long as the server is told to end only when no child is saving, no save,
\* of the server or of a child, and no kill in the middle of one, ever leaves an
\* older table where there was a newer one.
THEOREM SavesKeepTheNewest ==
    ASSUME OneWriter PROVE Spec => []NewestInPlace
  <1>1. OrderInv /\ [Next]_vars => OrderInv'
    BY OrderStep
  <1>3. Spec => []OrderInv
    BY <1>1, OrderInit, PTL DEF Spec
  <1>2. OrderInv => NewestInPlace
    BY DEF OrderInv
  <1> QED BY <1>3, <1>2, PTL

\* Under the same condition the numbered backups go back in time.
THEOREM BackupsGoBackInTime ==
    ASSUME OneWriter PROVE Spec => []BackupsInOrder
  <1>1. OrderInv /\ [Next]_vars => OrderInv'
    BY OrderStep
  <1>3. Spec => []OrderInv
    BY <1>1, OrderInit, PTL DEF Spec
  <1>2. OrderInv => BackupsInOrder
    BY DEF OrderInv
  <1> QED BY <1>3, <1>2, PTL
=============================================================================
