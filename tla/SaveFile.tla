------------------------------ MODULE SaveFile ------------------------------
(***************************************************************************)
(* How tmwa-char keeps its tables on disk: char.cpp forks a child to save   *)
(* them from time to time and saves them itself when it ends, file by file, *)
(* and io::WriteLock puts each new file in place of the old one, which it   *)
(* keeps among nine numbered backups.  Processes may be killed at any step. *)
(***************************************************************************)
EXTENDS Naturals, FiniteSets

CONSTANTS
    NFiles,     \* characters, parties, storages, variables: saved in this order
    Backups,    \* backup_count
    MaxClock,   \* bound on the changes
    MaxKills,   \* bound on the kills and failed writes
    OneWriter   \* the server is told to end only when no child is saving

ASSUME SaveFileAssumption ==
    /\ NFiles \in Nat \ {0}
    /\ Backups \in Nat \ {0}
    /\ MaxClock \in Nat
    /\ MaxKills \in Nat
    /\ OneWriter \in BOOLEAN

Files == 1 .. NFiles
Names == 0 .. Backups       \* 0 is the file itself, n its backup .n
Writers == {"server", "child"}

VARIABLES
    server,   \* what the main loop of the server does
    forked,   \* pid # 0
    mem,      \* the tables in memory, by the moment of their last change
    disk,     \* what each name holds
    writer,   \* the save that each process has under way
    newest,   \* the latest table that was ever put in place
    clock,
    kills

vars == << server, forked, mem, disk, writer, newest, clock, kills >>

Absent == 0                 \* there is no file of that name

\* The steps of a WriteLock: write and close a temporary file, rename .8 to .9
\* and so on down to the file to .1, and rename the temporary file.
Writing == Backups + 1
Idle == [file |-> 0, step |-> 0, snap |-> [f \in Files |-> Absent]]
Begin == [file |-> 1, step |-> Writing, snap |-> mem]

Saving(w) == writer[w] # Idle

Init ==
    /\ server = "up"
    /\ forked = FALSE
    /\ mem = [f \in Files |-> 1]
    /\ disk = [f \in Files |-> [n \in Names |-> IF n = 0 THEN 1 ELSE Absent]]
    /\ writer = [w \in Writers |-> Idle]
    /\ newest = [f \in Files |-> 1]
    /\ clock = 1
    /\ kills = 0

-----------------------------------------------------------------------------
(* The server. *)

\* Anything that happens in the game.
Change ==
    /\ server = "up"
    /\ clock < MaxClock
    /\ clock' = clock + 1
    /\ mem' = [f \in Files |-> clock + 1]
    /\ UNCHANGED << server, forked, disk, writer, newest, kills >>

\* pid != 0 && waitpid(pid, WNOHANG) == 0
NeverWaits == FALSE         \* mutant: pid is not looked at
PidIsSet == forked          \* mutant: waitpid is forgotten
ChildIsSaving == forked /\ Saving("child")

\* mmo_char_sync_timer: a child saves what there is now; if there can be none,
\* the server itself does, and does nothing else meanwhile.
Autosave ==
    /\ server = "up"
    /\ ~ChildIsSaving
    /\ forked' = TRUE
    /\ \/ /\ writer' = [writer EXCEPT !["child"] = Begin]
          /\ UNCHANGED server
       \/ /\ writer' = [writer EXCEPT !["server"] = Begin]
          /\ server' = "saving"
    /\ UNCHANGED << mem, disk, newest, clock, kills >>

\* A signal ends the main loop, and term_func saves.
Stop ==
    /\ server = "up"
    /\ OneWriter => ~Saving("child")
    /\ server' = "stopping"
    /\ writer' = [writer EXCEPT !["server"] = Begin]
    /\ UNCHANGED << forked, mem, disk, newest, clock, kills >>

\* The server starts again (do_init), when nothing of the old one runs any more,
\* and reads the files.  A file that is not there is an empty table, which is a
\* change of its own.
Start ==
    /\ server \in {"ended", "killed"}
    /\ ~Saving("child")
    /\ clock < MaxClock
    /\ clock' = clock + 1
    /\ mem' = [f \in Files |-> IF disk[f][0] = Absent THEN clock + 1
                                                      ELSE disk[f][0]]
    /\ server' = "up"
    /\ forked' = FALSE
    /\ UNCHANGED << disk, writer, newest, kills >>

-----------------------------------------------------------------------------
(* WriteLock, in either process. *)

At(w, step) == Saving(w) /\ writer[w].step = step

GoOn(w) == writer' = [writer EXCEPT ![w].step = @ - 1]

\* The temporary file is complete and closed.
Close(w) ==
    /\ At(w, Writing)
    /\ GoOn(w)
    /\ UNCHANGED << server, forked, mem, disk, newest, clock, kills >>

\* rename(name .n-1, name .n), which does nothing when there is no .n-1
Renamed(names, n) ==
    IF names[n - 1] = Absent THEN names
    ELSE [names EXCEPT ![n] = names[n - 1], ![n - 1] = Absent]

\* The backups are renamed from the last to the first.
LastToFirst(step) == step

Rotate(w) ==
    /\ \E n \in 1 .. Backups :
          /\ At(w, n)
          /\ disk' = [disk EXCEPT ![writer[w].file] = Renamed(@, LastToFirst(n))]
    /\ GoOn(w)
    /\ UNCHANGED << server, forked, mem, newest, clock, kills >>

\* What a process writes: a child has the memory of the moment it was forked,
\* and the server does nothing else while it saves.
Table(w, f) == writer[w].snap[f]

\* mmo_char_sync saves the first file and inter_save the others.
LastFile == NFiles

\* rename(temporary file, file); then the next file, or the end of the save.
Replace(w) ==
    LET f == writer[w].file
        new == Table(w, f)
    IN  /\ At(w, 0)
        /\ disk' = [disk EXCEPT ![f][0] = new]
        /\ newest' = [newest EXCEPT ![f] = IF new > @ THEN new ELSE @]
        /\ writer' = [writer EXCEPT ![w] =
              IF f < LastFile THEN [@ EXCEPT !.file = f + 1, !.step = Writing]
                            ELSE Idle]
        /\ server' = IF f < LastFile \/ w = "child" THEN server
                     ELSE IF server = "saving" THEN "up" ELSE "ended"
        /\ UNCHANGED << forked, mem, clock, kills >>

\* Processes are killed, or abort: an assertion, a write that fails (the
\* destructor of WriteLock aborts and leaves the partial file).
Kill ==
    /\ kills < MaxKills
    /\ kills' = kills + 1
    /\ \E victims \in SUBSET Writers :
          /\ victims # {}
          /\ "child" \in victims => Saving("child")
          /\ "server" \in victims => server \notin {"ended", "killed"}
          /\ writer' = [w \in Writers |-> IF w \in victims THEN Idle
                                                           ELSE writer[w]]
          /\ server' = IF "server" \in victims THEN "killed" ELSE server
    /\ UNCHANGED << forked, mem, disk, newest, clock >>

Next ==
    \/ Change \/ Autosave \/ Stop \/ Start \/ Kill
    \/ \E w \in Writers : Close(w) \/ Rotate(w) \/ Replace(w)

Spec == Init /\ [][Next]_vars

\* The autosave timer runs again and again, and a process that saves is
\* scheduled.
FairSpec ==
    /\ Spec
    /\ WF_vars(Autosave)
    /\ \A w \in Writers : WF_vars(Close(w) \/ Rotate(w) \/ Replace(w))
-----------------------------------------------------------------------------
(* Properties. *)

TypeOK ==
    /\ server \in {"up", "saving", "stopping", "ended", "killed"}
    /\ forked \in BOOLEAN
    /\ clock \in Nat
    /\ kills \in Nat
    /\ mem \in [Files -> 1 .. clock]
    /\ newest \in [Files -> 1 .. clock]
    /\ disk \in [Files -> [Names -> 0 .. clock]]
    /\ writer \in [Writers -> [file : 0 .. NFiles, step : 0 .. Writing,
                              snap : [Files -> 0 .. clock]]]

\* A save never puts an older table in the place of a newer one, whatever the
\* server, its child and the kills do: mmo_char_sync_timer asks for its child
\* before it saves.  (term_func does not: that is what OneWriter rules out.)
NewestInPlace ==
    \A f \in Files : disk[f][0] \in {Absent, newest[f]}

\* The numbered backups go back in time, with gaps where a save was killed.
BackupsInOrder ==
    \A f \in Files : \A i, j \in Names :
        i < j /\ disk[f][i] # Absent => disk[f][j] <= disk[f][i]

\* What happens in the game reaches the disk, unless the server is killed:
\* autosaves go on after a child that was killed.
ChangesReachDisk ==
    \A f \in Files : \A n \in 1 .. MaxClock :
        server = "up" /\ mem[f] = n ~> newest[f] >= n \/ server = "killed"
=============================================================================
