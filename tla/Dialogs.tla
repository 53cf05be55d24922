------------------------------- MODULE Dialogs -------------------------------
(***************************************************************************)
(* NPCs, their scripts and one player who talks to them (npc.cpp,           *)
(* script-call.cpp and the builtin functions of script-fun.cpp that start,  *)
(* stop or move scripts).                                                   *)
(*                                                                          *)
(* A script may do anything that its builtin functions can do, so it is a   *)
(* free choice of statements.  The server runs a script until it waits or   *)
(* ends, and the scripts that it starts run inside of it: run is the C++    *)
(* call stack, and everything else happens only while run is empty.         *)
(*                                                                          *)
(* A position in a script is the root (whose bytecode it is) and the kind   *)
(* of statement there.  Of a stack that is saved, only the number of calls  *)
(* to return from is kept.                                                  *)
(***************************************************************************)
EXTENDS Integers, Sequences, FiniteSets

CONSTANTS
    Parents, Puppets, Shops,    \* NPCs with a script of their own, copies, shops
    ParentOf,                   \* whose script a puppet runs
    Touchy,                     \* NPCs with an OnTouch label
    nobody,                     \* BlockId()
    Labels,                     \* times of the OnTimer labels of Clocked
    Clocked,                    \* the NPC with OnTimer labels
    MaxEventTimer,              \* MAX_EVENTTIMER
    MaxQueue,                   \* bound: events that wait for a player
    MaxCalls,                   \* bound: calls inside a script
    MaxTime,                    \* bound: the clock
    Lag,                        \* bound: how late a timer fires
    Bounds                      \* bound: what scripts do, how much of it, and how many requests

VARIABLES
    npc,        \* life and flag of each NPC; npcs_by_name, ev_db and id_db follow
    eventtimer, \* NPCs with an event timer of their own
    sd,         \* map_session_data
    run,        \* the scripts that run, the inner ones last
    scr,        \* the OnTimer labels of Clocked
    now,        \* gettick
    orderly,    \* history: no dialog of this session was cut short
    bound,      \* the member of Bounds: commands is check_cmdcount
    left        \* what is left of its requests

vars == << npc, eventtimer, sd, run, scr, now, orderly, bound, left >>

Npcs == Parents \cup Puppets \cup Shops
Scripts == Parents \cup Puppets
Root(n) == IF n \in Puppets THEN ParentOf[n] ELSE n
Last == Labels[Len(Labels)]
Never == -1

\* Kinds of statements
Statements == {"wait", "ask", "call", "event", "rid", "touch", "destroy", "puppet", "timer",
               "npctimer", "label"}

ASSUME DialogsAssumption ==
    /\ ParentOf \in [Puppets -> Parents] /\ Puppets \cap Parents = {}
    /\ Touchy \subseteq Scripts /\ Clocked \in Parents
    /\ nobody \notin Npcs
    /\ Labels \in Seq(Nat \ {0}) /\ Len(Labels) > 0
    /\ \A i, j \in 1 .. Len(Labels) : i < j => Labels[i] < Labels[j]
    /\ MaxEventTimer \in Nat \ {0}
    /\ \A b \in Bounds : b.statements \subseteq Statements /\ b.commands \in Nat \ {0}

-----------------------------------------------------------------------------
(* The server after it has read its scripts, and a player who has logged in. *)

At(n, kind) == [root |-> Root(n), at |-> kind]
Ended == [root |-> nobody, at |-> "ended"]

Fresh ==
    [npc_id |-> nobody, npc_pos |-> [root |-> nobody, at |-> "start"],
     stackbuf |-> 0, scriptroot |-> nobody, asked |-> FALSE,
     areanpc |-> nobody, near |-> nobody,
     storage |-> FALSE, queue |-> << >>, timers |-> {}]

Stopped == [timer |-> 0, tick |-> 0, due |-> Never, next |-> 1, active |-> FALSE, ok |-> TRUE]

Init ==
    /\ npc = [n \in Npcs |-> [life |-> IF n \in Puppets THEN "absent" ELSE "on", off |-> FALSE]]
    /\ eventtimer = {}
    /\ sd = Fresh
    /\ run = << >>
    /\ scr = Stopped
    /\ now = 0
    /\ orderly = TRUE
    /\ bound \in Bounds
    /\ left = bound.requests

Live == {n \in Npcs : npc[n].life \in {"on", "queued"}}
Exists(n) == n \in Live

Idle == run = << >> /\ scr.ok

\* A dialog waits for the player.
Open(s) == s.npc_id # nobody /\ s.npc_pos # Ended

\* History: what this step does to dialogs is in order.
InOrder(ok) == orderly' = (orderly /\ ok)

-----------------------------------------------------------------------------
(* The player and the events that wait for them. *)

\* npc_event_dequeue: lets the player go, and the next event comes in 100 ms.
Dequeued(s) ==
    LET free == [s EXCEPT !.npc_id = nobody]
    IN  IF s.queue # << >> /\ Cardinality(s.timers) < MaxEventTimer
        THEN [free EXCEPT !.timers = @ \cup {Head(s.queue)}, !.queue = Tail(@)]
        ELSE free

\* Every request looks whether the NPC of the player was freed.
Detached(s) == IF s.npc_id # nobody /\ ~Exists(s.npc_id) THEN Dequeued(s) ELSE s

Top == run[Len(run)]
Outer == SubSeq(run, 1, Len(run) - 1)
\* The statement that is done: one command of check_cmdcount.
Spent == [Top EXCEPT !.cmds = @ - 1, !.at = "any"]
\* What is on the stack besides a script that starts now, or instead of it.
Base == IF run = << >> THEN << >> ELSE Append(Outer, Spent)

SomebodyAttached == \E i \in 1 .. Len(run) : run[i].attached

Running(s) == sd' = s /\ run' = Base

\* run_script_l: a stack that was saved for this bytecode is taken back.
Begin(s, n, kind, attached, sets) ==
    LET restored == attached /\ s.stackbuf > 0 /\ s.scriptroot = Root(n)
    IN  /\ Len(Base) < bound.nested
        /\ sd' = IF restored THEN [s EXCEPT !.stackbuf = 0] ELSE s
        /\ run' = Append(Base, [oid |-> n, root |-> Root(n), attached |-> attached, sets |-> sets,
                                calls |-> IF restored THEN s.stackbuf ELSE 0,
                                at |-> kind, cmds |-> bound.commands])

\* npc_event, for the player.  off is the flag of the NPC.
Event(s, n, args, off) ==
    LET t == Detached(s)
    IN  IF npc[n].life # "on" THEN Running(s) /\ InOrder(TRUE)
        ELSE IF Open(t) /\ ~args
        THEN /\ Len(t.queue) < MaxQueue
             /\ Running([t EXCEPT !.queue = Append(@, n)])
             /\ InOrder(TRUE)
        ELSE IF off THEN Running(Dequeued(t)) /\ InOrder(~SomebodyAttached /\ ~Open(s))
        ELSE /\ Begin([t EXCEPT !.npc_id = n], n, "any", TRUE, TRUE)
             /\ InOrder(~SomebodyAttached /\ ~Open(s))

\* npc_click of a player who is with no NPC
Clicked(s, n) ==
    IF npc[n].life # "on" \/ npc[n].off THEN Running(s)
    ELSE IF n \in Shops THEN Running(Dequeued([s EXCEPT !.npc_id = n]))
    ELSE Begin([s EXCEPT !.npc_id = n], n, "any", TRUE, TRUE)

-----------------------------------------------------------------------------
(* Timers of the OnTimer labels.  They count from 0 up to the last label. *)

\* npc_timerevent_start; its assertion is ok
TimerStart(c) ==
    IF c.active THEN c
    ELSE IF c.timer = Last THEN [c EXCEPT !.active = TRUE]
    ELSE IF c.timer > Last THEN [c EXCEPT !.active = TRUE, !.ok = FALSE]
    ELSE [c EXCEPT !.active = TRUE, !.tick = now, !.due = now + Labels[c.next] - c.timer]

\* npc_timerevent_stop
TimerStop(c) ==
    IF ~c.active THEN c
    ELSE IF c.due = Never THEN [c EXCEPT !.active = FALSE]
    ELSE [c EXCEPT !.active = FALSE, !.timer = @ + now - c.tick, !.due = Never]

\* npc_timerevent_calc_next
CalcNext(c) ==
    [c EXCEPT !.next = 1 + Cardinality({i \in 1 .. Len(Labels) : Labels[i] <= c.timer})]

\* npc_settimerevent_tick
TimerSet(c, newtimer) ==
    LET t == IF newtimer > Last THEN Last ELSE newtimer
    IN  IF t = c.timer THEN c
        ELSE LET set == CalcNext([TimerStop(c) EXCEPT !.timer = t])
             IN  IF c.active THEN TimerStart(set) ELSE set

-----------------------------------------------------------------------------
(* What the player's client asks for. *)

Counted == left > 0 /\ left' = left - 1
Has(kind) == kind \in bound.statements
Asks == Idle /\ Has("wait") /\ Counted /\ UNCHANGED << npc, eventtimer, scr, now, bound >>

\* clif_parse_NpcClicked, npc_click
Click(n) ==
    /\ Asks
    /\ sd.npc_id \notin Live
    /\ InOrder(~Open(sd))
    /\ Clicked(Detached(sd), n)

\* Every other request that a dialog stops (clif_parse_ActionRequest and others).
OtherRequest ==
    /\ Idle
    /\ UNCHANGED << npc, eventtimer, scr, now, bound, left >>
    /\ Detached(sd) # sd
    /\ InOrder(~Open(sd))
    /\ Running(Detached(sd))

\* npc_scriptcont: the client went on, chose, answered or closed
Continue ==
    LET n == sd.npc_id
    IN  /\ Exists(n)
        /\ IF npc[n].life = "queued"
           THEN Running(Dequeued(sd)) /\ InOrder(~Open(sd))
           ELSE IF sd.npc_pos = Ended THEN Running(sd) /\ InOrder(TRUE)
           ELSE Begin(sd, n, sd.npc_pos.at, TRUE, TRUE) /\ InOrder(TRUE)

\* clif_parse_NpcNextClicked and the other answers
Answer == Asks /\ Continue

\* storage_storageclose: the script that opened it goes on
StorageClose ==
    /\ Asks
    /\ sd.storage
    /\ LET s == [sd EXCEPT !.storage = FALSE]
           n == sd.npc_id
       IN  IF ~Exists(n) THEN Running(s) /\ InOrder(TRUE)
           ELSE IF npc[n].life = "queued" THEN Running(Dequeued(s)) /\ InOrder(~Open(s))
           ELSE IF sd.npc_pos = Ended THEN Running(s) /\ InOrder(TRUE)
           ELSE Begin(s, n, s.npc_pos.at, TRUE, TRUE) /\ InOrder(TRUE)

\* npc_buysellsel: whoever asks an NPC that is no shop loses the NPC they talk to
BuySellSelected(n) ==
    /\ Asks
    /\ Exists(n) /\ ~npc[n].off
    /\ InOrder(n \in Shops \/ ~Open(sd))
    /\ Running(IF n \in Shops THEN sd ELSE [sd EXCEPT !.npc_id = nobody])

\* clif_parse_LoadEndAck: the player comes to a map
LoadEndAck ==
    /\ Asks
    /\ sd.npc_id # nobody
    /\ InOrder(~Open(sd))
    /\ Running(Dequeued(sd))

\* pc_walk, npc_touch_areanpc: a step to where n, or nobody, is touched
Walk(n) ==
    /\ Asks /\ Has("touch")
    /\ LET s == [sd EXCEPT !.near = n]
       IN  IF s.npc_id # nobody \/ ~Exists(n) \/ npc[n].off
           THEN Running([s EXCEPT !.areanpc = nobody]) /\ InOrder(TRUE)
           ELSE IF s.areanpc = n THEN Running(s) /\ InOrder(TRUE)
           ELSE IF n \in Touchy THEN Event([s EXCEPT !.areanpc = n], n, FALSE, npc[n].off)
           ELSE Clicked([s EXCEPT !.areanpc = n], n) /\ InOrder(TRUE)

\* magic_message: what the player says is a spell
Cast(n) == Asks /\ Has("event") /\ Event(sd, n, TRUE, npc[n].off)

\* map_quit, and the player logs in again
Quit ==
    /\ Asks
    /\ sd # Fresh
    /\ Running(Fresh)
    /\ orderly' = TRUE

Request ==
    \/ \E n \in Npcs : Click(n) \/ BuySellSelected(n) \/ Walk(n)
    \/ \E n \in Scripts : Cast(n)
    \/ Walk(nobody) \/ OtherRequest \/ Answer \/ StorageClose \/ LoadEndAck \/ Quit

-----------------------------------------------------------------------------
(* What happens by itself. *)

\* pc_eventtimer
PlayerTimer(n) ==
    /\ Asks
    /\ n \in sd.timers
    /\ Event([sd EXCEPT !.timers = @ \ {n}], n, FALSE, npc[n].off)

\* mob_damage: the player has killed a mob with an event
MobEvent(n) == Asks /\ Has("event") /\ Event(sd, n, FALSE, npc[n].off)

\* npc_eventtimer
NpcTimer(n) ==
    /\ Idle
    /\ n \in eventtimer
    /\ eventtimer' = eventtimer \ {n}
    /\ IF npc[n].life = "on" THEN Begin(sd, n, "any", FALSE, FALSE) ELSE Running(sd)
    /\ Counted
    /\ UNCHANGED << npc, scr, now, orderly, bound >>

\* npc_event_doall_l: OnClock..., OnPCLoginEvent, OnPCDieEvent and others
DoAll(n, attached) ==
    /\ Idle
    /\ attached => Has("event")
    /\ n \in Parents /\ Exists(n)
    /\ Begin(sd, n, "any", attached, FALSE)
    /\ InOrder(~attached \/ ~Open(sd))
    /\ Counted
    /\ UNCHANGED << npc, eventtimer, scr, now, bound >>

\* A mistake for NpcFree: the puppets stay.
NpcFreeAlone(n) ==
    /\ Idle
    /\ npc[n].life = "queued"
    /\ npc' = [npc EXCEPT ![n] = [life |-> "freed", off |-> TRUE]]
    /\ eventtimer' = eventtimer \ {n}
    /\ scr' = IF n = Clocked THEN [scr EXCEPT !.due = Never, !.active = FALSE] ELSE scr
    /\ UNCHANGED << sd, run, now, orderly, bound, left >>
\* npc_free, from the timer that builtin_destroy has set
NpcFree(n) ==
    /\ Idle
    /\ npc[n].life = "queued"
    /\ LET gone == {n} \cup {p \in Puppets : Exists(p) /\ ParentOf[p] = n}
       IN  /\ npc' = [m \in Npcs |-> IF m \in gone THEN [life |-> "freed", off |-> TRUE]
                                     ELSE npc[m]]
           /\ eventtimer' = eventtimer \ gone
           /\ scr' = IF Clocked \in gone THEN [scr EXCEPT !.due = Never, !.active = FALSE] ELSE scr
    /\ UNCHANGED << sd, run, now, orderly, bound, left >>

\* npc_timerevent: the label whose time has come
TimerEvent ==
    /\ Idle
    /\ scr.due # Never /\ scr.due <= now
    /\ LET t == Labels[scr.next]
           more == scr.next < Len(Labels)
       IN  scr' = [scr EXCEPT !.tick = scr.due, !.timer = t, !.next = @ + 1,
                              !.due = IF more THEN @ + Labels[scr.next + 1] - t ELSE Never]
    /\ Begin(sd, Clocked, "any", FALSE, FALSE)
    /\ UNCHANGED << npc, eventtimer, now, orderly, bound, left >>

\* Time passes; a timer may be late.
Tick ==
    /\ Idle
    /\ Has("label")
    /\ now < MaxTime
    /\ scr.due = Never \/ now < scr.due + Lag
    /\ now' = now + 1
    /\ UNCHANGED << npc, eventtimer, sd, run, scr, orderly, bound, left >>

Happens ==
    \/ \E n \in Scripts : PlayerTimer(n) \/ MobEvent(n) \/ NpcTimer(n) \/ NpcFree(n)
    \/ \E n \in Parents, attached \in BOOLEAN : DoAll(n, attached)
    \/ TimerEvent \/ Tick

-----------------------------------------------------------------------------
(* Statements of the innermost script. *)

\* At the limit of commands, the script can only end; a question that runs again comes first.
Statement(kind) ==
    /\ run # << >> /\ scr.ok
    /\ Top.cmds > 0 /\ Top.at # "ask"
    /\ Has(kind)
    /\ UNCHANGED << scr, now, bound, left >>
Still == UNCHANGED << npc, eventtimer >>

On(r) == run' = Append(Outer, r)

\* run_script_main and its callers, when the script ends
Finish(r, s, fine) ==
    /\ run' = Outer
    /\ LET t == IF r.attached /\ s.npc_id = r.oid THEN Dequeued(s) ELSE s
       IN  sd' = IF r.sets THEN [t EXCEPT !.npc_pos = Ended] ELSE t
    /\ InOrder(fine)

\* and when it waits
Suspend(r, s, kind) ==
    LET t == [s EXCEPT !.stackbuf = r.calls, !.scriptroot = r.root]
    IN  /\ run' = Outer
        /\ sd' = IF r.sets THEN [t EXCEPT !.npc_pos = [root |-> r.root, at |-> kind]] ELSE t
        /\ InOrder(r.sets)

\* builtin_end, builtin_close, the end of the script, and the limit of commands
End ==
    /\ run # << >> /\ scr.ok
    /\ Top.at # "ask" \/ Top.cmds = 0
    /\ Finish(Top, sd, TRUE)
    /\ UNCHANGED << scr, now, bound, left >> /\ Still

\* builtin_next, builtin_close2, builtin_openstorage: without a player, the script ends
Wait(storage) ==
    /\ Statement("wait") /\ Still
    /\ IF Top.attached
       THEN Suspend(Top, [sd EXCEPT !.storage = @ \/ storage], "any")
       ELSE Finish(Top, sd, TRUE)

\* A mistake for Asked: what the player cancels is still asked.
AskedUnlessCancelled(cancel) == [sd EXCEPT !.asked = cancel]
\* The answer is taken.
Asked(cancel) == [sd EXCEPT !.asked = FALSE]

\* builtin_menu, builtin_input and their kind: they run twice, first to ask
Ask(cancel) ==
    /\ run # << >> /\ scr.ok
    /\ Top.cmds > 0 /\ Has("ask")
    /\ IF ~Top.attached THEN Finish(Top, sd, TRUE)
       ELSE IF ~sd.asked THEN Suspend(Top, [sd EXCEPT !.asked = TRUE], "ask")
       ELSE IF cancel THEN Finish(Top, Asked(cancel), TRUE)
       ELSE On(Spent) /\ sd' = Asked(cancel) /\ UNCHANGED orderly
    /\ UNCHANGED << scr, now, bound, left >> /\ Still

\* builtin_callfunc, builtin_callsub, builtin_call
Call ==
    /\ Statement("call") /\ Still
    /\ Top.calls < MaxCalls
    /\ On([Spent EXCEPT !.calls = @ + 1])
    /\ UNCHANGED << sd, orderly >>

\* builtin_return, run_func; only a script that was called returns
Return ==
    /\ Statement("call") /\ Still
    /\ Top.calls > 0
    /\ On([Spent EXCEPT !.calls = @ - 1])
    /\ UNCHANGED << sd, orderly >>

\* builtin_donpcevent: nobody is attached
DoEvent(n) ==
    /\ Statement("event") /\ Still
    /\ npc[n].life = "on"
    /\ Begin(sd, n, "any", FALSE, FALSE)
    /\ UNCHANGED orderly

\* builtin_foreach: an event with arguments, for the player
ForEach(n) ==
    /\ Statement("event") /\ Still
    /\ Top.attached
    /\ Event(sd, n, TRUE, npc[n].off)

\* npc_enable_sub: whoever stands there touches the NPC
Touched(s, n) ==
    IF s.near = n /\ s.areanpc # n
    THEN LET t == [s EXCEPT !.areanpc = n]
         IN  IF n \in Touchy THEN Event(t, n, FALSE, FALSE) ELSE Running(t) /\ InOrder(TRUE)
    ELSE Running(s) /\ InOrder(TRUE)

\* builtin_enablenpc
EnableNpc(n) ==
    /\ Statement("touch")
    /\ Exists(n)
    /\ npc' = [npc EXCEPT ![n].off = FALSE]
    /\ Touched(sd, n)
    /\ UNCHANGED eventtimer

\* builtin_disablenpc
DisableNpc(n) ==
    /\ Statement("touch")
    /\ Exists(n)
    /\ npc' = [npc EXCEPT ![n].off = TRUE]
    /\ On(Spent)
    /\ UNCHANGED << sd, orderly, eventtimer >>

\* builtin_npcwarp: to where the player stands, or away
NpcWarp(n, here) ==
    /\ Statement("touch")
    /\ Exists(n)
    /\ npc' = [npc EXCEPT ![n].off = FALSE]
    /\ Touched([sd EXCEPT !.near = IF here THEN n ELSE IF @ = n THEN nobody ELSE @], n)
    /\ UNCHANGED eventtimer

\* builtin_destroy: without an argument, of the script's own NPC
Destroy(n) ==
    /\ run # << >> /\ scr.ok
    /\ Top.cmds > 0 /\ Top.at # "ask" /\ Has("destroy")
    /\ n \in Scripts /\ Exists(n)
    /\ npc' = [npc EXCEPT ![n].life = "queued"]
    /\ eventtimer' = eventtimer \ {n}
    /\ LET s == IF Top.attached THEN Dequeued(sd) ELSE sd
           r == [Spent EXCEPT !.oid = nobody]
       IN  IF n = Top.oid THEN Finish(r, s, TRUE)
           ELSE On(r) /\ sd' = s /\ InOrder(~Top.attached)
    /\ UNCHANGED << scr, now, bound, left >>

\* builtin_puppet: an NPC with the labels and the bytecode of the script's own NPC
Puppet(p) ==
    /\ Statement("puppet")
    /\ npc[p].life = "absent"
    /\ Top.oid = ParentOf[p]
    /\ npc' = [npc EXCEPT ![p] = [life |-> "on", off |-> FALSE]]
    /\ On(Spent)
    /\ UNCHANGED << eventtimer, sd, orderly >>

\* builtin_addtimer
AddTimer(n) ==
    /\ Statement("timer") /\ Still
    /\ Top.attached
    /\ n \notin sd.timers
    /\ On(Spent)
    /\ sd' = IF Cardinality(sd.timers) < MaxEventTimer
              THEN [sd EXCEPT !.timers = @ \cup {n}] ELSE sd
    /\ UNCHANGED orderly

\* builtin_addnpctimer
AddNpcTimer(n) ==
    /\ Statement("npctimer")
    /\ Exists(n)
    /\ eventtimer' = eventtimer \cup {n}
    /\ On(Spent)
    /\ UNCHANGED << npc, sd, orderly >>

\* builtin_attachrid, builtin_detachrid
AttachRid(attached) ==
    /\ Statement("rid") /\ Still
    /\ Top.attached # attached
    /\ On([Spent EXCEPT !.attached = attached])
    /\ InOrder(IF attached THEN ~Open(sd) /\ ~SomebodyAttached ELSE ~Top.sets)
    /\ UNCHANGED sd

\* builtin_startnpctimer, builtin_stopnpctimer, builtin_setnpctimer, builtin_initnpctimer
NpcTimerStatement(c) ==
    /\ run # << >> /\ scr.ok
    /\ Top.cmds > 0 /\ Top.at # "ask" /\ Has("label")
    /\ Exists(Clocked)
    /\ scr' = c
    /\ On(Spent)
    /\ UNCHANGED << sd, now, bound, left, orderly >> /\ Still

Script ==
    \/ End \/ Call \/ Return
    \/ \E flag \in BOOLEAN : Wait(flag) \/ Ask(flag) \/ AttachRid(flag)
    \/ \E n \in Scripts :
          \/ DoEvent(n) \/ ForEach(n) \/ EnableNpc(n) \/ DisableNpc(n) \/ Destroy(n)
          \/ AddTimer(n) \/ AddNpcTimer(n)
          \/ \E here \in BOOLEAN : NpcWarp(n, here)
    \/ \E p \in Puppets : Puppet(p)
    \/ NpcTimerStatement(TimerStart(scr)) \/ NpcTimerStatement(TimerStop(scr))
    \/ NpcTimerStatement(TimerStart(TimerSet(scr, 0)))
    \/ \E t \in 0 .. Last : NpcTimerStatement(TimerSet(scr, t))

Next == Request \/ Happens \/ Script

Spec == Init /\ [][Next]_vars

-----------------------------------------------------------------------------
(* Properties. *)

\* Every variable has its type.
TypeOK ==
    /\ npc \in [Npcs -> [life : {"absent", "on", "queued", "freed"}, off : BOOLEAN]]
    /\ eventtimer \subseteq Scripts
    /\ sd.npc_id \in Npcs \cup {nobody} /\ sd.stackbuf \in 0 .. MaxCalls
    /\ sd.timers \subseteq Scripts /\ Cardinality(sd.timers) <= MaxEventTimer
    /\ sd.queue \in Seq(Scripts) /\ Len(sd.queue) <= MaxQueue
    /\ \A i \in 1 .. Len(run) : run[i].cmds \in 0 .. bound.commands /\ run[i].calls \in 0 .. MaxCalls
    /\ now \in 0 .. MaxTime /\ left \in 0 .. bound.requests /\ {orderly, scr.ok} \subseteq BOOLEAN

\* As long as no dialog was cut short, a player who is with an NPC can go on: the
\* position is one of this NPC's script, a question that was asked is the one that
\* waits, and the calls to return from are those of this dialog.
DialogsGoOn ==
    orderly /\ Idle =>
        /\ sd.npc_id # nobody /\ Exists(sd.npc_id) => sd.npc_pos.root = Root(sd.npc_id)
        /\ sd.asked => sd.npc_id # nobody /\ sd.npc_pos.at = "ask"
        /\ sd.stackbuf > 0 => sd.npc_id # nobody /\ sd.scriptroot = Root(sd.npc_id)

\* No script runs for an NPC that is gone, no timer is left to it, and a puppet does
\* not outlive the NPC whose bytecode it runs (npc_free).
NothingOfTheFreed ==
    /\ \A i \in 1 .. Len(run) : run[i].oid # nobody => Exists(run[i].oid)
    /\ \A n \in eventtimer : Exists(n)
    /\ \A p \in Puppets : Exists(p) => Exists(ParentOf[p])
=============================================================================
