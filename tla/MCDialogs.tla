------------------------------ MODULE MCDialogs ------------------------------
(***************************************************************************)
(* Instances of Dialogs for TLC.                                           *)
(***************************************************************************)
EXTENDS Dialogs, TLC

CONSTANTS keeper, pet, smith

TheParent == pet :> keeper
TwoLabels == << 1, 3 >>

Bound(statements, requests, commands, nested) ==
    [statements |-> statements, requests |-> requests, commands |-> commands, nested |-> nested]

Some ==
    {Bound({"wait", "ask", "call", "event", "rid"}, 4, 2, 2),
     Bound({"wait", "ask", "event", "timer"}, 4, 2, 2),
     Bound({"wait", "ask", "touch", "event"}, 3, 2, 2),
     Bound({"wait", "ask", "call", "destroy", "puppet", "npctimer"}, 4, 2, 1),
     Bound({"label", "destroy"}, 4, 2, 1)}
=============================================================================
