----------------------------- MODULE Peripherals ------------------------------
(***************************************************************************)
(* LedStrip, HttpTasks and Servers together. They share no state, so one   *)
(* of them runs in each behaviour while the others rest where they start.  *)
(***************************************************************************)
EXTENDS LedStrip, HttpTasks, Servers

VARIABLE part   \* which of them runs
vars == <<part, stripVars, taskVars, serverVars>>

Init ==
    /\ StripInit
    /\ part \in IF caller = "client" /\ bpp = 3 THEN {"strip", "tasks", "servers"} ELSE {"strip"}
    /\ TaskInitially /\ ServersInit
Next ==
    \/ part = "strip" /\ StripNext /\ UNCHANGED <<part, taskVars, serverVars>>
    \/ part = "tasks" /\ TaskNext /\ UNCHANGED <<part, stripVars, serverVars>>
    \/ part = "servers" /\ ServersNext /\ UNCHANGED <<part, stripVars, taskVars>>
Spec ==
    /\ Init /\ [][Next]_vars
    /\ WF_vars(part = "strip" /\ StripDriver /\ UNCHANGED <<part, taskVars, serverVars>>)
    /\ WF_vars(part = "tasks" /\ TaskStep /\ UNCHANGED <<part, stripVars, serverVars>>)
    /\ WF_vars(part = "servers" /\ ServersStep /\ UNCHANGED <<part, stripVars, taskVars>>)

\* Every variable of the three modules has its type.
PeripheralsTypeOK == StripTypeOK /\ TaskTypeOK /\ ServersTypeOK
=============================================================================
