--------------------------- MODULE CommandLifecycle ---------------------------
(***************************************************************************)
(* What remote control makes of a phone command: it is sent once, Pi takes *)
(* it at most once, and it ends, if it ends, in one outcome that never     *)
(* changes.  An accepted command was taken by Pi, or another prompt        *)
(* started while it was waited for and was mistaken for it: then Pi may    *)
(* take it afterwards, or never.  A failed one may have been taken (an     *)
(* interrupted execution is reported as uncertain and never repeated).     *)
(***************************************************************************)
EXTENDS Naturals

CONSTANT Command

VARIABLES status, taken, mistaken

lifecycleVars == <<status, taken, mistaken>>

Init ==
    /\ status = [k \in Command |-> "unsent"]
    /\ taken = [k \in Command |-> 0]
    /\ mistaken = {}

Send(k) ==
    /\ status[k] = "unsent"
    /\ status' = [status EXCEPT ![k] = "pending"]
    /\ UNCHANGED <<taken, mistaken>>

\* What starts is mistaken for k, once and while k is pending and not taken.
Mistake(k) ==
    /\ status[k] = "pending"
    /\ taken[k] = 0
    /\ k \notin mistaken
    /\ mistaken' = mistaken \cup {k}

Take(k) ==
    /\ status[k] = "pending" \/ k \in mistaken
    /\ taken[k] = 0
    /\ taken' = [taken EXCEPT ![k] = 1]
    /\ UNCHANGED mistaken \/ \E d \in Command \ {k} : k \in mistaken /\ Mistake(d)
    /\ UNCHANGED status

StartLocalPrompt == \E k \in Command : Mistake(k) /\ UNCHANGED <<status, taken>>

Accept(k) ==
    /\ status[k] = "pending"
    /\ taken[k] = 1 \/ k \in mistaken
    /\ status' = [status EXCEPT ![k] = "accepted_by_pi"]
    /\ UNCHANGED <<taken, mistaken>>

Fail(k) ==
    /\ status[k] = "pending"
    /\ status' = [status EXCEPT ![k] = "failed"]
    /\ UNCHANGED <<taken, mistaken>>

Next ==
    \/ \E k \in Command : Send(k) \/ Take(k) \/ Accept(k) \/ Fail(k)
    \/ StartLocalPrompt

Spec == Init /\ [][Next]_lifecycleVars
==============================================================================
