----------------------------- MODULE AtomicInstall -----------------------------
(***************************************************************************)
(* What the installer promises: the machine has one installed release (or  *)
(* none), an installation replaces it in one step, and whenever no         *)
(* installation is under way every part of the machine belongs to that     *)
(* release.  A release that failed is never installed again.               *)
(***************************************************************************)
CONSTANTS Release, None

VARIABLES
    installed,      \* the release of the machine, or None
    quarantined,    \* the releases that failed
    underWay,       \* an installation was begun and is not finished
    parts           \* the release each visible part belongs to, as a set

vars == <<installed, quarantined, underWay, parts>>

Init ==
    /\ installed = None
    /\ quarantined = {}
    /\ underWay = FALSE
    /\ parts = {None}

\* While an installation is under way the parts may be anything.
Begin ==
    /\ underWay'
    /\ UNCHANGED <<installed, quarantined>>

\* By then every part is the new release's.
Commit ==
    /\ underWay
    /\ \E r \in Release \ quarantined : installed' = r /\ parts' = {r}
    /\ UNCHANGED <<quarantined, underWay>>

Quarantine ==
    /\ underWay
    /\ \E r \in Release \ {installed} : quarantined' = quarantined \cup {r}
    /\ UNCHANGED <<installed, underWay, parts>>

Finish ==
    /\ underWay
    /\ ~underWay'
    /\ parts' = {installed}
    /\ UNCHANGED <<installed, quarantined>>

Next == Begin \/ Commit \/ Quarantine \/ Finish

Spec == Init /\ [][Next]_vars
==============================================================================
