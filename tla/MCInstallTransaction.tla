-------------------------- MODULE MCInstallTransaction --------------------------
(***************************************************************************)
(* InstallTransaction for TLC, and the abstract installer it implements.   *)
(***************************************************************************)
EXTENDS InstallTransaction, TLC

Promise == INSTANCE AtomicInstall
               WITH installed <- CurrentOf(state),
                    quarantined <- IF state = None THEN {} ELSE state.quarantined,
                    underWay <- ~AtRest,
                    parts <- Parts

\* Installations, failures, kills and recoveries together change the installed
\* release in one step only, and leave nothing half installed when at rest.
ImplementsAtomicInstall == Promise!Spec

ReleaseSymmetry == Permutations(Release)
==============================================================================
