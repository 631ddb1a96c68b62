------------------------------- MODULE MCAccess -------------------------------
(***************************************************************************)
(* Bounds for checking Access with TLC.                                    *)
(***************************************************************************)
EXTENDS Access, TLC

\* At first the cloud knows one password, and every profile has all modules.
MCInit ==
  /\ AccessInit
  /\ \E w \in Passwords : \A u \in Users : cloudUsers[u].password = w
  /\ \A p \in Profiles : cloudProfiles[p].modules = Modules

MCSpec == MCInit /\ [][AccessNext]_accessVars /\ AccessFairness
=============================================================================
