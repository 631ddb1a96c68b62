----------------------------- MODULE MCHeartbeat -----------------------------
(***************************************************************************)
(* Bounds for checking HeartbeatPublisher, with the calls of               *)
(* InstallationLink, with TLC.                                             *)
(***************************************************************************)
EXTENDS HeartbeatPublisher, TLC

NoVersions == [k \in Kinds |-> 0]
=============================================================================
