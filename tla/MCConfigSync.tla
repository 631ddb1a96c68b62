----------------------------- MODULE MCConfigSync -----------------------------
(***************************************************************************)
(* Bounds for checking ConfigSync with TLC: two syncs that interleave with *)
(* each other and a push, and syncs that meet a reset and a new link.      *)
(***************************************************************************)
EXTENDS ConfigSync, TLC

CONSTANTS p1, m1, t1, n1, u1, p2, u2

VersionBound == "configuration" :> 2 @@ "access" :> 1

\* A project with a module, a pension with a pass, and a user; another with a user.
TipoOf == p1 :> "proyecto" @@ m1 :> "modulo" @@ n1 :> "pension" @@ t1 :> "pass"
            @@ u1 :> "usuario" @@ p2 :> "proyecto" @@ u2 :> "usuario"
ParentOf == [id \in Rows |-> CASE id \in {m1, n1} -> p1 [] id = t1 -> n1 [] OTHER -> None]
TwoProjects == [id \in Rows |-> IF id \in {p2, u2} THEN p2 ELSE p1]

I(id, rev, ok) == [id |-> id, rev |-> rev, ok |-> ok]

\* The first version of the configuration has an unsound module; the second repairs it,
\* brings a pension and changes its pass.
Sent ==
  p1 :> ("configuration" :> (0 :> {I(p1, 1, TRUE)} @@ 1 :> {I(p1, 1, TRUE), I(m1, 1, FALSE)}
           @@ 2 :> {I(p1, 1, TRUE), I(m1, 2, TRUE), I(n1, 1, TRUE), I(t1, 2, TRUE)})
      @@ "access" :> (0 :> {} @@ 1 :> {I(u1, 2, TRUE)}))
  @@ p2 :> ("configuration" :> (0 :> {} @@ 1 :> {I(p2, 1, TRUE)} @@ 2 :> {I(p2, 2, TRUE)})
      @@ "access" :> (0 :> {} @@ 1 :> {I(u2, 1, TRUE)}))

Stored == [rev |-> 1, ok |-> TRUE, own |-> FALSE]

\* An installation that is linked, with access in the cloud; which projects have approved it,
\* now or earlier, and which versions it has applied and noted.
AlreadyLinked(linked, approved, noted) ==
  /\ installation = [status |-> "linked", proyectoId |-> linked, noted |-> noted,
                     token |-> [kind |-> "sync", proyectoId |-> linked, n |-> 1]]
  /\ reviews = [p \in Projects |-> IF p \in approved THEN "approved" ELSE "none"]
  /\ tokens = [p \in Projects |->
                IF p \in approved THEN [used |-> 0, issued |-> 1, handed |-> TRUE]
                                 ELSE [used |-> 0, issued |-> 0, handed |-> FALSE]]
  /\ pending = FALSE
  /\ operators = [o \in Operators |-> Idle]
  /\ rotations = [r \in Responses |-> Idle]
  /\ crossed = FALSE
  /\ tasks = [s \in Syncs \cup Pushes |-> Idle]
  /\ applied = [p \in Projects |-> [k \in Kinds |-> IF p = linked THEN {noted[k]} \ {0} ELSE {}]]
  /\ stale = FALSE
  /\ notedFor = IF noted = NothingNoted THEN {} ELSE {linked}

\* Two syncs, a push and a fault, after the last change of the link, when the project that
\* was linked before may push as well; two syncs and changes of the link, after the last
\* push and the last fault; two syncs of a project that the cloud is still configuring; two
\* syncs of a project that was synced before.
Start ==
  \/ /\ AlreadyLinked(p1, {p1, p2}, NothingNoted)
     /\ rows = [id \in Rows |-> IF id \in {p1, u1} THEN Stored ELSE None]
     /\ versions = [p \in Projects |-> IF p = p2 THEN VersionBound
                                      ELSE "configuration" :> 1 @@ "access" :> 1]
     /\ links = MaxLinks
     /\ faults = 0
     /\ pushed = FALSE
  \/ /\ AlreadyLinked(p1, {p1}, NothingNoted)
     /\ rows = [id \in Rows |-> IF id \in {p1, n1, t1} THEN Stored ELSE None]
     /\ versions = [p \in Projects |-> VersionBound]
     /\ links = 0
     /\ faults = MaxFaults
     /\ pushed = TRUE
  \/ /\ AlreadyLinked(p2, {p2}, NothingNoted)
     /\ rows = [id \in Rows |-> IF id = p2 THEN Stored ELSE None]
     /\ versions = [p \in Projects |-> IF p = p1 THEN VersionBound
                                      ELSE "configuration" :> 0 @@ "access" :> 1]
     /\ links = MaxLinks
     /\ faults = MaxFaults
     /\ pushed = TRUE
  \/ /\ AlreadyLinked(p2, {p2}, "configuration" :> 1 @@ "access" :> 1)
     /\ rows = [id \in Rows |-> IF id \in {p2, u2} THEN Stored ELSE None]
     /\ versions = [p \in Projects |-> VersionBound]
     /\ links = MaxLinks
     /\ faults = MaxFaults
     /\ pushed = TRUE

MCSpec == Start /\ [][ConfigNext]_configVars /\ ConfigFairness
=============================================================================
