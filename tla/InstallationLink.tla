--------------------------- MODULE InstallationLink ---------------------------
(***************************************************************************)
(* The row local_installation and what changes it: an operator asks the    *)
(* cloud for a link with a project's link token, polls the request, or     *)
(* resets the installation; the rotation of the sync token stores a new    *)
(* one.  Every call reads the row or the cloud first and upserts the row   *)
(* later, so the writes of two calls may cross.                            *)
(*                                                                         *)
(* The cloud is external: it takes requests, approves or rejects them,     *)
(* hands a sync token over once, and accepts the last token that was used  *)
(* and the last one it issued.                                             *)
(*                                                                         *)
(* Left out: names, dates and the outcome of the last sync, which are only *)
(* shown; the link by PROJECT_ID, for development; the cipher of tokens.   *)
(***************************************************************************)
EXTENDS Processes, Naturals

CONSTANTS
  Projects,
  Kinds,        \* the snapshots a version is noted for
  MaxVersion,   \* [Kinds -> bound of the versions of each snapshot]; 0 is "no version"
  Operators,    \* requests of operators being served at the same time
  Responses,    \* responses of the cloud that ask for a rotation, at the same time
  MaxLinks,     \* bound: value of links from which on no request for a link is sent
  LastReset,    \* bound: value of links from which on no reset begins
  MaxTokens,    \* bound: sync tokens the cloud issues for a project
  MaxFaults     \* bound: calls that fail, answers that are lost, server stops

\* None is no project, no token.
ASSUME LinkAssumption ==
  /\ MaxVersion \in [Kinds -> Nat]
  /\ MaxTokens \in Nat
  /\ MaxFaults \in Nat
  /\ None \notin Nat
  /\ None \notin Projects
  /\ None \notin [kind : {"link"}, proyectoId : Projects]
  /\ None \notin [kind : {"sync"}, proyectoId : Projects, n : 1 .. MaxTokens]

VARIABLES
  installation, \* the row local_installation
  pending,      \* whether the outbox holds changes that were not sent
  operators,    \* what each operator's request remembers
  rotations,    \* the rotation each of these responses started
  reviews,      \* the cloud: the request of each project
  tokens,       \* the cloud: the sync tokens of each project
  links,        \* history: how often the link was asked, approved or reset
  crossed,      \* history: a call met another change of the link than the one it began under
  faults

linkVars ==
  <<installation, pending, operators, rotations, reviews, tokens, links, crossed, faults>>

----------------------------------------------------------------------------
Token ==
       [kind : {"link"}, proyectoId : Projects]
  \cup [kind : {"sync"}, proyectoId : Projects, n : 1 .. MaxTokens]

ReviewStatus == {"requested", "approved", "rejected"}

Versions == {v \in [Kinds -> Nat] : \A k \in Kinds : v[k] <= MaxVersion[k]}

LocalInstallation ==
  [status : {"pending", "linked"} \cup ReviewStatus,
   proyectoId : Projects \cup {None},
   token : Token \cup {None},
   noted : Versions]

LinkCall ==
       [pc : {"idle"}]
  \cup [pc : {"reset"}]
  \cup [pc : {"request"}, proyectoId : Projects, status : ReviewStatus]
  \cup [pc : {"status"}, proyectoId : Projects, status : ReviewStatus,
        token : Token \cup {None}, link : Nat]

Rotation ==
       [pc : {"idle"}]
  \cup [pc : {"ask", "store"}, token : Token, link : Nat]

LinkTypeOK ==
  /\ installation \in LocalInstallation
  /\ pending \in BOOLEAN
  /\ operators \in [Operators -> LinkCall]
  /\ rotations \in [Responses -> Rotation]
  /\ reviews \in [Projects -> {"none"} \cup ReviewStatus]
  /\ tokens \in [Projects -> [used : 0 .. MaxTokens, issued : 0 .. MaxTokens, handed : BOOLEAN]]
  /\ links \in Nat
  /\ crossed \in BOOLEAN
  /\ faults \in 0 .. MaxFaults

NothingNoted == [k \in Kinds |-> 0]

Installation(status, proyectoId, token, noted) ==
  [status |-> status, proyectoId |-> proyectoId, token |-> token, noted |-> noted]

\* resetLink: the installation id is kept; project, token and versions are dropped.
Unlinked == Installation("pending", None, None, NothingNoted)

LinkInit ==
  /\ installation = Unlinked
  /\ pending = FALSE
  /\ operators = [o \in Operators |-> Idle]
  /\ rotations = [r \in Responses |-> Idle]
  /\ reviews = [p \in Projects |-> "none"]
  /\ tokens = [p \in Projects |-> [used |-> 0, issued |-> 0, handed |-> FALSE]]
  /\ links = 0
  /\ crossed = FALSE
  /\ faults = 0

----------------------------------------------------------------------------
\* The installation can call the cloud as its project.
HasCredentials ==
  /\ installation.status = "linked"
  /\ installation.proyectoId # None
  /\ installation.token # None

\* The cloud: which tokens it accepts, and that it notes the last one used.
Accepts(t) == t.kind = "sync" /\ t.n \in {tokens[t.proyectoId].used, tokens[t.proyectoId].issued}

AfterUse(t) == [tokens EXCEPT ![t.proyectoId].used = t.n]

CanIssue(p) == tokens[p].issued < MaxTokens

Issued(p, used, handed) ==
  [tokens EXCEPT ![p] = [used |-> used, issued |-> tokens[p].issued + 1, handed |-> handed]]

NewToken(p) == [kind |-> "sync", proyectoId |-> p, n |-> tokens[p].issued + 1]

\* Updates of the row name only the columns they change; the others stay.
Requested(p, status) ==
  Installation(status, None, [kind |-> "link", proyectoId |-> p], installation.noted)

Reviewed(status) == Installation(status, None, installation.token, installation.noted)

Linked(p, token) ==
  Installation("linked", p, IF token = None THEN installation.token ELSE token, installation.noted)

----------------------------------------------------------------------------
\* Changes of local data, and the outbox that sends them; see Outbox.
LocalChange ==
  /\ ~pending
  /\ pending' = TRUE
  /\ UNCHANGED <<installation, operators, rotations, reviews, tokens, links, crossed, faults>>

OutboxSends ==
  /\ pending
  /\ HasCredentials
  /\ Accepts(installation.token)
  /\ pending' = FALSE
  /\ tokens' = AfterUse(installation.token)
  /\ UNCHANGED <<installation, operators, rotations, reviews, links, crossed, faults>>

----------------------------------------------------------------------------
\* reset: refused while local changes wait.
MayReset == ~pending

ResetRead(o) ==
  /\ operators[o].pc = "idle"
  /\ links < LastReset
  /\ installation # Unlinked
  /\ MayReset
  /\ operators' = [operators EXCEPT ![o] = [pc |-> "reset"]]
  /\ UNCHANGED <<installation, pending, rotations, reviews, tokens, links, crossed, faults>>

ResetWrite(o) ==
  /\ operators[o].pc = "reset"
  /\ installation' = Unlinked
  /\ links' = links + 1
  /\ operators' = [operators EXCEPT ![o] = Idle]
  /\ UNCHANGED <<pending, rotations, reviews, tokens, crossed, faults>>

\* A token that was never used is none the cloud accepts once it issues the next.
HoldsUnused(p) ==
  /\ HasCredentials
  /\ installation.token.kind = "sync"
  /\ installation.token.proyectoId = p
  /\ installation.token.n # tokens[p].used

\* requestLink: the cloud stores the request; one that was approved may stay so.
RequestSend(o, p) ==
  /\ operators[o].pc = "idle"
  /\ links < MaxLinks
  /\ \/ /\ reviews' = [reviews EXCEPT ![p] = "requested"]
        /\ UNCHANGED <<tokens, crossed>>
     \/ /\ reviews[p] = "approved"
        /\ CanIssue(p)
        /\ tokens' = Issued(p, tokens[p].used, FALSE)
        /\ crossed' = (crossed \/ HoldsUnused(p))
        /\ UNCHANGED reviews
  /\ operators' = [operators EXCEPT
       ![o] = [pc |-> "request", proyectoId |-> p, status |-> reviews'[p]]]
  /\ links' = links + 1
  /\ UNCHANGED <<installation, pending, rotations, faults>>

\* Versions noted under an earlier link stay in the row: only a reset drops them.
RequestWrite(o) ==
  /\ operators[o].pc = "request"
  /\ installation' = Requested(operators[o].proyectoId, operators[o].status)
  /\ links' = links + 1
  /\ operators' = [operators EXCEPT ![o] = Idle]
  /\ UNCHANGED <<pending, rotations, reviews, tokens, crossed, faults>>

\* ensureInstallation, while not linked: the answer for the stored link token.  The sync
\* token comes with the first answer after the approval, and only with that one.
StatusAsk(o) ==
  /\ operators[o].pc = "idle"
  /\ installation.status # "linked"
  /\ installation.token # None
  /\ installation.token.kind = "link"
  /\ LET p     == installation.token.proyectoId
         hands == reviews[p] = "approved" /\ ~tokens[p].handed
     IN  /\ reviews[p] # "none"
         /\ tokens' = IF hands THEN [tokens EXCEPT ![p].handed = TRUE] ELSE tokens
         /\ operators' = [operators EXCEPT
              ![o] = [pc |-> "status", proyectoId |-> p, status |-> reviews[p],
                      token |-> IF hands
                                THEN [kind |-> "sync", proyectoId |-> p, n |-> tokens[p].issued]
                                ELSE None,
                      link |-> links]]
  /\ UNCHANGED <<installation, pending, rotations, reviews, links, crossed, faults>>

StatusWrite(o) ==
  LET call == operators[o]
  IN  /\ call.pc = "status"
      /\ installation' = IF call.status = "approved"
                         THEN Linked(call.proyectoId, call.token)
                         ELSE Reviewed(IF call.status = "rejected" THEN "rejected" ELSE "requested")
      /\ crossed' = (crossed \/ call.link # links)
      /\ operators' = [operators EXCEPT ![o] = Idle]
      /\ UNCHANGED <<pending, rotations, reviews, tokens, links, faults>>

\* The cloud's answer, or the request itself, is lost.
AnswerLost(o) ==
  /\ operators[o].pc \in {"request", "status"}
  /\ faults < MaxFaults
  /\ faults' = faults + 1
  /\ operators' = [operators EXCEPT ![o] = Idle]
  /\ UNCHANGED <<installation, pending, rotations, reviews, tokens, links, crossed>>

----------------------------------------------------------------------------
\* rotateSyncToken, when responses of the cloud ask for it: one at a time, though several
\* calls see the header.  See the properties.
RotatesEachTime == TRUE

MayRotate == \A r \in Responses : rotations[r].pc = "idle"

RotateStart(r) ==
  /\ rotations[r].pc = "idle"
  /\ MayRotate
  /\ HasCredentials
  /\ CanIssue(installation.token.proyectoId)
  /\ rotations' = [rotations EXCEPT
       ![r] = [pc |-> "ask", token |-> installation.token, link |-> links]]
  /\ UNCHANGED <<installation, pending, operators, reviews, tokens, links, crossed, faults>>

RotateAsk(r) ==
  LET t == rotations[r].token
  IN  /\ rotations[r].pc = "ask"
      /\ Accepts(t)
      /\ CanIssue(t.proyectoId)
      /\ tokens' = Issued(t.proyectoId, t.n, tokens[t.proyectoId].handed)
      /\ rotations' = [rotations EXCEPT
           ![r] = [pc |-> "store", token |-> NewToken(t.proyectoId), link |-> rotations[r].link]]
      /\ crossed' = (crossed \/ rotations[r].link # links)
      /\ UNCHANGED <<installation, pending, operators, reviews, links, faults>>

RotateStore(r) ==
  /\ rotations[r].pc = "store"
  /\ installation' = [installation EXCEPT !.token = rotations[r].token]
  /\ crossed' = (crossed \/ rotations[r].link # links)
  /\ rotations' = [rotations EXCEPT ![r] = Idle]
  /\ UNCHANGED <<pending, operators, reviews, tokens, links, faults>>

\* Refused, or the answer is lost; the header asks again later.
RotateFails(r) ==
  LET rotation == rotations[r]
  IN  /\ \/ /\ rotation.pc = "ask"
            /\ ~Accepts(rotation.token) \/ ~CanIssue(rotation.token.proyectoId)
            /\ UNCHANGED faults
         \/ /\ rotation.pc \in {"ask", "store"}
            /\ faults < MaxFaults
            /\ faults' = faults + 1
      /\ rotations' = [rotations EXCEPT ![r] = Idle]
      /\ UNCHANGED <<installation, pending, operators, reviews, tokens, links, crossed>>

----------------------------------------------------------------------------
\* An administrator of the cloud reviews a request.
CloudApproves(p) ==
  /\ reviews[p] = "requested"
  /\ CanIssue(p)
  /\ reviews' = [reviews EXCEPT ![p] = "approved"]
  /\ tokens' = Issued(p, tokens[p].used, FALSE)
  /\ links' = links + 1
  /\ crossed' = (crossed \/ HoldsUnused(p))
  /\ UNCHANGED <<installation, pending, operators, rotations, faults>>

CloudRejects(p) ==
  /\ reviews[p] = "requested"
  /\ reviews' = [reviews EXCEPT ![p] = "rejected"]
  /\ UNCHANGED <<installation, pending, operators, rotations, tokens, links, crossed, faults>>

LinkCalls ==
  \/ \E o \in Operators :
       \/ ResetRead(o) \/ ResetWrite(o)
       \/ \E p \in Projects : RequestSend(o, p)
       \/ RequestWrite(o) \/ StatusAsk(o) \/ StatusWrite(o) \/ AnswerLost(o)
  \/ \E r \in Responses : RotateStart(r) \/ RotateAsk(r) \/ RotateStore(r) \/ RotateFails(r)
  \/ \E p \in Projects : CloudApproves(p) \/ CloudRejects(p)

LinkNext == LocalChange \/ OutboxSends \/ LinkCalls

LinkSpec == LinkInit /\ [][LinkNext]_linkVars

----------------------------------------------------------------------------
(***************************************************************************)
(* Properties.                                                             *)
(***************************************************************************)

\* A linked installation holds a sync token of its project that the cloud accepts, through
\* lost answers and repeated rotations, unless a call crossed a change of the link or the
\* answer with the token was lost, which leaves the link token in its place
\* (rotateSyncToken, linkLocalProject).
TokenAccepted ==
  installation.status = "linked" /\ ~crossed /\ installation.token.kind = "sync"
    => /\ Accepts(installation.token)
       /\ installation.token.proyectoId = installation.proyectoId

\* A reset finds nothing that waits to be sent (reset, "so none is lost").
ResetAfterSent == [][\A o \in Operators : ResetWrite(o) => ~pending]_linkVars
=============================================================================
