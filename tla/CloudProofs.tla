------------------------------ MODULE CloudProofs ------------------------------
(***************************************************************************)
(* Proofs about the calls between this server and the cloud: the link and  *)
(* the rotation of its token, the publisher of snapshots and the syncs of  *)
(* the configuration, for any projects, requests, rows and failures.       *)
(***************************************************************************)
EXTENDS HeartbeatPublisher, ConfigSync, TLAPS

----------------------------------------------------------------------------
\* The link.  TokenProject is the project of the token the installation holds.

TokenProject == IF installation.token = None THEN None ELSE installation.token.proyectoId

HoldsSync == installation.token # None /\ installation.token.kind = "sync"

\* A sync token is one the cloud issued.
WasIssued(t) == t # None /\ t.kind = "sync" => t.n <= tokens[t.proyectoId].issued

\* What the calls under way remember is not newer than the link, only the cloud
\* makes sync tokens, and one rotation runs at a time.
CallsBegan ==
  /\ installation.status = "linked" => installation.proyectoId \in Projects
  /\ \A p \in Projects :
       /\ tokens[p].used <= tokens[p].issued
       /\ reviews[p] = "approved" => tokens[p].issued > 0
  /\ WasIssued(installation.token)
  /\ \A o \in Operators : operators[o].pc = "status" =>
       /\ operators[o].link <= links
       /\ WasIssued(operators[o].token)
       /\ operators[o].token # None =>
            operators[o].token.kind = "sync" /\ operators[o].token.proyectoId = operators[o].proyectoId
  /\ \A r \in Responses : rotations[r].pc # "idle" =>
       /\ rotations[r].link <= links
       /\ WasIssued(rotations[r].token)
       /\ \A q \in Responses : rotations[q].pc # "idle" => q = r

\* A poll of the link that is under way, with or without the sync token.
Polls(o) == operators[o].pc = "status" /\ operators[o].link = links

Brings(o) == Polls(o) /\ operators[o].token # None

\* While no call crossed a change of the link, the calls under this link are
\* about the project of the token; one poll brings the sync token, which is the
\* last the cloud issued; and a rotation replaces the token in use.
CallsAgree ==
  ~crossed =>
    /\ installation.status = "linked" => installation.proyectoId = TokenProject
    /\ \A o \in Operators : Polls(o) => operators[o].proyectoId = TokenProject
    /\ \A o \in Operators : Brings(o) =>
         /\ ~HoldsSync
         /\ tokens[TokenProject].handed
         /\ operators[o].token.n = tokens[TokenProject].issued
         /\ \A other \in Operators : Brings(other) => other = o
    /\ \A r \in Responses : rotations[r].pc # "idle" /\ rotations[r].link = links =>
         /\ rotations[r].token.proyectoId = TokenProject
         /\ rotations[r].pc = "ask" /\ rotations[r].token.kind = "sync" =>
              rotations[r].token = installation.token
         /\ rotations[r].pc = "store" =>
              /\ HoldsSync
              /\ rotations[r].token.kind = "sync"
              /\ installation.token.n = tokens[TokenProject].used
              /\ tokens[TokenProject].used < tokens[TokenProject].issued
              /\ rotations[r].token.n = tokens[TokenProject].issued

\* The token of a linked installation is accepted, also of one that a poll
\* under way may link again.
TokenServes ==
  ~crossed /\ HoldsSync /\ (installation.status = "linked" \/ \E o \in Operators : Polls(o)) =>
    Accepts(installation.token)

LinkInv == LinkTypeOK /\ CallsBegan /\ CallsAgree /\ TokenServes

\* A token taken from the installation earlier is not newer than its own.
NotNewer(t) ==
  /\ WasIssued(t)
  /\ ~crossed /\ HoldsSync /\ t.kind = "sync" /\ t.proyectoId = TokenProject =>
       t.n <= installation.token.n

StayOld == \A t \in Token : NotNewer(t) => NotNewer(t)'

\* The fields of what the link's variables hold.
LEMMA TokenFields ==
  \A t \in Token :
    /\ t # None /\ t.proyectoId \in Projects
    /\ t.kind \in {"link", "sync"}
    /\ t.kind = "sync" => t.n \in 1 .. MaxTokens /\ t.n \in Nat
BY LinkAssumption DEF Token

LEMMA InstallationFields ==
  ASSUME LinkTypeOK
  PROVE  /\ installation.status \in {"pending", "linked", "requested", "approved", "rejected"}
         /\ installation.proyectoId \in Projects \cup {None}
         /\ installation.token \in Token \cup {None}
         /\ installation.noted \in Versions
         /\ installation.token # None => installation.token \in Token /\ TokenProject \in Projects
BY TokenFields DEF LinkTypeOK, LocalInstallation, ReviewStatus, TokenProject

LEMMA InstallationOf ==
  ASSUME NEW status \in {"pending", "linked", "requested", "approved", "rejected"},
         NEW proyectoId \in Projects \cup {None}, NEW token \in Token \cup {None},
         NEW noted \in Versions
  PROVE  /\ Installation(status, proyectoId, token, noted) \in LocalInstallation
         /\ Installation(status, proyectoId, token, noted).status = status
         /\ Installation(status, proyectoId, token, noted).proyectoId = proyectoId
         /\ Installation(status, proyectoId, token, noted).token = token
         /\ Installation(status, proyectoId, token, noted).noted = noted
BY DEF Installation, LocalInstallation, ReviewStatus

LEMMA LinkCallFields ==
  ASSUME LinkTypeOK, NEW o \in Operators
  PROVE  /\ operators[o].pc \in {"idle", "reset", "request", "status"}
         /\ operators[o].pc \in {"request", "status"} =>
              operators[o].proyectoId \in Projects /\ operators[o].status \in ReviewStatus
         /\ operators[o].pc = "status" =>
              operators[o].token \in Token \cup {None} /\ operators[o].link \in Nat
BY DEF LinkTypeOK, LinkCall

LEMMA RotationFields ==
  ASSUME LinkTypeOK, NEW r \in Responses
  PROVE  /\ rotations[r].pc \in {"idle", "ask", "store"}
         /\ rotations[r].pc # "idle" => rotations[r].token \in Token /\ rotations[r].link \in Nat
BY DEF LinkTypeOK, Rotation

LEMMA TokensFields ==
  ASSUME LinkTypeOK, NEW p \in Projects
  PROVE  /\ tokens[p].used \in 0 .. MaxTokens /\ tokens[p].used \in Nat
         /\ tokens[p].issued \in 0 .. MaxTokens /\ tokens[p].issued \in Nat
         /\ tokens[p].handed \in BOOLEAN
BY LinkAssumption DEF LinkTypeOK

\* What the cloud's table of tokens is after a token was used, or the next issued.
LEMMA UseFields ==
  ASSUME LinkTypeOK, NEW t \in Token, Accepts(t), tokens' = AfterUse(t)
  PROVE  /\ tokens' \in [Projects -> [used : 0 .. MaxTokens, issued : 0 .. MaxTokens, handed : BOOLEAN]]
         /\ t.kind = "sync" /\ t.proyectoId \in Projects
         /\ tokens'[t.proyectoId].used = t.n
         /\ \A p \in Projects :
              /\ tokens'[p].issued = tokens[p].issued /\ tokens'[p].handed = tokens[p].handed
              /\ p # t.proyectoId => tokens'[p].used = tokens[p].used
<1>1. t.proyectoId \in Projects /\ t.kind = "sync" /\ t.n \in 0 .. MaxTokens
  BY TokenFields, TokensFields DEF Accepts
<1>. QED
  BY <1>1, TokensFields DEF AfterUse, LinkTypeOK

LEMMA IssueFields ==
  ASSUME LinkTypeOK, NEW p \in Projects, NEW used \in 0 .. MaxTokens, NEW handed \in BOOLEAN,
         CanIssue(p), tokens' = Issued(p, used, handed)
  PROVE  /\ tokens' \in [Projects -> [used : 0 .. MaxTokens, issued : 0 .. MaxTokens, handed : BOOLEAN]]
         /\ tokens'[p].used = used
         /\ tokens'[p].issued = tokens[p].issued + 1
         /\ tokens'[p].handed = handed
         /\ \A q \in Projects : q # p => tokens'[q] = tokens[q]
<1>1. tokens[p].issued + 1 \in 0 .. MaxTokens
  BY TokensFields, LinkAssumption DEF CanIssue
<1>2. [used |-> used, issued |-> tokens[p].issued + 1, handed |-> handed]
        \in [used : 0 .. MaxTokens, issued : 0 .. MaxTokens, handed : BOOLEAN]
  BY <1>1
<1>. QED
  BY <1>2 DEF Issued, LinkTypeOK

LEMMA LinkInitHolds == LinkInit => LinkInv
<1>. SUFFICES ASSUME LinkInit
              PROVE  LinkInv
  OBVIOUS
<1>1. NothingNoted \in Versions
  BY LinkAssumption DEF NothingNoted, Versions
<1>2. /\ installation \in LocalInstallation
      /\ installation.status = "pending" /\ installation.token = None
  BY <1>1, InstallationOf DEF LinkInit, Unlinked
<1>3. /\ \A o \in Operators : operators[o].pc = "idle"
      /\ \A r \in Responses : rotations[r].pc = "idle"
  BY DEF LinkInit, Idle
<1>4. LinkTypeOK
  <2>1. Idle \in LinkCall /\ Idle \in Rotation
    BY DEF Idle, LinkCall, Rotation
  <2>2. operators \in [Operators -> LinkCall] /\ rotations \in [Responses -> Rotation]
    BY <2>1 DEF LinkInit
  <2>3. tokens \in [Projects -> [used : 0 .. MaxTokens, issued : 0 .. MaxTokens, handed : BOOLEAN]]
    BY LinkAssumption DEF LinkInit
  <2>4. /\ reviews \in [Projects -> {"none"} \cup ReviewStatus]
        /\ pending \in BOOLEAN /\ crossed \in BOOLEAN /\ links \in Nat
    BY DEF LinkInit
  <2>5. faults \in 0 .. MaxFaults
    BY LinkAssumption DEF LinkInit
  <2>. QED
    BY <1>2, <2>2, <2>3, <2>4, <2>5 DEF LinkTypeOK
<1>5. CallsBegan
  BY <1>2, <1>3 DEF LinkInit, CallsBegan, WasIssued
<1>6. CallsAgree
  BY <1>2, <1>3 DEF CallsAgree, Polls, Brings
<1>7. TokenServes
  BY <1>2 DEF TokenServes, HoldsSync
<1>. QED
  BY <1>4, <1>5, <1>6, <1>7 DEF LinkInv
----------------------------------------------------------------------------
\* Calls that end or begin, a review that rejects and versions that are noted leave the
\* link as it is.
LEMMA CallsOnlyKeep ==
  ASSUME LinkInv, LinkTypeOK',
         UNCHANGED <<tokens, links>>, crossed => crossed',
         installation'.token = installation.token,
         installation'.status = installation.status,
         installation'.proyectoId = installation.proyectoId,
         \A o \in Operators : operators'[o] = operators[o] \/ operators'[o].pc \in {"idle", "reset"},
         \A r \in Responses : rotations'[r] = rotations[r] \/ rotations'[r].pc = "idle",
         \A p \in Projects : reviews'[p] = "approved" => reviews[p] = "approved"
  PROVE  LinkInv' /\ StayOld
<1> USE DEF LinkInv
<1>1. CallsBegan'
  BY DEF CallsBegan, WasIssued
<1>2. CallsAgree'
  BY DEF CallsAgree, Polls, Brings, HoldsSync, TokenProject
<1>3. TokenServes'
  BY DEF TokenServes, Polls, HoldsSync, Accepts
<1>4. StayOld
  BY DEF StayOld, NotNewer, WasIssued, HoldsSync, TokenProject
<1>. QED
  BY <1>1, <1>2, <1>3, <1>4

\* The cloud notes the use of a token that is not newer than the installation's: a token
\* in use stays accepted.
LEMMA UseKeeps ==
  ASSUME LinkInv, NEW t \in Token, Accepts(t), NotNewer(t), tokens' = AfterUse(t), LinkTypeOK',
         UNCHANGED <<installation, operators, rotations, reviews, links, crossed>>
  PROVE  LinkInv' /\ StayOld
<1> USE DEF LinkInv
<1>1. /\ t.kind = "sync" /\ t.proyectoId \in Projects /\ t # None /\ t.n \in Nat
      /\ tokens'[t.proyectoId].used = t.n
      /\ \A p \in Projects :
           /\ tokens'[p].issued = tokens[p].issued /\ tokens'[p].handed = tokens[p].handed
           /\ p # t.proyectoId => tokens'[p].used = tokens[p].used
  BY UseFields, TokenFields
<1>2. installation.token # None => installation.token \in Token /\ TokenProject \in Projects
  BY InstallationFields
<1>3. CallsBegan'
  <2>1. \A p \in Projects : tokens'[p].used <= tokens'[p].issued
    BY <1>1 DEF CallsBegan, NotNewer, WasIssued
  <2>. QED
    BY <1>1, <1>2, <2>1, TokenFields, LinkCallFields, RotationFields DEF CallsBegan, WasIssued
<1>4. ~crossed /\ HoldsSync /\ t.proyectoId = TokenProject => t.n <= installation.token.n
  BY <1>1 DEF NotNewer
<1>5. ~crossed /\ HoldsSync /\ installation.token.n = tokens[TokenProject].used =>
        tokens'[TokenProject].used = tokens[TokenProject].used
  BY <1>1, <1>2, <1>4, TokensFields DEF Accepts, HoldsSync, CallsBegan
<1>6. UNCHANGED <<TokenProject, HoldsSync>> /\ \A o \in Operators : Polls(o)' = Polls(o) /\ Brings(o)' = Brings(o)
  BY DEF TokenProject, HoldsSync, Polls, Brings
<1>7. CallsAgree'
  BY <1>1, <1>2, <1>5, <1>6, LinkCallFields DEF CallsAgree, HoldsSync, Polls, Brings
<1>8. TokenServes'
  BY <1>1, <1>2, <1>4, <1>5, <1>6, TokensFields, TokenFields DEF TokenServes, Accepts, HoldsSync, TokenProject
<1>9. StayOld
  BY <1>1, <1>2, TokenFields DEF StayOld, NotNewer, WasIssued, HoldsSync, TokenProject
<1>. QED
  BY <1>3, <1>7, <1>8, <1>9

\* A request, an approval or a reset: what is under way belongs to an earlier link.
LEMMA LinkMoves ==
  ASSUME LinkInv, LinkTypeOK', links' = links + 1, crossed => crossed', UNCHANGED rotations,
         \A o \in Operators : operators'[o] = operators[o] \/ operators'[o].pc \in {"idle", "request"},
         \A p \in Projects :
           /\ tokens'[p].used = tokens[p].used
           /\ tokens'[p].issued >= tokens[p].issued
           /\ reviews'[p] = "approved" => tokens'[p].issued > 0,
         \/ ~HoldsSync' /\ installation'.status # "linked"
         \/ /\ UNCHANGED installation
            /\ ~crossed' /\ HoldsSync /\ installation.status = "linked" =>
                 installation.token.n \in {tokens'[TokenProject].used, tokens'[TokenProject].issued}
  PROVE  LinkInv' /\ StayOld
<1> USE DEF LinkInv
<1>1. \A o \in Operators : ~Polls(o)'
  BY LinkCallFields DEF Polls, CallsBegan, LinkTypeOK
<1>2. \A r \in Responses : rotations'[r].pc # "idle" => rotations'[r].link # links'
  BY RotationFields DEF CallsBegan, LinkTypeOK
<1>3. \A t \in Token : WasIssued(t) => WasIssued(t)'
  BY TokenFields, TokensFields DEF WasIssued, LinkTypeOK
<1>4. CallsBegan'
  <2>1. \A p \in Projects :
          /\ tokens'[p].used <= tokens'[p].issued
          /\ reviews'[p] = "approved" => tokens'[p].issued > 0
    BY TokensFields DEF CallsBegan, LinkTypeOK
  <2>2. /\ installation'.status = "linked" => installation'.proyectoId \in Projects
        /\ WasIssued(installation.token)'
    BY <1>3, InstallationFields DEF CallsBegan, WasIssued, HoldsSync
  <2>3. \A o \in Operators : operators'[o].pc = "status" =>
          /\ operators'[o].link <= links'
          /\ WasIssued(operators[o].token)'
          /\ operators'[o].token # None =>
               /\ operators'[o].token.kind = "sync"
               /\ operators'[o].token.proyectoId = operators'[o].proyectoId
    <3>1. SUFFICES ASSUME NEW o \in Operators, operators'[o].pc = "status"
                   PROVE  /\ operators'[o].link <= links'
                          /\ WasIssued(operators[o].token)'
                          /\ operators'[o].token # None =>
                               /\ operators'[o].token.kind = "sync"
                               /\ operators'[o].token.proyectoId = operators'[o].proyectoId
      OBVIOUS
    <3>2. operators'[o] = operators[o] /\ operators[o].pc = "status"
      BY <3>1
    <3>3. operators[o].link \in Nat /\ operators[o].token \in Token \cup {None}
      BY <3>2, LinkCallFields
    <3>4. WasIssued(operators[o].token)'
      BY <3>2, <3>3, <1>3 DEF CallsBegan, WasIssued
    <3>. QED
      BY <3>2, <3>3, <3>4 DEF CallsBegan, LinkTypeOK
  <2>4. \A r \in Responses : rotations'[r].pc # "idle" =>
          /\ rotations'[r].link <= links'
          /\ WasIssued(rotations[r].token)'
          /\ \A q \in Responses : rotations'[q].pc # "idle" => q = r
    <3>1. SUFFICES ASSUME NEW r \in Responses, rotations[r].pc # "idle"
                   PROVE  /\ rotations[r].link <= links'
                          /\ WasIssued(rotations[r].token)'
                          /\ \A q \in Responses : rotations[q].pc # "idle" => q = r
      OBVIOUS
    <3>2. rotations[r].token \in Token /\ rotations[r].link \in Nat
      BY <3>1, RotationFields
    <3>3. WasIssued(rotations[r].token)'
      BY <3>1, <3>2, <1>3 DEF CallsBegan, WasIssued
    <3>. QED
      BY <3>1, <3>2, <3>3 DEF CallsBegan, LinkTypeOK
  <2>. QED
    BY <2>1, <2>2, <2>3, <2>4 DEF CallsBegan
<1>5. CallsAgree'
  BY <1>1, <1>2 DEF CallsAgree, Brings, TokenProject
<1>6. TokenServes'
  BY <1>1, InstallationFields DEF TokenServes, Accepts, HoldsSync, TokenProject
<1>7. StayOld
  BY <1>3 DEF StayOld, NotNewer, HoldsSync, TokenProject
<1>. QED
  BY <1>4, <1>5, <1>6, <1>7

----------------------------------------------------------------------------
\* The actions of the link, one by one.

LEMMA OtherChangesKeep ==
  ASSUME LinkInv,
         \/ LocalChange
         \/ \E o \in Operators : ResetRead(o) \/ AnswerLost(o)
         \/ \E r \in Responses : RotateFails(r)
         \/ \E p \in Projects : CloudRejects(p)
  PROVE  LinkInv' /\ StayOld
<1> USE DEF LinkInv
<1>1. /\ UNCHANGED <<tokens, links, crossed, installation>>
      /\ \A o \in Operators : operators'[o] = operators[o] \/ operators'[o].pc \in {"idle", "reset"}
      /\ \A r \in Responses : rotations'[r] = rotations[r] \/ rotations'[r].pc = "idle"
      /\ \A p \in Projects : reviews'[p] = "approved" => reviews[p] = "approved"
  BY DEF LinkTypeOK, LocalChange, ResetRead, AnswerLost, RotateFails, CloudRejects, Idle
<1>2. LinkTypeOK'
  <2>1. Idle \in LinkCall /\ [pc |-> "reset"] \in LinkCall /\ Idle \in Rotation
    BY DEF Idle, LinkCall, Rotation
  <2>2. operators' \in [Operators -> LinkCall]
    BY <2>1 DEF LinkTypeOK, LocalChange, ResetRead, AnswerLost, RotateFails, CloudRejects
  <2>3. rotations' \in [Responses -> Rotation]
    BY <2>1 DEF LinkTypeOK, LocalChange, ResetRead, AnswerLost, RotateFails, CloudRejects
  <2>4. reviews' \in [Projects -> {"none"} \cup ReviewStatus] /\ pending' \in BOOLEAN
    BY DEF LinkTypeOK, ReviewStatus, LocalChange, ResetRead, AnswerLost, RotateFails, CloudRejects
  <2>5. faults' \in 0 .. MaxFaults
    <3>1. CASE \E r \in Responses : RotateFails(r)
      BY <3>1, LinkAssumption DEF LinkTypeOK, RotateFails
    <3>2. CASE LocalChange \/ \E p \in Projects : CloudRejects(p)
      BY <3>2 DEF LinkTypeOK, LocalChange, CloudRejects
    <3>3. CASE \E o \in Operators : ResetRead(o) \/ AnswerLost(o)
      BY <3>3, LinkAssumption DEF LinkTypeOK, ResetRead, AnswerLost
    <3>. QED
      BY <3>1, <3>2, <3>3
  <2>. QED
    BY <1>1, <2>2, <2>3, <2>4, <2>5 DEF LinkTypeOK
<1>. QED
  BY <1>1, <1>2, CallsOnlyKeep

LEMMA OutboxSendsKeeps ==
  ASSUME LinkInv, OutboxSends
  PROVE  LinkInv' /\ StayOld
<1>1. installation.token \in Token /\ Accepts(installation.token) /\ NotNewer(installation.token)
  <2>1. installation.token \in Token
    BY InstallationFields DEF LinkInv, OutboxSends, HasCredentials
  <2>. QED
    BY <2>1, TokenFields DEF LinkInv, OutboxSends, NotNewer, CallsBegan
<1>2. LinkTypeOK'
  BY <1>1, UseFields DEF LinkInv, LinkTypeOK, OutboxSends
<1>. QED
  BY <1>1, <1>2, UseKeeps DEF OutboxSends

\* What an operator's call is when it began or ended.
LEMMA OperatorsOf ==
  ASSUME LinkTypeOK, NEW o \in Operators, NEW call \in LinkCall,
         operators' = [operators EXCEPT ![o] = call]
  PROVE  /\ operators' \in [Operators -> LinkCall]
         /\ operators'[o] = call
         /\ \A q \in Operators : q # o => operators'[q] = operators[q]
BY DEF LinkTypeOK

LEMMA RotationsOf ==
  ASSUME LinkTypeOK, NEW r \in Responses, NEW rotation \in Rotation,
         rotations' = [rotations EXCEPT ![r] = rotation]
  PROVE  /\ rotations' \in [Responses -> Rotation]
         /\ rotations'[r] = rotation
         /\ \A q \in Responses : q # r => rotations'[q] = rotations[q]
BY DEF LinkTypeOK

LEMMA IdleCalls == Idle \in LinkCall /\ Idle \in Rotation /\ Idle.pc = "idle"
BY DEF Idle, LinkCall, Rotation

LEMMA ResetWriteKeeps ==
  ASSUME LinkInv, NEW o \in Operators, ResetWrite(o)
  PROVE  LinkInv' /\ StayOld
<1>1. NothingNoted \in Versions
  BY LinkAssumption DEF NothingNoted, Versions
<1>2. /\ installation' \in LocalInstallation
      /\ installation'.status = "pending" /\ installation'.token = None
  BY <1>1, InstallationOf DEF ResetWrite, Unlinked
<1>3. /\ operators' \in [Operators -> LinkCall]
      /\ \A q \in Operators : operators'[q] = operators[q] \/ operators'[q].pc \in {"idle", "request"}
  BY IdleCalls, OperatorsOf DEF LinkInv, ResetWrite
<1>4. links \in Nat /\ links' = links + 1 /\ UNCHANGED <<pending, rotations, reviews, tokens, crossed, faults>>
  BY DEF LinkInv, LinkTypeOK, ResetWrite
<1>5. LinkTypeOK'
  BY <1>2, <1>3, <1>4 DEF LinkInv, LinkTypeOK
<1>6. ~HoldsSync' /\ installation'.status # "linked"
  BY <1>2 DEF HoldsSync
<1>7. \A p \in Projects :
        /\ tokens'[p].used = tokens[p].used
        /\ tokens'[p].issued >= tokens[p].issued
        /\ reviews'[p] = "approved" => tokens'[p].issued > 0
  BY <1>4, TokensFields DEF LinkInv, CallsBegan
<1>. QED
  BY <1>3, <1>4, <1>5, <1>6, <1>7, LinkMoves

LEMMA RequestWriteKeeps ==
  ASSUME LinkInv, NEW o \in Operators, RequestWrite(o)
  PROVE  LinkInv' /\ StayOld
<1>1. /\ operators[o].proyectoId \in Projects
      /\ operators[o].status \in ReviewStatus
      /\ installation.noted \in Versions
  BY LinkCallFields, InstallationFields DEF LinkInv, RequestWrite
<1>2. /\ [kind |-> "link", proyectoId |-> operators[o].proyectoId] \in Token
      /\ [kind |-> "link", proyectoId |-> operators[o].proyectoId].kind = "link"
  BY <1>1 DEF Token
<1>3. /\ installation' \in LocalInstallation
      /\ installation'.status \in ReviewStatus
      /\ installation'.token.kind = "link"
  BY <1>1, <1>2, InstallationOf DEF RequestWrite, Requested, ReviewStatus
<1>4. /\ operators' \in [Operators -> LinkCall]
      /\ \A q \in Operators : operators'[q] = operators[q] \/ operators'[q].pc \in {"idle", "request"}
  BY IdleCalls, OperatorsOf DEF LinkInv, RequestWrite
<1>5. /\ links \in Nat /\ links' = links + 1 /\ UNCHANGED <<pending, rotations, reviews, tokens, crossed, faults>>
  BY DEF LinkInv, LinkTypeOK, RequestWrite
<1>6. LinkTypeOK'
  BY <1>3, <1>4, <1>5 DEF LinkInv, LinkTypeOK
<1>7. ~HoldsSync' /\ installation'.status # "linked"
  BY <1>3 DEF HoldsSync, ReviewStatus
<1>8. \A p \in Projects :
        /\ tokens'[p].used = tokens[p].used
        /\ tokens'[p].issued >= tokens[p].issued
        /\ reviews'[p] = "approved" => tokens'[p].issued > 0
  BY <1>5, TokensFields DEF LinkInv, CallsBegan
<1>. QED
  BY <1>4, <1>5, <1>6, <1>7, <1>8, LinkMoves

\* The next token is issued, and a token that was never used is given up.
LEMMA IssueMoves ==
  ASSUME LinkInv, NEW p \in Projects, NEW handed \in BOOLEAN,
         CanIssue(p), tokens' = Issued(p, tokens[p].used, handed),
         crossed \/ HoldsUnused(p) => crossed', UNCHANGED installation
  PROVE  /\ tokens' \in [Projects -> [used : 0 .. MaxTokens, issued : 0 .. MaxTokens, handed : BOOLEAN]]
         /\ \A q \in Projects :
              /\ tokens'[q].used = tokens[q].used
              /\ tokens'[q].issued >= tokens[q].issued
         /\ tokens'[p].issued > 0
         /\ ~crossed' /\ HoldsSync /\ installation.status = "linked" =>
              installation.token.n \in {tokens'[TokenProject].used, tokens'[TokenProject].issued}
<1>1. tokens[p].used \in 0 .. MaxTokens
  BY TokensFields DEF LinkInv
<1>2. /\ tokens' \in [Projects -> [used : 0 .. MaxTokens, issued : 0 .. MaxTokens, handed : BOOLEAN]]
      /\ tokens'[p].used = tokens[p].used
      /\ tokens'[p].issued = tokens[p].issued + 1
      /\ \A q \in Projects : q # p => tokens'[q] = tokens[q]
  BY <1>1, IssueFields DEF LinkInv
<1>3. ASSUME ~crossed', HoldsSync, installation.status = "linked"
      PROVE  installation.token.n \in {tokens'[TokenProject].used, tokens'[TokenProject].issued}
  <2>1. /\ installation.token \in Token /\ TokenProject \in Projects
        /\ TokenProject = installation.token.proyectoId
        /\ installation.proyectoId \in Projects
        /\ Accepts(installation.token)
    BY <1>3, InstallationFields DEF LinkInv, HoldsSync, TokenProject, CallsBegan, TokenServes
  <2>2. CASE TokenProject = p
    BY <1>2, <1>3, <2>1, <2>2, LinkAssumption DEF HoldsUnused, HasCredentials, HoldsSync
  <2>3. CASE TokenProject # p
    BY <1>2, <2>1, <2>3 DEF Accepts
  <2>. QED
    BY <2>2, <2>3
<1>4. tokens[p].issued \in Nat
  BY TokensFields DEF LinkInv
<1>5. tokens'[p].issued > 0
  BY <1>2, <1>4
<1>6. \A q \in Projects :
        /\ tokens'[q].used = tokens[q].used
        /\ tokens'[q].issued >= tokens[q].issued
  <2>1. SUFFICES ASSUME NEW q \in Projects
                 PROVE  /\ tokens'[q].used = tokens[q].used
                        /\ tokens'[q].issued >= tokens[q].issued
    OBVIOUS
  <2>2. tokens[q].issued \in Nat
    BY TokensFields DEF LinkInv
  <2>3. CASE q = p
    BY <1>2, <1>4, <2>3
  <2>4. CASE q # p
    BY <1>2, <2>2, <2>4
  <2>. QED
    BY <2>3, <2>4
<1>. QED
  BY <1>2, <1>3, <1>6, <1>5

LEMMA RequestSendKeeps ==
  ASSUME LinkInv, NEW o \in Operators, NEW p \in Projects, RequestSend(o, p)
  PROVE  LinkInv' /\ StayOld
<1>1. /\ tokens' \in [Projects -> [used : 0 .. MaxTokens, issued : 0 .. MaxTokens, handed : BOOLEAN]]
      /\ \A q \in Projects :
           /\ tokens'[q].used = tokens[q].used
           /\ tokens'[q].issued >= tokens[q].issued
           /\ reviews'[q] = "approved" => tokens'[q].issued > 0
      /\ crossed => crossed'
      /\ crossed' \in BOOLEAN
      /\ ~crossed' /\ HoldsSync /\ installation.status = "linked" =>
           installation.token.n \in {tokens'[TokenProject].used, tokens'[TokenProject].issued}
      /\ reviews' \in [Projects -> {"none"} \cup ReviewStatus]
      /\ reviews'[p] \in ReviewStatus
  <2>1. CASE reviews' = [reviews EXCEPT ![p] = "requested"] /\ UNCHANGED <<tokens, crossed>>
    <3>1. /\ \A q \in Projects : reviews'[q] = "approved" => reviews[q] = "approved"
          /\ reviews' \in [Projects -> {"none"} \cup ReviewStatus]
          /\ reviews'[p] \in ReviewStatus
      BY <2>1 DEF LinkInv, LinkTypeOK, ReviewStatus
    <3>2. ~crossed /\ HoldsSync /\ installation.status = "linked" =>
            installation.token.n \in {tokens[TokenProject].used, tokens[TokenProject].issued}
      BY DEF LinkInv, TokenServes, Accepts, HoldsSync, TokenProject
    <3>. QED
      BY <2>1, <3>1, <3>2, TokensFields DEF LinkInv, LinkTypeOK, CallsBegan
  <2>2. CASE /\ reviews[p] = "approved" /\ CanIssue(p) /\ tokens' = Issued(p, tokens[p].used, FALSE)
             /\ crossed' = (crossed \/ HoldsUnused(p)) /\ UNCHANGED reviews
    <3>1. /\ tokens' \in [Projects -> [used : 0 .. MaxTokens, issued : 0 .. MaxTokens, handed : BOOLEAN]]
          /\ \A q \in Projects :
               /\ tokens'[q].used = tokens[q].used
               /\ tokens'[q].issued >= tokens[q].issued
          /\ ~crossed' /\ HoldsSync /\ installation.status = "linked" =>
               installation.token.n \in {tokens'[TokenProject].used, tokens'[TokenProject].issued}
      BY <2>2, IssueMoves DEF RequestSend
    <3>2. \A q \in Projects : reviews'[q] = "approved" => tokens'[q].issued > 0
      <4>1. SUFFICES ASSUME NEW q \in Projects, reviews[q] = "approved"
                     PROVE  tokens'[q].issued > 0
        BY <2>2
      <4>2. tokens[q].issued > 0 /\ tokens[q].issued \in Nat
        BY <4>1, TokensFields DEF LinkInv, CallsBegan
      <4>3. tokens'[q].issued >= tokens[q].issued /\ tokens'[q].issued \in 0 .. MaxTokens
        BY <3>1
      <4>. QED
        BY <4>2, <4>3, LinkAssumption
    <3>3. crossed' \in BOOLEAN /\ (crossed => crossed')
      BY <2>2
    <3>. QED
      BY <2>2, <3>1, <3>2, <3>3 DEF LinkInv, LinkTypeOK, ReviewStatus
  <2>. QED
    BY <2>1, <2>2 DEF RequestSend
<1>2. [pc |-> "request", proyectoId |-> p, status |-> reviews'[p]] \in LinkCall
  BY <1>1 DEF LinkCall
<1>3. operators' = [operators EXCEPT ![o] = [pc |-> "request", proyectoId |-> p, status |-> reviews'[p]]]
  BY DEF RequestSend
<1>4. /\ operators' \in [Operators -> LinkCall]
      /\ \A q \in Operators : operators'[q] = operators[q] \/ operators'[q].pc \in {"idle", "request"}
  BY <1>2, <1>3 DEF LinkInv, LinkTypeOK
<1>5. /\ links \in Nat /\ links' = links + 1
      /\ UNCHANGED <<installation, pending, rotations, faults>>
  BY DEF LinkInv, LinkTypeOK, RequestSend
<1>6. LinkTypeOK'
  BY <1>1, <1>4, <1>5 DEF LinkInv, LinkTypeOK
<1>. QED
  BY <1>1, <1>4, <1>5, <1>6, LinkMoves

LEMMA CloudApprovesKeeps ==
  ASSUME LinkInv, NEW p \in Projects, CloudApproves(p)
  PROVE  LinkInv' /\ StayOld
<1>1. /\ tokens' \in [Projects -> [used : 0 .. MaxTokens, issued : 0 .. MaxTokens, handed : BOOLEAN]]
      /\ \A q \in Projects :
           /\ tokens'[q].used = tokens[q].used
           /\ tokens'[q].issued >= tokens[q].issued
      /\ tokens'[p].issued > 0
      /\ ~crossed' /\ HoldsSync /\ installation.status = "linked" =>
           installation.token.n \in {tokens'[TokenProject].used, tokens'[TokenProject].issued}
  BY IssueMoves DEF CloudApproves
<1>2. /\ reviews' \in [Projects -> {"none"} \cup ReviewStatus]
      /\ \A q \in Projects : q # p => reviews'[q] = reviews[q]
  BY DEF CloudApproves, LinkInv, LinkTypeOK, ReviewStatus
<1>3. \A q \in Projects : reviews'[q] = "approved" => tokens'[q].issued > 0
  <2>1. SUFFICES ASSUME NEW q \in Projects, q # p, reviews[q] = "approved"
                 PROVE  tokens'[q].issued > 0
    BY <1>1, <1>2
  <2>2. tokens[q].issued > 0 /\ tokens[q].issued \in Nat
    BY <2>1, TokensFields DEF LinkInv, CallsBegan
  <2>3. tokens'[q].issued >= tokens[q].issued /\ tokens'[q].issued \in 0 .. MaxTokens
    BY <1>1
  <2>. QED
    BY <2>2, <2>3, LinkAssumption
<1>4. /\ links \in Nat /\ links' = links + 1
      /\ crossed' \in BOOLEAN /\ (crossed => crossed')
      /\ UNCHANGED <<installation, pending, operators, rotations, faults>>
  BY DEF LinkInv, LinkTypeOK, CloudApproves
<1>5. LinkTypeOK'
  BY <1>1, <1>2, <1>4 DEF LinkInv, LinkTypeOK
<1>. QED
  BY <1>1, <1>3, <1>4, <1>5, LinkMoves

\* A poll asks with the link token, so that the installation holds no sync token.
LEMMA StatusAskKeeps ==
  ASSUME LinkInv, NEW o \in Operators, StatusAsk(o)
  PROVE  LinkInv' /\ StayOld
<1> USE DEF LinkInv
<1> DEFINE p     == installation.token.proyectoId
           hands == reviews[p] = "approved" /\ ~tokens[p].handed
           given == IF hands THEN [kind |-> "sync", proyectoId |-> p, n |-> tokens[p].issued] ELSE None
           call  == [pc |-> "status", proyectoId |-> p, status |-> reviews[p], token |-> given, link |-> links]
<1>1. /\ installation.token \in Token /\ installation.token # None /\ p \in Projects /\ p = TokenProject
      /\ ~HoldsSync /\ installation.status # "linked"
  BY InstallationFields, TokenFields DEF StatusAsk, HoldsSync, TokenProject
<1>2. /\ reviews[p] \in ReviewStatus
      /\ tokens' = IF hands THEN [tokens EXCEPT ![p].handed = TRUE] ELSE tokens
      /\ operators' = [operators EXCEPT ![o] = call]
      /\ links \in Nat
      /\ UNCHANGED <<installation, pending, rotations, reviews, links, crossed, faults>>
  BY <1>1 DEF StatusAsk, LinkTypeOK
<1>3. /\ given \in Token \cup {None}
      /\ given # None => hands /\ given.kind = "sync" /\ given.proyectoId = p /\ given.n = tokens[p].issued
  <2>1. CASE hands
    <3>1. tokens[p].issued \in 1 .. MaxTokens
      BY <1>1, <2>1, TokensFields DEF CallsBegan
    <3>2. [kind |-> "sync", proyectoId |-> p, n |-> tokens[p].issued] \in Token
      BY <1>1, <3>1 DEF Token
    <3>. QED
      BY <2>1, <3>2
  <2>2. CASE ~hands
    BY <2>2
  <2>. QED
    BY <2>1, <2>2
<1>4. /\ call \in LinkCall
      /\ call.pc = "status" /\ call.proyectoId = p /\ call.token = given /\ call.link = links
  BY <1>1, <1>2, <1>3 DEF LinkCall
<1>5. /\ operators' \in [Operators -> LinkCall]
      /\ operators'[o] = call
      /\ \A q \in Operators : q # o => operators'[q] = operators[q]
  BY <1>2, <1>4, OperatorsOf
<1>6. /\ tokens' \in [Projects -> [used : 0 .. MaxTokens, issued : 0 .. MaxTokens, handed : BOOLEAN]]
      /\ hands => tokens'[p].handed
      /\ \A q \in Projects :
           /\ tokens'[q].used = tokens[q].used
           /\ tokens'[q].issued = tokens[q].issued
           /\ tokens[q].handed => tokens'[q].handed
  BY <1>1, <1>2 DEF LinkTypeOK
<1> HIDE DEF p, hands, given, call
<1>7. LinkTypeOK'
  BY <1>2, <1>5, <1>6 DEF LinkTypeOK
<1>8. \A t \in Token : WasIssued(t) => WasIssued(t)'
  BY <1>6, TokenFields DEF WasIssued
<1>9. CallsBegan'
  <2>1. /\ \A q \in Projects :
             /\ tokens'[q].used <= tokens'[q].issued
             /\ reviews'[q] = "approved" => tokens'[q].issued > 0
        /\ installation'.status = "linked" => installation'.proyectoId \in Projects
        /\ WasIssued(installation.token)'
    BY <1>1, <1>2, <1>6, <1>8 DEF CallsBegan, WasIssued
  <2>2. \A q \in Operators : operators'[q].pc = "status" =>
          /\ operators'[q].link <= links'
          /\ WasIssued(operators[q].token)'
          /\ operators'[q].token # None =>
               /\ operators'[q].token.kind = "sync"
               /\ operators'[q].token.proyectoId = operators'[q].proyectoId
    <3>1. SUFFICES ASSUME NEW q \in Operators, operators'[q].pc = "status"
                   PROVE  /\ operators'[q].link <= links'
                          /\ WasIssued(operators[q].token)'
                          /\ operators'[q].token # None =>
                               /\ operators'[q].token.kind = "sync"
                               /\ operators'[q].token.proyectoId = operators'[q].proyectoId
      OBVIOUS
    <3>2. CASE q = o
      <4>1. WasIssued(operators[o].token)'
        BY <1>1, <1>3, <1>4, <1>5, <1>6, TokensFields DEF WasIssued
      <4>. QED
        BY <1>2, <1>3, <1>4, <1>5, <3>2, <4>1
    <3>3. CASE q # o
      <4>1. operators'[q] = operators[q] /\ operators[q].token \in Token \cup {None}
        BY <1>5, <3>1, <3>3, LinkCallFields
      <4>2. WasIssued(operators[q].token)'
        BY <1>8, <3>1, <4>1 DEF CallsBegan, WasIssued
      <4>. QED
        BY <1>2, <3>1, <4>1, <4>2 DEF CallsBegan
    <3>. QED
      BY <3>2, <3>3
  <2>3. \A r \in Responses : rotations'[r].pc # "idle" =>
          /\ rotations'[r].link <= links'
          /\ WasIssued(rotations[r].token)'
          /\ \A q \in Responses : rotations'[q].pc # "idle" => q = r
    BY <1>2, <1>8, RotationFields DEF CallsBegan, WasIssued
  <2>. QED
    BY <2>1, <2>2, <2>3 DEF CallsBegan
<1>10. CallsAgree'
  <2>1. SUFFICES ASSUME ~crossed
                 PROVE  CallsAgree'
    BY <1>2 DEF CallsAgree
  <2>2. TokenProject' = TokenProject /\ ~HoldsSync' /\ installation'.status # "linked"
    BY <1>1, <1>2 DEF TokenProject, HoldsSync
  <2>3. \A q \in Operators : Polls(q)' => operators'[q].proyectoId = TokenProject
    BY <1>1, <1>2, <1>4, <1>5, <2>1 DEF CallsAgree, Polls
  <2>4. \A q \in Operators : q # o /\ Brings(q)' => Brings(q)
    BY <1>2, <1>5 DEF Brings, Polls
  <2>5. \A q \in Operators : Brings(q)' =>
          /\ tokens'[TokenProject].handed
          /\ operators'[q].token.n = tokens'[TokenProject].issued
          /\ \A other \in Operators : Brings(other)' => other = q
    <3>1. CASE hands
      <4>1. \A q \in Operators : ~Brings(q)
        BY <1>1, <2>1, <3>1 DEF CallsAgree, hands
      <4>. QED
        BY <1>1, <1>3, <1>4, <1>5, <1>6, <2>4, <3>1, <4>1 DEF Brings
    <3>2. CASE ~hands
      <4>1. ~Brings(o)'
        BY <1>3, <1>4, <1>5, <3>2 DEF Brings
      <4>. QED
        BY <1>1, <1>5, <1>6, <2>1, <2>4, <4>1 DEF CallsAgree
    <3>. QED
      BY <3>1, <3>2
  <2>6. \A r \in Responses : rotations'[r].pc # "idle" /\ rotations'[r].link = links' =>
          /\ rotations'[r].token.proyectoId = TokenProject
          /\ rotations'[r].pc = "ask" /\ rotations'[r].token.kind = "sync" =>
               rotations'[r].token = installation'.token
          /\ rotations'[r].pc # "store"
    BY <1>1, <1>2, <2>1 DEF CallsAgree
  <2>. QED
    BY <2>2, <2>3, <2>5, <2>6 DEF CallsAgree
<1>11. TokenServes'
  BY <1>1, <1>2 DEF TokenServes, HoldsSync
<1>12. StayOld
  BY <1>1, <1>2, <1>8 DEF StayOld, NotNewer, HoldsSync, TokenProject
<1>. QED
  BY <1>7, <1>9, <1>10, <1>11, <1>12

\* The answer of a poll links the installation with the token it brings, or keeps the
\* one there is.
LEMMA StatusWriteKeeps ==
  ASSUME LinkInv, NEW o \in Operators, StatusWrite(o)
  PROVE  LinkInv' /\ StayOld
<1> USE DEF LinkInv
<1> DEFINE call == operators[o]
           brings == call.status = "approved" /\ call.token # None
<1>1. /\ call.pc = "status" /\ call.proyectoId \in Projects /\ call.status \in ReviewStatus
      /\ call.token \in Token \cup {None} /\ call.link \in Nat
      /\ call.token # None => call.token.kind = "sync" /\ call.token.proyectoId = call.proyectoId
      /\ WasIssued(call.token)
  BY LinkCallFields DEF StatusWrite, CallsBegan
<1>2. /\ crossed' = (crossed \/ call.link # links)
      /\ operators' = [operators EXCEPT ![o] = Idle]
      /\ UNCHANGED <<pending, rotations, reviews, tokens, links, faults>>
  BY DEF StatusWrite
<1>3. /\ installation' \in LocalInstallation
      /\ installation'.token = IF brings THEN call.token ELSE installation.token
      /\ installation'.status = "linked" => installation'.proyectoId = call.proyectoId
  <2>1. /\ installation.token \in Token \cup {None} /\ installation.noted \in Versions
    BY InstallationFields
  <2>2. CASE call.status = "approved"
    <3>1. (IF call.token = None THEN installation.token ELSE call.token) \in Token \cup {None}
      BY <1>1, <2>1
    <3>2. installation' = Installation("linked", call.proyectoId,
                            IF call.token = None THEN installation.token ELSE call.token,
                            installation.noted)
      BY <2>2 DEF StatusWrite, Linked
    <3>. QED
      BY <1>1, <2>1, <2>2, <3>1, <3>2, InstallationOf
  <2>3. CASE call.status # "approved"
    <3>1. PICK status \in {"rejected", "requested"} :
               installation' = Installation(status, None, installation.token, installation.noted)
      BY <2>3 DEF StatusWrite, Reviewed
    <3>. QED
      BY <2>1, <2>3, <3>1, InstallationOf
  <2>. QED
    BY <2>2, <2>3
<1>4. /\ operators' \in [Operators -> LinkCall]
      /\ operators'[o] = Idle /\ Idle.pc = "idle"
      /\ \A q \in Operators : q # o => operators'[q] = operators[q]
  BY <1>2, IdleCalls, OperatorsOf
<1> HIDE DEF call
<1>5. LinkTypeOK'
  BY <1>2, <1>3, <1>4 DEF LinkTypeOK
<1>6. CallsBegan'
  <2>1. WasIssued(installation.token)'
    BY <1>1, <1>2, <1>3 DEF CallsBegan, WasIssued
  <2>. QED
    BY <1>1, <1>2, <1>3, <1>4, <2>1 DEF CallsBegan, WasIssued
<1>7. ASSUME ~crossed'
      PROVE  /\ ~crossed /\ Polls(o) /\ call.proyectoId = TokenProject
             /\ TokenProject' = TokenProject
             /\ brings => Brings(o) /\ HoldsSync'
             /\ ~brings => HoldsSync' = HoldsSync
             /\ \A q \in Operators : Polls(q)' => Polls(q)
  <2>1. ~crossed /\ Polls(o)
    BY <1>1, <1>2, <1>7 DEF Polls, call
  <2>2. call.proyectoId = TokenProject
    BY <2>1 DEF CallsAgree, call
  <2>3. \A q \in Operators : Polls(q)' => Polls(q)
    BY <1>2, <1>4 DEF Polls
  <2>4. TokenProject' = TokenProject
    BY <1>1, <1>3, <2>2 DEF TokenProject
  <2>. QED
    BY <1>1, <1>3, <2>1, <2>2, <2>3, <2>4 DEF Brings, HoldsSync, call
<1>8. CallsAgree'
  <2>1. SUFFICES ASSUME ~crossed'
                 PROVE  CallsAgree'
    BY DEF CallsAgree
  <2>2. installation'.status = "linked" => installation'.proyectoId = TokenProject'
    BY <1>3, <1>7, <2>1
  <2>3. \A q \in Operators : Polls(q)' => operators'[q].proyectoId = TokenProject'
    BY <1>4, <1>7, <2>1 DEF CallsAgree, Polls
  <2>4. \A q \in Operators : Brings(q)' => Brings(q) /\ q # o
    BY <1>2, <1>4 DEF Brings, Polls
  <2>5. CASE brings
    <3>1. ~HoldsSync /\ \A q \in Operators : ~Brings(q)'
      BY <1>7, <2>1, <2>4, <2>5 DEF CallsAgree
    <3>2. \A r \in Responses : rotations'[r].pc # "idle" /\ rotations'[r].link = links' =>
            /\ rotations'[r].token.proyectoId = TokenProject'
            /\ ~(rotations'[r].pc = "ask" /\ rotations'[r].token.kind = "sync")
            /\ rotations'[r].pc # "store"
      BY <1>2, <1>7, <2>1, <3>1, RotationFields, TokenFields DEF CallsAgree, HoldsSync
    <3>. QED
      BY <2>2, <2>3, <3>1, <3>2 DEF CallsAgree
  <2>6. CASE ~brings
    <3>1. installation'.token = installation.token
      BY <1>3, <2>6
    <3>. QED
      BY <1>2, <1>4, <1>7, <2>1, <2>2, <2>3, <2>4, <2>6, <3>1 DEF CallsAgree
  <2>. QED
    BY <2>5, <2>6
<1>9. TokenServes'
  <2>1. SUFFICES ASSUME ~crossed', HoldsSync'
                 PROVE  Accepts(installation.token)'
    BY DEF TokenServes
  <2>2. CASE brings
    BY <1>1, <1>2, <1>3, <1>7, <2>1, <2>2 DEF CallsAgree, Accepts, call
  <2>3. CASE ~brings
    BY <1>2, <1>3, <1>7, <2>1, <2>3 DEF TokenServes, Accepts
  <2>. QED
    BY <2>2, <2>3
<1>10. StayOld
  <2>1. SUFFICES ASSUME NEW t \in Token, NotNewer(t), ~crossed', HoldsSync', t.kind = "sync",
                        t.proyectoId = TokenProject'
                 PROVE  t.n <= installation'.token.n
    BY <1>2, TokenFields DEF StayOld, NotNewer, WasIssued
  <2>2. CASE brings
    BY <1>3, <1>7, <2>1, <2>2, TokenFields DEF CallsAgree, NotNewer, WasIssued, call
  <2>3. CASE ~brings
    BY <1>3, <1>7, <2>1, <2>3 DEF NotNewer
  <2>. QED
    BY <2>2, <2>3
<1>. QED
  BY <1>5, <1>6, <1>8, <1>9, <1>10

----------------------------------------------------------------------------
\* The rotation of the token.

LEMMA RotateStartKeeps ==
  ASSUME LinkInv, NEW r \in Responses, RotateStart(r)
  PROVE  LinkInv' /\ StayOld
<1> USE DEF LinkInv
<1> DEFINE ask == [pc |-> "ask", token |-> installation.token, link |-> links]
<1>1. /\ \A q \in Responses : rotations[q].pc = "idle"
      /\ installation.token \in Token /\ links \in Nat
      /\ TokenProject = installation.token.proyectoId
      /\ rotations' = [rotations EXCEPT ![r] = ask]
      /\ UNCHANGED <<installation, pending, operators, reviews, tokens, links, crossed, faults>>
  BY InstallationFields DEF RotateStart, MayRotate, HasCredentials, LinkTypeOK, TokenProject
<1>2. /\ ask \in Rotation
      /\ ask.pc = "ask" /\ ask.token = installation.token /\ ask.link = links
  BY <1>1 DEF Rotation
<1>3. /\ rotations' \in [Responses -> Rotation]
      /\ rotations'[r] = ask
      /\ \A q \in Responses : q # r => rotations'[q].pc = "idle"
  BY <1>1, <1>2, RotationsOf
<1> HIDE DEF ask
<1>4. LinkTypeOK'
  BY <1>1, <1>3 DEF LinkTypeOK
<1>5. CallsBegan'
  BY <1>1, <1>2, <1>3 DEF CallsBegan, WasIssued
<1>6. CallsAgree'
  BY <1>1, <1>2, <1>3 DEF CallsAgree, Polls, Brings, HoldsSync, TokenProject
<1>7. TokenServes'
  BY <1>1 DEF TokenServes, Polls, HoldsSync, Accepts
<1>8. StayOld
  BY <1>1 DEF StayOld, NotNewer, WasIssued, HoldsSync, TokenProject
<1>. QED
  BY <1>4, <1>5, <1>6, <1>7, <1>8

\* The cloud issues the next token, and the one the installation holds was used last.
LEMMA RotateAskKeeps ==
  ASSUME LinkInv, NEW r \in Responses, RotateAsk(r)
  PROVE  LinkInv' /\ StayOld
<1> USE DEF LinkInv
<1> DEFINE t    == rotations[r].token
           p    == t.proyectoId
           next == NewToken(p)
           kept == [pc |-> "store", token |-> next, link |-> rotations[r].link]
<1>1. /\ rotations[r].pc = "ask" /\ t \in Token /\ t # None /\ p \in Projects /\ t.kind = "sync"
      /\ t.n \in 0 .. MaxTokens /\ t.n \in {tokens[p].used, tokens[p].issued}
      /\ rotations[r].link \in Nat /\ CanIssue(p)
      /\ tokens[p].handed \in BOOLEAN
  BY RotationFields, TokenFields, TokensFields DEF RotateAsk, Accepts
<1>2. /\ tokens' = Issued(p, t.n, tokens[p].handed)
      /\ rotations' = [rotations EXCEPT ![r] = kept]
      /\ crossed' = (crossed \/ rotations[r].link # links)
      /\ UNCHANGED <<installation, pending, operators, reviews, links, faults>>
  BY DEF RotateAsk
<1> HIDE DEF t
<1>3. /\ tokens' \in [Projects -> [used : 0 .. MaxTokens, issued : 0 .. MaxTokens, handed : BOOLEAN]]
      /\ tokens'[p].used = t.n
      /\ tokens'[p].issued = tokens[p].issued + 1
      /\ tokens'[p].handed = tokens[p].handed
      /\ \A q \in Projects : q # p => tokens'[q] = tokens[q]
  BY <1>1, <1>2, IssueFields
<1>4. /\ next \in Token /\ next.kind = "sync" /\ next.proyectoId = p
      /\ next.n = tokens[p].issued + 1
  <2>1. tokens[p].issued + 1 \in 1 .. MaxTokens
    BY <1>1, TokensFields, LinkAssumption DEF CanIssue
  <2>. QED
    BY <1>1, <2>1 DEF NewToken, Token
<1>5. /\ kept \in Rotation
      /\ kept.pc = "store" /\ kept.token = next /\ kept.link = rotations[r].link
  BY <1>1, <1>4 DEF Rotation
<1> HIDE DEF p, next, kept
<1>6. /\ rotations' \in [Responses -> Rotation]
      /\ rotations'[r] = kept
      /\ \A q \in Responses : q # r => rotations'[q] = rotations[q] /\ rotations[q].pc = "idle"
  BY <1>1, <1>2, <1>5, RotationsOf DEF CallsBegan
<1>7. LinkTypeOK'
  BY <1>2, <1>3, <1>6 DEF LinkTypeOK
<1>8. /\ tokens[p].issued \in Nat /\ tokens[p].used <= tokens[p].issued /\ tokens[p].used \in Nat
  BY <1>1, TokensFields DEF CallsBegan
<1>9. \A q \in Projects :
        /\ tokens'[q].issued >= tokens[q].issued /\ tokens'[q].issued \in Nat /\ tokens[q].issued \in Nat
        /\ tokens'[q].used <= tokens'[q].issued
        /\ tokens'[q].handed = tokens[q].handed
  <2>1. SUFFICES ASSUME NEW q \in Projects
                 PROVE  /\ tokens'[q].issued >= tokens[q].issued
                        /\ tokens'[q].issued \in Nat /\ tokens[q].issued \in Nat
                        /\ tokens'[q].used <= tokens'[q].issued
                        /\ tokens'[q].handed = tokens[q].handed
    OBVIOUS
  <2>2. CASE q = p
    BY <1>1, <1>3, <1>8, <2>2
  <2>3. CASE q # p
    BY <1>3, <2>3, TokensFields DEF CallsBegan
  <2>. QED
    BY <2>2, <2>3
<1>10. \A x \in Token : WasIssued(x) => WasIssued(x)'
  BY <1>9, TokenFields DEF WasIssued
<1>11. CallsBegan'
  <2>1. /\ \A q \in Projects :
             /\ tokens'[q].used <= tokens'[q].issued
             /\ reviews'[q] = "approved" => tokens'[q].issued > 0
        /\ installation'.status = "linked" => installation'.proyectoId \in Projects
    <3>1. \A q \in Projects : reviews[q] = "approved" => tokens[q].issued > 0
      BY DEF CallsBegan
    <3>. QED
      BY <1>2, <1>9, <3>1 DEF CallsBegan
  <2>2. WasIssued(installation.token)'
    BY <1>2, <1>10, InstallationFields DEF CallsBegan, WasIssued
  <2>3. \A q \in Operators : operators'[q].pc = "status" =>
          /\ operators'[q].link <= links'
          /\ WasIssued(operators[q].token)'
          /\ operators'[q].token # None =>
               /\ operators'[q].token.kind = "sync"
               /\ operators'[q].token.proyectoId = operators'[q].proyectoId
    BY <1>2, <1>10, LinkCallFields DEF CallsBegan, WasIssued
  <2>4. \A q \in Responses : rotations'[q].pc # "idle" =>
          /\ q = r
          /\ rotations'[q].link <= links'
          /\ WasIssued(rotations[q].token)'
    BY <1>1, <1>2, <1>3, <1>4, <1>5, <1>6, <1>8 DEF CallsBegan, WasIssued
  <2>. QED
    BY <2>1, <2>2, <2>3, <2>4 DEF CallsBegan
<1>12. ASSUME ~crossed'
       PROVE  /\ ~crossed /\ t = installation.token /\ p = TokenProject /\ HoldsSync
              /\ rotations'[r].link = links'
              /\ \A q \in Operators : ~Brings(q)
  <2>1. ~crossed /\ rotations[r].link = links
    BY <1>2, <1>12
  <2>2. t = installation.token /\ p = TokenProject
    BY <1>1, <2>1 DEF CallsAgree, t, p
  <2>. QED
    BY <1>1, <1>2, <1>5, <1>6, <2>1, <2>2 DEF CallsAgree, HoldsSync
<1>13. UNCHANGED <<TokenProject, HoldsSync>> /\ \A q \in Operators : Polls(q)' = Polls(q) /\ Brings(q)' = Brings(q)
  BY <1>2 DEF TokenProject, HoldsSync, Polls, Brings
<1>14. CallsAgree'
  <2>1. SUFFICES ASSUME ~crossed'
                 PROVE  CallsAgree'
    BY DEF CallsAgree
  <2>2. /\ installation'.status = "linked" => installation'.proyectoId = TokenProject'
        /\ \A q \in Operators : Polls(q)' => operators'[q].proyectoId = TokenProject'
    BY <1>2, <1>12, <1>13, <2>1 DEF CallsAgree
  <2>3. \A q \in Responses : rotations'[q].pc # "idle" => q = r
    BY <1>6
  <2>4. /\ installation'.token.n = tokens'[TokenProject'].used
        /\ tokens'[TokenProject'].used < tokens'[TokenProject'].issued
        /\ kept.token.n = tokens'[TokenProject'].issued
    BY <1>1, <1>2, <1>3, <1>4, <1>5, <1>8, <1>12, <1>13, <2>1
  <2>. QED
    BY <1>4, <1>5, <1>6, <1>12, <1>13, <2>1, <2>2, <2>3, <2>4 DEF CallsAgree
<1>15. TokenServes'
  BY <1>1, <1>2, <1>3, <1>12 DEF TokenServes, Accepts, HoldsSync, p
<1>16. StayOld
  BY <1>2, <1>10, <1>13 DEF StayOld, NotNewer
<1>. QED
  BY <1>7, <1>11, <1>14, <1>15, <1>16

\* The installation holds the last token the cloud issued from now on.
LEMMA RotateStoreKeeps ==
  ASSUME LinkInv, NEW r \in Responses, RotateStore(r)
  PROVE  LinkInv' /\ StayOld
<1> USE DEF LinkInv
<1> DEFINE t == rotations[r].token
<1>1. /\ rotations[r].pc = "store" /\ t \in Token /\ t # None /\ rotations[r].link \in Nat
      /\ WasIssued(t)
  BY RotationFields, TokenFields DEF RotateStore, CallsBegan
<1>2. /\ installation' = [installation EXCEPT !.token = t]
      /\ crossed' = (crossed \/ rotations[r].link # links)
      /\ rotations' = [rotations EXCEPT ![r] = Idle]
      /\ UNCHANGED <<pending, operators, reviews, tokens, links, faults>>
  BY DEF RotateStore
<1>3. /\ installation' \in LocalInstallation
      /\ installation'.token = t
      /\ installation'.status = installation.status
      /\ installation'.proyectoId = installation.proyectoId
  BY <1>1, <1>2 DEF LinkTypeOK, LocalInstallation
<1>4. /\ rotations' \in [Responses -> Rotation]
      /\ \A q \in Responses : rotations'[q].pc = "idle"
  <2>1. \A q \in Responses : q # r => rotations[q].pc = "idle"
    BY <1>1 DEF CallsBegan
  <2>. QED
    BY <1>2, <2>1, IdleCalls, RotationsOf
<1>5. LinkTypeOK'
  BY <1>2, <1>3, <1>4 DEF LinkTypeOK
<1>6. CallsBegan'
  <2>1. WasIssued(installation.token)'
    BY <1>1, <1>2, <1>3 DEF WasIssued
  <2>. QED
    BY <1>2, <1>3, <1>4, <2>1 DEF CallsBegan, WasIssued
<1>7. ASSUME ~crossed'
      PROVE  /\ ~crossed /\ HoldsSync /\ HoldsSync' /\ TokenProject' = TokenProject
             /\ t.kind = "sync" /\ t.proyectoId = TokenProject
             /\ t.n = tokens[TokenProject].issued
             /\ \A q \in Operators : ~Brings(q)
  <2>1. ~crossed /\ rotations[r].link = links
    BY <1>2, <1>7
  <2>2. /\ t.proyectoId = TokenProject /\ HoldsSync /\ t.kind = "sync"
        /\ t.n = tokens[TokenProject].issued
    BY <1>1, <2>1 DEF CallsAgree
  <2>3. \A q \in Operators : ~Brings(q)
    BY <2>1, <2>2 DEF CallsAgree
  <2>4. TokenProject' = t.proyectoId /\ HoldsSync'
    BY <1>1, <1>3, <2>2 DEF TokenProject, HoldsSync
  <2>. QED
    BY <2>1, <2>2, <2>3, <2>4
<1> HIDE DEF t
<1>8. \A q \in Operators : Polls(q)' = Polls(q) /\ Brings(q)' = Brings(q)
  BY <1>2 DEF Polls, Brings
<1>9. CallsAgree'
  BY <1>2, <1>3, <1>4, <1>7, <1>8 DEF CallsAgree
<1>10. TokenServes'
  BY <1>2, <1>3, <1>7 DEF TokenServes, Accepts
<1>11. StayOld
  BY <1>2, <1>3, <1>7, TokenFields DEF StayOld, NotNewer, WasIssued
<1>. QED
  BY <1>5, <1>6, <1>9, <1>10, <1>11

LEMMA LinkNextKeeps ==
  ASSUME LinkInv, LinkNext
  PROVE  LinkInv' /\ StayOld
BY OtherChangesKeep, OutboxSendsKeeps, ResetWriteKeeps, RequestSendKeeps, RequestWriteKeeps,
   StatusAskKeeps, StatusWriteKeeps, RotateStartKeeps, RotateAskKeeps, RotateStoreKeeps,
   CloudApprovesKeeps
DEF LinkNext, LinkCalls

\* Steps that leave the link alone.
LEMMA LinkStays ==
  ASSUME LinkInv, UNCHANGED linkVars
  PROVE  LinkInv' /\ StayOld
<1>1. LinkTypeOK'
  BY DEF LinkInv, linkVars, LinkTypeOK
<1>. QED
  BY <1>1, CallsOnlyKeep DEF linkVars

\* The link, the calls under way and the cloud's tokens agree (link, rotateSyncToken).
THEOREM LinkInvariant == LinkSpec => []LinkInv
<1>1. LinkInv /\ [LinkNext]_linkVars => LinkInv'
  BY LinkStays, LinkNextKeeps
<1>. QED
  BY <1>1, LinkInitHolds, PTL DEF LinkSpec

\* One more fault, or none.
LEMMA FaultKeeps ==
  ASSUME LinkTypeOK, faults' = faults \/ (faults < MaxFaults /\ faults' = faults + 1)
  PROVE  faults' \in 0 .. MaxFaults
BY LinkAssumption DEF LinkTypeOK

----------------------------------------------------------------------------
\* The publisher of snapshots.

\* The ticker sends one snapshot at a time.
SendingShown == project.sending <=> snapshot.pc # "idle"

\* A change that came while a snapshot was posted is due by itself: the answer to that
\* snapshot makes the project fresh again.
DueDuringPost == snapshot.pc = "post" /\ owed = "waits" => project.dueIn # None

BeatInv ==
  /\ project \in ProjectState
  /\ snapshot.pc \in {"idle", "build", "post"}
  /\ owed \in {"no", "waits", "sent"}
  /\ SendingShown
  /\ DueDuringPost
  /\ ChangeIsDue

----------------------------------------------------------------------------
LEMMA EarlierIsDue ==
  ASSUME NEW a \in 0 .. Retry \cup {None}, NEW b \in 0 .. Retry
  PROVE  Earlier(a, b) \in 0 .. Retry
BY DEF Earlier

LEMMA BoundsInRange ==
  /\ Batch \in 0 .. Retry /\ Retry \in 0 .. Retry
  /\ Keepalive \in 0 .. Keepalive /\ 0 \in 0 .. Keepalive /\ 0 \in 0 .. Retry
  /\ Keepalive # 0
BY HeartbeatAssumption

LEMMA NumberIsDue == \A n \in 0 .. Retry : n # None
BY HeartbeatAssumption

LEMMA DownKeepsDue ==
  ASSUME NEW n \in 0 .. Retry \cup {None}
  PROVE  Down(n) \in 0 .. Retry \cup {None} /\ (n # None => Down(n) # None)
<1>1. CASE n = None \/ n = 0
  BY <1>1 DEF Down
<1>2. CASE ~(n = None \/ n = 0)
  <2>1. n \in 0 .. Retry /\ n - 1 \in 0 .. Retry  BY <1>2, HeartbeatAssumption
  <2>2. QED  BY <1>2, <2>1, NumberIsDue DEF Down
<1>3. QED  BY <1>1, <1>2

LEMMA StateFields ==
  ASSUME project \in ProjectState
  PROVE  /\ project.dueIn \in 0 .. Retry \cup {None}
         /\ project.sinceSent \in 0 .. Keepalive
         /\ project.retryIn \in 0 .. Retry
         /\ project.sending \in BOOLEAN
BY DEF ProjectState

LEMMA NewProjectShaped ==
  /\ NewProject \in ProjectState
  /\ NewProject.sinceSent = Keepalive
  /\ NewProject.sending = FALSE
BY BoundsInRange DEF NewProject, State, ProjectState

LEMMA BeatInitHolds ==
  ASSUME HeartbeatInit
  PROVE  BeatInv
<1>1. snapshot.pc = "idle" /\ owed = "no" /\ project = NewProject
  BY DEF HeartbeatInit, Idle
<1>2. QED
  BY <1>1, NewProjectShaped DEF BeatInv, SendingShown, DueDuringPost, ChangeIsDue

----------------------------------------------------------------------------
\* Steps that leave the publisher alone: the link, changes of modules, and lapses.
LEMMA BeatOtherSteps ==
  ASSUME BeatInv, UNCHANGED <<project, snapshot, owed>>
  PROVE  BeatInv'
BY DEF BeatInv, SendingShown, DueDuringPost, ChangeIsDue, IsStale

LEMMA ModuleUpdatedKeeps ==
  ASSUME BeatInv, NEW u \in Updates, ModuleUpdated(u)
  PROVE  BeatInv'
<1> USE DEF BeatInv
<1>1. CASE UNCHANGED <<project, owed>>
  BY <1>1, BeatOtherSteps DEF ModuleUpdated
<1>2. CASE /\ project' = [project EXCEPT !.dueIn = Earlier(@, Batch)]
           /\ owed' = "waits"
  <2>1. Earlier(project.dueIn, Batch) \in 0 .. Retry
    BY EarlierIsDue, StateFields, BoundsInRange
  <2>2. project' \in ProjectState /\ project'.dueIn = Earlier(project.dueIn, Batch)
        /\ project'.sending = project.sending
    BY <1>2, <2>1 DEF ProjectState
  <2>3. project'.dueIn # None  BY <2>1, <2>2, NumberIsDue
  <2>4. UNCHANGED snapshot  BY DEF ModuleUpdated
  <2>5. QED  BY <1>2, <2>2, <2>3, <2>4 DEF SendingShown, DueDuringPost, ChangeIsDue
<1>3. QED  BY <1>1, <1>2 DEF ModuleUpdated

LEMMA TimePassesKeeps ==
  ASSUME BeatInv, TimePasses
  PROVE  BeatInv'
<1> USE DEF BeatInv
<1> DEFINE since == IF project.sinceSent = Keepalive THEN Keepalive ELSE project.sinceSent + 1
<1>1. /\ since \in 0 .. Keepalive
      /\ project.sinceSent = Keepalive => since = Keepalive
  BY StateFields, HeartbeatAssumption
<1>2. /\ Down(project.dueIn) \in 0 .. Retry \cup {None}
      /\ project.dueIn # None => Down(project.dueIn) # None
  BY StateFields, DownKeepsDue
<1>3. Down(project.retryIn) \in 0 .. Retry
  BY StateFields, HeartbeatAssumption DEF Down
<1>4. /\ project' = State(Down(project.dueIn), since, Down(project.retryIn), project.sending)
      /\ UNCHANGED <<snapshot, owed>>
  BY DEF TimePasses
<1> HIDE DEF since
<1>5. /\ project' \in ProjectState
      /\ project'.dueIn = Down(project.dueIn)
      /\ project'.sinceSent = since
      /\ project'.sending = project.sending
  BY <1>1, <1>2, <1>3, <1>4, StateFields DEF State, ProjectState
<1>6. QED
  BY <1>1, <1>2, <1>4, <1>5 DEF SendingShown, DueDuringPost, ChangeIsDue, IsStale

LEMMA TickKeeps ==
  ASSUME BeatInv, Tick
  PROVE  BeatInv'
<1> USE DEF BeatInv
<1>1. /\ project' = State(None, project.sinceSent, project.retryIn, TRUE)
      /\ snapshot' = [pc |-> "build"] /\ UNCHANGED owed
      /\ snapshot.pc = "idle"
  BY DEF Tick, SendingShown
<1>2. project' \in ProjectState /\ project'.sending
  BY <1>1, StateFields DEF State, ProjectState
<1>3. owed # "sent"  BY <1>1 DEF ChangeIsDue
<1>4. QED  BY <1>1, <1>2, <1>3 DEF SendingShown, DueDuringPost, ChangeIsDue

\* Sent or not, a project that is fresh again keeps what came due meanwhile.
LEMMA AcceptedShaped ==
  ASSUME project \in ProjectState
  PROVE  /\ Accepted \in ProjectState
         /\ Accepted.dueIn = project.dueIn
         /\ Accepted.sending = FALSE
BY StateFields, BoundsInRange DEF Accepted, StaysDue, State, ProjectState

LEMMA FailedShaped ==
  ASSUME project \in ProjectState
  PROVE  /\ Failed \in ProjectState
         /\ Failed.dueIn # None
         /\ Failed.sending = FALSE
<1>1. Earlier(project.dueIn, Retry) \in 0 .. Retry
  BY EarlierIsDue, StateFields, BoundsInRange
<1>2. QED  BY <1>1, StateFields, BoundsInRange, NumberIsDue DEF Failed, State, ProjectState

LEMMA BuildSnapshotKeeps ==
  ASSUME BeatInv, BuildSnapshot
  PROVE  BeatInv'
<1> USE DEF BeatInv
<1>1. snapshot.pc = "build" /\ owed # "sent"
  BY DEF BuildSnapshot, ChangeIsDue
<1>2. CASE /\ snapshot' = [pc |-> "post", token |-> installation.token, modulos |-> modulos]
           /\ owed' = IF owed = "waits" THEN "sent" ELSE owed
           /\ UNCHANGED project
  BY <1>1, <1>2 DEF SendingShown, DueDuringPost, ChangeIsDue
<1>3. CASE /\ snapshot' = Idle
           /\ project' = Accepted
           /\ owed' = IF project.dueIn = None THEN "no" ELSE owed
  <2>1. snapshot'.pc = "idle"  BY <1>3 DEF Idle
  <2>2. QED
    BY <1>1, <1>3, <2>1, AcceptedShaped DEF SendingShown, DueDuringPost, ChangeIsDue
<1>4. QED  BY <1>2, <1>3 DEF BuildSnapshot

LEMMA PostSnapshotKeeps ==
  ASSUME BeatInv, PostSnapshot
  PROVE  BeatInv'
<1> USE DEF BeatInv
<1>1. /\ snapshot.pc = "post" /\ snapshot'.pc = "idle" /\ project' = Accepted
      /\ owed' = IF owed = "sent" THEN "no" ELSE owed
  BY DEF PostSnapshot, Idle
<1>2. QED  BY <1>1, AcceptedShaped DEF SendingShown, DueDuringPost, ChangeIsDue

LEMMA SnapshotFailsKeeps ==
  ASSUME BeatInv, SnapshotFails
  PROVE  BeatInv'
<1> USE DEF BeatInv
<1>1. /\ snapshot'.pc = "idle" /\ project' = Failed
      /\ owed' = IF owed = "sent" THEN "waits" ELSE owed
  BY DEF SnapshotFails, Idle
<1>2. QED  BY <1>1, FailedShaped DEF SendingShown, DueDuringPost, ChangeIsDue

LEMMA RestartKeeps ==
  ASSUME BeatInv, Restart
  PROVE  BeatInv'
<1>1. /\ snapshot'.pc = "idle" /\ project' = NewProject
      /\ owed' \in {"no", "waits"}
  BY DEF Restart, Idle
<1>2. QED
  BY <1>1, NewProjectShaped DEF BeatInv, SendingShown, DueDuringPost, ChangeIsDue, IsStale

LEMMA BeatStepKeeps ==
  ASSUME BeatInv, [HeartbeatNext]_heartbeatVars
  PROVE  BeatInv'
<1>1. CASE UNCHANGED heartbeatVars
  BY <1>1, BeatOtherSteps DEF heartbeatVars, beatVars
<1>2. CASE LinkNext /\ UNCHANGED beatVars
  BY <1>2, BeatOtherSteps DEF beatVars
<1>3. ASSUME NEW u \in Updates, NEW m \in Modulos,
             \/ \E status \in {"online", "offline"} : Heartbeat(u, m, status)
             \/ ResolveBinding(u, m)
      PROVE  BeatInv'
  <2>1. UNCHANGED <<project, snapshot, owed>>
    BY <1>3 DEF Heartbeat, ResolveBinding, UpdateModulo
  <2>2. QED  BY <2>1, BeatOtherSteps
<1>4. ASSUME NEW m \in Modulos, Lapse(m)
      PROVE  BeatInv'
  BY <1>4, BeatOtherSteps DEF Lapse
<1>5. ASSUME NEW u \in Updates, ModuleUpdated(u)
      PROVE  BeatInv'
  BY <1>5, ModuleUpdatedKeeps
<1>6. CASE PublisherStep
  BY <1>6, TimePassesKeeps, TickKeeps, BuildSnapshotKeeps, PostSnapshotKeeps, SnapshotFailsKeeps
  DEF PublisherStep
<1>7. CASE Restart  BY <1>7, RestartKeeps
<1>8. QED  BY <1>1, <1>2, <1>3, <1>4, <1>5, <1>6, <1>7 DEF HeartbeatNext

\* The publisher, the snapshot it sends and what it owes the cloud agree (tick, send).
THEOREM PublisherInvariant == HeartbeatSpec => []BeatInv
<1>1. HeartbeatInit => BeatInv  BY BeatInitHolds
<1>2. BeatInv /\ [HeartbeatNext]_heartbeatVars => BeatInv'  BY BeatStepKeeps
<1>3. QED  BY <1>1, <1>2, PTL DEF HeartbeatSpec

\* A change that was told is due or being sent until the cloud has it, whatever fails and
\* whatever comes in between (send, moduleUpdated).
THEOREM ToldChangeIsDue == HeartbeatSpec => []ChangeIsDue
<1>1. BeatInv => ChangeIsDue  BY DEF BeatInv
<1>2. QED  BY <1>1, PublisherInvariant, PTL

----------------------------------------------------------------------------
\* The link, with the snapshots that use its tokens.  The snapshot being posted
\* carries a token that was taken from the installation.
SnapshotToken == snapshot.pc = "post" => snapshot.token \in Token /\ NotNewer(snapshot.token)

PublisherLinkInv == LinkInv /\ SnapshotToken

\* A token of the installation is not newer than itself.
LEMMA OwnToken ==
  ASSUME LinkInv, HasCredentials
  PROVE  installation.token \in Token /\ NotNewer(installation.token)
<1>1. installation.token \in Token
  BY InstallationFields DEF LinkInv, HasCredentials
<1>. QED
  BY <1>1, TokenFields DEF LinkInv, NotNewer, CallsBegan

LEMMA SnapshotStays ==
  ASSUME PublisherLinkInv, LinkInv', StayOld,
         UNCHANGED snapshot \/ snapshot'.pc # "post"
  PROVE  PublisherLinkInv'
<1>1. CASE snapshot'.pc # "post"
  BY <1>1 DEF PublisherLinkInv, SnapshotToken
<1>2. CASE UNCHANGED snapshot /\ snapshot.pc = "post"
  <2>1. snapshot.token \in Token /\ NotNewer(snapshot.token)
    BY <1>2 DEF PublisherLinkInv, SnapshotToken
  <2>2. PICK t \in Token : t = snapshot.token
    BY <2>1
  <2>3. NotNewer(t) /\ NotNewer(t)'
    BY <2>1, <2>2 DEF StayOld
  <2>4. NotNewer(snapshot.token)'
    BY <1>2, <2>2, <2>3 DEF NotNewer, WasIssued
  <2>. QED
    BY <1>2, <2>1, <2>4 DEF PublisherLinkInv, SnapshotToken
<1>. QED
  BY <1>1, <1>2

\* The answer to a snapshot is lost, or it was refused, or taken.
LEMMA SnapshotEndsKeeps ==
  ASSUME PublisherLinkInv, PostSnapshot \/ SnapshotFails
  PROVE  PublisherLinkInv'
<1>1. /\ snapshot.pc = "post" /\ snapshot'.pc = "idle"
      /\ UNCHANGED <<installation, pending, operators, rotations, reviews, links, crossed>>
      /\ faults' = faults \/ (faults < MaxFaults /\ faults' = faults + 1)
      /\ \/ UNCHANGED tokens
         \/ Accepts(snapshot.token) /\ tokens' = AfterUse(snapshot.token)
  <2>1. snapshot.pc = "post" /\ snapshot' = Idle /\ Idle.pc = "idle"
    BY DEF PostSnapshot, SnapshotFails, Idle
  <2>2. UNCHANGED <<installation, pending, operators, rotations, reviews, links, crossed>>
    BY DEF PostSnapshot, SnapshotFails
  <2>3. faults' = faults \/ (faults < MaxFaults /\ faults' = faults + 1)
    <3>1. PostSnapshot => UNCHANGED faults
      BY DEF PostSnapshot
    <3>2. SnapshotFails => UNCHANGED faults \/ (faults < MaxFaults /\ faults' = faults + 1)
      BY DEF SnapshotFails
    <3>. QED
      BY <3>1, <3>2
  <2>4. \/ UNCHANGED tokens
        \/ Accepts(snapshot.token) /\ tokens' = AfterUse(snapshot.token)
    BY DEF PostSnapshot, SnapshotFails
  <2>. QED
    BY <2>1, <2>2, <2>3, <2>4
<1>2. faults' \in 0 .. MaxFaults
  BY <1>1, FaultKeeps DEF PublisherLinkInv, LinkInv
<1>3. CASE UNCHANGED tokens
  <2>1. LinkTypeOK'
    BY <1>1, <1>2, <1>3 DEF PublisherLinkInv, LinkInv, LinkTypeOK
  <2>2. LinkInv' /\ StayOld
    BY <1>1, <1>3, <2>1, CallsOnlyKeep DEF PublisherLinkInv
  <2>. QED
    BY <1>1, <2>2, SnapshotStays
<1>4. CASE Accepts(snapshot.token) /\ tokens' = AfterUse(snapshot.token)
  <2>1. snapshot.token \in Token /\ NotNewer(snapshot.token)
    BY <1>1 DEF PublisherLinkInv, SnapshotToken
  <2>2. LinkTypeOK'
    BY <1>1, <1>2, <1>4, <2>1, UseFields DEF PublisherLinkInv, LinkInv, LinkTypeOK
  <2>3. LinkInv' /\ StayOld
    BY <1>1, <1>4, <2>1, <2>2, UseKeeps DEF PublisherLinkInv
  <2>. QED
    BY <1>1, <2>3, SnapshotStays
<1>. QED
  BY <1>1, <1>3, <1>4

LEMMA RestartKeepsLink ==
  ASSUME PublisherLinkInv, Restart
  PROVE  PublisherLinkInv'
<1>1. /\ operators' = [o \in Operators |-> Idle]
      /\ rotations' = [r \in Responses |-> Idle]
      /\ faults' = faults \/ (faults < MaxFaults /\ faults' = faults + 1)
      /\ UNCHANGED <<installation, pending, reviews, tokens, links, crossed>>
      /\ snapshot'.pc = "idle"
  BY DEF Restart, Idle
<1>2. LinkTypeOK'
  BY <1>1, IdleCalls, FaultKeeps DEF PublisherLinkInv, LinkInv, LinkTypeOK
<1>3. LinkInv' /\ StayOld
  BY <1>1, <1>2, IdleCalls, CallsOnlyKeep DEF PublisherLinkInv
<1>. QED
  BY <1>1, <1>3, SnapshotStays

LEMMA PublisherLinkKept ==
  ASSUME PublisherLinkInv, [HeartbeatNext]_heartbeatVars
  PROVE  PublisherLinkInv'
<1>1. ASSUME UNCHANGED linkVars, UNCHANGED snapshot \/ snapshot'.pc # "post"
      PROVE  PublisherLinkInv'
  BY <1>1, LinkStays, SnapshotStays DEF PublisherLinkInv
<1>2. CASE UNCHANGED heartbeatVars
  BY <1>1, <1>2 DEF heartbeatVars, beatVars
<1>3. CASE LinkNext /\ UNCHANGED beatVars
  BY <1>3, LinkNextKeeps, SnapshotStays DEF PublisherLinkInv, beatVars
<1>4. ASSUME NEW u \in Updates, NEW m \in Modulos,
             \/ \E status \in {"online", "offline"} : Heartbeat(u, m, status)
             \/ ResolveBinding(u, m)
      PROVE  PublisherLinkInv'
  <2>1. UNCHANGED <<linkVars, snapshot>>
    BY <1>4 DEF Heartbeat, ResolveBinding, UpdateModulo
  <2>. QED
    BY <1>1, <2>1
<1>5. ASSUME NEW m \in Modulos, Lapse(m)
      PROVE  PublisherLinkInv'
  BY <1>1, <1>5 DEF Lapse
<1>6. ASSUME NEW u \in Updates, ModuleUpdated(u)
      PROVE  PublisherLinkInv'
  BY <1>1, <1>6 DEF ModuleUpdated
<1>7. CASE TimePasses \/ Tick
  <2>1. UNCHANGED linkVars
    BY <1>7 DEF TimePasses, Tick
  <2>2. UNCHANGED snapshot \/ snapshot' = [pc |-> "build"]
    BY <1>7 DEF TimePasses, Tick
  <2>. QED
    BY <1>1, <2>1, <2>2
<1>8. CASE BuildSnapshot
  <2>1. UNCHANGED linkVars
    BY <1>8 DEF BuildSnapshot
  <2>2. CASE HasCredentials
    <3>1. installation.token \in Token /\ NotNewer(installation.token)
      BY <2>2, OwnToken DEF PublisherLinkInv
    <3>2. snapshot'.token = installation.token
      BY <1>8, <2>2 DEF BuildSnapshot
    <3>3. NotNewer(snapshot.token)'
      BY <2>1, <3>1, <3>2 DEF linkVars, NotNewer, WasIssued, HoldsSync, TokenProject
    <3>4. LinkInv'
      BY <2>1, LinkStays DEF PublisherLinkInv
    <3>. QED
      BY <3>1, <3>2, <3>3, <3>4 DEF PublisherLinkInv, SnapshotToken
  <2>3. CASE ~HasCredentials
    BY <1>1, <1>8, <2>1, <2>3 DEF BuildSnapshot, Idle
  <2>. QED
    BY <2>2, <2>3
<1>9. CASE PostSnapshot \/ SnapshotFails
  BY <1>9, SnapshotEndsKeeps
<1>10. CASE Restart
  BY <1>10, RestartKeepsLink
<1>. QED
  BY <1>2, <1>3, <1>4, <1>5, <1>6, <1>7, <1>8, <1>9, <1>10 DEF HeartbeatNext, PublisherStep

\* What the installation, the calls, the rotation and the snapshot under way hold of the
\* cloud's tokens agrees, whatever fails or stops (linkLocalProject, rotateSyncToken, send).
THEOREM PublisherLinkInvariant == HeartbeatSpec => []PublisherLinkInv
<1>1. HeartbeatInit => PublisherLinkInv
  BY LinkInitHolds DEF HeartbeatInit, PublisherLinkInv, SnapshotToken, Idle
<1>2. PublisherLinkInv /\ [HeartbeatNext]_heartbeatVars => PublisherLinkInv'
  BY PublisherLinkKept
<1>. QED
  BY <1>1, <1>2, PTL DEF HeartbeatSpec

\* A linked installation holds a sync token of its project that the cloud accepts, through
\* lost answers, rotations and restarts (rotateSyncToken, linkLocalProject).
THEOREM LinkedTokenAccepted == HeartbeatSpec => []TokenAccepted
<1>1. PublisherLinkInv => TokenAccepted
  <2>. SUFFICES ASSUME PublisherLinkInv, installation.status = "linked", ~crossed,
                       installation.token.kind = "sync"
                PROVE  /\ Accepts(installation.token)
                       /\ installation.token.proyectoId = installation.proyectoId
    BY DEF TokenAccepted
  <2>1. installation.proyectoId \in Projects /\ installation.proyectoId = TokenProject
    BY DEF PublisherLinkInv, LinkInv, CallsBegan, CallsAgree
  <2>2. installation.token # None /\ HoldsSync
    BY <2>1, LinkAssumption DEF TokenProject, HoldsSync
  <2>. QED
    BY <2>1, <2>2 DEF PublisherLinkInv, LinkInv, TokenServes, TokenProject
<1>. QED
  BY <1>1, PublisherLinkInvariant, PTL

----------------------------------------------------------------------------
\* The syncs of the configuration.

\* A transaction holds the rows it writes: they belong to its project, no other
\* transaction writes them, and the part this server owns is the one stored.
WritesHeld ==
  \A s \in Syncs \cup Pushes : tasks[s].pc = "commit" =>
    \A id \in Rows : tasks[s].writes[id] # None =>
      /\ ProjectOf[id] = tasks[s].proyectoId
      /\ tasks[s].writes[id].own = OwnPart(None, rows[id])
      /\ \A t \in (Syncs \cup Pushes) \ {s} : tasks[t].pc = "commit" => tasks[t].writes[id] = None

\* Until a push is stored, a transaction that was checked stays sound whatever
\* other transactions commit before it.
WritesSound ==
  ~pushed => \A s \in Syncs : tasks[s].pc = "commit" =>
    Sound(tasks[s].proyectoId, Over(rows, tasks[s].writes))

\* Versions noted by syncs of the projects in from: none, without such a sync; those of
\* snapshots written for the project, when it is the only one.
NotedBy(wrote, noted, from) ==
  /\ from = {} => \A k \in Kinds : noted[k] = 0
  /\ \A p \in Projects : from = {p} => \A k \in Kinds : noted[k] \in {0} \cup wrote[p][k]

\* A sync that will commit has fetched both snapshots, and one that committed has written
\* those it did not find noted.
TaskNotes(s) ==
  /\ tasks[s].pc # "push"
  /\ tasks[s].pc \in {"apply", "commit", "note"} => \A k \in Kinds : tasks[s].got[k] # None
  /\ tasks[s].pc # "idle" => NotedBy(applied, tasks[s].noted, tasks[s].from)
  /\ tasks[s].pc = "note" =>
       \A k \in ToApply(tasks[s]) : tasks[s].got[k] \in applied[tasks[s].proyectoId][k]

NotesApplied ==
  /\ \A s \in Syncs : TaskNotes(s)
  /\ \A s \in Pushes : tasks[s].pc \notin {"fetch", "note"}
  /\ NotedBy(applied, installation.noted, notedFor)

RowsAgree == WritesHeld /\ WritesSound /\ SyncedIsSound

SyncInv == ConfigTypeOK /\ LinkInv /\ RowsAgree /\ NotesApplied

----------------------------------------------------------------------------
\* What the variables of the syncs hold.

LEMMA TaskFields ==
  ASSUME ConfigTypeOK, NEW s \in Syncs \cup Pushes
  PROVE  /\ tasks[s] \in Task
         /\ tasks[s].pc \in {"idle", "fetch", "push", "apply", "commit", "note"}
         /\ tasks[s].pc # "idle" =>
              /\ tasks[s].proyectoId \in Projects /\ tasks[s].noted \in Versions
              /\ tasks[s].got \in Got /\ tasks[s].from \subseteq Projects
         /\ tasks[s].pc = "apply" => tasks[s].existing \in [Rows -> Row \cup {None}]
         /\ tasks[s].pc = "commit" => tasks[s].writes \in [Rows -> Row \cup {None}]
BY DEF ConfigTypeOK, Task

LEMMA RowFields ==
  \A row \in Row : row # None /\ row.rev \in Nat /\ row.ok \in BOOLEAN /\ row.own \in BOOLEAN
BY ConfigAssumption DEF Row

LEMMA TasksOf ==
  ASSUME ConfigTypeOK, NEW s \in Syncs \cup Pushes, NEW task \in Task, Keep(s, task)
  PROVE  /\ tasks' \in [Syncs \cup Pushes -> Task]
         /\ tasks'[s] = task
         /\ \A t \in Syncs \cup Pushes : t # s => tasks'[t] = tasks[t]
BY DEF ConfigTypeOK, Keep

LEMMA IdleTask == Idle \in Task /\ Idle.pc = "idle"
BY DEF Idle, Task

\* The part of a row that this server owns.
LEMMA OwnPartOf ==
  ASSUME NEW read, NEW row \in Row \cup {None}
  PROVE  /\ OwnPart(read, row) \in BOOLEAN
         /\ OwnPart(read, row) = OwnPart(None, row)
         /\ row # None => OwnPart(read, row) = row.own
BY RowFields DEF OwnPart

LEMMA WrittenFields ==
  ASSUME NEW read, NEW row \in Row \cup {None}, NEW i \in Item
  PROVE  /\ Written(read, row, i) \in Row
         /\ Written(read, row, i).own = OwnPart(None, row)
<1>1. OwnPart(read, row) \in BOOLEAN /\ OwnPart(read, row) = OwnPart(None, row)
  BY OwnPartOf
<1>2. i.rev \in Nat /\ i.ok \in BOOLEAN
  BY DEF Item
<1>. QED
  BY <1>1, <1>2 DEF Written, Row

\* The items of a snapshot that was fetched belong to its project.
LEMMA ItemsOf ==
  ASSUME ConfigTypeOK, NEW s \in Syncs \cup Pushes, tasks[s].pc # "idle",
         NEW i \in Items(tasks[s])
  PROVE  i \in Item /\ ProjectOf[i.id] = tasks[s].proyectoId
<1>1. tasks[s].proyectoId \in Projects /\ tasks[s].got \in Got
  BY TaskFields
<1>2. PICK k \in ToApply(tasks[s]) :
        i \in Normalized(k, Snapshots[tasks[s].proyectoId][k][tasks[s].got[k]])
  BY DEF Items
<1>3. k \in Kinds /\ tasks[s].got[k] \in 0 .. MaxVersion[k]
  <2>1. k \in Kinds /\ tasks[s].got[k] # None
    BY <1>2 DEF ToApply
  <2>2. tasks[s].got[k] \in Nat /\ tasks[s].got[k] <= MaxVersion[k] /\ MaxVersion[k] \in Nat
    BY <1>1, <2>1, LinkAssumption DEF Got
  <2>. QED
    BY <2>1, <2>2
<1>. QED
  BY <1>1, <1>2, <1>3, ConfigAssumption DEF Normalized

\* What a transaction writes.
LEMMA ProjectionOf ==
  ASSUME ConfigTypeOK, NEW s \in Syncs \cup Pushes, tasks[s].pc # "idle", NEW read
  PROVE  /\ Projection(read, Items(tasks[s])) \in [Rows -> Row \cup {None}]
         /\ \A id \in Rows : Projection(read, Items(tasks[s]))[id] # None =>
              /\ ProjectOf[id] = tasks[s].proyectoId
              /\ Projection(read, Items(tasks[s]))[id].own = OwnPart(None, rows[id])
<1> DEFINE items == Items(tasks[s])
           its(id) == {i \in items : i.id = id /\ ~Unchanged(read[id], i)}
           value(id) == IF its(id) = {} THEN None
                        ELSE Written(read[id], rows[id], CHOOSE i \in its(id) : TRUE)
<1>1. ASSUME NEW id \in Rows
      PROVE  /\ value(id) \in Row \cup {None}
             /\ value(id) # None =>
                  ProjectOf[id] = tasks[s].proyectoId /\ value(id).own = OwnPart(None, rows[id])
  <2>1. CASE its(id) = {}
    BY <2>1
  <2>2. CASE its(id) # {}
    <3>1. PICK i : i = CHOOSE x \in its(id) : TRUE
      OBVIOUS
    <3>2. i \in its(id)
      BY <2>2, <3>1
    <3>3. i \in Item /\ i.id = id /\ ProjectOf[i.id] = tasks[s].proyectoId
      BY <3>2, ItemsOf
    <3>4. rows[id] \in Row \cup {None}
      BY DEF ConfigTypeOK
    <3>5. value(id) = Written(read[id], rows[id], i)
      BY <2>2, <3>1
    <3>. QED
      BY <3>3, <3>4, <3>5, WrittenFields
  <2>. QED
    BY <2>1, <2>2
<1>2. Projection(read, items) = [id \in Rows |-> value(id)]
  BY DEF Projection
<1> HIDE DEF value, items
<1>. QED
  BY <1>1, <1>2 DEF items

\* What is stored once a transaction has written.
LEMMA OverOf ==
  ASSUME NEW stored \in [Rows -> Row \cup {None}], NEW writes \in [Rows -> Row \cup {None}]
  PROVE  /\ Over(stored, writes) \in [Rows -> Row \cup {None}]
         /\ \A id \in Rows : Over(stored, writes)[id] = IF writes[id] = None THEN stored[id] ELSE writes[id]
BY DEF Over

\* Rows that are changed stay sound when none is lost and those that are new, or of
\* other content, are sound by themselves.
LEMMA SoundStays ==
  ASSUME NEW p \in Projects, NEW before, NEW after, Sound(p, before),
         \A id \in Rows : before[id] # None => after[id] # None,
         \A id \in Rows : ProjectOf[id] = p =>
           \/ after[id] # None => before[id] # None /\ after[id].ok = before[id].ok
           \/ Tipo[id] = "proyecto"
           \/ /\ Tipo[id] \in {"modulo", "pension"} => after[id].ok
              /\ Tipo[id] = "pass" => after[Parent[id]] # None
  PROVE  Sound(p, after)
<1>1. \A id \in Rows : Tipo[id] = "pass" => Parent[id] \in Rows
  BY ConfigAssumption
<1>. QED
  BY <1>1 DEF Sound

----------------------------------------------------------------------------
\* Rows and transactions, one kind of step after the other.

\* No row is written and no transaction begins to write.
LEMMA RowsStay ==
  ASSUME ConfigTypeOK, RowsAgree, UNCHANGED <<rows, applied, pushed>>,
         \A s \in Syncs \cup Pushes : tasks'[s] = tasks[s] \/ tasks'[s].pc # "commit"
  PROVE  RowsAgree'
<1> USE DEF RowsAgree
<1>1. WritesHeld'
  BY DEF WritesHeld
<1>2. WritesSound'
  BY DEF WritesSound
<1>3. SyncedIsSound'
  BY DEF SyncedIsSound
<1>. QED
  BY <1>1, <1>2, <1>3

\* This server writes a row that no transaction holds, or the row of a project.
LEMMA RowChanges ==
  ASSUME ConfigTypeOK, RowsAgree, UNCHANGED <<tasks, applied, pushed>>,
         rows' \in [Rows -> Row \cup {None}],
         \A id \in Rows :
           /\ rows[id] # None => rows'[id] # None
           /\ \/ OwnPart(None, rows'[id]) = OwnPart(None, rows[id])
              \/ \A s \in Syncs \cup Pushes : tasks[s].pc = "commit" => tasks[s].writes[id] = None
           /\ \/ rows'[id] # None => rows[id] # None /\ rows'[id].ok = rows[id].ok
              \/ Tipo[id] = "proyecto"
  PROVE  RowsAgree'
<1> USE DEF RowsAgree
<1>1. WritesHeld'
  BY DEF WritesHeld
<1>2. WritesSound'
  <2>1. SUFFICES ASSUME ~pushed, NEW s \in Syncs, tasks[s].pc = "commit"
                 PROVE  Sound(tasks[s].proyectoId, Over(rows', tasks[s].writes))
    BY DEF WritesSound
  <2>2. tasks[s].proyectoId \in Projects /\ tasks[s].writes \in [Rows -> Row \cup {None}]
    BY <2>1, TaskFields
  <2> DEFINE before == Over(rows, tasks[s].writes)
             after  == Over(rows', tasks[s].writes)
  <2>3. /\ \A id \in Rows : before[id] = IF tasks[s].writes[id] = None THEN rows[id] ELSE tasks[s].writes[id]
        /\ \A id \in Rows : after[id] = IF tasks[s].writes[id] = None THEN rows'[id] ELSE tasks[s].writes[id]
    BY <2>2, OverOf DEF ConfigTypeOK
  <2>4. Sound(tasks[s].proyectoId, before)
    BY <2>1 DEF WritesSound
  <2> HIDE DEF before, after
  <2>5. /\ \A id \in Rows : before[id] # None => after[id] # None
        /\ \A id \in Rows : \/ after[id] # None => before[id] # None /\ after[id].ok = before[id].ok
                            \/ Tipo[id] = "proyecto"
    BY <2>3
  <2>6. Sound(tasks[s].proyectoId, after)
    BY <2>2, <2>4, <2>5, SoundStays
  <2>. QED
    BY <2>6 DEF after
<1>3. SyncedIsSound'
  BY SoundStays DEF SyncedIsSound
<1>. QED
  BY <1>1, <1>2, <1>3

\* A transaction that was checked begins to hold its rows.
LEMMA ApplyKeepsRows ==
  ASSUME ConfigTypeOK, RowsAgree, NEW s \in Syncs \cup Pushes, Apply(s)
  PROVE  RowsAgree'
<1> USE DEF RowsAgree
<1> DEFINE task   == tasks[s]
           writes == Projection(task.existing, Items(task))
           next   == [pc |-> "commit", proyectoId |-> task.proyectoId, noted |-> task.noted,
                      got |-> task.got, from |-> task.from, writes |-> writes]
<1>1. task.pc = "apply" /\ NotLocked(s, writes) /\ UNCHANGED <<linkVars, versions, rows, applied, stale, pushed, notedFor>>
  BY DEF Apply
<1>2. /\ task.proyectoId \in Projects /\ task.noted \in Versions /\ task.got \in Got /\ task.from \subseteq Projects
  BY <1>1, TaskFields
<1>3. /\ writes \in [Rows -> Row \cup {None}]
      /\ \A id \in Rows : writes[id] # None =>
           ProjectOf[id] = task.proyectoId /\ writes[id].own = OwnPart(None, rows[id])
  BY <1>1, ProjectionOf
<1> HIDE DEF writes
<1>4. next \in Task /\ next.pc = "commit" /\ next.writes = writes /\ next.proyectoId = task.proyectoId
  BY <1>2, <1>3 DEF Task
<1>5. CASE Keep(s, AfterFailure(task))
  <2>1. /\ tasks'[s].pc = "idle"
        /\ \A t \in Syncs \cup Pushes : t # s => tasks'[t] = tasks[t]
    BY <1>5, TasksOf, IdleTask DEF AfterFailure
  <2>. QED
    BY <1>1, <2>1, RowsStay
<1>6. CASE /\ s \in Syncs => SyncIsSound(task.proyectoId, Over(rows, writes))
           /\ Keep(s, next)
  <2> HIDE DEF next
  <2>1. /\ tasks'[s] = next
        /\ \A t \in Syncs \cup Pushes : t # s => tasks'[t] = tasks[t]
    BY <1>4, <1>6, TasksOf
  <2>2. \A t \in (Syncs \cup Pushes) \ {s} : tasks[t].pc = "commit" =>
          \A id \in Rows : writes[id] = None \/ tasks[t].writes[id] = None
    BY <1>1 DEF NotLocked, ConfigTypeOK
  <2>3. WritesHeld'
    BY <1>1, <1>3, <1>4, <2>1, <2>2 DEF WritesHeld
  <2>4. WritesSound'
    BY <1>1, <1>4, <1>6, <2>1 DEF WritesSound, SyncIsSound
  <2>5. SyncedIsSound'
    BY <1>1 DEF SyncedIsSound
  <2>. QED
    BY <2>3, <2>4, <2>5
<1>. QED
  BY <1>5, <1>6 DEF Apply, writes, next

\* A transaction commits: what others have checked stays sound with its rows.
LEMMA CommitKeepsRows ==
  ASSUME ConfigTypeOK, RowsAgree, NEW s \in Syncs \cup Pushes, Commit(s)
  PROVE  /\ RowsAgree'
         /\ rows' \in [Rows -> Row \cup {None}]
         /\ \A id \in Rows : OwnPart(None, rows'[id]) = OwnPart(None, rows[id])
<1> USE DEF RowsAgree
<1> DEFINE task == tasks[s]
           p    == task.proyectoId
           writes == task.writes
<1>1. /\ task.pc = "commit" /\ p \in Projects
      /\ writes \in [Rows -> Row \cup {None}]
      /\ rows \in [Rows -> Row \cup {None}]
      /\ rows' = Over(rows, writes)
      /\ UNCHANGED <<linkVars, versions>>
  BY TaskFields DEF Commit, ConfigTypeOK
<1>2. /\ rows' \in [Rows -> Row \cup {None}]
      /\ \A id \in Rows : rows'[id] = IF writes[id] = None THEN rows[id] ELSE writes[id]
  BY <1>1, OverOf
<1>3. \A id \in Rows : writes[id] # None =>
        /\ ProjectOf[id] = p /\ writes[id].own = OwnPart(None, rows[id])
        /\ \A t \in (Syncs \cup Pushes) \ {s} : tasks[t].pc = "commit" => tasks[t].writes[id] = None
  BY <1>1 DEF WritesHeld
<1>4. \A id \in Rows : OwnPart(None, rows'[id]) = OwnPart(None, rows[id])
  BY <1>1, <1>2, <1>3 DEF OwnPart
<1>5. /\ tasks'[s].pc # "commit"
      /\ \A t \in Syncs \cup Pushes : t # s => tasks'[t] = tasks[t]
  BY DEF Commit, Keep, ConfigTypeOK, Idle
<1>6. WritesHeld'
  BY <1>4, <1>5 DEF WritesHeld
<1>7. pushed' = (pushed \/ s \in Pushes)
  BY DEF Commit
<1>8. s \notin Pushes => s \in Syncs
  OBVIOUS
<1>9. ~pushed' => Sound(p, rows')
  BY <1>1, <1>7, <1>8 DEF WritesSound
<1>10. \A id \in Rows : rows[id] # None => rows'[id] # None
  BY <1>1, <1>2
<1>11. ASSUME ~pushed', NEW id \in Rows, writes[id] # None
       PROVE  /\ ProjectOf[id] = p
              /\ rows'[id] = writes[id]
              /\ Tipo[id] \in {"modulo", "pension"} => writes[id].ok
              /\ Tipo[id] = "pass" => rows'[Parent[id]] # None
  BY <1>2, <1>3, <1>9, <1>11 DEF Sound
<1> HIDE DEF p, writes
<1>12. WritesSound'
  <2>1. SUFFICES ASSUME ~pushed', NEW t \in Syncs, t # s, tasks[t].pc = "commit"
                 PROVE  Sound(tasks[t].proyectoId, Over(rows', tasks[t].writes))
    BY <1>5 DEF WritesSound
  <2>2. tasks[t].proyectoId \in Projects /\ tasks[t].writes \in [Rows -> Row \cup {None}]
    BY <2>1, TaskFields
  <2> DEFINE before == Over(rows, tasks[t].writes)
             after  == Over(rows', tasks[t].writes)
  <2>3. /\ \A id \in Rows : before[id] = IF tasks[t].writes[id] = None THEN rows[id] ELSE tasks[t].writes[id]
        /\ \A id \in Rows : after[id] = IF tasks[t].writes[id] = None THEN rows'[id] ELSE tasks[t].writes[id]
    BY <1>1, <1>2, <2>2, OverOf
  <2>4. Sound(tasks[t].proyectoId, before)
    BY <1>7, <2>1 DEF WritesSound
  <2> HIDE DEF before, after
  <2>5. \A id \in Rows : before[id] # None => after[id] # None
    BY <1>10, <2>3
  <2>6. \A id \in Rows : rows'[id] # None => after[id] # None
    BY <2>3
  <2>7. ASSUME NEW id \in Rows
        PROVE  \/ after[id] # None => before[id] # None /\ after[id].ok = before[id].ok
               \/ /\ Tipo[id] \in {"modulo", "pension"} => after[id].ok
                  /\ Tipo[id] = "pass" => after[Parent[id]] # None
    <3>1. CASE writes[id] # None /\ tasks[t].writes[id] = None
      <4>1. after[id] = writes[id]
        BY <1>11, <2>1, <2>3, <3>1
      <4>2. Tipo[id] = "pass" => Parent[id] \in Rows
        BY ConfigAssumption
      <4>. QED
        BY <1>11, <2>1, <2>6, <3>1, <4>1, <4>2
    <3>2. CASE writes[id] = None \/ tasks[t].writes[id] # None
      BY <1>2, <2>3, <3>2
    <3>. QED
      BY <3>1, <3>2
  <2>8. Sound(tasks[t].proyectoId, after)
    BY <2>2, <2>4, <2>5, <2>7, SoundStays
  <2>. QED
    BY <2>8 DEF after
<1>13. SyncedIsSound'
  <2>1. SUFFICES ASSUME ~pushed', NEW q \in Projects, \E k \in Kinds : applied'[q][k] # {}
                 PROVE  Sound(q, rows')
    BY DEF SyncedIsSound
  <2>2. CASE q = p
    BY <1>9, <2>1, <2>2
  <2>3. CASE q # p
    <3>1. applied'[q] = applied[q]
      BY <2>3 DEF Commit, ConfigTypeOK, p
    <3>2. Sound(q, rows)
      BY <1>7, <2>1, <3>1 DEF SyncedIsSound
    <3>3. \A id \in Rows : ProjectOf[id] = q => rows'[id] = rows[id]
      BY <1>2, <1>3, <2>3
    <3>. QED
      BY <1>10, <3>2, <3>3, SoundStays
  <2>. QED
    BY <2>2, <2>3
<1>. QED
  BY <1>2, <1>4, <1>6, <1>12, <1>13

----------------------------------------------------------------------------
\* The versions noted, one kind of step after the other.

\* Nothing is noted, and a sync that goes on keeps what it read.
LEMMA NotesStay ==
  ASSUME NotesApplied, UNCHANGED <<applied, notedFor>>,
         installation'.noted = installation.noted,
         \A s \in Syncs : tasks'[s] = tasks[s] \/ tasks'[s].pc = "idle" \/ TaskNotes(s)',
         \A s \in Pushes : tasks'[s] = tasks[s] \/ tasks'[s].pc \notin {"fetch", "note"}
  PROVE  NotesApplied'
<1>1. \A s \in Syncs : TaskNotes(s)'
  BY DEF NotesApplied, TaskNotes
<1>2. \A s \in Pushes : tasks'[s].pc \notin {"fetch", "note"}
  BY DEF NotesApplied
<1>3. NotedBy(applied, installation.noted, notedFor)'
  BY DEF NotesApplied
<1>. QED
  BY <1>1, <1>2, <1>3 DEF NotesApplied

\* Versions that were written stay so.
LEMMA NotedByMore ==
  ASSUME NEW wrote, NEW more, NEW noted, NEW from, NotedBy(wrote, noted, from),
         \A p \in Projects, k \in Kinds : wrote[p][k] \subseteq more[p][k]
  PROVE  NotedBy(more, noted, from)
BY DEF NotedBy

\* A call of the link keeps the versions noted, or resets them.
LEMMA LinkKeepsNotes ==
  ASSUME SyncInv, LinkStep
  PROVE  NotesApplied'
<1> USE DEF SyncInv
<1>1. UNCHANGED <<tasks, applied>>
  BY DEF LinkStep
<1>2. ASSUME NEW o \in Operators, StatusWrite(o)
      PROVE  installation'.noted = installation.noted
  BY <1>2 DEF StatusWrite, Linked, Reviewed, Installation
<1>3. CASE UNCHANGED notedFor /\ installation'.noted = installation.noted
  BY <1>1, <1>3, NotesStay
<1>4. CASE notedFor' = {} /\ installation'.noted = NothingNoted
  <2>1. NotedBy(applied', installation'.noted, notedFor')
    BY <1>4 DEF NotedBy, NothingNoted
  <2>. QED
    BY <1>1, <2>1 DEF NotesApplied, TaskNotes
<1>5. ASSUME NEW o \in Operators, ResetWrite(o)
      PROVE  installation'.noted = NothingNoted
  BY <1>5 DEF ResetWrite, Unlinked, Installation
<1>6. ASSUME NEW o \in Operators, ResetRead(o) \/ StatusAsk(o) \/ AnswerLost(o)
      PROVE  UNCHANGED installation
  BY <1>6 DEF ResetRead, StatusAsk, AnswerLost
<1>7. ASSUME NEW o \in Operators, RequestWrite(o)
      PROVE  installation'.noted = installation.noted
  BY <1>7 DEF RequestWrite, Requested, Installation
<1>8. ASSUME NEW o \in Operators, NEW p \in Projects, RequestSend(o, p)
      PROVE  UNCHANGED installation
  BY <1>8 DEF RequestSend
<1>9. ASSUME NEW r \in Responses, RotateStart(r) \/ RotateFails(r) \/ RotateAsk(r)
      PROVE  UNCHANGED installation
  BY <1>9 DEF RotateStart, RotateFails, RotateAsk
<1>10. ASSUME NEW r \in Responses, RotateStore(r)
       PROVE  installation'.noted = installation.noted
  <2>1. PICK t : t = rotations[r].token
    OBVIOUS
  <2>2. installation' = [installation EXCEPT !.token = t]
    BY <1>10, <2>1 DEF RotateStore
  <2>. QED
    BY <2>2 DEF ConfigTypeOK, LinkTypeOK, LocalInstallation
<1>11. ASSUME NEW p \in Projects, CloudApproves(p) \/ CloudRejects(p)
       PROVE  UNCHANGED installation
  BY <1>11 DEF CloudApproves, CloudRejects
<1>12. LinkCalls =>
         (\E o \in Operators : ResetWrite(o)) \/ installation'.noted = installation.noted
  BY <1>2, <1>6, <1>7, <1>8, <1>9, <1>10, <1>11 DEF LinkCalls
<1>13. \/ UNCHANGED notedFor /\ \E o \in Operators : StatusWrite(o)
       \/ /\ notedFor' = IF \E o \in Operators : ResetWrite(o) THEN {} ELSE notedFor
          /\ LinkCalls
  BY DEF LinkStep
<1>. QED
  BY <1>2, <1>3, <1>4, <1>5, <1>12, <1>13

\* The versions of a sync that committed are noted.
LEMMA NoteKeepsNotes ==
  ASSUME ConfigTypeOK, LinkInv, NotesApplied, NEW s \in Syncs, Note(s)
  PROVE  /\ NotesApplied'
         /\ notedFor' \subseteq Projects
         /\ installation' \in LocalInstallation
         /\ installation'.token = installation.token
         /\ installation'.status = installation.status
         /\ installation'.proyectoId = installation.proyectoId
<1> DEFINE task == tasks[s]
           versionsNoted == [k \in Kinds |-> IF task.got[k] = 0 THEN installation.noted[k]
                                             ELSE task.got[k]]
<1>1. /\ task.pc = "note" /\ task.got \in Got /\ task.proyectoId \in Projects
      /\ task.from \subseteq Projects /\ TaskNotes(s)
      /\ installation' = [installation EXCEPT !.noted = versionsNoted]
      /\ notedFor' = notedFor \cup task.from \cup {task.proyectoId}
      /\ UNCHANGED applied
  BY TaskFields DEF Note, Noted, NotesApplied
<1>2. installation \in LocalInstallation /\ installation.noted \in Versions
  BY InstallationFields DEF LinkInv, LinkTypeOK
<1>3. versionsNoted \in Versions
  BY <1>1, <1>2 DEF Got, Versions, TaskNotes
<1>4. \A k \in Kinds : versionsNoted[k] = IF task.got[k] = 0 THEN installation.noted[k] ELSE task.got[k]
  OBVIOUS
<1> HIDE DEF versionsNoted
<1>5. /\ installation' \in LocalInstallation
      /\ installation'.noted = versionsNoted
      /\ installation'.token = installation.token
      /\ installation'.status = installation.status
      /\ installation'.proyectoId = installation.proyectoId
  BY <1>1, <1>2, <1>3 DEF LocalInstallation
<1>6. /\ tasks'[s].pc = "idle"
      /\ \A t \in Syncs \cup Pushes : t # s => tasks'[t] = tasks[t]
  BY TasksOf, IdleTask DEF Note
<1>7. ASSUME NEW p \in Projects, notedFor' = {p}, NEW k \in Kinds
      PROVE  versionsNoted[k] \in {0} \cup applied[p][k]
  <2>1. task.proyectoId = p /\ notedFor \in {{}, {p}} /\ task.from \in {{}, {p}}
    BY <1>1, <1>7
  <2>2. installation.noted[k] \in {0} \cup applied[p][k]
    BY <2>1 DEF NotesApplied, NotedBy
  <2>3. task.noted[k] \in {0} \cup applied[p][k]
    BY <1>1, <2>1 DEF TaskNotes, NotedBy
  <2>4. task.got[k] # None /\ (k \in ToApply(task) => task.got[k] \in applied[p][k])
    BY <1>1, <2>1 DEF TaskNotes
  <2>5. k \notin ToApply(task) => task.got[k] = task.noted[k]
    BY <2>4 DEF ToApply, AlreadyApplied
  <2>. QED
    BY <1>4, <2>2, <2>3, <2>4, <2>5
<1>8. NotedBy(applied', installation'.noted, notedFor')
  BY <1>1, <1>5, <1>7 DEF NotedBy
<1>9. NotesApplied'
  <2>1. \A t \in Syncs : TaskNotes(t)'
    BY <1>1, <1>6 DEF NotesApplied, TaskNotes
  <2>2. \A t \in Pushes : tasks'[t].pc \notin {"fetch", "note"}
    BY <1>6 DEF NotesApplied
  <2>. QED
    BY <1>8, <2>1, <2>2 DEF NotesApplied
<1>. QED
  BY <1>1, <1>5, <1>9 DEF ConfigTypeOK

----------------------------------------------------------------------------
\* The actions of the syncs, one by one.

\* A step of one sync or push that only changes what it remembers, under a link that
\* stays as it is.
LEMMA TaskStepKeeps ==
  ASSUME SyncInv, NEW s \in Syncs \cup Pushes, NEW task \in Task, Keep(s, task),
         LinkTypeOK', LinkInv', UNCHANGED <<installation, links, crossed, versions, rows, applied, stale, pushed, notedFor>>,
         task.pc # "commit",
         s \in Syncs =>
           /\ task.pc # "push"
           /\ task.pc \in {"apply", "note"} => \A k \in Kinds : task.got[k] # None
           /\ task.pc # "note"
           /\ task.pc = "idle" \/ NotedBy(applied, task.noted, task.from),
         s \in Pushes => task.pc \notin {"fetch", "note"}
  PROVE  SyncInv'
<1> USE DEF SyncInv
<1>1. /\ tasks' \in [Syncs \cup Pushes -> Task]
      /\ tasks'[s] = task
      /\ \A t \in Syncs \cup Pushes : t # s => tasks'[t] = tasks[t]
  BY TasksOf
<1>2. ConfigTypeOK'
  BY <1>1 DEF ConfigTypeOK
<1>3. RowsAgree'
  BY <1>1, RowsStay
<1>4. NotesApplied'
  <2>1. \A t \in Syncs : tasks'[t] = tasks[t] \/ tasks'[t].pc = "idle" \/ TaskNotes(t)'
    BY <1>1 DEF TaskNotes
  <2>2. \A t \in Pushes : tasks'[t] = tasks[t] \/ tasks'[t].pc \notin {"fetch", "note"}
    BY <1>1
  <2>. QED
    BY <2>1, <2>2, NotesStay
<1>. QED
  BY <1>2, <1>3, <1>4

LEMMA SyncStartKeeps ==
  ASSUME SyncInv, NEW s \in Syncs, SyncStart(s)
  PROVE  SyncInv'
<1> DEFINE task == [pc |-> "fetch", proyectoId |-> installation.proyectoId,
                    noted |-> installation.noted, got |-> [k \in Kinds |-> None], from |-> notedFor]
<1>1. LinkInv' /\ LinkTypeOK'
  BY LinkStays DEF SyncInv, SyncStart, LinkInv
<1>2. /\ installation.proyectoId \in Projects /\ installation.noted \in Versions
      /\ notedFor \subseteq Projects
      /\ NotedBy(applied, installation.noted, notedFor)
  BY InstallationFields
  DEF SyncInv, SyncStart, LinkInv, CallsBegan, LinkTypeOK, NotesApplied, ConfigTypeOK
<1>3. [k \in Kinds |-> None] \in Got
  BY DEF Got
<1>4. /\ task \in Task /\ task.pc = "fetch"
      /\ task.noted = installation.noted /\ task.from = notedFor
  BY <1>2, <1>3 DEF Task
<1>5. /\ Keep(s, task)
      /\ UNCHANGED <<installation, links, crossed, versions, rows, applied, stale, pushed, notedFor>>
  BY DEF SyncStart, linkVars
<1>6. s \notin Pushes
  BY ConfigAssumption
<1> HIDE DEF task
<1>. QED
  BY <1>1, <1>2, <1>4, <1>5, <1>6, TaskStepKeeps

LEMMA FetchKeeps ==
  ASSUME SyncInv, NEW s \in Syncs \cup Pushes, NEW k \in Kinds, Fetch(s, k)
  PROVE  SyncInv'
<1> DEFINE task  == tasks[s]
           p     == task.proyectoId
           got   == [task.got EXCEPT ![k] = versions[p][k]]
           next  == [task EXCEPT !.got = got]
<1>1. /\ task.pc = "fetch" /\ task \in Task
      /\ p \in Projects /\ task.got \in Got /\ task.noted \in Versions /\ task.from \subseteq Projects
  BY TaskFields DEF SyncInv, Fetch
<1>2. versions[p][k] \in Nat /\ versions[p][k] <= MaxVersion[k]
  BY <1>1 DEF SyncInv, ConfigTypeOK, Versions
<1>3. got \in Got
  BY <1>1, <1>2 DEF Got
<1> HIDE DEF got
<1>4. task \in [pc : {"fetch", "note"}, proyectoId : Projects, noted : Versions, got : Got, from : SUBSET Projects]
  BY <1>1 DEF Task
<1>5. /\ next \in Task /\ next.pc = "fetch"
      /\ next.noted = task.noted /\ next.from = task.from
  BY <1>1, <1>3, <1>4 DEF Task
<1>6. /\ Keep(s, next)
      /\ MayFetch(s) /\ tokens' = AfterUse(installation.token)
      /\ UNCHANGED <<installation, pending, operators, rotations, reviews, links, crossed, faults,
                     versions, rows, applied, stale, pushed, notedFor>>
  BY DEF Fetch, got
<1>7. LinkTypeOK' /\ LinkInv'
  <2>1. /\ installation.token \in Token /\ NotNewer(installation.token)
        /\ Accepts(installation.token)
    BY <1>6, OwnToken DEF SyncInv, MayFetch
  <2>2. LinkTypeOK'
    BY <1>6, <2>1, UseFields DEF SyncInv, LinkInv, LinkTypeOK
  <2>. QED
    BY <1>6, <2>1, <2>2, UseKeeps DEF SyncInv
<1>8. s \notin Pushes /\ (s \in Syncs => NotedBy(applied, task.noted, task.from))
  BY <1>1 DEF SyncInv, NotesApplied, TaskNotes
<1> HIDE DEF next
<1>. QED
  BY <1>1, <1>5, <1>6, <1>7, <1>8, TaskStepKeeps

LEMMA FetchFailsKeeps ==
  ASSUME SyncInv, NEW s \in Syncs \cup Pushes, FetchFails(s)
  PROVE  SyncInv'
<1>1. /\ UNCHANGED <<installation, pending, operators, rotations, reviews, tokens, links, crossed,
                     versions, rows, applied, stale, pushed, notedFor>>
      /\ Keep(s, Idle)
  BY DEF FetchFails
<1>2. faults' = faults \/ (faults < MaxFaults /\ faults' = faults + 1)
  BY DEF FetchFails
<1>3. LinkTypeOK'
  BY <1>1, <1>2, FaultKeeps DEF SyncInv, LinkInv, LinkTypeOK
<1>4. LinkInv'
  BY <1>1, <1>3, CallsOnlyKeep DEF SyncInv
<1>. QED
  BY <1>1, <1>3, <1>4, IdleTask, TaskStepKeeps

LEMMA PushKeeps ==
  ASSUME SyncInv,
         \/ \E s \in Pushes, p \in Projects, k \in Kinds : PushSend(s, p, k)
         \/ \E s \in Syncs \cup Pushes : PushRefused(s)
  PROVE  SyncInv'
<1>1. LinkInv' /\ LinkTypeOK'
  <2>1. UNCHANGED linkVars
    BY DEF PushSend, PushRefused
  <2>. QED
    BY <2>1, LinkStays DEF SyncInv, LinkInv
<1>2. ASSUME NEW s \in Pushes, NEW p \in Projects, NEW k \in Kinds, PushSend(s, p, k)
      PROVE  SyncInv'
  <2> DEFINE got  == [x \in Kinds |-> IF x = k THEN versions[p][k] ELSE None]
             task == [pc |-> "push", proyectoId |-> p, noted |-> NothingNoted, got |-> got, from |-> {}]
  <2>1. versions[p][k] \in Nat /\ versions[p][k] <= MaxVersion[k]
    BY DEF SyncInv, ConfigTypeOK, Versions
  <2>2. got \in Got
    BY <2>1 DEF Got
  <2>3. NothingNoted \in Versions
    BY LinkAssumption DEF NothingNoted, Versions
  <2>4. /\ Keep(s, task)
        /\ UNCHANGED <<installation, links, crossed, versions, rows, applied, stale, pushed, notedFor>>
    BY <1>2 DEF PushSend, linkVars
  <2> HIDE DEF got
  <2>5. task \in Task /\ task.pc = "push"
    BY <2>2, <2>3 DEF Task
  <2>6. s \notin Syncs
    BY ConfigAssumption
  <2> HIDE DEF task
  <2>. QED
    BY <1>1, <2>4, <2>5, <2>6, TaskStepKeeps
<1>3. ASSUME NEW s \in Syncs \cup Pushes, PushRefused(s)
      PROVE  SyncInv'
  <2>1. /\ Keep(s, Idle)
        /\ UNCHANGED <<installation, links, crossed, versions, rows, applied, stale, pushed, notedFor>>
    BY <1>3 DEF PushRefused, linkVars
  <2>. QED
    BY <1>1, <2>1, IdleTask, TaskStepKeeps
<1>. QED
  BY <1>2, <1>3

LEMMA ReadExistingKeeps ==
  ASSUME SyncInv, NEW s \in Syncs \cup Pushes, ReadExisting(s)
  PROVE  SyncInv'
<1> DEFINE task == tasks[s]
           next == [pc |-> "apply", proyectoId |-> task.proyectoId, noted |-> task.noted,
                    got |-> task.got, from |-> task.from, existing |-> rows]
<1>1. LinkInv' /\ LinkTypeOK'
  BY LinkStays DEF SyncInv, ReadExisting, LinkInv
<1>2. /\ task.pc \in {"fetch", "push"}
      /\ s \in Syncs => \A k \in Kinds : task.got[k] # None
      /\ s \in Syncs => NotedBy(applied, task.noted, task.from)
  BY DEF SyncInv, ReadExisting, NotesApplied, TaskNotes
<1>3. task.proyectoId \in Projects /\ task.got \in Got /\ task.noted \in Versions /\ task.from \subseteq Projects
  BY <1>2, TaskFields DEF SyncInv
<1>4. rows \in [Rows -> Row \cup {None}]
  BY DEF SyncInv, ConfigTypeOK
<1>5. /\ next \in Task /\ next.pc = "apply" /\ next.got = task.got
      /\ next.noted = task.noted /\ next.from = task.from
  BY <1>3, <1>4 DEF Task
<1>6. /\ Keep(s, next)
      /\ UNCHANGED <<installation, links, crossed, versions, rows, applied, stale, pushed, notedFor>>
  BY DEF ReadExisting, linkVars
<1> HIDE DEF next
<1>. QED
  BY <1>1, <1>2, <1>5, <1>6, TaskStepKeeps

LEMMA ApplyKeeps ==
  ASSUME SyncInv, NEW s \in Syncs \cup Pushes, Apply(s)
  PROVE  SyncInv'
<1> USE DEF SyncInv
<1> DEFINE task   == tasks[s]
           writes == Projection(task.existing, Items(task))
           next   == [pc |-> "commit", proyectoId |-> task.proyectoId, noted |-> task.noted,
                      got |-> task.got, from |-> task.from, writes |-> writes]
<1>1. /\ task.pc = "apply" /\ UNCHANGED <<linkVars, versions, rows, applied, stale, pushed, notedFor>>
      /\ Keep(s, next) \/ Keep(s, AfterFailure(task))
  BY DEF Apply
<1>2. LinkInv' /\ LinkTypeOK'
  BY <1>1, LinkStays DEF LinkInv
<1>3. CASE Keep(s, AfterFailure(task))
  <2>1. Keep(s, Idle) /\ UNCHANGED <<installation, links, crossed, versions, rows, applied, stale, pushed, notedFor>>
    BY <1>1, <1>3 DEF AfterFailure, linkVars
  <2>. QED
    BY <1>2, <2>1, IdleTask, TaskStepKeeps
<1>4. CASE Keep(s, next)
  <2>1. task.proyectoId \in Projects /\ task.got \in Got /\ task.noted \in Versions /\ task.from \subseteq Projects
    BY <1>1, TaskFields
  <2>2. writes \in [Rows -> Row \cup {None}]
    BY <1>1, ProjectionOf
  <2> HIDE DEF writes
  <2>3. /\ next \in Task /\ next.pc = "commit" /\ next.got = task.got
        /\ next.noted = task.noted /\ next.from = task.from
    BY <2>1, <2>2 DEF Task
  <2> HIDE DEF next
  <2>4. /\ tasks' \in [Syncs \cup Pushes -> Task]
        /\ tasks'[s] = next
        /\ \A t \in Syncs \cup Pushes : t # s => tasks'[t] = tasks[t]
    BY <1>4, <2>3, TasksOf
  <2>5. ConfigTypeOK'
    BY <1>1, <1>2, <2>4 DEF ConfigTypeOK
  <2>6. RowsAgree'
    BY ApplyKeepsRows
  <2>7. NotesApplied'
    <3>1. s \in Syncs => TaskNotes(s)'
      BY <1>1, <2>3, <2>4 DEF NotesApplied, TaskNotes
    <3>2. \A t \in Syncs : tasks'[t] = tasks[t] \/ tasks'[t].pc = "idle" \/ TaskNotes(t)'
      BY <2>4, <3>1
    <3>3. \A t \in Pushes : tasks'[t] = tasks[t] \/ tasks'[t].pc \notin {"fetch", "note"}
      BY <2>3, <2>4
    <3>4. installation'.noted = installation.noted /\ UNCHANGED <<applied, notedFor>>
      BY <1>1 DEF linkVars
    <3>. QED
      BY <3>2, <3>3, <3>4, NotesStay
  <2>. QED
    BY <1>2, <2>5, <2>6, <2>7
<1>. QED
  BY <1>1, <1>3, <1>4

LEMMA CommitKeeps ==
  ASSUME SyncInv, NEW s \in Syncs \cup Pushes, Commit(s)
  PROVE  SyncInv'
<1> USE DEF SyncInv
<1> DEFINE task == tasks[s]
           next == [pc |-> "note", proyectoId |-> task.proyectoId, noted |-> task.noted,
                    got |-> task.got, from |-> task.from]
           now  == [k \in Kinds |-> IF k \in ToApply(task)
                                    THEN applied[task.proyectoId][k] \cup {task.got[k]}
                                    ELSE applied[task.proyectoId][k]]
<1>1. /\ task.pc = "commit" /\ UNCHANGED <<linkVars, versions, notedFor>>
      /\ applied' = IF s \in Pushes THEN applied
                    ELSE [applied EXCEPT ![task.proyectoId] = now]
      /\ Keep(s, IF s \in Pushes THEN Idle ELSE next)
  BY DEF Commit
<1>2. LinkInv' /\ LinkTypeOK'
  BY <1>1, LinkStays DEF LinkInv
<1>3. task.proyectoId \in Projects /\ task.got \in Got /\ task.noted \in Versions /\ task.from \subseteq Projects
  BY <1>1, TaskFields
<1>4. /\ next \in Task /\ next.pc = "note" /\ next.got = task.got
      /\ next.proyectoId = task.proyectoId /\ next.noted = task.noted /\ next.from = task.from
  BY <1>3 DEF Task
<1> HIDE DEF next, now
<1>5. /\ tasks' \in [Syncs \cup Pushes -> Task]
      /\ tasks'[s] = IF s \in Pushes THEN Idle ELSE next
      /\ \A t \in Syncs \cup Pushes : t # s => tasks'[t] = tasks[t]
  BY <1>1, <1>4, IdleTask, TasksOf
<1>6. s \in Syncs => \A k \in Kinds : task.got[k] \in Nat
  BY <1>1, <1>3 DEF NotesApplied, TaskNotes, Got
<1>7. /\ applied' \in [Projects -> [Kinds -> SUBSET Nat]]
      /\ \A p \in Projects, k \in Kinds : applied[p][k] \subseteq applied'[p][k]
      /\ s \notin Pushes => \A k \in ToApply(task) : task.got[k] \in applied'[task.proyectoId][k]
  <2>1. CASE s \in Pushes
    BY <1>1, <2>1 DEF ConfigTypeOK
  <2>2. CASE s \notin Pushes
    <3>1. now \in [Kinds -> SUBSET Nat]
      BY <1>3, <1>6, <2>2 DEF ConfigTypeOK, now
    <3>2. /\ \A k \in Kinds : applied[task.proyectoId][k] \subseteq now[k]
          /\ \A k \in ToApply(task) : task.got[k] \in now[k]
      BY DEF now, ToApply
    <3>3. applied' = [applied EXCEPT ![task.proyectoId] = now]
      BY <1>1, <2>2
    <3>4. ToApply(task) \subseteq Kinds
      BY DEF ToApply
    <3>. QED
      BY <1>3, <2>2, <3>1, <3>2, <3>3, <3>4 DEF ConfigTypeOK
  <2>. QED
    BY <2>1, <2>2
<1>8. RowsAgree' /\ rows' \in [Rows -> Row \cup {None}]
  BY CommitKeepsRows
<1>9. stale' \in BOOLEAN /\ pushed' \in BOOLEAN
  BY DEF Commit, ConfigTypeOK, Replaced
<1>10. ConfigTypeOK'
  BY <1>1, <1>2, <1>5, <1>7, <1>8, <1>9 DEF ConfigTypeOK
<1>11. NotesApplied'
  <2>1. ASSUME NEW t \in Syncs, tasks'[t].pc # "idle"
        PROVE  /\ tasks'[t].noted = tasks[t].noted /\ tasks'[t].from = tasks[t].from
               /\ tasks'[t].got = tasks[t].got /\ tasks'[t].proyectoId = tasks[t].proyectoId
               /\ tasks[t].pc # "idle" /\ tasks'[t].pc # "push"
               /\ tasks[t].proyectoId \in Projects
               /\ tasks'[t].pc \in {"apply", "commit", "note"} => \A k \in Kinds : tasks[t].got[k] # None
    BY <1>1, <1>4, <1>5, <2>1, IdleTask, TaskFields DEF NotesApplied, TaskNotes
  <2>2. ASSUME NEW t \in Syncs, tasks'[t].pc = "note"
        PROVE  \A k \in ToApply(tasks'[t]) : tasks'[t].got[k] \in applied'[tasks'[t].proyectoId][k]
    <3>1. ToApply(tasks'[t]) = ToApply(tasks[t]) /\ ToApply(tasks[t]) \subseteq Kinds
      BY <2>1, <2>2 DEF ToApply, AlreadyApplied
    <3>2. CASE t = s
      BY <1>5, <1>7, <2>1, <2>2, <3>1, <3>2, IdleTask
    <3>3. CASE t # s
      <4>1. \A k \in ToApply(tasks[t]) : tasks[t].got[k] \in applied[tasks[t].proyectoId][k]
        BY <1>5, <2>2, <3>3 DEF NotesApplied, TaskNotes
      <4>. QED
        BY <1>7, <2>1, <2>2, <3>1, <4>1
    <3>. QED
      BY <3>2, <3>3
  <2>3. \A t \in Syncs : tasks[t].pc # "idle" => NotedBy(applied', tasks[t].noted, tasks[t].from)
    BY <1>7, NotedByMore DEF NotesApplied, TaskNotes
  <2>4. \A t \in Syncs : TaskNotes(t)'
    BY <2>1, <2>2, <2>3 DEF TaskNotes
  <2>5. \A t \in Pushes : tasks'[t].pc \notin {"fetch", "note"}
    BY <1>5, IdleTask DEF NotesApplied
  <2>6. NotedBy(applied', installation'.noted, notedFor')
    BY <1>1, <1>7, NotedByMore DEF NotesApplied, linkVars
  <2>. QED
    BY <2>4, <2>5, <2>6 DEF NotesApplied
<1>. QED
  BY <1>2, <1>8, <1>10, <1>11

LEMMA NoteKeeps ==
  ASSUME SyncInv, NEW s \in Syncs \cup Pushes, Note(s)
  PROVE  SyncInv'
<1>1. s \in Syncs
  BY DEF SyncInv, NotesApplied, Note
<1>2. /\ NotesApplied' /\ notedFor' \subseteq Projects
      /\ installation' \in LocalInstallation
      /\ installation'.token = installation.token
      /\ installation'.status = installation.status
      /\ installation'.proyectoId = installation.proyectoId
  BY <1>1, NoteKeepsNotes DEF SyncInv
<1>3. UNCHANGED <<pending, operators, rotations, reviews, tokens, links, crossed, faults,
                  versions, rows, applied, stale, pushed>>
  BY DEF Note
<1>4. /\ tasks' \in [Syncs \cup Pushes -> Task]
      /\ tasks'[s].pc = "idle"
      /\ \A t \in Syncs \cup Pushes : t # s => tasks'[t] = tasks[t]
  BY IdleTask, TasksOf DEF SyncInv, Note
<1>5. LinkTypeOK'
  BY <1>2, <1>3 DEF SyncInv, LinkInv, LinkTypeOK
<1>6. LinkInv'
  BY <1>2, <1>3, <1>5, CallsOnlyKeep DEF SyncInv
<1>7. ConfigTypeOK'
  BY <1>2, <1>3, <1>4, <1>5 DEF SyncInv, ConfigTypeOK
<1>8. RowsAgree'
  BY <1>3, <1>4, RowsStay DEF SyncInv
<1>. QED
  BY <1>2, <1>6, <1>7, <1>8 DEF SyncInv

----------------------------------------------------------------------------
\* The row of the project that is written with the link.
LEMMA LinkedProjectOf ==
  ASSUME ConfigTypeOK, NEW p \in Projects
  PROVE  /\ LinkedProject(p) \in [Rows -> Row \cup {None}]
         /\ \A id \in Rows :
              /\ rows[id] # None => LinkedProject(p)[id] # None
              /\ OwnPart(None, LinkedProject(p)[id]) = OwnPart(None, rows[id])
              /\ LinkedProject(p)[id] = rows[id] \/ Tipo[id] = "proyecto"
<1> DEFINE items == {i \in Snapshots[p]["configuration"][versions[p]["configuration"]] :
                       Tipo[i.id] = "proyecto"}
           id    == CHOOSE x \in Rows : Tipo[x] = "proyecto" /\ ProjectOf[x] = p
           new   == [rev |-> 0, ok |-> TRUE, own |-> FALSE]
           value == IF items = {} THEN IF rows[id] = None THEN new ELSE rows[id]
                    ELSE Written(rows[id], rows[id], CHOOSE i \in items : TRUE)
<1>1. id \in Rows /\ Tipo[id] = "proyecto"
  BY ConfigAssumption
<1>2. rows \in [Rows -> Row \cup {None}] /\ rows[id] \in Row \cup {None}
  BY <1>1 DEF ConfigTypeOK
<1>3. new \in Row /\ new.own = FALSE
  BY DEF Row
<1>4. \A i \in items : i \in Item
  <2>1. "configuration" \in Kinds
    BY ConfigAssumption
  <2>2. versions[p]["configuration"] \in 0 .. MaxVersion["configuration"]
    BY <2>1, LinkAssumption DEF ConfigTypeOK, Versions
  <2>. QED
    BY <2>1, <2>2, ConfigAssumption
<1>5. LinkedProject(p) = [rows EXCEPT ![id] = value]
  BY DEF LinkedProject
<1> HIDE DEF items, id, new
<1>6. value \in Row /\ OwnPart(None, value) = OwnPart(None, rows[id])
  <2>1. CASE items = {} /\ rows[id] = None
    BY <1>3, <2>1, RowFields DEF OwnPart
  <2>2. CASE items = {} /\ rows[id] # None
    BY <1>2, <2>2
  <2>3. CASE items # {}
    <3>1. PICK i : i = CHOOSE x \in items : TRUE
      OBVIOUS
    <3>2. i \in Item
      BY <1>4, <2>3, <3>1
    <3>3. value = Written(rows[id], rows[id], i)
      BY <2>3, <3>1
    <3>4. value \in Row /\ value.own = OwnPart(None, rows[id])
      BY <1>2, <3>2, <3>3, WrittenFields
    <3>. QED
      BY <3>4, RowFields DEF OwnPart
  <2>. QED
    BY <2>1, <2>2, <2>3
<1> HIDE DEF value
<1>. QED
  BY <1>1, <1>2, <1>5, <1>6, RowFields

LEMMA LinkStepKeeps ==
  ASSUME SyncInv, LinkStep
  PROVE  /\ SyncInv'
         /\ \A id \in Rows : OwnPart(None, rows'[id]) = OwnPart(None, rows[id])
<1> USE DEF SyncInv
<1>1. /\ LinkCalls /\ UNCHANGED <<versions, tasks, applied, stale, pushed>>
      /\ notedFor' \subseteq Projects
  BY DEF LinkStep, LinkCalls, ConfigTypeOK
<1>2. LinkInv' /\ LinkTypeOK'
  BY <1>1, LinkNextKeeps DEF LinkNext, LinkInv
<1>3. /\ rows' \in [Rows -> Row \cup {None}]
      /\ \A id \in Rows :
           /\ rows[id] # None => rows'[id] # None
           /\ OwnPart(None, rows'[id]) = OwnPart(None, rows[id])
           /\ rows'[id] = rows[id] \/ Tipo[id] = "proyecto"
  <2>1. CASE UNCHANGED rows
    BY <2>1 DEF ConfigTypeOK
  <2>2. CASE installation'.status = "linked" /\ rows' = LinkedProject(installation'.proyectoId)
    <3>1. PICK p \in Projects : p = installation'.proyectoId
      BY <1>2, <2>2 DEF LinkInv, CallsBegan
    <3>. QED
      BY <2>2, <3>1, LinkedProjectOf
  <2>. QED
    BY <2>1, <2>2 DEF LinkStep
<1>4. ConfigTypeOK'
  BY <1>1, <1>2, <1>3 DEF ConfigTypeOK
<1>5. RowsAgree'
  <2>1. \A id \in Rows :
          \/ rows'[id] # None => rows[id] # None /\ rows'[id].ok = rows[id].ok
          \/ Tipo[id] = "proyecto"
    BY <1>3
  <2>. QED
    BY <1>1, <1>3, <2>1, RowChanges
<1>6. NotesApplied'
  BY LinkKeepsNotes
<1>. QED
  BY <1>2, <1>3, <1>4, <1>5, <1>6

LEMMA PublishKeeps ==
  ASSUME SyncInv, NEW p \in Projects, NEW k \in Kinds, Publish(p, k)
  PROVE  SyncInv'
<1> USE DEF SyncInv
<1>1. /\ versions[p][k] < MaxVersion[k] /\ versions' = [versions EXCEPT ![p][k] = @ + 1]
      /\ UNCHANGED <<linkVars, rows, tasks, applied, stale, pushed, notedFor>>
  BY DEF Publish
<1>2. LinkInv' /\ LinkTypeOK'
  BY <1>1, LinkStays DEF LinkInv
<1>3. versions' \in [Projects -> Versions]
  <2>1. versions[p] \in [Kinds -> Nat] /\ versions[p] \in Versions
    BY DEF ConfigTypeOK, Versions
  <2>2. [versions[p] EXCEPT ![k] = versions[p][k] + 1] \in Versions
    BY <1>1, <2>1, LinkAssumption DEF Versions
  <2>. QED
    BY <1>1, <2>2 DEF ConfigTypeOK
<1>4. ConfigTypeOK'
  BY <1>1, <1>2, <1>3 DEF ConfigTypeOK
<1>5. RowsAgree'
  BY <1>1, RowsStay
<1>6. NotesApplied'
  BY <1>1, NotesStay DEF linkVars
<1>. QED
  BY <1>2, <1>4, <1>5, <1>6

LEMMA UseRowKeeps ==
  ASSUME SyncInv, NEW row \in Rows, UseRow(row)
  PROVE  SyncInv'
<1> USE DEF SyncInv
<1>1. /\ rows[row] # None /\ rows' = [rows EXCEPT ![row].own = TRUE]
      /\ \A t \in Syncs \cup Pushes : tasks[t].pc = "commit" => tasks[t].writes[row] = None
      /\ UNCHANGED <<linkVars, versions, tasks, applied, stale, pushed, notedFor>>
  BY DEF UseRow, ConfigTypeOK
<1>2. LinkInv' /\ LinkTypeOK'
  BY <1>1, LinkStays DEF LinkInv
<1>3. rows[row] \in Row /\ [rows[row] EXCEPT !.own = TRUE] \in Row
      /\ [rows[row] EXCEPT !.own = TRUE].ok = rows[row].ok
  BY <1>1 DEF ConfigTypeOK, Row
<1>4. /\ rows' \in [Rows -> Row \cup {None}]
      /\ rows'[row] \in Row /\ rows'[row].ok = rows[row].ok
      /\ \A id \in Rows : id # row => rows'[id] = rows[id]
  BY <1>1, <1>3 DEF ConfigTypeOK
<1>5. ConfigTypeOK'
  BY <1>1, <1>2, <1>4 DEF ConfigTypeOK
<1>6. RowsAgree'
  <2>1. \A id \in Rows :
           /\ rows[id] # None => rows'[id] # None
           /\ \/ OwnPart(None, rows'[id]) = OwnPart(None, rows[id])
              \/ \A s \in Syncs \cup Pushes : tasks[s].pc = "commit" => tasks[s].writes[id] = None
           /\ rows'[id] # None => rows[id] # None /\ rows'[id].ok = rows[id].ok
    BY <1>1, <1>4, RowFields
  <2>. QED
    BY <1>1, <1>4, <2>1, RowChanges
<1>7. NotesApplied'
  BY <1>1, NotesStay DEF linkVars
<1>. QED
  BY <1>2, <1>5, <1>6, <1>7

LEMMA ServerStopsKeeps ==
  ASSUME SyncInv, ServerStops
  PROVE  SyncInv'
<1> USE DEF SyncInv
<1>1. /\ faults' = faults \/ (faults < MaxFaults /\ faults' = faults + 1)
      /\ tasks' = [s \in Syncs \cup Pushes |-> Idle]
      /\ operators' = [o \in Operators |-> Idle]
      /\ rotations' = [r \in Responses |-> Idle]
      /\ UNCHANGED <<installation, pending, reviews, tokens, links, crossed,
                     versions, rows, applied, stale, pushed, notedFor>>
  BY DEF ServerStops
<1>2. LinkTypeOK'
  BY <1>1, IdleCalls, FaultKeeps DEF LinkInv, LinkTypeOK
<1>3. LinkInv'
  BY <1>1, <1>2, IdleCalls, CallsOnlyKeep
<1>4. tasks' \in [Syncs \cup Pushes -> Task] /\ \A s \in Syncs \cup Pushes : tasks'[s].pc = "idle"
  BY <1>1, IdleTask
<1>5. ConfigTypeOK'
  BY <1>1, <1>2, <1>4 DEF ConfigTypeOK
<1>6. RowsAgree'
  BY <1>1, <1>4, RowsStay
<1>7. NotesApplied'
  BY <1>1, <1>4, NotesStay
<1>. QED
  BY <1>3, <1>5, <1>6, <1>7

LEMMA SyncContinuesKeeps ==
  ASSUME SyncInv, NEW s \in Syncs \cup Pushes, SyncContinues(s)
  PROVE  SyncInv'
BY FetchKeeps, FetchFailsKeeps, PushKeeps, ReadExistingKeeps, ApplyKeeps, CommitKeeps, NoteKeeps
DEF SyncContinues

LEMMA ConfigStepKeeps ==
  ASSUME SyncInv, [ConfigNext]_configVars
  PROVE  SyncInv'
<1>1. CASE UNCHANGED configVars
  <2>1. LinkInv'
    BY <1>1, LinkStays DEF SyncInv, configVars
  <2>2. UNCHANGED <<versions, rows, tasks, applied, stale, pushed, notedFor>>
    BY <1>1 DEF configVars, syncVars
  <2>3. ConfigTypeOK'
    BY <2>1, <2>2 DEF SyncInv, ConfigTypeOK, LinkInv
  <2>4. RowsAgree'
    BY <2>2, RowsStay DEF SyncInv
  <2>5. NotesApplied'
    BY <1>1, <2>2, NotesStay DEF SyncInv, configVars, linkVars
  <2>. QED
    BY <2>1, <2>3, <2>4, <2>5 DEF SyncInv
<1>2. CASE LinkStep
  BY <1>2, LinkStepKeeps
<1>3. ASSUME NEW p \in Projects, NEW k \in Kinds, Publish(p, k) \/ \E s \in Pushes : PushSend(s, p, k)
      PROVE  SyncInv'
  BY <1>3, PublishKeeps, PushKeeps
<1>4. ASSUME NEW s \in Syncs, SyncStart(s)
      PROVE  SyncInv'
  BY <1>4, SyncStartKeeps
<1>5. ASSUME NEW s \in Syncs \cup Pushes, SyncContinues(s)
      PROVE  SyncInv'
  BY <1>5, SyncContinuesKeeps
<1>6. ASSUME NEW id \in Rows, UseRow(id)
      PROVE  SyncInv'
  BY <1>6, UseRowKeeps
<1>7. CASE ServerStops
  BY <1>7, ServerStopsKeeps
<1>. QED
  BY <1>1, <1>2, <1>3, <1>4, <1>5, <1>6, <1>7 DEF ConfigNext

LEMMA ConfigInitHolds == ConfigInit => SyncInv
<1>. SUFFICES ASSUME ConfigInit
              PROVE  SyncInv
  OBVIOUS
<1>1. LinkInv /\ LinkTypeOK
  BY LinkInitHolds DEF ConfigInit, LinkInv
<1>2. tasks \in [Syncs \cup Pushes -> Task] /\ \A s \in Syncs \cup Pushes : tasks[s].pc = "idle"
  BY IdleTask DEF ConfigInit
<1>3. NothingNoted \in Versions
  BY LinkAssumption DEF NothingNoted, Versions
<1>4. ConfigTypeOK
  BY <1>1, <1>2, <1>3 DEF ConfigInit, ConfigTypeOK
<1>5. RowsAgree
  BY <1>2 DEF ConfigInit, RowsAgree, WritesHeld, WritesSound, SyncedIsSound
<1>6. installation.noted = NothingNoted /\ notedFor = {}
  BY DEF ConfigInit, LinkInit, Unlinked, Installation
<1>7. NotedBy(applied, installation.noted, notedFor)
  BY <1>6 DEF NotedBy, NothingNoted
<1>8. NotesApplied
  BY <1>2, <1>7 DEF NotesApplied, TaskNotes
<1>. QED
  BY <1>1, <1>4, <1>5, <1>8 DEF SyncInv

\* The link, the syncs under way, the rows they hold and the versions noted agree
\* (syncNow, applyProjection, updateSyncState).
THEOREM SyncInvariant == ConfigSpec => []SyncInv
<1>1. SyncInv /\ [ConfigNext]_configVars => SyncInv'
  BY ConfigStepKeeps
<1>. QED
  BY <1>1, ConfigInitHolds, PTL DEF ConfigSpec

\* While only syncs of the linked project noted versions since the last reset, each version
\* noted is of a snapshot that a sync wrote for it (syncNow).
THEOREM NotedVersionWasApplied == ConfigSpec => []NotedWasApplied
<1>1. SyncInv => NotedWasApplied
  <2>1. SUFFICES ASSUME SyncInv, installation.status = "linked", NotedForIt, NEW k \in Kinds
                 PROVE  installation.noted[k] \in {0} \cup applied[installation.proyectoId][k]
    BY DEF NotedWasApplied
  <2>2. installation.proyectoId \in Projects
    BY <2>1 DEF SyncInv, LinkInv, CallsBegan
  <2>3. notedFor \in {{}, {installation.proyectoId}}
    BY <2>1 DEF NotedForIt
  <2>. QED
    BY <2>1, <2>2, <2>3 DEF SyncInv, NotesApplied, NotedBy
<1>. QED
  BY <1>1, SyncInvariant, PTL

\* What syncs leave behind passes the integrity check, however they interleave (syncNow,
\* validateLocalIntegrity).
THEOREM SyncedRowsSound == ConfigSpec => []SyncedIsSound
<1>1. SyncInv => SyncedIsSound
  BY DEF SyncInv, RowsAgree
<1>. QED
  BY <1>1, SyncInvariant, PTL

\* Any step of the specification keeps the part of each row that this server owns.
LEMMA OwnPartKept ==
  ASSUME SyncInv, [ConfigNext]_configVars, NEW id \in Rows, rows[id] # None, rows[id].own
  PROVE  rows'[id] # None /\ rows'[id].own
<1>1. rows[id] \in Row
  BY DEF SyncInv, ConfigTypeOK
<1>2. OwnPart(None, rows'[id]) = OwnPart(None, rows[id]) => rows'[id] # None /\ rows'[id].own
  BY <1>1 DEF OwnPart
<1>3. UNCHANGED rows => rows'[id] # None /\ rows'[id].own
  OBVIOUS
<1>4. CASE LinkStep
  BY <1>2, <1>4, LinkStepKeeps
<1>5. ASSUME NEW s \in Syncs \cup Pushes, SyncContinues(s)
      PROVE  rows'[id] # None /\ rows'[id].own
  <2>1. CASE Commit(s)
    BY <1>2, <2>1, CommitKeepsRows DEF SyncInv
  <2>2. CASE ~Commit(s)
    BY <1>3, <1>5, <2>2
    DEF SyncContinues, Fetch, FetchFails, PushRefused, ReadExisting, Apply, Note
  <2>. QED
    BY <2>1, <2>2
<1>6. ASSUME NEW row \in Rows, UseRow(row)
      PROVE  rows'[id] # None /\ rows'[id].own
  <2>1. ~rows[row].own /\ rows' = [rows EXCEPT ![row].own = TRUE]
    BY <1>6 DEF UseRow
  <2>2. row # id
    BY <2>1
  <2>. QED
    BY <2>1, <2>2 DEF SyncInv, ConfigTypeOK
<1>7. CASE ServerStops \/ UNCHANGED configVars
  BY <1>3, <1>7 DEF ServerStops, configVars, syncVars
<1>8. ASSUME NEW p \in Projects, NEW k \in Kinds, Publish(p, k) \/ \E s \in Pushes : PushSend(s, p, k)
      PROVE  rows'[id] # None /\ rows'[id].own
  BY <1>3, <1>8 DEF Publish, PushSend
<1>9. ASSUME NEW s \in Syncs, SyncStart(s)
      PROVE  rows'[id] # None /\ rows'[id].own
  BY <1>3, <1>9 DEF SyncStart
<1>. QED
  BY <1>4, <1>5, <1>6, <1>7, <1>8, <1>9 DEF ConfigNext

\* No sync or push undoes the part of a row this server owns (pensionPassSpec, moduloSpec,
\* usuarioSpec).
THEOREM OwnPartSurvives == ConfigSpec => OwnStateKept
<1>1. SyncInv /\ [ConfigNext]_configVars =>
        [\A id \in Rows : rows[id] # None /\ rows[id].own => rows'[id] # None /\ rows'[id].own]_configVars
  BY OwnPartKept
<1>. QED
  BY <1>1, SyncInvariant, PTL DEF ConfigSpec, OwnStateKept
=============================================================================
