-------------------------------- MODULE Access --------------------------------
(***************************************************************************)
(* Who may operate.  Users and their permission profiles belong to the     *)
(* cloud; this server keeps copies, written by the configuration sync and  *)
(* by each login that the cloud accepts.  When the cloud cannot be reached *)
(* a login is checked against the copy, if the cloud accepted the user     *)
(* recently.  Tokens name a user; every request reads the copies again.    *)
(*                                                                         *)
(* Of the configuration sync only what it writes of users and profiles and *)
(* when it notes the version is here; ConfigSync has the rest.             *)
(*                                                                         *)
(* Left out: the other reasons a user may not operate (email, role), the   *)
(* high score, the project scope of a request (InstallationLink), and the  *)
(* listing of users.                                                       *)
(***************************************************************************)
EXTENDS Processes, Integers, FiniteSets

CONSTANTS
  Users,
  Passwords,
  Profiles,    \* permission profiles of the operative application
  Modules,
  MaxAge,      \* OFFLINE_LOGIN_MAX_AGE_DAYS
  TokenDays,   \* SESSION_TOKEN_DURATION_SECONDS
  Logins,      \* logins under way at the same time
  Requests,    \* authenticated requests under way at the same time
  MaxDay,      \* bound: days
  MaxChanges,  \* bound: changes in the cloud
  MaxFaults    \* bound: syncs that fail, and stops

ASSUME AccessAssumption ==
  /\ MaxAge \in Nat /\ TokenDays \in Nat /\ MaxDay \in Nat \ {0} /\ MaxFaults \in Nat
  /\ \A s \in {Users, Passwords, Profiles, Modules, Logins, Requests} : None \notin s

VARIABLES
  today,
  cloudUsers,     \* the cloud: users ...
  cloudProfiles,  \* ... their profiles ...
  version,        \* ... and the version of its access snapshot
  users,          \* usuarios, usuario_app_permissions
  profiles,       \* permission_profiles
  noted,          \* accessVersion: the version the last sync noted
  sync,           \* what the sync remembers
  tokens,         \* tokens that were issued
  logins,         \* what each login remembers
  requests,       \* what each request remembers
  accepted,       \* history: last day the cloud accepted a login of the user
  known,          \* history: passwords the cloud had for the user
  faults

cloudVars == <<cloudUsers, cloudProfiles, version, known>>
copyVars == <<users, profiles>>
syncVars == <<noted, sync>>
accessVars == <<today, cloudVars, copyVars, syncVars, tokens, logins, requests, accepted, faults>>

----------------------------------------------------------------------------
\* A user without access to the application is not in a copy.
CloudUser == [access : {"active", "inactive", "none"}, password : Passwords, profile : Profiles]

Usuario == [estado : BOOLEAN, password : Passwords, profile : Profiles, lastCloudCheckAt : 0 .. MaxDay]

PermissionProfile == [estado : BOOLEAN, modules : SUBSET Modules]

LoginState ==
       [pc : {"idle"}]
  \cup [pc : {"ask", "fetch", "offline"}, user : Users, password : Passwords, copy : Usuario \cup {None}]
  \cup [pc : {"profile"}, user : Users, remote : CloudUser, content : PermissionProfile]
  \cup [pc : {"user"}, user : Users, remote : CloudUser]
  \cup [pc : {"issue"}, user : Users, password : Passwords, profile : Profiles, offline : BOOLEAN,
        day : 1 .. MaxDay]

RequestState ==
       [pc : {"idle"}]
  \cup [pc : {"profile"}, user : Users, profile : Profiles]
  \cup [pc : {"granted"}, user : Users, modules : SUBSET Modules]
  \cup [pc : {"renew"}, user : Users, profile : Profiles]

AccessTypeOK ==
  /\ today \in 1 .. MaxDay
  /\ cloudUsers \in [Users -> CloudUser]
  /\ cloudProfiles \in [Profiles -> PermissionProfile]
  /\ version \in Nat
  /\ users \in [Users -> Usuario \cup {None}]
  /\ profiles \in [Profiles -> PermissionProfile \cup {None}]
  /\ noted \in Nat
  /\ sync \in [pc : {"idle"}]
       \cup [pc : {"apply", "note"}, version : Nat, users : [Users -> CloudUser],
             profiles : [Profiles -> PermissionProfile]]
  /\ tokens \subseteq [user : Users, until : Nat]
  /\ logins \in [Logins -> LoginState]
  /\ requests \in [Requests -> RequestState]
  /\ accepted \in [Users -> 0 .. MaxDay]
  /\ known \in [Users -> SUBSET Passwords]
  /\ faults \in 0 .. MaxFaults

Learnt(before, us) == [u \in Users |-> before[u] \cup {us[u].password}]

AccessInit ==
  /\ today = 1
  /\ cloudUsers \in [Users -> [access : {"active"}, password : Passwords, profile : Profiles]]
  /\ cloudProfiles \in [Profiles -> [estado : {TRUE}, modules : SUBSET Modules]]
  /\ version = 1
  /\ users = [u \in Users |-> None]
  /\ profiles = [p \in Profiles |-> None]
  /\ noted = 0
  /\ sync = Idle
  /\ tokens = {}
  /\ logins = [l \in Logins |-> Idle]
  /\ requests = [r \in Requests |-> Idle]
  /\ accepted = [u \in Users |-> 0]
  /\ known = Learnt([u \in Users |-> {}], cloudUsers)
  /\ faults = 0

----------------------------------------------------------------------------
NextDay ==
  /\ today < MaxDay
  /\ today' = today + 1
  /\ UNCHANGED <<cloudVars, copyVars, syncVars, tokens, logins, requests, accepted, faults>>

\* External: an administrator of the cloud changes a user or a profile.
CloudBecomes(us, ps) ==
  /\ version <= MaxChanges
  /\ version' = version + 1
  /\ cloudUsers' = us
  /\ cloudProfiles' = ps
  /\ known' = Learnt(known, us)
  /\ UNCHANGED <<today, copyVars, syncVars, tokens, logins, requests, accepted, faults>>

CloudChange ==
  \/ \E u \in Users, c \in CloudUser :
       c # cloudUsers[u] /\ CloudBecomes([cloudUsers EXCEPT ![u] = c], cloudProfiles)
  \/ \E p \in Profiles, c \in PermissionProfile :
       c # cloudProfiles[p] /\ CloudBecomes(cloudUsers, [cloudProfiles EXCEPT ![p] = c])

----------------------------------------------------------------------------
\* The configuration sync, as far as users and profiles go.
SyncFetch ==
  /\ sync.pc = "idle"
  /\ noted # version
  /\ sync' = [pc |-> "apply", version |-> version, users |-> cloudUsers, profiles |-> cloudProfiles]
  /\ UNCHANGED <<today, cloudVars, copyVars, noted, tokens, logins, requests, accepted, faults>>

\* normalizeOperativeUser and normalizeOperativeProfile; the last is a plausible mistake.
IsOperative(c) == c.access # "none"

IsActive(c) == c.access = "active"

IsCopied(c) == IsOperative(c)

HasModules(p) == p.modules # {}

\* writeUsuario leaves alone when the cloud was last asked about the user.
SyncedUser(row, c) ==
  [estado |-> c.access = "active", password |-> c.password, profile |-> c.profile,
   lastCloudCheckAt |-> IF row = None THEN 0 ELSE row.lastCloudCheckAt]

CheckedUser(row, c) ==
  [estado |-> c.access = "active", password |-> c.password, profile |-> c.profile,
   lastCloudCheckAt |-> today]

Synced(row, c) == SyncedUser(row, c)

SyncApply ==
  /\ sync.pc = "apply"
  /\ profiles' = [p \in Profiles |->
       IF HasModules(sync.profiles[p]) THEN sync.profiles[p] ELSE profiles[p]]
  /\ users' = [u \in Users |->
       IF IsCopied(sync.users[u]) THEN Synced(users[u], sync.users[u]) ELSE users[u]]
  /\ sync' = [sync EXCEPT !.pc = "note"]
  /\ UNCHANGED <<today, cloudVars, noted, tokens, logins, requests, accepted, faults>>

SyncNote ==
  /\ sync.pc = "note"
  /\ noted' = sync.version
  /\ sync' = Idle
  /\ UNCHANGED <<today, cloudVars, copyVars, tokens, logins, requests, accepted, faults>>

SyncFails ==
  /\ sync.pc = "apply"
  /\ faults < MaxFaults
  /\ faults' = faults + 1
  /\ sync' = Idle
  /\ UNCHANGED <<today, cloudVars, copyVars, noted, tokens, logins, requests, accepted>>

----------------------------------------------------------------------------
LoginVars == <<today, cloudVars, syncVars, requests, faults>>

Becomes(l, state) == logins' = [logins EXCEPT ![l] = state]

\* loginCorreo, loginTelefono: the copy is read before the cloud is asked.
Login(l, u, password) ==
  /\ logins[l].pc = "idle"
  /\ Becomes(l, [pc |-> "ask", user |-> u, password |-> password, copy |-> users[u]])
  /\ UNCHANGED <<LoginVars, copyVars, tokens, accepted>>

\* External: the cloud accepts the password of a user with access; or it refuses.
AskCloud(l) ==
  LET c == cloudUsers[logins[l].user]
  IN  /\ logins[l].pc = "ask"
      /\ IF c.access = "active" /\ c.password = logins[l].password
         THEN logins' = [logins EXCEPT ![l].pc = "fetch"]
         ELSE Becomes(l, Idle)
      /\ UNCHANGED <<LoginVars, copyVars, tokens, accepted>>

\* No answer, an answer of 500 or more, or no credentials of the installation.
CloudUnavailable(l) ==
  /\ logins[l].pc \in {"ask", "fetch"}
  /\ logins' = [logins EXCEPT ![l].pc = "offline"]
  /\ UNCHANGED <<LoginVars, copyVars, tokens, accepted>>

FetchUser(l) ==
  LET c == cloudUsers[logins[l].user]
      content == cloudProfiles[c.profile]
  IN  /\ logins[l].pc = "fetch"
      /\ IF c.access # "none" /\ content.estado
         THEN Becomes(l, [pc |-> "profile", user |-> logins[l].user, remote |-> c, content |-> content])
         ELSE Becomes(l, Idle)
      /\ UNCHANGED <<LoginVars, copyVars, tokens, accepted>>

UpsertProfile(l) ==
  /\ logins[l].pc = "profile"
  /\ profiles' = [profiles EXCEPT ![logins[l].remote.profile] = logins[l].content]
  /\ Becomes(l, [pc |-> "user", user |-> logins[l].user, remote |-> logins[l].remote])
  /\ UNCHANGED <<LoginVars, users, tokens, accepted>>

\* ensureUserCanOperate, then upsertFromAdministrativo.
UpsertUser(l) ==
  LET u == logins[l].user
      c == logins[l].remote
  IN  /\ logins[l].pc = "user"
      /\ IF c.access = "active"
         THEN /\ users' = [users EXCEPT ![u] = CheckedUser(users[u], c)]
              /\ accepted' = [accepted EXCEPT ![u] = today]
              /\ Becomes(l, [pc |-> "issue", user |-> u, password |-> c.password,
                             profile |-> c.profile, offline |-> FALSE, day |-> today])
         ELSE /\ Becomes(l, Idle)
              /\ UNCHANGED <<users, accepted>>
      /\ UNCHANGED <<LoginVars, profiles, tokens>>

\* ensureOfflineLoginAllowed reads the row again, for when the cloud was asked.
OfflineLoginAllowed(row) ==
  row # None /\ row.lastCloudCheckAt # 0 /\ today - row.lastCloudCheckAt <= MaxAge

LoginOffline(l) ==
  LET copy == logins[l].copy
      u    == logins[l].user
  IN  /\ logins[l].pc = "offline"
      /\ IF /\ copy # None /\ copy.password = logins[l].password
            /\ OfflineLoginAllowed(users[u])
            /\ copy.estado
         THEN Becomes(l, [pc |-> "issue", user |-> u, password |-> copy.password,
                          profile |-> copy.profile, offline |-> TRUE, day |-> today])
         ELSE Becomes(l, Idle)
      /\ UNCHANGED <<LoginVars, copyVars, tokens, accepted>>

\* resolveApplicationPermissions and generateToken, for a login or a renewal.
CanIssue(p) == profiles[p] # None /\ profiles[p].estado

Issued(u, p) == IF CanIssue(p) THEN tokens \cup {[user |-> u, until |-> today + TokenDays]} ELSE tokens

IssueSession(l) ==
  /\ logins[l].pc = "issue"
  /\ tokens' = Issued(logins[l].user, logins[l].profile)
  /\ Becomes(l, Idle)
  /\ UNCHANGED <<LoginVars, copyVars, accepted>>

----------------------------------------------------------------------------
RequestVars == <<today, cloudVars, copyVars, syncVars, logins, accepted, faults>>

\* requireAuth: a token that has not expired, of a user that may operate.
RequireAuth(r, t) ==
  LET row == users[t.user]
  IN  /\ requests[r].pc = "idle"
      /\ today <= t.until
      /\ row # None /\ row.estado
      /\ requests' = [requests EXCEPT ![r] = [pc |-> "profile", user |-> t.user, profile |-> row.profile]]
      /\ UNCHANGED <<RequestVars, tokens>>

FindProfile(r) ==
  /\ requests[r].pc = "profile"
  /\ requests' = [requests EXCEPT ![r] =
       IF CanIssue(requests[r].profile)
       THEN [pc |-> "granted", user |-> requests[r].user, modules |-> profiles[requests[r].profile].modules]
       ELSE Idle]
  /\ UNCHANGED <<RequestVars, tokens>>

Answer(r) ==
  /\ requests[r].pc = "granted"
  /\ requests' = [requests EXCEPT ![r] = Idle]
  /\ UNCHANGED <<RequestVars, tokens>>

\* renewToken: the user is read once more; the cloud is not asked.
RenewToken(r) ==
  LET row == users[requests[r].user]
  IN  /\ requests[r].pc = "granted"
      /\ requests' = [requests EXCEPT ![r] =
           IF row # None /\ row.estado
           THEN [pc |-> "renew", user |-> requests[r].user, profile |-> row.profile]
           ELSE Idle]
      /\ UNCHANGED <<RequestVars, tokens>>

IssueRenewal(r) ==
  /\ requests[r].pc = "renew"
  /\ tokens' = Issued(requests[r].user, requests[r].profile)
  /\ requests' = [requests EXCEPT ![r] = Idle]
  /\ UNCHANGED RequestVars

\* Tokens are kept by who holds them: a stop does not end them.
Restart ==
  /\ faults < MaxFaults
  /\ faults' = faults + 1
  /\ sync' = Idle
  /\ logins' = [l \in Logins |-> Idle]
  /\ requests' = [r \in Requests |-> Idle]
  /\ UNCHANGED <<today, cloudVars, copyVars, noted, tokens, accepted>>

----------------------------------------------------------------------------
LoginStep(l) ==
  \/ \E u \in Users, password \in Passwords : Login(l, u, password)
  \/ AskCloud(l) \/ CloudUnavailable(l) \/ FetchUser(l)
  \/ UpsertProfile(l) \/ UpsertUser(l) \/ LoginOffline(l) \/ IssueSession(l)

RequestStep(r) ==
  \/ \E t \in tokens : RequireAuth(r, t)
  \/ FindProfile(r) \/ Answer(r) \/ RenewToken(r) \/ IssueRenewal(r)

AccessNext ==
  \/ NextDay
  \/ CloudChange
  \/ SyncFetch \/ SyncApply \/ SyncNote \/ SyncFails
  \/ \E l \in Logins : LoginStep(l)
  \/ \E r \in Requests : RequestStep(r)
  \/ Restart

\* The interval of the scheduler goes on, and a sync that started goes on.
AccessFairness == WF_accessVars(SyncFetch) /\ WF_accessVars(SyncApply) /\ WF_accessVars(SyncNote)

AccessSpec == AccessInit /\ [][AccessNext]_accessVars /\ AccessFairness

----------------------------------------------------------------------------
(***************************************************************************)
(* Properties.                                                             *)
(***************************************************************************)

\* A session granted without the cloud is for a password the cloud had for the user, and
\* the cloud accepted a login of the user at most MaxAge days ago: what syncs write does
\* not count (ensureOfflineLoginAllowed, writeUsuario).
OfflineIsVouched ==
  \A l \in Logins :
    (logins[l].pc = "issue" /\ logins[l].offline) =>
      /\ logins[l].password \in known[logins[l].user]
      /\ accepted[logins[l].user] # 0
      /\ logins[l].day - accepted[logins[l].user] <= MaxAge

CannotOperate(u) == users[u] = None \/ ~users[u].estado

\* What a sync is about to bring no login can have fetched before.
BeforeSync(u) ==
  sync.pc = "idle" /\ noted # version /\ \A l \in Logins : logins[l].pc = "idle" \/ logins[l].user # u

\* A user deactivated in the cloud stops operating here, whatever tokens were issued, unless
\* a login of the user was under way (requireAuth, config sync).
RevokedIsOut ==
  \A u \in Users :
    (cloudUsers[u].access = "inactive" /\ BeforeSync(u))
      ~> (cloudUsers[u].access # "inactive" \/ CannotOperate(u))

\* The same for a login under way: what it fetched before may be stored after the sync
\* that carried the change, and no later sync brings it again.
RevokedDuringLogin ==
  \A u \in Users :
    cloudUsers[u].access = "inactive" ~> (cloudUsers[u].access # "inactive" \/ CannotOperate(u))

\* The same for a user who lost the application: normalizeOperativeUser drops it.
RemovedIsOut ==
  \A u \in Users :
    (cloudUsers[u].access = "none" /\ BeforeSync(u))
      ~> (cloudUsers[u].access # "none" \/ CannotOperate(u))

\* A login without the cloud uses the copy whose age it checks (login, ensureOfflineLoginAllowed).
OfflineUsesCheckedCopy ==
  [][\A l \in Logins :
       (logins[l].pc = "offline" /\ logins'[l].pc = "issue") =>
         users[logins[l].user].password = logins'[l].password]_accessVars

\* Requests of a user the cloud has not accepted for MaxAge days are refused (renewToken).
AgeEndsSessions ==
  [][\A r \in Requests :
       (requests[r].pc = "idle" /\ requests'[r].pc = "profile") =>
         today - accepted[requests'[r].user] <= MaxAge + TokenDays]_accessVars
=============================================================================
