-------------------------------- MODULE Access --------------------------------
(***************************************************************************)
(* Who may do what: AuthService, JwtAuthGuard, PermissionsGuard and        *)
(* OrganizationsService.                                                   *)
(*                                                                         *)
(* A request passes the guards once: the session is looked up, then the    *)
(* memberships are listed and judged, then the handler runs, in steps of   *)
(* its own for the handlers that change sessions and memberships; nothing  *)
(* is judged again.  The guard and the handler read the same x-org-id.     *)
(* Audit events are left out.                                              *)
(***************************************************************************)
EXTENDS Routes, Integers, Sequences

CONSTANTS
    Slots,        \* requests that may be under way at once
    Users,
    Orgs, Seeded, \* organizations; the one the seed puts on file
    Staff,        \* Staff[u]: role of u in the seeded organization
    Viewing,      \* permissions of the role "viewer" of the seeded organization
    TokenTtl, SessionTtl,
    MaxTime, MaxSessions, MaxRequests

VARIABLES
    now,
    sessions,    \* sessions by login: [user, created, open]; the token has the same dates
    orgs,        \* organizations on file
    grants,      \* grants[o][role]: permissions of a role, {} of one that is not there
    members,     \* members[o][u]: [role, status]
    stage, job,     \* where the request of each slot stands and what it knows
    requests,    \* requests so far
    written,     \* history: what handlers wrote: [permission, effect, permitted, live]
    permitted,   \* history: the user was permitted at some time since the request came
    overlapped,  \* history: two requests to change memberships were under way at once
    cut          \* history: organizations whose creation was cut short

accVars == <<now, sessions, orgs, grants, members, stage, job, requests, written, permitted,
             overlapped, cut>>
tables == <<sessions, orgs, grants, members>>

Roles == {"admin", "viewer"}
NoMember == [role |-> "none", status |-> "none"]
Statuses == {"ACTIVE", "SUSPENDED", "REVOKED"}
\* PERMISSION_KEYS, as far as a handler requires them, and role:write.
Permissions == {r.permission : r \in RoutesOnFile} \cup {"role:write"}
ReadingPermissions ==
    {"property:read", "contract:read", "payment:read", "settlement:read", "finance:read",
     "document:read", "communication:read", "maintenance:read", "ai:read", "report:read",
     "member:read", "owner:read"}
BaselinePermissions ==
    {"property:read", "property:write", "contract:read", "contract:write", "payment:read",
     "payment:write", "settlement:read", "settlement:write", "finance:read", "finance:write"}

\* Handlers that are guarded alike and write alike are one.
Kinds == {[permission |-> r.permission, effect |-> r.effect] : r \in RoutesOnFile}
Plain(kind) == [permission |-> "none", effect |-> kind]
Idle == [user |-> "none", session |-> 0, org |-> "none", kind |-> Plain("none"), live |-> FALSE,
         target |-> "none", role |-> "same", status |-> "same"]
UpdatesMember == [permission |-> "role:write", effect |-> "updateMember"]
Job == [user : Users \cup {"none"}, session : Nat, org : Orgs \cup {"none"},
        kind : Kinds \cup {UpdatesMember} \cup {Plain(k) : k \in {"none", "logout", "createOrganization"}},
        live : BOOLEAN, target : Users \cup {"none"}, role : Roles \cup {"same"},
        status : Statuses \cup {"same"}]

AccessAssumption ==
    /\ Seeded \in Orgs
    /\ Staff \in [Users -> Roles] /\ \E u \in Users : Staff[u] = "admin"
    /\ Viewing \subseteq Permissions \cap ReadingPermissions
    /\ TokenTtl \in Nat /\ SessionTtl \in Nat
    /\ MaxTime \in Nat /\ MaxSessions \in Nat /\ MaxRequests \in Nat

AccTypeOK ==
    /\ now \in 0..MaxTime
    /\ sessions \in Seq([user : Users, created : 0..MaxTime, open : BOOLEAN])
    /\ Len(sessions) <= MaxSessions
    /\ orgs \subseteq Orgs
    /\ grants \in [Orgs -> [Roles -> SUBSET Permissions]]
    /\ members \in [Orgs -> [Users -> [role : Roles, status : Statuses] \cup {NoMember}]]
    /\ stage \in [Slots -> {"idle", "members", "handle", "update", "create", "role", "member"}]
    /\ job \in [Slots -> Job]
    /\ requests \in 0..MaxRequests
    /\ permitted \in [Slots -> BOOLEAN] /\ overlapped \in BOOLEAN /\ cut \subseteq Orgs

\* What the seed puts on file, and a role with fewer permissions beside it.
AccInit ==
    /\ now = 0 /\ sessions = <<>> /\ orgs = {Seeded}
    /\ grants = [o \in Orgs |-> [role \in Roles |->
                    IF o # Seeded THEN {} ELSE IF role = "admin" THEN Permissions ELSE Viewing]]
    /\ members = [o \in Orgs |-> [u \in Users |->
                    IF o = Seeded THEN [role |-> Staff[u], status |-> "ACTIVE"] ELSE NoMember]]
    /\ stage = [s \in Slots |-> "idle"] /\ job = [s \in Slots |-> Idle]
    /\ requests = 0 /\ written = {} /\ permitted = [s \in Slots |-> FALSE]
    /\ overlapped = FALSE /\ cut = {}

-----------------------------------------------------------------------------
Mutant_AnyStatus(m, granted, permission) == m # NoMember /\ permission \in granted
\* authorize, for a membership and the permissions of its role
Authorize(m, granted, permission) == m.status = "ACTIVE" /\ permission \in granted

May(s) ==
    LET j == job[s] m == members[j.org][j.user] IN
    \/ j.kind.permission = "none"
    \/ m # NoMember /\ m.status = "ACTIVE" /\ j.kind.permission \in grants[j.org][m.role]
Watch == permitted' = [s \in Slots |-> stage'[s] # "idle" /\ (permitted[s] \/ May(s)')]

Go(s, step) == stage' = [stage EXCEPT ![s] = step]
Done(s) == Go(s, "idle") /\ job' = [job EXCEPT ![s] = Idle]

Tick ==
    /\ now < MaxTime /\ now' = now + 1
    /\ UNCHANGED <<tables, stage, job, requests, written, overlapped, cut>>

\* The answer, and the token with it, may get lost after this step.
Login(u) ==
    /\ Len(sessions) < MaxSessions
    /\ sessions' = Append(sessions, [user |-> u, created |-> now, open |-> TRUE])
    /\ UNCHANGED <<now, orgs, grants, members, stage, job, requests, written, overlapped, cut>>

Overlaps(s, kind) ==
    kind = UpdatesMember /\ \E q \in Slots \ {s} : job[q].kind = UpdatesMember

\* JwtAuthGuard.canActivate: verifyAccessToken, then findSessionById.
FindSession(s, i, org, kind) ==
    LET session == sessions[i] IN
    /\ stage[s] = "idle" /\ requests < MaxRequests
    /\ requests' = requests + 1
    /\ now < session.created + TokenTtl
    /\ session.open /\ now < session.created + SessionTtl
    /\ job' = [job EXCEPT ![s] = [Idle EXCEPT !.user = session.user, !.session = i, !.org = org,
                                             !.kind = kind, !.live = session.open]]
    /\ Go(s, "members")
    /\ overlapped' = (overlapped \/ Overlaps(s, kind))
    /\ UNCHANGED <<now, tables, written, cut>>

\* listMemberships, then PermissionsGuard.canActivate.
ListMemberships(s) ==
    LET j == job[s] m == members[j.org][j.user] IN
    /\ stage[s] = "members"
    /\ IF \/ j.kind.permission = "none"
          \/ m # NoMember /\ Authorize(m, grants[j.org][m.role], j.kind.permission)
       THEN Go(s, "handle") /\ UNCHANGED job
       ELSE Done(s)
    /\ UNCHANGED <<now, tables, requests, written, overlapped, cut>>

\* A handler of the tables of Routes; x-org-id names the data it may touch.
Handle(s) ==
    LET j == job[s] IN
    /\ stage[s] = "handle" /\ j.kind \in Kinds
    /\ written' = IF j.kind.effect = "reads" THEN written
                  ELSE written \cup {[permission |-> j.kind.permission, effect |-> j.kind.effect,
                                      permitted |-> permitted[s], live |-> j.live]}
    /\ Done(s)
    /\ UNCHANGED <<now, tables, requests, overlapped, cut>>

Logout(s) ==
    /\ stage[s] = "handle" /\ job[s].kind = Plain("logout")
    /\ sessions' = [sessions EXCEPT ![job[s].session].open = FALSE]
    /\ Done(s)
    /\ UNCHANGED <<now, orgs, grants, members, requests, written, overlapped, cut>>

-----------------------------------------------------------------------------
Mutant_SelfToo(s, target, role, status) ==
    LET org == job[s].org IN
    /\ stage[s] = "handle" /\ job[s].kind = UpdatesMember
    /\ members[org][target] # NoMember
    /\ role # "same" => grants[org][role] # {}
    /\ job' = [job EXCEPT ![s].target = target, ![s].role = role, ![s].status = status]
    /\ Go(s, "update")
    /\ UNCHANGED <<now, tables, requests, written, overlapped, cut>>
\* updateMember up to the write: nobody changes the own membership.
FindMembership(s, target, role, status) ==
    LET org == job[s].org IN
    /\ stage[s] = "handle" /\ job[s].kind = UpdatesMember
    /\ target # job[s].user /\ members[org][target] # NoMember
    /\ role # "same" => grants[org][role] # {}
    /\ role # "same" \/ status # "same"
    /\ job' = [job EXCEPT ![s].target = target, ![s].role = role, ![s].status = status]
    /\ Go(s, "update")
    /\ UNCHANGED <<now, tables, requests, written, overlapped, cut>>

UpdateMembership(s) ==
    LET j == job[s] old == members[j.org][j.target] IN
    /\ stage[s] = "update"
    /\ members' = [members EXCEPT ![j.org][j.target] =
           [role |-> IF j.role = "same" THEN old.role ELSE j.role,
            status |-> IF j.status = "same" THEN old.status ELSE j.status]]
    /\ written' = written \cup {[permission |-> "role:write", effect |-> "writes",
                                 permitted |-> permitted[s], live |-> j.live]}
    /\ Done(s)
    /\ UNCHANGED <<now, sessions, orgs, grants, requests, overlapped, cut>>

-----------------------------------------------------------------------------
\* createOrganization: the slug is looked up, and is unique as well.
FindOrgBySlug(s, org) ==
    /\ stage[s] = "handle" /\ job[s].kind = Plain("createOrganization") /\ org \notin orgs
    /\ job' = [job EXCEPT ![s].org = org]
    /\ Go(s, "create")
    /\ UNCHANGED <<now, tables, requests, written, overlapped, cut>>

CreateOrg(s) ==
    /\ stage[s] = "create" /\ job[s].org \notin orgs
    /\ orgs' = orgs \cup {job[s].org}
    /\ Go(s, "role")
    /\ UNCHANGED <<now, sessions, grants, members, job, requests, written, overlapped, cut>>

\* ensureAdminRole; its grants are written one by one, before anybody has the role.
EnsureAdminRole(s) ==
    /\ stage[s] = "role"
    /\ grants' = [grants EXCEPT ![job[s].org]["admin"] = BaselinePermissions]
    /\ Go(s, "member")
    /\ UNCHANGED <<now, sessions, orgs, members, job, requests, written, overlapped, cut>>

CreateMembership(s) ==
    /\ stage[s] = "member"
    /\ members' = [members EXCEPT ![job[s].org][job[s].user] = [role |-> "admin", status |-> "ACTIVE"]]
    /\ Done(s)
    /\ UNCHANGED <<now, sessions, orgs, grants, requests, written, overlapped, cut>>

\* A statement fails or the process dies; what was written stays.
Abort(s) ==
    /\ stage[s] \in {"update", "create", "role", "member"}
    /\ cut' = cut \cup (IF stage[s] \in {"role", "member"} THEN {job[s].org} ELSE {})
    /\ Done(s)
    /\ UNCHANGED <<now, tables, requests, written, overlapped>>

AccNext ==
    /\ \/ Tick \/ \E u \in Users : Login(u)
       \/ \E s \in Slots :
           \/ \E i \in DOMAIN sessions :
               \/ \E org \in orgs, kind \in Kinds \cup {UpdatesMember} : FindSession(s, i, org, kind)
               \/ \E kind \in {Plain("logout"), Plain("createOrganization")} :
                      FindSession(s, i, Seeded, kind)
           \/ ListMemberships(s) \/ Handle(s) \/ Logout(s)
           \/ \E target \in Users, role \in Roles \cup {"same"}, status \in Statuses \cup {"same"} :
                  FindMembership(s, target, role, status)
           \/ UpdateMembership(s)
           \/ \E org \in Orgs : FindOrgBySlug(s, org)
           \/ CreateOrg(s) \/ EnsureAdminRole(s) \/ CreateMembership(s) \/ Abort(s)
    /\ Watch

-----------------------------------------------------------------------------
\* Whatever a handler writes, it writes for a user who was an active member with
\* the permission at some time since the request came, even when the membership
\* changes or the session ends under way; and beyond rows of the user alone,
\* nothing is written on the permissions a viewer has.
WritesArePermitted ==
    \A w \in written :
        /\ w.permitted /\ w.live
        /\ w.effect = "writes" => w.permission \notin Viewing

\* Somebody administers: the seeded organization keeps an active member who may
\* change memberships, until two requests to do so overlap; another one keeps its creator
\* with what the code grants, unless its creation was cut short.
SomebodyAdministers ==
    /\ ~overlapped => \E u \in Users :
           LET m == members[Seeded][u] IN
           m.status = "ACTIVE" /\ "role:write" \in grants[Seeded][m.role]
    /\ \A o \in orgs \ (cut \cup {Seeded}) :
           \/ \E s \in Slots : stage[s] \in {"role", "member"} /\ job[s].org = o
           \/ \E u \in Users : members[o][u] = [role |-> "admin", status |-> "ACTIVE"]
              /\ BaselinePermissions \subseteq grants[o]["admin"]
=============================================================================
