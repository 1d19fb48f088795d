----------------------------- MODULE UserAccess -----------------------------
(***************************************************************************)
(* Requests to the administration of users and sessions: the permission    *)
(* guard in front of AdminUsersController, SessionsController and          *)
(* OrgImpersonationController, the checks of AdminService, SessionsService *)
(* and OrgImpersonationService, and the one statement each request ends    *)
(* with.  A request is a sequence of awaits.  Its caller's role and active *)
(* organization are those of the session it began with; each check reads   *)
(* one row, and what it read may have changed when the statement runs.     *)
(* call[r].at names the await request r makes next.                        *)
(*                                                                         *)
(* saw[r] is a history variable: what was true of users at some time since *)
(* request r began.  No check could be more recent than that, and none of  *)
(* the checks may be older, or missing.                                    *)
(***************************************************************************)
EXTENDS AccessTables, FiniteSets

CONSTANTS
    Requests,    \* requests that can be in flight at the same time
    Operations,  \* the operations that clients request
    Grants,      \* operations whose permission a role of an organization has
    Joins,       \* the memberships that organizations give, by invitation or not
    MaxRequests,  \* bound on the requests received
    MaxEvents,    \* bound on what else happens
    MaxBulk,      \* bound on the users of one bulk deletion
    Newcomers,    \* bound on the users that createUser is asked for
    InitialApproval, InitialPlatform, InitialMembers,  \* the rows to begin with
    InitialAccepted, InitialOwner, InitialActive

SelfSafe == {"update", "setPassword"}  \* allowSelf
OnOneUser == SelfSafe \cup {"setRole", "ban", "unban", "remove", "approve",
                            "reject"}
OnUsers == OnOneUser \cup {"bulkRemove"}
Guarded == OnUsers \cup {"create", "impersonate", "revokeSession",
                         "revokeSessions"}
AllOperations == Guarded \cup {"selfApprove"}

ASSUME AccessAssumption ==
    /\ Operations \subseteq AllOperations
    /\ Grants \in [Roles -> SUBSET Guarded]
    /\ Joins \subseteq Users \X Orgs \X Roles \X BOOLEAN
    /\ MaxRequests \in Nat /\ MaxEvents \in Nat /\ MaxBulk \in Nat
    /\ Newcomers \subseteq Users
    /\ InitialApproval \in [Users -> Statuses \cup {"absent"}]
    /\ InitialPlatform \in [Users -> PlatformRoles]
    /\ InitialMembers \in [Users -> [Orgs -> Roles \cup {None}]]
    /\ InitialAccepted \subseteq Users
    /\ InitialOwner \in [Tokens -> Users \cup {None}]
    /\ InitialActive \in [Tokens -> Orgs \cup {None}]
    /\ \A u \in Users : InitialApproval[u] = "absent" =>
          /\ InitialMembers[u] = NoMembership
          /\ \A t \in Tokens : InitialOwner[t] # u

VARIABLES
    call,    \* what a request holds in its variables
    saw,     \* what was true since it began
    received, events   \* how many requests, how much else

countVars == <<received, events>>
vars == <<tableVars, call, saw, countVars>>

Steps == {"idle", "approval", "permission",       \* the guard
          "target", "membership", "organization", \* the checks of a service
          "self", "invitation",                   \* selfApproveInvited
          "write"}

NoCall == [at |-> "idle", op |-> "update", actor |-> None, role |-> "member",
           org |-> None, user |-> None, todo |-> {}, targets |-> {}, named |-> None,
           newRole |-> "member", token |-> None, unread |-> FALSE]

Calls == [at : Steps, op : AllOperations, actor : Users \cup {None},
          role : {"superadmin"} \cup Managed, org : Orgs \cup {None},
          user : Users \cup {None}, todo : SUBSET Users, targets : SUBSET Users,
          named : Orgs \cup {None},
          newRole : Managed, token : Tokens \cup {None}, unread : BOOLEAN]

-----------------------------------------------------------------------------
\* What is true of users now, as a request may come to see it.
Facts == [cleared |-> {u \in Users : approval[u] \notin {"pending", "rejected"}},
          plain |-> {u \in Users : TargetRole(u) = "member"},
          held |-> {<<u, o, memberRole[u][o]>> : u \in Users, o \in Orgs}]
Nothing == [cleared |-> {}, plain |-> {}, held |-> {}]

Observe ==
    LET now == Facts'
    IN saw' = [r \in Requests |->
                  IF call'[r].at = "idle" THEN Nothing
                  ELSE [cleared |-> saw[r].cleared \cup now.cleared,
                        plain |-> saw[r].plain \cup now.plain,
                        held |-> saw[r].held \cup now.held]]

Init ==
    /\ approval = InitialApproval /\ platform = InitialPlatform /\ banned = {}
    /\ memberRole = InitialMembers /\ accepted = InitialAccepted
    /\ owner = InitialOwner /\ by = [t \in Tokens |-> None]
    /\ active = InitialActive
    /\ drawn = {t \in Tokens : InitialOwner[t] # None}
    /\ call = [r \in Requests |-> NoCall]
    /\ saw = [r \in Requests |-> Nothing]
    /\ received = 0 /\ events = 0

Goto(r, at) == call' = [call EXCEPT ![r].at = at]
Keep(r, c) == call' = [call EXCEPT ![r] = c]
End(r) == Keep(r, NoCall)
Proceed(r, c) == Keep(r, IF c.at = "idle" THEN NoCall ELSE c)
Event == events < MaxEvents /\ events' = events + 1 /\ UNCHANGED received

\* The organization the request is about: the one it names, or the caller's
Scope(c) == IF c.named # None THEN c.named ELSE c.org

-----------------------------------------------------------------------------
\* getAllowedRoleNamesForCreator
AllowedRoles(role) ==
    IF role \in {"superadmin", "admin"} THEN Managed
    ELSE IF role = "manager" THEN {"manager", "member"} ELSE {"member"}

\* createUser accepts the role and the organization.
Creatable(p, o, role, named) ==
    /\ role \in AllowedRoles(p)
    /\ named # None
    /\ p = "superadmin" \/ named = o

\* What the handler does first, with the caller's role p and organization o
\* of its session; requireActiveOrganizationIdForManager gives a superadmin
\* none.
FirstCheck(c) ==
    CASE c.op \in OnUsers -> "target"
      [] c.op = "create" ->
            IF Creatable(c.role, c.org, c.newRole, c.named)
            THEN "write" ELSE "idle"
      [] c.op = "impersonate" -> "target"
      [] c.op = "revokeSession" ->
            IF c.role = "superadmin" THEN "write" ELSE "target"
      [] c.op = "revokeSessions" ->
            IF c.role = "superadmin" THEN "write" ELSE "membership"
      [] OTHER -> "self"

\* The authentication guard resolves the session to its user.
Receive(r, t, op, u, us, o, role, k) ==
    LET p == PlatformRole(owner[t])
        c == [at |-> "idle", op |-> op, actor |-> owner[t], role |-> p,
              org |-> IF p = "superadmin" THEN None ELSE active[t],
              user |-> u, todo |-> us, targets |-> us, named |-> o,
              newRole |-> role, token |-> k, unread |-> FALSE]
    IN /\ call[r].at = "idle" /\ t \in Sessions
       /\ received < MaxRequests /\ received' = received + 1
       /\ Proceed(r, [c EXCEPT !.at = IF op = "selfApprove" THEN "self"
                                      ELSE IF p = "superadmin" THEN FirstCheck(c)
                                      ELSE "approval"])
       /\ UNCHANGED <<tableVars, events>>

\* The inputs of the operations: a user or several, an organization, a role,
\* a token.
ReceiveAny(r) ==
    \E t \in Sessions, op \in Operations :
        CASE op = "bulkRemove" ->
               \E us \in SUBSET Users :
                  /\ Cardinality(us) \in 1..MaxBulk
                  /\ Receive(r, t, op, None, us, None, "member", None)
          [] op = "setRole" ->
               \E u \in Users, role \in Managed :
                  Receive(r, t, op, u, {u}, None, role, None)
          [] op = "create" ->
               \E u \in Newcomers, o \in Orgs \cup {None}, role \in Managed :
                  Receive(r, t, op, u, {u}, o, role, None)
          [] op = "impersonate" ->
               \E u \in Users, o \in Orgs \cup {None}, k \in Tokens \ drawn :
                  Receive(r, t, op, u, {u}, o, "member", k)
          [] op = "revokeSession" ->
               \E k \in Tokens : Receive(r, t, op, None, {}, None, "member", k)
          [] op = "selfApprove" ->
               Receive(r, t, op, owner[t], {owner[t]}, None, "member", None)
          [] OTHER ->
               \E u \in Users : Receive(r, t, op, u, {u}, None, "member", None)

-----------------------------------------------------------------------------
\* Mutant: pending users are let through.
ApprovalOfRejected(r) ==
    /\ call[r].at = "approval"
    /\ IF approval[call[r].actor] = "rejected"
       THEN End(r) ELSE Goto(r, "permission")
    /\ UNCHANGED <<tableVars, countVars>>

\* PermissionsGuard: pending and rejected users are refused; a user that is
\* gone is not.
Approval(r) ==
    /\ call[r].at = "approval"
    /\ IF approval[call[r].actor] \in {"pending", "rejected"}
       THEN End(r) ELSE Goto(r, "permission")
    /\ UNCHANGED <<tableVars, countVars>>

\* An error of the query is swallowed and the request goes on.
ApprovalUnread(r) ==
    /\ call[r].at = "approval"
    /\ Event
    /\ Keep(r, [call[r] EXCEPT !.at = "permission", !.unread = TRUE])
    /\ UNCHANGED tableVars

\* The role in the active organization, if any, instead of the platform's.
EffectiveRole(c) ==
    IF c.org # None /\ memberRole[c.actor][c.org] # None
    THEN memberRole[c.actor][c.org] ELSE c.role

\* The permissions of that role; then the handler begins, and refuses a
\* caller without an active organization.
Permission(r) ==
    LET c == call[r]
    IN /\ c.at = "permission"
       /\ IF c.org # None /\ c.op \in Grants[EffectiveRole(c)]
          THEN Proceed(r, [c EXCEPT !.at = FirstCheck(c)]) ELSE End(r)
       /\ UNCHANGED <<tableVars, countVars>>

-----------------------------------------------------------------------------
\* After the checks: a role has to be one the caller may give, and a
\* superadmin gives it in an organization of the user.
AfterChecks(c) ==
    IF c.op # "setRole" THEN "write"
    ELSE IF c.newRole \notin AllowedRoles(c.role) THEN "idle"
    ELSE IF c.role = "superadmin" THEN "organization" ELSE "write"

\* One user of the list has passed; the next one, or on.
Passed(r, u) ==
    LET rest == call[r].todo \ {u}
    IN Proceed(r, [call[r] EXCEPT
                      !.todo = rest,
                      !.at = IF rest = {} THEN AfterChecks(call[r])
                                          ELSE "target"])

\* Mutant: managers are accepted as targets as well.
NotOnAdmins(a, p, allowSelf, u) ==
    IF u = a THEN ~allowSelf
    ELSE u \notin UserRows \/ (p # "superadmin" /\ TargetRole(u) = "admin")

\* assertTargetActionAllowed throws.
TargetRefused(a, p, allowSelf, u) ==
    IF u = a THEN ~allowSelf
    ELSE u \notin UserRows \/ (p # "superadmin" /\ TargetRole(u) # "member")

Target(r) ==
    /\ call[r].at = "target" /\ call[r].op \in OnUsers
    /\ \E u \in call[r].todo :
          IF TargetRefused(call[r].actor, call[r].role,
                           call[r].op \in SelfSafe, u) THEN End(r)
          ELSE IF call[r].role = "superadmin" THEN Passed(r, u)
          ELSE Keep(r, [call[r] EXCEPT !.at = "membership", !.user = u])
    /\ UNCHANGED <<tableVars, countVars>>

\* startImpersonation throws: an admin impersonates anyone else but admins,
\* in any organization, and a manager mere members of its own.
ImpersonationRefused(c) ==
    \/ c.user = c.actor \/ c.user \notin UserRows
    \/ c.role = "admin" /\ platform[c.user] = "admin"
    \/ /\ c.role \notin {"superadmin", "admin"}
       /\ c.named \notin {None, c.org} \/ platform[c.user] # "member"

ImpersonationTarget(r) ==
    LET c == call[r]
    IN /\ c.at = "target" /\ c.op = "impersonate"
       /\ IF ImpersonationRefused(c) THEN End(r)
          ELSE Goto(r, IF c.role = "superadmin" /\ c.named = None
                       THEN "organization" ELSE "membership")
       /\ UNCHANGED <<tableVars, countVars>>

\* revokeSession: whose session it is
SessionTarget(r) ==
    LET c == call[r]
    IN /\ c.at = "target" /\ c.op = "revokeSession"
       /\ IF owner[c.token] = None THEN End(r)
          ELSE Keep(r, [c EXCEPT !.at = "membership", !.user = owner[c.token]])
       /\ UNCHANGED <<tableVars, countVars>>

\* Mutant: any organization of the user will do.
InSomeOrg(r) ==
    LET c == call[r]
    IN /\ c.at = "membership"
       /\ IF OrgsOf(c.user) = {} THEN End(r)
          ELSE IF c.op \in OnUsers THEN Passed(r, c.user) ELSE Goto(r, "write")
       /\ UNCHANGED <<tableVars, countVars>>

\* assertUserInManagerOrg, and its like in the other two services
Membership(r) ==
    LET c == call[r]
    IN /\ c.at = "membership"
       /\ IF memberRole[c.user][Scope(c)] = None THEN End(r)
          ELSE IF c.op \in OnUsers THEN Passed(r, c.user) ELSE Goto(r, "write")
       /\ UNCHANGED <<tableVars, countVars>>

\* An organization of the user: the latest one (a role), the first (an
\* impersonation).
Organization(r) ==
    LET c == call[r]
    IN /\ c.at = "organization"
       /\ IF OrgsOf(c.user) = {} THEN End(r)
          ELSE \E o \in OrgsOf(c.user) :
                  Keep(r, [c EXCEPT !.at = "write", !.named = o])
       /\ UNCHANGED <<tableVars, countVars>>

\* selfApproveInvited: the caller's own row, then an accepted invitation
Self(r) ==
    /\ call[r].at = "self"
    /\ IF approval[call[r].actor] = "pending" THEN Goto(r, "invitation")
                                              ELSE End(r)
    /\ UNCHANGED <<tableVars, countVars>>

Invitation(r) ==
    /\ call[r].at = "invitation"
    /\ IF call[r].actor \in accepted THEN Goto(r, "write") ELSE End(r)
    /\ UNCHANGED <<tableVars, countVars>>

\* The statements.  A name, a password and an image are not modelled.
Rewrite(c) == c.op \in SelfSafe /\ UNCHANGED tableVars

SetRole(c) == c.op = "setRole" /\ SetUserRole(c.user, Scope(c), c.newRole)

Ban(c) == c.op \in {"ban", "unban"} /\ SetBanned(c.user, c.op = "ban")

Remove(c) == c.op \in {"remove", "bulkRemove"} /\ RemoveUsers(c.targets)

\* A mail that fails is logged.
Approve(c) ==
    /\ c.op \in {"approve", "selfApprove", "reject"}
    /\ SetApproval(c.user, IF c.op = "reject" THEN "rejected" ELSE "approved")

Create(c) == c.op = "create" /\ CreateUser(c.user, c.named, c.newRole)

Impersonate(c) ==
    /\ c.op = "impersonate"
    /\ CreateImpersonationSession(c.token, c.user, c.actor, Scope(c))

Revoke(c) ==
    \/ c.op = "revokeSession" /\ DeleteSessions({c.token})
    \/ /\ c.op = "revokeSessions"
       /\ DeleteSessions({t \in Sessions : owner[t] = c.user})

Write(r) ==
    /\ call[r].at = "write"
    /\ \/ Rewrite(call[r]) \/ SetRole(call[r]) \/ Ban(call[r])
       \/ Remove(call[r]) \/ Approve(call[r]) \/ Create(call[r])
       \/ Impersonate(call[r]) \/ Revoke(call[r])
    /\ End(r)
    /\ UNCHANGED countVars

-----------------------------------------------------------------------------
\* stop-impersonating: the session of the token itself, if it is one.
StopImpersonation(t) ==
    /\ t \in Sessions /\ by[t] # None
    /\ DeleteSessions({t})

\* The library: sign-up, sign-in (not for the banned), choosing an
\* organization one belongs to, sign-out or expiry.
SignUp(u) ==
    /\ approval[u] = "absent"
    /\ InsertUser(u, "member", "pending")
    /\ UNCHANGED <<memberRole, accepted, sessionVars>>

SignIn(u, t) ==
    /\ u \in UserRows \ banned
    /\ InsertSession(t, u, None, None)

SetActive(t, o) ==
    /\ t \in Sessions /\ owner[t] \in Inside(o) /\ active[t] # o
    /\ active' = [active EXCEPT ![t] = o]
    /\ UNCHANGED <<userVars, memberRole, accepted, owner, by, drawn>>

EndSession(t) == t \in Sessions /\ DeleteSessions({t})

\* The organizations: a membership is given or changed, by a manager, the
\* sign-up hook or an invitation that is accepted, or it ends.
Join(u, o, role, invited) ==
    /\ u \in UserRows /\ memberRole[u][o] # role
    /\ SetMember(u, o, role)
    /\ accepted' = IF invited THEN accepted \cup {u} ELSE accepted
    /\ UNCHANGED <<userVars, sessionVars>>

Leave(u, o) ==
    /\ memberRole[u][o] # None
    /\ SetMember(u, o, None)
    /\ UNCHANGED <<userVars, accepted, sessionVars>>

Others ==
    /\ Event
    /\ \/ \E u \in Users : \/ SignUp(u)
                            \/ \E t \in Tokens : SignIn(u, t)
                            \/ \E o \in Orgs : Leave(u, o)
       \/ \E t \in Tokens : \/ EndSession(t)
                             \/ StopImpersonation(t)
                             \/ \E o \in Orgs : SetActive(t, o)
       \/ \E j \in Joins : Join(j[1], j[2], j[3], j[4])
    /\ UNCHANGED call

Serve(r) ==
    \/ ReceiveAny(r)
    \/ Approval(r) \/ ApprovalUnread(r) \/ Permission(r)
    \/ Target(r) \/ ImpersonationTarget(r) \/ SessionTarget(r)
    \/ Membership(r) \/ Organization(r)
    \/ Self(r) \/ Invitation(r)
    \/ Write(r)

Next ==
    /\ \/ Others
       \/ \E r \in Requests : Serve(r)
    /\ Observe

Spec == Init /\ [][Next]_vars

-----------------------------------------------------------------------------
\* The lists, capabilities and metadata an administrator's screens show, for
\* a caller a with platform role p and active organization o.
Listed(p, o) == IF p = "superadmin" THEN UserRows ELSE Inside(o)
ListedPending(p, o) == {u \in Listed(p, o) : approval[u] = "pending"}

\* getUserCapabilities: canSelfSafeAction and canMutateNonSelf
Capable(a, p, o, safe, u) ==
    LET inside == p = "superadmin" \/ memberRole[u][o] # None
    IN \/ safe /\ u = a /\ inside
       \/ u # a /\ inside /\ (p = "superadmin" \/ TargetRole(u) = "member")

\* getCreateUserMetadata: roles and organizations to choose from
Offered(p, o) == AllowedRoles(p) \X (IF p = "superadmin" THEN Orgs ELSE {o})

-----------------------------------------------------------------------------
\* Every variable has its type; sessions and memberships are those of users
\* there are, whatever was in flight when a user was removed.
TypeOK ==
    /\ TablesTypeOK
    /\ call \in [Requests -> Calls]
    /\ saw \in [Requests -> [cleared : SUBSET Users, plain : SUBSET Users,
                             held : SUBSET (Users \X Orgs \X (Roles \cup {None}))]]
    /\ received \in 0..MaxRequests /\ events \in 0..MaxEvents

\* A guarded request of anyone but a superadmin gets to its statement only
\* if, at some time since it began, its caller was neither pending nor
\* rejected (unless the query that would have told failed), and the role it
\* had in its active organization held the permission.
Entitled(c, s) ==
    /\ c.unread \/ c.actor \in s.cleared
    /\ \E x \in Roles \cup {None} :
          /\ <<c.actor, c.org, x>> \in s.held
          /\ c.op \in Grants[IF x = None THEN c.role ELSE x]

ActorsAreEntitled ==
    \A r \in Requests :
        call[r].at = "write" /\ call[r].op \in Guarded
           /\ call[r].role # "superadmin"
        => Entitled(call[r], saw[r])

\* The statement of a request from an organization changes no one who was
\* not, at some time since the request began, a member of its organization,
\* nor, unless it only ends sessions, anyone who was at no time a mere
\* member.  No one bans, removes, approves or impersonates themselves.  An
\* impersonation, and a role a superadmin gives, are in an organization the
\* user belonged to.
WasInside(u, o, s) == \E x \in Roles : <<u, o, x>> \in s.held

InScope(c, s) ==
    /\ c.op \in (OnUsers \ SelfSafe) \cup {"impersonate"} =>
          c.actor \notin c.targets
    /\ c.op \in OnUsers /\ c.role # "superadmin" =>
          \A u \in c.targets : /\ WasInside(u, c.org, s)
                               /\ u = c.actor \/ u \in s.plain
    /\ c.op = "impersonate" =>
          /\ WasInside(c.user, Scope(c), s)
          /\ c.role \in {"superadmin", "admin"} \/ c.user \in s.plain
    /\ c.op = "setRole" => WasInside(c.user, Scope(c), s)
    /\ c.op \in {"revokeSession", "revokeSessions"} /\ c.role # "superadmin" =>
          WasInside(c.user, c.org, s)

TargetsAreInScope ==
    \A r \in Requests : call[r].at = "write" => InScope(call[r], saw[r])

\* The screens and the calls agree: the capabilities getUserCapabilities
\* reports for the operations of AdminService are those its checks accept
\* for a user who is listed; a pending user on the list can be
\* approved unless it is a manager or an admin; and createUser accepts what
\* the metadata offers.
ScreensAgree ==
    \A a \in UserRows, o \in Orgs :
        LET p == PlatformRole(a)
            listed == Listed(p, o)
        IN /\ \A u \in UserRows, safe \in BOOLEAN :
                 Capable(a, p, o, safe, u) <=>
                    u \in listed /\ ~TargetRefused(a, p, safe, u)
           /\ \A u \in ListedPending(p, o) \ {a} :
                 Capable(a, p, o, FALSE, u) \/ platform[u] \in {"manager", "admin"}
           /\ \A x \in Offered(p, o) : Creatable(p, o, x[1], x[2])
=============================================================================
