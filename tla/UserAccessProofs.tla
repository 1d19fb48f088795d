--------------------------- MODULE UserAccessProofs ---------------------------
(***************************************************************************)
(* Proofs about UserAccess, for any number of users, organizations, roles, *)
(* sessions and requests, any permissions and any rows to begin with.      *)
(***************************************************************************)
EXTENDS UserAccess, TLAPS

-----------------------------------------------------------------------------
(* The tables.                                                             *)

\* The statements of requests, and what else writes the tables.
Statement ==
    \/ \E u \in Users, o \in Orgs \cup {None}, role \in Managed :
          \/ o \in Orgs /\ SetUserRole(u, o, role)
          \/ o \in Orgs /\ CreateUser(u, o, role)
          \/ \E t \in Tokens, a \in Users :
                o \in Orgs /\ CreateImpersonationSession(t, u, a, o)
    \/ \E u \in Users : \/ \E ban \in BOOLEAN : SetBanned(u, ban)
                        \/ \E status \in Statuses : SetApproval(u, status)
    \/ \E us \in SUBSET Users : RemoveUsers(us)
    \/ \E ts \in SUBSET Tokens : DeleteSessions(ts)

Happening ==
    \/ \E u \in Users : \/ SignUp(u)
                        \/ \E t \in Tokens : SignIn(u, t)
                        \/ \E o \in Orgs : Leave(u, o)
    \/ \E t \in Tokens : \/ EndSession(t)
                         \/ StopImpersonation(t)
                         \/ \E o \in Orgs : SetActive(t, o)
    \/ \E j \in Joins : Join(j[1], j[2], j[3], j[4])

\* A table keeps its type when users only appear, or change.
LEMMA UsersStay ==
    ASSUME TablesTypeOK,
           approval' \in [Users -> Statuses \cup {"absent", "removed"}],
           \A u \in UserRows : approval'[u] \in Statuses,
           platform' \in [Users -> PlatformRoles], banned' \subseteq Users,
           memberRole' \in [Users -> [Orgs -> Roles \cup {None}]],
           \A u \in Users : approval'[u] \notin Statuses => memberRole'[u] = NoMembership,
           accepted' \subseteq Users, UNCHANGED sessionVars
    PROVE  TablesTypeOK'
<1>1. UserRows \subseteq UserRows'
  BY DEF UserRows
<1>2. owner' \in [Tokens -> UserRows' \cup {None}]
  BY <1>1 DEF TablesTypeOK, sessionVars
<1>3. \A u \in Users \ UserRows' : memberRole'[u] = NoMembership
  BY DEF UserRows
<1> QED
  BY <1>2, <1>3 DEF TablesTypeOK, sessionVars, NoMembership

\* It does when only sessions change.
LEMMA SessionsStay ==
    ASSUME TablesTypeOK, UNCHANGED <<userVars, memberRole, accepted>>,
           owner' \in [Tokens -> UserRows \cup {None}],
           by' \in [Tokens -> Users \cup {None}],
           active' \in [Tokens -> Orgs \cup {None}], drawn' \subseteq Tokens
    PROVE  TablesTypeOK'
BY DEF TablesTypeOK, UserRows, userVars, NoMembership

LEMMA StatementTyped ==
    ASSUME TablesTypeOK, Statement
    PROVE  TablesTypeOK'
<1> USE TablesAssumption
<1>a. Managed \subseteq PlatformRoles
  BY DEF PlatformRoles
<1>1. ASSUME NEW u \in Users, NEW o \in Orgs, NEW role \in Managed, SetUserRole(u, o, role)
      PROVE  TablesTypeOK'
  <2>1. /\ platform' \in [Users -> PlatformRoles]
        /\ UNCHANGED <<approval, banned, accepted, sessionVars>>
    BY <1>1, <1>a DEF SetUserRole, TablesTypeOK
  <2>2. memberRole' \in [Users -> [Orgs -> Roles \cup {None}]]
    <3>0. NoMembership \in [Orgs -> Roles \cup {None}] /\ role \in Roles
      BY DEF NoMembership
    <3>1. memberRole \in [Users -> [Orgs -> Roles \cup {None}]]
      BY DEF TablesTypeOK
    <3>2. \/ memberRole' = memberRole
          \/ memberRole' = [memberRole EXCEPT ![u] = NoMembership]
          \/ memberRole' = [memberRole EXCEPT ![u][o] = role]
      BY <1>1 DEF SetUserRole, SetMember
    <3> QED
      BY <3>0, <3>1, <3>2
  <2>3. \A v \in Users : approval[v] \notin Statuses => memberRole'[v] = NoMembership
    <3> SUFFICES ASSUME NEW v \in Users, approval[v] \notin Statuses
                 PROVE  memberRole'[v] = NoMembership
      OBVIOUS
    <3>1. memberRole[v] = NoMembership
      BY DEF TablesTypeOK, UserRows
    <3>2. CASE u \in UserRows
      BY <1>1, <3>1, <3>2 DEF SetUserRole, SetMember, UserRows, TablesTypeOK
    <3>3. CASE u \notin UserRows
      BY <1>1, <3>1, <3>3 DEF SetUserRole
    <3> QED
      BY <3>2, <3>3
  <2> QED
    BY <2>1, <2>2, <2>3, UsersStay DEF TablesTypeOK, UserRows
<1>2. ASSUME NEW u \in Users, NEW o \in Orgs, NEW role \in Managed, CreateUser(u, o, role)
      PROVE  TablesTypeOK'
  <2>1. CASE approval[u] # "absent"
    BY <1>2, <2>1, SessionsStay DEF CreateUser, TablesTypeOK, sessionVars
  <2>2. CASE approval[u] = "absent"
    <3>1. /\ approval' = [approval EXCEPT ![u] = "approved"]
          /\ platform' = [platform EXCEPT ![u] = role]
          /\ memberRole' = [memberRole EXCEPT ![u][o] = role]
          /\ UNCHANGED <<banned, accepted, sessionVars>>
      BY <1>2, <2>2 DEF CreateUser, InsertUser, SetMember
    <3>2. \A v \in Users : approval'[v] \notin Statuses =>
             v # u /\ approval[v] \notin Statuses
      BY <3>1, <2>2 DEF Statuses, TablesTypeOK
    <3>3. \A v \in Users : approval'[v] \notin Statuses => memberRole'[v] = NoMembership
      BY <3>1, <3>2 DEF TablesTypeOK, UserRows
    <3>4. \A v \in UserRows : approval'[v] \in Statuses
      BY <3>1, <2>2 DEF UserRows, Statuses, TablesTypeOK
    <3>5. approval' \in [Users -> Statuses \cup {"absent", "removed"}]
      BY <3>1 DEF Statuses, TablesTypeOK
    <3>6. memberRole' \in [Users -> [Orgs -> Roles \cup {None}]]
      BY <3>1 DEF TablesTypeOK
    <3>7. platform' \in [Users -> PlatformRoles]
      BY <3>1, <1>a DEF TablesTypeOK
    <3> QED
      BY <3>1, <3>3, <3>4, <3>5, <3>6, <3>7, UsersStay DEF TablesTypeOK
  <2> QED
    BY <2>1, <2>2
<1>3. ASSUME NEW u \in Users, NEW o \in Orgs, NEW t \in Tokens, NEW a \in Users,
             CreateImpersonationSession(t, u, a, o)
      PROVE  TablesTypeOK'
  <2>1. CASE u \notin UserRows
    BY <1>3, <2>1, SessionsStay
    DEF CreateImpersonationSession, tableVars, TablesTypeOK, sessionVars
  <2>2. CASE u \in UserRows
    <3>1. InsertSession(t, u, a, o)
      BY <1>3, <2>2 DEF CreateImpersonationSession
    <3>2. /\ owner' \in [Tokens -> UserRows \cup {None}]
          /\ by' \in [Tokens -> Users \cup {None}]
      BY <2>2, <3>1 DEF InsertSession, TablesTypeOK
    <3>3. active' \in [Tokens -> Orgs \cup {None}] /\ drawn' \subseteq Tokens
      BY <3>1 DEF InsertSession, TablesTypeOK
    <3> QED
      BY <3>1, <3>2, <3>3, SessionsStay DEF InsertSession
  <2> QED
    BY <2>1, <2>2
<1>4. ASSUME NEW u \in Users, NEW ban \in BOOLEAN, SetBanned(u, ban)
      PROVE  TablesTypeOK'
  <2>1. banned' \subseteq Users
    BY <1>4 DEF SetBanned, TablesTypeOK
  <2> QED
    BY <1>4, <2>1, UsersStay DEF SetBanned, TablesTypeOK, UserRows
<1>5. ASSUME NEW u \in Users, NEW status \in Statuses, SetApproval(u, status)
      PROVE  TablesTypeOK'
  <2>1. /\ approval' = approval \/ (u \in UserRows /\ approval' = [approval EXCEPT ![u] = status])
        /\ UNCHANGED <<platform, banned, memberRole, accepted, sessionVars>>
    BY <1>5 DEF SetApproval
  <2>2. \A v \in Users : approval'[v] \notin Statuses => approval[v] \notin Statuses
    BY <2>1 DEF TablesTypeOK, UserRows
  <2>3. \A v \in UserRows : approval'[v] \in Statuses
    BY <2>1 DEF TablesTypeOK, UserRows
  <2>4. approval' \in [Users -> Statuses \cup {"absent", "removed"}]
    BY <2>1 DEF TablesTypeOK
  <2> QED
    BY <2>1, <2>2, <2>3, <2>4, UsersStay DEF TablesTypeOK, UserRows
<1>6. ASSUME NEW us \in SUBSET Users, RemoveUsers(us)
      PROVE  TablesTypeOK'
  <2>1. UserRows' = UserRows \ us
    BY <1>6 DEF RemoveUsers, UserRows, Statuses
  <2>2. owner' \in [Tokens -> UserRows' \cup {None}]
    <3> SUFFICES ASSUME NEW t \in Tokens PROVE owner'[t] \in UserRows' \cup {None}
      BY <1>6 DEF RemoveUsers, EndSessions
    <3>1. owner[t] \in UserRows \cup {None}
      BY DEF TablesTypeOK
    <3> QED
      BY <1>6, <2>1, <3>1 DEF RemoveUsers, EndSessions, Sessions
  <2>3. /\ by' \in [Tokens -> Users \cup {None}] /\ active' \in [Tokens -> Orgs \cup {None}]
        /\ UNCHANGED <<platform, banned, accepted, drawn>>
    BY <1>6 DEF RemoveUsers, EndSessions, TablesTypeOK
  <2>4. approval' \in [Users -> Statuses \cup {"absent", "removed"}]
    BY <1>6 DEF RemoveUsers, TablesTypeOK
  <2>5. memberRole' \in [Users -> [Orgs -> Roles \cup {None}]]
    BY <1>6 DEF RemoveUsers, TablesTypeOK, NoMembership
  <2>6. \A u \in Users \ UserRows' : memberRole'[u] = NoMembership
    BY <1>6, <2>1 DEF RemoveUsers, TablesTypeOK
  <2> QED
    BY <2>2, <2>3, <2>4, <2>5, <2>6 DEF TablesTypeOK, NoMembership
<1>7. ASSUME NEW ts \in SUBSET Tokens, DeleteSessions(ts)
      PROVE  TablesTypeOK'
  BY <1>7, SessionsStay DEF DeleteSessions, EndSessions, TablesTypeOK
<1> QED
  BY <1>1, <1>2, <1>3, <1>4, <1>5, <1>6, <1>7 DEF Statement

LEMMA HappeningTyped ==
    ASSUME TablesTypeOK, Happening
    PROVE  TablesTypeOK'
<1> USE TablesAssumption, AccessAssumption
<1>1. ASSUME NEW u \in Users, SignUp(u)
      PROVE  TablesTypeOK'
  <2>1. /\ approval[u] = "absent" /\ approval' = [approval EXCEPT ![u] = "pending"]
        /\ platform' = [platform EXCEPT ![u] = "member"]
        /\ UNCHANGED <<banned, memberRole, accepted, sessionVars>>
    BY <1>1 DEF SignUp, InsertUser
  <2>2. \A v \in Users : approval'[v] \notin Statuses => approval[v] \notin Statuses
    BY <2>1 DEF Statuses, TablesTypeOK
  <2>3. \A v \in UserRows : approval'[v] \in Statuses
    BY <2>1 DEF UserRows, Statuses, TablesTypeOK
  <2>4. /\ approval' \in [Users -> Statuses \cup {"absent", "removed"}]
        /\ platform' \in [Users -> PlatformRoles]
    BY <2>1 DEF Statuses, PlatformRoles, Managed, TablesTypeOK
  <2> QED
    BY <2>1, <2>2, <2>3, <2>4, UsersStay DEF TablesTypeOK, UserRows
<1>2. ASSUME NEW u \in Users, NEW t \in Tokens, SignIn(u, t)
      PROVE  TablesTypeOK'
  BY <1>2, SessionsStay DEF SignIn, InsertSession, TablesTypeOK
<1>3. ASSUME NEW u \in Users, NEW o \in Orgs, NEW role \in Roles \cup {None},
             u \in UserRows \/ role = None, SetMember(u, o, role),
             accepted' \subseteq Users, UNCHANGED <<userVars, sessionVars>>
      PROVE  TablesTypeOK'
  <2>1. memberRole' = [memberRole EXCEPT ![u][o] = role]
    BY <1>3 DEF SetMember
  <2>2. memberRole' \in [Users -> [Orgs -> Roles \cup {None}]]
    BY <2>1 DEF TablesTypeOK
  <2>3. \A v \in Users : approval[v] \notin Statuses => memberRole'[v] = NoMembership
    <3> SUFFICES ASSUME NEW v \in Users, approval[v] \notin Statuses
                 PROVE  memberRole'[v] = NoMembership
      OBVIOUS
    <3>1. memberRole[v] = NoMembership
      BY DEF TablesTypeOK, UserRows
    <3>2. CASE v # u
      BY <2>1, <3>1, <3>2 DEF TablesTypeOK
    <3>3. CASE v = u
      <4>1. role = None
        BY <1>3, <3>3 DEF UserRows
      <4>2. memberRole'[v] = [memberRole[v] EXCEPT ![o] = None]
        BY <2>1, <3>3, <4>1 DEF TablesTypeOK
      <4> QED
        BY <3>1, <4>2 DEF NoMembership
    <3> QED
      BY <3>2, <3>3
  <2> QED
    BY <1>3, <2>2, <2>3, UsersStay DEF TablesTypeOK, UserRows, userVars
<1>4. ASSUME NEW u \in Users, NEW o \in Orgs, Leave(u, o)
      PROVE  TablesTypeOK'
  BY <1>4, <1>3 DEF Leave, TablesTypeOK
<1>5. ASSUME NEW j \in Joins, Join(j[1], j[2], j[3], j[4])
      PROVE  TablesTypeOK'
  <2>1. j[1] \in Users /\ j[2] \in Orgs /\ j[3] \in Roles
    BY <1>5
  <2>2. accepted' \subseteq Users
    BY <1>5, <2>1 DEF Join, TablesTypeOK
  <2> QED
    BY <1>5, <1>3, <2>1, <2>2 DEF Join
<1>6. ASSUME NEW t \in Tokens, EndSession(t) \/ StopImpersonation(t)
      PROVE  TablesTypeOK'
  BY <1>6, StatementTyped DEF EndSession, StopImpersonation, Statement
<1>7. ASSUME NEW t \in Tokens, NEW o \in Orgs, SetActive(t, o)
      PROVE  TablesTypeOK'
  BY <1>7, SessionsStay DEF SetActive, TablesTypeOK
<1> QED
  BY <1>1, <1>2, <1>4, <1>5, <1>6, <1>7 DEF Happening

-----------------------------------------------------------------------------
(* What a request knows.  Its history holds all that is true now, and      *)
(* whatever has been checked for it so far was true at some time.          *)

History == [cleared : SUBSET Users, plain : SUBSET Users,
            held : SUBSET (Users \X Orgs \X (Roles \cup {None}))]
Within(s, t) == s.cleared \subseteq t.cleared /\ s.plain \subseteq t.plain /\ s.held \subseteq t.held

Later == {"target", "membership", "organization", "write"}

\* What can be said of the variables of a request, wherever it is, and of
\* where it is.
Static(c) ==
    /\ c.actor # None
    /\ c.op \in OnOneUser \cup {"impersonate"} => c.user # None /\ c.targets = {c.user}
    /\ c.op \in {"revokeSessions", "create", "selfApprove"} => c.user # None
    /\ c.op \in {"revokeSession", "impersonate"} => c.token \in Tokens
    /\ c.todo \subseteq c.targets
    /\ c.named # None => c.op \in {"create", "impersonate"} \/ c.role = "superadmin"

Shape(c) ==
    /\ Static(c)
    /\ c.at \in {"self", "invitation"} => c.op = "selfApprove"
    /\ c.at \in {"approval", "permission"} => c.op \in Guarded /\ c.role # "superadmin"
    /\ c.at = "organization" =>
          c.op = "impersonate" \/ (c.op = "setRole" /\ c.role = "superadmin")
    /\ c.op \in {"revokeSession", "revokeSessions"} /\ c.role = "superadmin" =>
          c.at = "write"
    /\ c.at = "membership" => c.user # None /\ Scope(c) # None /\ c.op # "create"
    /\ c.at = "write" /\ c.op = "create" => c.named # None

ActorChecked(c, s) ==
    c.op \in Guarded /\ c.role # "superadmin" =>
        /\ c.at = "permission" => c.unread \/ c.actor \in s.cleared
        /\ c.at \in Later => c.org # None /\ Entitled(c, s)

UserChecked(c, s, u) ==
    /\ u = c.actor => c.op \in SelfSafe
    /\ c.role # "superadmin" => u = c.actor \/ u \in s.plain

TargetsChecked(c, s) ==
    /\ c.op \in OnUsers =>
          /\ \A u \in c.targets \ c.todo :
                UserChecked(c, s, u) /\ (c.role # "superadmin" => WasInside(u, c.org, s))
          /\ c.at = "membership" =>
                c.role # "superadmin" /\ c.user \in c.todo /\ UserChecked(c, s, c.user)
          /\ c.at \in {"organization", "write"} => c.todo = {}
    /\ c.op = "impersonate" /\ c.at \in {"membership", "organization", "write"} =>
          /\ c.user # c.actor
          /\ c.role \in {"superadmin", "admin"} \/ c.user \in s.plain
    /\ c.op \in {"setRole", "impersonate"} /\ c.at = "write" => WasInside(c.user, Scope(c), s)
    /\ c.op \in {"revokeSession", "revokeSessions"} /\ c.role # "superadmin" /\ c.at = "write" =>
          WasInside(c.user, c.org, s)

Checked(c, s) == Shape(c) /\ ActorChecked(c, s) /\ TargetsChecked(c, s)

Known(s) == Within(Facts, s)

AccessInv ==
    /\ TypeOK
    /\ \A r \in Requests :
          call[r].at # "idle" => Known(saw[r]) /\ Checked(call[r], saw[r])

\* What was checked stays checked as the history grows.
LEMMA CheckedStays ==
    ASSUME NEW c, NEW s, NEW t, Checked(c, s), Within(s, t)
    PROVE  Checked(c, t)
<1>1. \A u, o : WasInside(u, o, s) => WasInside(u, o, t)
  BY DEF WasInside, Within
<1>2. \A u : UserChecked(c, s, u) => UserChecked(c, t, u)
  BY DEF UserChecked, Within
<1>3. Entitled(c, s) => Entitled(c, t)
  BY DEF Entitled, Within
<1>4. ActorChecked(c, t)
  BY <1>3 DEF Checked, ActorChecked, Within
<1>5. TargetsChecked(c, t)
  BY <1>1, <1>2 DEF Checked, TargetsChecked, Within
<1> QED
  BY <1>4, <1>5 DEF Checked

\* A step observed by everyone leaves the invariant if the request that took
\* it has checked what it says it has.
LEMMA ObservedStep ==
    ASSUME AccessInv, TablesTypeOK', call' \in [Requests -> Calls],
           received' \in 0..MaxRequests, events' \in 0..MaxEvents,
           Observe,
           \A r \in Requests : call'[r].at # "idle" => Checked(call'[r], saw[r])
    PROVE  AccessInv'
<1>1. Facts' \in History
  <2>1. \A u \in Users, o \in Orgs : memberRole'[u][o] \in Roles \cup {None}
    BY DEF TablesTypeOK
  <2>2. {<<u, o, memberRole'[u][o]>> : u \in Users, o \in Orgs}
           \subseteq Users \X Orgs \X (Roles \cup {None})
    BY <2>1
  <2> QED
    BY <2>2 DEF Facts, History
<1>2. saw \in [Requests -> History]
  BY DEF AccessInv, TypeOK, History
<1>3. saw' = [r \in Requests |->
                IF call'[r].at = "idle" THEN Nothing
                ELSE [cleared |-> saw[r].cleared \cup (Facts').cleared,
                      plain |-> saw[r].plain \cup (Facts').plain,
                      held |-> saw[r].held \cup (Facts').held]]
  BY DEF Observe
<1>4. ASSUME NEW r \in Requests
      PROVE  /\ saw'[r] \in History
             /\ call'[r].at # "idle" => Within(saw[r], saw'[r]) /\ Within(Facts', saw'[r])
  <2>1. saw[r] \in History
    BY <1>2
  <2>2. CASE call'[r].at = "idle"
    BY <1>3, <2>2 DEF Nothing, History
  <2>3. CASE call'[r].at # "idle"
    BY <1>1, <1>3, <2>1, <2>3 DEF History, Within
  <2> QED
    BY <2>2, <2>3
<1>5. saw' \in [Requests -> History]
  BY <1>3, <1>4
<1>6. TypeOK'
  BY <1>5 DEF TypeOK, History
<1>7. ASSUME NEW r \in Requests, call'[r].at # "idle"
      PROVE  Within(Facts', saw'[r]) /\ Checked(call'[r], saw'[r])
  BY <1>4, <1>7, CheckedStays
<1> QED
  BY <1>6, <1>7 DEF AccessInv, Known, Within, Checked, Shape, Static, ActorChecked, TargetsChecked, UserChecked, Entitled, WasInside, Scope

-----------------------------------------------------------------------------
(* What a request does next.                                               *)

Standing(r) ==
    /\ TablesTypeOK /\ call \in [Requests -> Calls]
    /\ call[r].at # "idle" => Known(saw[r]) /\ Checked(call[r], saw[r])

\* Its variables afterwards, and that they say only what was checked.
Progressed(r) ==
    \E d \in Calls : /\ call' = [call EXCEPT ![r] = d]
                     /\ d.at # "idle" => Checked(d, saw[r])

Alike(c, d) ==
    /\ d.op = c.op /\ d.actor = c.actor /\ d.role = c.role /\ d.org = c.org
    /\ d.targets = c.targets /\ d.token = c.token

LEMMA NoCallTyped == NoCall \in Calls /\ NoCall.at = "idle"
BY DEF NoCall, Calls, Steps, AllOperations, Guarded, OnUsers, OnOneUser, SelfSafe, Managed

LEMMA Ended ==
    ASSUME NEW r \in Requests, End(r) PROVE Progressed(r)
BY NoCallTyped DEF End, Keep, Progressed

LEMMA Kept ==
    ASSUME NEW r \in Requests, NEW d \in Calls, Keep(r, d) \/ Proceed(r, d),
           d.at # "idle" => Checked(d, saw[r])
    PROVE  Progressed(r)
BY NoCallTyped DEF Keep, Proceed, Progressed

LEMMA Moved ==
    ASSUME NEW c \in Calls, NEW at \in Steps
    PROVE  LET d == [c EXCEPT !.at = at]
           IN /\ d \in Calls /\ d.at = at /\ Alike(c, d)
              /\ d.user = c.user /\ d.todo = c.todo /\ d.named = c.named
              /\ d.unread = c.unread
BY DEF Calls, Alike

\* What is true now of users there are, the request has in its history.
LEMMA Learnt ==
    ASSUME TablesTypeOK, NEW s, Known(s), NEW u \in Users
    PROVE  /\ approval[u] \notin {"pending", "rejected"} => u \in s.cleared
           /\ TargetRole(u) = "member" => u \in s.plain
           /\ \A o \in Orgs :
                 /\ <<u, o, memberRole[u][o]>> \in s.held
                 /\ memberRole[u][o] # None => WasInside(u, o, s)
<1>1. \A o \in Orgs : <<u, o, memberRole[u][o]>> \in s.held /\ memberRole[u][o] \in Roles \cup {None}
  BY DEF Known, Within, Facts, TablesTypeOK
<1> QED
  BY <1>1 DEF Known, Within, Facts, WasInside

LEMMA ApprovalChecked ==
    ASSUME NEW r \in Requests, Standing(r), Approval(r) \/ ApprovalUnread(r)
    PROVE  Progressed(r)
<1> DEFINE c == call[r]
<1>1. c \in Calls /\ c.at = "approval" /\ Known(saw[r]) /\ Checked(c, saw[r])
  BY DEF Standing, Approval, ApprovalUnread
<1>2. c.actor \in Users
  BY <1>1 DEF Checked, Shape, Static, Calls
<1>3. CASE End(r)
  BY <1>3, Ended
<1>4. ASSUME NEW d \in Calls, call' = [call EXCEPT ![r] = d], Alike(c, d), d.at = "permission",
             d.user = c.user, d.todo = c.todo, d.named = c.named,
             d.unread \/ c.actor \in saw[r].cleared
      PROVE  Progressed(r)
  <2>1. Shape(d)
    BY <1>1, <1>4 DEF Checked, Shape, Static, Alike, Scope
  <2>2. ActorChecked(d, saw[r])
    BY <1>4 DEF ActorChecked, Alike, Later
  <2>3. TargetsChecked(d, saw[r])
    BY <1>1, <1>4 DEF Checked, TargetsChecked, Alike, UserChecked
  <2> QED
    BY <1>4, <2>1, <2>2, <2>3 DEF Progressed, Checked
<1>5. CASE Approval(r) /\ approval[c.actor] \notin {"pending", "rejected"}
  <2>1. call' = [call EXCEPT ![r] = [c EXCEPT !.at = "permission"]]
    BY <1>5 DEF Approval, Goto, Standing
  <2>2. c.actor \in saw[r].cleared
    BY <1>1, <1>2, <1>5, Learnt DEF Standing
  <2> QED
    BY <1>1, <1>4, <2>1, <2>2, Moved DEF Steps
<1>6. CASE ApprovalUnread(r)
  <2> DEFINE d == [c EXCEPT !.at = "permission", !.unread = TRUE]
  <2>1. /\ d \in Calls /\ Alike(c, d) /\ d.at = "permission" /\ d.unread
        /\ d.user = c.user /\ d.todo = c.todo /\ d.named = c.named
    BY <1>1 DEF Calls, Alike, Steps
  <2>2. call' = [call EXCEPT ![r] = d]
    BY <1>6 DEF ApprovalUnread, Keep
  <2> HIDE DEF d
  <2> QED
    BY <1>4, <2>1, <2>2
<1> QED
  BY <1>3, <1>5, <1>6 DEF Approval

LEMMA FirstCheckKinds ==
    ASSUME NEW c \in Calls
    PROVE  /\ FirstCheck(c) \in {"target", "write", "membership", "self", "idle"}
           /\ c.op \in OnUsers => FirstCheck(c) = "target"
           /\ c.op = "impersonate" => FirstCheck(c) = "target"
           /\ c.op \in Guarded => FirstCheck(c) # "self"
           /\ FirstCheck(c) = "membership" =>
                 c.op = "revokeSessions" /\ c.role # "superadmin" /\ c.op \notin OnUsers
           /\ FirstCheck(c) = "write" =>
                 c.op \notin OnUsers /\ (c.op = "create" => c.named # None)
           /\ FirstCheck(c) = "write" /\ c.op # "create" => c.role = "superadmin"
           /\ c.op = "setRole" => FirstCheck(c) = "target"
           /\ c.op \in {"revokeSession", "revokeSessions"} /\ c.role = "superadmin" =>
                 FirstCheck(c) = "write"
BY DEF FirstCheck, Creatable, Guarded, OnUsers, OnOneUser, SelfSafe

\* A request goes into the handler with what the guard has checked.
LEMMA HandlerBegins ==
    ASSUME NEW c \in Calls, NEW d \in Calls, NEW s, Static(c), TargetsChecked(c, s),
           c.at \notin {"membership", "organization", "write"},
           c.op \in Guarded, Alike(c, d), d.at = FirstCheck(c), d.at # "idle",
           d.user = c.user, d.todo = c.todo, d.named = c.named, d.unread = c.unread,
           c.role # "superadmin" => c.org # None /\ Entitled(c, s)
    PROVE  Checked(d, s)
<1>1. Shape(d)
  BY FirstCheckKinds DEF Shape, Static, Alike, Scope
<1>2. ActorChecked(d, s)
  BY FirstCheckKinds DEF ActorChecked, Alike, Entitled, Later
<1>3. \A u : UserChecked(c, s, u) <=> UserChecked(d, s, u)
  BY DEF Alike, UserChecked
<1>4. d.at \in {"target", "write", "membership"}
  BY FirstCheckKinds DEF Alike
<1>5. TargetsChecked(d, s)
  <2>1. d.op \in OnUsers => d.at = "target"
    BY FirstCheckKinds DEF Alike
  <2>2. d.op \in {"setRole", "impersonate"} => d.at = "target"
    BY FirstCheckKinds DEF Alike
  <2>3. d.at = "write" /\ d.op \in {"revokeSession", "revokeSessions"} => d.role = "superadmin"
    BY FirstCheckKinds DEF Alike
  <2>4. d.op \in OnUsers =>
           \A u \in d.targets \ d.todo :
              UserChecked(d, s, u) /\ (d.role # "superadmin" => WasInside(u, d.org, s))
    BY <1>3 DEF TargetsChecked, Alike
  <2> QED
    BY <2>1, <2>2, <2>3, <2>4 DEF TargetsChecked
<1> QED
  BY <1>1, <1>2, <1>5 DEF Checked

LEMMA PermissionChecked ==
    ASSUME NEW r \in Requests, Standing(r), Permission(r)
    PROVE  Progressed(r)
<1> USE TablesAssumption, AccessAssumption
<1> DEFINE c == call[r]
           s == saw[r]
           d == [c EXCEPT !.at = FirstCheck(c)]
<1>1. c \in Calls /\ c.at = "permission" /\ Known(s) /\ Checked(c, s)
  BY DEF Standing, Permission
<1>2. c.op \in Guarded /\ c.role # "superadmin" /\ c.actor \in Users
  BY <1>1 DEF Checked, Shape, Static, Calls
<1>3. c.unread \/ c.actor \in s.cleared
  BY <1>1, <1>2 DEF Checked, ActorChecked
<1>4. CASE End(r)
  BY <1>4, Ended
<1>5. CASE c.org # None /\ c.op \in Grants[EffectiveRole(c)] /\ Proceed(r, d)
  <2>1. c.org \in Orgs
    BY <1>1, <1>5 DEF Calls
  <2>2. <<c.actor, c.org, memberRole[c.actor][c.org]>> \in s.held
    BY <1>1, <1>2, <2>1, Learnt DEF Standing
  <2>3. memberRole[c.actor][c.org] \in Roles \cup {None}
    BY <1>2, <2>1 DEF Standing, TablesTypeOK
  <2>4. EffectiveRole(c) = IF memberRole[c.actor][c.org] = None THEN c.role
                                                                ELSE memberRole[c.actor][c.org]
    BY <1>5 DEF EffectiveRole
  <2>5. Entitled(c, s)
    BY <1>3, <1>5, <2>2, <2>3, <2>4 DEF Entitled
  <2>6. /\ d \in Calls /\ d.at = FirstCheck(c) /\ Alike(c, d)
        /\ d.user = c.user /\ d.todo = c.todo /\ d.named = c.named /\ d.unread = c.unread
    <3>1. FirstCheck(c) \in Steps
      <4> HIDE DEF c
      <4> QED
        BY <1>1, FirstCheckKinds DEF Steps
    <3> QED
      BY <1>1, <3>1, Moved
  <2>7. d.at # "idle" => Checked(d, s)
    <3> HIDE DEF d, c, s
    <3> QED
      BY <1>1, <1>2, <1>5, <2>5, <2>6, HandlerBegins DEF Checked, Shape
  <2> HIDE DEF d, c, s
  <2> QED
    BY <1>5, <2>6, <2>7, Kept DEF s
<1> QED
  BY <1>4, <1>5, <1>1 DEF Permission

LEMMA PassedChecked ==
    ASSUME NEW r \in Requests, Standing(r), call[r].at \in {"target", "membership"},
           call[r].op \in OnUsers, NEW u \in call[r].todo, UserChecked(call[r], saw[r], u),
           call[r].role # "superadmin" => WasInside(u, call[r].org, saw[r]),
           Passed(r, u)
    PROVE  Progressed(r)
<1> DEFINE c == call[r]
           s == saw[r]
           rest == c.todo \ {u}
           at == IF rest = {} THEN AfterChecks(c) ELSE "target"
           d == [c EXCEPT !.todo = rest, !.at = at]
<1>1. c \in Calls /\ Checked(c, s)
  BY DEF Standing
<1>2. /\ at \in {"target", "organization", "write", "idle"}
      /\ at = "organization" => c.op = "setRole" /\ c.role = "superadmin"
      /\ at \in {"organization", "write"} => rest = {}
      /\ at = "write" /\ c.op = "setRole" => c.role # "superadmin"
  BY DEF AfterChecks
<1>3. /\ d \in Calls /\ d.at = at /\ d.todo = rest /\ Alike(c, d)
      /\ d.user = c.user /\ d.named = c.named /\ d.unread = c.unread
  <2> HIDE DEF at
  <2>1. rest \in SUBSET Users /\ at \in Steps
    BY <1>1, <1>2 DEF Calls, Steps
  <2> QED
    BY <1>1, <2>1 DEF Calls, Alike
<1> HIDE DEF c, s, d, at
<1>4. c.op \in OnUsers /\ c.op \notin {"create", "impersonate"} /\ c.op \notin {"revokeSession", "revokeSessions"}
      /\ c.at \in Later
  BY DEF c, OnUsers, OnOneUser, SelfSafe, Later
<1>5. Shape(d)
  BY <1>1, <1>2, <1>3, <1>4 DEF Checked, Shape, Static, Alike, Scope
<1>6. ActorChecked(d, s)
  BY <1>1, <1>2, <1>3, <1>4 DEF Checked, ActorChecked, Entitled, Alike
<1>7. \A v : UserChecked(c, s, v) <=> UserChecked(d, s, v)
  BY <1>3 DEF Alike, UserChecked
<1>8. \A v \in d.targets \ d.todo :
         UserChecked(d, s, v) /\ (d.role # "superadmin" => WasInside(v, d.org, s))
  BY <1>1, <1>3, <1>4, <1>7 DEF Checked, TargetsChecked, Alike, c, s
<1>9. ASSUME d.op = "setRole", d.at = "write"
      PROVE  WasInside(d.user, Scope(d), s)
  <2>1. c.op = "setRole" /\ c.role # "superadmin"
    BY <1>2, <1>3, <1>9 DEF Alike
  <2>2. c.named = None /\ c.targets = {c.user} /\ c.todo \subseteq c.targets
    BY <1>1, <2>1 DEF Checked, Shape, Static, OnOneUser
  <2>3. u = c.user /\ WasInside(u, c.org, s)
    BY <2>1, <2>2 DEF c, s
  <2> QED
    BY <1>3, <2>2, <2>3 DEF Scope, Alike
<1>10. TargetsChecked(d, s)
  BY <1>2, <1>3, <1>4, <1>8, <1>9 DEF TargetsChecked, Alike
<1> QED
  <2>1. Proceed(r, d)
    BY DEF Passed, d, at, c
  <2> QED
    BY <1>3, <1>5, <1>6, <1>10, <2>1, Kept DEF Checked, s

LEMMA TargetChecked ==
    ASSUME NEW r \in Requests, Standing(r), Target(r)
    PROVE  Progressed(r)
<1> DEFINE c == call[r]
           s == saw[r]
<1>1. c \in Calls /\ Known(s) /\ Checked(c, s) /\ c.at = "target" /\ c.op \in OnUsers
  BY DEF Standing, Target
<1>2. PICK u \in c.todo :
         IF TargetRefused(c.actor, c.role, c.op \in SelfSafe, u) THEN End(r)
         ELSE IF c.role = "superadmin" THEN Passed(r, u)
         ELSE Keep(r, [c EXCEPT !.at = "membership", !.user = u])
  BY DEF Target
<1>3. u \in Users
  BY <1>1 DEF Calls
<1>4. ASSUME ~TargetRefused(c.actor, c.role, c.op \in SelfSafe, u)
      PROVE  UserChecked(c, s, u)
  <2>1. u = c.actor => c.op \in SelfSafe
    BY <1>4 DEF TargetRefused
  <2>2. u # c.actor /\ c.role # "superadmin" => TargetRole(u) = "member"
    BY <1>4 DEF TargetRefused
  <2>3. u # c.actor /\ c.role # "superadmin" => u \in s.plain
    BY <1>1, <1>3, <2>2, Learnt DEF Standing
  <2> QED
    BY <2>1, <2>3 DEF UserChecked
<1>5. CASE End(r)
  BY <1>5, Ended
<1>6. CASE UserChecked(c, s, u) /\ c.role = "superadmin" /\ Passed(r, u)
  BY <1>1, <1>6, PassedChecked
<1>7. CASE /\ UserChecked(c, s, u) /\ c.role # "superadmin"
           /\ Keep(r, [c EXCEPT !.at = "membership", !.user = u])
  <2> DEFINE d == [c EXCEPT !.at = "membership", !.user = u]
  <2>1. /\ d \in Calls /\ d.at = "membership" /\ d.user = u /\ Alike(c, d)
        /\ d.todo = c.todo /\ d.named = c.named /\ d.unread = c.unread
    BY <1>1, <1>3 DEF Calls, Steps, Alike
  <2> HIDE DEF d, c, s
  <2>2. c.op \in Guarded /\ c.op # "impersonate" /\ c.op # "create"
        /\ c.op \notin {"revokeSession", "revokeSessions", "selfApprove"}
    BY <1>1 DEF Guarded, OnUsers, OnOneUser, SelfSafe
  <2>3. c.org # None /\ c.named = None
    BY <1>1, <1>7, <2>2 DEF Checked, Shape, Static, ActorChecked, Later
  <2>4. u # None
    BY <1>3, TablesAssumption
  <2>5. c.op \in OnOneUser => d.targets = {d.user}
    BY <1>1, <1>2, <2>1 DEF Checked, Shape, Static, Alike
  <2>6. Shape(d)
    BY <1>1, <2>1, <2>2, <2>3, <2>4, <2>5 DEF Checked, Shape, Static, Alike, Scope
  <2>7. ActorChecked(d, s)
    BY <1>1, <2>1, <2>3 DEF Checked, ActorChecked, Entitled, Alike, Later
  <2>8. \A v : UserChecked(c, s, v) <=> UserChecked(d, s, v)
    BY <2>1 DEF Alike, UserChecked
  <2>9. TargetsChecked(d, s)
    BY <1>1, <1>2, <1>7, <2>1, <2>2, <2>8 DEF Checked, TargetsChecked, Alike
  <2> QED
    BY <1>7, <2>1, <2>6, <2>7, <2>9, Kept DEF Checked, s, d
<1> QED
  <2>1. CASE TargetRefused(c.actor, c.role, c.op \in SelfSafe, u)
    BY <1>2, <1>5, <2>1
  <2>2. CASE ~TargetRefused(c.actor, c.role, c.op \in SelfSafe, u) /\ c.role = "superadmin"
    BY <1>2, <1>4, <1>6, <2>2
  <2>3. CASE ~TargetRefused(c.actor, c.role, c.op \in SelfSafe, u) /\ c.role # "superadmin"
    BY <1>2, <1>4, <1>7, <2>3
  <2> QED
    BY <2>1, <2>2, <2>3

\* A request that is not about OnUsers moves to the membership of its user.
LEMMA ToMembership ==
    ASSUME NEW c \in Calls, NEW d \in Calls, NEW s, Checked(c, s),
           c.at = "target", c.op \in {"impersonate", "revokeSession"},
           d.at \in {"membership", "organization"}, Alike(c, d),
           d.todo = c.todo, d.named = c.named, d.unread = c.unread,
           d.user \in Users, Scope(d) # None \/ d.at = "organization",
           d.at = "organization" => d.op = "impersonate",
           c.op = "impersonate" =>
               /\ d.user = c.user /\ c.user # c.actor
               /\ c.role \in {"superadmin", "admin"} \/ c.user \in s.plain
    PROVE  Checked(d, s)
<1>1. c.op \notin OnUsers /\ c.op \in Guarded
  BY DEF Guarded, OnUsers, OnOneUser, SelfSafe
<1>2. Shape(d)
  BY <1>1, TablesAssumption DEF Checked, Shape, Static, Alike, Scope, OnUsers
<1>3. ActorChecked(d, s)
  BY DEF Checked, ActorChecked, Entitled, Alike, Later
<1>4. TargetsChecked(d, s)
  BY <1>1 DEF TargetsChecked, Alike
<1> QED
  BY <1>2, <1>3, <1>4 DEF Checked

LEMMA ImpersonationChecked ==
    ASSUME NEW r \in Requests, Standing(r), ImpersonationTarget(r)
    PROVE  Progressed(r)
<1> DEFINE c == call[r]
           s == saw[r]
           at == IF c.role = "superadmin" /\ c.named = None THEN "organization" ELSE "membership"
           d == [c EXCEPT !.at = at]
<1>1. /\ c \in Calls /\ Known(s) /\ Checked(c, s)
      /\ c.at = "target" /\ c.op = "impersonate" /\ c.op \in Guarded
  BY DEF Standing, ImpersonationTarget, Guarded
<1>2. CASE End(r)
  BY <1>2, Ended
<1>3. CASE ~ImpersonationRefused(c) /\ Goto(r, at)
  <2>1. c.user \in Users /\ c.user # c.actor
    BY <1>3 DEF ImpersonationRefused, UserRows
  <2>2. c.role \in {"superadmin", "admin"} \/ c.user \in s.plain
    <3>1. CASE c.role \notin {"superadmin", "admin"}
      <4>1. platform[c.user] = "member"
        BY <1>3, <3>1 DEF ImpersonationRefused
      <4>2. TargetRole(c.user) = "member"
        BY <4>1 DEF TargetRole, Managed
      <4> QED
        BY <1>1, <2>1, <4>2, Learnt DEF Standing
    <3> QED
      BY <3>1
  <2>3. c.role # "superadmin" => c.org # None
    BY <1>1 DEF Checked, ActorChecked, Later
  <2>4. /\ d \in Calls /\ d.at = at /\ Alike(c, d)
        /\ d.user = c.user /\ d.todo = c.todo /\ d.named = c.named /\ d.unread = c.unread
    <3> HIDE DEF c
    <3>1. at \in Steps
      BY DEF Steps
    <3> QED
      BY <1>1, <3>1, Moved
  <2>5. Scope(d) # None \/ d.at = "organization"
    BY <2>3, <2>4 DEF Scope, Alike
  <2>6. d.at \in {"membership", "organization"} /\ d.op = "impersonate"
    BY <1>1, <2>4 DEF Alike
  <2>7. Checked(d, s)
    <3> HIDE DEF c, d, s, at
    <3> QED
      BY <1>1, <2>1, <2>2, <2>4, <2>5, <2>6, ToMembership
  <2>8. call' = [call EXCEPT ![r] = d]
    BY <1>3 DEF Goto, Standing
  <2> HIDE DEF d
  <2> QED
    BY <2>4, <2>7, <2>8 DEF Progressed
<1> QED
  BY <1>2, <1>3 DEF ImpersonationTarget

LEMMA SessionChecked ==
    ASSUME NEW r \in Requests, Standing(r), SessionTarget(r)
    PROVE  Progressed(r)
<1> DEFINE c == call[r]
           s == saw[r]
           d == [c EXCEPT !.at = "membership", !.user = owner[c.token]]
<1>1. /\ c \in Calls /\ Checked(c, s)
      /\ c.at = "target" /\ c.op = "revokeSession" /\ c.op \in Guarded
  BY DEF Standing, SessionTarget, Guarded
<1>2. CASE End(r)
  BY <1>2, Ended
<1>3. CASE owner[c.token] # None /\ Keep(r, d)
  <2>1. c.role # "superadmin" /\ c.token \in Tokens /\ c.named = None /\ c.org # None
    BY <1>1 DEF Checked, Shape, Static, ActorChecked, Later
  <2>2. owner[c.token] \in Users
    BY <1>3, <2>1 DEF Standing, TablesTypeOK, UserRows
  <2>3. /\ d \in Calls /\ d.at = "membership" /\ Alike(c, d) /\ d.user = owner[c.token]
        /\ d.todo = c.todo /\ d.named = c.named /\ d.unread = c.unread
    BY <1>1, <2>2 DEF Calls, Steps, Alike
  <2>4. Scope(d) # None /\ d.op = "revokeSession"
    BY <1>1, <2>1, <2>3 DEF Scope, Alike
  <2>5. Checked(d, s)
    <3> HIDE DEF c, d, s
    <3> QED
      BY <1>1, <2>2, <2>3, <2>4, ToMembership
  <2> HIDE DEF d, c
  <2> QED
    BY <1>3, <2>3, <2>5, Kept
<1> QED
  BY <1>2, <1>3 DEF SessionTarget

\* What lets an impersonation, a role or the end of sessions be written.
LEMMA ToWrite ==
    ASSUME NEW c \in Calls, NEW d \in Calls, NEW s, Checked(c, s),
           c.at \in {"membership", "organization"},
           c.op \in {"setRole", "impersonate", "revokeSession", "revokeSessions"},
           c.op = "setRole" => c.at = "organization",
           d.at = "write", Alike(c, d), d.user = c.user, d.todo = c.todo, d.unread = c.unread,
           d.named # None => d.op = "impersonate" \/ d.role = "superadmin",
           WasInside(d.user, Scope(d), s)
    PROVE  Checked(d, s)
<1>1. c.op \in Guarded /\ c.op # "selfApprove" /\ c.at \in Later
  BY DEF Guarded, OnUsers, OnOneUser, Later
<1>2. Shape(d)
  BY <1>1 DEF Checked, Shape, Static, Alike
<1>3. ActorChecked(d, s)
  BY <1>1 DEF Checked, ActorChecked, Entitled, Alike
<1>4. \A u : UserChecked(c, s, u) <=> UserChecked(d, s, u)
  BY DEF Alike, UserChecked
<1>5. d.op \in OnUsers => d.op = "setRole"
  BY DEF Alike, OnUsers, OnOneUser, SelfSafe
<1>6. d.op = "setRole" => c.at = "organization" /\ c.op \in OnUsers
  BY DEF Alike, OnUsers, OnOneUser
<1>7. d.op = "setRole" =>
         /\ \A u \in d.targets \ d.todo :
               UserChecked(d, s, u) /\ (d.role # "superadmin" => WasInside(u, d.org, s))
         /\ d.todo = {}
  BY <1>4, <1>6 DEF Checked, TargetsChecked, Alike
<1>8. d.op \in {"revokeSession", "revokeSessions"} /\ d.role # "superadmin" =>
         WasInside(d.user, d.org, s)
  BY DEF Scope
<1>9. d.op = "impersonate" =>
         /\ d.user # d.actor
         /\ d.role \in {"superadmin", "admin"} \/ d.user \in s.plain
  BY DEF Checked, TargetsChecked, Alike
<1>10. TargetsChecked(d, s)
  BY <1>5, <1>7, <1>8, <1>9 DEF TargetsChecked
<1> QED
  BY <1>2, <1>3, <1>10 DEF Checked

LEMMA MembershipChecked ==
    ASSUME NEW r \in Requests, Standing(r), Membership(r)
    PROVE  Progressed(r)
<1> DEFINE c == call[r]
           s == saw[r]
<1>1. c \in Calls /\ Known(s) /\ Checked(c, s) /\ c.at = "membership"
  BY DEF Standing, Membership
<1>2. c.user \in Users /\ Scope(c) \in Orgs
  BY <1>1 DEF Checked, Shape, Static, Calls, Scope
<1>3. CASE End(r)
  BY <1>3, Ended
<1>4. ASSUME memberRole[c.user][Scope(c)] # None
      PROVE  WasInside(c.user, Scope(c), s)
  BY <1>1, <1>2, <1>4, Learnt DEF Standing
<1>5. CASE WasInside(c.user, Scope(c), s) /\ c.op \in OnUsers /\ Passed(r, c.user)
  <2>1. c.op \notin {"create", "impersonate"}
    BY <1>5 DEF OnUsers, OnOneUser, SelfSafe
  <2>2. /\ c.role # "superadmin" /\ c.user \in c.todo /\ UserChecked(c, s, c.user)
        /\ c.named = None
    BY <1>1, <1>5, <2>1 DEF Checked, Shape, Static, TargetsChecked
  <2>3. WasInside(c.user, c.org, s)
    BY <1>5, <2>2 DEF Scope
  <2> QED
    BY <1>1, <1>5, <2>2, <2>3, PassedChecked
<1>6. CASE WasInside(c.user, Scope(c), s) /\ c.op \notin OnUsers /\ Goto(r, "write")
  <2> DEFINE d == [c EXCEPT !.at = "write"]
  <2>1. /\ d \in Calls /\ d.at = "write" /\ Alike(c, d)
        /\ d.user = c.user /\ d.todo = c.todo /\ d.named = c.named /\ d.unread = c.unread
    BY <1>1, Moved DEF Steps
  <2>2. call' = [call EXCEPT ![r] = d]
    BY <1>6 DEF Goto, Standing
  <2> HIDE DEF d
  <2>3. CASE c.op \in {"impersonate", "revokeSession", "revokeSessions"}
    <3> HIDE DEF c, s
    <3>1. WasInside(d.user, Scope(d), s)
      BY <1>6, <2>1 DEF Scope, Alike
    <3>2. d.named # None => d.op = "impersonate" \/ d.role = "superadmin"
      BY <1>1, <2>1, <2>3 DEF Checked, Shape, Static, Alike
    <3>3. Checked(d, s)
      BY <1>1, <2>1, <2>3, <3>1, <3>2, ToWrite
    <3> QED
      BY <2>1, <2>2, <3>3 DEF Progressed, s
  <2>4. CASE c.op \in {"create", "selfApprove"}
    <3> HIDE DEF c, s
    <3>1. c.op \notin OnUsers
      BY <2>4 DEF OnUsers, OnOneUser, SelfSafe
    <3>2. Shape(d)
      BY <1>1, <2>1, <2>4 DEF Checked, Shape, Static, Alike
    <3>3. ActorChecked(d, s)
      BY <1>1, <2>1 DEF Checked, ActorChecked, Entitled, Alike, Later
    <3>4. TargetsChecked(d, s)
      BY <2>1, <2>4, <3>1 DEF TargetsChecked, Alike
    <3> QED
      BY <2>1, <2>2, <3>2, <3>3, <3>4 DEF Progressed, Checked, s
  <2> QED
    BY <1>1, <1>6, <2>3, <2>4 DEF Calls, AllOperations, Guarded
<1> QED
  BY <1>3, <1>4, <1>5, <1>6 DEF Membership

LEMMA OrganizationChecked ==
    ASSUME NEW r \in Requests, Standing(r), Organization(r)
    PROVE  Progressed(r)
<1> DEFINE c == call[r]
           s == saw[r]
<1>1. c \in Calls /\ Known(s) /\ Checked(c, s) /\ c.at = "organization"
  BY DEF Standing, Organization
<1>2. c.op \in {"setRole", "impersonate"}
  BY <1>1 DEF Checked, Shape, Static
<1>3. c.user \in Users
  BY <1>1, <1>2 DEF Checked, Shape, Static, Calls, OnOneUser
<1>4. CASE End(r)
  BY <1>4, Ended
<1>5. ASSUME NEW o \in OrgsOf(c.user), Keep(r, [c EXCEPT !.at = "write", !.named = o])
      PROVE  Progressed(r)
  <2> DEFINE d == [c EXCEPT !.at = "write", !.named = o]
  <2>1. o \in Orgs /\ o # None /\ memberRole[c.user][o] # None
    BY TablesAssumption DEF OrgsOf
  <2>2. /\ d \in Calls /\ d.at = "write" /\ Alike(c, d) /\ d.named = o
        /\ d.user = c.user /\ d.todo = c.todo /\ d.unread = c.unread
    BY <1>1, <2>1 DEF Calls, Steps, Alike
  <2>3. WasInside(c.user, o, s)
    BY <1>1, <1>3, <2>1, Learnt DEF Standing
  <2>4. d.op = "impersonate" \/ d.role = "superadmin"
    BY <1>1, <1>2, <2>2 DEF Checked, Shape, Static, Alike
  <2> HIDE DEF d, c, s
  <2>5. Checked(d, s)
    BY <1>1, <1>2, <2>1, <2>2, <2>3, <2>4, ToWrite DEF Scope
  <2> QED
    BY <1>5, <2>2, <2>5, Kept DEF s, d
<1> QED
  BY <1>4, <1>5 DEF Organization

LEMMA SelfChecked ==
    ASSUME NEW r \in Requests, Standing(r), Self(r) \/ Invitation(r)
    PROVE  Progressed(r)
<1> DEFINE c == call[r]
           s == saw[r]
<1>1. c \in Calls /\ Checked(c, s) /\ c.at \in {"self", "invitation"}
  BY DEF Standing, Self, Invitation
<1>2. c.op = "selfApprove"
  BY <1>1 DEF Checked, Shape, Static
<1>3. CASE End(r)
  BY <1>3, Ended
<1>4. ASSUME NEW at \in {"invitation", "write"}, Goto(r, at)
      PROVE  Progressed(r)
  <2> DEFINE d == [c EXCEPT !.at = at]
  <2>1. /\ d \in Calls /\ d.at = at /\ Alike(c, d)
        /\ d.user = c.user /\ d.todo = c.todo /\ d.named = c.named /\ d.unread = c.unread
    <3> HIDE DEF c
    <3>1. at \in Steps
      BY DEF Steps
    <3> QED
      BY <1>1, <3>1, Moved
  <2>2. call' = [call EXCEPT ![r] = d]
    BY <1>4 DEF Goto, Standing
  <2> HIDE DEF d, c, s
  <2>3. d.op \notin Guarded /\ d.op \notin OnUsers /\ d.op = "selfApprove"
    BY <1>2, <2>1 DEF Guarded, OnUsers, OnOneUser, SelfSafe, Alike
  <2>4. Shape(d)
    BY <1>1, <1>2, <2>1, <2>3 DEF Checked, Shape, Static, Alike
  <2>5. ActorChecked(d, s) /\ TargetsChecked(d, s)
    BY <2>3 DEF ActorChecked, TargetsChecked
  <2> QED
    BY <2>1, <2>2, <2>4, <2>5 DEF Progressed, Checked, s
<1> QED
  BY <1>3, <1>4 DEF Self, Invitation

\* The inputs of an operation are the ones it needs.
Inputs(op, u, us, o, k) ==
    /\ op \in AllOperations /\ us \subseteq Users
    /\ u \in Users \cup {None} /\ o \in Orgs \cup {None} /\ k \in Tokens \cup {None}
    /\ op \in OnOneUser \cup {"impersonate"} => u \in Users /\ us = {u}
    /\ op \in {"revokeSessions", "create", "selfApprove"} => u \in Users
    /\ op \in {"revokeSession", "impersonate"} => k \in Tokens
    /\ o # None => op \in {"create", "impersonate"}

LEMMA ReceiveChecked ==
    ASSUME NEW r \in Requests, Standing(r), NEW t \in Tokens,
           NEW op, NEW u, NEW us, NEW o, NEW role \in Managed, NEW k,
           Inputs(op, u, us, o, k), Receive(r, t, op, u, us, o, role, k)
    PROVE  Progressed(r)
<1> DEFINE p == PlatformRole(owner[t])
           c == [at |-> "idle", op |-> op, actor |-> owner[t], role |-> p,
                 org |-> IF p = "superadmin" THEN None ELSE active[t],
                 user |-> u, todo |-> us, targets |-> us, named |-> o,
                 newRole |-> role, token |-> k, unread |-> FALSE]
           at == IF op = "selfApprove" THEN "self"
                 ELSE IF p = "superadmin" THEN FirstCheck(c) ELSE "approval"
           d == [c EXCEPT !.at = at]
           s == saw[r]
<1>1. owner[t] \in Users /\ owner[t] # None
  BY DEF Receive, Sessions, Standing, TablesTypeOK, UserRows
<1>2. p \in {"superadmin"} \cup Managed
  BY <1>1 DEF PlatformRole, Standing, TablesTypeOK, PlatformRoles, Managed
<1>3. c \in Calls
  <2> HIDE DEF p
  <2>1. (IF p = "superadmin" THEN None ELSE active[t]) \in Orgs \cup {None}
    BY DEF Standing, TablesTypeOK
  <2> QED
    BY <1>1, <1>2, <2>1 DEF Calls, Steps, Inputs
<1>4. Proceed(r, d)
  BY DEF Receive
<1>5. c.at = "idle" /\ c.op = op /\ c.actor # None /\ c.role = p /\ c.user = u /\ c.todo = us
      /\ c.targets = us /\ c.named = o /\ c.token = k
  BY <1>1
<1>6. at \in Steps
  <2> HIDE DEF c
  <2> QED
    BY <1>3, FirstCheckKinds DEF Steps
<1>7. /\ d \in Calls /\ d.at = at /\ Alike(c, d)
      /\ d.user = c.user /\ d.todo = c.todo /\ d.named = c.named /\ d.unread = c.unread
  <2> HIDE DEF c, at
  <2> QED
    BY <1>3, <1>6, Moved
<1>8. at = IF op = "selfApprove" THEN "self"
           ELSE IF p = "superadmin" THEN FirstCheck(c) ELSE "approval"
  OBVIOUS
<1> HIDE DEF c, at, d, p, s
<1>9. TargetsChecked(c, s)
  BY <1>5 DEF TargetsChecked
<1>10. op # "selfApprove" => op \in Guarded
  BY DEF Inputs, AllOperations
<1>11. CASE op = "selfApprove"
  <2>1. d.op \notin Guarded /\ d.op \notin OnUsers /\ d.op = "selfApprove" /\ d.at = "self"
    BY <1>5, <1>7, <1>8, <1>11 DEF Guarded, OnUsers, OnOneUser, SelfSafe, Alike
  <2>2. Shape(d)
    <3>1. d.user # None
      BY <1>5, <1>7, <1>11, TablesAssumption DEF Inputs
    <3> QED
      BY <1>5, <1>7, <1>11, <2>1, <3>1 DEF Shape, Static, Alike, Inputs, OnUsers
  <2>3. ActorChecked(d, s) /\ TargetsChecked(d, s)
    BY <2>1 DEF ActorChecked, TargetsChecked
  <2> QED
    BY <1>4, <1>7, <2>2, <2>3, Kept DEF Checked, s
<1>12. CASE op # "selfApprove" /\ p = "superadmin"
  <2>1. d.at = FirstCheck(c) /\ c.role = "superadmin" /\ c.op \in Guarded
    BY <1>5, <1>7, <1>8, <1>10, <1>12
  <2>2. Static(c)
    BY <1>5, <1>1, TablesAssumption DEF Static, Inputs
  <2>3. d.at # "idle" => Checked(d, s)
    BY <1>3, <1>5, <1>7, <1>9, <2>1, <2>2, HandlerBegins
  <2> QED
    BY <1>4, <1>7, <2>3, Kept DEF s
<1>13. CASE op # "selfApprove" /\ p # "superadmin"
  <2>1. d.at = "approval" /\ c.role # "superadmin" /\ c.op \in Guarded
    BY <1>5, <1>7, <1>8, <1>10, <1>13
  <2>2. Shape(d)
    BY <1>5, <1>7, <1>1, <2>1, TablesAssumption DEF Shape, Static, Inputs, Alike
  <2>3. ActorChecked(d, s)
    BY <2>1 DEF ActorChecked, Later
  <2>4. TargetsChecked(d, s)
    BY <1>5, <1>7, <2>1 DEF TargetsChecked, Alike
  <2> QED
    BY <1>4, <1>7, <2>2, <2>3, <2>4, Kept DEF Checked, s
<1> QED
  BY <1>11, <1>12, <1>13

LEMMA ReceivedInputs ==
    ASSUME NEW r \in Requests, Standing(r), ReceiveAny(r)
    PROVE  \E t \in Tokens, role \in Managed : \E op, u, us, o, k :
              Inputs(op, u, us, o, k) /\ Receive(r, t, op, u, us, o, role, k)
<1> USE AccessAssumption
<1>1. PICK t \in Sessions, op \in Operations :
        \/ op = "bulkRemove" /\ \E us \in SUBSET Users :
              Receive(r, t, op, None, us, None, "member", None)
        \/ op = "setRole" /\ \E u \in Users, role \in Managed :
              Receive(r, t, op, u, {u}, None, role, None)
        \/ op = "create" /\ \E u \in Newcomers, o \in Orgs \cup {None}, role \in Managed :
              Receive(r, t, op, u, {u}, o, role, None)
        \/ op = "impersonate" /\ \E u \in Users, o \in Orgs \cup {None}, k \in Tokens \ drawn :
              Receive(r, t, op, u, {u}, o, "member", k)
        \/ op = "revokeSession" /\ \E k \in Tokens :
              Receive(r, t, op, None, {}, None, "member", k)
        \/ op = "selfApprove" /\ Receive(r, t, op, owner[t], {owner[t]}, None, "member", None)
        \/ /\ op \notin {"bulkRemove", "setRole", "create", "impersonate", "revokeSession",
                         "selfApprove"}
           /\ \E u \in Users : Receive(r, t, op, u, {u}, None, "member", None)
  <2>1. PICK t \in Sessions, op \in Operations :
          CASE op = "bulkRemove" ->
                 \E us \in SUBSET Users :
                    /\ Cardinality(us) \in 1..MaxBulk
                    /\ Receive(r, t, op, None, us, None, "member", None)
            [] op = "setRole" ->
                 \E u \in Users, role \in Managed :
                    Receive(r, t, op, u, {u}, None, role, None)
            [] op = "create" ->
                 \E u \in Newcomers, o \in Orgs \cup {None}, role \in Managed :
                    Receive(r, t, op, u, {u}, o, role, None)
            [] op = "impersonate" ->
                 \E u \in Users, o \in Orgs \cup {None}, k \in Tokens \ drawn :
                    Receive(r, t, op, u, {u}, o, "member", k)
            [] op = "revokeSession" ->
                 \E k \in Tokens : Receive(r, t, op, None, {}, None, "member", k)
            [] op = "selfApprove" ->
                 Receive(r, t, op, owner[t], {owner[t]}, None, "member", None)
            [] OTHER ->
                 \E u \in Users : Receive(r, t, op, u, {u}, None, "member", None)
    BY DEF ReceiveAny
  <2>2. op = "bulkRemove" \/ op = "setRole" \/ op = "create" \/ op = "impersonate"
        \/ op = "revokeSession" \/ op = "selfApprove"
        \/ op \notin {"bulkRemove", "setRole", "create", "impersonate", "revokeSession",
                      "selfApprove"}
    OBVIOUS
  <2> QED
    BY <2>1, <2>2
<1>2. /\ op \in AllOperations /\ t \in Tokens /\ owner[t] \in Users /\ "member" \in Managed
  BY DEF Sessions, Standing, TablesTypeOK, UserRows, Managed
<1>3. /\ "bulkRemove" \notin OnOneUser /\ "create" \notin OnOneUser
      /\ "revokeSession" \notin OnOneUser /\ "selfApprove" \notin OnOneUser
  BY DEF OnOneUser, SelfSafe
<1>4. CASE op = "bulkRemove"
  <2>1. PICK us \in SUBSET Users :
           Receive(r, t, op, None, us, None, "member", None)
    BY <1>1, <1>4
  <2>2. Inputs(op, None, us, None, None)
    BY <1>2, <1>3, <1>4 DEF Inputs
  <2> QED
    BY <1>2, <2>1, <2>2
<1>5. CASE op = "setRole"
  <2>1. PICK u \in Users, role \in Managed :
           Receive(r, t, op, u, {u}, None, role, None)
    BY <1>1, <1>5
  <2>2. Inputs(op, u, {u}, None, None)
    BY <1>2, <1>3, <1>5 DEF Inputs
  <2> QED
    BY <1>2, <2>1, <2>2
<1>6. CASE op = "create"
  <2>1. PICK u \in Newcomers, o \in Orgs \cup {None}, role \in Managed :
           Receive(r, t, op, u, {u}, o, role, None)
    BY <1>1, <1>6
  <2>2. Inputs(op, u, {u}, o, None)
    BY <1>2, <1>3, <1>6 DEF Inputs
  <2> QED
    BY <1>2, <2>1, <2>2
<1>7. CASE op = "impersonate"
  <2>1. PICK u \in Users, o \in Orgs \cup {None}, k \in Tokens \ drawn :
           Receive(r, t, op, u, {u}, o, "member", k)
    BY <1>1, <1>7
  <2>2. Inputs(op, u, {u}, o, k)
    BY <1>2, <1>3, <1>7 DEF Inputs
  <2> QED
    BY <1>2, <2>1, <2>2
<1>8. CASE op = "revokeSession"
  <2>1. PICK k \in Tokens :
           Receive(r, t, op, None, {}, None, "member", k)
    BY <1>1, <1>8
  <2>2. Inputs(op, None, {}, None, k)
    BY <1>2, <1>3, <1>8 DEF Inputs
  <2> QED
    BY <1>2, <2>1, <2>2
<1>9. CASE op = "selfApprove"
  <2>1. Receive(r, t, op, owner[t], {owner[t]}, None, "member", None)
    BY <1>1, <1>9
  <2>2. Inputs(op, owner[t], {owner[t]}, None, None)
    BY <1>2, <1>3, <1>9 DEF Inputs
  <2> QED
    BY <1>2, <2>1, <2>2
<1>10. CASE op \notin {"bulkRemove", "setRole", "create", "impersonate", "revokeSession",
                       "selfApprove"}
  <2>1. PICK u \in Users :
           Receive(r, t, op, u, {u}, None, "member", None)
    BY <1>1, <1>10
  <2>2. Inputs(op, u, {u}, None, None)
    BY <1>2, <1>3, <1>10 DEF Inputs
  <2> QED
    BY <1>2, <2>1, <2>2
<1> QED
  BY <1>4, <1>5, <1>6, <1>7, <1>8, <1>9, <1>10

\* The statement a request ends with is one of the tables' statements.
LEMMA WriteIsStatement ==
    ASSUME NEW r \in Requests, Standing(r), saw \in [Requests -> History], Write(r)
    PROVE  (Statement \/ UNCHANGED tableVars) /\ Progressed(r)
<1> DEFINE c == call[r]
           s == saw[r]
<1>1. c \in Calls /\ Checked(c, s) /\ c.at = "write" /\ s \in History
  BY DEF Standing, Write
<1>2. \A u, o : WasInside(u, o, s) => u \in Users /\ o \in Orgs
  BY <1>1 DEF WasInside, History
<1>3. c.actor \in Users /\ c.newRole \in Managed /\ c.targets \in SUBSET Users
  BY <1>1 DEF Calls, Checked, Shape, Static
<1>4. Progressed(r)
  BY Ended DEF Write
<1>5. CASE c.op = "setRole"
  <2>1. WasInside(c.user, Scope(c), s)
    BY <1>1, <1>5 DEF Checked, TargetsChecked
  <2>2. SetUserRole(c.user, Scope(c), c.newRole)
    BY <1>5 DEF Write,
       Rewrite, SetRole, Ban, Remove, Approve, Create, Impersonate, Revoke, SelfSafe
  <2> HIDE DEF c, s
  <2> QED
    BY <1>2, <1>3, <1>4, <2>1, <2>2 DEF Statement
<1>6. CASE c.op \in {"ban", "unban"}
  <2>1. c.user \in Users
    BY <1>1, <1>6 DEF Calls, Checked, Shape, Static, OnOneUser
  <2>2. SetBanned(c.user, c.op = "ban")
    BY <1>6 DEF Write,
       Rewrite, SetRole, Ban, Remove, Approve, Create, Impersonate, Revoke, SelfSafe
  <2>3. \E ban \in BOOLEAN : SetBanned(c.user, ban)
    BY <1>6, <2>2
  <2> HIDE DEF c
  <2> QED
    BY <1>4, <2>1, <2>3 DEF Statement
<1>7. CASE c.op \in {"remove", "bulkRemove"}
  <2>1. RemoveUsers(c.targets)
    BY <1>7 DEF Write,
       Rewrite, SetRole, Ban, Remove, Approve, Create, Impersonate, Revoke, SelfSafe
  <2> QED
    BY <1>3, <1>4, <2>1 DEF Statement
<1>8. CASE c.op \in {"approve", "selfApprove", "reject"}
  <2>1. c.user \in Users
    BY <1>1, <1>8 DEF Calls, Checked, Shape, Static, OnOneUser
  <2>2. SetApproval(c.user, IF c.op = "reject" THEN "rejected" ELSE "approved")
    BY <1>8 DEF Write,
       Rewrite, SetRole, Ban, Remove, Approve, Create, Impersonate, Revoke, SelfSafe
  <2> QED
    BY <1>4, <2>1, <2>2 DEF Statement, Statuses
<1>9. CASE c.op = "create"
  <2>1. c.user \in Users /\ c.named \in Orgs
    BY <1>1, <1>9 DEF Calls, Checked, Shape, Static
  <2>2. CreateUser(c.user, c.named, c.newRole)
    BY <1>9 DEF Write,
       Rewrite, SetRole, Ban, Remove, Approve, Create, Impersonate, Revoke, SelfSafe
  <2> HIDE DEF c
  <2> QED
    BY <1>3, <1>4, <2>1, <2>2 DEF Statement
<1>10. CASE c.op = "impersonate"
  <2>1. WasInside(c.user, Scope(c), s) /\ c.token \in Tokens
    BY <1>1, <1>10 DEF Checked, TargetsChecked, Shape, Static
  <2>2. CreateImpersonationSession(c.token, c.user, c.actor, Scope(c))
    BY <1>10 DEF Write,
       Rewrite, SetRole, Ban, Remove, Approve, Create, Impersonate, Revoke, SelfSafe
  <2> HIDE DEF c, s
  <2>3. c.user \in Users /\ Scope(c) \in Orgs
    BY <1>2, <2>1
  <2>4. "member" \in Managed
    BY DEF Managed
  <2> QED
    BY <1>3, <1>4, <2>1, <2>2, <2>3, <2>4 DEF Statement
<1>11. CASE c.op \in {"revokeSession", "revokeSessions"}
  <2>1. c.op = "revokeSession" => c.token \in Tokens
    BY <1>1 DEF Checked, Shape, Static
  <2>2. \E ts \in SUBSET Tokens : DeleteSessions(ts)
    <3>1. CASE c.op = "revokeSession"
      <4>1. DeleteSessions({c.token})
        BY <3>1 DEF Write,
           Rewrite, SetRole, Ban, Remove, Approve, Create, Impersonate, Revoke, SelfSafe
      <4> QED
        BY <2>1, <3>1, <4>1
    <3>2. CASE c.op = "revokeSessions"
      <4>1. DeleteSessions({t \in Sessions : owner[t] = c.user})
        BY <3>2 DEF Write,
           Rewrite, SetRole, Ban, Remove, Approve, Create, Impersonate, Revoke, SelfSafe
      <4> QED
        BY <4>1 DEF Sessions
    <3> QED
      BY <1>11, <3>1, <3>2
  <2> QED
    BY <1>4, <2>2 DEF Statement
<1>12. CASE c.op \in SelfSafe
  <2>1. UNCHANGED tableVars
    BY <1>12 DEF Write,
       Rewrite, SetRole, Ban, Remove, Approve, Create, Impersonate, Revoke, SelfSafe
  <2> QED
    BY <1>4, <2>1
<1> QED
  <2>1. c.op \in AllOperations
    BY <1>1 DEF Calls
  <2> QED
    BY <2>1, <1>5, <1>6, <1>7, <1>8, <1>9, <1>10, <1>11, <1>12
    DEF AllOperations, Guarded, OnUsers, OnOneUser

-----------------------------------------------------------------------------
(* The invariant, and what follows from it.                                *)

LEMMA TablesUnchanged ==
    ASSUME TablesTypeOK, UNCHANGED tableVars PROVE TablesTypeOK'
BY DEF TablesTypeOK, tableVars, userVars, sessionVars, UserRows, NoMembership

LEMMA ServeStep ==
    ASSUME AccessInv, NEW r \in Requests, Serve(r)
    PROVE  /\ Progressed(r) /\ TablesTypeOK'
           /\ received' \in 0..MaxRequests /\ events' \in 0..MaxEvents
<1> USE AccessAssumption
<1>1. Standing(r) /\ saw \in [Requests -> History]
  BY DEF AccessInv, TypeOK, Standing, History
<1>2. received \in 0..MaxRequests /\ events \in 0..MaxEvents /\ TablesTypeOK
  BY DEF AccessInv, TypeOK
<1>3. CASE ReceiveAny(r)
  <2>0. PICK t \in Tokens, role \in Managed : \E op, u, us, o, k :
           Inputs(op, u, us, o, k) /\ Receive(r, t, op, u, us, o, role, k)
    BY <1>1, <1>3, ReceivedInputs
  <2>a. PICK op, u, us, o, k :
           Inputs(op, u, us, o, k) /\ Receive(r, t, op, u, us, o, role, k)
    BY <2>0
  <2>b. Progressed(r)
    BY <1>1, <2>a, ReceiveChecked
  <2>1. /\ UNCHANGED <<tableVars, events>>
        /\ received < MaxRequests /\ received' = received + 1
    BY <2>a DEF Receive
  <2>2. TablesTypeOK'
    BY <1>2, <2>1, TablesUnchanged
  <2> QED
    BY <1>2, <2>1, <2>2, <2>b
<1>4. CASE ApprovalUnread(r)
  <2>1. /\ UNCHANGED <<tableVars, received>>
        /\ events < MaxEvents /\ events' = events + 1
        /\ Progressed(r)
    BY <1>1, <1>4, ApprovalChecked DEF ApprovalUnread, Event
  <2>2. TablesTypeOK'
    BY <1>2, <2>1, TablesUnchanged
  <2> QED
    BY <1>2, <2>1, <2>2
<1>5. CASE Write(r)
  <2>1. UNCHANGED countVars
    BY <1>5 DEF Write
  <2> QED
    BY <1>1, <1>2, <1>5, <2>1, WriteIsStatement, StatementTyped, TablesUnchanged DEF countVars
<1>6. ASSUME Progressed(r), UNCHANGED <<tableVars, countVars>>
      PROVE  /\ Progressed(r) /\ TablesTypeOK'
             /\ received' \in 0..MaxRequests /\ events' \in 0..MaxEvents
  BY <1>2, <1>6, TablesUnchanged DEF countVars
<1>7. CASE Approval(r)
  BY <1>1, <1>6, <1>7, ApprovalChecked DEF Approval
<1>8. CASE Permission(r)
  BY <1>1, <1>6, <1>8, PermissionChecked DEF Permission
<1>9. CASE Target(r)
  BY <1>1, <1>6, <1>9, TargetChecked DEF Target
<1>10. CASE ImpersonationTarget(r)
  BY <1>1, <1>6, <1>10, ImpersonationChecked DEF ImpersonationTarget
<1>11. CASE SessionTarget(r)
  BY <1>1, <1>6, <1>11, SessionChecked DEF SessionTarget
<1>12. CASE Membership(r)
  BY <1>1, <1>6, <1>12, MembershipChecked DEF Membership
<1>13. CASE Organization(r)
  BY <1>1, <1>6, <1>13, OrganizationChecked DEF Organization
<1>14. CASE Self(r) \/ Invitation(r)
  BY <1>1, <1>6, <1>14, SelfChecked DEF Self, Invitation
<1> QED
  BY <1>3, <1>4, <1>5, <1>7, <1>8, <1>9, <1>10, <1>11, <1>12, <1>13, <1>14 DEF Serve

LEMMA InvInit == Init => AccessInv
<1> SUFFICES ASSUME Init PROVE AccessInv
  OBVIOUS
<1> USE AccessAssumption, TablesAssumption
<1>1. owner \in [Tokens -> UserRows \cup {None}]
  <2> SUFFICES ASSUME NEW t \in Tokens PROVE owner[t] \in UserRows \cup {None}
    BY DEF Init
  <2> QED
    BY DEF Init, UserRows
<1>2. \A u \in Users \ UserRows : memberRole[u] = NoMembership
  BY DEF Init, UserRows
<1>3. TablesTypeOK
  BY <1>1, <1>2 DEF Init, TablesTypeOK
<1>4. call \in [Requests -> Calls] /\ \A r \in Requests : call[r].at = "idle"
  BY NoCallTyped DEF Init
<1>5. saw \in [Requests -> History] /\ received = 0 /\ events = 0
  BY DEF Init, Nothing, History
<1> QED
  BY <1>3, <1>4, <1>5 DEF AccessInv, TypeOK, History

LEMMA InvStep == AccessInv /\ [Next]_vars => AccessInv'
<1> SUFFICES ASSUME AccessInv, [Next]_vars PROVE AccessInv'
  OBVIOUS
<1> USE AccessAssumption
<1>1. /\ TablesTypeOK /\ call \in [Requests -> Calls]
      /\ received \in 0..MaxRequests /\ events \in 0..MaxEvents
      /\ \A r \in Requests : call[r].at # "idle" => Checked(call[r], saw[r])
  BY DEF AccessInv, TypeOK
<1>2. ASSUME Others, Observe
      PROVE  AccessInv'
  <2>1. Happening
    BY <1>2 DEF Others, Happening
  <2>2. TablesTypeOK'
    BY <1>1, <2>1, HappeningTyped
  <2>3. call' = call /\ received' \in 0..MaxRequests /\ events' \in 0..MaxEvents
    BY <1>1, <1>2 DEF Others, Event
  <2> QED
    BY <1>1, <1>2, <2>2, <2>3, ObservedStep
<1>3. ASSUME NEW r \in Requests, Serve(r), Observe
      PROVE  AccessInv'
  <2>1. /\ Progressed(r) /\ TablesTypeOK'
        /\ received' \in 0..MaxRequests /\ events' \in 0..MaxEvents
    BY <1>3, ServeStep
  <2>2. PICK d \in Calls : /\ call' = [call EXCEPT ![r] = d]
                           /\ d.at # "idle" => Checked(d, saw[r])
    BY <2>1 DEF Progressed
  <2>3. call' \in [Requests -> Calls]
    BY <1>1, <2>2
  <2>4. \A q \in Requests : call'[q].at # "idle" => Checked(call'[q], saw[q])
    BY <1>1, <2>2
  <2> QED
    BY <1>3, <2>1, <2>3, <2>4, ObservedStep
<1>4. CASE UNCHANGED vars
  <2>1. UNCHANGED <<tableVars, call, saw, countVars>>
    BY <1>4 DEF vars
  <2>2. TablesTypeOK' /\ TypeOK'
    BY <2>1, <1>1, TablesUnchanged DEF AccessInv, TypeOK, countVars
  <2>3. \A r \in Requests : call'[r].at # "idle" =>
           /\ Within(Facts, saw[r]) /\ Checked(call[r], saw[r])
    BY <2>1 DEF AccessInv, Known
  <2>4. Facts' = Facts
    BY <2>1 DEF Facts, TargetRole, tableVars, userVars
  <2>5. \A r \in Requests : call'[r].at # "idle" =>
           /\ Within(Facts', saw'[r]) /\ Checked(call'[r], saw'[r])
    BY <2>1, <2>3, <2>4
  <2> QED
    BY <2>2, <2>5 DEF AccessInv, Known, Within, Checked, Shape, Static, ActorChecked,
                      TargetsChecked, UserChecked, Entitled, WasInside, Scope
<1> QED
  BY <1>2, <1>3, <1>4 DEF Next

LEMMA AlwaysAccessInv == Spec => []AccessInv
BY InvInit, InvStep, PTL DEF Spec

\* No request that was in flight when users were removed leaves a membership
\* or a session of a user there is not.
THEOREM AccessTyped == Spec => []TypeOK
BY AlwaysAccessInv, PTL DEF AccessInv

\* A request of anyone but a superadmin reaches its statement only with an
\* approval and a permission that its caller had since it began.
THEOREM EntitledActors == Spec => []ActorsAreEntitled
<1>1. AccessInv => ActorsAreEntitled
  BY DEF AccessInv, Checked, ActorChecked, ActorsAreEntitled, Later
<1> QED
  BY <1>1, AlwaysAccessInv, PTL

\* The statement of a request writes only to users that were, since it
\* began, in the scope of its caller.
THEOREM ScopedTargets == Spec => []TargetsAreInScope
<1>1. ASSUME AccessInv, NEW r \in Requests, call[r].at = "write"
      PROVE  InScope(call[r], saw[r])
  <2> DEFINE c == call[r]
             s == saw[r]
  <2>1. Checked(c, s) /\ c.at = "write"
    BY <1>1 DEF AccessInv
  <2> HIDE DEF c, s
  <2>2. ASSUME c.op \in OnUsers
        PROVE  \A u \in c.targets :
                  UserChecked(c, s, u) /\ (c.role # "superadmin" => WasInside(u, c.org, s))
    BY <2>1, <2>2 DEF Checked, TargetsChecked
  <2>3. c.op \in OnUsers \ SelfSafe => c.actor \notin c.targets
    BY <2>2 DEF UserChecked
  <2>4. c.op = "impersonate" =>
           /\ c.actor \notin c.targets /\ WasInside(c.user, Scope(c), s)
           /\ c.role \in {"superadmin", "admin"} \/ c.user \in s.plain
    BY <2>1 DEF Checked, TargetsChecked, Shape, Static
  <2>5. c.op \in OnUsers /\ c.role # "superadmin" =>
           \A u \in c.targets : WasInside(u, c.org, s) /\ (u = c.actor \/ u \in s.plain)
    BY <2>2 DEF UserChecked
  <2>6. /\ c.op = "setRole" => WasInside(c.user, Scope(c), s)
        /\ c.op \in {"revokeSession", "revokeSessions"} /\ c.role # "superadmin" =>
              WasInside(c.user, c.org, s)
    BY <2>1 DEF Checked, TargetsChecked
  <2> QED
    BY <2>3, <2>4, <2>5, <2>6 DEF InScope, OnUsers, c, s
<1>2. AccessInv => TargetsAreInScope
  BY <1>1 DEF TargetsAreInScope
<1> QED
  BY <1>2, AlwaysAccessInv, PTL

\* What the screens offer is what the checks accept: two readings of the same
\* rows, which agree whatever these are, so no order of requests and no row
\* that a writer outside this model leaves behind can set them apart.
THEOREM ScreensMatchChecks == Spec => []ScreensAgree
<1>1. ScreensAgree
  <2> SUFFICES ASSUME NEW a \in UserRows, NEW o \in Orgs
               PROVE  LET p == PlatformRole(a)
                          listed == Listed(p, o)
                      IN /\ \A u \in UserRows, safe \in BOOLEAN :
                               Capable(a, p, o, safe, u) <=>
                                  u \in listed /\ ~TargetRefused(a, p, safe, u)
                         /\ \A u \in ListedPending(p, o) \ {a} :
                               \/ Capable(a, p, o, FALSE, u)
                               \/ platform[u] \in {"manager", "admin"}
                         /\ \A x \in Offered(p, o) : Creatable(p, o, x[1], x[2])
    BY DEF ScreensAgree
  <2> DEFINE p == PlatformRole(a)
  <2>1. ASSUME NEW u \in UserRows
        PROVE  u \in Listed(p, o) <=> p = "superadmin" \/ memberRole[u][o] # None
    BY DEF Listed, Inside, UserRows
  <2>2. ASSUME NEW u \in Users, TargetRole(u) # "member"
        PROVE  platform[u] \in {"manager", "admin"}
    BY <2>2 DEF TargetRole, Managed
  <2> HIDE DEF p
  <2>3. ASSUME NEW u \in UserRows, NEW safe \in BOOLEAN
        PROVE  Capable(a, p, o, safe, u) <=>
                  u \in Listed(p, o) /\ ~TargetRefused(a, p, safe, u)
    BY <2>1 DEF Capable, TargetRefused
  <2>4. ASSUME NEW u \in ListedPending(p, o) \ {a}
        PROVE  \/ Capable(a, p, o, FALSE, u)
               \/ platform[u] \in {"manager", "admin"}
    <3>1. u \in UserRows /\ u \in Listed(p, o) /\ u # a
      BY DEF ListedPending, Listed, Inside, UserRows, Statuses
    <3> QED
      BY <2>1, <2>2, <3>1 DEF Capable, UserRows
  <2>5. ASSUME NEW x \in Offered(p, o) PROVE Creatable(p, o, x[1], x[2])
    BY TablesAssumption DEF Offered, Creatable
  <2> QED
    BY <2>3, <2>4, <2>5 DEF p
<1> QED
  BY <1>1, PTL
=============================================================================
