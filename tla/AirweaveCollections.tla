------------------------ MODULE AirweaveCollections ------------------------
(***************************************************************************)
(* Collections at Airweave and who owns them.  AirweaveService creates and *)
(* deletes a collection in two writes to two systems: one upstream, one to *)
(* the allowlist in organization.metadata.  AirweaveOwnershipGuard and     *)
(* AirweaveAuthorizationService decide by the allowlist, ProjectsService   *)
(* attaches by it, and the update of an organization writes the whole      *)
(* column it is kept in.  A request is a sequence of awaits; call[r].at    *)
(* names the one request r makes next.  Its caller's permission is the     *)
(* guard's of UserAccess and taken for granted.                            *)
(*                                                                         *)
(* Four variables are history: seen[r], what was in the list of the        *)
(* organization request r is about at some time since r began; reported    *)
(* and removed, the creations and deletions that were answered with        *)
(* success; and overwritten, the organizations whose list was replaced by  *)
(* a copy that was not current.                                            *)
(***************************************************************************)
EXTENDS Naturals

CONSTANTS
    Orgs, Projects, ProjectOrg,  \* organizations, and projects in them
    Collections,  \* readable ids; an id is not drawn again once deleted
    Legacy,       \* collections that are there before any organization's
    Seed,         \* the legacy ones that a migration put into the lists
    Connections,  \* ids of source connections at Airweave
    Browser,      \* those that are authenticated in the browser
    Sources,      \* ids of data source rows
    Requests,     \* requests that can be in flight at the same time
    Operations,   \* the operations that clients request
    None, Gone,   \* no value; a source connection that was deleted
    MaxRequests,  \* bound on the requests received
    MaxFaults,    \* bound on failures
    MaxEvents     \* bound on what else happens

OnCollection == {"rename", "createSource", "connect", "delete"}
OnConnection == {"renameSource", "deleteSource", "reauth"}
AllOperations == {"create", "attach"} \cup OnCollection \cup OnConnection

ASSUME CollectionsAssumption ==
    /\ ProjectOrg \in [Projects -> Orgs]
    /\ Legacy \subseteq Collections /\ Seed \in [Orgs -> SUBSET Legacy]
    /\ Browser \subseteq Connections
    /\ Operations \subseteq AllOperations
    /\ None \notin Orgs \cup Projects \cup Collections \cup Connections
    /\ Gone \notin Collections /\ Gone # None
    /\ MaxRequests \in Nat /\ MaxFaults \in Nat /\ MaxEvents \in Nat

VARIABLES
    orgs,        \* rows of organization
    allow,       \* metadata.allowedAirweaveCollectionIds
    form,        \* a client's copy of the list, None without one
    projects,    \* rows of project
    project,     \* project_data_source.project_id, None without the row
    collection,  \* project_data_source.config.collectionReadableId
    upstream,    \* a collection at Airweave
    parent,      \* the collection of a source connection at Airweave
    sessions,    \* collections with a connect session that is alive
    enforce,     \* AIRWEAVE_READ_LOCKDOWN_ENFORCE, or its default
    call,        \* what a request holds in its variables
    seen, reported, removed, overwritten,  \* history
    received, faults, events               \* how many of each

rowVars == <<orgs, allow, form, projects, project, collection>>
airweaveVars == <<upstream, parent, sessions>>
answerVars == <<reported, removed, overwritten>>
countVars == <<received, faults, events>>
vars == <<rowVars, airweaveVars, enforce, call, seen, answerVars, countVars>>

Steps == {"idle",
          "findOrg", "createUpstream", "record",     \* createCollection
          "guard", "act",                            \* AirweaveOwnershipGuard
          "references", "deleteUpstream", "forget",  \* deleteCollection
          "lookup", "own",                           \* fetchAndAssertOwnership
          "project", "access", "exists", "insert"}   \* attachSource

NoCall == [at |-> "idle", op |-> "create", super |-> FALSE, org |-> None,
           col |-> None, con |-> None, project |-> None]
Calls == [at : Steps, op : AllOperations, super : BOOLEAN,
          org : Orgs \cup {None}, col : Collections \cup {None},
          con : Connections \cup {None}, project : Projects \cup {None}]

-----------------------------------------------------------------------------
Init ==
    /\ orgs = Orgs /\ projects = Projects
    /\ allow = Seed
    /\ form = [o \in Orgs |-> None]
    /\ project = [s \in Sources |-> None]
    /\ collection = [s \in Sources |-> None]
    /\ upstream = [c \in Collections |->
                      IF c \in Legacy THEN "present" ELSE "absent"]
    /\ parent = [k \in Connections |-> None]
    /\ sessions = {}
    /\ enforce \in BOOLEAN
    /\ call = [r \in Requests |-> NoCall]
    /\ seen = [r \in Requests |-> {}]
    /\ reported = [c \in Collections |-> None]
    /\ removed = {} /\ overwritten = {}
    /\ received = 0 /\ faults = 0 /\ events = 0

Keep(r, c) == call' = [call EXCEPT ![r] = c]
Goto(r, at) == Keep(r, [call[r] EXCEPT !.at = at])
End(r) == Keep(r, NoCall)

\* The list of no organization is empty.
Allowed(o) == IF o \in orgs THEN allow[o] ELSE {}

\* After the write of a step: its answer comes, or the request ends in an
\* error or with its process.
Answered(r, c) ==
    \/ Keep(r, c) /\ UNCHANGED faults
    \/ faults < MaxFaults /\ faults' = faults + 1 /\ End(r)

\* The UPDATEs of the allowlist; without the row they change nothing and
\* succeed.
AddToAllowlist(o, c) ==
    allow' = [allow EXCEPT ![o] = IF o \in orgs THEN @ \cup {c} ELSE @]

\* Mutant: the field is written anew.
ClearAllowlist(o, c) ==
    allow' = [allow EXCEPT ![o] = {}]

RemoveFromAllowlist(o, c) ==
    allow' = [allow EXCEPT ![o] = @ \ {c}]

\* Airweave: what belongs to a collection goes with it.
Delete(c) ==
    /\ upstream' = [upstream EXCEPT ![c] = "deleted"]
    /\ parent' = [k \in Connections |-> IF parent[k] = c THEN Gone
                                                         ELSE parent[k]]
    /\ sessions' = sessions \ {c}

-----------------------------------------------------------------------------
\* assertOwnership: a superadmin passes without a query.
AfterOwnership(c) == IF c.op = "delete" THEN "references" ELSE "act"

\* The first await of a request with its caller's active organization o.
Begin(r, c) ==
    /\ call[r].at = "idle"
    /\ received < MaxRequests /\ received' = received + 1
    /\ Keep(r, c)
    /\ UNCHANGED <<rowVars, airweaveVars, answerVars, faults, events>>

BeginCreate(r, o) ==
    Begin(r, [NoCall EXCEPT !.at = "findOrg", !.org = o])

\* Nobody asks for an id before it was drawn.  deleteCollection refuses a
\* superadmin without an active organization.
BeginOnCollection(r, op, super, o, c) ==
    LET new == [NoCall EXCEPT !.op = op, !.super = super, !.org = o, !.col = c]
    IN /\ upstream[c] # "absent"
       /\ super /\ op = "delete" => o # None
       /\ Begin(r, [new EXCEPT !.at = IF super THEN AfterOwnership(new)
                                               ELSE "guard"])

BeginOnConnection(r, op, super, o, k) ==
    Begin(r, [NoCall EXCEPT !.at = "lookup", !.op = op, !.super = super,
                            !.org = o, !.con = k])

\* addSource, for a project of one's active organization
BeginAttach(r, super, o, p, c) ==
    /\ super \/ o = ProjectOrg[p]
    /\ Begin(r, [NoCall EXCEPT !.at = "project", !.op = "attach",
                               !.super = super, !.org = ProjectOrg[p],
                               !.col = c, !.project = p])

Receive(r) ==
    \E op \in Operations, super \in BOOLEAN, o \in Orgs \cup {None} :
        \/ op = "create" /\ o # None /\ BeginCreate(r, o)
        \/ /\ op \in OnCollection
           /\ \E c \in Collections : BeginOnCollection(r, op, super, o, c)
        \/ /\ op \in OnConnection
           /\ \E k \in Connections : BeginOnConnection(r, op, super, o, k)
        \/ /\ op = "attach"
           /\ \E p \in Projects, c \in Collections :
                 BeginAttach(r, super, o, p, c)

-----------------------------------------------------------------------------
\* createCollection: the organization, the collection upstream, the list.
FindOrg(r) ==
    /\ call[r].at = "findOrg"
    /\ IF call[r].org \in orgs THEN Goto(r, "createUpstream") ELSE End(r)
    /\ UNCHANGED <<rowVars, airweaveVars, answerVars, countVars>>

\* Mutant: an id that is taken is adopted.
AdoptOnConflict(r, c) ==
    /\ call[r].at = "createUpstream"
    /\ upstream[c] # "deleted"
    /\ upstream' = [upstream EXCEPT ![c] = "present"]
    /\ Answered(r, [call[r] EXCEPT !.at = "record", !.col = c])
    /\ UNCHANGED <<rowVars, parent, sessions, answerVars, received, events>>

\* The id is drawn at random; one that is taken ends the request (409).
CreateUpstream(r, c) ==
    /\ call[r].at = "createUpstream"
    /\ upstream[c] # "deleted"
    /\ IF upstream[c] = "present" THEN End(r) /\ UNCHANGED <<upstream, faults>>
       ELSE /\ upstream' = [upstream EXCEPT ![c] = "present"]
            /\ Answered(r, [call[r] EXCEPT !.at = "record", !.col = c])
    /\ UNCHANGED <<rowVars, parent, sessions, answerVars, received, events>>

Record(r) ==
    LET o == call[r].org
        c == call[r].col
    IN /\ call[r].at = "record"
       /\ AddToAllowlist(o, c)
       /\ \/ reported' = [reported EXCEPT ![c] = o] /\ UNCHANGED faults
          \/ /\ faults < MaxFaults /\ faults' = faults + 1
             /\ UNCHANGED reported
       /\ End(r)
       /\ UNCHANGED <<orgs, form, projects, project, collection, airweaveVars,
                      removed, overwritten, received, events>>

-----------------------------------------------------------------------------
\* Mutant: the guard has no list to ask.
GuardLogsOnly(r) ==
    /\ call[r].at = "guard"
    /\ Goto(r, AfterOwnership(call[r]))
    /\ UNCHANGED <<rowVars, airweaveVars, answerVars, countVars>>

\* AirweaveOwnershipGuard; without the flag a refusal is only logged.
\* deleteCollection needs an active organization all the same.
Guard(r) ==
    LET c == call[r]
    IN /\ c.at = "guard"
       /\ IF \/ c.col \in Allowed(c.org)
             \/ ~enforce /\ (c.op = "delete" => c.org # None)
          THEN Goto(r, AfterOwnership(c)) ELSE End(r)
       /\ UNCHANGED <<rowVars, airweaveVars, answerVars, countVars>>

\* A call to Airweave: a source connection or a session needs its
\* collection, a source connection to be renamed or deleted has to be there.
CreateConnection(c, k) ==
    /\ upstream[c] = "present" /\ parent[k] = None
    /\ parent' = [parent EXCEPT ![k] = c]
    /\ UNCHANGED <<upstream, sessions>>

Connect(c) ==
    /\ upstream[c] = "present"
    /\ sessions' = sessions \cup {c}
    /\ UNCHANGED <<upstream, parent>>

DeleteConnection(k) ==
    /\ parent[k] \in Collections
    /\ parent' = [parent EXCEPT ![k] = Gone]
    /\ UNCHANGED <<upstream, sessions>>

Act(r) ==
    LET c == call[r]
    IN /\ c.at = "act"
       /\ \/ /\ c.op = "createSource"
             /\ \E k \in Connections \ Browser : CreateConnection(c.col, k)
          \/ c.op = "connect" /\ Connect(c.col)
          \/ c.op = "reauth" /\ c.con \in Browser /\ Connect(c.col)
          \/ c.op = "deleteSource" /\ DeleteConnection(c.con)
          \/ UNCHANGED airweaveVars  \* a name, or the call fails
       /\ End(r)
       /\ UNCHANGED <<rowVars, answerVars, countVars>>

-----------------------------------------------------------------------------
\* deleteCollection: refused while a project of the organization uses the
\* collection.
References(r) ==
    LET c == call[r]
        uses == {s \in Sources : /\ project[s] # None /\ collection[s] = c.col
                                 /\ ProjectOrg[project[s]] = c.org}
    IN /\ c.at = "references"
       /\ IF uses = {} THEN Goto(r, "deleteUpstream") ELSE End(r)
       /\ UNCHANGED <<rowVars, airweaveVars, answerVars, countVars>>

\* A collection that is gone already (404) is as good as deleted.
DeleteUpstream(r) ==
    /\ call[r].at = "deleteUpstream"
    /\ IF upstream[call[r].col] = "present" THEN Delete(call[r].col)
                                            ELSE UNCHANGED airweaveVars
    /\ Answered(r, [call[r] EXCEPT !.at = "forget"])
    /\ UNCHANGED <<rowVars, answerVars, received, events>>

\* Mutant: the entry stays.
ForgetNothing(r) ==
    LET o == call[r].org
        c == call[r].col
    IN /\ call[r].at = "forget"
       /\ UNCHANGED faults
       /\ removed' = IF c \in seen[r] THEN removed \cup {<<o, c>>} ELSE removed
       /\ End(r)
       /\ UNCHANGED <<rowVars, airweaveVars, reported, overwritten, received,
                      events>>

Forget(r) ==
    LET o == call[r].org
        c == call[r].col
    IN /\ call[r].at = "forget"
       /\ RemoveFromAllowlist(o, c)
       /\ removed' = IF c \in seen[r] THEN removed \cup {<<o, c>>} ELSE removed
       /\ End(r)
       /\ UNCHANGED <<orgs, form, projects, project, collection, airweaveVars,
                      reported, overwritten, countVars>>

-----------------------------------------------------------------------------
\* fetchAndAssertOwnership: the connection tells its collection, and no flag
\* applies.  Only a connection of the browser is authenticated again.
Lookup(r) ==
    LET c == call[r]
    IN /\ c.at = "lookup"
       /\ IF parent[c.con] \notin Collections THEN End(r)
          ELSE Keep(r, [c EXCEPT !.col = parent[c.con],
                                 !.at = IF c.super THEN "act" ELSE "own"])
       /\ UNCHANGED <<rowVars, airweaveVars, answerVars, countVars>>

Own(r) ==
    LET c == call[r]
    IN /\ c.at = "own"
       /\ IF c.col \in Allowed(c.org) THEN Goto(r, "act") ELSE End(r)
       /\ UNCHANGED <<rowVars, airweaveVars, answerVars, countVars>>

-----------------------------------------------------------------------------
\* attachSource: the project, the list of its organization, the collection,
\* the row.
FindProject(r) ==
    /\ call[r].at = "project"
    /\ IF call[r].project \notin projects THEN End(r)
       ELSE Goto(r, IF call[r].super THEN "exists" ELSE "access")
    /\ UNCHANGED <<rowVars, airweaveVars, answerVars, countVars>>

ValidateAccess(r) ==
    /\ call[r].at = "access"
    /\ IF call[r].col \in Allowed(call[r].org) THEN Goto(r, "exists") ELSE End(r)
    /\ UNCHANGED <<rowVars, airweaveVars, answerVars, countVars>>

GetCollection(r) ==
    /\ call[r].at = "exists"
    /\ IF upstream[call[r].col] = "present" THEN Goto(r, "insert") ELSE End(r)
    /\ UNCHANGED <<rowVars, airweaveVars, answerVars, countVars>>

\* The foreign key makes the INSERT fail once the project is gone.
CreateSource(r, s) ==
    /\ call[r].at = "insert" /\ project[s] = None
    /\ IF call[r].project \notin projects THEN UNCHANGED <<project, collection>>
       ELSE /\ project' = [project EXCEPT ![s] = call[r].project]
            /\ collection' = [collection EXCEPT ![s] = call[r].col]
    /\ End(r)
    /\ UNCHANGED <<orgs, allow, form, projects, airweaveVars, answerVars,
                   countVars>>

\* A query or a call fails before it has an effect.
Fail(r) ==
    /\ call[r].at # "idle"
    /\ faults < MaxFaults /\ faults' = faults + 1
    /\ End(r)
    /\ UNCHANGED <<rowVars, airweaveVars, answerVars, received, events>>

Serve(r) ==
    \/ Receive(r)
    \/ FindOrg(r) \/ Record(r)
    \/ \E c \in Collections : CreateUpstream(r, c)
    \/ Guard(r) \/ Act(r)
    \/ References(r) \/ DeleteUpstream(r) \/ Forget(r)
    \/ Lookup(r) \/ Own(r)
    \/ FindProject(r) \/ ValidateAccess(r) \/ GetCollection(r)
    \/ \E s \in Sources : CreateSource(r, s)
    \/ Fail(r)

-----------------------------------------------------------------------------
\* What else happens.  removeSource and the deletion of a project: one
\* DELETE; the rows that refer to a project or an organization go with it.
DeleteSources(ss) ==
    /\ project' = [s \in Sources |-> IF s \in ss THEN None ELSE project[s]]
    /\ collection' = [s \in Sources |-> IF s \in ss THEN None
                                                    ELSE collection[s]]

RemoveSource(s) ==
    /\ project[s] # None /\ DeleteSources({s})
    /\ UNCHANGED <<orgs, allow, form, projects, airweaveVars, answerVars>>

DeleteProjects(ps) ==
    /\ projects' = projects \ ps
    /\ DeleteSources({s \in Sources : project[s] \in ps})

DeleteProject(p) ==
    /\ p \in projects /\ DeleteProjects({p})
    /\ UNCHANGED <<orgs, allow, form, airweaveVars, answerVars>>

DeleteOrg(o) ==
    /\ o \in orgs
    /\ orgs' = orgs \ {o}
    /\ allow' = [allow EXCEPT ![o] = {}]
    /\ DeleteProjects({p \in Projects : ProjectOrg[p] = o})
    /\ UNCHANGED <<form, airweaveVars, answerVars>>

\* A client of the update of an organization: it reads the metadata, and
\* later sends back what it read, or metadata without the list.
OpenForm(o) ==
    /\ o \in orgs
    /\ \E cs \in {allow[o], {}} : form' = [form EXCEPT ![o] = cs]
    /\ UNCHANGED <<orgs, allow, projects, project, collection, airweaveVars,
                   answerVars>>

UpdateOrg(o) ==
    /\ form[o] # None
    /\ form' = [form EXCEPT ![o] = None]
    /\ allow' = IF o \in orgs THEN [allow EXCEPT ![o] = form[o]] ELSE allow
    /\ overwritten' = IF o \in orgs /\ form[o] # allow[o]
                      THEN overwritten \cup {o} ELSE overwritten
    /\ UNCHANGED <<orgs, projects, project, collection, airweaveVars, reported,
                   removed>>

\* Airweave: the widget makes a source connection, a session ends, and a
\* collection is deleted in Airweave's own portal.
Widget(c, k) ==
    /\ c \in sessions /\ CreateConnection(c, k)
    /\ UNCHANGED <<rowVars, answerVars>>

EndSession(c) ==
    /\ c \in sessions /\ sessions' = sessions \ {c}
    /\ UNCHANGED <<rowVars, upstream, parent, answerVars>>

DeleteInPortal(c) ==
    /\ upstream[c] = "present" /\ Delete(c)
    /\ UNCHANGED <<rowVars, answerVars>>

Others ==
    /\ events < MaxEvents /\ events' = events + 1
    /\ \/ \E s \in Sources : RemoveSource(s)
       \/ \E p \in Projects : DeleteProject(p)
       \/ \E o \in Orgs : DeleteOrg(o) \/ OpenForm(o) \/ UpdateOrg(o)
       \/ \E c \in Collections : \/ EndSession(c) \/ DeleteInPortal(c)
                                  \/ \E k \in Connections : Widget(c, k)
    /\ UNCHANGED <<call, received, faults>>

\* The process ends, and with it every request; the lists and Airweave stay.
Restart ==
    /\ faults < MaxFaults /\ faults' = faults + 1
    /\ call' = [r \in Requests |-> NoCall]
    /\ UNCHANGED <<rowVars, airweaveVars, answerVars, received, events>>

\* What a request sees, or could have seen, of its organization's list.
Observe ==
    LET now(o) == IF o \in orgs' THEN allow'[o] ELSE {}
    IN seen' = [r \in Requests |-> IF call'[r].at = "idle" THEN {}
                                   ELSE seen[r] \cup now(call'[r].org)]

Next ==
    /\ \/ \E r \in Requests : Serve(r)
       \/ Others
       \/ Restart
    /\ Observe
    /\ UNCHANGED enforce

Spec == Init /\ [][Next]_vars

-----------------------------------------------------------------------------
\* Every variable has its type: an organization that is gone has no list, and
\* a data source has a collection and a project that is there.
TypeOK ==
    /\ orgs \subseteq Orgs /\ projects \subseteq Projects
    /\ allow \in [Orgs -> SUBSET Collections]
    /\ \A o \in Orgs \ orgs : allow[o] = {}
    /\ form \in [Orgs -> (SUBSET Collections) \cup {None}]
    /\ project \in [Sources -> projects \cup {None}]
    /\ collection \in [Sources -> Collections \cup {None}]
    /\ \A s \in Sources : project[s] = None <=> collection[s] = None
    /\ upstream \in [Collections -> {"absent", "present", "deleted"}]
    /\ parent \in [Connections -> Collections \cup {None, Gone}]
    /\ sessions \subseteq Collections
    /\ enforce \in BOOLEAN
    /\ call \in [Requests -> Calls]
    /\ seen \in [Requests -> SUBSET Collections]
    /\ reported \in [Collections -> Orgs \cup {None}]
    /\ removed \subseteq Orgs \X Collections
    /\ overwritten \subseteq Orgs
    /\ received \in Nat /\ faults \in Nat /\ events \in Nat

\* What is at Airweave of a collection goes with it: a source connection and a
\* session that are there belong to a collection that is there.
PartsAreOfCollections ==
    /\ \A k \in Connections : parent[k] \in Collections =>
                                 upstream[parent[k]] = "present"
    /\ \A c \in sessions : upstream[c] = "present"

\* A creation that was answered with success gives the organization the
\* collection for as long as it is there, whatever requests overlap or fail:
\* only a copy of the metadata written over the column can take it away.
OwnersKeepTheirCollections ==
    \A c \in Collections :
        /\ reported[c] \in orgs \ overwritten
        /\ upstream[c] = "present"
        => c \in allow[reported[c]]

\* A collection created here is in the list of one organization, also when
\* its id is drawn by two requests at the same time.
OneOwner ==
    \A o1, o2 \in Orgs : \A c \in allow[o1] \cap allow[o2] :
        o1 = o2 \/ c \in Legacy

\* With the flag on, and without it for a source connection and for a project,
\* a request of no superadmin is about to change or to use a collection only
\* if it was in its organization's list while the request ran.
ActsAreOwned ==
    \A r \in Requests :
        LET c == call[r]
        IN /\ c.at \in {"act", "references", "deleteUpstream", "forget",
                       "exists", "insert"}
           /\ ~c.super
           /\ enforce \/ c.op \in OnConnection \cup {"attach"}
           => c.col \in seen[r]

\* A deletion that was answered with success leaves neither the collection nor
\* its entry, and no step of another request brings them back.
DeletedStaysDeleted ==
    \A x \in removed : /\ upstream[x[2]] = "deleted"
                       /\ x[1] \in overwritten \/ x[2] \notin allow[x[1]]
=============================================================================
