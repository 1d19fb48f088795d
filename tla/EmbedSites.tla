----------------------------- MODULE EmbedSites -----------------------------
(***************************************************************************)
(* The tables an embed site lives in and the operations on them: the       *)
(* EmbedSitesService over its repository, and the deletions of a project   *)
(* or an organization, whose foreign keys cascade to the site.  A project  *)
(* has at most one site (a unique index), so a site is known by its        *)
(* project.  Whoever calls has passed the permission guard, and the scope  *)
(* of the caller is the organization the project belongs to: every         *)
(* statement names it, and a project never changes its organization.       *)
(***************************************************************************)
EXTENDS Integers, FiniteSets, Sequences

CONSTANTS
    Organizations,
    Projects,
    OrgOf,       \* the organization of a project
    Keys,        \* what generateEmbedSiteKey may draw
    NoSite, NoProject

ASSUME SitesAssumption ==
    /\ OrgOf \in [Projects -> Organizations]
    /\ NoProject \notin Projects
    /\ NoSite \notin [key : Keys, admits : BOOLEAN]

VARIABLES
    organizations, projects,   \* the rows there are
    sites,     \* the site of a project; admits: it is enabled and lists the page's origin
    issued,    \* keys some site has or had
    creating   \* the project a create() in progress has looked up

siteVars == <<organizations, projects, sites, issued, creating>>

Sites == [key : Keys, admits : BOOLEAN]
KeysInUse == {sites[p].key : p \in {q \in Projects : sites[q] # NoSite}}

SitesInit ==
    /\ organizations = Organizations
    /\ projects = Projects
    /\ sites = [p \in Projects |-> NoSite]
    /\ issued = {}
    /\ creating = NoProject

\* create: the project has to be one of the caller's organization.
CheckProject(p) ==
    /\ creating = NoProject
    /\ p \in projects
    /\ creating' = p
    /\ UNCHANGED <<organizations, projects, sites, issued>>

\* The INSERT.  A drawn key has 128 random bits and is not drawn twice, but a
\* collision with a key in use is handled: the statement changes nothing, and
\* withKeyRetry draws again.
InsertSite(k, admits) ==
    /\ creating \in projects
    /\ sites[creating] = NoSite
    /\ k \notin issued
    /\ sites' = [sites EXCEPT ![creating] = [key |-> k, admits |-> admits]]
    /\ issued' = issued \cup {k}
    /\ creating' = NoProject
    /\ UNCHANGED <<organizations, projects>>

\* 409 of the unique index, a foreign key that is gone, or three collisions
InsertFails ==
    /\ creating # NoProject
    /\ creating \notin projects \/ sites[creating] # NoSite \/ KeysInUse # {}
    /\ creating' = NoProject
    /\ UNCHANGED <<organizations, projects, sites, issued>>

UpdateSite(p, admits) ==
    /\ sites[p] # NoSite
    /\ sites' = [sites EXCEPT ![p].admits = admits]
    /\ UNCHANGED <<organizations, projects, issued, creating>>

\* Mutant: keys are recycled.
RotateToFreeKey(p, k) ==
    /\ sites[p] # NoSite
    /\ k \notin KeysInUse
    /\ sites' = [sites EXCEPT ![p].key = k]
    /\ issued' = issued \cup {k}
    /\ UNCHANGED <<organizations, projects, creating>>

RotateKey(p, k) ==
    /\ sites[p] # NoSite
    /\ k \notin issued
    /\ sites' = [sites EXCEPT ![p].key = k]
    /\ issued' = issued \cup {k}
    /\ UNCHANGED <<organizations, projects, creating>>

DeleteSite(p) ==
    /\ sites[p] # NoSite
    /\ sites' = [sites EXCEPT ![p] = NoSite]
    /\ UNCHANGED <<organizations, projects, issued, creating>>

\* Mutant: the foreign key does not cascade.
DeleteProjectRow(p) ==
    /\ p \in projects
    /\ projects' = projects \ {p}
    /\ UNCHANGED <<organizations, sites, issued, creating>>

DeleteProject(p) ==
    /\ p \in projects
    /\ projects' = projects \ {p}
    /\ sites' = [sites EXCEPT ![p] = NoSite]
    /\ UNCHANGED <<organizations, issued, creating>>

DeleteOrganizationRows(o) ==
    /\ o \in organizations
    /\ organizations' = organizations \ {o}
    /\ projects' = {p \in projects : OrgOf[p] # o}
    /\ sites' = [p \in Projects |-> IF OrgOf[p] = o THEN NoSite ELSE sites[p]]
    /\ UNCHANGED <<issued, creating>>

SiteStep ==
    \/ \E p \in Projects : CheckProject(p) \/ DeleteSite(p) \/ DeleteProject(p)
    \/ \E k \in Keys, admits \in BOOLEAN : InsertSite(k, admits)
    \/ InsertFails
    \/ \E p \in Projects, admits \in BOOLEAN : UpdateSite(p, admits)
    \/ \E p \in Projects, k \in Keys : RotateKey(p, k)

SitesTypeOK ==
    /\ organizations \subseteq Organizations
    /\ projects \subseteq {p \in Projects : OrgOf[p] \in organizations}
    /\ sites \in [Projects -> Sites \cup {NoSite}]
    /\ \A p \in Projects : sites[p] # NoSite => p \in projects
    /\ issued \subseteq Keys /\ KeysInUse \subseteq issued
    /\ \A p, q \in Projects :
          p # q /\ sites[p] # NoSite /\ sites[q] # NoSite => sites[p].key # sites[q].key
    /\ creating \in Projects \cup {NoProject}
=============================================================================
