----------------------------- MODULE PublicChat -----------------------------
(***************************************************************************)
(* The server of the anonymous channel: PublicRateLimitGuard, whose        *)
(* buckets live in the memory of a node, PublicEmbedGuard,                 *)
(* PublicChatService.prepareStream with its durable monthly counter, and   *)
(* the stream the controller writes.  An ask is one POST of a page; each   *)
(* await of its handler is a step.                                         *)
(***************************************************************************)
EXTENDS EmbedSites

CONSTANTS
    Nodes, Asks,
    Addresses,        \* of clients
    Cap,              \* EMBED_PUBLIC_MONTHLY_CAP
    PerIp, PerKey,    \* limits of the buckets in one window
    MaxBuckets,       \* size of the map that starts a sweep
    LastMonth,        \* bound: months that pass
    MaxChunks,        \* bound: chunks in an answer
    None

Months == 1 .. LastMonth
Buckets == (({"ip"} \X Addresses) \cup ({"key"} \X Keys))
Limit(b) == IF b[1] = "ip" THEN PerIp ELSE PerKey

ASSUME PublicAssumption ==
    /\ Cap \in Nat \ {0} /\ PerIp \in Nat \ {0} /\ PerKey \in Nat \ {0}
    /\ MaxBuckets \in Nat \ {0} /\ LastMonth \in Nat \ {0} /\ MaxChunks \in Nat
    /\ None \notin Nodes \cup Keys \cup Organizations \cup Asks

VARIABLES
    month, usage,          \* embed_usage_counter, per organization and month
    buckets, passed,       \* per node; passed is history: let through in this window
    stage, home, key, scope,  \* of an ask: its handler, node, key and embedScope
    ticket,                \* history: what incrementMonthlyUsage returned, and when
    sentRetired,           \* history: was the key a key of the past when it was sent?
    wire, chunks           \* what the response holds for the client; chunks in it

counterVars == <<month, usage>>
burstVars == <<buckets, passed>>
askVars == <<stage, home, key, scope, ticket, sentRetired, wire, chunks>>

Stages == {"unsent", "lookup", "project", "count", "stream", "closed"}
NoTicket == [number |-> 0, organization |-> None, month |-> 0, served |-> FALSE]

PublicInit ==
    /\ month = 1
    /\ usage = [o \in Organizations |-> [m \in Months |-> 0]]
    /\ buckets = [n \in Nodes |-> [b \in {} |-> [count |-> 0, expired |-> TRUE]]]
    /\ passed = [n \in Nodes |-> [b \in Buckets |-> 0]]
    /\ stage = [a \in Asks |-> "unsent"]
    /\ home = [a \in Asks |-> None]
    /\ key = [a \in Asks |-> None]
    /\ scope = [a \in Asks |-> NoProject]
    /\ ticket = [a \in Asks |-> NoTicket]
    /\ sentRetired = [a \in Asks |-> FALSE]
    /\ wire = [a \in Asks |-> <<>>]
    /\ chunks = [a \in Asks |-> 0]

(***************************************************************************)
(* The response.  A server-sent event is its text and two line breaks;     *)
(* events that only set the status line are left out.  A response is over  *)
(* with an HTTP status and a JSON body, at the end of its stream, or where *)
(* the connection was cut.                                                 *)
(***************************************************************************)
Mark(line) == [line |-> line, type |-> "", text |-> 0]
Frame(type, text) == <<[line |-> "event", type |-> type, text |-> text], Mark("break"), Mark("break")>>
Symbols ==
    [line : {"event", "break", "status", "end", "cut"},
     type : {"", "chunk", "done", "error"}, text : 0 .. MaxChunks]

Goto(a, s) == stage' = [stage EXCEPT ![a] = s]
Write(a, symbols) == wire' = [wire EXCEPT ![a] = @ \o symbols]
Refuse(a) == Goto(a, "closed") /\ Write(a, <<Mark("status")>>)

(***************************************************************************)
(* The buckets.  A window is counted from its first request; counting      *)
(* stops at one past the limit, which is all that consume() compares.      *)
(***************************************************************************)
Begins(bs, b) == b \notin DOMAIN bs \/ bs[b].expired
\* Mutant: the sweep empties the map.
SweptAll(bs) == {}
\* the buckets that sweepExpired leaves, when the map is full
Swept(bs) == {b \in DOMAIN bs : ~bs[b].expired}
Kept(bs, b) ==
    IF b \notin DOMAIN bs /\ Cardinality(DOMAIN bs) >= MaxBuckets THEN Swept(bs) ELSE DOMAIN bs
Consumed(bs, b) ==
    IF Begins(bs, b)
      THEN [c \in Kept(bs, b) \cup {b} |-> IF c = b THEN [count |-> 1, expired |-> FALSE] ELSE bs[c]]
      ELSE [bs EXCEPT ![b].count = IF @ > Limit(b) THEN @ ELSE @ + 1]
Allowed(bs, b) == bs[b].count <= Limit(b)

\* canActivate, for a request of address i with key k at node n
Consume(n, i, k, ok) ==
    LET ip == <<"ip", i>>
        byKey == <<"key", k>>
        afterIp == Consumed(buckets[n], ip)
        after == IF Allowed(afterIp, ip) THEN Consumed(afterIp, byKey) ELSE afterIp
    IN /\ ok = (Allowed(afterIp, ip) /\ Allowed(after, byKey))
       /\ buckets' = [buckets EXCEPT ![n] = after]
       /\ passed' = [passed EXCEPT ![n] =
            [b \in Buckets |-> IF b \in {ip, byKey} /\ ok THEN @[b] + 1 ELSE @[b]]]

\* resetAt of a bucket has come; nobody reads the count any more
WindowEnds(n, b) ==
    /\ b \in DOMAIN buckets[n] /\ ~buckets[n][b].expired
    /\ buckets' = [buckets EXCEPT ![n][b] = [count |-> 0, expired |-> TRUE]]
    /\ passed' = [passed EXCEPT ![n][b] = 0]
    /\ UNCHANGED <<siteVars, counterVars, askVars>>

\* GET /config passes the same guards and reads the theme.
FetchConfig(n, i, k) ==
    /\ \E ok \in BOOLEAN : Consume(n, i, k, ok)
    /\ UNCHANGED <<siteVars, counterVars, askVars>>

(***************************************************************************)
(* The handler of an ask.                                                  *)
(***************************************************************************)
\* The request of address i; its rate limit is the first thing it meets, and
\* reads nothing but the memory of its node.
Arrive(a, n, k, i) ==
    /\ stage[a] = "unsent"
    /\ \E ok \in BOOLEAN :
          /\ Consume(n, i, k, ok)
          /\ IF ok THEN Goto(a, "lookup") /\ UNCHANGED wire ELSE Refuse(a)
    /\ home' = [home EXCEPT ![a] = n]
    /\ key' = [key EXCEPT ![a] = k]
    /\ sentRetired' = [sentRetired EXCEPT ![a] = k \in issued \ KeysInUse]
    /\ UNCHANGED <<siteVars, counterVars, scope, ticket, chunks>>

\* PublicEmbedGuard, and the checks of the question, which follow it at once
Admits(p, a) == sites[p] # NoSite /\ sites[p].key = key[a] /\ sites[p].admits
LookUpSite(a) ==
    /\ stage[a] = "lookup"
    /\ \/ /\ \E p \in Projects : Admits(p, a) /\ scope' = [scope EXCEPT ![a] = p]
          /\ Goto(a, "project") /\ UNCHANGED wire
       \/ /\ \A p \in Projects : ~Admits(p, a)
          /\ Refuse(a) /\ UNCHANGED scope
    /\ UNCHANGED <<siteVars, counterVars, burstVars, home, key, ticket, sentRetired, chunks>>

\* 400: no question, or one that is too long
RejectQuestion(a) ==
    /\ stage[a] = "lookup"
    /\ Refuse(a)
    /\ UNCHANGED <<siteVars, counterVars, burstVars, home, key, scope, ticket, sentRetired, chunks>>

\* resolveProjectSources and the organization's record.  Both are refused with
\* a status, and what is deleted between the two fails the count below.
ResolveProject(a) ==
    /\ stage[a] = "project"
    /\ IF scope[a] \in projects THEN Goto(a, "count") /\ UNCHANGED wire ELSE Refuse(a)
    /\ UNCHANGED <<siteVars, counterVars, burstVars, home, key, scope, ticket, sentRetired, chunks>>

\* Mutant: the request that reaches the cap is let through as well.
BelowCap(used) == used <= Cap + 1
WithinCap(used) == used <= Cap

\* incrementMonthlyUsage and the comparison; refused asks are counted too, and
\* the insert fails on its foreign key once the organization is gone.
CountAsk(a) ==
    LET o == OrgOf[scope[a]]
        used == usage[o][month] + 1
    IN /\ stage[a] = "count"
       /\ IF o \in organizations
            THEN /\ usage' = [usage EXCEPT ![o][month] = used]
                 /\ ticket' = [ticket EXCEPT ![a] =
                     [number |-> used, organization |-> o, month |-> month, served |-> WithinCap(used)]]
                 /\ IF WithinCap(used) THEN Goto(a, "stream") /\ UNCHANGED wire ELSE Refuse(a)
            ELSE Refuse(a) /\ UNCHANGED <<usage, ticket>>
       /\ UNCHANGED <<siteVars, month, burstVars, home, key, scope, sentRetired, chunks>>

\* any query of prepareStream fails: 500
QueryFails(a) ==
    /\ stage[a] \in {"lookup", "project", "count"}
    /\ Refuse(a)
    /\ UNCHANGED <<siteVars, counterVars, burstVars, home, key, scope, ticket, sentRetired, chunks>>

StreamChunk(a) ==
    /\ stage[a] = "stream" /\ chunks[a] < MaxChunks
    /\ Write(a, Frame("chunk", chunks[a] + 1))
    /\ chunks' = [chunks EXCEPT ![a] = @ + 1]
    /\ UNCHANGED <<siteVars, counterVars, burstVars, stage, home, key, scope, ticket, sentRetired>>

\* the agent's last event, or the controller's after an exception
StreamEnds(a) ==
    /\ stage[a] = "stream"
    /\ \E type \in {"done", "error"} : Write(a, Frame(type, 0) \o <<Mark("end")>>)
    /\ Goto(a, "closed")
    /\ UNCHANGED <<siteVars, counterVars, burstVars, home, key, scope, ticket, sentRetired, chunks>>

\* The connection is lost or its node stops: response 'close' aborts the agent.
Cut(asks) ==
    /\ stage' = [a \in Asks |-> IF a \in asks THEN "closed" ELSE stage[a]]
    /\ wire' = [a \in Asks |-> IF a \in asks THEN Append(wire[a], Mark("cut")) ELSE wire[a]]
    /\ UNCHANGED <<home, key, scope, ticket, sentRetired, chunks>>
Open(a) == stage[a] \notin {"unsent", "closed"}

ConnectionLost(a) ==
    /\ stage[a] = "stream"
    /\ Cut({a})
    /\ UNCHANGED <<siteVars, counterVars, burstVars>>

NodeRestarts(n) ==
    /\ Cut({a \in Asks : Open(a) /\ home[a] = n})
    /\ buckets' = [buckets EXCEPT ![n] = [b \in {} |-> [count |-> 0, expired |-> TRUE]]]
    /\ passed' = [passed EXCEPT ![n] = [b \in Buckets |-> 0]]
    /\ UNCHANGED <<siteVars, counterVars>>

MonthTurns ==
    /\ month < LastMonth
    /\ month' = month + 1
    /\ UNCHANGED <<siteVars, usage, burstVars, askVars>>

\* the counters go with the organization
DeleteOrganization(o) ==
    /\ DeleteOrganizationRows(o)
    /\ usage' = [usage EXCEPT ![o] = [m \in Months |-> 0]]
    /\ UNCHANGED <<month, burstVars, askVars>>

AdminStep == SiteStep /\ UNCHANGED <<counterVars, burstVars, askVars>>

HandlerStep(a) ==
    \/ LookUpSite(a) \/ RejectQuestion(a) \/ ResolveProject(a) \/ CountAsk(a)
    \/ QueryFails(a) \/ StreamChunk(a) \/ StreamEnds(a)

ServerStep ==
    \/ AdminStep
    \/ \E a \in Asks : HandlerStep(a) \/ ConnectionLost(a)
    \/ \E n \in Nodes, b \in Buckets : WindowEnds(n, b)
    \/ \E n \in Nodes, i \in Addresses, k \in Keys : FetchConfig(n, i, k)
    \/ \E n \in Nodes : NodeRestarts(n)
    \/ \E o \in Organizations : DeleteOrganization(o)
    \/ MonthTurns

PublicTypeOK ==
    /\ SitesTypeOK
    /\ month \in Months /\ usage \in [Organizations -> [Months -> Nat]]
    /\ DOMAIN buckets = Nodes
    /\ \A n \in Nodes :
          /\ DOMAIN buckets[n] \subseteq Buckets
          /\ \A b \in DOMAIN buckets[n] :
                buckets[n][b] \in [count : Nat, expired : BOOLEAN] /\ buckets[n][b].count <= Limit(b) + 1
    /\ passed \in [Nodes -> [Buckets -> Nat]]
    /\ stage \in [Asks -> Stages]
    /\ home \in [Asks -> Nodes \cup {None}] /\ key \in [Asks -> Keys \cup {None}]
    /\ scope \in [Asks -> Projects \cup {NoProject}]
    /\ ticket \in [Asks -> [number : Nat, organization : Organizations \cup {None}, month : Months \cup {0},
                          served : BOOLEAN]]
    /\ sentRetired \in [Asks -> BOOLEAN]
    /\ chunks \in [Asks -> 0 .. MaxChunks]
    /\ wire \in [Asks -> Seq(Symbols)]

(***************************************************************************)
(* What the channel promises.                                              *)
(***************************************************************************)
\* SPEC-003, "the hard backstop on spend": however many asks, nodes, restarts
\* and sites share an organization, no more than Cap of them reach the agent
\* in a calendar month.
Served(o, m) ==
    {a \in Asks : ticket[a].served /\ ticket[a].organization = o /\ ticket[a].month = m}
CapHolds == \A o \in Organizations, m \in Months : Cardinality(Served(o, m)) <= Cap

\* PublicRateLimitGuard: a node lets no more requests of an address or a key
\* through in a window than its limit, also when the map was swept meanwhile.
BurstsAreShaped == \A n \in Nodes, b \in Buckets : passed[n][b] <= Limit(b)

\* "It invalidates the old key on the public channel from the next request":
\* an ask sent with a key that was rotated away or whose site is gone stays
\* refused, whatever sites are created and keys drawn while it is handled.
RetiredKeysStayDead == \A a \in Asks : sentRetired[a] => scope[a] = NoProject
=============================================================================
