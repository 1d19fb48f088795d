--------------------------- MODULE PublicChatProofs ---------------------------
(***************************************************************************)
(* Proofs about EmbedWidget and the PublicChat it rests on, for any number *)
(* of organizations, projects, keys, nodes, addresses, months, asks and    *)
(* chunks, and any limits.                                                 *)
(***************************************************************************)
EXTENDS EmbedWidget, FiniteSetTheorems, SequenceTheorems, TLAPS

-----------------------------------------------------------------------------
(* The sites.  A key that left a site never comes back to one.             *)

SitesAction == SiteStep \/ (\E o \in Organizations : DeleteOrganizationRows(o)) \/ UNCHANGED siteVars
Retired == issued \ KeysInUse

\* The same, with the keys in use written out for the provers.
LEMMA KeyOfSiteInUse ==
    ASSUME NEW p \in Projects, sites[p] # NoSite PROVE sites[p].key \in KeysInUse
BY DEF KeysInUse

LEMMA SitesStep ==
    ASSUME SitesTypeOK, SitesAction
    PROVE  SitesTypeOK' /\ Retired \subseteq Retired' /\ organizations' \subseteq organizations
<1> USE SitesAssumption DEF SitesTypeOK, Sites
<1>0. ASSUME NEW p \in Projects, NEW k \in Keys, NEW admits \in BOOLEAN, k \notin issued,
             sites' = [sites EXCEPT ![p] = [key |-> k, admits |-> admits]],
             issued' = issued \cup {k}, p \in projects,
             UNCHANGED <<organizations, projects>>, creating' \in Projects \cup {NoProject}
      PROVE  SitesTypeOK' /\ Retired \subseteq Retired' /\ organizations' \subseteq organizations
  <2>1. [key |-> k, admits |-> admits] # NoSite /\ [key |-> k, admits |-> admits] \in Sites
    OBVIOUS
  <2>2. sites' \in [Projects -> Sites \cup {NoSite}]
    BY <1>0, <2>1
  <2>3. \A q \in Projects : sites[q] # NoSite => sites[q].key \in issued /\ sites[q].key # k
    BY <1>0 DEF KeysInUse
  <2>4. \A q \in Projects : q # p => sites'[q] = sites[q]
    BY <1>0
  <2>5. sites'[p] = [key |-> k, admits |-> admits]
    BY <1>0
  <2>6. KeysInUse' \subseteq issued' /\ \A j \in KeysInUse' : j = k \/ j \in KeysInUse
    BY <1>0, <2>3, <2>4, <2>5 DEF KeysInUse
  <2>7. \A r, q \in Projects :
          r # q /\ sites'[r] # NoSite /\ sites'[q] # NoSite => sites'[r].key # sites'[q].key
    BY <2>3, <2>4, <2>5
  <2>8. Retired \subseteq Retired'
    BY <1>0, <2>6 DEF Retired
  <2> QED
    BY <1>0, <2>2, <2>4, <2>6, <2>7, <2>8
<1>a. ASSUME sites' \in [Projects -> Sites \cup {NoSite}],
             \A q \in Projects : sites'[q] # NoSite =>
                 q \in projects' /\ sites[q] # NoSite /\ sites'[q].key = sites[q].key,
             projects' \subseteq {q \in Projects : OrgOf[q] \in organizations'},
             organizations' \subseteq organizations,
             UNCHANGED issued, creating' \in Projects \cup {NoProject}
      PROVE  SitesTypeOK' /\ Retired \subseteq Retired' /\ organizations' \subseteq organizations
  <2>1. KeysInUse' \subseteq KeysInUse
    BY <1>a DEF KeysInUse
  <2> QED
    BY <1>a, <2>1 DEF Retired
<1>1. ASSUME NEW p \in Projects, CheckProject(p) \/ DeleteSite(p) \/ DeleteProject(p)
      PROVE  SitesTypeOK' /\ Retired \subseteq Retired' /\ organizations' \subseteq organizations
  <2>1. CASE CheckProject(p)
    BY <2>1, <1>a DEF CheckProject
  <2>2. CASE DeleteSite(p)
    BY <2>2, <1>a DEF DeleteSite
  <2>3. CASE DeleteProject(p)
    BY <2>3, <1>a DEF DeleteProject
  <2> QED
    BY <1>1, <2>1, <2>2, <2>3
<1>2. ASSUME NEW k \in Keys, NEW admits \in BOOLEAN, InsertSite(k, admits)
      PROVE  SitesTypeOK' /\ Retired \subseteq Retired' /\ organizations' \subseteq organizations
  BY <1>2, <1>0 DEF InsertSite
<1>3. CASE InsertFails
  BY <1>3, <1>a DEF InsertFails
<1>4. ASSUME NEW p \in Projects, NEW admits \in BOOLEAN, UpdateSite(p, admits)
      PROVE  SitesTypeOK' /\ Retired \subseteq Retired' /\ organizations' \subseteq organizations
  <2>1. sites[p] \in Sites /\ p \in projects
    BY <1>4 DEF UpdateSite
  <2>2. /\ sites' = [sites EXCEPT ![p] = [@ EXCEPT !.admits = admits]]
        /\ [sites[p] EXCEPT !.admits = admits] = [key |-> sites[p].key, admits |-> admits]
    BY <1>4, <2>1 DEF UpdateSite
  <2> QED
    BY <1>4, <1>a, <2>1, <2>2 DEF UpdateSite
<1>5. ASSUME NEW p \in Projects, NEW k \in Keys, RotateKey(p, k)
      PROVE  SitesTypeOK' /\ Retired \subseteq Retired' /\ organizations' \subseteq organizations
  <2>1. sites[p] \in Sites /\ p \in projects
    BY <1>5 DEF RotateKey
  <2>a. [sites[p] EXCEPT !.key = k] = [key |-> k, admits |-> sites[p].admits]
    BY <2>1
  <2>b. sites' = [sites EXCEPT ![p] = [sites[p] EXCEPT !.key = k]]
    BY <1>5 DEF RotateKey
  <2>2. sites' = [sites EXCEPT ![p] = [key |-> k, admits |-> sites[p].admits]]
    BY <2>a, <2>b
  <2>3. sites[p].admits \in BOOLEAN
    BY <2>1
  <2>4. k \notin issued /\ issued' = issued \cup {k}
        /\ UNCHANGED <<organizations, projects>> /\ creating' \in Projects \cup {NoProject}
    BY <1>5 DEF RotateKey
  <2> HIDE DEF SitesTypeOK
  <2> QED
    BY <1>0, <2>1, <2>2, <2>3, <2>4
<1>6. ASSUME NEW o \in Organizations, DeleteOrganizationRows(o)
      PROVE  SitesTypeOK' /\ Retired \subseteq Retired' /\ organizations' \subseteq organizations
  BY <1>6, <1>a DEF DeleteOrganizationRows
<1>7. CASE UNCHANGED siteVars
  BY <1>7, <1>a DEF siteVars
<1> QED
  BY <1>1, <1>2, <1>3, <1>4, <1>5, <1>6, <1>7 DEF SitesAction, SiteStep

-----------------------------------------------------------------------------
(* The buckets.  A bucket of the current window counts at least what       *)
(* passed; what is absent or expired passed nothing.                       *)

Live(n, b) == b \in DOMAIN buckets[n] /\ ~buckets[n][b].expired
BucketMap(bs) ==
    /\ DOMAIN bs \subseteq Buckets /\ bs = [b \in DOMAIN bs |-> bs[b]]
    /\ \A b \in DOMAIN bs : bs[b] \in [count : Nat, expired : BOOLEAN] /\ bs[b].count <= Limit(b) + 1
BucketsTyped ==
    /\ DOMAIN buckets = Nodes /\ buckets = [n \in Nodes |-> buckets[n]]
    /\ \A n \in Nodes : BucketMap(buckets[n])
    /\ passed \in [Nodes -> [Buckets -> Nat]]
Shaped ==
    \A n \in Nodes, b \in Buckets :
        passed[n][b] <= (IF Live(n, b) THEN buckets[n][b].count ELSE 0)

LEMMA LimitIsPositive == \A b \in Buckets : Limit(b) \in Nat /\ Limit(b) > 0
BY PublicAssumption DEF Limit

\* A record with another count.
LEMMA RecountedBucket ==
    ASSUME NEW r \in [count : Nat, expired : BOOLEAN], NEW c
    PROVE  [r EXCEPT !.count = c] = [count |-> c, expired |-> r.expired]
OBVIOUS

\* What consume() leaves: the bucket counts one more, up to one past its limit;
\* of the others, those that have not expired are as they were.
LEMMA ConsumedCounts ==
    ASSUME NEW bs, NEW b \in Buckets, BucketMap(bs)
    PROVE  /\ BucketMap(Consumed(bs, b))
           /\ b \in DOMAIN Consumed(bs, b) /\ ~Consumed(bs, b)[b].expired
           /\ LET was == IF b \in DOMAIN bs /\ ~bs[b].expired THEN bs[b].count ELSE 0
              IN /\ Consumed(bs, b)[b].count >= was
                 /\ Allowed(Consumed(bs, b), b) => Consumed(bs, b)[b].count > was
           /\ \A c \in Buckets : c # b =>
                 /\ c \in DOMAIN Consumed(bs, b) => c \in DOMAIN bs /\ Consumed(bs, b)[c] = bs[c]
                 /\ c \in DOMAIN bs /\ ~bs[c].expired => c \in DOMAIN Consumed(bs, b)
<1> DEFINE new == Consumed(bs, b)
<1>1. Limit(b) \in Nat /\ Limit(b) > 0
  BY LimitIsPositive
<1>2. CASE Begins(bs, b)
  <2> DEFINE fresh == [count |-> 1, expired |-> FALSE]
  <2>1. Kept(bs, b) \subseteq DOMAIN bs
        /\ \A c \in DOMAIN bs : ~bs[c].expired => c \in Kept(bs, b)
    BY DEF Kept, Swept
  <2>2. new = [c \in Kept(bs, b) \cup {b} |-> IF c = b THEN fresh ELSE bs[c]]
    BY <1>2 DEF Consumed
  <2>3. DOMAIN new = Kept(bs, b) \cup {b} /\ new[b] = fresh
        /\ \A c \in Kept(bs, b) : c # b => new[c] = bs[c]
    BY <2>2
  <2>4. fresh \in [count : Nat, expired : BOOLEAN] /\ fresh.count = 1 /\ fresh.expired = FALSE
    OBVIOUS
  <2>5. BucketMap(new)
    BY <1>1, <2>1, <2>2, <2>3, <2>4 DEF BucketMap
  <2>6. (IF b \in DOMAIN bs /\ ~bs[b].expired THEN bs[b].count ELSE 0) = 0
    BY <1>2 DEF Begins
  <2> HIDE DEF new, fresh
  <2> QED
    BY <2>1, <2>3, <2>4, <2>5, <2>6 DEF new
<1>3. CASE ~Begins(bs, b)
  <2>1. b \in DOMAIN bs /\ ~bs[b].expired /\ bs[b] \in [count : Nat, expired : BOOLEAN]
        /\ bs[b].count <= Limit(b) + 1
    BY <1>3 DEF Begins, BucketMap
  <2> DEFINE count == IF bs[b].count > Limit(b) THEN bs[b].count ELSE bs[b].count + 1
  <2>2. new = [bs EXCEPT ![b] = [bs[b] EXCEPT !.count = count]]
    BY <1>3 DEF Consumed
  <2>3. [bs[b] EXCEPT !.count = count] = [count |-> count, expired |-> bs[b].expired]
    BY <2>1, RecountedBucket
  <2>4. DOMAIN new = DOMAIN bs /\ new[b] = [count |-> count, expired |-> bs[b].expired]
        /\ \A c \in DOMAIN bs : c # b => new[c] = bs[c]
    BY <2>1, <2>2, <2>3 DEF BucketMap
  <2>5. count \in Nat /\ count <= Limit(b) + 1 /\ count >= bs[b].count
        /\ (count <= Limit(b) => count > bs[b].count)
    BY <1>1, <2>1
  <2>6. new = [c \in DOMAIN new |-> new[c]]
    BY <2>2
  <2> HIDE DEF count, new
  <2>b. /\ [count |-> count, expired |-> bs[b].expired] \in [count : Nat, expired : BOOLEAN]
        /\ [count |-> count, expired |-> bs[b].expired].count = count
    BY <2>1, <2>5
  <2>7. BucketMap(new)
    BY <2>4, <2>5, <2>6, <2>b DEF BucketMap
  <2>8. new[b].count = count /\ ~new[b].expired
    BY <2>1, <2>4
  <2> QED
    BY <2>1, <2>4, <2>5, <2>7, <2>8 DEF Allowed, new
<1> QED
  BY <1>2, <1>3

\* A request that both of its buckets allow is the next that passes; one that
\* is refused only counts.
LEMMA ConsumeShapes ==
    ASSUME BucketsTyped, Shaped, BurstsAreShaped,
           NEW n \in Nodes, NEW i \in Addresses, NEW k \in Keys, NEW ok \in BOOLEAN,
           Consume(n, i, k, ok)
    PROVE  BucketsTyped' /\ Shaped' /\ BurstsAreShaped'
<1> DEFINE ip == <<"ip", i>>
           byKey == <<"key", k>>
           bs == buckets[n]
           mid == Consumed(bs, ip)
           new == IF Allowed(mid, ip) THEN Consumed(mid, byKey) ELSE mid
<1>1. ip \in Buckets /\ byKey \in Buckets /\ ip # byKey
  BY DEF Buckets
<1>2. BucketMap(bs)
  BY DEF BucketsTyped
<1> HIDE DEF ip, byKey
<1>3. /\ buckets' = [buckets EXCEPT ![n] = new]
      /\ passed' = [passed EXCEPT ![n] =
            [b \in Buckets |-> IF b \in {ip, byKey} /\ ok THEN passed[n][b] + 1 ELSE passed[n][b]]]
      /\ ok = (Allowed(mid, ip) /\ Allowed(new, byKey))
  BY DEF Consume, ip, byKey
<1>4. /\ BucketMap(mid)
      /\ ip \in DOMAIN mid /\ ~mid[ip].expired
      /\ LET was == IF ip \in DOMAIN bs /\ ~bs[ip].expired THEN bs[ip].count ELSE 0
         IN /\ mid[ip].count >= was
            /\ Allowed(mid, ip) => mid[ip].count > was
      /\ \A c \in Buckets : c # ip =>
            /\ c \in DOMAIN mid => c \in DOMAIN bs /\ mid[c] = bs[c]
            /\ c \in DOMAIN bs /\ ~bs[c].expired => c \in DOMAIN mid
  BY <1>1, <1>2, ConsumedCounts
<1>5. CASE Allowed(mid, ip)
  <2>1. new = Consumed(mid, byKey)
    BY <1>5
  <2>2. /\ BucketMap(new)
        /\ byKey \in DOMAIN new /\ ~new[byKey].expired
        /\ LET was == IF byKey \in DOMAIN mid /\ ~mid[byKey].expired THEN mid[byKey].count ELSE 0
           IN /\ new[byKey].count >= was
              /\ Allowed(new, byKey) => new[byKey].count > was
        /\ \A c \in Buckets : c # byKey =>
              /\ c \in DOMAIN new => c \in DOMAIN mid /\ new[c] = mid[c]
              /\ c \in DOMAIN mid /\ ~mid[c].expired => c \in DOMAIN new
    BY <1>1, <1>4, <2>1, ConsumedCounts
  <2> HIDE DEF mid, new, bs
  <2>3. \A b \in Buckets :
          LET before == IF b \in DOMAIN bs /\ ~bs[b].expired THEN bs[b].count ELSE 0
              after == IF b \in DOMAIN new /\ ~new[b].expired THEN new[b].count ELSE 0
          IN /\ before \in Nat /\ after \in Nat /\ before <= after
             /\ ok /\ b \in {ip, byKey} => before < after /\ after <= Limit(b)
    <3> SUFFICES ASSUME NEW b \in Buckets
                 PROVE LET before == IF b \in DOMAIN bs /\ ~bs[b].expired THEN bs[b].count ELSE 0
                           after == IF b \in DOMAIN new /\ ~new[b].expired THEN new[b].count ELSE 0
                       IN /\ before \in Nat /\ after \in Nat /\ before <= after
                          /\ ok /\ b \in {ip, byKey} => before < after /\ after <= Limit(b)
      OBVIOUS
    <3>0. /\ b \in DOMAIN bs => bs[b].count \in Nat
          /\ b \in DOMAIN mid => mid[b].count \in Nat
          /\ b \in DOMAIN new => new[b].count \in Nat
      BY <1>2, <1>4, <2>2 DEF BucketMap
    <3>1. CASE b = ip
      BY <3>0, <3>1, <1>1, <1>3, <1>4, <2>2 DEF Allowed
    <3>2. CASE b = byKey
      BY <3>0, <3>2, <1>1, <1>3, <1>4, <2>2 DEF Allowed
    <3>3. CASE b # ip /\ b # byKey
      BY <3>0, <3>3, <1>4, <2>2
    <3> QED
      BY <3>1, <3>2, <3>3
  <2>4. /\ DOMAIN buckets' = Nodes /\ buckets' = [m \in Nodes |-> buckets'[m]]
        /\ buckets'[n] = new /\ \A m \in Nodes : m # n => buckets'[m] = buckets[m]
    BY <1>3 DEF BucketsTyped
  <2>5. /\ passed' \in [Nodes -> [Buckets -> Nat]]
        /\ \A m \in Nodes : m # n => passed'[m] = passed[m]
        /\ \A b \in Buckets : passed'[n][b] = IF b \in {ip, byKey} /\ ok THEN passed[n][b] + 1 ELSE passed[n][b]
    BY <1>3 DEF BucketsTyped
  <2>6. BucketsTyped'
    BY <2>2, <2>4, <2>5 DEF BucketsTyped
  <2>7. \A b \in Buckets : passed[n][b] \in Nat /\ passed[n][b] <= Limit(b)
          /\ passed[n][b] <= (IF b \in DOMAIN bs /\ ~bs[b].expired THEN bs[b].count ELSE 0)
    BY DEF BucketsTyped, Shaped, BurstsAreShaped, Live, bs
  <2>8. \A b \in Buckets : passed'[n][b] <= Limit(b)
          /\ passed'[n][b] <= (IF b \in DOMAIN new /\ ~new[b].expired THEN new[b].count ELSE 0)
    BY <2>3, <2>5, <2>7, LimitIsPositive
  <2> QED
    BY <2>4, <2>5, <2>6, <2>8 DEF Shaped, BurstsAreShaped, Live
<1>6. CASE ~Allowed(mid, ip)
  <2>1. new = mid /\ ~ok
    BY <1>3, <1>6
  <2>2. passed' = passed
    BY <1>3, <2>1 DEF BucketsTyped
  <2> HIDE DEF mid, new, bs
  <2>3. \A b \in Buckets :
          LET before == IF b \in DOMAIN bs /\ ~bs[b].expired THEN bs[b].count ELSE 0
              after == IF b \in DOMAIN new /\ ~new[b].expired THEN new[b].count ELSE 0
          IN before \in Nat /\ after \in Nat /\ before <= after
    BY <1>2, <1>4, <2>1 DEF BucketMap
  <2>4. /\ DOMAIN buckets' = Nodes /\ buckets' = [m \in Nodes |-> buckets'[m]]
        /\ buckets'[n] = new /\ \A m \in Nodes : m # n => buckets'[m] = buckets[m]
    BY <1>3 DEF BucketsTyped
  <2>5. BucketsTyped'
    BY <1>4, <2>1, <2>2, <2>4 DEF BucketsTyped
  <2>6. \A b \in Buckets : passed[n][b] \in Nat
          /\ passed[n][b] <= (IF b \in DOMAIN bs /\ ~bs[b].expired THEN bs[b].count ELSE 0)
    BY DEF BucketsTyped, Shaped, Live, bs
  <2>7. \A b \in Buckets :
          passed'[n][b] <= (IF b \in DOMAIN new /\ ~new[b].expired THEN new[b].count ELSE 0)
    BY <2>2, <2>3, <2>6
  <2> QED
    BY <2>2, <2>4, <2>5, <2>7 DEF Shaped, BurstsAreShaped, Live
<1> QED
  BY <1>5, <1>6

LEMMA WindowEndsShapes ==
    ASSUME BucketsTyped, Shaped, BurstsAreShaped, NEW n \in Nodes, NEW b \in Buckets, WindowEnds(n, b)
    PROVE  BucketsTyped' /\ Shaped' /\ BurstsAreShaped'
<1> DEFINE ended == [count |-> 0, expired |-> TRUE]
           bs == buckets[n]
           new == [bs EXCEPT ![b] = ended]
<1>1. /\ b \in DOMAIN bs /\ BucketMap(bs)
      /\ buckets' = [buckets EXCEPT ![n] = new]
      /\ passed' = [passed EXCEPT ![n] = [passed[n] EXCEPT ![b] = 0]]
  BY DEF WindowEnds, BucketsTyped
<1>2. ended \in [count : Nat, expired : BOOLEAN] /\ ended.count = 0 /\ ended.expired
  OBVIOUS
<1> HIDE DEF ended
<1>3. DOMAIN new = DOMAIN bs /\ new[b] = ended /\ \A c \in DOMAIN bs : c # b => new[c] = bs[c]
  BY <1>1
<1>4. BucketMap(new)
  BY <1>1, <1>2, <1>3, LimitIsPositive DEF BucketMap
<1> HIDE DEF new, bs
<1>5. /\ DOMAIN buckets' = Nodes /\ buckets' = [m \in Nodes |-> buckets'[m]]
      /\ buckets'[n] = new /\ \A m \in Nodes : m # n => buckets'[m] = buckets[m]
  BY <1>1 DEF BucketsTyped
<1>6. /\ passed' \in [Nodes -> [Buckets -> Nat]] /\ passed'[n][b] = 0
      /\ \A m \in Nodes, c \in Buckets : m # n \/ c # b => passed'[m][c] = passed[m][c]
  BY <1>1 DEF BucketsTyped
<1>7. BucketsTyped'
  BY <1>4, <1>5, <1>6 DEF BucketsTyped
<1>8. \A c \in Buckets : passed'[n][c] <= (IF c \in DOMAIN new /\ ~new[c].expired THEN new[c].count ELSE 0)
  BY <1>1, <1>2, <1>3, <1>6 DEF Shaped, Live, bs
<1> QED
  BY <1>5, <1>6, <1>7, <1>8, LimitIsPositive DEF Shaped, BurstsAreShaped, Live

LEMMA RestartShapes ==
    ASSUME BucketsTyped, Shaped, BurstsAreShaped, NEW n \in Nodes, NodeRestarts(n)
    PROVE  BucketsTyped' /\ Shaped' /\ BurstsAreShaped'
<1> DEFINE none == [b \in {} |-> [count |-> 0, expired |-> TRUE]]
           zero == [b \in Buckets |-> 0]
<1>1. /\ buckets' = [buckets EXCEPT ![n] = none]
      /\ passed' = [passed EXCEPT ![n] = zero]
  BY DEF NodeRestarts
<1>2. DOMAIN none = {} /\ none = [b \in DOMAIN none |-> none[b]]
      /\ zero \in [Buckets -> Nat] /\ \A b \in Buckets : zero[b] = 0
  OBVIOUS
<1> HIDE DEF none, zero
<1>3. BucketMap(none)
  BY <1>2 DEF BucketMap
<1>4. /\ DOMAIN buckets' = Nodes /\ buckets' = [m \in Nodes |-> buckets'[m]]
      /\ buckets'[n] = none /\ \A m \in Nodes : m # n => buckets'[m] = buckets[m]
  BY <1>1 DEF BucketsTyped
<1>5. /\ passed' \in [Nodes -> [Buckets -> Nat]] /\ passed'[n] = zero
      /\ \A m \in Nodes : m # n => passed'[m] = passed[m]
  BY <1>1, <1>2 DEF BucketsTyped
<1>6. BucketsTyped'
  BY <1>3, <1>4, <1>5 DEF BucketsTyped
<1>7. \A b \in Buckets : passed'[n][b] = 0 /\ b \notin DOMAIN buckets'[n]
  BY <1>2, <1>4, <1>5
<1>8. Shaped'
  BY <1>4, <1>5, <1>7 DEF Shaped, Live
<1>9. BurstsAreShaped'
  BY <1>5, <1>7, LimitIsPositive DEF BurstsAreShaped
<1> QED
  BY <1>6, <1>8, <1>9

BurstAction ==
    \/ \E n \in Nodes, i \in Addresses, k \in Keys, ok \in BOOLEAN : Consume(n, i, k, ok)
    \/ \E n \in Nodes, b \in Buckets : WindowEnds(n, b)
    \/ \E n \in Nodes : NodeRestarts(n)
    \/ UNCHANGED burstVars

LEMMA BurstsStep ==
    ASSUME BucketsTyped, Shaped, BurstsAreShaped, BurstAction
    PROVE  BucketsTyped' /\ Shaped' /\ BurstsAreShaped'
<1>1. CASE UNCHANGED burstVars
  <2>1. buckets' = buckets /\ passed' = passed
    BY <1>1 DEF burstVars
  <2>2. BucketsTyped'
    BY <2>1 DEF BucketsTyped
  <2>3. Shaped'
    BY <2>1 DEF Shaped, Live
  <2> QED
    BY <2>1, <2>2, <2>3 DEF BurstsAreShaped
<1>2. ASSUME NEW n \in Nodes, NEW i \in Addresses, NEW k \in Keys, NEW ok \in BOOLEAN, Consume(n, i, k, ok)
      PROVE  BucketsTyped' /\ Shaped' /\ BurstsAreShaped'
  BY <1>2, ConsumeShapes
<1>3. ASSUME NEW n \in Nodes, NEW b \in Buckets, WindowEnds(n, b)
      PROVE  BucketsTyped' /\ Shaped' /\ BurstsAreShaped'
  BY <1>3, WindowEndsShapes
<1>4. ASSUME NEW n \in Nodes, NodeRestarts(n) PROVE BucketsTyped' /\ Shaped' /\ BurstsAreShaped'
  BY <1>4, RestartShapes
<1> QED
  BY <1>1, <1>2, <1>3, <1>4 DEF BurstAction

-----------------------------------------------------------------------------
(* The asks and the monthly counter.                                       *)

HandlersTyped ==
    /\ month \in Months /\ usage \in [Organizations -> [Months -> Nat]]
    /\ stage \in [Asks -> Stages]
    /\ home \in [Asks -> Nodes \cup {None}] /\ key \in [Asks -> Keys \cup {None}]
    /\ scope \in [Asks -> Projects \cup {NoProject}]
    /\ ticket \in [Asks -> [number : Nat, organization : Organizations \cup {None}, month : Months \cup {0},
                          served : BOOLEAN]]
    /\ sentRetired \in [Asks -> BOOLEAN]
    /\ chunks \in [Asks -> 0 .. MaxChunks]
    /\ wire \in [Asks -> Seq(Symbols)]

\* Where a handler is past the guard it knows its project; before it came it
\* knows none.
Scoped ==
    \A a \in Asks :
        /\ stage[a] \in {"project", "count", "stream"} => scope[a] \in Projects
        /\ stage[a] = "unsent" => scope[a] = NoProject

\* The tickets of an organization's month are different numbers up to the
\* counter, which only goes with the organization.
Counted ==
    /\ \A a \in Asks : ticket[a].served =>
          /\ ticket[a].number \in 1 .. Cap
          /\ ticket[a].organization \in Organizations /\ ticket[a].month \in Months
          /\ ticket[a].organization \in organizations =>
                ticket[a].number <= usage[ticket[a].organization][ticket[a].month]
    /\ \A a, b \in Asks :
          /\ a # b /\ ticket[a].served /\ ticket[b].served
          /\ ticket[a].organization = ticket[b].organization /\ ticket[a].month = ticket[b].month
          => ticket[a].number # ticket[b].number

Dead == \A a \in Asks : sentRetired[a] => key[a] \in Retired /\ scope[a] = NoProject

LEMMA SymbolsTyped ==
    /\ Mark("cut") \in Symbols
    /\ \A line \in {"event", "break", "status", "end", "cut"} : <<Mark(line)>> \in Seq(Symbols)
    /\ \A type \in {"chunk", "done", "error"}, text \in 0 .. MaxChunks : Frame(type, text) \in Seq(Symbols)
BY PublicAssumption DEF Mark, Frame, Symbols

HandlerAction ==
    \/ \E a \in Asks :
          \/ LookUpSite(a) \/ RejectQuestion(a) \/ ResolveProject(a) \/ CountAsk(a) \/ QueryFails(a)
          \/ StreamChunk(a) \/ StreamEnds(a) \/ ConnectionLost(a)
          \/ \E n \in Nodes, k \in Keys, i \in Addresses : Arrive(a, n, k, i)
    \/ \E n \in Nodes : NodeRestarts(n)
    \/ \E o \in Organizations : DeleteOrganization(o)
    \/ MonthTurns
    \/ UNCHANGED <<counterVars, askVars>>

LEMMA HandlersStep ==
    ASSUME SitesTypeOK, HandlersTyped, Scoped, HandlerAction
    PROVE  HandlersTyped' /\ Scoped'
<1> USE DEF HandlersTyped, Scoped, Stages
<1>0. NoProject \notin Projects /\ None \notin Keys
  BY SitesAssumption, PublicAssumption
<1>r. ASSUME NEW a \in Asks, Refuse(a), stage[a] # "closed" PROVE
        /\ stage' \in [Asks -> Stages] /\ wire' \in [Asks -> Seq(Symbols)] /\ stage'[a] = "closed"
        /\ \A b \in Asks : b # a => stage'[b] = stage[b]
  BY <1>r, SymbolsTyped DEF Refuse, Goto, Write
<1>1. ASSUME NEW a \in Asks, LookUpSite(a) PROVE HandlersTyped' /\ Scoped'
  <2>1. CASE (\E p \in Projects : Admits(p, a) /\ scope' = [scope EXCEPT ![a] = p])
             /\ Goto(a, "project") /\ UNCHANGED wire
    BY <1>1, <2>1, <1>0 DEF LookUpSite, Goto, counterVars
  <2>2. CASE Refuse(a) /\ UNCHANGED scope
    BY <1>1, <2>2, <1>r DEF LookUpSite, counterVars
  <2> QED
    BY <1>1, <2>1, <2>2 DEF LookUpSite
<1>2. ASSUME NEW a \in Asks, RejectQuestion(a) \/ QueryFails(a) PROVE HandlersTyped' /\ Scoped'
  BY <1>2, <1>r DEF RejectQuestion, QueryFails, counterVars
<1>3. ASSUME NEW a \in Asks, ResolveProject(a) PROVE HandlersTyped' /\ Scoped'
  <2>1. CASE scope[a] \in projects
    BY <1>3, <2>1 DEF ResolveProject, Goto, counterVars, SitesTypeOK
  <2>2. CASE scope[a] \notin projects
    BY <1>3, <2>2, <1>r DEF ResolveProject, counterVars
  <2> QED
    BY <2>1, <2>2
<1>4. ASSUME NEW a \in Asks, CountAsk(a) PROVE HandlersTyped' /\ Scoped'
  <2> DEFINE o == OrgOf[scope[a]]
             used == usage[o][month] + 1
             new == [number |-> used, organization |-> o, month |-> month, served |-> WithinCap(used)]
  <2>1. o \in Organizations /\ stage[a] = "count"
    BY <1>4, SitesAssumption DEF CountAsk
  <2>2. used \in Nat
    BY <2>1
  <2>3. new \in [number : Nat, organization : Organizations \cup {None}, month : Months \cup {0}, served : BOOLEAN]
    BY <2>1, <2>2 DEF WithinCap
  <2>4. CASE o \in organizations
    <3>1. usage' = [usage EXCEPT ![o] = [usage[o] EXCEPT ![month] = used]] /\ ticket' = [ticket EXCEPT ![a] = new]
          /\ UNCHANGED <<month, home, key, scope, sentRetired, chunks>>
      BY <1>4, <2>4 DEF CountAsk, siteVars
    <3> HIDE DEF used, new
    <3>2. usage' \in [Organizations -> [Months -> Nat]] /\ ticket' \in
            [Asks -> [number : Nat, organization : Organizations \cup {None}, month : Months \cup {0}, served : BOOLEAN]]
      BY <2>1, <2>2, <2>3, <3>1
    <3>3. CASE WithinCap(used)
      <4>1. Goto(a, "stream") /\ UNCHANGED wire
        BY <1>4, <2>4, <3>3 DEF CountAsk, used
      <4> QED
        BY <2>1, <3>1, <3>2, <4>1 DEF Goto
    <3>4. CASE ~WithinCap(used)
      <4>1. Refuse(a)
        BY <1>4, <2>4, <3>4 DEF CountAsk, used
      <4> QED
        BY <1>r, <2>1, <3>1, <3>2, <4>1
    <3> QED
      BY <3>3, <3>4
  <2>5. CASE o \notin organizations
    <3>1. Refuse(a) /\ UNCHANGED <<usage, ticket, month, home, key, scope, sentRetired, chunks>>
      BY <1>4, <2>5 DEF CountAsk
    <3> QED
      BY <1>r, <2>1, <3>1
  <2> QED
    BY <2>4, <2>5
<1>5. ASSUME NEW a \in Asks, StreamChunk(a) PROVE HandlersTyped' /\ Scoped'
  <2>1. chunks[a] + 1 \in 0 .. MaxChunks
    BY <1>5, PublicAssumption DEF StreamChunk
  <2>2. Frame("chunk", chunks[a] + 1) \in Seq(Symbols)
    BY <2>1, SymbolsTyped
  <2> QED
    BY <1>5, <2>1, <2>2 DEF StreamChunk, Write, counterVars
<1>6. ASSUME NEW a \in Asks, StreamEnds(a) PROVE HandlersTyped' /\ Scoped'
  <2>1. PICK type \in {"done", "error"} : Write(a, Frame(type, 0) \o <<Mark("end")>>)
    BY <1>6 DEF StreamEnds
  <2>2. Frame(type, 0) \o <<Mark("end")>> \in Seq(Symbols)
    <3>1. Frame(type, 0) \in Seq(Symbols) /\ <<Mark("end")>> \in Seq(Symbols)
      BY SymbolsTyped, PublicAssumption
    <3> QED
      BY <3>1
  <2> HIDE DEF HandlersTyped
  <2>3. wire \in [Asks -> Seq(Symbols)]
    BY DEF HandlersTyped
  <2>4. wire[a] \o (Frame(type, 0) \o <<Mark("end")>>) \in Seq(Symbols)
    BY <2>2, <2>3
  <2>5. wire' = [wire EXCEPT ![a] = wire[a] \o (Frame(type, 0) \o <<Mark("end")>>)]
    BY <2>1 DEF Write
  <2>6. wire' \in [Asks -> Seq(Symbols)]
    BY <2>3, <2>4, <2>5
  <2> QED
    BY <1>6, <2>6 DEF StreamEnds, Goto, counterVars, HandlersTyped
<1>7. ASSUME NEW asks, Cut(asks), \A a \in Asks : a \in asks => stage[a] # "unsent", UNCHANGED counterVars
      PROVE HandlersTyped' /\ Scoped'
  <2> QED
    BY <1>7, SymbolsTyped DEF Cut, counterVars
<1>8. ASSUME NEW a \in Asks, ConnectionLost(a) PROVE HandlersTyped' /\ Scoped'
  BY <1>7, <1>8 DEF ConnectionLost
<1>9. ASSUME NEW n \in Nodes, NodeRestarts(n) PROVE HandlersTyped' /\ Scoped'
  BY <1>7, <1>9 DEF NodeRestarts, Open
<1>10. ASSUME NEW a \in Asks, NEW n \in Nodes, NEW k \in Keys, NEW i \in Addresses, Arrive(a, n, k, i)
       PROVE  HandlersTyped' /\ Scoped'
  <2>1. /\ home' \in [Asks -> Nodes \cup {None}] /\ key' \in [Asks -> Keys \cup {None}]
        /\ sentRetired' \in [Asks -> BOOLEAN] /\ stage[a] = "unsent"
        /\ UNCHANGED <<counterVars, scope, ticket, chunks>>
        /\ (Goto(a, "lookup") /\ UNCHANGED wire) \/ Refuse(a)
    BY <1>10 DEF Arrive
  <2> QED
    BY <1>r, <2>1 DEF Goto, counterVars
<1>11. ASSUME NEW o \in Organizations, DeleteOrganization(o) PROVE HandlersTyped' /\ Scoped'
  BY <1>11 DEF DeleteOrganization, askVars
<1>12. CASE MonthTurns
  BY <1>12, PublicAssumption DEF MonthTurns, Months, askVars
<1>13. CASE UNCHANGED <<counterVars, askVars>>
  BY <1>13 DEF counterVars, askVars
<1> QED
  BY <1>1, <1>2, <1>3, <1>4, <1>5, <1>6, <1>8, <1>9, <1>10, <1>11, <1>12, <1>13 DEF HandlerAction

\* A new ticket is one past the counter, and so past every ticket given out.
LEMMA CountedStep ==
    ASSUME SitesTypeOK, HandlersTyped, Scoped, Counted, HandlerAction, organizations' \subseteq organizations,
           ~(\E o \in Organizations : DeleteOrganization(o)) => UNCHANGED organizations \/ UNCHANGED <<usage, ticket>>
    PROVE  Counted'
<1> USE DEF HandlersTyped
<1>1. ASSUME UNCHANGED <<usage, ticket>> PROVE Counted'
  BY <1>1 DEF Counted
<1>2. ASSUME NEW o \in Organizations, DeleteOrganization(o) PROVE Counted'
  <2>1. /\ o \notin organizations' /\ UNCHANGED ticket
        /\ \A p \in Organizations : p # o => usage'[p] = usage[p]
    BY <1>2 DEF DeleteOrganization, DeleteOrganizationRows, askVars
  <2> QED
    BY <2>1 DEF Counted
<1>3. ASSUME NEW a \in Asks, CountAsk(a), ~UNCHANGED <<usage, ticket>> PROVE Counted'
  <2> DEFINE o == OrgOf[scope[a]]
             used == usage[o][month] + 1
             new == [number |-> used, organization |-> o, month |-> month, served |-> WithinCap(used)]
  <2>1. o \in Organizations
    BY <1>3, SitesAssumption DEF CountAsk, Scoped
  <2>2. used \in Nat /\ used > usage[o][month] /\ usage[o][month] \in Nat /\ used >= 1
    BY <2>1
  <2>3. /\ o \in organizations /\ ticket' = [ticket EXCEPT ![a] = new] /\ UNCHANGED organizations
        /\ usage' = [usage EXCEPT ![o] = [usage[o] EXCEPT ![month] = used]]
    BY <1>3 DEF CountAsk, siteVars
  <2>4. new.number = used /\ new.organization = o /\ new.month = month /\ new.served = WithinCap(used)
    OBVIOUS
  <2>5. WithinCap(used) => used \in 1 .. Cap
    BY <2>2, PublicAssumption DEF WithinCap
  <2> HIDE DEF used, new
  <2>6. /\ ticket'[a] = new /\ \A b \in Asks : b # a => ticket'[b] = ticket[b]
        /\ usage'[o][month] = used
        /\ \A p \in Organizations, m \in Months : p # o \/ m # month => usage'[p][m] = usage[p][m]
    BY <2>1, <2>3
  <2>7. \A b \in Asks : ticket[b].served /\ ticket[b].organization = o /\ ticket[b].month = month
                        => ticket[b].number <= usage[o][month] /\ ticket[b].number \in Nat
    BY <2>3 DEF Counted
  <2>8. \A b \in Asks : ticket'[b].served =>
          /\ ticket'[b].number \in 1 .. Cap
          /\ ticket'[b].organization \in Organizations /\ ticket'[b].month \in Months
          /\ ticket'[b].organization \in organizations' =>
                ticket'[b].number <= usage'[ticket'[b].organization][ticket'[b].month]
    <3> SUFFICES ASSUME NEW b \in Asks, ticket'[b].served
                 PROVE  /\ ticket'[b].number \in 1 .. Cap
                        /\ ticket'[b].organization \in Organizations /\ ticket'[b].month \in Months
                        /\ ticket'[b].organization \in organizations' =>
                              ticket'[b].number <= usage'[ticket'[b].organization][ticket'[b].month]
      OBVIOUS
    <3>1. CASE b = a
      BY <3>1, <2>1, <2>2, <2>4, <2>5, <2>6
    <3>2. CASE b # a
      <4>1. ticket'[b] = ticket[b] /\ ticket[b].served /\ ticket[b].number \in 1 .. Cap
            /\ ticket[b].organization \in Organizations /\ ticket[b].month \in Months
            /\ (ticket[b].organization \in organizations =>
                  ticket[b].number <= usage[ticket[b].organization][ticket[b].month])
        BY <3>2, <2>6 DEF Counted
      <4>2. CASE ticket[b].organization = o /\ ticket[b].month = month
        BY <4>1, <4>2, <2>2, <2>6, <2>7
      <4>3. CASE ~(ticket[b].organization = o /\ ticket[b].month = month)
        BY <4>1, <4>3, <2>3, <2>6
      <4> QED
        BY <4>2, <4>3
    <3> QED
      BY <3>1, <3>2
  <2>9. \A b \in Asks : b # a /\ ticket'[b].served /\ ticket'[b].organization = o /\ ticket'[b].month = month
                        => ticket'[b].number # used
    BY <2>2, <2>6, <2>7
  <2>10. \A b, c \in Asks :
          /\ b # c /\ ticket'[b].served /\ ticket'[c].served
          /\ ticket'[b].organization = ticket'[c].organization /\ ticket'[b].month = ticket'[c].month
          => ticket'[b].number # ticket'[c].number
    <3> SUFFICES ASSUME NEW b \in Asks, NEW c \in Asks, b # c, ticket'[b].served, ticket'[c].served,
                        ticket'[b].organization = ticket'[c].organization,
                        ticket'[b].month = ticket'[c].month
                 PROVE  ticket'[b].number # ticket'[c].number
      OBVIOUS
    <3>1. CASE b = a
      BY <3>1, <2>4, <2>6, <2>9
    <3>2. CASE c = a
      BY <3>2, <2>4, <2>6, <2>9
    <3>3. CASE b # a /\ c # a
      <4>1. ticket'[b] = ticket[b] /\ ticket'[c] = ticket[c]
        BY <3>3, <2>6
      <4>2. \A x, y \in Asks :
              /\ x # y /\ ticket[x].served /\ ticket[y].served
              /\ ticket[x].organization = ticket[y].organization /\ ticket[x].month = ticket[y].month
              => ticket[x].number # ticket[y].number
        BY DEF Counted
      <4>3. ticket[b].served /\ ticket[c].served
        BY <4>1
      <4>4. ticket[b].organization = ticket[c].organization /\ ticket[b].month = ticket[c].month
        BY <4>1
      <4> QED
        BY <4>1, <4>2, <4>3, <4>4
    <3> QED
      BY <3>1, <3>2, <3>3
  <2> QED
    BY <2>8, <2>10 DEF Counted
<1>4. ASSUME NEW a \in Asks,
             LookUpSite(a) \/ RejectQuestion(a) \/ ResolveProject(a) \/ QueryFails(a)
             \/ StreamChunk(a) \/ StreamEnds(a) \/ ConnectionLost(a)
             \/ \E n \in Nodes, k \in Keys, i \in Addresses : Arrive(a, n, k, i)
      PROVE  UNCHANGED <<usage, ticket>>
  BY <1>4 DEF LookUpSite, RejectQuestion, ResolveProject, QueryFails, StreamChunk, StreamEnds,
             ConnectionLost, Cut, Arrive, counterVars
<1>5. ASSUME (\E n \in Nodes : NodeRestarts(n)) \/ MonthTurns \/ UNCHANGED <<counterVars, askVars>>
      PROVE  UNCHANGED <<usage, ticket>>
  BY <1>5 DEF NodeRestarts, Cut, MonthTurns, counterVars, askVars
<1> QED
  BY <1>1, <1>2, <1>3, <1>4, <1>5 DEF HandlerAction

LEMMA DeadStep ==
    ASSUME SitesTypeOK, HandlersTyped, Scoped, Dead, HandlerAction, Retired \subseteq Retired'
    PROVE  Dead'
<1> USE DEF HandlersTyped
<1>1. ASSUME UNCHANGED <<key, scope, sentRetired>> PROVE Dead'
  BY <1>1 DEF Dead
<1>2. ASSUME NEW a \in Asks, LookUpSite(a) PROVE Dead'
  <2>1. ASSUME NEW p \in Projects, Admits(p, a) PROVE ~sentRetired[a]
    BY <2>1 DEF Admits, Dead, Retired, KeysInUse
  <2> QED
    BY <1>2, <2>1 DEF LookUpSite, Dead
<1>3. ASSUME NEW a \in Asks, NEW n \in Nodes, NEW k \in Keys, NEW i \in Addresses, Arrive(a, n, k, i)
      PROVE  Dead'
  BY <1>3 DEF Arrive, Dead, Scoped, Retired
<1>4. ASSUME NEW a \in Asks,
             RejectQuestion(a) \/ ResolveProject(a) \/ CountAsk(a) \/ QueryFails(a)
             \/ StreamChunk(a) \/ StreamEnds(a) \/ ConnectionLost(a)
      PROVE  Dead'
  BY <1>1, <1>4 DEF RejectQuestion, ResolveProject, CountAsk, QueryFails, StreamChunk, StreamEnds, ConnectionLost, Cut
<1>5. ASSUME \/ \E n \in Nodes : NodeRestarts(n)
             \/ \E o \in Organizations : DeleteOrganization(o)
             \/ MonthTurns \/ UNCHANGED <<counterVars, askVars>>
      PROVE  Dead'
  BY <1>1, <1>5 DEF NodeRestarts, Cut, DeleteOrganization, MonthTurns, askVars
<1> QED
  BY <1>2, <1>3, <1>4, <1>5 DEF HandlerAction

-----------------------------------------------------------------------------
(* The server, whoever asks and whatever becomes of its responses.         *)

publicVars == <<siteVars, counterVars, burstVars, askVars>>
PublicNext ==
    \/ ServerStep
    \/ \E a \in Asks, n \in Nodes, k \in Keys, i \in Addresses : Arrive(a, n, k, i)

PublicInv ==
    /\ SitesTypeOK /\ HandlersTyped /\ BucketsTyped
    /\ Scoped /\ Counted /\ Dead /\ Shaped /\ BurstsAreShaped

\* Every step is, to each part of the state, one of that part's actions.
LEMMA StepKinds ==
    ASSUME [PublicNext]_publicVars
    PROVE  /\ SitesAction /\ BurstAction /\ HandlerAction
           /\ ~(\E o \in Organizations : DeleteOrganization(o)) =>
                 UNCHANGED organizations \/ UNCHANGED <<usage, ticket>>
<1> DEFINE Kinds == /\ SitesAction /\ BurstAction /\ HandlerAction
                    /\ ~(\E o \in Organizations : DeleteOrganization(o)) =>
                          UNCHANGED organizations \/ UNCHANGED <<usage, ticket>>
<1>1. CASE AdminStep
  BY <1>1 DEF AdminStep, SitesAction, BurstAction, HandlerAction, counterVars, askVars
<1>2. ASSUME NEW a \in Asks, HandlerStep(a) \/ ConnectionLost(a) PROVE Kinds
  <2>1. UNCHANGED siteVars /\ UNCHANGED burstVars
    BY <1>2 DEF HandlerStep, LookUpSite, RejectQuestion, ResolveProject, CountAsk, QueryFails,
                StreamChunk, StreamEnds, ConnectionLost, siteVars
  <2>2. HandlerAction
    BY <1>2 DEF HandlerStep, HandlerAction
  <2> QED
    BY <2>1, <2>2 DEF SitesAction, BurstAction, siteVars
<1>3. ASSUME NEW n \in Nodes, NEW b \in Buckets, WindowEnds(n, b) PROVE Kinds
  <2>1. UNCHANGED siteVars /\ UNCHANGED <<counterVars, askVars>>
    BY <1>3 DEF WindowEnds
  <2>2. BurstAction
    BY <1>3 DEF BurstAction
  <2> QED
    BY <2>1, <2>2 DEF SitesAction, HandlerAction, siteVars
<1>4. ASSUME NEW n \in Nodes, NEW i \in Addresses, NEW k \in Keys, FetchConfig(n, i, k) PROVE Kinds
  <2>1. UNCHANGED siteVars /\ UNCHANGED <<counterVars, askVars>>
    BY <1>4 DEF FetchConfig
  <2>2. BurstAction
    BY <1>4 DEF FetchConfig, BurstAction
  <2> QED
    BY <2>1, <2>2 DEF SitesAction, HandlerAction, siteVars
<1>5. ASSUME NEW n \in Nodes, NodeRestarts(n) PROVE Kinds
  <2>1. UNCHANGED siteVars
    BY <1>5 DEF NodeRestarts
  <2>2. BurstAction /\ HandlerAction
    BY <1>5 DEF BurstAction, HandlerAction
  <2> QED
    BY <2>1, <2>2 DEF SitesAction, siteVars
<1>6. ASSUME NEW o \in Organizations, DeleteOrganization(o) PROVE Kinds
  <2>1. UNCHANGED burstVars /\ DeleteOrganizationRows(o)
    BY <1>6 DEF DeleteOrganization
  <2>2. HandlerAction
    BY <1>6 DEF HandlerAction
  <2> QED
    BY <1>6, <2>1, <2>2 DEF SitesAction, BurstAction
<1>7. CASE MonthTurns
  BY <1>7 DEF MonthTurns, SitesAction, BurstAction, HandlerAction, siteVars
<1>8. ASSUME NEW a \in Asks, NEW n \in Nodes, NEW k \in Keys, NEW i \in Addresses, Arrive(a, n, k, i)
      PROVE  Kinds
  <2>1. UNCHANGED siteVars
    BY <1>8 DEF Arrive
  <2>2. BurstAction
    BY <1>8 DEF Arrive, BurstAction
  <2>3. HandlerAction
    BY <1>8 DEF HandlerAction
  <2> QED
    BY <2>1, <2>2, <2>3 DEF SitesAction, siteVars
<1>9. CASE UNCHANGED publicVars
  BY <1>9 DEF publicVars, SitesAction, BurstAction, HandlerAction, siteVars
<1> QED
  BY <1>1, <1>2, <1>3, <1>4, <1>5, <1>6, <1>7, <1>8, <1>9 DEF PublicNext, ServerStep

LEMMA InvInit == SitesInit /\ PublicInit => PublicInv
<1> SUFFICES ASSUME SitesInit, PublicInit PROVE PublicInv
  OBVIOUS
<1> USE SitesAssumption, PublicAssumption DEF SitesInit, PublicInit
<1>1. SitesTypeOK
  BY DEF SitesTypeOK, KeysInUse
<1>2. HandlersTyped /\ Scoped /\ Dead
  BY DEF HandlersTyped, Scoped, Dead, Stages, Months, NoTicket
<1>3. Counted
  BY DEF Counted, NoTicket
<1> DEFINE none == [b \in {} |-> [count |-> 0, expired |-> TRUE]]
           zero == [b \in Buckets |-> 0]
<1>4. DOMAIN none = {} /\ none = [b \in DOMAIN none |-> none[b]] /\ zero \in [Buckets -> Nat]
      /\ \A b \in Buckets : zero[b] = 0
  OBVIOUS
<1>5. buckets = [n \in Nodes |-> none] /\ passed = [n \in Nodes |-> zero]
  OBVIOUS
<1> HIDE DEF none, zero
<1>6. BucketMap(none)
  BY <1>4 DEF BucketMap
<1>7. BucketsTyped
  BY <1>4, <1>5, <1>6 DEF BucketsTyped
<1>8. Shaped /\ BurstsAreShaped
  BY <1>4, <1>5, LimitIsPositive DEF Shaped, BurstsAreShaped, Live
<1> QED
  BY <1>1, <1>2, <1>3, <1>7, <1>8 DEF PublicInv

LEMMA InvStep == PublicInv /\ [PublicNext]_publicVars => PublicInv'
<1> SUFFICES ASSUME PublicInv, [PublicNext]_publicVars PROVE PublicInv'
  OBVIOUS
<1> USE DEF PublicInv
<1>1. SitesTypeOK' /\ Retired \subseteq Retired' /\ organizations' \subseteq organizations
  BY StepKinds, SitesStep
<1>2. BucketsTyped' /\ Shaped' /\ BurstsAreShaped'
  BY StepKinds, BurstsStep
<1>3. HandlersTyped' /\ Scoped'
  BY StepKinds, HandlersStep
<1>4. Counted'
  BY <1>1, StepKinds, CountedStep
<1>5. Dead'
  BY <1>1, StepKinds, DeadStep
<1> QED
  BY <1>1, <1>2, <1>3, <1>4, <1>5

-----------------------------------------------------------------------------
(* The parser: how splitFrames cuts a response into events.                *)

LEMMA Thirds == ASSUME NEW m \in Nat PROVE \E c \in Nat : 3 * c <= m /\ m <= 3 * c + 2
<1>1. m \div 3 \in Nat /\ 3 * (m \div 3) <= m /\ m <= 3 * (m \div 3) + 2
  OBVIOUS
<1> QED
  BY <1>1

\* InOrder puts the values of an ascending sequence back in its order.
LEMMA InOrderOf ==
    ASSUME NEW n \in Nat, NEW f \in [1 .. n -> Nat],
           \A i, j \in 1 .. n : i < j => f[i] < f[j]
    PROVE  InOrder({f[i] : i \in 1 .. n}) = f
<1> DEFINE First(m) == {f[i] : i \in 1 .. m}
<1> DEFINE S == First(n)
<1>1. ASSUME NEW m \in 0 .. n PROVE IsFiniteSet(First(m)) /\ Cardinality(First(m)) = m
  <2> DEFINE g == [i \in 1 .. m |-> f[i]]
  <2>1. \A i, j \in 1 .. m : f[i] = f[j] => i = j
    BY <1>1
  <2>2. g \in Bijection(1 .. m, First(m))
    BY <2>1 DEF Bijection, Injection, Surjection, IsInjective
  <2>3. ExistsBijection(1 .. m, First(m))
    BY <2>2 DEF ExistsBijection
  <2>4. IsFiniteSet(1 .. m) /\ Cardinality(1 .. m) = m
    BY FS_Interval
  <2> HIDE DEF First
  <2> QED
    BY <2>3, <2>4, FS_Bijection
<1>2. ASSUME NEW k \in 1 .. n PROVE {j \in S : j <= f[k]} = First(k)
  <2>1. \A i \in 1 .. n : f[i] <= f[k] <=> i <= k
    BY <1>2
  <2> QED
    BY <2>1
<1>3. ASSUME NEW k \in 1 .. n PROVE Cardinality({j \in S : j <= f[k]}) = k
  <2>1. {j \in S : j <= f[k]} = First(k)
    BY <1>2
  <2> HIDE DEF First
  <2>2. Cardinality(First(k)) = k
    BY <1>1
  <2> QED
    BY <2>1, <2>2
<1>4. Cardinality(S) = n
  BY <1>1
<1>5. ASSUME NEW k \in 1 .. n
      PROVE  (CHOOSE i \in S : Cardinality({j \in S : j <= i}) = k) = f[k]
  <2>1. f[k] \in S /\ Cardinality({j \in S : j <= f[k]}) = k
    BY <1>3
  <2>2. ASSUME NEW i \in S, Cardinality({j \in S : j <= i}) = k PROVE i = f[k]
    <3>1. PICK l \in 1 .. n : i = f[l]
      BY <2>2
    <3> QED
      BY <1>3, <2>2, <3>1
  <2> HIDE DEF S
  <2> QED
    BY <2>1, <2>2
<1> HIDE DEF S
<1>6. InOrder(S) = [k \in 1 .. n |-> f[k]]
  BY <1>4, <1>5 DEF InOrder
<1> QED
  BY <1>6 DEF S

\* A sequence of frames and the beginning of another one: what splitFrames
\* finds in it.
LEMMA Parsed ==
    ASSUME NEW text \in Seq(Symbols), NEW c \in Nat,
           3 * c <= Len(text), Len(text) <= 3 * c + 2,
           \A i \in 1 .. c : /\ text[3 * i - 2].line = "event"
                             /\ text[3 * i - 1].line = "break"
                             /\ text[3 * i].line = "break",
           Len(text) >= 3 * c + 1 => text[3 * c + 1].line = "event"
    PROVE  /\ Complete(text) = 3 * c
           /\ Events(text) = [i \in 1 .. c |-> text[3 * i - 2]]
           /\ Remainder(text) = SubSeq(text, 3 * c + 1, Len(text))
<1>1. FrameEnds(text) = {3 * i : i \in 1 .. c}
  <2>1. ASSUME NEW j \in FrameEnds(text) PROVE \E i \in 1 .. c : j = 3 * i
    <3>1. /\ j \in 2 .. Len(text)
          /\ text[j].line = "break" /\ text[j - 1].line = "break"
      BY DEF FrameEnds
    <3>a. j \in Nat
      BY <3>1
    <3>2. PICK i \in Nat : 3 * i <= j /\ j <= 3 * i + 2
      BY <3>a, Thirds
    <3>3. CASE j = 3 * i
      BY <3>1, <3>3
    <3>4. CASE j = 3 * i + 1
      <4>1. CASE i < c
        <5>1. i + 1 \in 1 .. c /\ 3 * (i + 1) - 2 = j
          BY <3>2, <3>4, <4>1
        <5> QED
          BY <3>1, <5>1
      <4>2. CASE i = c
        BY <3>1, <3>4, <4>2
      <4> QED
        BY <3>1, <3>2, <4>1, <4>2
    <3>5. CASE j = 3 * i + 2
      <4>1. CASE i < c
        <5>1. i + 1 \in 1 .. c /\ 3 * (i + 1) - 2 = j - 1
          BY <3>2, <3>5, <4>1
        <5> QED
          BY <3>1, <5>1
      <4>2. CASE i = c
        BY <3>1, <3>5, <4>2
      <4> QED
        BY <3>1, <3>2, <4>1, <4>2
    <3> QED
      BY <3>1, <3>2, <3>3, <3>4, <3>5
  <2>2. ASSUME NEW i \in 1 .. c PROVE 3 * i \in FrameEnds(text)
    BY DEF FrameEnds
  <2> QED
    BY <2>1, <2>2
<1>2. Complete(text) = 3 * c
  <2>1. 3 * c \in FrameEnds(text) \cup {0}
    BY <1>1
  <2>2. \A j \in FrameEnds(text) : j <= 3 * c
    BY <1>1
  <2>3. ASSUME NEW i \in FrameEnds(text) \cup {0}, \A j \in FrameEnds(text) : j <= i
        PROVE  i = 3 * c
    <3>1. i \in Nat /\ i <= 3 * c
      BY <1>1
    <3>2. CASE c = 0
      BY <3>1, <3>2
    <3>3. CASE c # 0
      <4>1. 3 * c \in FrameEnds(text)
        BY <1>1, <3>3
      <4> QED
        BY <2>3, <3>1, <4>1
    <3> QED
      BY <3>2, <3>3
  <2> QED
    BY <2>1, <2>2, <2>3 DEF Complete
<1> DEFINE at == [i \in 1 .. c |-> 3 * i - 2]
<1>3. {i \in 1 .. 3 * c : text[i].line = "event"} = {at[i] : i \in 1 .. c}
  <2>1. ASSUME NEW j \in 1 .. 3 * c, text[j].line = "event"
        PROVE  \E i \in 1 .. c : j = 3 * i - 2
    <3>a. j \in Nat
      OBVIOUS
    <3>1. PICK i \in Nat : 3 * i <= j /\ j <= 3 * i + 2
      BY <3>a, Thirds
    <3>2. CASE j = 3 * i
      <4>1. i \in 1 .. c
        BY <3>2
      <4> QED
        BY <2>1, <3>2, <4>1
    <3>3. CASE j = 3 * i + 1
      <4>1. i + 1 \in 1 .. c /\ j = 3 * (i + 1) - 2
        BY <3>3
      <4> QED
        BY <4>1
    <3>4. CASE j = 3 * i + 2
      <4>1. i + 1 \in 1 .. c /\ j = 3 * (i + 1) - 1
        BY <3>4
      <4> QED
        BY <2>1, <4>1
    <3> QED
      BY <3>1, <3>2, <3>3, <3>4
  <2>2. \A i \in 1 .. c : 3 * i - 2 \in 1 .. 3 * c /\ text[3 * i - 2].line = "event"
    OBVIOUS
  <2> QED
    BY <2>1, <2>2
<1>4. InOrder({i \in 1 .. Complete(text) : text[i].line = "event"}) = at
  <2>1. at \in [1 .. c -> Nat] /\ \A i, j \in 1 .. c : i < j => at[i] < at[j]
    OBVIOUS
  <2> HIDE DEF at
  <2> QED
    BY <1>2, <1>3, <2>1, InOrderOf
<1>5. Events(text) = [i \in 1 .. c |-> text[3 * i - 2]]
  BY <1>4 DEF Events
<1> QED
  BY <1>2, <1>5 DEF Remainder

LEMMA Suffix ==
    ASSUME NEW S, NEW s \in Seq(S), NEW l \in Nat, l <= Len(s)
    PROVE  /\ SubSeq(s, l + 1, Len(s)) \in Seq(S)
           /\ Len(SubSeq(s, l + 1, Len(s))) = Len(s) - l
           /\ \A j \in 1 .. Len(s) - l : SubSeq(s, l + 1, Len(s))[j] = s[l + j]
OBVIOUS

LEMMA Concat ==
    ASSUME NEW S, NEW s \in Seq(S), NEW t \in Seq(S)
    PROVE  /\ s \o t \in Seq(S) /\ Len(s \o t) = Len(s) + Len(t)
           /\ \A j \in 1 .. Len(s) : (s \o t)[j] = s[j]
           /\ \A j \in 1 .. Len(t) : (s \o t)[Len(s) + j] = t[j]
OBVIOUS

\* s holds N frames and at most the symbol a response ends with.
Framed(s, N) ==
    /\ Len(s) = 3 * N \/ (Len(s) = 3 * N + 1 /\ s[Len(s)].line \notin {"event", "break"})
    /\ \A j \in 1 .. N : /\ s[3 * j - 2].line = "event"
                         /\ s[3 * j - 1].line = "break"
                         /\ s[3 * j].line = "break"
\* s cut after its first c frames, into their events and the rest
CutAfter(s, c, events, t) ==
    /\ events = [j \in 1 .. c |-> s[3 * j - 2]]
    /\ t = SubSeq(s, 3 * c + 1, Len(s))

\* What a piece of the network adds to what the parser kept: whole frames are
\* found, and the rest is kept.
LEMMA PieceParsed ==
    ASSUME NEW b \in Seq(Symbols), NEW w \in Seq(Symbols), NEW N \in Nat, NEW i \in 1 .. Len(w),
           \A j \in 1 .. i : w[j].line \in {"event", "break"},
           Framed(b \o w, N),
           NEW text, text = b \o SubSeq(w, 1, i),
           NEW v, v = SubSeq(w, i + 1, Len(w))
    PROVE  /\ N # 0
           /\ Remainder(text) \in Seq(Symbols) /\ v \in Seq(Symbols)
           /\ \E c \in 0 .. N : CutAfter(b \o w, c, Events(text), Remainder(text) \o v)
<1> DEFINE s == b \o w
<1>0. /\ Len(s) = 3 * N \/ (Len(s) = 3 * N + 1 /\ s[Len(s)].line \notin {"event", "break"})
      /\ \A j \in 1 .. N : /\ s[3 * j - 2].line = "event"
                           /\ s[3 * j - 1].line = "break"
                           /\ s[3 * j].line = "break"
  BY DEF Framed
<1> DEFINE m == Len(b) + i
<1>1. /\ SubSeq(w, 1, i) \in Seq(Symbols) /\ Len(SubSeq(w, 1, i)) = i
      /\ \A j \in 1 .. i : SubSeq(w, 1, i)[j] = w[j]
  BY SubSeqProperties
<1>2. /\ v \in Seq(Symbols) /\ Len(v) = Len(w) - i
      /\ \A j \in 1 .. Len(w) - i : v[j] = w[i + j]
  BY SubSeqProperties
<1>3. /\ s \in Seq(Symbols) /\ Len(s) = Len(b) + Len(w)
      /\ \A j \in 1 .. Len(b) : s[j] = b[j]
      /\ \A j \in 1 .. Len(w) : s[Len(b) + j] = w[j]
  BY ConcatProperties
<1> HIDE DEF s
<1>4. /\ text \in Seq(Symbols) /\ Len(text) = m
      /\ \A j \in 1 .. m : text[j] = s[j]
  <2>1. /\ text \in Seq(Symbols) /\ Len(text) = m
        /\ \A j \in 1 .. m : text[j] = IF j <= Len(b) THEN b[j] ELSE SubSeq(w, 1, i)[j - Len(b)]
    BY <1>1, ConcatProperties
  <2>2. ASSUME NEW j \in 1 .. m, j > Len(b) PROVE text[j] = s[j]
    <3>1. j - Len(b) \in 1 .. i /\ s[Len(b) + (j - Len(b))] = w[j - Len(b)]
      BY <1>3, <2>2
    <3> QED
      BY <1>1, <2>1, <2>2, <3>1
  <2> QED
    BY <2>1, <2>2, <1>3
<1>5. m \in 1 .. Len(s) /\ s[m].line \in {"event", "break"}
  <2>1. Len(b) \in Nat /\ Len(w) \in Nat /\ w[i].line \in {"event", "break"}
    OBVIOUS
  <2>2. m \in 1 .. Len(s)
    BY ONLY <1>3, <2>1, i \in 1 .. Len(w)
  <2>3. s[m] = w[i]
    BY <1>3
  <2> QED
    BY ONLY <2>1, <2>2, <2>3
<1>6. m <= 3 * N
  <2>1. Len(s) \in Nat
    BY <1>3
  <2> HIDE DEF m
  <2> QED
    BY ONLY <1>0, <1>5, <2>1, N \in Nat
<1>7. PICK c \in Nat : 3 * c <= m /\ m <= 3 * c + 2
  <2>1. m \in Nat
    BY <1>5
  <2> HIDE DEF m
  <2> QED
    BY <2>1, Thirds
<1>8. c \in 0 .. N /\ N # 0
  BY <1>5, <1>6, <1>7
<1>b. /\ m \in Nat /\ c \in Nat /\ Len(w) \in Nat /\ i \in Nat /\ Len(s) \in Nat
      /\ 3 * c <= m /\ m = Len(b) + i /\ Len(b) \in Nat
      /\ Len(s) - 3 * c = (m - 3 * c) + (Len(w) - i) /\ i <= Len(w)
  BY <1>3, <1>5, <1>7
<1>9. /\ Complete(text) = 3 * c
      /\ Events(text) = [j \in 1 .. c |-> text[3 * j - 2]]
      /\ Remainder(text) = SubSeq(text, 3 * c + 1, Len(text))
  <2>1. ASSUME NEW j \in 1 .. c
        PROVE  /\ text[3 * j - 2].line = "event" /\ text[3 * j - 1].line = "break"
               /\ text[3 * j].line = "break"
    <3>1. j \in 1 .. N /\ 3 * j \in 1 .. m /\ 3 * j - 1 \in 1 .. m /\ 3 * j - 2 \in 1 .. m
      BY <1>7, <1>8
    <3> QED
      BY <1>0, <1>4, <3>1
  <2>2. ASSUME Len(text) >= 3 * c + 1 PROVE text[3 * c + 1].line = "event"
    <3>1. c + 1 \in 1 .. N /\ 3 * c + 1 \in 1 .. m /\ 3 * (c + 1) - 2 = 3 * c + 1
      BY <1>4, <1>6, <1>7, <1>8, <2>2
    <3> QED
      BY <1>0, <1>4, <3>1
  <2> HIDE DEF m
  <2> QED
    BY <1>4, <1>7, <2>1, <2>2, Parsed
<1>10. Events(text) = [j \in 1 .. c |-> s[3 * j - 2]]
  <2>1. \A j \in 1 .. c : text[3 * j - 2] = s[3 * j - 2]
    <3>1. \A j \in 1 .. c : 3 * j - 2 \in 1 .. m
      BY <1>7
    <3> HIDE DEF m
    <3> QED
      BY <1>4, <3>1
  <2> HIDE DEF m
  <2> QED
    BY <1>9, <2>1
<1>11. /\ Remainder(text) \in Seq(Symbols) /\ Len(Remainder(text)) = m - 3 * c
       /\ \A j \in 1 .. m - 3 * c : Remainder(text)[j] = s[3 * c + j]
  <2> HIDE DEF m
  <2>1. /\ SubSeq(text, 3 * c + 1, Len(text)) \in Seq(Symbols)
        /\ Len(SubSeq(text, 3 * c + 1, Len(text))) = m - 3 * c
        /\ \A j \in 1 .. m - 3 * c : SubSeq(text, 3 * c + 1, Len(text))[j] = text[3 * c + j]
    <3>1. /\ text \in Seq(Symbols) /\ 3 * c \in Nat /\ 3 * c <= Len(text)
          /\ Len(text) - 3 * c = m - 3 * c
      BY <1>4, <1>b
    <3> QED
      BY ONLY <3>1, Suffix
  <2>2. \A j \in 1 .. m - 3 * c : 3 * c + j \in 1 .. m
    BY <1>b
  <2> QED
    BY <1>4, <1>9, <2>1, <2>2
<1>12. Remainder(text) \o v = SubSeq(s, 3 * c + 1, Len(s))
  <2> DEFINE u == Remainder(text)
  <2> DEFINE x == SubSeq(s, 3 * c + 1, Len(s))
  <2>a. /\ u \in Seq(Symbols) /\ Len(u) = m - 3 * c
        /\ \A j \in 1 .. m - 3 * c : u[j] = s[3 * c + j]
    BY <1>11
  <2>b. /\ v \in Seq(Symbols) /\ Len(v) = Len(w) - i
        /\ \A j \in 1 .. Len(w) - i : v[j] = w[i + j]
    BY <1>2
  <2> HIDE DEF x
  <2>c. \A j \in 1 .. Len(w) : s[Len(b) + j] = w[j]
    BY <1>3
  <2> HIDE DEF u, m
  <2>1. /\ u \o v \in Seq(Symbols) /\ Len(u \o v) = (m - 3 * c) + (Len(w) - i)
        /\ \A j \in 1 .. m - 3 * c : (u \o v)[j] = u[j]
        /\ \A j \in 1 .. Len(w) - i : (u \o v)[(m - 3 * c) + j] = v[j]
    <3>1. /\ u \o v \in Seq(Symbols) /\ Len(u \o v) = Len(u) + Len(v)
          /\ \A j \in 1 .. Len(u) : (u \o v)[j] = u[j]
          /\ \A j \in 1 .. Len(v) : (u \o v)[Len(u) + j] = v[j]
      <4>1. u \in Seq(Symbols) /\ v \in Seq(Symbols)
        BY <2>a, <2>b
      <4> QED
        BY ONLY <4>1, Concat
    <3> QED
      BY <2>a, <2>b, <3>1
  <2>2. /\ x \in Seq(Symbols) /\ Len(x) = Len(s) - 3 * c
        /\ \A j \in 1 .. Len(s) - 3 * c : x[j] = s[3 * c + j]
    <3>1. s \in Seq(Symbols) /\ 3 * c \in Nat /\ 3 * c <= Len(s)
      BY <1>3, <1>b, <1>7
    <3> DEFINE l == 3 * c
    <3>2. l \in Nat /\ l <= Len(s)
      BY <3>1
    <3> HIDE DEF l
    <3>3. /\ SubSeq(s, l + 1, Len(s)) \in Seq(Symbols)
          /\ Len(SubSeq(s, l + 1, Len(s))) = Len(s) - l
          /\ \A j \in 1 .. Len(s) - l : SubSeq(s, l + 1, Len(s))[j] = s[l + j]
      BY ONLY <3>1, <3>2, Suffix
    <3> QED
      BY <3>3 DEF l, x
  <2>3. Len(u \o v) = Len(x)
    BY <1>b, <2>1, <2>2
  <2>4. ASSUME NEW j \in 1 .. Len(u \o v) PROVE (u \o v)[j] = x[j]
    <3>1. CASE j <= m - 3 * c
      <4>1. j \in 1 .. m - 3 * c
        BY <1>b, <3>1
      <4>2. (u \o v)[j] = u[j]
        BY <2>1, <4>1
      <4>3. x[j] = s[3 * c + j]
        BY <2>2, <2>3
      <4> QED
        BY <2>a, <4>1, <4>2, <4>3
    <3>2. CASE ~ (j <= m - 3 * c)
      <4> DEFINE l == j - (m - 3 * c)
      <4>1. /\ l \in 1 .. Len(w) - i /\ i + l \in 1 .. Len(w)
            /\ Len(b) + (i + l) = 3 * c + j /\ (m - 3 * c) + l = j
        BY ONLY <1>b, <2>1, <3>2, j \in 1 .. Len(u \o v)
      <4>2. (u \o v)[j] = v[l]
        BY <2>1, <4>1
      <4>3. x[j] = s[3 * c + j]
        BY <2>2, <2>3
      <4> HIDE DEF l
      <4>4. v[l] = w[i + l]
        BY <2>b, <4>1
      <4>5. s[Len(b) + (i + l)] = w[i + l]
        BY <2>c, <4>1
      <4> QED
        BY <4>1, <4>2, <4>3, <4>4, <4>5
    <3> QED
      BY <3>1, <3>2
  <2>5. u \o v = x
    BY <2>1, <2>2, <2>3, <2>4, SeqEqual
  <2> QED
    BY <2>5 DEF u, x
<1>13. CutAfter(s, c, Events(text), Remainder(text) \o v)
  BY <1>10, <1>12 DEF CutAfter
<1> QED
  BY <1>2, <1>8, <1>11, <1>13 DEF s

\* c events, of which the first n are the chunks after the first k
ChunksFirst(events, c, n, k) ==
    /\ DOMAIN events = 1 .. c
    /\ \A i \in 1 .. n : events[i].type = "chunk" /\ events[i].text = k + i
    /\ \A i \in n + 1 .. c : events[i].type # "chunk"

\* The texts of the chunks among them.
LEMMA PiecesOf ==
    ASSUME NEW c \in Nat, NEW n \in 0 .. c, NEW k \in Nat, NEW events, ChunksFirst(events, c, n, k)
    PROVE  Pieces(events) = [j \in 1 .. n |-> k + j]
<1>a. /\ DOMAIN events = 1 .. c
      /\ \A i \in 1 .. n : events[i].type = "chunk" /\ events[i].text = k + i
      /\ \A i \in n + 1 .. c : events[i].type # "chunk"
  BY DEF ChunksFirst
<1> DEFINE f == [i \in 1 .. n |-> i]
<1>1. {i \in DOMAIN events : events[i].type = "chunk"} = {f[i] : i \in 1 .. n}
  BY <1>a
<1>2. f \in [1 .. n -> Nat] /\ \A i, j \in 1 .. n : i < j => f[i] < f[j]
  OBVIOUS
<1>3. \A j \in 1 .. n : f[j] = j
  OBVIOUS
<1>4. DOMAIN f = 1 .. n
  OBVIOUS
<1> HIDE DEF f
<1>5. InOrder({i \in DOMAIN events : events[i].type = "chunk"}) = f
  <2>1. InOrder({f[i] : i \in 1 .. n}) = f
    BY <1>2, InOrderOf
  <2> QED
    BY <1>1, <2>1
<1>6. Pieces(events) = [j \in DOMAIN f |-> events[f[j]].text]
  BY <1>5 DEF Pieces
<1> QED
  BY <1>a, <1>3, <1>4, <1>6

-----------------------------------------------------------------------------
(* What a piece of the network shows of an answer.                         *)

LEMMA MarkLine == \A line : Mark(line).line = line
BY Zenon DEF Mark

LEMMA FrameLines ==
    ASSUME NEW s, NEW i, NEW type, NEW text, FrameAt(s, i, type, text)
    PROVE  /\ s[3 * i - 2].line = "event" /\ s[3 * i - 2].type = type /\ s[3 * i - 2].text = text
           /\ s[3 * i - 1].line = "break" /\ s[3 * i].line = "break"
BY MarkLine DEF FrameAt

LEMMA Single ==
    ASSUME NEW S, NEW t \in Seq(S), Len(t) = 1
    PROVE  t = <<t[1]>>
OBVIOUS

\* What remains of a response is whole frames and its last symbol.
LEMMA ChunkFrames ==
    ASSUME NEW s \in Seq(Symbols), NEW k \in Nat, NEW left \in Nat, NEW rest \in {0, 1, 4},
           Chunks(s, k, left, rest),
           NEW N \in Nat, N = IF rest = 4 THEN left + 1 ELSE left
    PROVE  Framed(s, N)
<1>a. \A i \in 1 .. left : FrameAt(s, i, "chunk", k + i)
  BY DEF Chunks
<1>b. \A i \in 1 .. left : /\ s[3 * i - 2].line = "event"
                           /\ s[3 * i - 1].line = "break" /\ s[3 * i].line = "break"
  <2>1. ASSUME NEW i \in 1 .. left
        PROVE  /\ s[3 * i - 2].line = "event"
               /\ s[3 * i - 1].line = "break" /\ s[3 * i].line = "break"
    <3>1. FrameAt(s, i, "chunk", k + i)
      BY <1>a
    <3> QED
      BY ONLY <3>1, FrameLines
  <2> QED
    BY <2>1
<1>1. CASE rest = 0
  BY <1>1, <1>b DEF Chunks, Framed
<1>2. CASE rest = 1
  <2>1. Len(s) = 3 * N + 1 /\ s[Len(s)] \in {Mark("status"), Mark("end"), Mark("cut")} /\ N = left
    BY <1>2 DEF Chunks
  <2>2. s[Len(s)].line \notin {"event", "break"}
    BY <2>1, MarkLine
  <2> QED
    BY <2>1, <2>2, <1>b DEF Framed
<1>3. CASE rest = 4
  <2>1. Len(s) = 3 * left + 4 /\ s[Len(s)] = Mark("end") /\ N = left + 1
    BY <1>3 DEF Chunks
  <2>2. Len(s) = 3 * N + 1
    BY ONLY <2>1, left \in Nat
  <2>3. s[Len(s)].line \notin {"event", "break"}
    BY <2>1, MarkLine
  <2>4. PICK type \in {"done", "error"} : FrameAt(s, left + 1, type, 0)
    BY <1>3 DEF Chunks
  <2>5. /\ s[3 * (left + 1) - 2].line = "event"
        /\ s[3 * (left + 1) - 1].line = "break" /\ s[3 * (left + 1)].line = "break"
    BY <2>4, FrameLines
  <2>6. \A j \in 1 .. N : j \in 1 .. left \/ j = left + 1
    BY <2>1
  <2> QED
    BY <2>2, <2>3, <2>5, <2>6, <1>b DEF Framed
<1> QED
  BY <1>1, <1>2, <1>3

\* What the events of a piece show of the chunks from k + 1 on, and what is left.
Leaves(events, t, k, left, rest) ==
    \E n \in 0 .. left :
        /\ Pieces(events) = [j \in 1 .. n |-> k + j]
        /\ \/ /\ ~Holds(events, "done") /\ ~Holds(events, "error")
              /\ Chunks(t, k + n, left - n, rest)
           \/ rest = 4 /\ n = left /\ t = <<Mark("end")>>

\* The events of a piece are the next chunks, or the last ones and the terminal event.
LEMMA ChunksCut ==
    ASSUME NEW s \in Seq(Symbols), NEW k \in Nat, NEW left \in Nat, NEW rest \in {0, 1, 4},
           Chunks(s, k, left, rest),
           NEW c \in Nat, c <= left \/ (rest = 4 /\ c = left + 1),
           NEW events, NEW t, CutAfter(s, c, events, t)
    PROVE  Leaves(events, t, k, left, rest)
<1>0. events = [j \in 1 .. c |-> s[3 * j - 2]] /\ t = SubSeq(s, 3 * c + 1, Len(s))
  BY DEF CutAfter
<1>1. /\ Len(s) = 3 * left + rest
      /\ \A i \in 1 .. left : FrameAt(s, i, "chunk", k + i)
      /\ rest = 1 => s[Len(s)] \in {Mark("status"), Mark("end"), Mark("cut")}
      /\ rest = 4 => /\ \E type \in {"done", "error"} : FrameAt(s, left + 1, type, 0)
                     /\ s[Len(s)] = Mark("end")
  BY DEF Chunks
<1>2. 3 * c \in Nat /\ 3 * c <= Len(s)
  BY <1>1
<1>3. /\ t \in Seq(Symbols) /\ Len(t) = Len(s) - 3 * c
      /\ \A j \in 1 .. Len(s) - 3 * c : t[j] = s[3 * c + j]
  <2> DEFINE l == 3 * c
  <2>1. l \in Nat /\ l <= Len(s)
    BY <1>2
  <2> HIDE DEF l
  <2>2. /\ SubSeq(s, l + 1, Len(s)) \in Seq(Symbols)
        /\ Len(SubSeq(s, l + 1, Len(s))) = Len(s) - l
        /\ \A j \in 1 .. Len(s) - l : SubSeq(s, l + 1, Len(s))[j] = s[l + j]
    BY ONLY s \in Seq(Symbols), <2>1, Suffix
  <2> QED
    BY <1>0, <2>2 DEF l
<1>4. CASE c <= left
  <2>1. c \in 0 .. left
    BY <1>4
  <2>2. \A j \in 1 .. c : events[j].type = "chunk" /\ events[j].text = k + j
    <3>1. ASSUME NEW j \in 1 .. c PROVE events[j].type = "chunk" /\ events[j].text = k + j
      <4>1. FrameAt(s, j, "chunk", k + j)
        BY <1>1, <2>1
      <4>2. events[j] = s[3 * j - 2]
        BY <1>0
      <4> QED
        BY <4>1, <4>2 DEF FrameAt
    <3> QED
      BY <3>1
  <2>3. DOMAIN events = 1 .. c
    BY <1>0
  <2>4. Pieces(events) = [j \in 1 .. c |-> k + j]
    <3>1. c \in 0 .. c /\ \A j \in c + 1 .. c : events[j].type # "chunk"
      OBVIOUS
    <3>2. ChunksFirst(events, c, c, k)
      BY <2>2, <2>3, <3>1 DEF ChunksFirst
    <3> QED
      BY <3>1, <3>2, PiecesOf
  <2>5. ~Holds(events, "done") /\ ~Holds(events, "error")
    BY <2>2, <2>3 DEF Holds
  <2>6. ASSUME NEW j \in Nat, j >= 1, 3 * (c + j) <= Len(s)
        PROVE  /\ t[3 * j - 2] = s[3 * (c + j) - 2]
               /\ t[3 * j - 1] = s[3 * (c + j) - 1]
               /\ t[3 * j] = s[3 * (c + j)]
    <3>1. /\ 3 * j - 2 \in 1 .. Len(s) - 3 * c /\ 3 * j - 1 \in 1 .. Len(s) - 3 * c
          /\ 3 * j \in 1 .. Len(s) - 3 * c
      BY <2>6, <1>2
    <3>2. /\ 3 * c + (3 * j - 2) = 3 * (c + j) - 2 /\ 3 * c + (3 * j - 1) = 3 * (c + j) - 1
          /\ 3 * c + 3 * j = 3 * (c + j)
      OBVIOUS
    <3> QED
      BY <1>3, <3>1, <3>2
  <2>7. ASSUME NEW j \in 1 .. left - c PROVE FrameAt(t, j, "chunk", (k + c) + j)
    <3>1. c + j \in 1 .. left /\ (k + c) + j = k + (c + j) /\ j \in Nat /\ j >= 1 /\ 3 * (c + j) <= Len(s)
      BY <1>1, <2>1
    <3>2. FrameAt(s, c + j, "chunk", k + (c + j))
      BY <1>1, <3>1
    <3> QED
      BY <2>6, <3>1, <3>2 DEF FrameAt
  <2>8. ASSUME rest # 0 PROVE t[Len(t)] = s[Len(s)]
    <3>1. Len(t) \in 1 .. Len(s) - 3 * c /\ 3 * c + Len(t) = Len(s)
      BY <1>1, <1>2, <1>3, <2>1, <2>8
    <3> QED
      BY <1>3, <3>1
  <2>9. ASSUME rest = 4 PROVE \E type \in {"done", "error"} : FrameAt(t, (left - c) + 1, type, 0)
    <3>1. PICK type \in {"done", "error"} : FrameAt(s, left + 1, type, 0)
      BY <1>1, <2>9
    <3>2. (left - c) + 1 \in Nat /\ (left - c) + 1 >= 1 /\ c + ((left - c) + 1) = left + 1 /\ 3 * (left + 1) <= Len(s)
      BY <1>1, <2>1, <2>9
    <3>3. FrameAt(t, (left - c) + 1, type, 0)
      BY <2>6, <3>1, <3>2 DEF FrameAt
    <3> QED
      BY <3>3
  <2>10. Len(t) = 3 * (left - c) + rest
    BY <1>1, <1>3, <2>1
  <2>11. Chunks(t, k + c, left - c, rest)
    BY <1>1, <2>7, <2>8, <2>9, <2>10 DEF Chunks
  <2> QED
    BY <2>1, <2>4, <2>5, <2>11 DEF Leaves
<1>5. CASE c = left + 1
  <2>1. rest = 4
    BY <1>5
  <2>2. \A j \in 1 .. left : events[j].type = "chunk" /\ events[j].text = k + j
    <3>1. ASSUME NEW j \in 1 .. left PROVE events[j].type = "chunk" /\ events[j].text = k + j
      <4>1. FrameAt(s, j, "chunk", k + j)
        BY <1>1
      <4>2. events[j] = s[3 * j - 2]
        BY <1>0, <1>5
      <4> QED
        BY <4>1, <4>2 DEF FrameAt
    <3> QED
      BY <3>1
  <2>3. events[left + 1].type \in {"done", "error"}
    <3>1. PICK type \in {"done", "error"} : FrameAt(s, left + 1, type, 0)
      BY <1>1, <2>1
    <3>2. events[left + 1] = s[3 * (left + 1) - 2]
      BY <1>0, <1>5
    <3> QED
      BY <3>1, <3>2 DEF FrameAt
  <2>4. DOMAIN events = 1 .. c /\ left \in 0 .. c /\ \A j \in left + 1 .. c : j = left + 1
    BY <1>0, <1>5
  <2>5. Pieces(events) = [j \in 1 .. left |-> k + j]
    <3>1. \A j \in left + 1 .. c : events[j].type # "chunk"
      BY <2>3, <2>4
    <3>2. left \in 0 .. c
      BY <2>4
    <3>3. ChunksFirst(events, c, left, k)
      BY <2>2, <2>4, <3>1 DEF ChunksFirst
    <3> QED
      BY <3>2, <3>3, PiecesOf
  <2>6. t = <<Mark("end")>>
    <3>1. Len(s) - 3 * c = 1 /\ 3 * c + 1 = Len(s)
      BY <1>1, <1>5, <2>1
    <3>2. Len(t) = 1 /\ t[1] = Mark("end")
      BY <1>1, <1>3, <2>1, <3>1
    <3> QED
      BY <1>3, <3>2, Single
  <2>7. left \in 0 .. left
    OBVIOUS
  <2> QED
    BY <2>1, <2>5, <2>6, <2>7 DEF Leaves
<1> QED
  BY <1>4, <1>5

ReadersTyped ==
    /\ buffer \in [Asks -> Seq(Symbols)] /\ wire \in [Asks -> Seq(Symbols)]
    /\ chunks \in [Asks -> 0 .. MaxChunks] /\ stage \in [Asks -> Stages]
    /\ sawDone \in [Asks -> BOOLEAN] /\ streamed \in [Asks -> BOOLEAN]

\* What Read does to the panel and to what remains of the response.
LEMMA ReadShows ==
    ASSUME ReadersTyped, NEW a \in Asks, NEW k \in 0 .. chunks[a],
           Remains(a, Unread(a), k), Read(a)
    PROVE  /\ ~sawDone[a]
           /\ buffer' \in [Asks -> Seq(Symbols)] /\ wire' \in [Asks -> Seq(Symbols)]
           /\ \E n \in 0 .. chunks[a] - k :
                /\ answer' = answer \o [j \in 1 .. n |-> [ask |-> a, text |-> k + j]]
                /\ Remains(a, Unread(a), k + n)'
                /\ sawDone'[a] => k + n = chunks[a] /\ sources' = a /\ status' = ""
<1> DEFINE s == Unread(a)
<1> DEFINE left == chunks[a] - k
<1>1. /\ buffer[a] \in Seq(Symbols) /\ wire[a] \in Seq(Symbols) /\ s = buffer[a] \o wire[a]
      /\ s \in Seq(Symbols)
  <2>1. buffer[a] \in Seq(Symbols) /\ wire[a] \in Seq(Symbols) /\ s = buffer[a] \o wire[a]
    BY DEF ReadersTyped, Unread
  <2> QED
    BY <2>1, Concat
<1>2. /\ chunks[a] \in Nat /\ k \in Nat /\ left \in Nat /\ k <= chunks[a] /\ left = chunks[a] - k
  <2>1. chunks[a] \in 0 .. MaxChunks /\ MaxChunks \in Nat
    BY PublicAssumption DEF ReadersTyped
  <2> QED
    BY <2>1
<1>3. PICK rest \in {0, 1, 4} :
        /\ Chunks(s, k, left, rest)
        /\ rest = 0 <=> stage[a] # "closed"
        /\ sawDone[a] => rest = 1 /\ s = <<Mark("end")>>
  BY DEF Remains
<1> HIDE DEF s, left
<1>4. PICK i \in 1 .. Len(wire[a]) :
        /\ \A j \in 1 .. i : wire[a][j].line \in {"event", "break"}
        /\ Take(a, i)
        /\ Show(a, Events(buffer[a] \o SubSeq(wire[a], 1, i)))
        /\ buffer' = [buffer EXCEPT ![a] = Remainder(buffer[a] \o SubSeq(wire[a], 1, i))]
  BY DEF Read
<1> DEFINE N == IF rest = 4 THEN left + 1 ELSE left
<1>5. N \in Nat /\ N = IF rest = 4 THEN left + 1 ELSE left
  BY <1>2
<1> HIDE DEF N
<1>6. Framed(s, N)
  BY <1>1, <1>2, <1>3, <1>5, ChunkFrames
<1> DEFINE text == buffer[a] \o SubSeq(wire[a], 1, i)
<1> DEFINE events == Events(text)
<1> DEFINE u == Remainder(text)
<1> DEFINE v == SubSeq(wire[a], i + 1, Len(wire[a]))
<1>p. /\ N # 0 /\ u \in Seq(Symbols) /\ v \in Seq(Symbols)
      /\ \E c \in 0 .. N : CutAfter(s, c, events, u \o v)
  <2>1. text = buffer[a] \o SubSeq(wire[a], 1, i) /\ v = SubSeq(wire[a], i + 1, Len(wire[a]))
    OBVIOUS
  <2> HIDE DEF text, v
  <2> QED
    BY <1>1, <1>4, <1>5, <1>6, <2>1, PieceParsed
<1>7. PICK c \in 0 .. N : CutAfter(s, c, events, u \o v)
  BY <1>p
<1>8. ~sawDone[a]
  <2>1. ASSUME sawDone[a] PROVE FALSE
    <3>1. rest = 1 /\ s = <<Mark("end")>>
      BY <1>3, <2>1
    <3>2. Len(s) = 1
      BY <3>1
    <3>3. left = 0
      BY <1>2, <1>3, <3>1, <3>2 DEF Chunks
    <3> QED
      BY <1>5, <1>p, <3>1, <3>3
  <2> QED
    BY <2>1
<1>9. /\ wire' = [wire EXCEPT ![a] = v] /\ buffer' = [buffer EXCEPT ![a] = u]
      /\ UNCHANGED <<chunks, stage>>
  BY <1>4 DEF Take, Read, ServerIdle
<1> HIDE DEF text
<1>10. /\ buffer' \in [Asks -> Seq(Symbols)] /\ wire' \in [Asks -> Seq(Symbols)]
       /\ Unread(a)' = u \o v
  <2> HIDE DEF u, v, events
  <2>1. buffer' \in [Asks -> Seq(Symbols)] /\ wire' \in [Asks -> Seq(Symbols)]
    BY <1>p, <1>9 DEF ReadersTyped
  <2>2. buffer'[a] = u /\ wire'[a] = v
    BY <1>9 DEF ReadersTyped
  <2> QED
    BY <2>1, <2>2 DEF Unread
<1>11. c \in Nat /\ (c <= left \/ (rest = 4 /\ c = left + 1))
  BY <1>2, <1>5
<1> HIDE DEF u, v, events
<1>12. PICK n \in 0 .. left :
              /\ Pieces(events) = [j \in 1 .. n |-> k + j]
              /\ \/ /\ ~Holds(events, "done") /\ ~Holds(events, "error")
                    /\ Chunks(u \o v, k + n, left - n, rest)
                 \/ rest = 4 /\ n = left /\ u \o v = <<Mark("end")>>
  <2>1. Leaves(events, u \o v, k, left, rest)
    BY <1>1, <1>2, <1>3, <1>7, <1>11, ChunksCut
  <2> QED
    BY <2>1, Zenon DEF Leaves
<1>13. n \in 0 .. chunks[a] - k /\ n \in Nat /\ n <= left
       /\ chunks[a] - (k + n) = left - n
  BY <1>2
<1>14. /\ answer' = answer \o [j \in DOMAIN Pieces(events) |-> [ask |-> a, text |-> Pieces(events)[j]]]
       /\ sawDone' = [sawDone EXCEPT ![a] = @ \/ Holds(events, "done")]
       /\ Holds(events, "done") => sources' = a /\ status' = ""
  BY <1>4 DEF Show, events, text
<1>15. answer' = answer \o [j \in 1 .. n |-> [ask |-> a, text |-> k + j]]
  <2>1. [j \in DOMAIN Pieces(events) |-> [ask |-> a, text |-> Pieces(events)[j]]]
          = [j \in 1 .. n |-> [ask |-> a, text |-> k + j]]
    BY <1>12
  <2> QED
    BY <1>14, <2>1
<1>16. sawDone'[a] = Holds(events, "done")
  BY <1>8, <1>14 DEF ReadersTyped, Holds
<1>17. CASE /\ ~Holds(events, "done") /\ ~Holds(events, "error")
            /\ Chunks(u \o v, k + n, left - n, rest)
  <2>1. Remains(a, Unread(a), k + n)'
    <3>1. Chunks(Unread(a)', k + n, chunks'[a] - (k + n), rest)
      BY <1>9, <1>10, <1>13, <1>17
    <3>2. rest = 0 <=> stage'[a] # "closed"
      BY <1>3, <1>9
    <3> QED
      BY <1>16, <1>17, <3>1, <3>2 DEF Remains
  <2> QED
    BY <1>8, <1>10, <1>13, <1>15, <1>16, <1>17, <2>1
<1>18. CASE rest = 4 /\ n = left /\ u \o v = <<Mark("end")>>
  <2>1. Remains(a, Unread(a), k + n)'
    <3>1. Chunks(<<Mark("end")>>, k + n, 0, 1)
      BY DEF Chunks
    <3>2. chunks'[a] - (k + n) = 0
      BY <1>2, <1>9, <1>13, <1>18
    <3>3. stage'[a] = "closed"
      BY <1>3, <1>9, <1>18
    <3>4. /\ Chunks(Unread(a)', k + n, chunks'[a] - (k + n), 1)
          /\ 1 = 0 <=> stage'[a] # "closed"
          /\ Unread(a)' = <<Mark("end")>>
      BY <1>10, <1>18, <3>1, <3>2, <3>3
    <3> QED
      BY <3>4 DEF Remains
  <2>2. k + n = chunks[a]
    BY <1>2, <1>18
  <2> QED
    BY <1>8, <1>10, <1>13, <1>14, <1>15, <1>16, <2>1, <2>2
<1> QED
  BY <1>12, <1>17, <1>18

-----------------------------------------------------------------------------
(* What the server writes.                                                 *)

LEMMA MarksTyped == \A line \in {"break", "status", "end", "cut"} : Mark(line) \in Symbols
BY PublicAssumption DEF Mark, Symbols

\* The server closes a response without an event ...
LEMMA ChunksEnd ==
    ASSUME NEW s \in Seq(Symbols), NEW k \in Nat, NEW left \in Nat, Chunks(s, k, left, 0),
           NEW line \in {"status", "end", "cut"}
    PROVE  Chunks(s \o <<Mark(line)>>, k, left, 1)
<1> DEFINE e == <<Mark(line)>>
<1>1. Len(s) = 3 * left /\ \A i \in 1 .. left : FrameAt(s, i, "chunk", k + i)
  BY DEF Chunks
<1>2. e \in Seq(Symbols) /\ Len(e) = 1 /\ e[1] = Mark(line)
  BY MarksTyped
<1> HIDE DEF e
<1>3. /\ Len(s \o e) = Len(s) + 1
      /\ \A j \in 1 .. Len(s) : (s \o e)[j] = s[j]
      /\ (s \o e)[Len(s) + 1] = Mark(line)
  <2>1. /\ Len(s \o e) = Len(s) + Len(e)
        /\ \A j \in 1 .. Len(s) : (s \o e)[j] = s[j]
        /\ \A j \in 1 .. Len(e) : (s \o e)[Len(s) + j] = e[j]
    <3>1. s \in Seq(Symbols) /\ e \in Seq(Symbols)
      BY <1>2
    <3> QED
      BY ONLY <3>1, Concat
  <2>2. 1 \in 1 .. Len(e)
    BY <1>2
  <2> QED
    BY <1>2, <2>1, <2>2
<1>4. ASSUME NEW i \in 1 .. left PROVE FrameAt(s \o e, i, "chunk", k + i)
  <2>1. 3 * i \in 1 .. Len(s) /\ 3 * i - 1 \in 1 .. Len(s) /\ 3 * i - 2 \in 1 .. Len(s)
    BY <1>1
  <2> QED
    BY <1>1, <1>3, <2>1 DEF FrameAt
<1>5. (s \o e)[Len(s \o e)] \in {Mark("status"), Mark("end"), Mark("cut")}
  BY <1>3
<1>6. Chunks(s \o e, k, left, 1)
  BY <1>1, <1>3, <1>4, <1>5 DEF Chunks
<1> QED
  BY <1>6 DEF e

\* ... or appends a frame.
LEMMA ChunksMore ==
    ASSUME NEW s \in Seq(Symbols), NEW k \in Nat, NEW left \in Nat, Chunks(s, k, left, 0),
           NEW f \in Seq(Symbols), Len(f) >= 3, NEW type, NEW text, FrameAt(f, 1, type, text)
    PROVE  /\ Len(s \o f) = 3 * left + Len(f)
           /\ \A i \in 1 .. left : FrameAt(s \o f, i, "chunk", k + i)
           /\ FrameAt(s \o f, left + 1, type, text)
           /\ (s \o f)[Len(s \o f)] = f[Len(f)]
<1>1. Len(s) = 3 * left /\ \A i \in 1 .. left : FrameAt(s, i, "chunk", k + i)
  BY DEF Chunks
<1>3. /\ Len(s \o f) = Len(s) + Len(f)
      /\ \A j \in 1 .. Len(s) : (s \o f)[j] = s[j]
      /\ \A j \in 1 .. Len(f) : (s \o f)[Len(s) + j] = f[j]
  BY Concat
<1>4. ASSUME NEW i \in 1 .. left PROVE FrameAt(s \o f, i, "chunk", k + i)
  <2>1. 3 * i \in 1 .. Len(s) /\ 3 * i - 1 \in 1 .. Len(s) /\ 3 * i - 2 \in 1 .. Len(s)
    BY <1>1
  <2> QED
    BY <1>1, <1>3, <2>1 DEF FrameAt
<1>5. FrameAt(s \o f, left + 1, type, text)
  <2>1. /\ 3 * (left + 1) = Len(s) + 3 /\ 3 * (left + 1) - 1 = Len(s) + 2
        /\ 3 * (left + 1) - 2 = Len(s) + 1
    BY <1>1
  <2>2. (s \o f)[Len(s) + 1] = f[1] /\ (s \o f)[Len(s) + 2] = f[2] /\ (s \o f)[Len(s) + 3] = f[3]
    BY <1>3
  <2>3. f[1] = [line |-> "event", type |-> type, text |-> text] /\ f[2] = Mark("break") /\ f[3] = Mark("break")
    <3>1. 3 * 1 - 2 = 1 /\ 3 * 1 - 1 = 2 /\ 3 * 1 = 3
      OBVIOUS
    <3> QED
      BY <3>1 DEF FrameAt
  <2> QED
    BY <2>1, <2>2, <2>3 DEF FrameAt
<1>6. (s \o f)[Len(s \o f)] = f[Len(f)]
  BY <1>3
<1> QED
  BY <1>1, <1>3, <1>4, <1>5, <1>6

LEMMA FrameTyped ==
    ASSUME NEW type \in {"chunk", "done", "error"}, NEW text \in 0 .. MaxChunks
    PROVE  /\ Frame(type, text) \in Seq(Symbols) /\ Len(Frame(type, text)) = 3
           /\ FrameAt(Frame(type, text), 1, type, text)
<1>1. [line |-> "event", type |-> type, text |-> text] \in Symbols /\ Mark("break") \in Symbols
  BY MarksTyped DEF Symbols
<1>2. 3 * 1 - 2 = 1 /\ 3 * 1 - 1 = 2 /\ 3 * 1 = 3
  OBVIOUS
<1> QED
  BY <1>1, <1>2 DEF Frame, FrameAt

\* What the steps of the server do to the response of one ask.
ServerWrote(a) ==
    \/ UNCHANGED <<stage[a], wire[a], chunks[a]>>
    \/ /\ stage[a] \in {"lookup", "project", "count"} /\ stage'[a] \notin {"unsent", "closed"}
       /\ UNCHANGED <<wire[a], chunks[a]>>
    \/ /\ stage[a] \notin {"unsent", "closed"} /\ stage'[a] = "closed" /\ chunks'[a] = chunks[a]
       /\ \/ \E line \in {"status", "cut"} : wire'[a] = wire[a] \o <<Mark(line)>>
          \/ \E type \in {"done", "error"} : wire'[a] = wire[a] \o (Frame(type, 0) \o <<Mark("end")>>)
    \/ /\ stage[a] = "stream" /\ stage'[a] = "stream" /\ chunks'[a] = chunks[a] + 1
       /\ chunks[a] < MaxChunks
       /\ wire'[a] = wire[a] \o Frame("chunk", chunks[a] + 1)

LEMMA ServerWrites ==
    ASSUME HandlersTyped, ServerStep, NEW a \in Asks
    PROVE  ServerWrote(a)
<1> USE DEF HandlersTyped
<1>1. ASSUME UNCHANGED askVars PROVE ServerWrote(a)
  BY <1>1 DEF askVars, ServerWrote
<1>2. ASSUME NEW b \in Asks, HandlerStep(b) PROVE ServerWrote(a)
  <2>r. ASSUME Refuse(b), stage[b] \in {"lookup", "project", "count"}, UNCHANGED chunks
        PROVE  ServerWrote(a)
    BY <2>r DEF Refuse, Goto, Write, ServerWrote
  <2>g. ASSUME NEW s \in {"project", "count", "stream"}, Goto(b, s),
               stage[b] \in {"lookup", "project", "count"}, UNCHANGED <<wire, chunks>>
        PROVE  ServerWrote(a)
    BY <2>g DEF Goto, ServerWrote
  <2>1. CASE LookUpSite(b)
    BY <2>1, <2>r, <2>g DEF LookUpSite
  <2>2. CASE RejectQuestion(b) \/ QueryFails(b)
    BY <2>2, <2>r DEF RejectQuestion, QueryFails
  <2>3. CASE ResolveProject(b)
    BY <2>3, <2>r, <2>g DEF ResolveProject
  <2>4. CASE CountAsk(b)
    BY <2>4, <2>r, <2>g DEF CountAsk
  <2>5. CASE StreamChunk(b)
    BY <2>5, PublicAssumption DEF StreamChunk, Write, ServerWrote
  <2>6. CASE StreamEnds(b)
    BY <2>6 DEF StreamEnds, Write, Goto, ServerWrote
  <2> QED
    BY <1>2, <2>1, <2>2, <2>3, <2>4, <2>5, <2>6 DEF HandlerStep
<1>3. ASSUME NEW asks, Cut(asks), \A b \in Asks : b \in asks => stage[b] \notin {"unsent", "closed"}
      PROVE  ServerWrote(a)
  <2>1. CASE a \in asks
    <3>1. Append(wire[a], Mark("cut")) = wire[a] \o <<Mark("cut")>>
      BY MarksTyped, AppendIsConcat
    <3> QED
      BY <1>3, <2>1, <3>1 DEF Cut, ServerWrote
  <2>2. CASE a \notin asks
    BY <1>3, <2>2 DEF Cut, ServerWrote
  <2> QED
    BY <2>1, <2>2
<1>4. ASSUME NEW b \in Asks, ConnectionLost(b) PROVE ServerWrote(a)
  BY <1>3, <1>4 DEF ConnectionLost
<1>5. ASSUME NEW n \in Nodes, NodeRestarts(n) PROVE ServerWrote(a)
  BY <1>3, <1>5 DEF NodeRestarts, Open
<1>6. ASSUME NEW n \in Nodes, NEW b \in Buckets, WindowEnds(n, b) PROVE ServerWrote(a)
  BY <1>1, <1>6 DEF WindowEnds
<1>7. ASSUME NEW n \in Nodes, NEW i \in Addresses, NEW k \in Keys, FetchConfig(n, i, k) PROVE ServerWrote(a)
  BY <1>1, <1>7 DEF FetchConfig
<1>8. ASSUME AdminStep \/ MonthTurns \/ (\E o \in Organizations : DeleteOrganization(o)) PROVE ServerWrote(a)
  BY <1>1, <1>8 DEF AdminStep, MonthTurns, DeleteOrganization
<1> QED
  BY <1>2, <1>4, <1>5, <1>6, <1>7, <1>8 DEF ServerStep

-----------------------------------------------------------------------------
(* The inductive invariant of the page.                                    *)

WidgetTyped ==
    /\ reading \in [Asks -> {"idle", "reading", "over"}]
    /\ \A a \in Asks : reading[a] = "idle" <=> stage[a] = "unsent"
    /\ buffer \in [Asks -> Seq(Symbols)]
    /\ sawDone \in [Asks -> BOOLEAN] /\ streamed \in [Asks -> BOOLEAN]
    /\ answer \in Seq([ask : Asks, text : 1 .. MaxChunks])
    /\ status \in {"", "Thinking..."}
    /\ sources \in Asks \cup {None} /\ errors \in Seq(Asks)
    /\ latest \in Asks \cup {None} /\ overlapped \subseteq Asks

WidgetInv == PublicInv /\ WidgetTyped /\ ReadersFollow /\ LatestIsAlone /\ PanelFollows

LEMMA Typed ==
    ASSUME WidgetInv
    PROVE  HandlersTyped /\ WidgetTyped /\ ReadersTyped
BY DEF WidgetInv, PublicInv, HandlersTyped, WidgetTyped, ReadersTyped

LEMMA ConcatTwice ==
    ASSUME NEW S, NEW s \in Seq(S), NEW t \in Seq(S), NEW u \in Seq(S)
    PROVE  s \o (t \o u) = (s \o t) \o u
BY ConcatAssociative

\* A response that is not closed is whole frames.
LEMMA OpenIsFrames ==
    ASSUME NEW s, NEW k \in Nat, NEW left \in Nat, Chunks(s, k, left, 0),
           NEW p \in 1 .. Len(s)
    PROVE  s[p].line \in {"event", "break"}
<1>1. Len(s) = 3 * left /\ \A i \in 1 .. left : FrameAt(s, i, "chunk", k + i)
  BY DEF Chunks
<1>2. ASSUME NEW i \in 1 .. left
      PROVE  s[3 * i - 2].line = "event" /\ s[3 * i - 1].line = "break" /\ s[3 * i].line = "break"
  <2>1. FrameAt(s, i, "chunk", k + i)
    BY <1>1
  <2> QED
    BY ONLY <2>1, FrameLines
<1>3. p \in Nat
  BY <1>1
<1>4. PICK i \in Nat : 3 * i <= p /\ p <= 3 * i + 2
  BY <1>3, Thirds
<1>5. CASE p = 3 * i
  <2>1. i \in 1 .. left
    BY <1>1, <1>5
  <2> QED
    BY <1>2, <1>5, <2>1
<1>6. CASE p = 3 * i + 1
  <2>1. i + 1 \in 1 .. left /\ 3 * (i + 1) - 2 = p
    BY <1>1, <1>6
  <2> QED
    BY <1>2, <2>1
<1>7. CASE p = 3 * i + 2
  <2>1. i + 1 \in 1 .. left /\ 3 * (i + 1) - 1 = p
    BY <1>1, <1>7
  <2> QED
    BY <1>2, <2>1
<1> QED
  BY <1>3, <1>4, <1>5, <1>6, <1>7

\* What remains of a response, when the server writes.
LEMMA ServerKeeps ==
    ASSUME ReadersTyped, NEW a \in Asks, NEW k \in 0 .. chunks[a], Remains(a, Unread(a), k),
           ServerWrote(a), UNCHANGED <<buffer, sawDone>>, wire' \in [Asks -> Seq(Symbols)]
    PROVE  k \in 0 .. chunks'[a] /\ Remains(a, Unread(a), k)'
<1> DEFINE s == Unread(a)
           left == chunks[a] - k
<1>1. /\ buffer[a] \in Seq(Symbols) /\ wire[a] \in Seq(Symbols) /\ s = buffer[a] \o wire[a]
      /\ s \in Seq(Symbols)
  <2>1. buffer[a] \in Seq(Symbols) /\ wire[a] \in Seq(Symbols) /\ s = buffer[a] \o wire[a]
    BY DEF ReadersTyped, Unread
  <2> QED
    BY <2>1, Concat
<1>2. chunks[a] \in Nat /\ k \in Nat /\ left \in Nat /\ k <= chunks[a] /\ left = chunks[a] - k
  <2>1. chunks[a] \in 0 .. MaxChunks /\ MaxChunks \in Nat
    BY PublicAssumption DEF ReadersTyped
  <2> QED
    BY <2>1
<1>3. PICK rest \in {0, 1, 4} :
        /\ Chunks(s, k, left, rest)
        /\ rest = 0 <=> stage[a] # "closed"
        /\ sawDone[a] => rest = 1 /\ s = <<Mark("end")>>
  BY DEF Remains
<1>4. Unread(a)' = buffer[a] \o wire'[a]
  BY DEF Unread
<1> HIDE DEF s, left
<1>5. ASSUME wire'[a] = wire[a], chunks'[a] = chunks[a], stage'[a] = "closed" <=> stage[a] = "closed"
      PROVE  k \in 0 .. chunks'[a] /\ Remains(a, Unread(a), k)'
  <2>1. Unread(a)' = s
    BY <1>1, <1>4, <1>5
  <2>2. Chunks(Unread(a)', k, chunks'[a] - k, rest)
    BY <1>2, <1>3, <1>5, <2>1
  <2>3. sawDone'[a] => rest = 1 /\ Unread(a)' = <<Mark("end")>>
    BY <1>3, <2>1
  <2> QED
    BY <1>3, <1>5, <2>2, <2>3 DEF Remains
<1>6. ASSUME stage[a] # "closed", NEW x \in Seq(Symbols), wire'[a] = wire[a] \o x
      PROVE  rest = 0 /\ ~sawDone[a] /\ Chunks(s, k, left, 0) /\ Unread(a)' = s \o x
  <2>1. rest = 0 /\ ~sawDone[a] /\ Chunks(s, k, left, 0)
    BY <1>3, <1>6
  <2>2. Unread(a)' = buffer[a] \o (wire[a] \o x)
    BY <1>4, <1>6
  <2>3. buffer[a] \o (wire[a] \o x) = (buffer[a] \o wire[a]) \o x
    <3> DEFINE b == buffer[a]
               w == wire[a]
    <3>1. b \in Seq(Symbols) /\ w \in Seq(Symbols) /\ x \in Seq(Symbols)
      BY <1>1, <1>6
    <3> HIDE DEF b, w
    <3>2. b \o (w \o x) = (b \o w) \o x
      BY ONLY <3>1, ConcatTwice
    <3> QED
      BY <3>2 DEF b, w
  <2> QED
    BY <1>1, <2>1, <2>2, <2>3
<1>7. CASE UNCHANGED <<stage[a], wire[a], chunks[a]>>
  BY <1>5, <1>7
<1>8. CASE /\ stage[a] \in {"lookup", "project", "count"} /\ stage'[a] \notin {"unsent", "closed"}
           /\ UNCHANGED <<wire[a], chunks[a]>>
  BY <1>5, <1>8
<1>9. CASE /\ stage[a] \notin {"unsent", "closed"} /\ stage'[a] = "closed" /\ chunks'[a] = chunks[a]
           /\ \/ \E line \in {"status", "cut"} : wire'[a] = wire[a] \o <<Mark(line)>>
              \/ \E type \in {"done", "error"} : wire'[a] = wire[a] \o (Frame(type, 0) \o <<Mark("end")>>)
  <2>1. ASSUME NEW line \in {"status", "cut"}, wire'[a] = wire[a] \o <<Mark(line)>>
        PROVE  k \in 0 .. chunks'[a] /\ Remains(a, Unread(a), k)'
    <3>1. <<Mark(line)>> \in Seq(Symbols)
      BY MarksTyped
    <3>2. ~sawDone[a] /\ Chunks(s, k, left, 0) /\ Unread(a)' = s \o <<Mark(line)>>
      BY <1>6, <1>9, <2>1, <3>1
    <3>3. Chunks(Unread(a)', k, chunks'[a] - k, 1)
      BY <1>1, <1>2, <1>9, <3>2, ChunksEnd
    <3>4. ~sawDone'[a] /\ stage'[a] = "closed" /\ chunks'[a] = chunks[a]
      BY <1>9, <3>2
    <3> QED
      BY <3>3, <3>4 DEF Remains
  <2>2. ASSUME NEW type \in {"done", "error"},
               wire'[a] = wire[a] \o (Frame(type, 0) \o <<Mark("end")>>)
        PROVE  k \in 0 .. chunks'[a] /\ Remains(a, Unread(a), k)'
    <3> DEFINE e == <<Mark("end")>>
    <3> DEFINE f == Frame(type, 0)
    <3> DEFINE x == f \o e
    <3>1. e \in Seq(Symbols) /\ Len(e) = 1 /\ e[1] = Mark("end")
      BY MarksTyped
    <3>2. f \in Seq(Symbols) /\ Len(f) = 3 /\ FrameAt(f, 1, type, 0)
      BY FrameTyped, PublicAssumption
    <3>3. wire'[a] = wire[a] \o x
      BY <2>2
    <3> HIDE DEF e, f
    <3>4. /\ x \in Seq(Symbols) /\ Len(x) = 4
          /\ x[1] = f[1] /\ x[2] = f[2] /\ x[3] = f[3] /\ x[4] = e[1]
      <4>1. /\ x \in Seq(Symbols) /\ Len(x) = Len(f) + Len(e)
            /\ \A j \in 1 .. Len(f) : x[j] = f[j]
            /\ \A j \in 1 .. Len(e) : x[Len(f) + j] = e[j]
        <5>1. f \in Seq(Symbols) /\ e \in Seq(Symbols)
          BY <3>1, <3>2
        <5> QED
          BY ONLY <5>1, Concat
      <4> HIDE DEF x
      <4>2. 1 \in 1 .. Len(f) /\ 2 \in 1 .. Len(f) /\ 3 \in 1 .. Len(f) /\ 1 \in 1 .. Len(e)
            /\ Len(f) + 1 = 4
        BY <3>1, <3>2
      <4>3. x[1] = f[1] /\ x[2] = f[2] /\ x[3] = f[3] /\ x[Len(f) + 1] = e[1]
        BY <4>1, <4>2
      <4> QED
        BY <3>1, <3>2, <4>1, <4>2, <4>3
    <3> HIDE DEF x
    <3>5. FrameAt(x, 1, type, 0)
      <4>1. 3 * 1 - 2 = 1 /\ 3 * 1 - 1 = 2 /\ 3 * 1 = 3
        OBVIOUS
      <4> QED
        BY <3>2, <3>4, <4>1 DEF FrameAt
    <3>6. ~sawDone[a] /\ Chunks(s, k, left, 0) /\ Unread(a)' = s \o x
      BY <1>6, <1>9, <3>3, <3>4
    <3>7. /\ Len(s \o x) = 3 * left + Len(x)
          /\ \A i \in 1 .. left : FrameAt(s \o x, i, "chunk", k + i)
          /\ FrameAt(s \o x, left + 1, type, 0)
          /\ (s \o x)[Len(s \o x)] = x[Len(x)]
      <4>1. /\ s \in Seq(Symbols) /\ k \in Nat /\ left \in Nat /\ Chunks(s, k, left, 0)
            /\ x \in Seq(Symbols) /\ Len(x) >= 3 /\ FrameAt(x, 1, type, 0)
        BY <1>1, <1>2, <3>4, <3>5, <3>6
      <4> QED
        BY ONLY <4>1, ChunksMore
    <3>8. Chunks(s \o x, k, left, 4)
      BY <3>1, <3>4, <3>7 DEF Chunks
    <3>9. Chunks(Unread(a)', k, chunks'[a] - k, 4)
      BY <1>2, <1>9, <3>6, <3>8
    <3>10. ~sawDone'[a] /\ stage'[a] = "closed" /\ chunks'[a] = chunks[a]
      BY <1>9, <3>6
    <3> QED
      BY <3>9, <3>10 DEF Remains
  <2> QED
    BY <1>9, <2>1, <2>2
<1>10. CASE /\ stage[a] = "stream" /\ stage'[a] = "stream" /\ chunks'[a] = chunks[a] + 1
            /\ chunks[a] < MaxChunks
            /\ wire'[a] = wire[a] \o Frame("chunk", chunks[a] + 1)
  <2> DEFINE f == Frame("chunk", chunks[a] + 1)
  <2>1. f \in Seq(Symbols) /\ Len(f) = 3 /\ FrameAt(f, 1, "chunk", chunks[a] + 1)
    <3>1. chunks[a] + 1 \in 0 .. MaxChunks
      BY <1>2, <1>10, PublicAssumption
    <3> QED
      BY <3>1, FrameTyped
  <2>2. wire'[a] = wire[a] \o f
    BY <1>10
  <2> HIDE DEF f
  <2>3. rest = 0 /\ ~sawDone[a] /\ Chunks(s, k, left, 0) /\ Unread(a)' = s \o f
    BY <1>6, <1>10, <2>1, <2>2
  <2>4. /\ Len(s \o f) = 3 * left + Len(f)
        /\ \A i \in 1 .. left : FrameAt(s \o f, i, "chunk", k + i)
        /\ FrameAt(s \o f, left + 1, "chunk", chunks[a] + 1)
    <3>1. /\ s \in Seq(Symbols) /\ k \in Nat /\ left \in Nat /\ Chunks(s, k, left, 0)
          /\ f \in Seq(Symbols) /\ Len(f) >= 3 /\ FrameAt(f, 1, "chunk", chunks[a] + 1)
      BY <1>1, <1>2, <2>1, <2>3
    <3> QED
      BY ONLY <3>1, ChunksMore
  <2>5. k + (left + 1) = chunks[a] + 1 /\ Len(s \o f) = 3 * (left + 1) + 0
    BY <1>2, <2>1, <2>4
  <2>6. \A i \in 1 .. left + 1 : FrameAt(s \o f, i, "chunk", k + i)
    <3>1. \A i \in 1 .. left + 1 : i \in 1 .. left \/ i = left + 1
      BY <1>2
    <3> QED
      BY <2>4, <2>5, <3>1
  <2>7. Chunks(s \o f, k, left + 1, 0)
    BY <2>5, <2>6 DEF Chunks
  <2>8. chunks'[a] - k = left + 1 /\ k \in 0 .. chunks'[a]
    BY <1>2, <1>10
  <2>9. Chunks(Unread(a)', k, chunks'[a] - k, 0) /\ ~sawDone'[a] /\ stage'[a] # "closed"
    BY <1>10, <2>3, <2>7, <2>8
  <2> QED
    BY <2>8, <2>9 DEF Remains
<1> QED
  BY <1>7, <1>8, <1>9, <1>10 DEF ServerWrote

LEMMA WidgetInitially == Init => WidgetInv
<1> SUFFICES ASSUME SitesInit, PublicInit, WidgetInit PROVE WidgetInv
  BY DEF Init
<1>1. PublicInv
  BY InvInit
<1>2. WidgetTyped
  <2>1. /\ answer = <<>> /\ errors = <<>> /\ status = "" /\ sources = None /\ latest = None
        /\ overlapped = {}
        /\ sawDone = [a \in Asks |-> FALSE] /\ streamed = [a \in Asks |-> FALSE]
    BY DEF WidgetInit
  <2>2. reading = [a \in Asks |-> "idle"] /\ stage = [a \in Asks |-> "unsent"]
    BY DEF WidgetInit, PublicInit
  <2>3. buffer = [a \in Asks |-> <<>>]
    BY DEF WidgetInit
  <2>4. <<>> \in Seq(Symbols) /\ <<>> \in Seq([ask : Asks, text : 1 .. MaxChunks]) /\ <<>> \in Seq(Asks)
    BY EmptySeq
  <2>5. buffer \in [Asks -> Seq(Symbols)]
    BY <2>3, <2>4, Zenon
  <2>6. answer \in Seq([ask : Asks, text : 1 .. MaxChunks]) /\ errors \in Seq(Asks)
    BY <2>1, <2>4
  <2>7. reading \in [Asks -> {"idle", "reading", "over"}]
        /\ \A a \in Asks : reading[a] = "idle" <=> stage[a] = "unsent"
    BY <2>2
  <2>8. sawDone \in [Asks -> BOOLEAN] /\ streamed \in [Asks -> BOOLEAN]
    BY <2>1
  <2> QED
    BY <2>1, <2>5, <2>6, <2>7, <2>8, Zenon DEF WidgetTyped
<1>3. ReadersFollow /\ LatestIsAlone /\ PanelFollows
  BY PublicAssumption DEF WidgetInit, PublicInit, ReadersFollow, LatestIsAlone, PanelFollows
<1> QED
  BY <1>1, <1>2, <1>3 DEF WidgetInv

-----------------------------------------------------------------------------
(* The server's own steps.                                                 *)

LEMMA ServerInv ==
    ASSUME WidgetInv, ServerStep, UNCHANGED widgetVars
    PROVE  WidgetInv'
<1>1. HandlersTyped /\ WidgetTyped /\ ReadersTyped
  BY Typed
<1>2. PublicInv'
  BY InvStep DEF PublicNext, WidgetInv
<1>3. /\ UNCHANGED <<reading, buffer, sawDone, streamed>>
      /\ UNCHANGED <<answer, status, sources, errors, latest, overlapped>>
  BY DEF widgetVars, readVars, panelVars
<1>4. ASSUME NEW a \in Asks
      PROVE  /\ ServerWrote(a)
             /\ stage'[a] = "unsent" <=> stage[a] = "unsent"
             /\ stage[a] = "closed" => UNCHANGED <<stage[a], wire[a], chunks[a]>>
             /\ stage[a] = "unsent" => UNCHANGED <<stage[a], wire[a], chunks[a]>>
             /\ stage'[a] \in {"lookup", "project", "count"} =>
                   stage[a] \in {"lookup", "project", "count"} /\ chunks'[a] = chunks[a]
  <2>1. ServerWrote(a)
    BY <1>1, ServerWrites
  <2> QED
    BY <2>1 DEF ServerWrote
<1>5. WidgetTyped'
  BY <1>1, <1>3, <1>4 DEF WidgetTyped
<1>6. ASSUME NEW a \in Asks, NEW k \in 0 .. chunks[a], Remains(a, Unread(a), k)
      PROVE  k \in 0 .. chunks'[a] /\ Remains(a, Unread(a), k)'
  <2>1. wire' \in [Asks -> Seq(Symbols)]
    BY <1>2 DEF PublicInv, HandlersTyped
  <2> QED
    BY <1>1, <1>3, <1>4, <1>6, <2>1, ServerKeeps
<1>7. ASSUME NEW a \in Asks
      PROVE  /\ reading'[a] = "idle" =>
                    /\ buffer'[a] = <<>> /\ wire'[a] = <<>> /\ chunks'[a] = 0
                    /\ ~sawDone'[a]
             /\ reading'[a] = "reading" => \E k \in 0 .. chunks'[a] : Remains(a, Unread(a), k)'
             /\ reading'[a] = "over" => stage'[a] = "closed"
             /\ stage'[a] \in {"lookup", "project", "count"} => chunks'[a] = 0
  BY <1>1, <1>3, <1>4, <1>6 DEF WidgetInv, ReadersFollow, WidgetTyped
<1>8. ReadersFollow'
  BY <1>7 DEF ReadersFollow
<1>9. ASSUME NEW a \in Asks, sawDone[a] PROVE stage[a] = "closed"
  <2>1. reading[a] \in {"idle", "reading", "over"}
    BY <1>1 DEF WidgetTyped
  <2>2. /\ reading[a] # "idle"
        /\ reading[a] = "reading" => \E k \in 0 .. chunks[a] : Remains(a, Unread(a), k)
        /\ reading[a] = "over" => stage[a] = "closed"
    BY <1>9 DEF WidgetInv, ReadersFollow
  <2>3. ASSUME NEW k, Remains(a, Unread(a), k) PROVE stage[a] = "closed"
    <3>1. PICK rest \in {0, 1, 4} :
            (rest = 0 <=> stage[a] # "closed") /\ (sawDone[a] => rest = 1)
      BY <2>3 DEF Remains
    <3> QED
      BY <1>9, <3>1
  <2> QED
    BY <2>1, <2>2, <2>3
<1>10. LatestIsAlone'
  <2> SUFFICES ASSUME NEW a \in Asks \ overlapped', a = latest'
               PROVE  /\ \A b \in Asks \ {a} : reading'[b] # "reading"
                      /\ reading'[a] = "reading" =>
                            \E k \in 0 .. chunks'[a] : answer' = Shown(a, k) /\ Remains(a, Unread(a), k)'
                      /\ sawDone'[a] => answer' = Shown(a, chunks'[a]) /\ sources' = a /\ status' = ""
    BY DEF LatestIsAlone, Shown
  <2>1. /\ \A b \in Asks \ {a} : reading[b] # "reading"
        /\ reading[a] = "reading" =>
              \E k \in 0 .. chunks[a] : answer = Shown(a, k) /\ Remains(a, Unread(a), k)
        /\ sawDone[a] => answer = Shown(a, chunks[a]) /\ sources = a /\ status = ""
    BY <1>3 DEF WidgetInv, LatestIsAlone
  <2>2. sawDone[a] => chunks'[a] = chunks[a]
    BY <1>4, <1>9
  <2> QED
    BY <1>3, <1>6, <2>1, <2>2
<1>11. PanelFollows'
  BY <1>3 DEF WidgetInv, PanelFollows
<1> QED
  BY <1>2, <1>5, <1>8, <1>10, <1>11 DEF WidgetInv

-----------------------------------------------------------------------------
(* A question is sent.                                                     *)

LEMMA SubmitInv ==
    ASSUME WidgetInv, NEW a \in Asks, NEW n \in Nodes, NEW k \in Keys, NEW i \in Addresses,
           Submit(a, n, k, i)
    PROVE  WidgetInv'
<1>1. HandlersTyped /\ WidgetTyped /\ ReadersTyped
  BY Typed
<1>2. PublicInv'
  BY InvStep DEF Submit, PublicNext, WidgetInv
<1>3. /\ reading' = [reading EXCEPT ![a] = "reading"]
      /\ answer' = <<>> /\ sources' = None /\ status' = "Thinking..."
      /\ errors' = IF errors = <<>> THEN errors ELSE Tail(errors)
      /\ latest' = a
      /\ UNCHANGED <<buffer, sawDone, streamed>>
      /\ LET busy == {b \in Asks : reading[b] = "reading"}
         IN overlapped' = overlapped \cup busy \cup (IF busy = {} THEN {} ELSE {a})
  BY DEF Submit
<1>4. /\ stage[a] = "unsent" /\ UNCHANGED chunks
      /\ \/ Goto(a, "lookup") /\ UNCHANGED wire
         \/ Refuse(a)
  BY DEF Submit, Arrive
<1>5. stage'[a] # "unsent" /\ \A b \in Asks : b # a => stage'[b] = stage[b] /\ wire'[b] = wire[b]
  BY <1>1, <1>4 DEF Refuse, Goto, Write, HandlersTyped
<1>6. WidgetTyped'
  <2>1. errors' \in Seq(Asks)
    <3>1. errors \in Seq(Asks)
      BY <1>1 DEF WidgetTyped
    <3>2. errors # <<>> => Tail(errors) \in Seq(Asks)
      BY <3>1, HeadTailProperties
    <3> QED
      BY <1>3, <3>1, <3>2
  <2>2. overlapped' \subseteq Asks
    BY <1>1, <1>3 DEF WidgetTyped
  <2>3. reading' \in [Asks -> {"idle", "reading", "over"}]
        /\ \A b \in Asks : reading'[b] = "idle" <=> stage'[b] = "unsent"
    BY <1>1, <1>3, <1>4, <1>5 DEF WidgetTyped
  <2>4. answer' \in Seq([ask : Asks, text : 1 .. MaxChunks])
    BY <1>3
  <2> QED
    BY <1>1, <1>3, <2>1, <2>2, <2>3, <2>4 DEF WidgetTyped
<1>7. /\ reading[a] = "idle" /\ buffer[a] = <<>> /\ wire[a] = <<>> /\ chunks[a] = 0 /\ ~sawDone[a]
  BY <1>1, <1>4 DEF WidgetInv, ReadersFollow, WidgetTyped
<1>8. Remains(a, Unread(a), 0)'
  <2>1. chunks'[a] - 0 = 0 /\ ~sawDone'[a] /\ Unread(a)' = <<>> \o wire'[a]
    BY <1>3, <1>4, <1>7 DEF Unread
  <2>2. Chunks(<<>>, 0, 0, 0) /\ <<>> \in Seq(Symbols)
    BY DEF Chunks
  <2>3. CASE Goto(a, "lookup") /\ UNCHANGED wire
    <3>1. Unread(a)' = <<>> /\ stage'[a] = "lookup"
      BY <1>1, <1>7, <2>1, <2>3 DEF Goto, HandlersTyped
    <3>2. Chunks(Unread(a)', 0, chunks'[a] - 0, 0)
      BY <2>1, <2>2, <3>1
    <3> QED
      BY <2>1, <3>1, <3>2 DEF Remains
  <2>4. CASE Refuse(a)
    <3>1. wire'[a] = <<>> \o <<Mark("status")>> /\ stage'[a] = "closed"
      BY <1>1, <1>7, <2>4 DEF Refuse, Goto, Write, HandlersTyped
    <3>2. <<Mark("status")>> \in Seq(Symbols)
      BY MarksTyped
    <3>3. Unread(a)' = <<>> \o <<Mark("status")>>
      BY <2>1, <3>1, <3>2
    <3>4. Chunks(<<>> \o <<Mark("status")>>, 0, 0, 1)
      BY <2>2, ChunksEnd
    <3>5. Chunks(Unread(a)', 0, chunks'[a] - 0, 1)
      BY <2>1, <3>3, <3>4
    <3> QED
      BY <2>1, <3>1, <3>5 DEF Remains
  <2> QED
    BY <1>4, <2>3, <2>4
<1>9. ASSUME NEW b \in Asks, b # a, NEW j, Remains(b, Unread(b), j)
      PROVE  Remains(b, Unread(b), j)'
  <2>1. Unread(b)' = Unread(b) /\ chunks'[b] = chunks[b] /\ stage'[b] = stage[b] /\ sawDone'[b] = sawDone[b]
    BY <1>3, <1>4, <1>5, <1>9 DEF Unread
  <2> QED
    BY <1>9, <2>1 DEF Remains
<1>10. 0 \in 0 .. chunks'[a]
  BY <1>4, <1>7
<1>11. ReadersFollow'
  <2>1. ASSUME NEW b \in Asks
        PROVE  /\ reading'[b] = "idle" =>
                    /\ buffer'[b] = <<>> /\ wire'[b] = <<>> /\ chunks'[b] = 0
                    /\ ~sawDone'[b]
               /\ reading'[b] = "reading" => \E j \in 0 .. chunks'[b] : Remains(b, Unread(b), j)'
               /\ reading'[b] = "over" => stage'[b] = "closed"
               /\ stage'[b] \in {"lookup", "project", "count"} => chunks'[b] = 0
    <3>1. CASE b = a
      BY <1>1, <1>3, <1>4, <1>7, <1>8, <1>10, <3>1 DEF WidgetTyped
    <3>2. CASE b # a
      BY <1>1, <1>3, <1>4, <1>5, <1>9, <3>2 DEF WidgetInv, ReadersFollow, WidgetTyped
    <3> QED
      BY <3>1, <3>2
  <2> QED
    BY <2>1 DEF ReadersFollow
<1>12. LatestIsAlone'
  <2> SUFFICES ASSUME NEW c \in Asks \ overlapped', c = latest'
               PROVE  /\ \A b \in Asks \ {c} : reading'[b] # "reading"
                      /\ reading'[c] = "reading" =>
                            \E j \in 0 .. chunks'[c] : answer' = Shown(c, j) /\ Remains(c, Unread(c), j)'
                      /\ sawDone'[c] => answer' = Shown(c, chunks'[c]) /\ sources' = c /\ status' = ""
    BY DEF LatestIsAlone, Shown
  <2>1. c = a /\ \A b \in Asks : reading[b] # "reading"
    BY <1>3
  <2>2. answer' = Shown(a, 0)
    BY <1>3 DEF Shown
  <2> QED
    BY <1>1, <1>3, <1>7, <1>8, <1>10, <2>1, <2>2 DEF WidgetTyped
<1>13. PanelFollows'
  BY <1>1, <1>3, <1>7, PublicAssumption DEF PanelFollows, WidgetTyped
<1> QED
  BY <1>2, <1>6, <1>11, <1>12, <1>13 DEF WidgetInv

-----------------------------------------------------------------------------
(* The client's own steps.                                                 *)

\* Of the server they change what is under way and nothing else.
LEMMA ClientKeepsServer ==
    ASSUME PublicInv, ServerIdle, wire' \in [Asks -> Seq(Symbols)]
    PROVE  PublicInv'
<1>1. /\ UNCHANGED <<organizations, projects, sites, issued, creating, month, usage, buckets, passed>>
      /\ UNCHANGED <<stage, home, key, scope, ticket, sentRetired, chunks>>
  BY DEF ServerIdle, siteVars, counterVars, burstVars
<1>2. SitesTypeOK'
  BY <1>1 DEF PublicInv, SitesTypeOK, KeysInUse
<1>3. HandlersTyped'
  BY <1>1 DEF PublicInv, HandlersTyped
<1>4. BucketsTyped' /\ Shaped' /\ BurstsAreShaped'
  BY <1>1, BurstsStep DEF PublicInv, BurstAction, burstVars
<1>5. Scoped' /\ Counted'
  BY <1>1 DEF PublicInv, Scoped, Counted
<1>6. Dead'
  BY <1>1 DEF PublicInv, Dead, Retired, KeysInUse
<1> QED
  BY <1>2, <1>3, <1>4, <1>5, <1>6 DEF PublicInv

LEMMA RemainsFrame ==
    ASSUME NEW a, NEW k, Remains(a, Unread(a), k),
           UNCHANGED <<buffer[a], wire[a], chunks[a], stage[a], sawDone[a]>>
    PROVE  Remains(a, Unread(a), k)'
<1>1. Unread(a)' = Unread(a)
  BY DEF Unread
<1> QED
  BY <1>1 DEF Remains

\* The answer area grows by the chunks read.
LEMMA ShownMore ==
    ASSUME NEW a \in Asks, NEW k \in Nat, NEW n \in Nat
    PROVE  Shown(a, k) \o [j \in 1 .. n |-> [ask |-> a, text |-> k + j]] = Shown(a, k + n)
<1> DEFINE piece(i) == [ask |-> a, text |-> i]
<1> DEFINE x == [j \in 1 .. n |-> piece(k + j)]
<1> DEFINE S == {piece(i) : i \in Nat}
<1> DEFINE s == [i \in 1 .. k |-> piece(i)]
<1> DEFINE t == [i \in 1 .. k + n |-> piece(i)]
<1>1. \A i \in Nat : piece(i) \in S
  OBVIOUS
<1> HIDE DEF piece, S
<1>2. s \in Seq(S) /\ Len(s) = k /\ \A i \in 1 .. k : s[i] = piece(i)
  BY <1>1
<1>3. x \in Seq(S) /\ Len(x) = n /\ \A i \in 1 .. n : x[i] = piece(k + i)
  BY <1>1
<1>4. t \in Seq(S) /\ Len(t) = k + n /\ \A i \in 1 .. k + n : t[i] = piece(i)
  BY <1>1
<1> HIDE DEF s, x, t
<1>5. /\ s \o x \in Seq(S) /\ Len(s \o x) = k + n
      /\ \A i \in 1 .. k : (s \o x)[i] = s[i]
      /\ \A i \in 1 .. n : (s \o x)[k + i] = x[i]
  <2>1. s \in Seq(S) /\ x \in Seq(S)
    BY <1>2, <1>3
  <2>2. /\ s \o x \in Seq(S) /\ Len(s \o x) = Len(s) + Len(x)
        /\ \A i \in 1 .. Len(s) : (s \o x)[i] = s[i]
        /\ \A i \in 1 .. Len(x) : (s \o x)[Len(s) + i] = x[i]
    BY ONLY <2>1, Concat
  <2> QED
    BY <1>2, <1>3, <2>2
<1>6. ASSUME NEW i \in 1 .. k + n PROVE (s \o x)[i] = t[i]
  <2>1. CASE i <= k
    BY <1>2, <1>4, <1>5, <2>1
  <2>2. CASE i > k
    <3>1. i - k \in 1 .. n /\ k + (i - k) = i
      BY <2>2
    <3> QED
      BY <1>3, <1>4, <1>5, <3>1
  <2>3. i <= k \/ i > k
    OBVIOUS
  <2> QED
    BY <2>1, <2>2, <2>3, Zenon
<1>7. s \o x = t
  BY <1>4, <1>5, <1>6, SeqEqual
<1> QED
  BY <1>7 DEF s, x, t, piece, Shown

\* Read, with what is common to its cases written out.
LEMMA ReadInv ==
    ASSUME WidgetInv, NEW a \in Asks, Read(a)
    PROVE  WidgetInv'
<1>1. HandlersTyped /\ WidgetTyped /\ ReadersTyped
  BY Typed
<1>2. /\ reading[a] = "reading" /\ UNCHANGED <<reading, latest, overlapped>> /\ ServerIdle
      /\ UNCHANGED <<stage, chunks>>
  BY DEF Read, ServerIdle
<1>3. PICK k \in 0 .. chunks[a] : Remains(a, Unread(a), k)
  BY <1>2 DEF WidgetInv, ReadersFollow
<1>4. ~sawDone[a] /\ buffer' \in [Asks -> Seq(Symbols)] /\ wire' \in [Asks -> Seq(Symbols)]
  BY <1>1, <1>3, ReadShows
<1>5. ASSUME NEW j \in 0 .. chunks[a], Remains(a, Unread(a), j)
      PROVE  \E n \in 0 .. chunks[a] - j :
                /\ answer' = answer \o [l \in 1 .. n |-> [ask |-> a, text |-> j + l]]
                /\ Remains(a, Unread(a), j + n)'
                /\ sawDone'[a] => j + n = chunks[a] /\ sources' = a /\ status' = ""
  BY <1>1, <1>5, ReadShows, Zenon
<1>6. PublicInv'
  BY <1>2, <1>4, ClientKeepsServer DEF WidgetInv
<1>7. \E events :
        /\ streamed' = [streamed EXCEPT ![a] = @ \/ Pieces(events) # <<>>]
        /\ sawDone' = [sawDone EXCEPT ![a] = @ \/ Holds(events, "done")]
        /\ status' \in {"", status} /\ sources' \in {a, sources}
        /\ errors' \in {errors, Append(errors, a)}
        /\ sawDone'[a] => sources' = a /\ status' = ""
  BY <1>1, <1>4 DEF Read, Show, WidgetTyped
<1>8. /\ \A b \in Asks : b # a => UNCHANGED <<buffer[b], wire[b], sawDone[b]>>
      /\ sawDone' \in [Asks -> BOOLEAN] /\ streamed' \in [Asks -> BOOLEAN]
      /\ status' \in {"", status} /\ sources' \in {a, sources}
      /\ errors' \in {errors, Append(errors, a)}
      /\ sawDone'[a] => sources' = a /\ status' = ""
  <2>1. \A b \in Asks : b # a => UNCHANGED <<buffer[b], wire[b]>>
    BY <1>1 DEF Read, Take, ReadersTyped
  <2>2. \A b \in Asks : b # a => UNCHANGED sawDone[b]
    BY <1>1, <1>7 DEF WidgetTyped
  <2>3. sawDone' \in [Asks -> BOOLEAN] /\ streamed' \in [Asks -> BOOLEAN]
    BY <1>1, <1>7 DEF WidgetTyped, Holds
  <2> QED
    BY <1>7, <2>1, <2>2, <2>3
<1>9. ASSUME NEW j \in 0 .. chunks[a], NEW n \in 0 .. chunks[a] - j
      PROVE  j \in Nat /\ n \in Nat /\ j + n \in 0 .. chunks'[a] /\ chunks[a] <= MaxChunks
  <2>1. chunks[a] \in 0 .. MaxChunks /\ MaxChunks \in Nat
    BY <1>1, PublicAssumption DEF ReadersTyped
  <2> QED
    BY <1>2, <2>1
<1>10. answer' \in Seq([ask : Asks, text : 1 .. MaxChunks])
  <2> DEFINE S == [ask : Asks, text : 1 .. MaxChunks]
  <2>1. PICK n \in 0 .. chunks[a] - k : answer' = answer \o [l \in 1 .. n |-> [ask |-> a, text |-> k + l]]
    BY <1>3, <1>5
  <2> DEFINE x == [l \in 1 .. n |-> [ask |-> a, text |-> k + l]]
  <2>2. n \in Nat /\ \A l \in 1 .. n : k + l \in 1 .. MaxChunks
    <3>1. k \in Nat /\ n \in Nat /\ k + n <= MaxChunks /\ MaxChunks \in Nat
      BY <1>1, <1>9, PublicAssumption DEF ReadersTyped
    <3> QED
      BY <3>1
  <2>3. \A l \in 1 .. n : [ask |-> a, text |-> k + l] \in S
    BY <2>2
  <2> HIDE DEF S
  <2>4. x \in Seq(S)
    BY <2>2, <2>3
  <2>5. answer \in Seq(S)
    BY <1>1 DEF WidgetTyped, S
  <2> HIDE DEF x
  <2>6. answer \o x \in Seq(S)
    BY <2>4, <2>5, Concat
  <2> QED
    BY <2>1, <2>6 DEF x, S
<1>11. WidgetTyped'
  <2>1. errors' \in Seq(Asks)
    <3>1. errors \in Seq(Asks)
      BY <1>1 DEF WidgetTyped
    <3>2. Append(errors, a) \in Seq(Asks)
      BY <3>1, AppendProperties
    <3> QED
      BY <1>8, <3>1, <3>2
  <2>2. status' \in {"", "Thinking..."} /\ sources' \in Asks \cup {None}
    BY <1>1, <1>8 DEF WidgetTyped
  <2> QED
    BY <1>1, <1>2, <1>4, <1>8, <1>10, <2>1, <2>2 DEF WidgetTyped
<1>12. ReadersFollow'
  <2>1. ASSUME NEW b \in Asks
        PROVE  /\ reading'[b] = "idle" =>
                    /\ buffer'[b] = <<>> /\ wire'[b] = <<>> /\ chunks'[b] = 0
                    /\ ~sawDone'[b]
               /\ reading'[b] = "reading" => \E j \in 0 .. chunks'[b] : Remains(b, Unread(b), j)'
               /\ reading'[b] = "over" => stage'[b] = "closed"
               /\ stage'[b] \in {"lookup", "project", "count"} => chunks'[b] = 0
    <3>1. CASE b = a
      <4>1. PICK n \in 0 .. chunks[a] - k : Remains(a, Unread(a), k + n)'
        BY <1>3, <1>5
      <4>2. k + n \in 0 .. chunks'[a]
        BY <1>9
      <4> QED
        BY <1>2, <3>1, <4>1, <4>2 DEF WidgetInv, ReadersFollow
    <3>2. CASE b # a
      <4>1. UNCHANGED <<buffer[b], wire[b], chunks[b], stage[b], sawDone[b]>>
        BY <1>2, <1>8, <3>2
      <4>2. ASSUME NEW j, Remains(b, Unread(b), j) PROVE Remains(b, Unread(b), j)'
        BY <4>1, <4>2, RemainsFrame
      <4> QED
        BY <1>2, <4>1, <4>2 DEF WidgetInv, ReadersFollow
    <3> QED
      BY <3>1, <3>2
  <2> QED
    BY <2>1 DEF ReadersFollow
<1>13. LatestIsAlone'
  <2> SUFFICES ASSUME NEW c \in Asks \ overlapped', c = latest'
               PROVE  /\ \A b \in Asks \ {c} : reading'[b] # "reading"
                      /\ reading'[c] = "reading" =>
                            \E j \in 0 .. chunks'[c] : answer' = Shown(c, j) /\ Remains(c, Unread(c), j)'
                      /\ sawDone'[c] => answer' = Shown(c, chunks'[c]) /\ sources' = c /\ status' = ""
    BY DEF LatestIsAlone, Shown
  <2>1. \A b \in Asks \ {c} : reading[b] # "reading"
    BY <1>2 DEF WidgetInv, LatestIsAlone
  <2>2. c = a
    BY <1>2, <2>1
  <2>3. PICK j \in 0 .. chunks[a] : answer = Shown(a, j) /\ Remains(a, Unread(a), j)
    BY <1>2, <2>2 DEF WidgetInv, LatestIsAlone
  <2>4. PICK n \in 0 .. chunks[a] - j :
                /\ answer' = answer \o [l \in 1 .. n |-> [ask |-> a, text |-> j + l]]
                /\ Remains(a, Unread(a), j + n)'
                /\ sawDone'[a] => j + n = chunks[a] /\ sources' = a /\ status' = ""
    BY <1>5, <2>3
  <2>5. j \in Nat /\ n \in Nat /\ j + n \in 0 .. chunks'[a]
    BY <1>9
  <2>6. answer' = Shown(a, j + n)
    BY <2>3, <2>4, <2>5, ShownMore
  <2> QED
    BY <1>2, <2>1, <2>2, <2>4, <2>5, <2>6
<1>14. PanelFollows'
  <2>1. latest # None /\ latest \in Asks /\ a # None
    BY <1>1, <1>2, PublicAssumption DEF WidgetInv, PanelFollows, WidgetTyped
  <2>2. /\ reading[latest] # "idle"
        /\ sawDone[latest] => sources # None /\ status = ""
        /\ reading[latest] = "over" => status = "" /\ (sources # None \/ errors # <<>>)
    BY <2>1 DEF WidgetInv, PanelFollows
  <2>3. /\ status = "" => status' = ""
        /\ sources # None => sources' # None
        /\ errors # <<>> => errors' # <<>>
    <3>1. errors \in Seq(Asks)
      BY <1>1 DEF WidgetTyped
    <3>2. Append(errors, a) # <<>>
      BY <3>1, AppendProperties
    <3> QED
      BY <1>8, <2>1, <3>2
  <2>4. sawDone'[latest] => sources' # None /\ status' = ""
    <3>1. CASE latest = a
      BY <1>8, <2>1, <3>1
    <3>2. CASE latest # a
      BY <1>8, <2>1, <2>2, <2>3, <3>2
    <3> QED
      BY <3>1, <3>2
  <2> QED
    BY <1>2, <2>1, <2>2, <2>3, <2>4 DEF PanelFollows
<1> QED
  BY <1>6, <1>11, <1>12, <1>13, <1>14 DEF WidgetInv

-----------------------------------------------------------------------------
(* A reader finishes, and the invariant.                                   *)

\* What is not whole frames belongs to a response that is closed.
LEMMA ClosedByMark ==
    ASSUME ReadersTyped, NEW a \in Asks, NEW k \in 0 .. chunks[a], Remains(a, Unread(a), k),
           NEW p \in 1 .. Len(wire[a]), wire[a][p].line \notin {"event", "break"}
    PROVE  stage[a] = "closed"
<1>1. /\ buffer[a] \in Seq(Symbols) /\ wire[a] \in Seq(Symbols) /\ k \in Nat /\ chunks[a] - k \in Nat
  <2>1. chunks[a] \in 0 .. MaxChunks /\ MaxChunks \in Nat
    BY PublicAssumption DEF ReadersTyped
  <2> QED
    BY <2>1 DEF ReadersTyped
<1>2. PICK rest \in {0, 1, 4} :
        Chunks(Unread(a), k, chunks[a] - k, rest) /\ (rest = 0 <=> stage[a] # "closed")
  BY DEF Remains
<1>3. /\ Len(Unread(a)) = Len(buffer[a]) + Len(wire[a])
      /\ Unread(a)[Len(buffer[a]) + p] = wire[a][p]
  <2> DEFINE b == buffer[a]
             w == wire[a]
  <2>1. b \in Seq(Symbols) /\ w \in Seq(Symbols)
    BY <1>1
  <2>2. Unread(a) = b \o w /\ p \in 1 .. Len(w)
    BY DEF Unread
  <2> HIDE DEF b, w
  <2>3. Len(b \o w) = Len(b) + Len(w) /\ (b \o w)[Len(b) + p] = w[p]
    BY ONLY <2>1, <2>2, Concat
  <2> QED
    BY <2>2, <2>3 DEF b, w
<1>4. Len(buffer[a]) + p \in 1 .. Len(Unread(a))
  <2>1. Len(buffer[a]) \in Nat /\ Len(wire[a]) \in Nat
    BY <1>1
  <2> QED
    <3> DEFINE x == Len(buffer[a])
               y == Len(wire[a])
               z == Len(Unread(a))
    <3>1. x \in Nat /\ y \in Nat /\ z = x + y /\ p \in 1 .. y
      BY <1>3, <2>1
    <3> HIDE DEF x, y, z
    <3>2. x + p \in 1 .. z
      BY ONLY <3>1
    <3> QED
      BY <3>2 DEF x, y, z
<1>5. CASE rest = 0
  <2>1. Chunks(Unread(a), k, chunks[a] - k, 0)
    BY <1>2, <1>5
  <2>2. Unread(a)[Len(buffer[a]) + p].line \in {"event", "break"}
    BY <1>1, <1>4, <2>1, OpenIsFrames
  <2> QED
    BY <1>3, <2>2
<1> QED
  BY <1>2, <1>5

\* The answer ends, well or not.
LEMMA FinishInv ==
    ASSUME WidgetInv, NEW a \in Asks, NEW isError \in BOOLEAN, Finish(a, isError),
           reading[a] = "reading", stage[a] = "closed", ~isError => sawDone[a]
    PROVE  WidgetInv'
<1>1. HandlersTyped /\ WidgetTyped /\ ReadersTyped
  BY Typed
<1>2. /\ reading' = [reading EXCEPT ![a] = "over"] /\ wire' = [wire EXCEPT ![a] = <<>>]
      /\ UNCHANGED <<buffer, sawDone, streamed, answer, sources, latest, overlapped>>
      /\ ServerIdle /\ UNCHANGED <<stage, chunks>>
      /\ IF isError THEN status' = "" /\ errors' = Append(errors, a) ELSE UNCHANGED <<status, errors>>
  BY DEF Finish, ServerIdle
<1>3. wire' \in [Asks -> Seq(Symbols)]
  <2>1. <<>> \in Seq(Symbols)
    BY EmptySeq
  <2> QED
    BY <1>1, <1>2, <2>1 DEF HandlersTyped
<1>4. PublicInv'
  BY <1>2, <1>3, ClientKeepsServer DEF WidgetInv
<1>5. /\ errors' \in Seq(Asks) /\ (isError => errors' # <<>>) /\ (errors # <<>> => errors' # <<>>)
      /\ status' \in {"", status}
  <2>1. errors \in Seq(Asks)
    BY <1>1 DEF WidgetTyped
  <2>2. Append(errors, a) \in Seq(Asks) /\ Append(errors, a) # <<>>
    BY <2>1, AppendProperties
  <2> QED
    BY <1>2, <2>1, <2>2
<1>6. /\ reading'[a] = "over" /\ \A b \in Asks : b # a => reading'[b] = reading[b] /\ wire'[b] = wire[b]
      /\ reading' \in [Asks -> {"idle", "reading", "over"}]
  BY <1>1, <1>2 DEF WidgetTyped, HandlersTyped
<1>7. WidgetTyped'
  <2>1. \A b \in Asks : reading'[b] = "idle" <=> stage'[b] = "unsent"
    BY <1>1, <1>2, <1>6 DEF WidgetTyped
  <2>2. status' \in {"", "Thinking..."}
    BY <1>1, <1>5 DEF WidgetTyped
  <2> QED
    BY <1>1, <1>2, <1>5, <1>6, <2>1, <2>2 DEF WidgetTyped
<1>8. ASSUME NEW b \in Asks, b # a, NEW j, Remains(b, Unread(b), j)
      PROVE  Remains(b, Unread(b), j)'
  <2>1. UNCHANGED <<buffer[b], wire[b], chunks[b], stage[b], sawDone[b]>>
    BY <1>2, <1>6, <1>8
  <2> QED
    BY <1>8, <2>1, RemainsFrame
<1>9. ReadersFollow'
  <2>1. ASSUME NEW b \in Asks
        PROVE  /\ reading'[b] = "idle" =>
                    /\ buffer'[b] = <<>> /\ wire'[b] = <<>> /\ chunks'[b] = 0
                    /\ ~sawDone'[b]
               /\ reading'[b] = "reading" => \E j \in 0 .. chunks'[b] : Remains(b, Unread(b), j)'
               /\ reading'[b] = "over" => stage'[b] = "closed"
               /\ stage'[b] \in {"lookup", "project", "count"} => chunks'[b] = 0
    <3>1. CASE b = a
      BY <1>2, <1>6, <3>1
    <3>2. CASE b # a
      BY <1>2, <1>6, <1>8, <3>2 DEF WidgetInv, ReadersFollow
    <3> QED
      BY <3>1, <3>2
  <2> QED
    BY <2>1 DEF ReadersFollow
<1>10. LatestIsAlone'
  <2> SUFFICES ASSUME NEW c \in Asks \ overlapped', c = latest'
               PROVE  /\ \A b \in Asks \ {c} : reading'[b] # "reading"
                      /\ reading'[c] = "reading" =>
                            \E j \in 0 .. chunks'[c] : answer' = Shown(c, j) /\ Remains(c, Unread(c), j)'
                      /\ sawDone'[c] => answer' = Shown(c, chunks'[c]) /\ sources' = c /\ status' = ""
    BY DEF LatestIsAlone, Shown
  <2>1. /\ \A b \in Asks \ {c} : reading[b] # "reading"
        /\ reading[c] = "reading" =>
              \E j \in 0 .. chunks[c] : answer = Shown(c, j) /\ Remains(c, Unread(c), j)
        /\ sawDone[c] => answer = Shown(c, chunks[c]) /\ sources = c /\ status = ""
    BY <1>2 DEF WidgetInv, LatestIsAlone
  <2> QED
    BY <1>2, <1>5, <1>6, <1>8, <2>1
<1>11. PanelFollows'
  <2>1. latest # None /\ latest \in Asks /\ a # None
    BY <1>1, PublicAssumption DEF WidgetInv, PanelFollows, WidgetTyped
  <2>2. /\ reading[latest] # "idle"
        /\ sawDone[latest] => sources # None /\ status = ""
        /\ reading[latest] = "over" => status = "" /\ (sources # None \/ errors # <<>>)
    BY <2>1 DEF WidgetInv, PanelFollows
  <2>3. CASE latest = a
    BY <1>2, <1>5, <1>6, <2>1, <2>2, <2>3 DEF PanelFollows
  <2>4. CASE latest # a
    BY <1>2, <1>5, <1>6, <2>1, <2>2, <2>4 DEF PanelFollows
  <2> QED
    BY <2>3, <2>4
<1> QED
  BY <1>4, <1>7, <1>9, <1>10, <1>11 DEF WidgetInv

LEMMA ClientInv ==
    ASSUME WidgetInv, NEW a \in Asks, ClientStep(a)
    PROVE  WidgetInv'
<1>1. HandlersTyped /\ WidgetTyped /\ ReadersTyped
  BY Typed
<1>2. ASSUME NEW p \in 1 .. Len(wire[a]), wire[a][p].line \in {"end", "status", "cut"}, reading[a] = "reading"
      PROVE  stage[a] = "closed"
  <2>1. PICK k \in 0 .. chunks[a] : Remains(a, Unread(a), k)
    BY <1>2 DEF WidgetInv, ReadersFollow
  <2> QED
    BY <1>1, <1>2, <2>1, ClosedByMark
<1>3. wire[a] \in Seq(Symbols) /\ sawDone[a] \in BOOLEAN
  BY <1>1 DEF ReadersTyped
<1>4. wire[a] # <<>> => 1 \in 1 .. Len(wire[a]) /\ Len(wire[a]) \in 1 .. Len(wire[a]) /\ Head(wire[a]) = wire[a][1]
  BY <1>3
<1>5. CASE Read(a)
  BY <1>5, ReadInv
<1>6. CASE ReadEnds(a)
  BY <1>2, <1>3, <1>4, <1>6, FinishInv DEF ReadEnds
<1>7. CASE GetRefusal(a)
  BY <1>2, <1>3, <1>4, <1>7, FinishInv DEF GetRefusal
<1>8. CASE ReadFails(a)
  BY <1>2, <1>3, <1>4, <1>8, FinishInv DEF ReadFails
<1> QED
  BY <1>5, <1>6, <1>7, <1>8 DEF ClientStep

\* One case for each kind of step.
LEMMA WidgetStep == WidgetInv /\ [Next]_vars => WidgetInv'
<1> SUFFICES ASSUME WidgetInv, [Next]_vars PROVE WidgetInv'
  OBVIOUS
<1>1. CASE ServerStep /\ UNCHANGED widgetVars
  BY <1>1, ServerInv
<1>2. ASSUME NEW a \in Asks, ClientStep(a) PROVE WidgetInv'
  BY <1>2, ClientInv
<1>3. ASSUME NEW a \in Asks, NEW n \in Nodes, NEW k \in Keys, NEW i \in Addresses, Submit(a, n, k, i)
      PROVE  WidgetInv'
  BY <1>3, SubmitInv
<1>4. CASE UNCHANGED vars
  <2>1. UNCHANGED publicVars /\ UNCHANGED widgetVars
    BY <1>4 DEF vars, publicVars
  <2>2. PublicInv'
    BY <2>1, InvStep DEF WidgetInv
  <2>3. UNCHANGED <<stage, wire, chunks>>
    BY <2>1 DEF publicVars, askVars
  <2>4. UNCHANGED <<reading, buffer, sawDone, streamed, answer, status, sources, errors, latest, overlapped>>
    BY <2>1 DEF widgetVars, readVars, panelVars
  <2>5. WidgetTyped' /\ PanelFollows'
    BY <2>3, <2>4 DEF WidgetInv, WidgetTyped, PanelFollows
  <2>6. ASSUME NEW a, NEW k PROVE Remains(a, Unread(a), k)' = Remains(a, Unread(a), k)
    BY <2>3, <2>4 DEF Remains, Unread
  <2>7. ReadersFollow'
    BY <2>3, <2>4, <2>6 DEF WidgetInv, ReadersFollow
  <2>8. LatestIsAlone'
    BY <2>3, <2>4, <2>6 DEF WidgetInv, LatestIsAlone, Shown
  <2> QED
    BY <2>2, <2>5, <2>7, <2>8 DEF WidgetInv
<1> QED
  BY <1>1, <1>2, <1>3, <1>4 DEF Next

LEMMA WidgetAlways == Spec => []WidgetInv
BY WidgetInitially, WidgetStep, PTL DEF Spec

-----------------------------------------------------------------------------
(* The theorems.                                                           *)

\* Every variable of the channel and of the page keeps its shape; a project has
\* one site, whose key is no other site's, and a reader is idle until it asks.
THEOREM ChannelTyped == Spec => []TypeOK
<1>1. PublicInv => PublicTypeOK
  <2> SUFFICES ASSUME PublicInv PROVE PublicTypeOK
    OBVIOUS
  <2> QED
    BY DEF PublicInv, HandlersTyped, BucketsTyped, BucketMap, PublicTypeOK
<1>2. WidgetInv => TypeOK
  BY <1>1 DEF WidgetInv, WidgetTyped, TypeOK
<1> QED
  BY <1>2, WidgetAlways, PTL

\* No month of an organization serves more asks than its cap, for any number of
\* asks, nodes and sites: the tickets served are different numbers up to it.
THEOREM MonthlyCap == Spec => []CapHolds
<1>1. WidgetInv => CapHolds
  <2> SUFFICES ASSUME PublicInv, NEW o \in Organizations, NEW m \in Months
               PROVE  Cardinality(Served(o, m)) <= Cap
    BY DEF CapHolds, WidgetInv
  <2> DEFINE number == [a \in Served(o, m) |-> ticket[a].number]
  <2>1. number \in Injection(Served(o, m), 1 .. Cap)
    BY DEF PublicInv, Counted, Served, Injection, IsInjective
  <2>2. Cap \in Int /\ 1 \in Int /\ Cap >= 1
    BY PublicAssumption
  <2>3. IsFiniteSet(1 .. Cap) /\ Cardinality(1 .. Cap) = Cap
    BY <2>2, FS_Interval
  <2> HIDE DEF number
  <2> QED
    BY <2>1, <2>3, FS_Injection
<1> QED
  BY <1>1, WidgetAlways, PTL

\* Whatever the sweep of a full map removes, a node lets no more requests of an
\* address or a key through in a window than its limit.
THEOREM WindowsAreLimited == Spec => []BurstsAreShaped
BY WidgetAlways, PTL DEF WidgetInv, PublicInv

\* An ask sent with a key of the past reaches no site.
THEOREM OldKeysAreDead == Spec => []RetiredKeysStayDead
<1>1. WidgetInv => RetiredKeysStayDead
  BY DEF WidgetInv, PublicInv, Dead, RetiredKeysStayDead
<1> QED
  BY <1>1, WidgetAlways, PTL

\* parseSseBuffer and onEvent: however many chunks the server writes and
\* wherever the network cuts them, an answer that ended with 'done' and had the
\* panel to itself is shown whole, once, in order and with its sources.
THEOREM AnswersAreWhole == Spec => []AnswerIsWhole
<1>1. WidgetInv => AnswerIsWhole
  BY DEF WidgetInv, LatestIsAlone, AnswerIsWhole, Shown
<1> QED
  BY <1>1, WidgetAlways, PTL

\* streamAsk: once no answer is awaited the panel has stopped thinking, and
\* shows sources or an error, also when the visitor asked again meanwhile.
THEOREM PanelsTell == Spec => []PanelTells
<1>1. WidgetInv => PanelTells
  BY DEF WidgetInv, WidgetTyped, PanelFollows, PanelTells
<1> QED
  BY <1>1, WidgetAlways, PTL
=============================================================================
