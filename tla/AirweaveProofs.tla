---------------------------- MODULE AirweaveProofs ----------------------------
(***************************************************************************)
(* Proofs about AirweaveCollections, for any number of organizations,      *)
(* collections, source connections, projects and requests, whatever the    *)
(* migration seeded and however many failures and events there are.        *)
(***************************************************************************)
EXTENDS AirweaveCollections, TLAPS

\* What a client may send back over the list of an organization.
Copy(o) == IF form[o] = None THEN {} ELSE form[o]

\* An organization, a request or an answer has to do with collection c.
Met(c) ==
    \/ \E o \in Orgs : c \in allow[o] \/ c \in Copy(o) \/ <<o, c>> \in removed
    \/ \E r \in Requests : c \in seen[r]
    \/ reported[c] # None

Deleting == {"references", "deleteUpstream", "forget"}
Attaching == {"project", "access", "exists", "insert"}
OfOrganization ==
    {"findOrg", "createUpstream", "record"} \cup Deleting \cup Attaching

\* A request is about what its step needs; one that deletes has an id that was
\* drawn, and one that cleans the list a collection that is gone.
CallOK(c, up) ==
    /\ c.at \in OfOrganization => c.org \in Orgs
    /\ c.at \in Attaching => c.project \in Projects
    /\ c.at \in {"guard", "record", "own", "act"} \cup Deleting \cup Attaching =>
          c.col \in Collections
    /\ c.at = "record" => c.col \notin Legacy
    /\ c.at \in {"guard", "record"} \cup Deleting => up[c.col] # "absent"
    /\ c.at = "forget" => up[c.col] # "present"
    /\ c.at = "guard" => c.op \in OnCollection
    /\ c.at \in {"lookup", "own"} => c.op \in OnConnection
    /\ c.at \in {"guard", "lookup", "own", "act"} /\ c.op \in OnConnection =>
          c.con \in Connections
CallsOK == \A r \in Requests : CallOK(call[r], upstream)

\* A collection no request has created is met by nobody, and neither is one
\* that is about to be recorded, by one request.
Fresh ==
    \A c \in Collections : Met(c) =>
        /\ upstream[c] # "absent"
        /\ \A r \in Requests : ~(call[r].at = "record" /\ call[r].col = c)
LegacyIsDrawn == \A c \in Legacy : upstream[c] # "absent"
OneRecords ==
    \A r1, r2 \in Requests :
        /\ call[r1].at = "record" /\ call[r2].at = "record"
        /\ call[r1].col = call[r2].col
        => r1 = r2

\* No two organizations' lists, nor copies of them, have a collection in common
\* that was created here.
ListsAreDisjoint ==
    \A o1, o2 \in Orgs : \A c \in Collections \ Legacy :
        /\ c \in allow[o1] \cup Copy(o1)
        /\ c \in allow[o2] \cup Copy(o2)
        => o1 = o2

Ledger == Fresh /\ LegacyIsDrawn /\ OneRecords /\ ListsAreDisjoint

-----------------------------------------------------------------------------
(* Types.                                                                  *)

LEMMA NoCallTyped == NoCall \in Calls
BY DEF NoCall, Calls, Steps, AllOperations

\* An action that does one thing to the calls keeps their type.
LEMMA KeepTyped ==
    ASSUME call \in [Requests -> Calls], NEW r \in Requests, NEW c \in Calls,
           Keep(r, c)
    PROVE  call' \in [Requests -> Calls]
BY DEF Keep

LEMMA GotoTyped ==
    ASSUME call \in [Requests -> Calls], NEW r \in Requests, NEW at \in Steps,
           Goto(r, at)
    PROVE  call' \in [Requests -> Calls]
<1>1. [call[r] EXCEPT !.at = at] \in Calls
  BY DEF Calls
<1> QED
  BY <1>1, KeepTyped DEF Goto

LEMMA EndTyped ==
    ASSUME call \in [Requests -> Calls], NEW r \in Requests, End(r)
    PROVE  call' \in [Requests -> Calls]
BY NoCallTyped, KeepTyped DEF End

\* Where the calls of a step are typed, so are they after it.
CallTypes ==
    /\ call' \in [Requests -> Calls]
    /\ received' \in Nat /\ faults' \in Nat /\ events' \in Nat

LEMMA AnsweredTyped ==
    ASSUME TypeOK, NEW r \in Requests, NEW c \in Calls, Answered(r, c),
           UNCHANGED <<received, events>>
    PROVE  CallTypes
BY EndTyped, KeepTyped, CollectionsAssumption DEF Answered, CallTypes, TypeOK

LEMMA BeginTyped ==
    ASSUME TypeOK, NEW r \in Requests, NEW c \in Calls, Begin(r, c)
    PROVE  CallTypes
BY KeepTyped, CollectionsAssumption DEF Begin, CallTypes, TypeOK

LEMMA ReceiveTyped ==
    ASSUME TypeOK, NEW r \in Requests, Receive(r)
    PROVE  CallTypes
<1> USE CollectionsAssumption
<1>1. PICK op \in AllOperations, super \in BOOLEAN, o \in Orgs \cup {None} :
         \/ op = "create" /\ o # None /\ BeginCreate(r, o)
         \/ /\ op \in OnCollection
            /\ \E c \in Collections : BeginOnCollection(r, op, super, o, c)
         \/ /\ op \in OnConnection
            /\ \E k \in Connections : BeginOnConnection(r, op, super, o, k)
         \/ /\ op = "attach"
            /\ \E p \in Projects, c \in Collections : BeginAttach(r, super, o, p, c)
  BY DEF Receive
<1>2. CASE BeginCreate(r, o)
  <2>1. [NoCall EXCEPT !.at = "findOrg", !.org = o] \in Calls
    BY DEF NoCall, Calls, Steps, AllOperations
  <2> QED
    BY <1>2, <2>1, BeginTyped DEF BeginCreate
<1>3. ASSUME NEW c \in Collections, BeginOnCollection(r, op, super, o, c)
      PROVE  CallTypes
  <2> DEFINE new == [NoCall EXCEPT !.op = op, !.super = super, !.org = o, !.col = c]
  <2>1. [new EXCEPT !.at = IF super THEN AfterOwnership(new) ELSE "guard"] \in Calls
    BY DEF NoCall, Calls, Steps, AllOperations, AfterOwnership
  <2> QED
    BY <1>3, <2>1, BeginTyped DEF BeginOnCollection
<1>4. ASSUME NEW k \in Connections, BeginOnConnection(r, op, super, o, k)
      PROVE  CallTypes
  <2>1. [NoCall EXCEPT !.at = "lookup", !.op = op, !.super = super,
                       !.org = o, !.con = k] \in Calls
    BY DEF NoCall, Calls, Steps, AllOperations
  <2> QED
    BY <1>4, <2>1, BeginTyped DEF BeginOnConnection
<1>5. ASSUME NEW p \in Projects, NEW c \in Collections, BeginAttach(r, super, o, p, c)
      PROVE  CallTypes
  <2>1. [NoCall EXCEPT !.at = "project", !.op = "attach", !.super = super,
                       !.org = ProjectOrg[p], !.col = c, !.project = p] \in Calls
    BY DEF NoCall, Calls, Steps, AllOperations
  <2> QED
    BY <1>5, <2>1, BeginTyped DEF BeginAttach
<1> QED
  BY <1>1, <1>2, <1>3, <1>4, <1>5

LEMMA ServeTyped ==
    ASSUME TypeOK, NEW r \in Requests, Serve(r)
    PROVE  CallTypes
<1> USE CollectionsAssumption
<1>c. call \in [Requests -> Calls] /\ call[r] \in Calls
  BY DEF TypeOK
<1>t. /\ received \in Nat /\ received + 1 \in Nat
      /\ faults \in Nat /\ faults + 1 \in Nat /\ events \in Nat
  BY DEF TypeOK
<1>1. CASE Receive(r)
  BY <1>1, ReceiveTyped
<1>2. CASE FindOrg(r)
  <2>1. Goto(r, "createUpstream") \/ End(r)
    BY <1>2 DEF FindOrg
  <2> QED
    BY <1>2, <1>c, <1>t, <2>1, GotoTyped, EndTyped
    DEF FindOrg, CallTypes, countVars, Steps
<1>3. CASE Record(r)
  BY <1>3, <1>c, <1>t, EndTyped DEF Record, CallTypes
<1>4. ASSUME NEW c \in Collections, CreateUpstream(r, c)
      PROVE  CallTypes
  <2>1. [call[r] EXCEPT !.at = "record", !.col = c] \in Calls
    BY <1>c DEF Calls, Steps
  <2>2. CASE End(r) /\ UNCHANGED faults
    BY <1>4, <1>c, <1>t, <2>2, EndTyped DEF CreateUpstream, CallTypes
  <2> QED
    BY <1>4, <2>1, <2>2, AnsweredTyped DEF CreateUpstream
<1>5. CASE Guard(r)
  <2>1. AfterOwnership(call[r]) \in Steps
    BY DEF AfterOwnership, Steps
  <2>2. Goto(r, AfterOwnership(call[r])) \/ End(r)
    BY <1>5 DEF Guard
  <2> QED
    BY <1>5, <1>c, <1>t, <2>1, <2>2, GotoTyped, EndTyped
    DEF Guard, CallTypes, countVars
<1>6. CASE Act(r)
  BY <1>6, <1>c, <1>t, EndTyped DEF Act, CallTypes, countVars
<1>7. CASE References(r)
  <2>1. Goto(r, "deleteUpstream") \/ End(r)
    BY <1>7 DEF References
  <2> QED
    BY <1>7, <1>c, <1>t, <2>1, GotoTyped, EndTyped
    DEF References, CallTypes, countVars, Steps
<1>8. CASE DeleteUpstream(r)
  <2>1. [call[r] EXCEPT !.at = "forget"] \in Calls
    BY <1>c DEF Calls, Steps
  <2> QED
    BY <1>8, <2>1, AnsweredTyped DEF DeleteUpstream
<1>9. CASE Forget(r)
  BY <1>9, <1>c, <1>t, EndTyped DEF Forget, CallTypes, countVars
<1>10. CASE Lookup(r)
  <2>1. CASE End(r)
    BY <1>10, <1>c, <1>t, <2>1, EndTyped DEF Lookup, CallTypes, countVars
  <2>2. CASE parent[call[r].con] \in Collections
    <3>1. [call[r] EXCEPT !.col = parent[call[r].con],
                          !.at = IF call[r].super THEN "act" ELSE "own"] \in Calls
      BY <1>c, <2>2 DEF Calls, Steps
    <3> QED
      BY <1>10, <1>c, <1>t, <2>2, <3>1, KeepTyped DEF Lookup, CallTypes, countVars
  <2> QED
    BY <1>10, <2>1, <2>2 DEF Lookup
<1>11. CASE Own(r)
  <2>1. Goto(r, "act") \/ End(r)
    BY <1>11 DEF Own
  <2> QED
    BY <1>11, <1>c, <1>t, <2>1, GotoTyped, EndTyped
    DEF Own, CallTypes, countVars, Steps
<1>12. CASE FindProject(r)
  <2>1. Goto(r, "exists") \/ Goto(r, "access") \/ End(r)
    BY <1>12 DEF FindProject
  <2> QED
    BY <1>12, <1>c, <1>t, <2>1, GotoTyped, EndTyped
    DEF FindProject, CallTypes, countVars, Steps
<1>13. CASE ValidateAccess(r)
  <2>1. Goto(r, "exists") \/ End(r)
    BY <1>13 DEF ValidateAccess
  <2> QED
    BY <1>13, <1>c, <1>t, <2>1, GotoTyped, EndTyped
    DEF ValidateAccess, CallTypes, countVars, Steps
<1>14. CASE GetCollection(r)
  <2>1. Goto(r, "insert") \/ End(r)
    BY <1>14 DEF GetCollection
  <2> QED
    BY <1>14, <1>c, <1>t, <2>1, GotoTyped, EndTyped
    DEF GetCollection, CallTypes, countVars, Steps
<1>15. ASSUME NEW s \in Sources, CreateSource(r, s)
       PROVE  CallTypes
  BY <1>15, <1>c, <1>t, EndTyped DEF CreateSource, CallTypes, countVars
<1>16. CASE Fail(r)
  BY <1>16, <1>c, <1>t, EndTyped DEF Fail, CallTypes
<1> QED
  BY <1>1, <1>2, <1>3, <1>4, <1>5, <1>6, <1>7, <1>8, <1>9, <1>10, <1>11, <1>12,
     <1>13, <1>14, <1>15, <1>16 DEF Serve

LEMMA NextCalls ==
    ASSUME TypeOK, Next
    PROVE  CallTypes
<1>1. CASE Others
  BY <1>1 DEF Others, CallTypes, TypeOK
<1>2. CASE Restart
  BY <1>2, NoCallTyped DEF Restart, CallTypes, TypeOK
<1> QED
  BY <1>1, <1>2, ServeTyped DEF Next

-----------------------------------------------------------------------------
(* What a step does at Airweave.                                           *)

AirweaveStep ==
    \/ UNCHANGED airweaveVars
    \/ \E c \in Collections :
          \/ upstream[c] = "present" /\ Delete(c)
          \/ /\ upstream[c] = "absent"
             /\ upstream' = [upstream EXCEPT ![c] = "present"]
             /\ UNCHANGED <<parent, sessions>>
          \/ Connect(c)
          \/ \E k \in Connections : CreateConnection(c, k)
          \/ sessions' = sessions \ {c} /\ UNCHANGED <<upstream, parent>>
    \/ \E k \in Connections : DeleteConnection(k)

AirweaveTyped ==
    /\ upstream \in [Collections -> {"absent", "present", "deleted"}]
    /\ parent \in [Connections -> Collections \cup {None, Gone}]
    /\ sessions \subseteq Collections

\* What was drawn stays drawn, and what is deleted stays deleted.
Onwards ==
    \A c \in Collections :
        /\ upstream[c] # "absent" => upstream'[c] # "absent"
        /\ upstream[c] = "deleted" => upstream'[c] = "deleted"

LEMMA AirweaveStepSafe ==
    ASSUME AirweaveTyped, PartsAreOfCollections, AirweaveStep
    PROVE  AirweaveTyped' /\ PartsAreOfCollections' /\ Onwards
<1> USE CollectionsAssumption DEF AirweaveTyped, PartsAreOfCollections, Onwards
<1>1. CASE UNCHANGED airweaveVars
  BY <1>1 DEF airweaveVars
<1>2. ASSUME NEW c \in Collections, upstream[c] = "present", Delete(c)
      PROVE  AirweaveTyped' /\ PartsAreOfCollections' /\ Onwards
  <2>1. AirweaveTyped' /\ Onwards
    BY <1>2 DEF Delete
  <2>2. PartsAreOfCollections'
    BY <1>2 DEF Delete
  <2> QED
    BY <2>1, <2>2
<1>3. ASSUME NEW c \in Collections, upstream[c] = "absent",
             upstream' = [upstream EXCEPT ![c] = "present"],
             UNCHANGED <<parent, sessions>>
      PROVE  AirweaveTyped' /\ PartsAreOfCollections' /\ Onwards
  BY <1>3
<1>4. ASSUME NEW c \in Collections, Connect(c)
      PROVE  AirweaveTyped' /\ PartsAreOfCollections' /\ Onwards
  BY <1>4 DEF Connect
<1>5. ASSUME NEW c \in Collections, NEW k \in Connections, CreateConnection(c, k)
      PROVE  AirweaveTyped' /\ PartsAreOfCollections' /\ Onwards
  BY <1>5 DEF CreateConnection
<1>6. ASSUME NEW c \in Collections, sessions' = sessions \ {c},
             UNCHANGED <<upstream, parent>>
      PROVE  AirweaveTyped' /\ PartsAreOfCollections' /\ Onwards
  BY <1>6
<1>7. ASSUME NEW k \in Connections, DeleteConnection(k)
      PROVE  AirweaveTyped' /\ PartsAreOfCollections' /\ Onwards
  BY <1>7 DEF DeleteConnection
<1> QED
  BY <1>1, <1>2, <1>3, <1>4, <1>5, <1>6, <1>7 DEF AirweaveStep

LEMMA StepAtAirweave ==
    ASSUME TypeOK, CallsOK, Next
    PROVE  AirweaveStep
<1> USE CollectionsAssumption DEF AirweaveStep
<1>1. ASSUME NEW r \in Requests, Serve(r)
      PROVE  AirweaveStep
  <2>1. CASE \/ Receive(r) \/ FindOrg(r) \/ Record(r) \/ Guard(r)
             \/ References(r) \/ Forget(r) \/ Lookup(r) \/ Own(r)
             \/ FindProject(r) \/ ValidateAccess(r) \/ GetCollection(r)
             \/ Fail(r) \/ \E s \in Sources : CreateSource(r, s)
    BY <2>1 DEF Receive, BeginCreate, BeginOnCollection, BeginOnConnection,
       BeginAttach, Begin, FindOrg, Record, Guard, References, Forget, Lookup,
       Own, FindProject, ValidateAccess, GetCollection, Fail, CreateSource
  <2>2. ASSUME NEW c \in Collections, CreateUpstream(r, c)
        PROVE  AirweaveStep
    BY <2>2 DEF CreateUpstream, TypeOK, airweaveVars
  <2>3. CASE Act(r)
    <3>1. /\ call[r].at = "act" /\ call[r].col \in Collections
          /\ call[r].op \in OnConnection => call[r].con \in Connections
      BY <2>3 DEF Act, CallsOK, CallOK
    <3>2. CASE \E k \in Connections \ Browser : CreateConnection(call[r].col, k)
      BY <3>1, <3>2
    <3>3. CASE Connect(call[r].col)
      BY <3>1, <3>3
    <3>4. CASE call[r].op = "deleteSource" /\ DeleteConnection(call[r].con)
      BY <3>1, <3>4 DEF OnConnection
    <3> QED
      BY <2>3, <3>2, <3>3, <3>4 DEF Act
  <2>4. CASE DeleteUpstream(r)
    BY <2>4 DEF DeleteUpstream, CallsOK, CallOK, Deleting, OfOrganization
  <2> QED
    BY <1>1, <2>1, <2>2, <2>3, <2>4 DEF Serve
<1>2. CASE Others
  BY <1>2 DEF Others, RemoveSource, DeleteProject, DeleteOrg, OpenForm,
     UpdateOrg, Widget, EndSession, DeleteInPortal, Delete
<1>3. CASE Restart
  BY <1>3 DEF Restart
<1> QED
  BY <1>1, <1>2, <1>3 DEF Next

-----------------------------------------------------------------------------
(* What a request is about.                                                *)

LEMMA IdleOK == \A up : CallOK(NoCall, up)
BY DEF CallOK, NoCall, OfOrganization, Deleting, Attaching

LEMMA OneChanges ==
    ASSUME TypeOK, CallsOK, Onwards, NEW r \in Requests, NEW c \in Calls,
           Keep(r, c), CallOK(c, upstream')
    PROVE  CallsOK'
<1> SUFFICES ASSUME NEW q \in Requests PROVE CallOK(call'[q], upstream')
  BY DEF CallsOK
<1>1. CASE q = r
  BY <1>1 DEF Keep, TypeOK
<1>2. CASE q # r
  <2>1. call'[q] = call[q] /\ CallOK(call[q], upstream)
    BY <1>2 DEF Keep, TypeOK, CallsOK
  <2> QED
    BY <2>1 DEF CallOK, Onwards, TypeOK, Deleting, Attaching
<1> QED
  BY <1>1, <1>2

LEMMA EndOK ==
    ASSUME TypeOK, CallsOK, Onwards, NEW r \in Requests, End(r)
    PROVE  CallsOK'
BY IdleOK, NoCallTyped, OneChanges DEF End

\* A request goes on to a step that needs nothing more.
LEMMA GotoOK ==
    ASSUME TypeOK, CallsOK, Onwards, NEW r \in Requests, NEW at \in Steps,
           Goto(r, at), CallOK([call[r] EXCEPT !.at = at], upstream')
    PROVE  CallsOK'
<1>1. [call[r] EXCEPT !.at = at] \in Calls
  BY DEF TypeOK, Calls
<1> QED
  BY <1>1, OneChanges DEF Goto

LEMMA NobodyChanges ==
    ASSUME TypeOK, CallsOK, Onwards, UNCHANGED call
    PROVE  CallsOK'
<1> SUFFICES ASSUME NEW q \in Requests PROVE CallOK(call[q], upstream')
  BY DEF CallsOK
<1>1. CallOK(call[q], upstream)
  BY DEF CallsOK
<1> QED
  BY <1>1 DEF CallOK, Onwards, TypeOK, Deleting, Attaching

LEMMA ReceiveOK ==
    ASSUME TypeOK, CallsOK, Onwards, NEW r \in Requests, Receive(r)
    PROVE  CallsOK'
<1> USE CollectionsAssumption
<1>u. UNCHANGED upstream
  BY DEF Receive, BeginCreate, BeginOnCollection, BeginOnConnection, BeginAttach,
     Begin, airweaveVars
<1>1. PICK op \in AllOperations, super \in BOOLEAN, o \in Orgs \cup {None} :
         \/ op = "create" /\ o # None /\ BeginCreate(r, o)
         \/ /\ op \in OnCollection
            /\ \E c \in Collections : BeginOnCollection(r, op, super, o, c)
         \/ /\ op \in OnConnection
            /\ \E k \in Connections : BeginOnConnection(r, op, super, o, k)
         \/ /\ op = "attach"
            /\ \E p \in Projects, c \in Collections : BeginAttach(r, super, o, p, c)
  BY DEF Receive
<1>2. CASE o # None /\ BeginCreate(r, o)
  <2> DEFINE new == [NoCall EXCEPT !.at = "findOrg", !.org = o]
  <2>1. new \in Calls /\ CallOK(new, upstream')
    BY <1>2 DEF NoCall, Calls, Steps, AllOperations, CallOK, OfOrganization,
       Deleting, Attaching
  <2>2. Keep(r, new)
    BY <1>2 DEF BeginCreate, Begin
  <2> QED
    BY <2>1, <2>2, OneChanges
<1>3. ASSUME op \in OnCollection, NEW c \in Collections,
             BeginOnCollection(r, op, super, o, c)
      PROVE  CallsOK'
  <2> DEFINE old == [NoCall EXCEPT !.op = op, !.super = super, !.org = o, !.col = c]
             new == [old EXCEPT !.at = IF super THEN AfterOwnership(old) ELSE "guard"]
  <2>1. Keep(r, new) /\ upstream[c] # "absent" /\ (super /\ op = "delete" => o # None)
    BY <1>3 DEF BeginOnCollection, Begin
  <2>2. new \in Calls
    BY DEF NoCall, Calls, Steps, AllOperations, AfterOwnership
  <2>3. /\ new.col = c /\ new.org = o /\ new.op = op
        /\ new.at \in {"guard", "act", "references"}
        /\ new.at = "references" => o # None
    BY <2>1 DEF NoCall, AfterOwnership
  <2>4. CallOK(new, upstream')
    <3> HIDE DEF new
    <3> QED
      BY <1>3, <1>u, <2>1, <2>3 DEF CallOK, OfOrganization, Deleting, Attaching,
         OnCollection, OnConnection
  <2> QED
    BY <2>1, <2>2, <2>4, OneChanges
<1>4. ASSUME op \in OnConnection, NEW k \in Connections,
             BeginOnConnection(r, op, super, o, k)
      PROVE  CallsOK'
  <2> DEFINE new == [NoCall EXCEPT !.at = "lookup", !.op = op, !.super = super,
                                   !.org = o, !.con = k]
  <2>1. new \in Calls /\ CallOK(new, upstream')
    BY <1>4 DEF NoCall, Calls, Steps, AllOperations, CallOK, OfOrganization,
       Deleting, Attaching
  <2>2. Keep(r, new)
    BY <1>4 DEF BeginOnConnection, Begin
  <2> QED
    BY <2>1, <2>2, OneChanges
<1>5. ASSUME NEW p \in Projects, NEW c \in Collections, BeginAttach(r, super, o, p, c)
      PROVE  CallsOK'
  <2> DEFINE new == [NoCall EXCEPT !.at = "project", !.op = "attach",
                                   !.super = super, !.org = ProjectOrg[p],
                                   !.col = c, !.project = p]
  <2>1. new \in Calls /\ CallOK(new, upstream')
    BY DEF NoCall, Calls, Steps, AllOperations, CallOK, OfOrganization,
       Deleting, Attaching
  <2>2. Keep(r, new)
    BY <1>5 DEF BeginAttach, Begin
  <2> QED
    BY <2>1, <2>2, OneChanges
<1> QED
  BY <1>1, <1>2, <1>3, <1>4, <1>5

LEMMA ServeOK ==
    ASSUME TypeOK, CallsOK, LegacyIsDrawn, Onwards, NEW r \in Requests, Serve(r)
    PROVE  CallsOK'
<1> USE CollectionsAssumption
<1>c. call[r] \in Calls /\ CallOK(call[r], upstream)
  BY DEF TypeOK, CallsOK
<1>1. CASE Receive(r)
  BY <1>1, ReceiveOK
<1>2. CASE Record(r) \/ Act(r) \/ Forget(r) \/ Fail(r)
           \/ \E s \in Sources : CreateSource(r, s)
  <2>1. End(r)
    BY <1>2 DEF Record, Act, Forget, Fail, CreateSource
  <2> QED
    BY <2>1, EndOK
<1>3. CASE End(r)
  BY <1>3, EndOK
<1>4. ASSUME NEW at \in Steps, Goto(r, at), UNCHANGED upstream,
             \/ call[r].at = "findOrg" /\ at = "createUpstream"
             \/ call[r].at = "guard" /\ at = "act"
             \/ /\ call[r].at = "guard" /\ at = "references"
                /\ call[r].org \in Orgs
             \/ call[r].at = "references" /\ at = "deleteUpstream"
             \/ call[r].at = "own" /\ at = "act"
             \/ call[r].at \in Attaching /\ at \in Attaching
      PROVE  CallsOK'
  <2> DEFINE new == [call[r] EXCEPT !.at = at]
  <2>1. /\ new.at = at /\ new.op = call[r].op /\ new.org = call[r].org
        /\ new.col = call[r].col /\ new.con = call[r].con
        /\ new.project = call[r].project
    BY <1>c DEF Calls
  <2>2. call[r].at \in {"findOrg", "guard", "references", "own"} \cup Attaching
    BY <1>4
  <2>3. CallOK(new, upstream')
    <3> HIDE DEF new
    <3> QED
      BY <1>c, <1>4, <2>1 DEF CallOK, OfOrganization, Deleting, Attaching
  <2> QED
    BY <1>4, <2>3, GotoOK
<1>5. CASE FindOrg(r)
  BY <1>3, <1>4, <1>5 DEF FindOrg, airweaveVars, Steps
<1>6. ASSUME NEW c \in Collections, CreateUpstream(r, c)
      PROVE  CallsOK'
  <2> DEFINE new == [call[r] EXCEPT !.at = "record", !.col = c]
  <2>1. CASE upstream[c] = "absent" /\ Keep(r, new)
    <3>1. /\ new \in Calls
          /\ new.at = "record" /\ new.col = c /\ new.org = call[r].org
          /\ new.op = call[r].op
      BY <1>c DEF Calls, Steps
    <3>2. call[r].org \in Orgs
      BY <1>c, <1>6 DEF CreateUpstream, CallOK, OfOrganization
    <3>3. upstream'[c] = "present" /\ c \notin Legacy
      BY <1>6, <2>1 DEF CreateUpstream, LegacyIsDrawn, TypeOK
    <3>4. CallOK(new, upstream')
      <4> HIDE DEF new
      <4> QED
        BY <3>1, <3>2, <3>3 DEF CallOK, OfOrganization, Deleting, Attaching
    <3> QED
      BY <2>1, <3>1, <3>4, OneChanges
  <2> QED
    BY <1>3, <1>6, <2>1 DEF CreateUpstream, Answered, TypeOK
<1>7. CASE Guard(r)
  <2>1. CASE Goto(r, AfterOwnership(call[r])) /\ ~End(r)
    <3>1. call[r].op = "delete" => call[r].org \in Orgs
      BY <1>7, <1>c, <2>1 DEF Guard, Allowed, Calls, TypeOK
    <3>2. /\ AfterOwnership(call[r]) \in Steps
          /\ call[r].at = "guard"
          /\ \/ AfterOwnership(call[r]) = "act"
             \/ AfterOwnership(call[r]) = "references" /\ call[r].org \in Orgs
      BY <1>7, <3>1 DEF Guard, AfterOwnership, Steps
    <3>3. UNCHANGED upstream
      BY <1>7 DEF Guard, airweaveVars
    <3> QED
      BY <1>4, <2>1, <3>2, <3>3
  <2> QED
    BY <1>3, <1>7, <2>1 DEF Guard
<1>8. CASE References(r)
  BY <1>3, <1>4, <1>8 DEF References, airweaveVars, Steps
<1>9. CASE DeleteUpstream(r)
  <2> DEFINE new == [call[r] EXCEPT !.at = "forget"]
  <2>1. CASE Keep(r, new)
    <3>1. /\ new \in Calls
          /\ new.at = "forget" /\ new.col = call[r].col /\ new.org = call[r].org
          /\ new.op = call[r].op
      BY <1>c DEF Calls, Steps
    <3>2. /\ call[r].org \in Orgs /\ call[r].col \in Collections
          /\ upstream[call[r].col] # "absent"
      BY <1>c, <1>9 DEF DeleteUpstream, CallOK, OfOrganization, Deleting
    <3>3. upstream'[call[r].col] \notin {"absent", "present"}
      BY <1>9, <3>2 DEF DeleteUpstream, Delete, TypeOK, airweaveVars
    <3>4. CallOK(new, upstream')
      <4> HIDE DEF new
      <4> QED
        BY <3>1, <3>2, <3>3 DEF CallOK, OfOrganization, Deleting, Attaching
    <3> QED
      BY <2>1, <3>1, <3>4, OneChanges
  <2> QED
    BY <1>3, <1>9, <2>1 DEF DeleteUpstream, Answered
<1>10. CASE Lookup(r)
  <2> DEFINE new == [call[r] EXCEPT !.col = parent[call[r].con],
                                    !.at = IF call[r].super THEN "act" ELSE "own"]
  <2>1. CASE parent[call[r].con] \in Collections
    <3>1. /\ new \in Calls
          /\ new.at \in {"act", "own"} /\ new.col \in Collections
          /\ new.op = call[r].op /\ new.con = call[r].con
      BY <1>c, <2>1 DEF Calls, Steps
    <3>2. call[r].op \in OnConnection /\ call[r].con \in Connections
      BY <1>c, <1>10 DEF Lookup, CallOK
    <3>3. Keep(r, new)
      BY <1>10, <2>1 DEF Lookup
    <3>4. CallOK(new, upstream')
      <4> HIDE DEF new
      <4> QED
        BY <3>1, <3>2 DEF CallOK, OfOrganization, Deleting, Attaching
    <3> QED
      BY <3>1, <3>3, <3>4, OneChanges
  <2> QED
    BY <1>3, <1>10, <2>1 DEF Lookup
<1>11. CASE Own(r)
  BY <1>3, <1>4, <1>11 DEF Own, airweaveVars, Steps
<1>12. CASE FindProject(r) \/ ValidateAccess(r) \/ GetCollection(r)
  BY <1>3, <1>4, <1>12 DEF FindProject, ValidateAccess, GetCollection,
     airweaveVars, Steps, Attaching
<1> QED
  BY <1>1, <1>2, <1>5, <1>6, <1>7, <1>8, <1>9, <1>10, <1>11, <1>12 DEF Serve

LEMMA StepCalls ==
    ASSUME TypeOK, CallsOK, LegacyIsDrawn, Onwards, Next
    PROVE  CallsOK'
<1>1. CASE Others
  BY <1>1, NobodyChanges DEF Others
<1>2. CASE Restart
  BY <1>2, IdleOK DEF Restart, CallsOK
<1> QED
  BY <1>1, <1>2, ServeOK DEF Next

-----------------------------------------------------------------------------
(* What a step does to the lists and the answers.                          *)

\* No request comes to record a collection.
NobodyCreates ==
    \A q \in Requests : call'[q].at = "record" => call'[q] = call[q]

Quiet == NobodyCreates /\ UNCHANGED <<orgs, allow, form, answerVars>>

Creates(r, c) ==
    /\ upstream[c] = "absent"
    /\ \A q \in Requests : call'[q].at = "record" =>
          call'[q] = call[q] \/ (q = r /\ call'[q].col = c)
    /\ UNCHANGED <<orgs, allow, form, answerVars>>

OrgStep(o) ==
    /\ DeleteOrg(o) \/ OpenForm(o) \/ UpdateOrg(o)
    /\ UNCHANGED <<call, upstream>>

\* What becomes present is what a request creates.
Changes ==
    \/ /\ Quiet
       /\ \A c \in Collections : upstream'[c] = "present" => upstream[c] = "present"
    \/ \E r \in Requests, c \in Collections :
          Creates(r, c) /\ upstream' = [upstream EXCEPT ![c] = "present"]
    \/ \E r \in Requests : Record(r) \/ Forget(r)
    \/ \E o \in Orgs : OrgStep(o)

LEMMA QuietCalls ==
    ASSUME TypeOK, NEW r \in Requests, NEW c, Keep(r, c), c.at # "record"
    PROVE  NobodyCreates
BY DEF NobodyCreates, Keep, TypeOK

LEMMA QuietGoto ==
    ASSUME TypeOK, NEW r \in Requests, NEW at \in Steps, Goto(r, at), at # "record"
    PROVE  NobodyCreates
BY DEF NobodyCreates, Goto, Keep, TypeOK, Calls

LEMMA QuietEnd ==
    ASSUME TypeOK, NEW r \in Requests, End(r)
    PROVE  NobodyCreates
BY DEF NobodyCreates, End, Keep, TypeOK, NoCall

LEMMA StepChanges ==
    ASSUME TypeOK, Next
    PROVE  Changes
<1> USE CollectionsAssumption
<1>1. ASSUME NEW r \in Requests, Serve(r)
      PROVE  Changes
  <2>c. call[r] \in Calls
    BY DEF TypeOK
  <2>q. ASSUME NobodyCreates, UNCHANGED <<rowVars, upstream, answerVars>>
        PROVE  Changes
    BY <2>q DEF Changes, Quiet, rowVars
  <2>1. CASE Receive(r)
    <3>1. UNCHANGED <<rowVars, upstream, answerVars>>
      BY <2>1 DEF Receive, BeginCreate, BeginOnCollection, BeginOnConnection,
         BeginAttach, Begin, airweaveVars
    <3>2. \E c : Keep(r, c) /\ c.at # "record"
      <4>1. ASSUME NEW o, BeginCreate(r, o)
            PROVE  \E c : Keep(r, c) /\ c.at # "record"
        <5> DEFINE new == [NoCall EXCEPT !.at = "findOrg", !.org = o]
        <5>1. new.at # "record"
          BY DEF NoCall
        <5>2. Keep(r, new)
          BY <4>1 DEF BeginCreate, Begin
        <5> HIDE DEF new
        <5> QED
          BY <5>1, <5>2
      <4>2. ASSUME NEW op, NEW super, NEW o, NEW c, BeginOnCollection(r, op, super, o, c)
            PROVE  \E d : Keep(r, d) /\ d.at # "record"
        <5> DEFINE old == [NoCall EXCEPT !.op = op, !.super = super, !.org = o, !.col = c]
                   new == [old EXCEPT !.at = IF super THEN AfterOwnership(old) ELSE "guard"]
        <5>1. new.at # "record"
          BY DEF NoCall, AfterOwnership
        <5>2. Keep(r, new)
          BY <4>2 DEF BeginOnCollection, Begin
        <5> HIDE DEF new
        <5> QED
          BY <5>1, <5>2
      <4>3. ASSUME NEW op, NEW super, NEW o, NEW k, BeginOnConnection(r, op, super, o, k)
            PROVE  \E c : Keep(r, c) /\ c.at # "record"
        <5> DEFINE new == [NoCall EXCEPT !.at = "lookup", !.op = op, !.super = super,
                                         !.org = o, !.con = k]
        <5>1. new.at # "record"
          BY DEF NoCall
        <5>2. Keep(r, new)
          BY <4>3 DEF BeginOnConnection, Begin
        <5> HIDE DEF new
        <5> QED
          BY <5>1, <5>2
      <4>4. ASSUME NEW super, NEW o, NEW p, NEW c, BeginAttach(r, super, o, p, c)
            PROVE  \E d : Keep(r, d) /\ d.at # "record"
        <5> DEFINE new == [NoCall EXCEPT !.at = "project", !.op = "attach",
                                         !.super = super, !.org = ProjectOrg[p],
                                         !.col = c, !.project = p]
        <5>1. new.at # "record"
          BY DEF NoCall
        <5>2. Keep(r, new)
          BY <4>4 DEF BeginAttach, Begin
        <5> HIDE DEF new
        <5> QED
          BY <5>1, <5>2
      <4> QED
        BY <2>1, <4>1, <4>2, <4>3, <4>4 DEF Receive
    <3> QED
      BY <2>q, <3>1, <3>2, QuietCalls
  <2>2. CASE FindOrg(r) \/ Guard(r) \/ Act(r) \/ References(r) \/ Lookup(r)
             \/ Own(r) \/ FindProject(r) \/ ValidateAccess(r)
             \/ GetCollection(r) \/ Fail(r)
    <3>1. UNCHANGED <<rowVars, upstream, answerVars>>
      BY <2>2 DEF FindOrg, Guard, Act, References, Lookup, Own, FindProject,
         ValidateAccess, GetCollection, Fail, airweaveVars, CreateConnection,
         Connect, DeleteConnection
    <3>2. CASE \E at \in Steps \ {"record"} : Goto(r, at)
      BY <2>q, <3>1, <3>2, QuietGoto
    <3>3. CASE End(r)
      BY <2>q, <3>1, <3>3, QuietEnd
    <3>4. CASE Lookup(r) /\ ~End(r)
      <4> DEFINE new == [call[r] EXCEPT !.col = parent[call[r].con],
                                        !.at = IF call[r].super THEN "act" ELSE "own"]
      <4>1. Keep(r, new) /\ new.at # "record"
        BY <3>4, <2>c DEF Lookup, Calls
      <4> HIDE DEF new
      <4> QED
        BY <2>q, <3>1, <4>1, QuietCalls
    <3>5. AfterOwnership(call[r]) \in Steps \ {"record"}
      BY DEF AfterOwnership, Steps
    <3> QED
      BY <2>2, <3>2, <3>3, <3>4, <3>5 DEF FindOrg, Guard, Act, References, Own,
         FindProject, ValidateAccess, GetCollection, Fail, Steps
  <2>3. ASSUME NEW c \in Collections, CreateUpstream(r, c)
        PROVE  Changes
    <3>1. CASE upstream[c] = "present"
      BY <2>3, <3>1, <2>q, QuietEnd DEF CreateUpstream
    <3>2. CASE upstream[c] = "absent" /\ End(r)
      BY <2>3, <3>2, QuietEnd
      DEF CreateUpstream, Changes, Creates, NobodyCreates, rowVars
    <3>3. CASE /\ upstream[c] = "absent"
               /\ Keep(r, [call[r] EXCEPT !.at = "record", !.col = c])
      <4>1. \A q \in Requests : call'[q].at = "record" =>
               call'[q] = call[q] \/ (q = r /\ call'[q].col = c)
        BY <3>3, <2>c DEF Keep, TypeOK, Calls
      <4>2. upstream' = [upstream EXCEPT ![c] = "present"]
        BY <2>3, <3>3 DEF CreateUpstream
      <4> QED
        BY <2>3, <3>3, <4>1, <4>2 DEF CreateUpstream, Changes, Creates, rowVars
    <3> QED
      BY <2>3, <3>1, <3>2, <3>3 DEF CreateUpstream, Answered, TypeOK
  <2>4. CASE Record(r) \/ Forget(r)
    BY <2>4 DEF Changes
  <2>5. CASE DeleteUpstream(r)
    <3>1. NobodyCreates
      <4>1. End(r) \/ Keep(r, [call[r] EXCEPT !.at = "forget"])
        BY <2>5 DEF DeleteUpstream, Answered
      <4> QED
        BY <4>1, <2>c, QuietEnd DEF NobodyCreates, Keep, TypeOK, Calls
    <3>2. \A c \in Collections : upstream'[c] = "present" => upstream[c] = "present"
      BY <2>5 DEF DeleteUpstream, Delete, TypeOK, airweaveVars
    <3> QED
      BY <2>5, <3>1, <3>2 DEF DeleteUpstream, Changes, Quiet, rowVars
  <2>6. ASSUME NEW s \in Sources, CreateSource(r, s)
        PROVE  Changes
    <3>1. NobodyCreates
      BY <2>6, QuietEnd DEF CreateSource
    <3> QED
      BY <2>6, <3>1 DEF CreateSource, Changes, Quiet, airweaveVars
  <2> QED
    BY <1>1, <2>1, <2>2, <2>3, <2>4, <2>5, <2>6 DEF Serve
<1>2. CASE Others
  <2>0. NobodyCreates
    BY <1>2 DEF Others, NobodyCreates
  <2>1. CASE \/ \E s \in Sources : RemoveSource(s)
             \/ \E p \in Projects : DeleteProject(p)
             \/ \E c \in Collections : \/ EndSession(c)
                                        \/ \E k \in Connections : Widget(c, k)
    BY <2>0, <2>1 DEF Changes, Quiet, RemoveSource, DeleteProject, EndSession,
       Widget, CreateConnection, airweaveVars, rowVars
  <2>2. ASSUME NEW o \in Orgs, DeleteOrg(o) \/ OpenForm(o) \/ UpdateOrg(o)
        PROVE  Changes
    <3>1. UNCHANGED <<call, upstream>>
      BY <1>2, <2>2 DEF Others, DeleteOrg, OpenForm, UpdateOrg, airweaveVars
    <3> QED
      BY <2>2, <3>1 DEF Changes, OrgStep
  <2>3. ASSUME NEW c \in Collections, DeleteInPortal(c)
        PROVE  Changes
    BY <2>0, <2>3 DEF Changes, Quiet, DeleteInPortal, Delete, TypeOK, rowVars
  <2> QED
    BY <1>2, <2>1, <2>2, <2>3 DEF Others
<1>3. CASE Restart
  <2>1. NobodyCreates
    BY <1>3 DEF Restart, NobodyCreates, NoCall
  <2> QED
    BY <1>3, <2>1 DEF Restart, Changes, Quiet, airweaveVars, rowVars
<1> QED
  BY <1>1, <1>2, <1>3 DEF Next

-----------------------------------------------------------------------------
(* The types of the rows and of the answers.                               *)

RowsTyped ==
    /\ orgs \subseteq Orgs /\ projects \subseteq Projects
    /\ allow \in [Orgs -> SUBSET Collections]
    /\ \A o \in Orgs \ orgs : allow[o] = {}
    /\ form \in [Orgs -> (SUBSET Collections) \cup {None}]
    /\ project \in [Sources -> projects \cup {None}]
    /\ collection \in [Sources -> Collections \cup {None}]
    /\ \A s \in Sources : project[s] = None <=> collection[s] = None

AnswersTyped ==
    /\ reported \in [Collections -> Orgs \cup {None}]
    /\ removed \subseteq Orgs \X Collections
    /\ overwritten \subseteq Orgs

LEMMA DeleteProjectsTyped ==
    ASSUME RowsTyped, NEW ps \in SUBSET Projects, DeleteProjects(ps)
    PROVE  /\ projects' \subseteq Projects
           /\ project' \in [Sources -> projects' \cup {None}]
           /\ collection' \in [Sources -> Collections \cup {None}]
           /\ \A s \in Sources : project'[s] = None <=> collection'[s] = None
BY CollectionsAssumption DEF RowsTyped, DeleteProjects, DeleteSources

LEMMA StepRows ==
    ASSUME TypeOK, CallsOK, Next
    PROVE  RowsTyped' /\ AnswersTyped'
<1> USE CollectionsAssumption
<1>t. RowsTyped /\ AnswersTyped
  BY DEF TypeOK, RowsTyped, AnswersTyped
<1>u. ASSUME UNCHANGED <<rowVars, answerVars>>
      PROVE  RowsTyped' /\ AnswersTyped'
  BY <1>t, <1>u DEF RowsTyped, AnswersTyped, rowVars, answerVars
<1>a. ASSUME UNCHANGED answerVars PROVE AnswersTyped'
  BY <1>t, <1>a DEF AnswersTyped, answerVars
<1>1. ASSUME NEW r \in Requests, Serve(r)
      PROVE  RowsTyped' /\ AnswersTyped'
  <2>c. CallOK(call[r], upstream)
    BY DEF CallsOK
  <2>1. CASE Receive(r)
    BY <1>u, <2>1 DEF Receive, BeginCreate, BeginOnCollection, BeginOnConnection,
       BeginAttach, Begin
  <2>2. CASE \/ FindOrg(r) \/ Guard(r) \/ Act(r) \/ References(r) \/ Lookup(r)
             \/ Own(r) \/ FindProject(r) \/ ValidateAccess(r)
             \/ GetCollection(r) \/ Fail(r) \/ DeleteUpstream(r)
             \/ \E c \in Collections : CreateUpstream(r, c)
    BY <1>u, <2>2 DEF FindOrg, Guard, Act, References, Lookup, Own, FindProject,
       ValidateAccess, GetCollection, Fail, DeleteUpstream, CreateUpstream
  <2>3. CASE Record(r)
    <3>1. call[r].org \in Orgs /\ call[r].col \in Collections
      BY <2>c, <2>3 DEF Record, CallOK, OfOrganization
    <3>2. RowsTyped'
      BY <1>t, <2>3, <3>1 DEF Record, AddToAllowlist, RowsTyped
    <3>3. AnswersTyped'
      BY <1>t, <2>3, <3>1 DEF Record, AnswersTyped
    <3> QED
      BY <3>2, <3>3
  <2>4. CASE Forget(r)
    <3>1. call[r].org \in Orgs /\ call[r].col \in Collections
      BY <2>c, <2>4 DEF Forget, CallOK, OfOrganization, Deleting
    <3>2. RowsTyped'
      BY <1>t, <2>4, <3>1 DEF Forget, RemoveFromAllowlist, RowsTyped
    <3>3. AnswersTyped'
      BY <1>t, <2>4, <3>1 DEF Forget, AnswersTyped
    <3> QED
      BY <3>2, <3>3
  <2>5. ASSUME NEW s \in Sources, CreateSource(r, s)
        PROVE  RowsTyped' /\ AnswersTyped'
    <3>1. call[r].col \in Collections /\ UNCHANGED answerVars
      BY <2>c, <2>5 DEF CreateSource, CallOK, Attaching
    <3>2. RowsTyped'
      BY <1>t, <2>5, <3>1 DEF CreateSource, RowsTyped
    <3> QED
      BY <1>a, <3>1, <3>2
  <2> QED
    BY <1>1, <2>1, <2>2, <2>3, <2>4, <2>5 DEF Serve
<1>2. CASE Others
  <2>1. CASE \E c \in Collections : \/ EndSession(c) \/ DeleteInPortal(c)
                                    \/ \E k \in Connections : Widget(c, k)
    BY <1>u, <2>1 DEF EndSession, DeleteInPortal, Widget
  <2>2. ASSUME NEW s \in Sources, RemoveSource(s)
        PROVE  RowsTyped' /\ AnswersTyped'
    BY <1>t, <1>a, <2>2 DEF RemoveSource, DeleteSources, RowsTyped
  <2>3. ASSUME NEW p \in Projects, DeleteProject(p)
        PROVE  RowsTyped' /\ AnswersTyped'
    BY <1>t, <1>a, <2>3, DeleteProjectsTyped DEF DeleteProject, RowsTyped
  <2>4. ASSUME NEW o \in Orgs, DeleteOrg(o)
        PROVE  RowsTyped' /\ AnswersTyped'
    <3>1. DeleteProjects({p \in Projects : ProjectOrg[p] = o})
      BY <2>4 DEF DeleteOrg
    <3>2. /\ projects' \subseteq Projects
          /\ project' \in [Sources -> projects' \cup {None}]
          /\ collection' \in [Sources -> Collections \cup {None}]
          /\ \A s \in Sources : project'[s] = None <=> collection'[s] = None
      BY <1>t, <3>1, DeleteProjectsTyped
    <3>3. /\ orgs' \subseteq Orgs /\ form' = form
          /\ allow' \in [Orgs -> SUBSET Collections]
          /\ \A p \in Orgs \ orgs' : allow'[p] = {}
      BY <1>t, <2>4 DEF DeleteOrg, RowsTyped
    <3> QED
      BY <1>t, <1>a, <2>4, <3>2, <3>3 DEF DeleteOrg, RowsTyped
  <2>5. ASSUME NEW o \in Orgs, OpenForm(o)
        PROVE  RowsTyped' /\ AnswersTyped'
    BY <1>t, <1>a, <2>5 DEF OpenForm, RowsTyped
  <2>6. ASSUME NEW o \in Orgs, UpdateOrg(o)
        PROVE  RowsTyped' /\ AnswersTyped'
    <3>1. RowsTyped'
      BY <1>t, <2>6 DEF UpdateOrg, RowsTyped
    <3>2. AnswersTyped'
      BY <1>t, <2>6 DEF UpdateOrg, AnswersTyped
    <3> QED
      BY <3>1, <3>2
  <2> QED
    BY <1>2, <2>1, <2>2, <2>3, <2>4, <2>5, <2>6 DEF Others
<1>3. CASE Restart
  BY <1>u, <1>3 DEF Restart
<1> QED
  BY <1>1, <1>2, <1>3 DEF Next

-----------------------------------------------------------------------------
(* What requests have seen.                                                *)

SeenStep ==
    \A q \in Requests :
        /\ \A c \in seen'[q] : c \in seen[q] \/ \E o \in Orgs : c \in allow'[o]
        /\ call'[q].at # "idle" => seen[q] \subseteq seen'[q]
        /\ call'[q].at # "idle" /\ call'[q].org \in orgs' =>
              allow'[call'[q].org] \subseteq seen'[q]

LEMMA StepSeen ==
    ASSUME TypeOK, RowsTyped', CallTypes, Observe
    PROVE  SeenStep /\ seen' \in [Requests -> SUBSET Collections]
<1>1. ASSUME NEW q \in Requests
      PROVE  /\ \A c \in seen'[q] : c \in seen[q] \/ \E o \in Orgs : c \in allow'[o]
             /\ call'[q].at # "idle" => seen[q] \subseteq seen'[q]
             /\ call'[q].at # "idle" /\ call'[q].org \in orgs' =>
                   allow'[call'[q].org] \subseteq seen'[q]
             /\ seen'[q] \subseteq Collections
  BY DEF Observe, RowsTyped, TypeOK
<1>2. DOMAIN seen' = Requests /\ seen' = [q \in Requests |-> seen'[q]]
  BY DEF Observe
<1> QED
  BY <1>1, <1>2 DEF SeenStep

LEMMA StepTyped ==
    ASSUME TypeOK, CallsOK, PartsAreOfCollections, Next, UNCHANGED enforce
    PROVE  TypeOK' /\ PartsAreOfCollections' /\ Onwards /\ SeenStep
<1>1. CallTypes /\ RowsTyped' /\ AnswersTyped'
  BY NextCalls, StepRows
<1>2. AirweaveTyped' /\ PartsAreOfCollections' /\ Onwards
  <2>1. AirweaveTyped
    BY DEF TypeOK, AirweaveTyped
  <2> QED
    BY <2>1, StepAtAirweave, AirweaveStepSafe
<1>3. SeenStep /\ seen' \in [Requests -> SUBSET Collections]
  BY <1>1, StepSeen DEF Next
<1>4. TypeOK'
  BY <1>1, <1>2, <1>3 DEF TypeOK, CallTypes, RowsTyped, AnswersTyped, AirweaveTyped
<1> QED
  BY <1>2, <1>3, <1>4

-----------------------------------------------------------------------------
(* Who is met, who records, and whose lists.                               *)

\* Only what a request records is met for the first time.
LEMMA MetStep ==
    ASSUME TypeOK, TypeOK', CallsOK, Changes, SeenStep,
           NEW c \in Collections, Met(c)'
    PROVE  \/ Met(c)
           \/ \E r \in Requests : Record(r) /\ call[r].col = c
<1>1. CASE UNCHANGED <<orgs, allow, form, answerVars>>
  BY <1>1 DEF Met, Copy, SeenStep, answerVars
<1>2. ASSUME NEW r \in Requests, Record(r)
      PROVE  Met(c) \/ call[r].col = c
  <2>1. /\ \A o \in Orgs : c \in allow'[o] => c \in allow[o] \/ c = call[r].col
        /\ UNCHANGED <<form, removed>>
        /\ c # call[r].col => reported'[c] = reported[c]
    BY <1>2 DEF Record, AddToAllowlist, TypeOK
  <2> QED
    BY <2>1 DEF Met, Copy, SeenStep
<1>3. ASSUME NEW r \in Requests, Forget(r)
      PROVE  Met(c)
  <2>1. /\ \A o \in Orgs : c \in allow'[o] => c \in allow[o]
        /\ UNCHANGED <<form, reported>>
    BY <1>3 DEF Forget, RemoveFromAllowlist, TypeOK
  <2>2. \A o \in Orgs : <<o, c>> \in removed' => <<o, c>> \in removed \/ c \in seen[r]
    BY <1>3 DEF Forget
  <2> QED
    BY <2>1, <2>2 DEF Met, Copy, SeenStep
<1>4. ASSUME NEW o \in Orgs, OrgStep(o)
      PROVE  Met(c)
  <2>1. \A p \in Orgs : c \in allow'[p] => c \in allow[p] \/ c \in Copy(p)
    BY <1>4 DEF OrgStep, DeleteOrg, OpenForm, UpdateOrg, Copy, TypeOK
  <2>2. \A p \in Orgs : c \in Copy(p)' => c \in allow[p] \/ c \in Copy(p)
    BY <1>4 DEF OrgStep, DeleteOrg, OpenForm, UpdateOrg, Copy, TypeOK
  <2>3. UNCHANGED <<removed, reported>>
    BY <1>4 DEF OrgStep, DeleteOrg, OpenForm, UpdateOrg, answerVars
  <2> QED
    BY <2>1, <2>2, <2>3 DEF Met, SeenStep
<1> QED
  BY <1>1, <1>2, <1>3, <1>4 DEF Changes, Quiet, Creates

\* Who records after a step did before it, or creates what was absent.
LEMMA RecordsStep ==
    ASSUME TypeOK, TypeOK', Changes, NEW q \in Requests, call'[q].at = "record"
    PROVE  \/ call'[q] = call[q]
           \/ \E c \in Collections : Creates(q, c) /\ call'[q].col = c
<1>1. ASSUME NEW r \in Requests, Record(r) \/ Forget(r)
      PROVE  call'[q] = call[q]
  BY <1>1 DEF Record, Forget, End, Keep, NoCall, TypeOK
<1>2. ASSUME NEW r \in Requests, NEW c \in Collections, Creates(r, c)
      PROVE  call'[q] = call[q] \/ (q = r /\ call'[q].col = c)
  BY <1>2 DEF Creates
<1> QED
  BY <1>1, <1>2 DEF Changes, Quiet, NobodyCreates, OrgStep

LEMMA StepLedger ==
    ASSUME TypeOK, TypeOK', CallsOK, Changes, Onwards, SeenStep, Ledger
    PROVE  Ledger'
<1> USE CollectionsAssumption DEF Ledger
<1>r. \A q \in Requests : call[q].at = "record" =>
         call[q].col \in Collections \ Legacy /\ upstream[call[q].col] # "absent"
  BY DEF CallsOK, CallOK
<1>1. Fresh'
  <2> SUFFICES ASSUME NEW c \in Collections, Met(c)',
                      \/ upstream'[c] = "absent"
                      \/ \E q \in Requests : call'[q].at = "record" /\ call'[q].col = c
               PROVE  FALSE
    BY DEF Fresh
  <2>1. CASE Met(c)
    <3>1. upstream[c] # "absent" /\ upstream'[c] # "absent"
      BY <2>1 DEF Fresh, Onwards
    <3>2. ASSUME NEW q \in Requests, call'[q].at = "record", call'[q].col = c
          PROVE  FALSE
      BY <2>1, <3>1, <3>2, RecordsStep DEF Fresh, Creates
    <3> QED
      BY <3>1, <3>2
  <2>2. ASSUME NEW r \in Requests, Record(r), call[r].col = c
        PROVE  FALSE
    <3>1. call[r].at = "record" /\ call' = [call EXCEPT ![r] = NoCall]
      BY <2>2 DEF Record, End, Keep
    <3>2. upstream[c] # "absent" /\ upstream'[c] # "absent"
      BY <1>r, <2>2, <3>1 DEF Onwards
    <3>3. ASSUME NEW q \in Requests, call'[q].at = "record", call'[q].col = c
          PROVE  FALSE
      <4>1. q # r /\ call'[q] = call[q]
        BY <3>1, <3>3 DEF TypeOK, NoCall
      <4> QED
        BY <2>2, <3>1, <3>3, <4>1 DEF OneRecords
    <3> QED
      BY <3>2, <3>3
  <2> QED
    BY <2>1, <2>2, MetStep
<1>2. LegacyIsDrawn'
  BY DEF LegacyIsDrawn, Onwards
<1>3. OneRecords'
  <2> SUFFICES ASSUME NEW q1 \in Requests, NEW q2 \in Requests,
                      call'[q1].at = "record", call'[q2].at = "record",
                      call'[q1].col = call'[q2].col
               PROVE  q1 = q2
    BY DEF OneRecords
  <2>1. CASE call'[q1] = call[q1] /\ call'[q2] = call[q2]
    BY <2>1 DEF OneRecords
  <2>2. ASSUME NEW r \in Requests, NEW c \in Collections, Creates(r, c)
        PROVE  q1 = q2
    BY <1>r, <2>2 DEF Creates, OneRecords
  <2> QED
    BY <2>1, <2>2, RecordsStep
<1>4. ListsAreDisjoint'
  <2> SUFFICES ASSUME NEW p1 \in Orgs, NEW p2 \in Orgs, NEW c \in Collections \ Legacy,
                      c \in allow'[p1] \cup Copy(p1)', c \in allow'[p2] \cup Copy(p2)'
               PROVE  p1 = p2
    BY DEF ListsAreDisjoint
  <2>1. CASE /\ c \in allow[p1] \cup Copy(p1)
             /\ c \in allow[p2] \cup Copy(p2)
    BY <2>1 DEF ListsAreDisjoint
  <2>2. CASE UNCHANGED <<orgs, allow, form, answerVars>>
    BY <2>1, <2>2 DEF Copy
  <2>3. ASSUME NEW r \in Requests, Record(r)
        PROVE  p1 = p2
    <3>1. CASE c = call[r].col
      <4>1. ~Met(c)
        BY <2>3, <3>1 DEF Fresh, Record
      <4>2. \A o \in Orgs : c \notin allow[o] /\ c \notin Copy(o)
        BY <4>1 DEF Met
      <4>3. \A o \in Orgs : c \in allow'[o] \/ c \in Copy(o)' => o = call[r].org
        BY <2>3, <4>2 DEF Record, AddToAllowlist, Copy, TypeOK
      <4> QED
        BY <4>3
    <3>2. CASE c # call[r].col
      <4>1. \A o \in Orgs : /\ c \in allow'[o] => c \in allow[o]
                            /\ c \in Copy(o)' => c \in Copy(o)
        BY <2>3, <3>2 DEF Record, AddToAllowlist, Copy, TypeOK
      <4> QED
        BY <2>1, <4>1
    <3> QED
      BY <3>1, <3>2
  <2>4. ASSUME NEW r \in Requests, Forget(r)
        PROVE  p1 = p2
    <3>1. \A o \in Orgs : /\ c \in allow'[o] => c \in allow[o]
                          /\ c \in Copy(o)' => c \in Copy(o)
      BY <2>4 DEF Forget, RemoveFromAllowlist, Copy, TypeOK
    <3> QED
      BY <2>1, <3>1
  <2>5. ASSUME NEW o \in Orgs, OrgStep(o)
        PROVE  p1 = p2
    <3>1. \A p \in Orgs : c \in allow'[p] => c \in allow[p] \/ c \in Copy(p)
      BY <2>5 DEF OrgStep, DeleteOrg, OpenForm, UpdateOrg, Copy, TypeOK
    <3>2. \A p \in Orgs : c \in Copy(p)' => c \in allow[p] \/ c \in Copy(p)
      BY <2>5 DEF OrgStep, DeleteOrg, OpenForm, UpdateOrg, Copy, TypeOK
    <3> QED
      BY <2>1, <3>1, <3>2
  <2> QED
    BY <2>2, <2>3, <2>4, <2>5 DEF Changes, Quiet, Creates
<1> QED
  BY <1>1, <1>2, <1>3, <1>4

-----------------------------------------------------------------------------
(* What was answered, and what requests do.                                *)

LEMMA StepOwners ==
    ASSUME TypeOK, TypeOK', CallsOK, Changes, Onwards, Ledger,
           OwnersKeepTheirCollections
    PROVE  OwnersKeepTheirCollections'
<1> SUFFICES ASSUME NEW c \in Collections, reported'[c] \in orgs' \ overwritten',
                    upstream'[c] = "present"
             PROVE  c \in allow'[reported'[c]]
  BY DEF OwnersKeepTheirCollections
<1> DEFINE o == reported'[c]
<1>o. o \in Orgs
  BY DEF TypeOK
<1>1. CASE /\ UNCHANGED <<orgs, allow, form, answerVars>>
           /\ upstream[c] = "present"
  BY <1>1 DEF OwnersKeepTheirCollections, answerVars
<1>2. CASE /\ UNCHANGED <<orgs, allow, form, answerVars>>
           /\ upstream[c] = "absent"
  <2>1. reported[c] = None
    BY <1>2 DEF Ledger, Fresh, Met
  <2> QED
    BY <1>2, <1>o, <2>1, CollectionsAssumption DEF answerVars
<1>3. ASSUME NEW r \in Requests, Record(r)
      PROVE  c \in allow'[o]
  <2>1. UNCHANGED <<orgs, upstream, overwritten>>
    BY <1>3 DEF Record, airweaveVars
  <2>2. CASE reported'[c] = reported[c]
    <3>1. c \in allow[o]
      BY <2>1, <2>2 DEF OwnersKeepTheirCollections
    <3> QED
      BY <1>3, <1>o, <3>1 DEF Record, AddToAllowlist, TypeOK
  <2>3. CASE c = call[r].col /\ o = call[r].org
    BY <1>3, <1>o, <2>1, <2>3 DEF Record, AddToAllowlist, TypeOK
  <2> QED
    BY <1>3, <2>2, <2>3 DEF Record, TypeOK
<1>4. ASSUME NEW r \in Requests, Forget(r)
      PROVE  c \in allow'[o]
  <2>1. UNCHANGED <<orgs, upstream, overwritten, reported>>
    BY <1>4 DEF Forget, airweaveVars
  <2>2. c \in allow[o]
    BY <2>1 DEF OwnersKeepTheirCollections
  <2>3. c # call[r].col
    BY <1>4, <2>1 DEF Forget, CallsOK, CallOK
  <2> QED
    BY <1>4, <1>o, <2>2, <2>3 DEF Forget, RemoveFromAllowlist, TypeOK
<1>5. ASSUME NEW p \in Orgs, OrgStep(p)
      PROVE  c \in allow'[o]
  <2>1. /\ UNCHANGED <<reported, upstream>>
        /\ orgs' \subseteq orgs /\ overwritten \subseteq overwritten'
    BY <1>5 DEF OrgStep, DeleteOrg, OpenForm, UpdateOrg, answerVars
  <2>2. c \in allow[o]
    BY <2>1 DEF OwnersKeepTheirCollections
  <2>3. allow'[o] = allow[o]
    BY <1>5, <1>o, <2>1 DEF OrgStep, DeleteOrg, OpenForm, UpdateOrg, TypeOK
  <2> QED
    BY <2>2, <2>3
<1>6. upstream[c] \in {"absent", "present"}
  BY DEF Onwards, TypeOK
<1> QED
  BY <1>1, <1>2, <1>3, <1>4, <1>5, <1>6 DEF Changes, Quiet, Creates

LEMMA StepDeleted ==
    ASSUME TypeOK, TypeOK', CallsOK, Changes, Onwards, Ledger, DeletedStaysDeleted
    PROVE  DeletedStaysDeleted'
<1> SUFFICES ASSUME NEW o \in Orgs, NEW c \in Collections, <<o, c>> \in removed'
             PROVE  /\ upstream'[c] = "deleted"
                    /\ o \in overwritten' \/ c \notin allow'[o]
  BY DEF DeletedStaysDeleted, TypeOK
<1>1. ASSUME <<o, c>> \in removed
      PROVE  /\ upstream'[c] = "deleted"
             /\ o \in overwritten' \/ c \notin allow'[o]
  <2>1. upstream'[c] = "deleted"
    BY <1>1 DEF DeletedStaysDeleted, Onwards
  <2>2. o \in overwritten \/ c \notin allow[o]
    BY <1>1 DEF DeletedStaysDeleted
  <2>3. CASE UNCHANGED <<orgs, allow, form, answerVars>>
    BY <2>1, <2>2, <2>3 DEF answerVars
  <2>4. ASSUME NEW r \in Requests, Record(r)
        PROVE  o \in overwritten' \/ c \notin allow'[o]
    <3>1. c # call[r].col
      BY <1>1, <2>4 DEF Ledger, Fresh, Met, Record
    <3> QED
      BY <2>2, <2>4, <3>1 DEF Record, AddToAllowlist, TypeOK
  <2>5. ASSUME NEW r \in Requests, Forget(r)
        PROVE  o \in overwritten' \/ c \notin allow'[o]
    BY <2>2, <2>5 DEF Forget, RemoveFromAllowlist, TypeOK
  <2>6. ASSUME NEW p \in Orgs, OrgStep(p)
        PROVE  o \in overwritten' \/ c \notin allow'[o]
    BY <2>2, <2>6 DEF OrgStep, DeleteOrg, OpenForm, UpdateOrg, answerVars, TypeOK
  <2> QED
    BY <2>1, <2>3, <2>4, <2>5, <2>6 DEF Changes, Quiet, Creates
<1>2. CASE <<o, c>> \notin removed
  <2>1. PICK r \in Requests : Forget(r)
    BY <1>2 DEF Changes, Quiet, Creates, Record, OrgStep, DeleteOrg, OpenForm,
       UpdateOrg, answerVars
  <2>2. o = call[r].org /\ c = call[r].col
    BY <1>2, <2>1 DEF Forget
  <2>3. upstream'[c] = "deleted"
    BY <2>1, <2>2 DEF Forget, CallsOK, CallOK, Deleting, TypeOK, Onwards
  <2>4. c \notin allow'[o]
    BY <2>1, <2>2 DEF Forget, RemoveFromAllowlist, TypeOK
  <2> QED
    BY <2>3, <2>4
<1> QED
  BY <1>1, <1>2

\* A request's next step is allowed: its organization had the collection.
Owned(c, have) ==
    /\ c.at \in {"act", "references", "deleteUpstream", "forget", "exists", "insert"}
    /\ ~c.super
    /\ enforce \/ c.op \in OnConnection \cup {"attach"}
    => c.col \in have

LEMMA StepOwned ==
    ASSUME TypeOK, CallsOK, ActsAreOwned, SeenStep, UNCHANGED enforce,
           NEW r \in Requests, Serve(r), CallTypes
    PROVE  Owned(call'[r], seen'[r])
<1>w. SUFFICES ASSUME NEW now, now = call'[r]
              PROVE  Owned(now, seen'[r])
  OBVIOUS
<1>c. /\ call[r] \in Calls /\ CallOK(call[r], upstream)
      /\ Owned(call[r], seen[r])
  BY DEF TypeOK, CallsOK, ActsAreOwned, Owned
<1>s. /\ now.at # "idle" => seen[r] \subseteq seen'[r]
      /\ now.at # "idle" /\ now.org \in orgs' => allow'[now.org] \subseteq seen'[r]
  BY <1>w DEF SeenStep
<1>e. ASSUME now.at = "idle" \/ now.super PROVE Owned(now, seen'[r])
  BY <1>e DEF Owned
<1>n. ASSUME now.at \in {"findOrg", "createUpstream", "record", "guard", "lookup",
                         "own", "project", "access"}
      PROVE  Owned(now, seen'[r])
  BY <1>n DEF Owned
<1>k. ASSUME NEW c, Keep(r, c) PROVE now = c
  BY <1>k, <1>w DEF Keep, TypeOK
<1>0. CASE End(r)
  BY <1>0, <1>e, <1>k DEF End, NoCall
<1>g. ASSUME NEW at \in Steps, Goto(r, at)
      PROVE  /\ now.at = at /\ now.op = call[r].op /\ now.super = call[r].super
             /\ now.col = call[r].col /\ now.org = call[r].org
  BY <1>c, <1>g, <1>k DEF Goto, Calls
\* The list allows the collection in this step.
<1>a. ASSUME NEW at \in Steps, Goto(r, at), at # "idle", UNCHANGED <<orgs, allow>>,
             call[r].col \in Allowed(call[r].org)
      PROVE  Owned(now, seen'[r])
  <2>1. now.org \in orgs /\ now.col \in allow'[now.org] /\ now.at # "idle"
    BY <1>a, <1>g DEF Allowed
  <2> QED
    BY <1>a, <1>s, <2>1 DEF Owned
\* It was allowed, and nothing else of the request changes.
<1>b. ASSUME NEW at \in Steps, Goto(r, at), at # "idle",
             call[r].at \in {"references", "deleteUpstream", "exists"}
      PROVE  Owned(now, seen'[r])
  BY <1>b, <1>c, <1>g, <1>s DEF Owned
<1>1. CASE Receive(r)
  <2>1. ASSUME NEW o, BeginCreate(r, o)
        PROVE  now.at = "findOrg"
    BY <2>1, <1>k DEF BeginCreate, Begin, NoCall
  <2>2. ASSUME NEW op, NEW super, NEW o, NEW c, BeginOnCollection(r, op, super, o, c),
               super \in BOOLEAN
        PROVE  now.at = "guard" \/ now.super
    <3> DEFINE old == [NoCall EXCEPT !.op = op, !.super = super, !.org = o, !.col = c]
               new == [old EXCEPT !.at = IF super THEN AfterOwnership(old) ELSE "guard"]
    <3>1. now = new
      BY <2>2, <1>k DEF BeginOnCollection, Begin
    <3>2. new.super = super /\ (~super => new.at = "guard")
      BY <2>2 DEF NoCall
    <3> HIDE DEF new
    <3> QED
      BY <2>2, <3>1, <3>2
  <2>3. ASSUME NEW op, NEW super, NEW o, NEW k, BeginOnConnection(r, op, super, o, k)
        PROVE  now.at = "lookup"
    BY <2>3, <1>k DEF BeginOnConnection, Begin, NoCall
  <2>4. ASSUME NEW super, NEW o, NEW p, NEW c, BeginAttach(r, super, o, p, c)
        PROVE  now.at = "project"
    BY <2>4, <1>k DEF BeginAttach, Begin, NoCall
  <2> QED
    BY <1>1, <1>e, <1>n, <2>1, <2>2, <2>3, <2>4 DEF Receive
<1>2. CASE Record(r) \/ Act(r) \/ Forget(r) \/ Fail(r)
           \/ \E s \in Sources : CreateSource(r, s)
  BY <1>0, <1>2 DEF Record, Act, Forget, Fail, CreateSource
<1>3. CASE FindOrg(r)
  BY <1>0, <1>3, <1>g, <1>n DEF FindOrg, Steps
<1>4. ASSUME NEW c \in Collections, CreateUpstream(r, c)
      PROVE  Owned(now, seen'[r])
  <2>1. [call[r] EXCEPT !.at = "record", !.col = c].at = "record"
    BY <1>c DEF Calls
  <2> QED
    BY <1>0, <1>4, <1>k, <1>n, <2>1 DEF CreateUpstream, Answered
<1>5. CASE Guard(r)
  <2>0. UNCHANGED <<orgs, allow>> /\ AfterOwnership(call[r]) \in Steps \ {"idle"}
    BY <1>5 DEF Guard, rowVars, AfterOwnership, Steps
  <2>1. CASE call[r].col \in Allowed(call[r].org) /\ Goto(r, AfterOwnership(call[r]))
    BY <1>a, <2>0, <2>1
  <2>2. CASE ~enforce /\ Goto(r, AfterOwnership(call[r]))
    <3>1. now.op \in OnCollection
      BY <1>5, <1>c, <1>g, <2>0, <2>2 DEF Guard, CallOK
    <3> QED
      BY <2>2, <3>1 DEF Owned, OnCollection, OnConnection
  <2> QED
    BY <1>0, <1>5, <2>1, <2>2 DEF Guard
<1>6. CASE References(r)
  BY <1>0, <1>6, <1>b DEF References, Steps
<1>7. CASE DeleteUpstream(r)
  <2>1. CASE Keep(r, [call[r] EXCEPT !.at = "forget"])
    <3>1. Goto(r, "forget") /\ "forget" \in Steps /\ call[r].at = "deleteUpstream"
      BY <1>7, <2>1 DEF Goto, Steps, DeleteUpstream
    <3> QED
      BY <1>b, <3>1
  <2> QED
    BY <1>0, <1>7, <2>1 DEF DeleteUpstream, Answered
<1>8. CASE Lookup(r)
  <2> DEFINE new == [call[r] EXCEPT !.col = parent[call[r].con],
                                    !.at = IF call[r].super THEN "act" ELSE "own"]
  <2>1. CASE Keep(r, new)
    <3>1. now = new
      BY <2>1, <1>k
    <3>2. new.super \/ new.at = "own"
      BY <1>c DEF Calls
    <3> HIDE DEF new
    <3> QED
      BY <1>e, <1>n, <3>1, <3>2
  <2> QED
    BY <1>0, <1>8, <2>1 DEF Lookup
<1>9. CASE Own(r)
  BY <1>0, <1>9, <1>a DEF Own, rowVars, Steps
<1>10. CASE FindProject(r)
  <2>1. CASE Goto(r, IF call[r].super THEN "exists" ELSE "access")
    BY <2>1, <1>e, <1>g, <1>n DEF Steps
  <2> QED
    BY <1>0, <1>10, <2>1 DEF FindProject
<1>11. CASE ValidateAccess(r)
  BY <1>0, <1>11, <1>a DEF ValidateAccess, rowVars, Steps
<1>12. CASE GetCollection(r)
  BY <1>0, <1>12, <1>b DEF GetCollection, Steps
<1> QED
  BY <1>1, <1>2, <1>3, <1>4, <1>5, <1>6, <1>7, <1>8, <1>9, <1>10, <1>11, <1>12,
     <1>w DEF Serve

\* A step of one request leaves the others' calls.
LEMMA OneServes ==
    ASSUME TypeOK, NEW r \in Requests, Serve(r), NEW q \in Requests \ {r}
    PROVE  call'[q] = call[q]
<1>k. ASSUME NEW c, Keep(r, c) PROVE call'[q] = call[q]
  BY <1>k DEF Keep, TypeOK
<1>e. ASSUME End(r) PROVE call'[q] = call[q]
  BY <1>e, <1>k DEF End
<1>g. ASSUME NEW at, Goto(r, at) PROVE call'[q] = call[q]
  BY <1>g, <1>k DEF Goto
<1>1. CASE Receive(r)
  <2>1. ASSUME NEW c, Begin(r, c) PROVE call'[q] = call[q]
    BY <2>1, <1>k DEF Begin
  <2> QED
    BY <1>1, <2>1
    DEF Receive, BeginCreate, BeginOnCollection, BeginOnConnection, BeginAttach
<1>2. CASE Record(r) \/ Act(r) \/ Forget(r) \/ Fail(r)
           \/ \E s \in Sources : CreateSource(r, s)
  BY <1>2, <1>e DEF Record, Act, Forget, Fail, CreateSource
<1>3. CASE \/ FindOrg(r) \/ Guard(r) \/ References(r) \/ Own(r)
           \/ FindProject(r) \/ ValidateAccess(r) \/ GetCollection(r)
  BY <1>3, <1>e, <1>g DEF FindOrg, Guard, References, Own, FindProject,
     ValidateAccess, GetCollection
<1>4. CASE \/ \E c \in Collections : CreateUpstream(r, c)
           \/ DeleteUpstream(r) \/ Lookup(r)
  BY <1>4, <1>e, <1>k DEF CreateUpstream, DeleteUpstream, Lookup, Answered
<1> QED
  BY <1>1, <1>2, <1>3, <1>4 DEF Serve

LEMMA StepActs ==
    ASSUME TypeOK, CallsOK, ActsAreOwned, SeenStep, Next, UNCHANGED enforce
    PROVE  ActsAreOwned'
<1> SUFFICES ASSUME NEW q \in Requests PROVE Owned(call'[q], seen'[q])
  BY DEF ActsAreOwned, Owned
<1>1. CASE call'[q] = call[q]
  BY <1>1 DEF ActsAreOwned, Owned, SeenStep
<1>2. CASE Restart
  BY <1>2 DEF Restart, NoCall, Owned
<1>3. CASE Others
  BY <1>1, <1>3 DEF Others
<1>4. ASSUME NEW r \in Requests, Serve(r)
      PROVE  Owned(call'[q], seen'[q])
  BY <1>1, <1>4, NextCalls, StepOwned, OneServes
<1> QED
  BY <1>2, <1>3, <1>4 DEF Next

-----------------------------------------------------------------------------
(* The theorems.                                                           *)

AirweaveInv ==
    /\ TypeOK /\ CallsOK /\ PartsAreOfCollections /\ Ledger
    /\ OwnersKeepTheirCollections /\ ActsAreOwned /\ DeletedStaysDeleted

LEMMA InitInv ==
    ASSUME Init
    PROVE  AirweaveInv
<1> USE CollectionsAssumption DEF Init
<1>1. TypeOK
  BY NoCallTyped DEF TypeOK
<1>2. CallsOK
  BY IdleOK DEF CallsOK
<1>3. PartsAreOfCollections /\ OwnersKeepTheirCollections /\ DeletedStaysDeleted
  BY DEF PartsAreOfCollections, OwnersKeepTheirCollections, DeletedStaysDeleted
<1>4. ActsAreOwned
  BY DEF ActsAreOwned, NoCall
<1>5. Fresh /\ LegacyIsDrawn /\ OneRecords
  BY DEF Fresh, LegacyIsDrawn, OneRecords, Met, Copy, NoCall
<1>6. ListsAreDisjoint
  BY DEF ListsAreDisjoint, Copy
<1> QED
  BY <1>1, <1>2, <1>3, <1>4, <1>5, <1>6 DEF AirweaveInv, Ledger

LEMMA NextInv ==
    ASSUME AirweaveInv, [Next]_vars
    PROVE  AirweaveInv'
<1> USE DEF AirweaveInv
<1>1. CASE Next
  <2>0. UNCHANGED enforce
    BY <1>1 DEF Next
  <2>1. TypeOK' /\ PartsAreOfCollections' /\ Onwards /\ SeenStep
    BY <1>1, <2>0, StepTyped
  <2>2. Changes
    BY <1>1, StepChanges
  <2>3. CallsOK'
    BY <1>1, <2>1, StepCalls DEF Ledger
  <2>4. Ledger'
    BY <2>1, <2>2, StepLedger
  <2>5. OwnersKeepTheirCollections'
    BY <2>1, <2>2, StepOwners
  <2>6. ActsAreOwned'
    BY <1>1, <2>0, <2>1, StepActs
  <2>7. DeletedStaysDeleted'
    BY <2>1, <2>2, StepDeleted
  <2> QED
    BY <2>1, <2>3, <2>4, <2>5, <2>6, <2>7
<1>2. CASE UNCHANGED vars
  BY <1>2 DEF vars, rowVars, airweaveVars, answerVars, countVars, TypeOK, CallsOK,
     CallOK, PartsAreOfCollections, Ledger, Fresh, LegacyIsDrawn, OneRecords,
     ListsAreDisjoint, Met, Copy, OwnersKeepTheirCollections, ActsAreOwned,
     DeletedStaysDeleted
<1> QED
  BY <1>1, <1>2

LEMMA Invariance == Spec => []AirweaveInv
<1>1. Init => AirweaveInv
  BY InitInv
<1>2. AirweaveInv /\ [Next]_vars => AirweaveInv'
  BY NextInv
<1> QED
  BY <1>1, <1>2, PTL DEF Spec

\* The variables keep their types, and what is at Airweave belongs to a
\* collection that is there.
THEOREM CollectionsTyped == Spec => [](TypeOK /\ PartsAreOfCollections)
<1>1. AirweaveInv => TypeOK /\ PartsAreOfCollections
  BY DEF AirweaveInv
<1> QED
  BY <1>1, Invariance, PTL

\* Creating is two writes to two systems, and deleting is two others.  However
\* they overlap and wherever they fail, an organization that was told of its
\* collection has it in its list as long as it is there.
THEOREM OwnersKeep == Spec => []OwnersKeepTheirCollections
<1>1. AirweaveInv => OwnersKeepTheirCollections
  BY DEF AirweaveInv
<1> QED
  BY <1>1, Invariance, PTL

\* A collection made here has one owner.
THEOREM OwnersAreSingle == Spec => []OneOwner
<1>1. AirweaveInv => OneOwner
  BY DEF AirweaveInv, OneOwner, Ledger, ListsAreDisjoint, TypeOK
<1> QED
  BY <1>1, Invariance, PTL

\* The ownership is checked in one step and used in a later one.
THEOREM OwnershipIsChecked == Spec => []ActsAreOwned
<1>1. AirweaveInv => ActsAreOwned
  BY DEF AirweaveInv
<1> QED
  BY <1>1, Invariance, PTL

\* What was deleted does not come back.
THEOREM DeletionIsFinal == Spec => []DeletedStaysDeleted
<1>1. AirweaveInv => DeletedStaysDeleted
  BY DEF AirweaveInv
<1> QED
  BY <1>1, Invariance, PTL
=============================================================================
