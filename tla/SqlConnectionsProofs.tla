------------------------- MODULE SqlConnectionsProofs -------------------------
(***************************************************************************)
(* Theorems about SqlConnections, for any number of connections, keys,     *)
(* requests, tests and upgrades.                                           *)
(***************************************************************************)
EXTENDS SqlConnections, TLAPS

-----------------------------------------------------------------------------
(* Types.                                                                  *)

\* A request begins by remembering what it has read, and ends empty.
LEMMA BeginTypes ==
    ASSUME RequestsTypeOK, NEW r \in Requests, NEW next \in Steps,
           NEW read \in Calls, Begin(r, next, read),
           next # "idle" => read.conn \in Connections,
           next = "update" => read.secret \in Secrets,
           next = "attach" => read.project \in Projects
    PROVE  RequestsTypeOK'
BY DEF Begin, RequestsTypeOK

LEMMA NoCallType == NoCall \in Calls
BY DEF NoCall, Calls

LEMMA EndTypes ==
    ASSUME RequestsTypeOK, NEW r \in Requests, End(r)
    PROVE  RequestsTypeOK'
<1>1. "idle" \in Steps
  BY DEF Steps
<1> QED
  BY <1>1, NoCallType DEF End, RequestsTypeOK

\* Scheduling an upgrade fills a slot with a write under the current key.
LEMMA ScheduleTypes ==
    ASSUME CredentialsTypeOK, NEW c \in Connections, NEW s \in Secrets,
           ScheduleUpgrade(c, s)
    PROVE  upgrade' \in [Upgrades -> Writes \cup {None}]
<1>1. CASE UNCHANGED upgrade
  BY <1>1 DEF CredentialsTypeOK
<1>2. CASE \E u \in Upgrades :
              upgrade' = [upgrade EXCEPT ![u] =
                              [conn |-> c, secret |-> Encrypt(s.password)]]
  <2>1. Encrypt(s.password) \in Secrets
    BY DEF Encrypt, Secrets, CredentialsTypeOK
  <2>2. [conn |-> c, secret |-> Encrypt(s.password)] \in Writes
    BY <2>1 DEF Writes
  <2> QED
    BY <1>2, <2>2 DEF CredentialsTypeOK
<1> QED
  BY <1>1, <1>2 DEF ScheduleUpgrade

LEMMA StartTestTypes ==
    ASSUME test \in [Tests -> Connections \cup {None}],
           NEW c \in Connections, StartTest(c)
    PROVE  test' \in [Tests -> Connections \cup {None}] /\ dropped' = dropped
BY DEF StartTest

\* A row's secret is a secret, and None is none.
LEMMA RowIsSecret ==
    ASSUME CredentialsTypeOK, NEW c \in Connections, Row(c)
    PROVE  secret[c] \in Secrets
BY DEF CredentialsTypeOK, Row

LEMMA NoneIsNoSecret == None \notin Secrets
BY CredentialsAssumption DEF Secrets

LEMMA EncryptType ==
    ASSUME CredentialsTypeOK, NEW p \in Passwords
    PROVE  Encrypt(p) \in Secrets /\ Encrypt(p) # None
<1>1. Encrypt(p) \in Secrets
  BY DEF Encrypt, Secrets, CredentialsTypeOK
<1> QED
  BY <1>1, NoneIsNoSecret

LEMMA InitTypes == Init => TypeOK
<1> SUFFICES ASSUME Init PROVE TypeOK
  OBVIOUS
<1>1. CredentialsTypeOK
  BY DEF Init, CredentialsInit, CredentialsTypeOK
<1>2. \A c \in Connections : Row(c) <=> status[c] \notin {"absent", "deleted"}
  BY DEF Init
<1>3. RequestsTypeOK
  BY NoCallType DEF Init, Steps, RequestsTypeOK
<1> QED
  BY <1>1, <1>2, <1>3 DEF Init, TypeOK

LEMMA TypeStep == TypeOK /\ [Next]_vars => TypeOK'
<1> SUFFICES ASSUME TypeOK, [Next]_vars PROVE TypeOK'
  OBVIOUS
<1> USE DEF TypeOK, CredentialsTypeOK, Row, secretVars, keyVars, rowVars,
            testVars, requestVars
<1>0. CASE UNCHANGED vars
  BY <1>0 DEF vars, RequestsTypeOK
<1>1. ASSUME NEW c \in Connections, Read(c) \/ TestById(c) PROVE TypeOK'
  BY <1>1, RowIsSecret, ScheduleTypes, StartTestTypes
     DEF Read, TestById, ReadPassword, DecryptPassword, RequestsTypeOK
<1>2. ASSUME NEW c \in Connections, NEW p \in Passwords, Create(c, p)
      PROVE  TypeOK'
  <2>1. Encrypt(p) \in Secrets /\ Encrypt(p) # None
    BY EncryptType
  <2> QED
    BY <1>2, <2>1, StartTestTypes DEF Create, WriteSecret, RequestsTypeOK
<1>3. ASSUME NEW c \in Connections, NEW r \in Requests,
             BeginUpdate(r, c) \/ CountReferences(r, c)
      PROVE  TypeOK'
  <2>1. /\ [NoCall EXCEPT !.conn = c, !.secret = secret[c]] \in Calls
        /\ [NoCall EXCEPT !.conn = c] \in Calls
        /\ {"update", "delete"} \subseteq Steps
        /\ Row(c) => secret[c] \in Secrets
    BY DEF NoCall, Calls, Steps
  <2>2. [NoCall EXCEPT !.conn = c, !.secret = secret[c]].conn = c
        /\ [NoCall EXCEPT !.conn = c, !.secret = secret[c]].secret = secret[c]
        /\ [NoCall EXCEPT !.conn = c].conn = c
    BY DEF NoCall
  <2>3. RequestsTypeOK'
    BY <1>3, <2>1, <2>2, BeginTypes DEF BeginUpdate, CountReferences
  <2> QED
    BY <1>3, <2>3 DEF BeginUpdate, CountReferences
<1>4. ASSUME NEW c \in Connections, NEW r \in Requests, NEW p \in Projects,
             FindForAttach(r, p, c)
      PROVE  TypeOK'
  <2>1. /\ [NoCall EXCEPT !.conn = c, !.project = p] \in Calls
        /\ "attach" \in Steps
    BY DEF NoCall, Calls, Steps
  <2>2. RequestsTypeOK'
    BY <1>4, <2>1, BeginTypes DEF FindForAttach, NoCall
  <2> QED
    BY <1>4, <2>2 DEF FindForAttach
<1>5. ASSUME NEW r \in Requests, NEW p \in Passwords, UpdatePassword(r, p)
      PROVE  TypeOK'
  <2>1. Encrypt(p) \in Secrets /\ Encrypt(p) # None
    BY EncryptType
  <2>2. call[r].conn \in Connections
    BY <1>5 DEF UpdatePassword, RequestsTypeOK
  <2> QED
    BY <1>5, <2>1, <2>2, StartTestTypes, EndTypes
       DEF UpdatePassword, WriteSecret
<1>6. ASSUME NEW r \in Requests, UpdateEndpoint(r) PROVE TypeOK'
  BY <1>6, StartTestTypes, EndTypes, ScheduleTypes
     DEF UpdateEndpoint, DecryptPassword, RequestsTypeOK
<1>7. ASSUME NEW r \in Requests, UpdateWithoutTest(r) PROVE TypeOK'
  BY <1>7, EndTypes DEF UpdateWithoutTest
<1>8. ASSUME NEW r \in Requests, Delete(r) PROVE TypeOK'
  BY <1>8, EndTypes DEF Delete, WriteSecret, RequestsTypeOK
<1>9. ASSUME NEW r \in Requests, CreateSource(r) PROVE TypeOK'
  <2>1. project[call[r].project] = "present" =>
           /\ call[r].project \in Projects
           /\ call[r].conn \in Connections
    BY <1>9 DEF CreateSource, RequestsTypeOK
  <2> QED
    BY <1>9, <2>1, EndTypes DEF CreateSource, DataSources
<1>10. ASSUME NEW t \in Tests, NEW verdict \in {"ready", "error"},
              FinishTest(t, verdict)
       PROVE  TypeOK'
  BY <1>10 DEF FinishTest, RequestsTypeOK
<1>11. ASSUME NEW u \in Upgrades, EndUpgrade(u) PROVE TypeOK'
  <2>1. upgrade[u] \in Writes
    BY <1>11 DEF EndUpgrade, FinishUpgrade, UpgradeFails
  <2>2. /\ upgrade[u].conn \in Connections
        /\ upgrade[u].secret \in Secrets /\ upgrade[u].secret # None
    BY <2>1, NoneIsNoSecret DEF Writes
  <2>3. RequestsTypeOK'
    BY <1>11 DEF EndUpgrade, RequestsTypeOK
  <2> QED
    BY <1>11, <2>2, <2>3
       DEF EndUpgrade, FinishUpgrade, UpgradeFails, WriteSecret
<1>12. ASSUME NEW p \in Projects, CreateProject(p) \/ DeleteProject(p)
       PROVE  TypeOK'
  BY <1>12 DEF CreateProject, DeleteProject, RequestsTypeOK
<1>13. ASSUME NEW s \in Sources, RemoveSource(s) PROVE TypeOK'
  BY <1>13 DEF RemoveSource, RequestsTypeOK
<1>14. ASSUME NEW k \in Keys, RetireKey(k) PROVE TypeOK'
  BY <1>14 DEF RetireKey, DestroyKey, RequestsTypeOK
<1>15. CASE Restart
  <2>1. /\ secret' = secret /\ status' = status
        /\ current' \in Keys /\ previous' \in Keys \cup {None}
        /\ keyState' \in [Keys -> {"new", "held", "destroyed"}]
        /\ upgrade' = [u \in Upgrades |-> None]
    BY <1>15 DEF Restart, RestartProcess, PlainRestart, SwapKeys,
                 CloseWindow, OpenWindow, NewProcess
  <2>2. RequestsTypeOK'
    BY <1>15, NoCallType DEF Restart, Steps, RequestsTypeOK
  <2> QED
    BY <1>15, <2>1, <2>2 DEF Restart
<1> QED
  BY <1>0, <1>1, <1>2, <1>3, <1>4, <1>5, <1>6, <1>7, <1>8, <1>9, <1>10,
     <1>11, <1>12, <1>13, <1>14, <1>15 DEF Next

\* Every variable keeps its shape, and a connection has a secret exactly while
\* it has a row.
THEOREM TypeCorrectness == Spec => []TypeOK
<1> QED
  BY InitTypes, TypeStep, PTL DEF Spec

-----------------------------------------------------------------------------
(* Rotation.  Apart from restarts and the destruction of a key, a step     *)
(* writes a row, and schedules a write, only under the current key.        *)

WritesUnderCurrent ==
    /\ UNCHANGED keyVars
    /\ \A c \in Connections : \/ secret'[c] \in {secret[c], None}
                               \/ secret'[c].key = current
    /\ \A u \in Upgrades : \/ upgrade'[u] \in {upgrade[u], None}
                            \/ upgrade'[u].secret.key = current

LEMMA ScheduledUnderCurrent ==
    ASSUME CredentialsTypeOK, NEW c \in Connections, NEW s \in Secrets,
           ScheduleUpgrade(c, s)
    PROVE  \A u \in Upgrades : \/ upgrade'[u] \in {upgrade[u], None}
                               \/ upgrade'[u].secret.key = current
BY DEF ScheduleUpgrade, CredentialsTypeOK, Encrypt

LEMMA StepsWriteUnderCurrent ==
    ASSUME TypeOK, KeysInUse, Next,
           ~ Restart, ~ \E k \in Keys : RetireKey(k)
    PROVE  WritesUnderCurrent
<1> USE DEF WritesUnderCurrent, secretVars, keyVars
<1>t. CredentialsTypeOK /\ RequestsTypeOK
  BY DEF TypeOK
<1>e. \A p \in Passwords : Encrypt(p).key = current
  BY DEF Encrypt
<1>1. ASSUME NEW c \in Connections, Read(c) \/ TestById(c)
      PROVE  WritesUnderCurrent
  BY <1>1, <1>t, RowIsSecret, ScheduledUnderCurrent
     DEF Read, TestById, ReadPassword, DecryptPassword
<1>2. ASSUME NEW c \in Connections, NEW p \in Passwords, Create(c, p)
      PROVE  WritesUnderCurrent
  BY <1>2, <1>t, <1>e DEF Create, WriteSecret, CredentialsTypeOK
<1>3. ASSUME NEW r \in Requests, NEW p \in Passwords, UpdatePassword(r, p)
      PROVE  WritesUnderCurrent
  BY <1>3, <1>t, <1>e DEF UpdatePassword, WriteSecret, CredentialsTypeOK
<1>4. ASSUME NEW r \in Requests, UpdateEndpoint(r)
      PROVE  WritesUnderCurrent
  BY <1>4, <1>t, ScheduledUnderCurrent
     DEF UpdateEndpoint, DecryptPassword, RequestsTypeOK
<1>5. ASSUME NEW r \in Requests, Delete(r) PROVE WritesUnderCurrent
  BY <1>5, <1>t DEF Delete, WriteSecret, CredentialsTypeOK
<1>6. ASSUME NEW u \in Upgrades, EndUpgrade(u) PROVE WritesUnderCurrent
  BY <1>6, <1>t DEF EndUpgrade, FinishUpgrade, UpgradeFails, WriteSecret,
                    CredentialsTypeOK, KeysInUse
<1>7. CASE UNCHANGED secretVars
  BY <1>7
<1>8. ASSUME NEW r \in Requests, NEW c \in Connections,
             \/ BeginUpdate(r, c) \/ CountReferences(r, c)
             \/ \E p \in Projects : FindForAttach(r, p, c)
      PROVE  UNCHANGED secretVars
  BY <1>8 DEF BeginUpdate, CountReferences, FindForAttach
<1>9. ASSUME NEW r \in Requests, UpdateWithoutTest(r) \/ CreateSource(r)
      PROVE  UNCHANGED secretVars
  BY <1>9 DEF UpdateWithoutTest, CreateSource
<1>10. ASSUME NEW t \in Tests, NEW v \in {"ready", "error"}, FinishTest(t, v)
       PROVE  UNCHANGED secretVars
  BY <1>10 DEF FinishTest
<1>11. ASSUME \/ \E p \in Projects : CreateProject(p) \/ DeleteProject(p)
              \/ \E s \in Sources : RemoveSource(s)
       PROVE  UNCHANGED secretVars
  BY <1>11 DEF CreateProject, DeleteProject, RemoveSource
<1> HIDE DEF WritesUnderCurrent, secretVars, keyVars
<1> QED
  BY <1>1, <1>2, <1>3, <1>4, <1>5, <1>6, <1>7, <1>8, <1>9, <1>10, <1>11
     DEF Next

LEMMA KeysInUseStep ==
    Gate = "key" /\ TypeOK /\ KeysInUse /\ [Next]_vars => KeysInUse'
<1> SUFFICES ASSUME Gate = "key", TypeOK, KeysInUse, [Next]_vars
             PROVE  KeysInUse'
  OBVIOUS
<1> USE DEF KeysInUse, CredentialsReadable, CanDecrypt, Row
<1>1. CASE UNCHANGED vars
  BY <1>1 DEF vars, secretVars
<1>2. CASE WritesUnderCurrent
  BY <1>2 DEF WritesUnderCurrent, keyVars
<1>3. ASSUME NEW k \in Keys, RetireKey(k) PROVE KeysInUse'
  BY <1>3 DEF RetireKey, DestroyKey, TypeOK, CredentialsTypeOK
<1>4. CASE Restart
  <2>1. secret' = secret /\ \A u \in Upgrades : upgrade'[u] = None
    BY <1>4 DEF Restart, RestartProcess, PlainRestart, SwapKeys, CloseWindow,
                OpenWindow, NewProcess
  <2>2. CASE PlainRestart \/ SwapKeys
    BY <2>1, <2>2 DEF PlainRestart, SwapKeys, NewProcess
  <2>3. CASE CloseWindow
    BY <2>1, <2>3 DEF CloseWindow, NewProcess, GatePassed, NoRowUnderOtherKey
  <2>4. ASSUME NEW k \in Keys, OpenWindow(k) PROVE KeysInUse'
    <3>1. /\ current' = k /\ previous' = current /\ k # current
          /\ keyState'[k] = "held" /\ keyState'[current] = "held"
      BY <2>4 DEF OpenWindow, NewProcess, TypeOK, CredentialsTypeOK
    <3>2. ASSUME NEW c \in Connections, secret[c] # None
          PROVE  secret[c].key = current
      BY <2>4, <3>2, CredentialsAssumption
         DEF OpenWindow, TypeOK, CredentialsTypeOK, Secrets
    <3> QED
      BY <2>1, <3>1, <3>2
  <2> QED
    BY <1>4, <2>2, <2>3, <2>4 DEF Restart, RestartProcess
<1> HIDE DEF KeysInUse, CredentialsReadable
<1> QED
  BY <1>1, <1>2, <1>3, <1>4, StepsWriteUnderCurrent

LEMMA InitKeys == Init => KeysInUse
BY DEF Init, CredentialsInit, KeysInUse, CredentialsReadable, CanDecrypt, Row

LEMMA RotationInvariant == Gate = "key" => (Spec => [](TypeOK /\ KeysInUse))
<1> SUFFICES ASSUME Gate = "key" PROVE Spec => [](TypeOK /\ KeysInUse)
  OBVIOUS
<1>1. Init => TypeOK /\ KeysInUse
  BY InitTypes, InitKeys
<1>2. TypeOK /\ KeysInUse /\ [Next]_vars => (TypeOK /\ KeysInUse)'
  BY TypeStep, KeysInUseStep
<1> QED
  BY <1>1, <1>2, PTL DEF Spec

\* When the operator closes the window only once no row is left under another
\* key, decryptPassword reads every row in every phase of any rotations,
\* rollbacks and restarts, whatever writes were in flight.
THEOREM RowsStayReadable ==
    ASSUME Gate = "key"
    PROVE  Spec => []CredentialsReadable
<1>1. KeysInUse => CredentialsReadable
  BY DEF KeysInUse
<1> QED
  BY <1>1, RotationInvariant, PTL

\* And the key it needs is never destroyed.
THEOREM NoNeededKeyIsDestroyed ==
    ASSUME Gate = "key"
    PROVE  Spec => []CredentialsRecoverable
<1>1. TypeOK /\ KeysInUse => CredentialsRecoverable
  BY CredentialsAssumption
     DEF KeysInUse, CredentialsReadable, CredentialsRecoverable, CanDecrypt,
         Row, TypeOK, CredentialsTypeOK, Secrets
<1> QED
  BY <1>1, RotationInvariant, PTL

-----------------------------------------------------------------------------
(* Connection tests.                                                       *)

LEMMA TestedStep == TypeOK /\ ConnectingIsTested /\ [Next]_vars
                        => ConnectingIsTested'
<1> SUFFICES ASSUME TypeOK, ConnectingIsTested, [Next]_vars,
                    NEW c \in Connections,
                    status'[c] = "connecting", c \notin dropped'
             PROVE  \E t \in Tests : test'[t] = c
  BY DEF ConnectingIsTested
<1>1. CASE status' = status /\ UNCHANGED testVars
  BY <1>1 DEF ConnectingIsTested, testVars
<1>2. ASSUME NEW x \in Connections, StartTest(x), status' = status
      PROVE  \E t \in Tests : test'[t] = c
  BY <1>2, CredentialsAssumption
     DEF StartTest, ConnectingIsTested, TypeOK
<1>3. ASSUME NEW x \in Connections, NEW p \in Passwords, Create(x, p)
      PROVE  \E t \in Tests : test'[t] = c
  BY <1>3, CredentialsAssumption
     DEF Create, StartTest, ConnectingIsTested, TypeOK
<1>4. ASSUME NEW t \in Tests, NEW v \in {"ready", "error"}, FinishTest(t, v)
      PROVE  \E u \in Tests : test'[u] = c
  <2>1. status[c] = "connecting" /\ c \notin dropped
    BY <1>4 DEF FinishTest, TypeOK
  <2>2. test[t] # c
    BY <1>4, <2>1 DEF FinishTest, TypeOK
  <2> QED
    BY <1>4, <2>1, <2>2 DEF FinishTest, ConnectingIsTested, TypeOK
<1>5. ASSUME NEW r \in Requests, Delete(r)
      PROVE  status[c] = "connecting" /\ UNCHANGED testVars
  BY <1>5 DEF Delete, TypeOK, RequestsTypeOK
<1>6. ASSUME Restart PROVE \E t \in Tests : test'[t] = c
  BY <1>6, CredentialsAssumption
     DEF Restart, rowVars, ConnectingIsTested, TypeOK
<1>7. ASSUME NEW x \in Connections, TestById(x)
      PROVE  StartTest(x) /\ status' = status
  BY <1>7 DEF TestById, rowVars
<1>8. ASSUME NEW r \in Requests,
             \/ \E p \in Passwords : UpdatePassword(r, p)
             \/ UpdateEndpoint(r)
      PROVE  \E t \in Tests : test'[t] = c
  <2>1. /\ call[r].conn \in Connections
        /\ StartTest(call[r].conn) /\ status' = status
    BY <1>8 DEF UpdatePassword, UpdateEndpoint, rowVars, TypeOK, RequestsTypeOK
  <2> QED
    BY <2>1, <1>2
<1>9. ASSUME NEW x \in Connections,
             \/ Read(x)
             \/ \E r \in Requests : BeginUpdate(r, x) \/ CountReferences(r, x)
             \/ \E r \in Requests, p \in Projects : FindForAttach(r, p, x)
      PROVE  status' = status /\ UNCHANGED testVars
  BY <1>9 DEF Read, BeginUpdate, CountReferences, FindForAttach, rowVars
<1>10. ASSUME NEW r \in Requests, UpdateWithoutTest(r) \/ CreateSource(r)
       PROVE  status' = status /\ UNCHANGED testVars
  BY <1>10 DEF UpdateWithoutTest, CreateSource, rowVars
<1>11. ASSUME \/ \E u \in Upgrades : EndUpgrade(u)
              \/ \E p \in Projects : CreateProject(p) \/ DeleteProject(p)
              \/ \E s \in Sources : RemoveSource(s)
              \/ \E k \in Keys : RetireKey(k)
              \/ UNCHANGED vars
       PROVE  status' = status /\ UNCHANGED testVars
  BY <1>11 DEF EndUpgrade, CreateProject, DeleteProject, RemoveSource,
               RetireKey, rowVars, vars
<1>12. CASE status[c] = "connecting" /\ UNCHANGED testVars
  BY <1>12 DEF ConnectingIsTested, testVars
<1>13. CASE UNCHANGED vars
  BY <1>1, <1>11, <1>13
<1>14. ASSUME NEW x \in Connections,
              \/ Read(x) \/ TestById(x)
              \/ \E p \in Passwords : Create(x, p)
              \/ \E r \in Requests : BeginUpdate(r, x) \/ CountReferences(r, x)
              \/ \E r \in Requests, p \in Projects : FindForAttach(r, p, x)
       PROVE  \E t \in Tests : test'[t] = c
  BY <1>1, <1>2, <1>3, <1>7, <1>9, <1>14
<1>15. ASSUME NEW r \in Requests,
              \/ \E p \in Passwords : UpdatePassword(r, p)
              \/ UpdateEndpoint(r) \/ UpdateWithoutTest(r)
              \/ Delete(r) \/ CreateSource(r)
       PROVE  \E t \in Tests : test'[t] = c
  BY <1>1, <1>5, <1>8, <1>10, <1>12, <1>15
<1> QED
  BY <1>1, <1>4, <1>6, <1>11, <1>13, <1>14, <1>15 DEF Next

\* No step but a restart leaves a connection in "connecting" without a test
\* that will end it: updates, deletions and failed tests do not.
THEOREM TestsAreNotLost == Spec => []ConnectingIsTested
<1>1. Init => ConnectingIsTested
  BY DEF Init, ConnectingIsTested
<1> QED
  BY <1>1, TestedStep, TypeCorrectness, PTL DEF Spec

-----------------------------------------------------------------------------
(* Data sources, one request at a time.                                    *)

Alone == \A a, b \in Requests : a = b

\* Rows end only by Delete, and references begin only by CreateSource.
RowsStay == \A c \in Connections : secret[c] # None => secret'[c] # None
SourcesShrink == \A s \in Sources : source'[s] \in {source[s], None}

LEMMA OtherStepsKeepFound ==
    ASSUME TypeOK, Next,
           ~ \E r \in Requests : Delete(r) \/ CreateSource(r)
    PROVE  RowsStay /\ SourcesShrink
<1>t. CredentialsTypeOK /\ RequestsTypeOK
  BY DEF TypeOK
<1>e. \A p \in Passwords : Encrypt(p) # None
  BY <1>t, EncryptType
<1>1. CASE secret' = secret /\ source' = source
  BY <1>1 DEF RowsStay, SourcesShrink
<1>2. ASSUME NEW c \in Connections, NEW p \in Passwords, Create(c, p)
      PROVE  RowsStay /\ SourcesShrink
  BY <1>2, <1>t, <1>e
     DEF Create, WriteSecret, RowsStay, SourcesShrink, CredentialsTypeOK
<1>3. ASSUME NEW r \in Requests, NEW p \in Passwords, UpdatePassword(r, p)
      PROVE  RowsStay /\ SourcesShrink
  BY <1>3, <1>t, <1>e
     DEF UpdatePassword, WriteSecret, RowsStay, SourcesShrink, rowVars,
         CredentialsTypeOK
<1>4. ASSUME NEW u \in Upgrades, EndUpgrade(u)
      PROVE  RowsStay /\ SourcesShrink
  <2>1. upgrade[u] \in Writes
    BY <1>4, <1>t
       DEF EndUpgrade, FinishUpgrade, UpgradeFails, CredentialsTypeOK
  <2>2. upgrade[u].secret # None
    BY <2>1, NoneIsNoSecret DEF Writes
  <2> QED
    BY <1>4, <1>t, <2>2
       DEF EndUpgrade, FinishUpgrade, UpgradeFails, WriteSecret, RowsStay,
           SourcesShrink, rowVars, CredentialsTypeOK
<1>5. ASSUME \/ \E p \in Projects : CreateProject(p) \/ DeleteProject(p)
             \/ \E s \in Sources : RemoveSource(s)
      PROVE  RowsStay /\ SourcesShrink
  BY <1>5 DEF CreateProject, DeleteProject, RemoveSource, secretVars, RowsStay,
              SourcesShrink, TypeOK
<1>6. ASSUME NEW c \in Connections,
             \/ Read(c) \/ TestById(c)
             \/ \E r \in Requests : BeginUpdate(r, c) \/ CountReferences(r, c)
             \/ \E r \in Requests, p \in Projects : FindForAttach(r, p, c)
      PROVE  secret' = secret /\ source' = source
  BY <1>6 DEF Read, TestById, ReadPassword, BeginUpdate, CountReferences,
              FindForAttach, rowVars, secretVars
<1>7. ASSUME NEW r \in Requests, UpdateEndpoint(r) \/ UpdateWithoutTest(r)
      PROVE  secret' = secret /\ source' = source
  BY <1>7 DEF UpdateEndpoint, UpdateWithoutTest, rowVars, secretVars
<1>8. ASSUME NEW t \in Tests, NEW v \in {"ready", "error"}, FinishTest(t, v)
      PROVE  secret' = secret /\ source' = source
  BY <1>8 DEF FinishTest, secretVars
<1>9. ASSUME Restart \/ \E k \in Keys : RetireKey(k)
      PROVE  secret' = secret /\ source' = source
  BY <1>9 DEF Restart, RestartProcess, PlainRestart, SwapKeys, CloseWindow,
              OpenWindow, NewProcess, RetireKey, DestroyKey, rowVars
<1> QED
  BY <1>1, <1>2, <1>3, <1>4, <1>5, <1>6, <1>7, <1>8, <1>9 DEF Next

\* What the request that just moved has found held when it looked.
FoundWhenRead ==
    \A r \in Requests :
        /\ step'[r] = "attach" => /\ call'[r].conn \in Connections
                                  /\ secret[call'[r].conn] # None
        /\ step'[r] = "delete" =>
              \A s \in Sources : source[s] # None
                                   => source[s].conn # call'[r].conn

LEMMA FoundByStep ==
    ASSUME Alone, TypeOK, FoundIsCurrent, Next, ~ Restart
    PROVE  FoundWhenRead
<1>t. RequestsTypeOK
  BY DEF TypeOK
<1>1. CASE UNCHANGED requestVars
  BY <1>1, <1>t DEF requestVars, FoundWhenRead, FoundIsCurrent, Row,
                    References, RequestsTypeOK
<1>2. ASSUME NEW r \in Requests, End(r) PROVE FoundWhenRead
  BY <1>2, <1>t DEF End, Alone, FoundWhenRead, RequestsTypeOK
<1>3. ASSUME NEW r \in Requests, NEW c \in Connections, BeginUpdate(r, c)
      PROVE  FoundWhenRead
  BY <1>3, <1>t DEF BeginUpdate, Begin, Alone, FoundWhenRead, RequestsTypeOK
<1>4. ASSUME NEW r \in Requests, NEW c \in Connections, CountReferences(r, c)
      PROVE  FoundWhenRead
  <2>1. step'[r] = "delete" /\ call'[r].conn = c
    BY <1>4, <1>t DEF CountReferences, Begin, NoCall, RequestsTypeOK
  <2> QED
    BY <1>4, <2>1 DEF CountReferences, References, Alone, FoundWhenRead
<1>5. ASSUME NEW r \in Requests, NEW p \in Projects, NEW c \in Connections,
             FindForAttach(r, p, c)
      PROVE  FoundWhenRead
  <2>1. step'[r] = "attach" /\ call'[r].conn = c
    BY <1>5, <1>t DEF FindForAttach, Begin, NoCall, RequestsTypeOK
  <2> QED
    BY <1>5, <2>1 DEF FindForAttach, Row, Alone, FoundWhenRead
<1>6. ASSUME NEW r \in Requests,
             \/ \E p \in Passwords : UpdatePassword(r, p)
             \/ UpdateEndpoint(r) \/ UpdateWithoutTest(r)
             \/ Delete(r) \/ CreateSource(r)
      PROVE  FoundWhenRead
  BY <1>2, <1>6 DEF UpdatePassword, UpdateEndpoint, UpdateWithoutTest, Delete,
                    CreateSource
<1>7. ASSUME NEW c \in Connections,
             \/ Read(c) \/ TestById(c)
             \/ \E p \in Passwords : Create(c, p)
      PROVE  UNCHANGED requestVars
  BY <1>7 DEF Read, TestById, Create
<1>8. ASSUME NEW t \in Tests, NEW v \in {"ready", "error"}, FinishTest(t, v)
      PROVE  UNCHANGED requestVars
  BY <1>8 DEF FinishTest
<1>9. ASSUME \/ \E u \in Upgrades : EndUpgrade(u)
             \/ \E p \in Projects : CreateProject(p) \/ DeleteProject(p)
             \/ \E s \in Sources : RemoveSource(s)
             \/ \E k \in Keys : RetireKey(k)
      PROVE  UNCHANGED requestVars
  BY <1>9 DEF EndUpgrade, CreateProject, DeleteProject, RemoveSource, RetireKey
<1> QED
  BY <1>1, <1>3, <1>4, <1>5, <1>6, <1>7, <1>8, <1>9 DEF Next

LEMMA FoundStep ==
    ASSUME Alone, TypeOK, FoundIsCurrent, [Next]_vars
    PROVE  FoundIsCurrent'
<1>t. CredentialsTypeOK /\ RequestsTypeOK
  BY DEF TypeOK
<1> USE DEF FoundIsCurrent, SourcesResolve, Row, References
<1>1. CASE UNCHANGED vars
  BY <1>1 DEF vars, secretVars, rowVars, requestVars
<1>2. CASE Restart
  <2>1. secret' = secret /\ source' = source
    BY <1>2 DEF Restart, RestartProcess, PlainRestart, SwapKeys, CloseWindow,
                OpenWindow, NewProcess, rowVars
  <2>2. \A r \in Requests : step'[r] = "idle"
    BY <1>2 DEF Restart
  <2> QED
    BY <2>1, <2>2
<1>3. ASSUME NEW r \in Requests, Delete(r) \/ CreateSource(r)
      PROVE  \A q \in Requests : step'[q] = "idle"
  BY <1>3, <1>t DEF Delete, CreateSource, End, Alone, RequestsTypeOK
<1>4. ASSUME NEW r \in Requests, Delete(r) PROVE FoundIsCurrent'
  <2>1. call[r].conn \in Connections /\ source' = source
    BY <1>4, <1>t DEF Delete, RequestsTypeOK
  <2>2. \A c \in Connections : c # call[r].conn => secret'[c] = secret[c]
    BY <1>4, <1>t DEF Delete, WriteSecret, CredentialsTypeOK
  <2>3. \A s \in Sources : source[s] # None =>
           /\ source[s].conn \in Connections
           /\ source[s].conn # call[r].conn
    BY <1>4 DEF Delete, TypeOK, DataSources
  <2> QED
    BY <1>3, <1>4, <2>1, <2>2, <2>3
<1>5. ASSUME NEW r \in Requests, CreateSource(r) PROVE FoundIsCurrent'
  <2>1. secret' = secret /\ secret[call[r].conn] # None
    BY <1>5 DEF CreateSource, secretVars
  <2>2. \A s \in Sources : source'[s] # None =>
           \/ source'[s] = source[s]
           \/ source'[s].conn = call[r].conn
    BY <1>5 DEF CreateSource, TypeOK
  <2> QED
    BY <1>3, <1>5, <2>1, <2>2
<1>6. ASSUME RowsStay, SourcesShrink, FoundWhenRead PROVE FoundIsCurrent'
  <2>1. \A s \in Sources : source'[s] # None =>
           /\ source'[s] = source[s]
           /\ source[s].conn \in Connections
    BY <1>6 DEF SourcesShrink, TypeOK, DataSources
  <2> QED
    BY <1>6, <2>1 DEF RowsStay, FoundWhenRead
<1> HIDE DEF FoundIsCurrent
<1> QED
  BY <1>1, <1>2, <1>4, <1>5, <1>6, FoundByStep, OtherStepsKeepFound

\* While requests do not overlap, the reference check of delete keeps the
\* connection of every data source, whatever upgrades, tests and restarts do.
THEOREM SerialSourcesResolve ==
    ASSUME Alone
    PROVE  Spec => []SourcesResolve
<1>1. Init => FoundIsCurrent
  BY DEF Init, FoundIsCurrent, SourcesResolve
<1>2. TypeOK /\ FoundIsCurrent /\ [Next]_vars => FoundIsCurrent'
  BY FoundStep
<1>3. FoundIsCurrent => SourcesResolve
  BY DEF FoundIsCurrent
<1> QED
  BY <1>1, <1>2, <1>3, TypeCorrectness, PTL DEF Spec
=============================================================================
