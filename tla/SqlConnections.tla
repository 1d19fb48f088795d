---------------------------- MODULE SqlConnections ----------------------------
(***************************************************************************)
(* The SQL connections of one organization, and the project data sources   *)
(* that refer to them.  A request makes one query at a time; between two   *)
(* of them other requests, connection tests, ciphertext upgrades and       *)
(* restarts run.  Nothing in the schema ties the connectionId in a         *)
(* source's configuration to the connection's row.                         *)
(* The name of a connection and the fields other than the password are     *)
(* left out: the verdict of a connection test is any verdict.              *)
(***************************************************************************)
EXTENDS SqlCredentials

CONSTANTS Requests, Tests, Sources, Projects   \* Tests, Sources: bounds

VARIABLES
    status,     \* connection -> "absent", its status column, or "deleted"
    test,       \* slot -> the connection a test in flight is about, or None
    dropped,    \* history: connections whose test a restart cut off
    project,    \* project -> "absent", "present" or "deleted"
    source,     \* source -> its project and connection, or None
    step, call  \* request -> its next query, and what it has read

rowVars == <<status, project, source>>
testVars == <<test, dropped>>
requestVars == <<step, call>>
vars == <<secretVars, rowVars, testVars, requestVars>>

Steps == {"idle", "update", "delete", "attach"}
Calls == [conn : Connections \cup {None}, secret : Secrets \cup {None},
          project : Projects \cup {None}]
DataSources == [project : Projects, conn : Connections]

NoCall == [conn |-> None, secret |-> None, project |-> None]

Init ==
    /\ CredentialsInit
    /\ status \in [Connections -> {"absent", "connecting", "ready", "error"}]
    /\ \A c \in Connections : status[c] = "absent" <=> ~ Row(c)
    /\ test = [t \in Tests |-> None]
    /\ dropped = {c \in Connections : status[c] = "connecting"}
    /\ project = [p \in Projects |-> "absent"]
    /\ source = [s \in Sources |-> None]
    /\ step = [r \in Requests |-> "idle"]
    /\ call = [r \in Requests |-> NoCall]

Begin(r, next, read) ==
    /\ step[r] = "idle"
    /\ step' = [step EXCEPT ![r] = next]
    /\ call' = [call EXCEPT ![r] = read]

End(r) ==
    /\ step' = [step EXCEPT ![r] = "idle"]
    /\ call' = [call EXCEPT ![r] = NoCall]

-----------------------------------------------------------------------------
(* Connection tests run in the background and record a verdict by id.      *)

StartTest(c) ==
    /\ \E t \in Tests :
          test[t] = None /\ test' = [test EXCEPT ![t] = c]
    /\ UNCHANGED dropped

\* Mutant: a test that throws records nothing.
FinishTestUnrecorded(t, verdict) ==
    /\ test[t] # None
    /\ status' = IF Row(test[t]) /\ verdict = "ready"
                 THEN [status EXCEPT ![test[t]] = verdict]
                 ELSE status
    /\ test' = [test EXCEPT ![t] = None]
    /\ UNCHANGED <<secretVars, dropped, project, source, requestVars>>

FinishTest(t, verdict) ==
    /\ test[t] # None
    /\ status' = IF Row(test[t]) THEN [status EXCEPT ![test[t]] = verdict]
                                 ELSE status
    /\ test' = [test EXCEPT ![t] = None]
    /\ UNCHANGED <<secretVars, dropped, project, source, requestVars>>

TestById(c) ==
    /\ Row(c) /\ DecryptPassword(c, secret[c])
    /\ StartTest(c)
    /\ UNCHANGED <<secret, keyVars, rowVars, requestVars>>

-----------------------------------------------------------------------------
(* Requests on connections.                                                *)

Create(c, p) ==
    /\ status[c] = "absent"
    /\ status' = [status EXCEPT ![c] = "connecting"]
    /\ WriteSecret(c, Encrypt(p))
    /\ StartTest(c)
    /\ UNCHANGED <<keyVars, upgrade, project, source, requestVars>>

BeginUpdate(r, c) ==
    /\ Row(c)
    /\ Begin(r, "update", [NoCall EXCEPT !.conn = c, !.secret = secret[c]])
    /\ UNCHANGED <<secretVars, rowVars, testVars>>

UpdatePassword(r, p) ==
    /\ step[r] = "update" /\ Row(call[r].conn)
    /\ WriteSecret(call[r].conn, Encrypt(p))
    /\ StartTest(call[r].conn)
    /\ End(r)
    /\ UNCHANGED <<keyVars, upgrade, rowVars>>

\* Host, port, database, user or ssl: the test needs the stored password,
\* which is decrypted from the row read before the update.
UpdateEndpoint(r) ==
    /\ step[r] = "update" /\ Row(call[r].conn)
    /\ DecryptPassword(call[r].conn, call[r].secret)
    /\ StartTest(call[r].conn)
    /\ End(r)
    /\ UNCHANGED <<secret, keyVars, rowVars>>

\* Another field, a password no key decrypts, or a row that is gone.
UpdateWithoutTest(r) ==
    /\ step[r] = "update"
    /\ End(r)
    /\ UNCHANGED <<secretVars, rowVars, testVars>>

References(c) == {s \in Sources : source[s] # None /\ source[s].conn = c}

\* Mutant: delete without the reference check.
DeleteAnyway(r, c) ==
    /\ Row(c)
    /\ Begin(r, "delete", [NoCall EXCEPT !.conn = c])
    /\ UNCHANGED <<secretVars, rowVars, testVars>>

CountReferences(r, c) ==
    /\ Row(c) /\ References(c) = {}
    /\ Begin(r, "delete", [NoCall EXCEPT !.conn = c])
    /\ UNCHANGED <<secretVars, rowVars, testVars>>

Delete(r) ==
    /\ step[r] = "delete"
    /\ IF Row(call[r].conn)
       THEN /\ WriteSecret(call[r].conn, None)
            /\ status' = [status EXCEPT ![call[r].conn] = "deleted"]
       ELSE UNCHANGED <<secret, status>>
    /\ End(r)
    /\ UNCHANGED <<keyVars, upgrade, testVars, project, source>>

-----------------------------------------------------------------------------
(* Requests on projects and their data sources.                            *)

CreateProject(p) ==
    /\ project[p] = "absent"
    /\ project' = [project EXCEPT ![p] = "present"]
    /\ UNCHANGED <<secretVars, status, source, testVars, requestVars>>

\* The foreign key of project_data_source cascades.
DeleteProject(p) ==
    /\ project[p] = "present"
    /\ project' = [project EXCEPT ![p] = "deleted"]
    /\ source' = [s \in Sources |->
                     IF source[s] # None /\ source[s].project = p
                     THEN None ELSE source[s]]
    /\ UNCHANGED <<secretVars, status, testVars, requestVars>>

FindForAttach(r, p, c) ==
    /\ project[p] = "present" /\ Row(c)
    /\ Begin(r, "attach", [NoCall EXCEPT !.conn = c, !.project = p])
    /\ UNCHANGED <<secretVars, rowVars, testVars>>

\* The insert fails on the foreign key when the project is gone.
CreateSource(r) ==
    /\ step[r] = "attach"
    /\ IF project[call[r].project] = "present"
       THEN \E s \in Sources :
               /\ source[s] = None
               /\ source' = [source EXCEPT ![s] =
                    [project |-> call[r].project, conn |-> call[r].conn]]
       ELSE UNCHANGED source
    /\ End(r)
    /\ UNCHANGED <<secretVars, status, project, testVars>>

RemoveSource(s) ==
    /\ source[s] # None
    /\ source' = [source EXCEPT ![s] = None]
    /\ UNCHANGED <<secretVars, status, project, testVars, requestVars>>

-----------------------------------------------------------------------------
(* A restart cuts off requests, tests and upgrades.                        *)

Restart ==
    /\ RestartProcess
    /\ test' = [t \in Tests |-> None]
    /\ dropped' = dropped \cup {test[t] : t \in {x \in Tests : test[x] # None}}
    /\ step' = [r \in Requests |-> "idle"]
    /\ call' = [r \in Requests |-> NoCall]
    /\ UNCHANGED rowVars

Read(c) == ReadPassword(c) /\ UNCHANGED <<rowVars, testVars, requestVars>>

EndUpgrade(u) ==
    /\ FinishUpgrade(u) \/ UpgradeFails(u)
    /\ UNCHANGED <<rowVars, testVars, requestVars>>

RetireKey(k) == DestroyKey(k) /\ UNCHANGED <<rowVars, testVars, requestVars>>

Next ==
    \/ \E c \in Connections :
          \/ Read(c) \/ TestById(c)
          \/ \E p \in Passwords : Create(c, p)
          \/ \E r \in Requests : BeginUpdate(r, c) \/ CountReferences(r, c)
          \/ \E r \in Requests, p \in Projects : FindForAttach(r, p, c)
    \/ \E r \in Requests :
          \/ \E p \in Passwords : UpdatePassword(r, p)
          \/ UpdateEndpoint(r) \/ UpdateWithoutTest(r)
          \/ Delete(r) \/ CreateSource(r)
    \/ \E t \in Tests, verdict \in {"ready", "error"} : FinishTest(t, verdict)
    \/ \E u \in Upgrades : EndUpgrade(u)
    \/ \E p \in Projects : CreateProject(p) \/ DeleteProject(p)
    \/ \E s \in Sources : RemoveSource(s)
    \/ \E k \in Keys : RetireKey(k)
    \/ Restart

Spec == Init /\ [][Next]_vars

-----------------------------------------------------------------------------
(* Fairness of a rotation: the runbook waits until every row is read, and  *)
(* a write that is retried again and again succeeds.  Tests have timeouts. *)

Fairness ==
    /\ \A c \in Connections : WF_vars(Read(c))
    /\ \A u \in Upgrades : SF_vars(FinishUpgrade(u)
                              /\ UNCHANGED <<rowVars, testVars, requestVars>>)
    /\ \A t \in Tests :
          WF_vars(\E verdict \in {"ready", "error"} : FinishTest(t, verdict))

FairSpec == Spec /\ Fairness

-----------------------------------------------------------------------------
(* Properties.                                                             *)

\* A request knows what it is about.
RequestsTypeOK ==
    /\ step \in [Requests -> Steps]
    /\ call \in [Requests -> Calls]
    /\ \A r \in Requests :
          /\ step[r] # "idle" => call[r].conn \in Connections
          /\ step[r] = "update" => call[r].secret \in Secrets
          /\ step[r] = "attach" => call[r].project \in Projects

\* The shape of the variables: a connection has a secret while it has a row.
TypeOK ==
    /\ CredentialsTypeOK
    /\ status \in [Connections ->
                     {"absent", "connecting", "ready", "error", "deleted"}]
    /\ \A c \in Connections : Row(c) <=> status[c] \notin {"absent", "deleted"}
    /\ test \in [Tests -> Connections \cup {None}]
    /\ dropped \subseteq Connections
    /\ project \in [Projects -> {"absent", "present", "deleted"}]
    /\ source \in [Sources -> DataSources \cup {None}]
    /\ RequestsTypeOK

\* In every phase of a rotation, rollbacks included, decryptPassword reads
\* every row: its key is the process's current or previous key.
CredentialsReadable == \A c \in Connections : Row(c) => CanDecrypt(secret[c])

\* A connection that says "connecting" is being tested, unless a restart cut
\* the test off: no error path loses a test.
ConnectingIsTested ==
    \A c \in Connections :
        status[c] = "connecting" /\ c \notin dropped
            => \E t \in Tests : test[t] = c

\* The connection of a project's data source exists.
SourcesResolve ==
    \A s \in Sources : source[s] # None => Row(source[s].conn)

\* As long as a window stays open, reads rewrite the rows: all of them come
\* under the current key.
WindowDrains ==
    \A k \in Keys :
        [](current = k) ~> NoRowUnderOtherKey

\* The runbook: no key is destroyed that a row still needs.
CredentialsRecoverable ==
    \A c \in Connections : Row(c) => keyState[secret[c].key] = "held"

\* A ciphertext upgrade rewrites the same plaintext.
UpgradeKeepsPassword ==
    [][\A u \in Upgrades, c \in Connections :
          FinishUpgrade(u) /\ Row(c) /\ secret'[c] # None
             => secret'[c].password = secret[c].password]_vars

-----------------------------------------------------------------------------
(* Inductive invariants.                                                   *)

\* With the key of every row as gate: every row is under a key of the process,
\* the writes in flight are under the current one, and both keys are held.
KeysInUse ==
    /\ CredentialsReadable
    /\ \A u \in Upgrades : upgrade[u] # None => upgrade[u].secret.key = current
    /\ keyState[current] = "held"
    /\ previous # None => keyState[previous] = "held"

\* With one request at a time: what a request has found still holds when it
\* writes.
FoundIsCurrent ==
    /\ SourcesResolve
    /\ \A r \in Requests :
          /\ step[r] = "attach" => Row(call[r].conn)
          /\ step[r] = "delete" => References(call[r].conn) = {}
=============================================================================
