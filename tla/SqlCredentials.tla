---------------------------- MODULE SqlCredentials ----------------------------
(***************************************************************************)
(* The stored passwords of the SQL connections and the rotation of the key *)
(* that encrypts them.  A row names the key it is encrypted under; the     *)
(* process is started with a current and possibly a previous key.          *)
(* decryptPassword tries both, and when the row is legacy (v0) or under    *)
(* the previous key it starts a write of the same password under the       *)
(* current key that nobody waits for.                                      *)
(* The operator's part of the rotation is docs/sql-connections-key-        *)
(* rotation.md; Gate says what the operator looks at before closing the    *)
(* window: the key of every row, or the wire format of every row.          *)
(***************************************************************************)
CONSTANTS Connections, Passwords, Keys,
          Upgrades,   \* slots of background writes: a bound
          Gate, None

ASSUME CredentialsAssumption ==
    /\ Gate \in {"key", "format"}
    /\ None \notin Connections \cup Keys
    /\ None \notin [password : Passwords, key : Keys, v1 : BOOLEAN]

VARIABLES
    secret,     \* connection -> the encrypted password of its row, or None
    current, previous,   \* the keys the process was started with
    keyState,   \* key -> "new", "held" in the secrets store, or "destroyed"
    upgrade     \* slot -> a write in flight: its connection and secret

secretVars == <<secret, current, previous, keyState, upgrade>>
keyVars == <<current, previous, keyState>>

Secrets == [password : Passwords, key : Keys, v1 : BOOLEAN]
Writes == [conn : Connections, secret : Secrets]

Row(c) == secret[c] # None

\* Rows may be older than the wire format and the key rotation.
CredentialsInit ==
    /\ current \in Keys /\ previous = None
    /\ keyState = [k \in Keys |-> IF k = current THEN "held" ELSE "new"]
    /\ secret \in [Connections -> {None} \cup
                       {s \in Secrets : s.key = current}]
    /\ upgrade = [u \in Upgrades |-> None]

-----------------------------------------------------------------------------
(* aes-gcm and the service's use of it.                                    *)

Encrypt(p) == [password |-> p, key |-> current, v1 |-> TRUE]

\* Mutant: the previous key is not tried.
DecryptsUnderCurrent(s) == s.key = current

CanDecrypt(s) == s.key \in {current, previous}

\* Mutant: only the wire format counts.
NeedsNewFormat(s) == ~ s.v1

NeedsUpgrade(s) == ~ s.v1 \/ s.key # current

WriteSecret(c, s) == secret' = [secret EXCEPT ![c] = s]

ScheduleUpgrade(c, s) ==
    IF NeedsUpgrade(s)
    THEN \E u \in Upgrades :
            /\ upgrade[u] = None
            /\ upgrade' = [upgrade EXCEPT ![u] =
                              [conn |-> c, secret |-> Encrypt(s.password)]]
    ELSE UNCHANGED upgrade

\* s is the secret of c's row as the caller read it.
DecryptPassword(c, s) == CanDecrypt(s) /\ ScheduleUpgrade(c, s)

\* resolveForAgent, one id of it, and testCredentials with a stored password.
ReadPassword(c) ==
    /\ Row(c) /\ DecryptPassword(c, secret[c])
    /\ UNCHANGED <<secret, keyVars>>

\* The write reaches the database; it finds no row when c was deleted.
FinishUpgrade(u) ==
    /\ upgrade[u] # None
    /\ IF Row(upgrade[u].conn)
       THEN WriteSecret(upgrade[u].conn, upgrade[u].secret)
       ELSE UNCHANGED secret
    /\ upgrade' = [upgrade EXCEPT ![u] = None]
    /\ UNCHANGED keyVars

\* The write fails; the failure is logged and the row stays as it is.
UpgradeFails(u) ==
    /\ upgrade[u] # None
    /\ upgrade' = [upgrade EXCEPT ![u] = None]
    /\ UNCHANGED <<secret, keyVars>>

-----------------------------------------------------------------------------
(* The operator.  The keys of the environment are read by a new process,   *)
(* and the writes the old process had in flight are gone.                  *)

NewProcess(cur, prev) ==
    /\ current' = cur /\ previous' = prev
    /\ upgrade' = [u \in Upgrades |-> None]
    /\ UNCHANGED secret

\* Phase B: a fresh key, and the old one as previous key.
OpenWindow(k) ==
    /\ previous = None /\ keyState[k] = "new"
    /\ keyState' = [keyState EXCEPT ![k] = "held"]
    /\ NewProcess(k, current)

\* Rollback within phase B.
SwapKeys ==
    /\ previous # None
    /\ NewProcess(previous, current)
    /\ UNCHANGED keyState

NoLegacyRow == \A c \in Connections : Row(c) => secret[c].v1
NoRowUnderOtherKey == \A c \in Connections : Row(c) => secret[c].key = current

\* Mutant: the rows' keys are not looked at.
GatePassedByFormat == NoLegacyRow

GatePassed == IF Gate = "key" THEN NoRowUnderOtherKey ELSE NoLegacyRow

\* Phase C, once the operator is confident.
CloseWindow ==
    /\ previous # None /\ GatePassed
    /\ NewProcess(current, None)
    /\ UNCHANGED keyState

\* The old key leaves the secrets store after the pre-destruction query.
DestroyKey(k) ==
    /\ previous = None /\ k # current /\ keyState[k] = "held"
    /\ NoLegacyRow
    /\ keyState' = [keyState EXCEPT ![k] = "destroyed"]
    /\ UNCHANGED <<secret, current, previous, upgrade>>

\* A restart with the same environment.
PlainRestart == NewProcess(current, previous) /\ UNCHANGED keyState

RestartProcess ==
    \/ PlainRestart \/ SwapKeys \/ CloseWindow
    \/ \E k \in Keys : OpenWindow(k)

CredentialsTypeOK ==
    /\ secret \in [Connections -> Secrets \cup {None}]
    /\ current \in Keys /\ previous \in Keys \cup {None}
    /\ keyState \in [Keys -> {"new", "held", "destroyed"}]
    /\ upgrade \in [Upgrades -> Writes \cup {None}]
=============================================================================
