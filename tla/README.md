# A formal model of api-velocity

api-velocity is a NestJS service over one Postgres database, S3, Qdrant and the
pg-boss queue. Organizations own knowledge bases (RAG over uploaded files), SQL
connections and projects; a chat agent answers questions from the data sources
of a project; a public widget gives anonymous visitors a chat. This directory
holds TLA+ models of the parts whose correctness depends on order, failure and
concurrency, the TLC configurations that check them, and proofs checked by
TLAPS. `PROJECT.json` maps every definition to the lines it models.

Contents: 1 Inventory. 2 Ingestion. 3 Organizations. 4 SQL connections.
5 Chat turns. 6 Boot. 7 Public channel. 8 Users and sessions. 9 Airweave.
10 Proofs. 11 Disagreements. 12 Observations. 13 Not modelled. 14 Plan.

## 1. Inventory

| Component | State | Operations | Interacts with | Hard behaviour | What makes it correct |
|---|---|---|---|---|---|
| Vector-db ingestion | `org_vector_db.status`, `document_count`; `vector_db_ingestion_job`; pg-boss; Qdrant; S3 | boot sweep, deliver, read, chunk, embed, upsert, verdict | uploads and deletes by messages and by rows | at-least-once delivery, expiry under a live handler, crashes between awaits, two nodes | a file is not forgotten; done means indexed; ready only when idle |
| Vector-db files and knowledge bases | the same tables, S3 | create, delete, upload, delete file | ingestion, projects | sequences of writes without a transaction | a listed file can be read |
| Organizations, members, roles | `organization`, `member`, `invitation`, `roles`, `role_permissions` | create and delete an organization; add, update, remove members; invite, accept; create, rename, delete roles; grant | signup hook, permission guard, Airweave allowlist | check-then-write on rows tied by strings | every role that is named exists; a member who may invite stays |
| SQL connections | `org_sql_connection`, the process's keys | create, update, test, delete, read for the agent, re-encrypt, rotate keys | projects (sources refer to it), agent | background tests and re-encryptions, restarts within a rotation | every password can be decrypted; a verdict is recorded |
| Projects and data sources | `project`, `project_data_source` | create, delete, attach, detach | SQL connections, knowledge bases, chat | references without foreign keys | a source's target exists |
| Agent data plane | the pools of a factory per agent context | get, connect with a timeout, query, destroy all | chat turns; the customers' databases | connects that settle late, parallel tool calls | pools die with the request |
| Chat turns | `conversation`, `message` | create, delete; ask, ask streamed | agent data plane, retrieval, the model | fallbacks, failed writes, deletion under a turn | complete means stored; what is shown is what is stored |
| Public chat, embed sites | fixed window per process; `embed_usage_counter`; `embed_site` | guard, count, ask; create, rotate, disable, delete | chat agent, projects | counting under concurrency; a site that changes under a stream | no more than the cap is served; a rotated key is refused |
| Chat widget | the panel, the parser's buffer | submit, read, show, fail | the public channel, over a network that cuts | a stream in arbitrary pieces; two questions in one panel | an answer is whole; the panel does not hang |
| Users, sessions, impersonation | `user`, `session`, `member` | approve, reject, ban, remove, set a role; revoke sessions; start and stop impersonation | guards, members | every check is an await before the statement | a statement is preceded by the checks its caller owes, on rows read since the request began |
| Permission and role guards | none | read approval, role, permissions | every controller | three reads, no snapshot | no more rights than the role has |
| Airweave | collections at the service, `organization.metadata` | create, delete, attach | organizations, projects | two systems, one write fails; two requests draw one id | an organization keeps what it was told of, and acts on nothing else |
| Migrations and boot | the record of migrations, the schema | look up, apply, record | everything | a node stops between two statements; databases of earlier releases | a boot that ends leaves what this release relies on |
| SQL guardrails, fence stripper, SSE parser, Markdown | none | validate, redact, shape, strip, parse | agent, widget | input cut anywhere | the result does not depend on the cuts |
| Dashboard, configuration, e-mail, extraction, widget's rendering | none of their own | reads and adapters | | | |

How they are composed. `VectorDbService` composes files and ingestion, which
share rows and messages. `SqlConnections` composes connections, keys, projects
and sources, which share identifiers. `ChatTurns` composes turns with the pools
of their agents. `PublicChat` composes the sites with the anonymous channel and
`EmbedWidget` puts a page in front of it. `UserAccess` composes the guard with
the three services behind it over `AccessTables`. `AirweaveCollections` composes
the service, the allowlist, projects and the update of an organization. `Boot`
runs both lists of migrations. `OrgMembership` stands alone: other components
read its rows. The groups meet only in reads (a project's sources are read once,
at the start of a turn), so they are checked separately.

Type invariants are proved for every instance where a module has a proof module
(section 10); the runs check them only where it has none (`Boot`, `EmbedWidget`).

## 2. Ingestion of files (`VectorDb*`)

`vector-db.service.ts` serves the requests: create and delete a knowledge base,
upload a file (S3 put, row insert, count, send), delete a file (row delete,
count, S3 delete). None of these is a transaction.
`vector-db-ingestion.service.ts` has the boot sequence (start pg-boss, register
the worker, re-enqueue reclaimable jobs) and the handler (`ingest`,
`handleFailure`). Every method of `vector-db.database-repository.ts` is one
statement; the status of a knowledge base is guarded by a table of source states
in the `WHERE` clause, the status of a job by nothing. pg-boss delivers at least
once, two messages at a time per node.

| Module | Models | State |
|---|---|---|
| `VectorDbRepository` | the two tables and every method that writes them | `kbStatus`, `documentCount`, `jobStatus`, `attempts`, `stale` |
| `VectorDbIngestion` | queue, boot and sweep, the handler, one action per await | `node`, `sweep`; `mstate`, `mjob`, `mretry`; `pc`, `msg`, `job`, `prior`; `blobs`, `points` |
| `VectorDbService` | requests, crashes, the composed specification, its properties | `rpc`, `rjob` |
| `VectorDbLifecycle` | the abstract specification: what a knowledge base promises its readers | `status`, `open` |
| `VectorDbInvariants` | the inductive invariants | |
| `MCVectorDb` | instances for TLC | |

`pc[h]` names the await that handler `h` is about to make, so other handlers,
nodes, requests and crashes run between any two awaits. A query may fail inside
the `try` block (a failed attempt) or outside it (the exception leaves `ingest`
and pg-boss retries); a document may be rejected; indexing may fail. `wasted`,
`timedOut` and `unsent` are history variables: deliveries that ended without a
verdict, jobs with a handler that outlived its lease, uploads that failed before
their send. `MaxFaults` is a budget for each kind of fault, a bound.

| Run | Instance | Shows |
|---|---|---|
| `faults` | 1 file, 2 handlers, 2 requests; a failed query, an expired lease, a failed request; `MaxAttempts` 2 | `DoneIsIndexed`, `BlobOfEveryFile`, `NoJobStranded` |
| `nodes` | 2 nodes with a slot each, a crash, `MaxAttempts` 2 | `NoJobStranded` |
| `live` | 2 files, one of them blank, 1 handler, a failed query, fairness | `RefinesLifecycle`, `JobsSettle` |

Two files are the least at which siblings disturb each other's status of the
knowledge base, also with one handler, because requests come between its writes;
two messages for one file the least at which a redelivery meets a handler still
at work; two nodes the least at which the sweep of one sends what the other
works on. Two attempts already distinguish a
retry from the last one. Messages are symmetric. The system may stop (every file
settled, everything deleted), so deadlock is not checked here.

Fairness: pg-boss fetches and expires by polling, handlers and requests are
promises that settle, Nest runs `onModuleInit` to its end, so each has weak
fairness of its own. Users, faults and the clock that makes a row stale have none.

## 3. Organizations, members and roles (`OrgMembership`)

A member and an invitation name their role by a string; no foreign key ties it
to `roles`. The services look rows up, check, and write awaits later. The module
has one organization, role rows with names, member and invitation rows, and a
set of requests: `step[r]` is the await request `r` makes next, `call[r]` what
it holds in its variables. A statement or a repository transaction is one step.
Of the permissions only `organization:invite` is kept (`inviting`), the one the
last-member checks of `updateMemberRole` and `removeMember` are about. Besides
the requests there are the signup hook (when this is the default organization),
acceptance and deletion of an invitation, and deletion of the organization.

| Run | Instance | Shows |
|---|---|---|
| `serial` | 1 request at a time, every operation, 4 roles, 3 names, 2 users, 2 members, 1 invitation | `RolesOfMembersExist`, `LastManagerStays` |
| `races` | 2 requests of superadmins, the signup hook, 4 roles, 1 user, 2 members | `NothingOutlivesOrg`, `RoleNamesAreUnique`, `MembersFollowTheirRole` |

Serial requests are an assumption, not something the code ensures: with two of
them in flight, two demotions pass the last-member check together, a user is
added twice, and a role is deleted under a member. What the schema and the
transactions ensure is checked (and proved) for any interleaving: those are the
properties of `races`, where superadmins stand for the caller with the fewest
checks. Three seeded roles and one more, two rows of members and two requests
are the least with which a rename meets a deletion or a duplicate. Ids are used
once and a deleted organization stays deleted, so the runs do end and deadlock is
not checked; nothing here is fair, and no liveness is claimed.

## 4. SQL connections, keys and sources (`SqlCredentials`, `SqlConnections`)

`SqlCredentials` holds what `aes-gcm.ts` and the service do with a stored
password. A ciphertext (`secret[c]`) carries its wire format (`v1` or the older
one) but not its key; the model names the key, the code tries the current and
then the previous one. `decryptPassword` starts a background re-encryption
(`upgrade[u]`) that writes by id what was read. The operator's steps follow
`docs/sql-connections-key-rotation.md`: open a window, swap keys to roll back,
close the window, destroy the old key; all but the last are restarts, which cut off
tests, re-encryptions and requests. `Gate` is what the operator looks at before
closing the window: `"key"` the key of every row, `"format"` the query of the
runbook, which counts rows in the old format.

`SqlConnections` adds the rows' status, the tests in flight (`test[t]`), and
projects with data sources that refer to a connection through JSON only. A
request is again a sequence of steps (`step`, `call`). The name and the other
fields of a connection are left out; a verdict is any verdict. A request that
finds no free slot in `Tests`, `Upgrades` or `Sources` waits: a bound.

| Run | Instance | Shows |
|---|---|---|
| `connections` | 2 connections, 2 keys, 1 re-encryption, 1 test, 1 source, 1 request at a time, `Gate` `"key"`, fairness | `CredentialsReadable`, `CredentialsRecoverable`, `ConnectingIsTested`, `SourcesResolve`, `WindowDrains` |
| `upgrade` | 1 connection, 2 passwords, 2 re-encryptions | violates `UpgradeKeepsPassword` |

Two keys give one rotation with any number of rollbacks; a third would only
repeat it (the proof is for any number). One re-encryption at a time suffices
for the pass run, since it writes by id and the other connection's write waits.
A restart is always possible, so deadlock is checked.

Fairness: the runbook waits until each connection has been read (`WF` of
`Read`), re-encryptions that are tried again and again succeed (`SF` of
`FinishUpgrade`: they are best effort and may fail any finite number of times),
and tests have a connect timeout (`WF` of `FinishTest`). `WindowDrains` says
that a key that stays current brings every row under it.
`SourcesResolve` is for serial requests; see section 11 for two.

## 5. Chat turns and their pools (`SqlPools`, `ChatTurns`)

An agent context has a factory of pools of its own. `SqlPools` models the
factory (`cached[x]`, the map), pools (`pool[p]`: connecting, open, or late after
the connect timeout) and calls of `query_database` (`call[k]`: at `resolve`,
`check`, `connect` or `query`). `get` looks into the map, awaits twice and writes
the map; `raceInit` gives up on a slow connect, whose late success is destroyed;
`destroyAll` closes what is in the map.

`ChatTurns` models the ways a question is answered. A turn (`stage[t]`) stores
its question, sets a title, routes it, runs the agent (or the SQL and document
specialists and a synthesis), and stores the answer; a streamed turn whose
stream fails runs again in a second context, and when that fails too answers
from the documents. `reply[t]` is the path whose text will be stored, `shown[t]`
the path whose text the client saw last, `told[t]` how the response ended. Every
write and every read after it may fail, conversations are deleted under turns,
and a restart ends everything in memory.

| Run | Instance | Shows |
|---|---|---|
| `turns` | 2 turns (each plain or streamed), one with a database source, 1 conversation, 1 connection, 2 pools, one tool call at a time, at most 2 per context, fairness | `PoolsEndWithTheirTurn`, `QueriesHaveTheirPool`, `Transcript`, `CompleteIsStored`, `AnswerIsStreamed`, `TurnsEnd` |

Two turns of one conversation are the least that interleave their messages; two
calls of a context are the least at which the second finds the pool of the first
in the map, or a connect that failed; two pools let a late connect coexist with
a new one. Only one turn has a database source, which keeps the run small: turns
share no factory. `CallsAtOnce` 1 is an assumption, the model's message could
hold several calls, and section 11 says what happens then. Restarts stay
possible, so deadlock is checked.

Fairness: every promise a turn awaits settles (the model answers or fails,
`raceInit` has a timeout, a statement has a timeout), and so do the connects
nobody waits for any more. Users and restarts are not fair, and `TurnsEnd` is
about any number of them.

## 6. Boot (`RbacMigrations`, `SchemaMigrations`, `Boot`, `BootInvariants`)

Each module of the application registers migrations that run at startup. A
migration is looked up in `_migrations`, applied and recorded, each in steps of
its own without a lock or a transaction. `RbacMigrations` and `SchemaMigrations`
give every tracked migration as a sequence of statements (`BootPlan` is all of
them in the order of the modules), `Boot` what a statement does to the database
(`Effect`), when Postgres refuses it (`Possible`), which statements its result
adds (`Following`: a branch on the schema, or the body of a loop for one
organization and the loop over the others), and the nodes that run them.
Taking a permission out of the catalog takes it from every role, since
`role_permissions` refers to it ON DELETE CASCADE. `Sendable` is the type of what
a node has still to send: which statements the i-th migration sends at all.
`BootInvariants` says what holds between two statements, and holds the invariant
the proofs need. `db` is one record: the permissions known, the grants of
each role, the roles of users and members, facts about tables and columns, and
what the backfills of projects and conversations move. A node may stop between
any two statements (`Stop`), and the next boot starts from what is there.

| Run | Instance | Shows |
|---|---|---|
| `boot` | 2 nodes, one migrating at a time; an empty database, one that Better Auth's tools made, and those of releases with 16, 20, 22 and 24 RBAC migrations, with 3 custom roles and organizations made by clients | `TypeOK`, `DefaultRolesConverge`, `CustomRolesInherit`, `BackfillsConverge`, `CustomRolesOnlyGain` |

`Serialized` is what `docs/architecture.md` asks of a deployment: while one node
migrates no other does. Without it a late duplicate of rbac_017 strips from
custom roles what rbac_019 has restored elsewhere. The earlier databases are
computed by applying a prefix of the same plan (`Install` in `MCBoot`), so they
are databases the program has made; one organization with members, one made by a
client and the default one are the cases the migrations tell apart. The three
custom roles hold `organization:read`, `organization:update`, and both with a
project permission, which is what the inheriting migrations look at. Stops are
not bounded: the state space is finite without a bound. Deadlock is checked.
On every run TLC also evaluates `DeploymentsAreSound`, the assumption of the
proofs, on each of these databases.

## 7. The public channel (`EmbedSites`, `PublicChat`, `EmbedWidget`)

`EmbedSites` has the sites (one per project, with its key), creation between its
look-up and its insert, rotation, deletion and the cascades from a project and
an organization. `issued` are the keys drawn so far: 128 random bits, so a key
is drawn once.

`PublicChat` has an ask's handler (`stage[a]`), one step per await: the rate
limit at its node, the look-up of the site by key, the project and its
organization, the counter of the month, the stream. The buckets of
`PublicRateLimitGuard` are a map per node with a count per window; counting
stops at one past the limit, since no comparison tells more. `ticket[a]` is
history: what `incrementMonthlyUsage` returned and whether the ask was served.
`wire[a]` holds what the response has sent and the client has not read.

`EmbedWidget` puts a page in front. An event is three symbols (its text and two
line breaks), `Read` delivers any prefix of what is on the wire, `buffer[a]` is
what `parseSseBuffer` keeps, and the panel has one answer area, one status line,
sources and errors. `overlapped` is history: asks that shared the panel.

| Run | Instance | Shows |
|---|---|---|
| `widget` | 1 project, 2 keys, 1 node, 1 address, 2 asks, `Cap`, `PerIp`, `PerKey` and `MaxChunks` 1, 2 months, `MaxBuckets` 1 | `TypeOK`, `CapHolds`, `BurstsAreShaped`, `RetiredKeysStayDead`, `AnswerIsWhole`, `PanelTells` |

Two asks are the least that compete for a cap, overlap in a panel, or meet a
rotated key; limits of 1 put every comparison at its boundary, and with
`MaxBuckets` 1 every new bucket sweeps. Two bounds on interleavings are in
`MCEmbedWidget`: pages carry the first key, and the second only replaces it
(`PagesCarryK1`); and some steps do not come between those of an ask they have
nothing to do with (`Resting`): from its look-up to the end of its response the
sites, the windows and requests for the configuration rest, and the calendar and
deletions of the project and the organization from its first chunk.
The server's properties are proved for any number of everything and without
these bounds. The asks of a run are finite, so it ends and deadlock is not checked.

## 8. Users, approval, sessions and impersonation (`AccessTables`, `UserAccess`)

`AccessTables` is `user`, `member`, `session` and accepted invitations, each
operator one statement. `UserAccess` has the requests of three controllers:
`PermissionsGuard` (approval, then effective role and permission), the checks of
`AdminService`, `SessionsService` and `OrgImpersonationService`, and the
statement each ends with; `call[r].at` is the await a request makes next. Every
read is of the rows as they are at that step and every later one may find them
changed. Sign-up, sign-in, joining, leaving, a change of the active organization
and the end of an impersonation are Better Auth's and external.

`saw[r]` is history: the facts that were true at some time since the request
began. The properties are about it, because the code promises no more: a check
reads a row that may change before the statement, but none may be missing or be
made on a row read before the request. `ScreensAgree` compares what
`getUserCapabilities`, the lists and the metadata of `createUser` report with
what the calls accept.

| Run | Instance | Shows |
|---|---|---|
| `access` | a superadmin, a manager of an organization, an invited user that waits for approval, a user not there yet; 2 organizations, 4 sessions; 2 requests, one other event | `ActorsAreEntitled`, `TargetsAreInScope`, `ScreensAgree` |

Bounds: 2 requests in all (`MaxRequests`), 1 other event (`MaxEvents`), at most
2 users in a bulk deletion (`MaxBulk`); of operations that differ only in the
column they write one is kept (`DistinctOperations`); the constraint
`Overlapping` keeps runs in which the requests overlap, have different callers,
and the event falls between. The four users are one of each kind the checks tell
apart. Requests are symmetric. Removed users and drawn tokens do not come back,
so the run ends and deadlock is not checked.

## 9. Airweave collections (`AirweaveCollections`)

A collection is created upstream and then recorded in
`organization.metadata.allowedAirweaveCollectionIds`; it is deleted upstream and
then removed from the list. `AirweaveOwnershipGuard` asks the list in one await
and the handler acts in a later one, `ProjectsService.attachSource` asks it
before it looks the collection up and inserts, and the update of an organization
writes the whole metadata column from a client's copy (`form`). Source
connections, connect sessions and re-authentications are there as far as they
belong to a collection. Upstream calls and writes fail, the process restarts
with or without `AIRWEAVE_READ_LOCKDOWN_ENFORCE`, organizations and projects go,
and a collection may be deleted in Airweave's own portal.

`seen[r]` is history as in section 8; `reported` and `removed` are the creations
and deletions answered with success, `overwritten` the organizations whose list
was replaced by a copy that was not current.

| Run | Instance | Shows |
|---|---|---|
| `airweave` | 2 organizations, 1 project, a new collection and a legacy one that the migration gave to the second organization, 2 source connections (one authenticated in the browser), 1 data source, 2 requests, 1 fault, 2 other events | `OwnersKeepTheirCollections`, `OneOwner`, `ActsAreOwned`, `DeletedStaysDeleted` |

Two requests are the least that draw one id, or use a collection while it is
deleted; one fault already lies between any two writes. A client asks only for
ids that were drawn (the suffix is random), and an id is not drawn again after
its deletion. The caller's permission is the guard's of section 8, and that the
organization named in a body is one of the caller's (`verifyCallerMembership`)
is taken for granted. Requests are bounded, so deadlock is not checked.

## 10. What is proved

TLAPS proves each of these for every value of the constants, from the named
assumptions of the modules.

| Module | Theorem | Inductive invariant |
|---|---|---|
| `VectorDbProofs` | `TypeCorrectness`, `DoneFilesAreIndexed`, `ListedFilesHaveBlobs`, `ServiceRefinesLifecycle` | `Types /\ Files` |
| `VectorDbProofs` | `NoJobIsStranded` | `Delivery` |
| `OrgMembershipProofs` | `TypeCorrectness`, `DeletedOrgIsEmpty`, `UniqueRoleNames`, `MembersKeepTheirRole` | `TypeOK`, each property itself |
| `OrgMembershipProofs` | `SerialRolesExist`, `SerialLastManagerStays`, for one request at a time; the first for an organization that is not the one of the signup hook | what the request has checked still holds |
| `SqlConnectionsProofs` | `RowsStayReadable`, `NoNeededKeyIsDestroyed`, for `Gate = "key"` | `KeysInUse` |
| `SqlConnectionsProofs` | `TypeCorrectness`, `TestsAreNotLost`; `SerialSourcesResolve` for at most one request | `FoundIsCurrent` for the last |
| `ChatTurnsProofs` | `TypeCorrectness`, `QueriesKeepTheirPool`, `ChatInvariant`; `PoolsAreClosed` for `CallsAtOnce <= 1` | `ChatInv`, `OneCall` |
| `ChatTurnsProofs` | `ConversationsAreTranscripts`, `CompleteTurnsAreStored`, `AnswersAreStreamed` | `StoryInv` |
| `BootProofs` | `TypeCorrect`, `NoRoleIsRenamed`, `CustomRolesKeepTheirs`, for any number of nodes at once | `TypeOK`, `NoRename` |
| `BootProofs` | `InterruptedBootsAreSafe`, `DefaultRolesAreThoseOfTheRelease`, `CustomRolesGetTheNewPermissions`, `BackfillsAreComplete`, for one node migrating at a time (`Serialized`) | `BootInv` |
| `PublicChatProofs` | `ChannelTyped`, `MonthlyCap`, `WindowsAreLimited`, `OldKeysAreDead` | `PublicInv` |
| `PublicChatProofs` | `AnswersAreWhole`, `PanelsTell` | `WidgetInv` |
| `UserAccessProofs` | `AccessTyped`, `EntitledActors`, `ScopedTargets`, `ScreensMatchChecks` | `AccessInv`; the last holds of any tables |
| `AirweaveProofs` | `CollectionsTyped`, `OwnersKeep`, `OwnersAreSingle`, `OwnershipIsChecked`, `DeletionIsFinal` | `AirweaveInv` |

* `Files`: a handler past the upsert has its points in the store, and a request
  past the put its blob. `DoneIsIndexed` alone is not inductive, because the
  write of `done` is several awaits after the upsert.
* `Delivery` counts. `Accounted(j, k)` says that `k` deliveries of `j` each
  counted an attempt below the limit or were wasted, so that `mretry <=
  MaxAttempts - 1 + wasted`; with at most one wasted delivery a message handed
  back still has a retry, and `Watched` says who acts on the job next.
* `KeysInUse`: every row is under a key of the process, every write in flight is
  under the current one (a restart drops those of the old process), and both
  keys are held.
* `ChatInv`: a call knows an open pool of its context (`CallsKnowPools`), the map
  holds open pools of its context (`MapHoldsPools`), and a stage says which
  contexts are live and may have calls (`StagesHaveContexts`). `OneCall` adds
  that an open pool is in the map, which a second concurrent call breaks.
* `StoryInv`: a turn writes to its own conversation and each message at its own
  stage (`MessagesInPlace`), a stage says what is stored of the turn for as long
  as its conversation exists (`StagesHaveStored`), and a reply is of the path the
  client saw last (`StagesHaveShown`). `Transcript` alone is not inductive: that no
  second answer comes depends on the stage of the turn whose first one is there.
* `BootInv`: `Sound` says of every recorded migration that what it did is still
  there. It stays because a migration that could undo it comes earlier in the
  order of its service and is therefore recorded (`RecordedInOrder`, `After`).
  Of the migration that a node applies, `RolesAdvance` and `ProjectsAdvance` say
  that each effect is there or its statement is still among those to be sent;
  with nothing left to send, what remains is what the record will claim. The
  proof is by kinds: which statements a migration sends (`SentBy`, from the text of
  the 54 migrations), what a statement of a kind leaves alone (`StatementStep`),
  and what it brings about (`RoleProgress`, `ProjectProgress`). A loop over
  organizations is one statement that unrolls, so no induction over its length is
  needed. `DeploymentsAreSound` assumes `Sound` of the databases a node may find:
  what an earlier release recorded, it has done. `Serialized` is needed: a node
  that is late can undo what another one has recorded (section 6). The types, and
  that custom roles only gain, hold without it.
* `ServiceRefinesLifecycle`: every step is a step of `VectorDbLifecycle` or
  leaves its variables alone.

* `PublicInv`: `Counted` says that an organization's tickets of a month carry
  different numbers from 1 up to the counter, so that the served asks inject into
  `1 .. Cap`; `Shaped` that a bucket of the current window has counted all that
  passed, and an absent or expired one that nothing did; `Dead` that an ask sent
  with a retired key has no scope, because a key that left a site is issued and
  never comes back. Each step is one action on the sites, one on the buckets and
  one on the handlers (`StepKinds`), and each part is proved against its own.
* `WidgetInv`, for every number of asks, pages and chunks: what an ask has not
  shown is the remaining chunks, whole, and how the response ends (`Remains`, over
  the buffer and the wire together, so that a prefix of any length may be
  delivered); the panel of an ask that had it to itself shows exactly the chunks
  before those (`LatestIsAlone`); `PanelFollows` relates the panel to the latest
  ask. The folds of `parseSseBuffer` are reasoned about as functions on the indices
  of the symbols.
* `AccessInv`: the history of a request holds every fact that is true now
  (`Known`), and what the checks it has passed require was true in it
  (`Checked`: the shape of the call, the caller's part, the targets' part). A
  fact, once in the history, stays, so no later write of others undoes a check.
* `AirweaveInv`: a call is about what its step needs; nothing knows of a
  collection that was not drawn (`Fresh`); a request about to record a new
  collection is the only one that has it, and no list holds it (`OneRecords`,
  `ListsAreDisjoint`). A step is quiet, a creation, a record, the removal of an
  entry or an event of an organization, and each kind has its lemma.

Every safety invariant and action property that a passing run checks is stated by
a theorem; where a theorem has a condition (`Serialized`, `CallsAtOnce <= 1`, one
request at a time, `Gate = "key"`) the run's constants meet it. Only
model-checked: the liveness properties `JobsSettle`, `WindowDrains` and `TurnsEnd`
(TLAPS has no ENABLED and hence no fairness). What a recursive function computes
for every input is out of the prover's reach too, since the library's induction
theorems cannot be instantiated by its backends.

## 11. Disagreements between code and documents

One run ends in a violation of what a comment says:

* `upgrade`: a re-encryption called harmless writes back an old password when
  `update` runs between its read and its write.

The modules state the following too, and TLC finds each violated on the
instance named; theorems and passing runs are about the cases without them.

* `DeletedRolesAreUnused` (`OrgMembership`, 2 requests): `role.typeorm-repository.ts:136`
  uses "a transaction with a row lock to eliminate the race condition", but the
  usage is counted before that transaction and not in it; a role that is renamed
  or assigned in between is deleted under its members.
* `CredentialsRecoverable` (`SqlConnections` with `Gate` `"format"`): the
  runbook's query for rows that still need the old key
  (`sql-connections-key-rotation.md:88`) counts wire formats. A row in the new
  format under the old key passes it, and listing connections, the remedy of
  line 59, decrypts none.
* `PoolsEndWithTheirTurn` (`ChatTurns` with `CallsAtOnce` 2): by ADR 0001 pools
  die at the end of the request; of two parallel calls for one connection one
  pool stays open, for the factory's map holds the other.
* `BootNeverFails` (`Boot`, 1 node, an empty database): the migrations are to run
  idempotently, but vector_db_002 copies a column and drops it before it is
  recorded; a process that ends in between leaves a database that no later boot
  gets past. The reset of the old project tables is another such place.
* `OneErrorPerAsk` (`EmbedWidget`): `stream-transport.ts:31` keeps two ways to
  fail distinct, but an `error` event followed by the end of the stream shows a
  second error.

Reached by the models and not stated as properties:

* A sibling's `setVectorDbReadyIfIdle` between `setJobStatus(failed)` and
  `updateStatus(error)`: the second throws and a fourth attempt is counted.
* Two deliveries cut short by restarts and two failed attempts leave a pending
  job without a message on a running node.
* `deleteFile` never re-evaluates the status: a knowledge base can stay in
  `processing` with nothing left to process. It also counts down for a row that
  another request has deleted.
* A duplicate message takes a `done` job back to `processing`.
* With two requests in flight: a data source whose connection is deleted, a
  member added twice, an organization without a member who may invite.
* A test cut off by a restart leaves its connection in `connecting`.
* Histories are read oldest first with a limit of 200, so that a longer
  conversation's window of recent messages misses the recent ones.
* `docs/architecture.md:142` lists the approval check before the guard's other
  checks; the code lets superadmins pass before it.
* `sessions.controller.ts:42` says that a superadmin who names an organization is
  checked against it; the service skips the check for superadmins.

## 12. Observations

Behaviour the models show where no document promises otherwise.

* Boot: a process that ends between the insert of the default organization and
  its roles leaves it without roles. On a second node a late rbac_017 or chat_002
  undoes part of a later migration. Organizations created by administrators get
  fewer permissions than the ones the migrations seed.
* Public channel: refused and abandoned asks are counted. An organization deleted
  between look-up and count answers 500. Two questions share one answer area.
* Users: an approval of oneself reads `pending` and overwrites a rejection made in
  between; an error of the approval query is swallowed. A ban, a new role or a new
  password ends no session; an impersonation outlives the membership, the role and
  the impersonator it was created from. `setUserRole('admin')` deletes all
  memberships, after which the same call fails for want of an organization though
  the capability says otherwise. The capability to impersonate is granted for a
  member whose platform role is NULL, and the call answers 403. `createUser`
  without an organization passes the controller for the role admin and not the
  service. `RolesGuard` and `OrgRoleGuard` guard no route.
* Airweave: an update of an organization that carries metadata replaces the list
  (ADR-011 says that no caller sends it); adding to the list of an organization
  that was deleted meanwhile reports success; a superadmin's reference check looks
  at one organization's projects only; a project may attach between the reference
  check and the deletion, and no foreign key holds; a failed record leaves an
  orphan upstream; a connect session lives on after the ownership; the seed of the
  lists can give one legacy collection to two organizations, which is why
  `OneOwner` is about the others.

## 13. Not modelled, and why

Wording, prompts, rendering and logging; the language model, whose every answer
is a choice; parsers of documents and images, whose success or failure is a
choice; reads (dashboard, retrieval, lists); pure checks of configuration, hosts
and SQL text. Names and endpoints of connections, renaming of knowledge bases
and projects, and data sources of kinds other than database and Airweave
collection are abstracted away within the modelled components. The guard is
modelled in front of users, sessions and impersonation; elsewhere callers are
taken to have the right to act. Who reads mail is outside.

## 14. Plan

1. Pure algorithms against reference definitions over bounded inputs: the fence
   stripper under every cut, the result shaper's bounds, the history window, the
   chunker of ingestion. They need recursion and stay in modules without theorems.
2. Sources of the other kinds and the status they copy; knowledge bases that are
   deleted while a project attaches them.
3. `OrgMembership` composed with the permission guard, so that a role's grants
   change under a request.
4. Proofs of refinement: an abstract conversation (questions and answers of turns,
   appended once) that `ChatTurns` implements, and an abstract collection with an
   owner for `AirweaveCollections`.
5. Liveness of an ask in the widget under a network that delivers.
