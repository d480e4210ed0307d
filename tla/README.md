# A TLA+ model of Zerobase

Zerobase is a backend in one binary: an HTTP server (axum, tokio) over an
embedded SQLite database, with collections of records, authentication, realtime
events over SSE, file storage, batches, webhooks and JavaScript hooks.  The
crates `zerobase-core` (services, schema, hooks, webhooks), `zerobase-db`
(SQLite), `zerobase-auth`, `zerobase-files`, `zerobase-api` (handlers,
middleware), `zerobase-hooks` (JavaScript) and `zerobase-server` hold the logic;
`zerobase-admin` and `frontend/` are the dashboard.

These modules model the parts in which several steps, actors or failures meet,
and the rules, filters and field types on which the meaning of a request
depends.  TLC checks them on small instances; for ten of them TLAPS proves the
safety properties for every value of the constants.

    tlc -config MCOtp.cfg MCOtp.tla        # each MC module with its .cfg
    tlapm LimitProofs.tla                  # and the other *Proofs.tla

## What is where

| module | models | source (under `crates/`) |
|---|---|---|
| `RecordService` | create, update and delete of records with the on-delete actions | `zerobase-core/src/services/record_service.rs`, `zerobase-db/src/record_repo.rs` |
| `RecordLifecycle` | the abstract promise: an id appears once and never comes back | (implemented by `RecordService`) |
| `Batch` | the batch endpoint over `RecordService`, and its rollback | `zerobase-api/src/handlers/batch.rs` |
| `Fields` | what a field of each type does with a value, on its way in, to SQLite and back | `zerobase-core/src/schema/field.rs`, `record_validator.rs`, `zerobase-db/src/record_repo.rs` |
| `Rules` | the two parsers of rules and filters, the evaluation in memory, the WHERE clause | `zerobase-core/src/schema/rule_parser.rs`, `rule_engine.rs`, `zerobase-db/src/filter.rs` |
| `Expand` | relations expanded into an answer, along the view rules | `zerobase-core/src/services/expand.rs` |
| `Access` | the record handlers over the three | `zerobase-api/src/handlers/records.rs` |
| `Collections` | definitions of collections, their tables, indexes and full-text tables | `zerobase-core/src/services/collection_service.rs`, `zerobase-api/src/handlers/collections.rs`, `zerobase-db/src/schema_repo.rs`, `fts.rs` |
| `Realtime` | SSE connections, subscriptions, the broadcast channel | `zerobase-api/src/handlers/realtime.rs`, the broadcasts of `handlers/records.rs` |
| `RecordFiles` | uploads, clean-up and thumbnails of records' files | `zerobase-api/src/handlers/records.rs`, `zerobase-files/src/` |
| `Hooks` | the hook chain, the JavaScript engine and its reloads, webhooks and their deliveries | `zerobase-core/src/hooks.rs`, `webhooks/`, `zerobase-hooks/src/` |
| `RateLimit` | the rate limiter | `zerobase-api/src/middleware/rate_limit.rs` |
| `Otp` | one-time-password login | `zerobase-auth/src/otp.rs` |
| `Accounts` | passwords, tokens, refresh, verification, password reset, e-mail change | `zerobase-auth/src/` (`token.rs`, `verification.rs`, `password_reset.rs`, `email_change.rs`), `handlers/auth.rs`, the auth columns in `record_service.rs` |
| `SignIn` | second factor, passkeys, external identities | `zerobase-auth/src/` (`mfa.rs`, `passkey.rs`, `oauth2.rs`), `handlers/external_auths.rs` |
| `RecordServiceProofs` | the theorems about `RecordService` and `Batch` | |
| `LimitProofs` | the theorems about `Otp` and `RateLimit`: what bounds a client's guesses | |
| `AccountsProofs`, `RealtimeProofs`, `RecordFilesProofs`, `SignInProofs`, `HooksProofs`, `CollectionsProofs` | the theorems about the module of that name | |
| `MC*` | the instances TLC checks | |

`PROJECT.json` lists components, runs, mutants, hazards, findings and theorems,
and maps every definition to the lines it stands for.  Operators called `...Bug`
are faulty variants of the definition that follows them; put in its place, each
makes TLC find the property it is listed with violated.

## Inventory

Per component: its state, its operations, what makes it hard, what makes it
correct.

**Record service** (`record_service.rs`, `hooks.rs`).  State: the SQL tables.
Operations: create, get, list, update (PATCH with the modifiers `field+` and
`field-`), delete with Cascade, SetNull, Restrict, NoAction.  It calls the
repository, which executes one SQL statement per call: reads on a pool of WAL
read connections, writes through one connection behind a mutex.  There is no
transaction around an operation.  Hard: everything read may be stale when it is
written; a cascade is a recursion of independent statements that may stop
anywhere; references form diamonds and cycles.  Correct: references lead to
records, deletes touch only what they should, deleted records stay deleted.
*Modelled* (`RecordService`).

**Batch** (`handlers/batch.rs`).  State: the operations done so far.  They run
one after the other; when one fails, the created records are deleted, last
first.  Hard: the undoing is itself a series of cascading deletes that may fail.
Correct: a batch of creates leaves nothing behind.  *Modelled* (`Batch`).

**Schema fields and validation** (`schema/field.rs`, `record_validator.rs`).
Pure functions: preparation and validation by type, then conversion to a SQL
value and back.  Hard: values of any kind meet fourteen types of field, and
what comes back from the database is validated again by the next update.
Correct: whatever is stored can be written again.  *Modelled* (`Fields`,
`Access`).

**Access rules and filters** (`rule_parser.rs`, `rule_engine.rs`, `filter.rs`).
Pure functions, twice: rules are parsed and evaluated in memory, filters are
parsed and turned into SQL.  Hard: two grammars and two evaluations for one
language; a rule is checked on a record read earlier.  Correct: both give the
same answer, and no write happens that no rule allowed.  *Modelled* (`Rules`,
`Access`).

**Relation expansion** (`expand.rs`).  Reads records along relations and back
along them, to a bounded depth.  Hard: cycles, overlapping paths, view rules of
every collection on the way.  Correct: exactly the visible records.  *Modelled*
(`Expand`, `Access`).

**SQLite record repository** (`record_repo.rs`).  Its statements are the steps
of `RecordService`, its conversions are in `Fields`, its conditions in `Rules`.
*Partly*: sorting, paging and full-text search only read.

**Collections** (`collection_service.rs`, `schema_repo.rs`, `fts.rs`).  State:
the rows of `_collections` and `_fields`, SQLite's tables, views, indexes and
full-text tables.  Operations: create, PATCH, delete, import, indexes.  Each
write is one transaction of many DDL statements; a PATCH and an import first
read.  Hard: a change rebuilds the table and copies its rows; names are made by
joining names; two handlers interleave.  Correct: catalog and database agree, no
change loses a record.  *Modelled* (`Collections`).

**Realtime hub** (`handlers/realtime.rs`).  State: the map client → topics and
identity behind an `RwLock`, a tokio broadcast channel of 256 events, a receiver
per connection.  Operations: connect, PB_CONNECT, set subscriptions, broadcast,
the filter of a stream, disconnect.  Hard: none of these is atomic with another;
slow readers are overtaken; commit and broadcast are two steps of a handler.
Correct: a client that subscribes and then reads misses nothing, gets nothing
twice, and is forgotten when it leaves.  *Modelled* (`Realtime`).

**Record handlers and files** (`handlers/records.rs`, `zerobase-files`).  State:
names in rows, objects in the storage backend.  Operations: multipart create
(insert, upload, update), update (read, upload, update, clean up), delete
(delete, purge), thumbnails made on demand.  Hard: two stores, no transaction,
every call may fail, and a body may name any file.  Correct: an upload that a row
names is in storage; what is replaced or deleted is removed.  *Modelled* (`RecordFiles`; rules and answers in
`Access`, broadcasts in `Realtime`).

**One-time passwords** (`otp.rs`).  State: a map of pending codes in memory
behind a mutex.  Operations: request, login.  Hard: concurrent logins with one
code, clean-up by others, restarts.  Correct: one token per code, bounded
guesses, no live code lost.  *Modelled* (`Otp`).

**Passwords, tokens and account flows** (`password.rs`, `token.rs`,
`verification.rs`, `password_reset.rs`, `email_change.rs`).  State: the row's
password hash, `tokenKey`, `email`, `verified`; tokens are stateless JWTs that
carry the tokenKey.  Hard: a token read before a rotation, a flow of two updates
interrupted, whole-row writes undoing a rotation.  Correct: a revoked token stays
revoked, and a token never outlives the password it was bought with.
*Modelled* (`Accounts`), but for superusers' tokens.

**MFA, passkeys, OAuth2** (`mfa.rs`, `passkey.rs`, `oauth2.rs`).  State: pending
setups and challenges in memory, recovery codes in rows, credentials and links
in tables of their own.  Hard: recovery codes consumed by read-modify-write, a
credential renewed by delete and create, users created and linked in two
statements and found again by an address that may change.  Correct: a code or a
challenge serves once, no passkey is lost, an identity gets one account.  *Modelled* (`SignIn`).

**Rate limiting** (`middleware/rate_limit.rs`).  State: a bucket per client and
route category in a concurrent map.  Operations: check, cleanup.  Hard: the
clock is read before the bucket is locked; answers are in whole seconds.
Correct: no window grants more than its budget, a refused client is not put off
for longer than it was told and one second more.  *Modelled* (`RateLimit`).

**Hooks, JavaScript engine, webhooks** (`hooks.rs`, `zerobase-hooks`,
`webhooks/`).  State: registered hooks by priority, the callbacks of the script
files, the table of webhooks, a task per delivery, its log.  Hard: reloads during
requests, callbacks identified by counting, up to three attempts with back-off,
loss at shutdown.  Correct: the engine gets to what is on disk, a refusal stops
the operation, every delivery ends and its log is true.  *Modelled* (`Hooks`),
except what a script computes.

**Not modelled**: settings and superusers, export and unique checks, backups,
connection pool, migrations, request logs, the HTTP surface and server (see the
end).  The server's shutdown appears as a restart or crash in `Otp`, `SignIn`,
`Realtime` and `Hooks`.

## The models

### RecordService and Batch

`rows` are the tables: id → row, a row being the cells of the plain columns and,
for each relation field, the *set* of ids it holds.  `req[r]` is where request
`r` stands with everything it has read: the row an update will overlay, the ids
whose lookup is still to come, the stack of frames of a delete.  One action is
one repository call:

| code | actions |
|---|---|
| `create_record` | `CreateRecord`, `CheckReference` or `ReferenceMissing`, `Insert` |
| `update_record` | `UpdateRecord` (find_one, merge, validate), `CheckReference` or `ReferenceMissing`, `Update` |
| `delete_record`, `process_on_delete_actions` | `DeleteRecord`, `FindReferencing` or `Refuse` per field, `Cascade` / `CascadeMissing` / `SetNull` per row, `Remove` / `RemoveMissing` |
| an error of the repository | `Fail` |
| the recursion exhausts the stack | `Overflow` |

The schema (collections, fields, on-delete actions, order of the fields) is a
constant.  Abstracted: the validators of non-relation fields (a body is accepted
or does not start a request; they are in `Fields`), auth columns (plain columns
here), hooks (`main.rs` gives the service none; a before-hook that refuses is a
`Fail`).  `generate_id` never returns an id again; that is an assumption about 15
random characters.  `ever` is history.

`Batch` extends it.  `batch[r]` is where the handler stands: `next` between two
operations, `run` in one, `undo` and `undoing` in the rollback.

| code | actions |
|---|---|
| `execute_batch` | `Begin`, `CallCreate` / `CallUpdate` / `CallDelete`, `OperationDone`, `Commit`; `Reject` for a rule or validator that says no, `OperationRefused` for the service, `OperationFails` for an error |
| `rollback_operations` | `UndoCreate`, `SkipMissing`, `Undone`, `UndoRefused`, `UndoFails`, then `Report` |
| the service at work | `Work` (all of `RecordService`'s inner steps) |
| the stack is exhausted | `ProcessDies` |

A batch's operations are chosen one at a time; the code has them all before it
starts, but no step depends on a later one.  The handlers of single records are
batches of one.

In the shipped server, `CollectionService` hands the record service a schema in
which relation fields come back from the database as text, so that cascades do
not run there; the model is of the service for any schema, as its tests use it.

### Fields, Rules, Expand, Access

A JSON value is a pair of its kind and its content, a string one of a small set
whose text matters through tables given as constants: which strings are blank,
which parse as numbers, moments, addresses, as JSON arrays.  So `Fields` has for
each type `Prepared` and `Fits` (field.rs), `Injected` (the dates a create or an
update sets), `ValidRecord` (record_validator.rs), `ToSql`, `Coerced` by the
column's affinity, and `FromSql` (record_repo.rs).

`Rules` has both recursive-descent parsers over sequences of tokens: rules know
`!` and operands on both sides, filters compare a field with a literal.
`Holds` evaluates a tree on a JSON record, as the rule engine does; `Where`
is the three-valued verdict of SQLite on the WHERE clause of `filter.rs`, with
the affinities of the columns.

`Expand` is `expand.rs`: a schema, tables, a caller and a set of paths give a
tree of records.  None of these three modules has state.

`Access` puts the handlers around them:

| code | actions, operators |
|---|---|
| `create_record` | `Create` (the rule sees the raw body) |
| `update_record` | `CheckUpdate` (read, rule), then `Update` (read again, merge, validate, write) |
| `delete_record` | `CheckDelete`, then `Delete` |
| `list_records`, `view_record` | `Listed`, `Selected`, `CanView`, `Expanded` |

Between the check and the write the handler awaits the body; that is the
interleaving checked.  A refused request changes nothing and is no step.  `seen`
is history: the states the record was in since the check.

### Collections

`db` is what SQLite holds: the catalog (`_collections`, `_fields`), tables with
their columns and rows, views, indexes, full-text tables.  A transaction is an
operator from a state to the set of its outcomes, empty when a statement fails
(`Created`, `Updated`, `Deleted`); a rebuild is `Rebuilt`: make a new table, copy
what columns are in both, drop, rename, make the indexes again.

| code | actions |
|---|---|
| `create_collection`, `delete_collection` | `Create`, `Delete` |
| PATCH of a collection | `Patch` (handler and service read), `Update` |
| `add_index`, `remove_index` | `AddIndex`, `RemoveIndex`, then `Update` |
| `import_collections` | `Import`, per collection `LookUp` and `ImportOne` |
| INSERT of a record | `Insert` |

Names are sequences of words, the words an underscore separates, because names
of indexes and full-text tables are joined from others and two of them may
collide.  Abstracted: names are legal and none starts with an underscore; a
column is whether it is required, unique, searchable; of the columns an auth
table adds there is `email`; a cell keeps its value when the rebuild copies it into a
column of another type (the affinity of the new column, `schema_repo.rs:898-904`, is
not modelled); a view shows id and times of one table.  `With` and
`Over` are the ways a map changes: an entry put in, and one map laid over another
(what a body leaves out is what is stored; what `IF NOT EXISTS` finds stays).  A
list of indexes is made as a whole, each name with the first of the list that has
it.  `Declarable` is what SQLite checks of the columns of a CREATE TABLE: a field of
an auth collection that has the name of a system column makes it fail.

### Accounts

One auth collection: `rows[u]` has the columns that matter, address, mark,
password and tokenKey.  A token holds a copy of the key and is stored nowhere, so
`tokens` is the set of all that were ever handed out or mailed, each usable any
number of times.  A request is one of the flows:

| code | actions |
|---|---|
| `auth_with_password` | `AuthWithPassword`, `Issue` |
| `auth_refresh` | `AuthRefresh` (middleware), `Reissue` (handler), `Issue` |
| `request_verification`, `confirm_verification` | `RequestVerification`, `Issue`; `ConfirmVerification`, then an update |
| `request_password_reset`, `confirm_password_reset` | `RequestPasswordReset`, `Issue`; `ConfirmPasswordReset`, then an update |
| `request_email_change` | `RequestEmailChange` (middleware), `LoadAccount`, `CheckAvailable`, `Issue` |
| `confirm_email_change` | `ConfirmEmailChange`, `CheckStillAvailable`, then two updates |
| `update_record` | `Read` (find_one, merge, prepare_auth_fields), `Write` or `WriteConflict` |
| PATCH of a client | `UpdateRecord`, then an update |
| an error of the repository or the mail server | `Fail` |

`RecordService` shows what else an update does; here only what stale rows do to
passwords and keys matters, so an update is its read and its write.  Keys are
numbered in the order they are generated for an account: fifty random characters,
or a UUID in the e-mail change, do not repeat.  A key that a client writes itself
is a new one too (that clients may write `tokenKey` at all is up to the
collection's update rule).  Expiry needs no clock: a token that expires is one
that is not presented any more, and every property is about tokens that are.
`proof` and `to` of a token and `marks` are history; `marks` holds which accounts
had their address edited by a client, an update overtaken by another, or an
e-mail change that failed half-way.

`AlreadyVerified` follows the value: SQLite stores the mark as an INTEGER, the
repository reads a JSON number back, and `as_bool()` of a number is none.  So with
this repository the early return for verified accounts ("If already verified,
returns early (no error, no email)", `verification.rs:54`) is never taken; the mock
repositories of the unit tests keep a boolean.

### SignIn

The same rows, seen by the other ways in.  `pending` is the map of setups and
challenges in memory, `passkeys` and `links` are `_webauthn_credentials` and
`_externalAuths`, `partial` the tokens that a password buys when there is a
second factor.

| code | actions |
|---|---|
| `update_record` under all of it | `ReadRow`, `WriteRow` |
| `request_mfa_setup`, `confirm_mfa_setup`, `disable_mfa` | `RequestMfaSetup`, `ConfirmMfaSetup`, `DisableMfa` |
| `auth_with_password`, `auth_with_mfa` | `AuthWithPassword`, `AuthWithMfa`, `Spent` |
| passkey registration | `RequestPasskeyRegister`, `ConfirmPasskeyRegister` |
| passkey login, with the new counter | `PasskeyBegin`, `PasskeyFinish`, `RemovePasskey`, `RestorePasskey`, `LoadUser` |
| `auth_with_oauth2` | `AuthWithOAuth2`, `FindLink`, `FindByEmail`, `CreateUser`, `LinkUser` |
| unlinking | `UnlinkExternalAuth` |
| PATCH of the address, `confirm_email_change` | `ChangeEmail`; `ConfirmEmailChange`, `Rekey`, each with its update |
| expiry, restart, others at work on the rows | `Expire`, `Crash`, `ChangePassword`, `DeleteUser` |

Secrets are numbers that never repeat; what the libraries verify succeeds, or the
call is as if it had not been made.  `MfaFields` says whether the collection has
the fields MFA writes, for they are not system fields of auth collections.  An
address is changed by an update, which may come late and put an old one back;
that a token for it was mailed and is still good is the business of `Accounts`.
`created` holds the accounts made for an identity under its address.  What leads
from the identity to the account is the link, or else the address, and `parted`
are the accounts that neither leads to any more: not linked when their address
changed, or unlinked after it.

### Realtime

`Commit` is the service's write inside a handler, `Broadcast` the handler's call
after it, `Abandon` a multipart create that fails after its insert.  A
connection goes `Register`, `Subscribe`, `Greet` (PB_CONNECT) and then loops over
`Receive` or `Lag`, `Check`, `Write`; `Close` drops the stream and `Disconnect` is
the task its guard spawns.  `SetSubscriptions` is the POST; `Fetch` is a client
reading the records.  The channel is the sequence `log` of which only the last
`Capacity` events can be received.  Whether an event's rules let a client see the
record is the set `viewers` chosen with the event.  `fetched`, `announced`, `got`,
`missed` and `late` are history.

### RecordFiles

`rows` holds the names in the one file field, `store` the objects.  A request
walks through uploading its parts, `ReadRow` and `WriteRow` (the service's
update), cleaning up old files; or `DeleteRow` and `PurgeFiles`; or `ReadOriginal`
and `CacheThumbnail`.  Each storage call has a failing twin.  A body, JSON or
multipart, may put any name into the field: `validate_value` of a file field
(`field.rs:1311-1349`) asks for non-empty, different texts and never for an object
in storage (`Valid`).  `claimed` remembers the names a body brought that the row had
not (`Claim`); `MaxClaims` bounds them.  A generated name is random and is none that
a client has written before.  `CascadeRow` is a row
deleted by someone who does not know about files: a cascade or a batch.

### Hooks

`Chain` is the registry sorted by priority.  A request goes through the chain
before (`BeforeGuard`, `BeforeScripts`, `BeforeWebhooks`), through `Persist`, and
through the chain after.  The engine's part is `files` (the directory), `loaded`
and `loader`; the watcher's `Edit`, `Reload`, `LoadFile`, `EndReload` are the
listing, the reading of each file and the end of a reload under the write lock.
`Invoked` models how a callback is found again: by its place among *all*
registrations of the file, while the script counts calls *per event*.  A webhook's
task is `Post`, `LogAttempt`, `Retry`, with a copy of the settings it was started
with; the administration is `CreateWebhook`, `StartUpdate` and `FinishUpdate` (read,
write the whole row), `DeleteWebhook`.  `Crash` takes requests and tasks along.
`born`, `arrived` and `log` are history.

`registry` and webhooks are not wired in `main.rs`; the model is of the parts as
their own tests put them together.

### RateLimit

A request is `Arrive` (it reads the clock) and `Allow` or `Refuse` (the entry of
its bucket is locked); `StartCleanup`, `Remove`, `EndCleanup` are `cleanup`, which
the server never calls.  Time is in ticks, `PerSecond` to the second, because
Retry-After is in whole seconds.  `opened`, `granted` and `promised` are history.
Its specification is called `LimiterSpec`, and so on, because `LimitProofs` has it
next to that of `Otp`.

### Otp

`store` is the map; the mutex covers exactly the actions that read or write it
(`InsertOtp` and the `Check...` actions).  Reading the clock, looking up the user
before or after, sending the mail are steps of their own, so the time a request
works with may be old.  `tries` and `tokens` are history.

## Runs

| run | checks | shows |
|---|---|---|
| `records_sequential` | `NoDanglingReference`, `CascadesAlongReferences`, `DeleteOnlyUnlinks`, `CreatesAreUndone`, `BatchesEnd` | one request, batches included, failing anywhere: no dangling references, deletes touch only what they must, a failed batch of creates is undone, everything ends |
| `records_concurrent` | `EveryReferenceWasARecord`, `RecordsStayDeleted` | two requests at once: stale writes bring in no unknown id and no deleted record (the refinement of `RecordLifecycle`) |
| `access` | `RowsStayWritable`, `VerdictSurvivesStorage`, `FilterAgreesWithRule`, `ReadsAsMeant`, `ExpansionIsExact`, `OnlyPermittedWrites` | twenty-two scenes of schema, rules, rows and requests |
| `collections` | `TablesMatchCatalog`, `RowsSurvive` | two handlers changing collections around inserts of records |
| `fts_clash` | `TablesMatchCatalog`, **violated** | a collection named after another with `_fts` loses its table |
| `realtime` | `NoChangeMissed`, `SentOnceInOrder`, `AtMostOneLateEvent`, `StreamsCatchUp` | one connection against two handlers and a lagging channel |
| `record_files` | `NamedFilesAreStored`, `PurgedRecordsStayEmpty`, `UpdateLeavesNoOldFile` | file-carrying requests whose calls may all fail, with bodies that name files of their own |
| `hooks` | `LoadedIsCurrent`, `RefusalStops`, `LogTellsTheTruth`, `DeliveriesEnd`, `EditsTakeEffect` | scripts edited or webhooks administered around an operation; failed deliveries, a crash |
| `rate_limit` | `WindowBudget`, `RetryWithinASecond`, `WindowsApart` | two tasks whose clocks are older than the bucket: budgets hold, and a second after it was told to come back a refused client finds the window over |
| `otp` | `OneTokenPerCode`, `AttemptsBounded`, `LiveCodeKept` | concurrent logins, clean-up, expiry, restarts |
| `accounts` | `TokensDieWithPassword`, `NewAddressRevokesTokens`, `RevokedForGood` | two requests at once over all flows, failing anywhere |
| `sign_in` | `RecoveryCodesAreSpent`, `PasskeysKept`, `ChallengesOnce`, `OneAccountPerIdentity` | two calls at once over MFA, passkeys and OAuth2, while addresses change |

### Bounds, and why they are enough

* `records_sequential`: one request, three ids (a post and two comments), four
  fields with Cascade twice, SetNull, Restrict.  A comment can hang on the post, on
  the other comment or on both, which is a diamond; replies can form a cycle.
  `MaxDepth = 3` is one frame per record, so that only a cycle overflows.
  `MaxBatchSize = 3`: a create for each id, or two of them and the operation that
  spoils the rollback.  Each id is used once, so every behaviour stops in the end:
  hence no deadlock check.
* `records_concurrent`: two requests suffice for every race of a read and a write,
  three ids of three collections (a comment of a post, which may pin it, and a tag
  either may point to) for a reference that is created, moved and deleted under a
  request, through a field of each on-delete behaviour that has one.  The pin closes
  a cycle of cascades, which `MaxDepth = 2` lets overflow.  No plain column: nothing
  checked here depends on one.
* `access`: one scene per kind of field (twenty definitions; 33 inputs; a second,
  untouched field and writable dates), where every input meets every stored value
  by two requests; a scene of posts with four callers, rules made of conditions and
  operators, two requests in flight and three to make; a scene of three records
  that refer to one another in a cycle.  Every field meets literals of all types in
  filters and in view rules; the texts `~` is about are spelled out, with both
  wildcards and a letter beyond ASCII (`e'`, `E'`), as values and as operands.  Moments are counted in a clock of one
  tick, numbers in halves: a text is told from another only by the tables.
  `ReadsAsMeant` is over some two hundred and forty trees of up to three conditions, which
  is all that precedence of two binary operators and `!` can depend on.
* `collections`: two names, two columns, two records, four changes, two handlers.
  A race needs a read, another handler's change and the write; the other changes make
  the collections they are about.  One value, and null: what is checked is that a
  cell is kept, and two cells of one value break a unique index.  The names of this
  run do not clash; `fts_clash` adds one that does.
* `realtime`: one connection (connections share only the map and the channel, and
  neither is changed by another's stream), two handlers between commit and
  broadcast, two records, a channel of two events and three changes: the third
  makes a reader that has not moved lag.
* `record_files`: one request, two records, three names (a row with two files and
  one being uploaded).  One request because the properties are about failures;
  what two requests do to the files of one record is in the hazards.  Clients make
  up a name twice: one can be kept while the other is replaced, or each of the two
  records can name the same file.  Records are alike and so are names, hence symmetry.
* `hooks`: two files, edited twice, so that an edit can fall into a reload and into
  the next; or one webhook with three changes, so that it can be created, be
  updated by a call that read it earlier, and be deleted.  Three attempts, as in
  the code.  One request: requests share only what these change.
* `rate_limit`: two tasks, two categories with budgets 1 and 2 and windows of 4
  and 3 half seconds (one of them no whole number of seconds), a delay of one tick
  between clock and bucket, eight ticks: two windows and what follows.
* `otp`: two calls, ids and codes, one address, two attempts, a code that lives
  for one second, a clock that runs for two.  Two calls can race for one id, or
  one can clean up while the other holds its code.
* `accounts`: ann's account is used (`Active`), bob's keeps an address taken, a
  third address is free; two passwords, as a property can only tell the same from
  another.  `MaxKeys = 2` keys after the first and `MaxTokens = 2` tokens: enough
  for a token that survives one reset and is judged after a stale write, and for a
  reset link presented twice.  A request that would need another key or token
  waits for ever, hence no deadlock check.
* `sign_in`: two calls at once, three users, two passkeys, two identities with
  different addresses (and providers that give none), two recovery codes.  Each
  behaviour starts with one family of calls and what can get in its way: two
  setups, three second factors, a password change, a disabling; or a registration
  and three logins; or two OAuth2 logins with an account of that address, a crash,
  an unlinking, a deleted user and a changed address; or three with no account, an
  unlinking and a changed address.  One change of an address is enough to leave it
  free for a second account, and its stale writes can put it back.  Calls,
  passkeys and the users still to be created are alike, hence symmetry.

### Fairness

`records_sequential`: weak fairness of `GoOn(r)`, whatever a running batch can do
next but fail; a handler runs to its end on its thread and nothing it waits for is
held by another request.
`realtime`: weak fairness of each stream's steps and of the spawned disconnect;
tokio polls the stream of a client that keeps reading, and one that does not is
never `Receiving` for ever but closed by `Close` or simply slow, which the weak
fairness rules out for `StreamsCatchUp`.
`hooks`: weak fairness of the watcher's reload and of each delivery's task: the
thread runs, timers fire and the HTTP client has a timeout.
Nothing is assumed of clients, of handlers (no commit, no broadcast has to
happen), of administrators or of time; the other runs state no fairness.

## Theorems

Each holds for every value of the constants that the named assumptions of its
modules allow.  These give the ranges of the constants (`LimitAssumption`,
`SchemaAssumption`, `BatchAssumption`, `AccountAssumption`, `LimitsAssumption`,
`ArrivalsAssumption`, `ChannelAssumption`, `FileAssumption`, `SignInAssumption`,
`HooksAssumption`, `ImportsAssumption`) and four say more: `SkewAssumption`, that a request waits for its
bucket no longer than a window, and a second less what the window is longer than
whole seconds; `StartsAssumption` of `SignIn`, that at the start nothing has been
generated and no two rows have one address (the column is UNIQUE);
`StartsAssumption` of `Hooks`, that the webhooks hook is registered once; and
`NamesAssumption`, that the names collections are given are not empty and do not
begin with an underscore, as `collection.rs` requires.

Five hypotheses are not about constants' ranges, and are written in the theorem:

* `OneRequest`: there is one request at a time.  Without it these properties are
  false, as the code locks nothing between a read and a write.
* `[]OnePerRecord`: no two requests work on the files of one record at a time; any
  number may work on different records.  `OneRequestIsEnough` shows that a
  single request satisfies it.
* `RefusersLead`: in a script file no callback of another event is registered before
  one that refuses.  The files of the run register for one event each and meet it;
  without it the engine calls the wrong callback (7 below).
* `NoFtsClash`: no collection has the name another's full-text table takes.  Without
  it the property is false (`fts_clash`, 1 below).  Names of indexes may clash as they
  like: the second index is silently not made, and nothing the theorems say depends on
  it.
* `NoEmailField`: no field is called `email`.  Nothing keeps a base collection from one
  (it is not among `RESERVED_NAMES`), and without the hypothesis `RowsSurvive` is
  false: an auth collection patched to a base collection with such a field loses the
  addresses, because `alter_user_table` (`schema_repo.rs:854`) copies the columns that
  both lists of *fields* have, and the old one has `email` from the system only.  TLC
  finds that in five states when a definition of the instance gets the field.

| theorem | states |
|---|---|
| **`LimitProofs`**, of `Otp` | |
| `CodesAreSingleUse`, `GuessesAreBounded` | `Spec => []OneTokenPerCode`, `Spec => []AttemptsBounded` |
| `LiveCodesAreKept` | `Spec => LiveCodeKept` |
| **`LimitProofs`**, of `RateLimit` | |
| `BudgetIsKept`, `RetryAfterWithinASecond` | `LimiterSpec => []WindowBudget`, `LimiterSpec => []RetryWithinASecond` |
| `WindowsKeepApart` | `LimiterSpec => WindowsApart` |
| **`RecordServiceProofs`** | |
| `ReferencesWereRecords` | `Spec => []EveryReferenceWasARecord` |
| `Refinement` | `Spec => RecordsStayDeleted`: `RecordService` implements `RecordLifecycle` under `live <- DOMAIN rows, gone <- ever \ DOMAIN rows` |
| `NothingDangles` | `OneRequest => (Spec => []NoDanglingReference)` |
| `CascadesFollowReferences` | `OneRequest => (Spec => []CascadesAlongReferences)` |
| `DeletesOnlyUnlink` | `OneRequest => (Spec => DeleteOnlyUnlinks)` |
| `BatchUsesService` | `BatchSpec => Spec`: all of the above holds under batches |
| `FailedCreatesLeaveNothing` | `OneRequest => (BatchSpec => []CreatesAreUndone)` |
| **`AccountsProofs`** | |
| `TokensDie` | `Spec => []TokensDieWithPassword` |
| `RevocationIsFinal` | `Spec => RevokedForGood` |
| `AddressRevokes` | `Spec => []NewAddressRevokesTokens` |
| **`RealtimeProofs`** | |
| `ChangesReachClients` | `Spec => []NoChangeMissed` |
| `EventsInOrder`, `OneLateEvent` | `Spec => []SentOnceInOrder`, `Spec => []AtMostOneLateEvent` |
| **`RecordFilesProofs`** | |
| `OldFilesGo` | `Spec => UpdateLeavesNoOldFile` |
| `NamesHaveFiles`, `PurgesAreComplete` | `Spec /\ []OnePerRecord => []NamedFilesAreStored`, and `=> []PurgedRecordsStayEmpty` |
| **`SignInProofs`** | |
| `ChallengesAnsweredOnce`, `PasskeysStay` | `Spec => []ChallengesOnce`, `Spec => []PasskeysKept` |
| `IdentityHasOneAccount`, `CodesSignInOnce` | `Spec => []OneAccountPerIdentity`, `Spec => []RecoveryCodesAreSpent` |
| **`HooksProofs`** | |
| `CallbacksAreCurrent`, `LogsAreTrue` | `Spec => []LoadedIsCurrent`, `Spec => []LogTellsTheTruth` |
| `RefusalsHold` | `RefusersLead => (Spec => []RefusalStops)` |
| **`CollectionsProofs`** | |
| `CatalogAlwaysMatches` | `NoFtsClash => (Spec => []TablesMatchCatalog)` |
| `RecordsSurvive` | `NoFtsClash /\ NoEmailField => (Spec => RowsSurvive)` |

Every module also proves its inductive invariant, and that its variables keep
their types as far as the properties need it. Why the properties are not inductive as they stand, and what is:

*OTP.* The token is issued two steps after the code was accepted, when the record may
have been cleaned away. `IInv` adds that a login waiting to issue is the only one for
its id, that the id's record is used or gone (`OnePending`), that this stays so once a
token is out (`TokenSpent`), and that an id not yet generated has no history
(`FreshIds`), so that a new record is never taken for an old one. The bound on guesses
needs that the counter of a record is the number of comparisons so far and below the
limit while the record is unused (`StoreCounts`, `UnusedHasTries`). That no live code
is cleaned away needs that the time a request holds has passed (`TimesPast`).

*Records, any number of requests.* That references are ids of records once there needs
to be known of what requests are *about* to write: `KnownWrites` says it of the row to
insert and the row to merge, less the ids still to be looked up, and of the rows read
by a SetNull. `NewIds` says that an id about to be inserted is new and nobody else's;
with `RowsWereBorn` it gives the refinement, whose only step that could break it,
`Update`, cannot create a row because it is an SQL UPDATE.

*Records, one request.* When a record is removed nothing may refer to it, but what
made sure of that happened fields, and levels of recursion, earlier. `AloneInv` says
of every frame of the stack that through the fields it has scanned nothing refers to
its record but the rows it still has in hand, which are those on its list and the one
the frame above deletes (`Cleared`); that what it read of the rows on its list is
still so, although frames above it have deleted and unlinked meanwhile
(`ListsAreTrue`); and that each frame's record refers to that of the frame below
(`Chained`). The frame that removes its record has scanned every field with an action;
a field it skipped would be a first one, so `NothingRefers` takes the least number. In
a diamond or a cycle a row on the list of a Cascade may be gone when its turn comes,
so `ListsAreTrue` speaks of the rows still there; one on the list of a SetNull cannot,
because a frame that waits for another is at a Cascade field (`Chained`).

*Batches.* `Since(b, doomed)` says what a batch of creates has done since it began:
the rows of then are as they were, the others are those it made and the one under
deletion, and only a later one refers to one it made. A create keeps it, as the new id
is in no row (`EveryReferenceWasARecord`) and the new row refers to rows there
(`AloneInv`); hence the last record made is referred to by nothing, and its delete
finds nothing to cascade to, to unlink or to refuse for (`Undoing`). Undone in the
order of creation (`LatestBug`) this fails.

*Accounts.* That an accepted token goes with the row's password speaks of rows and
tokens, but the next row is one that some request read long ago. `IInv` therefore
collects, per account, every pair of a key and its password in sight (`Secrets`): in
the row, in rows about to be written, in tokens out and under way. No key has two
passwords (`OnePasswordPerKey`) and none is above the counter (`KeysWereGenerated`). A
step only moves pairs, except `Read` of an update that generates a key, and that key
is new. For `RevokedForGood`, `Ahead` says of the row a request is about to write that
it has a newer key or the pair of the account's row, unless the account is marked, or
will be by this write, as overtaken. For `NewAddressRevokesTokens`, `AddressInv` says
of unmarked accounts that a row about to be written differs from the present one in
what the patch sets (`WritesAreCurrent`), that a client's edit of the address is
marked before it is written (`EditsAreMarked`), and that tokens of the present key
name the present address, except between the two updates of an e-mail change
(`TokensAgree`, `Pending`).

*Rate limiter.* The budget of a window follows from conservation: a bucket and the
history of its window add up to the budget (`Conserved`). The answer to a refused
request and the distance of two windows need dates: no request is older than `Skew`, a
window starts at most `Skew` before it is opened, and a forgotten bucket's window is
over (`StampsAreFresh`, `WindowsAreDated`).

*Realtime.* An event is on its way in three places: the log behind the receiver, the
stream that holds it, and what was written. `Served` says that each event owed is in
one of them or was reported as lagged; `Position` and `InOrder` order the three;
`Registered` says that a client is in the map from before its receiver exists, so that
nothing it could be owed passes by; `Ledger`, that a change is committed or announced,
once.

*Record files.* Of an update's old names each is still to be cleaned up, or was
written again, or is gone, or the storage refused (`CleanProgress`), whatever other
requests do, because names in rows were generated or written by a client (`RowsKnown`,
`NamesKnown`) and an upload never has one of them. For the two stores to agree,
`SerialInv` says of each request that what it may still name is stored or was made up
by a client (`PreparedIsStored`), what it will remove is not named
(`CleanedIsDropped`), and that it does not work on a purged record (`PurgeIsLast`).

*Sign-in.* A challenge is pending, or held by one call, or answered
(`ChallengesApart`), because taking it from the map is one step and answering a later
one. Of two accounts made for one identity the first must have left its address,
because the column is UNIQUE, and the sign-in that made the second had found no link.
So `AccountsHeld` says of every account that counts that it has the address of its
identity, or is linked to it while no sign-in that has found no link is under way
(`Searching`); a link cannot be replaced, only removed, and an update that gives back
an old address meets UNIQUE again. With that a sign-in that creates an account finds
none that counts (`OneHeld`), and `CallsHaveAddress` says under which address. A
recovery code is, for an account with no undone write, in the row, or with one login
that is about to answer, or used (`CodesOf`), and a login that takes one takes it from
the row it read (`Spending`); a setup that is still open has written no code anywhere
(`Unwritten`).

*Hooks.* Unless something changed since a reload began, the files it listed are the
files there are, it has met no broken one and holds exactly those it got to
(`EngineInv`); a change sets the flag that starts the next reload, whatever the reload
does. Of each delivery, `Sound` counts: arrivals do not exceed attempts, the log is
behind the attempt under way, a success ends it. `RequestsInv` says that a request
that has not yet come to the webhooks hook has started no delivery, which is why the
hook may be registered only once.

*Collections.* Every transaction is five or six operations on five maps, so there is a
lemma for each operation (`DropTableIs`, `RenameTableIs`, `CreateIndexesIs`, ...) that
says what it leaves of each map, and one for each transaction that chains them
(`CreatedKeeps`, `RebuiltIs`, `UpdatedKeeps`, `DeletedKeeps`, `InsertKeeps`).
`TablesMatchCatalog` is not inductive: after a rename the new name must be one whose
full-text table no other collection takes, so the names of the catalog must be names
clients may give (`Sound`), and so must those in the hands of handlers and imports
under way (`Legal`), which come from bodies laid over what was read at another time.
The table a rebuild makes begins with an underscore and so meets no name and no
full-text table (`TempIsOther`).  Nothing else of what a handler read is needed: a
transaction checks the rest itself, which is why stale reads lose updates but never
break the catalog.  For `RowsSurvive`, `RowsFit` says that a row has the columns of its
table, hence those of the catalog and the system's; the copy then loses a column only
when one table has it as a field and the other as the system's, which `OwnColumns`
excludes for every definition stored or about to be written.

Model-checked only:

* liveness (`BatchesEnd`, `StreamsCatchUp`, `DeliveriesEnd`, `EditsTakeEffect`), which the
  prover does not handle under fairness;
* what `access` checks: parsers, evaluation and expansion are recursive over data, and
  induction over data is out of the prover's reach, as is every RECURSIVE operator.

## What the code does not keep

A run shows the first:

1. **A collection called after another with `_fts` at the end loses its table**
   (`fts_clash`): `fts_table_exists` asks for a table of that name, not for a
   full-text table, and what it finds is dropped.

The others were met while modelling.  Each is in the model as the code has it, and
the property next to it says what remains true.

2. *A failed cascade leaves what it did*; `cascade_delete_failure_does_not_leave_partial_state`
   (`record_service.rs:3997`) holds because its Restrict field comes first.  *A
   diamond of references makes a cascade fail*, after part of it is done.
   (`DeleteOnlyUnlinks`, `NoDanglingReference`)
3. *An update writes the whole row*, not "only the updated fields": a profile
   update that overlaps a password reset brings back the old password together with
   the old tokenKey, and every token the reset had revoked.
   (`TokensDieWithPassword`; `RevokedForGood` excepts overtaken updates.)
4. *An e-mail change that fails between its two updates* leaves the new address
   with the old tokenKey.  (`NewAddressRevokesTokens` excepts it.)
5. *A row may name a file that never was in storage*: a body, JSON or multipart, can
   set a file field to any text (`field.rs:1311-1349`).  (`NamedFilesAreStored` excepts
   the names clients made up.)  *Files removed by a JSON update stay in storage*.
   (`UpdateLeavesNoOldFile` is about updates that upload.)
6. *A batch that fails is not rolled back entirely* (`batch.rs:240`): updates and
   deletes are only logged, and deleting a created record takes along what an
   update hung on it.  Batches consult no manage rule, broadcast nothing and handle
   no files.  (`CreatesAreUndone` is about batches of creates.)
7. *A callback is not found again when a script file registers for several events*:
   the engine numbers all registrations of a file, the script counts per event.
   Exceptions other than `httpError` are dropped; a reload that meets a bad file
   stops with the files before it.  (`RefusalStops` is checked with files of one
   event each, and proved where the callbacks that refuse come first.)
8. *An update of a deleted webhook answers OK*, a stale one enables a webhook that
   was disabled meanwhile.  Deliveries overtake one another.
9. *Recovery codes can be used again* when another write of the row overlaps.
   (`RecoveryCodesAreSpent` excepts such rows.)  A second setup confirmed overwrites
   the first; a wrong code uses up the setup.  Renewing a passkey's counter deletes
   and creates the credential and ignores errors: a failure loses it.
   (`PasskeysKept` excepts it.)  Deleted users leave their links and passkeys.
   *One identity may get two accounts*: the first is created and the statement that
   links it fails (`oauth2.rs:313`), or it is unlinked later; its address is changed,
   and the next sign-in finds neither link nor address and creates another.
   (`OneAccountPerIdentity` excepts such accounts, `parted`.)
10. *A text that reads like a JSON array or object comes back as one*, and the field
    refuses every later update (`Misread`; `RowsStayWritable` excepts it).  `created`
    can be set by a PATCH.  `!=` against null selects nothing in a filter and is
    accepted by a rule (`MeetsNull`; `FilterAgreesWithRule` excepts it).  `~` is LIKE
    with an operand that is not escaped (`filter.rs:753-770`, `808-814`): `%` and `_`
    are wildcards there and letters of the text in a rule, and SQLite takes capital and
    small letters for one in ASCII only where a rule lowercases all
    (`rule_engine.rs:374-378`) (`MeetsPattern` excepts both).  A literal of another type
    than the field is converted differently (`Apt` excepts it).  *The record that is
    broadcast and the one that is stored may get different verdicts from one view
    rule*: a boolean comes back as 0 or 1, so `public = "true"` and `public > false`
    change (`rule_engine.rs:328-335`), and so do conditions on scalars of json fields
    (`Steady`; `VerdictSurvivesStorage` excepts them).  The list
    rule is judged on an empty record, the create rule on the raw body.
11. *Collections*: a PATCH without `indexes`, and `add_index` always, fail ("invalid
    index", because system index columns are no fields); a PATCH writes back what it
    read earlier and may drop a column added meanwhile; updates of views always fail; a
    table used by a view, once deleted or rebuilt, breaks the view and every later
    rebuild; index names are shared by the whole database and `IF NOT EXISTS` skips a
    clash silently; rule columns are never written; an import is not atomic; an auth
    collection made a base collection with a field `email` loses the addresses.
    (`RecordsSurvive` excludes such fields.)
12. *Rate limiting* has fixed windows: two budgets may pass in the time of one.
    Retry-After is cut to whole seconds, so that a client that comes back just when it
    was told may be refused once more.  (`RetryWithinASecond` allows that second.)

With two requests a reference may dangle (the lookup of `create_record` races with
a delete), and a thumbnail or an upload that races with a delete leaves objects
behind.  Nothing in the code or its docs promises otherwise.

## Not modelled

* *Settings, superusers*: single-row reads and writes.  Two hazards are listed: two
  settings updates, each a read, a merge and a write of one row, may lose one of
  them; and a PATCH is validated by itself, not merged with what is stored, so CORS
  settings the next start cannot use may be reached in legal steps.
* *Export and unique checks*: reads only.
* *Backups, pool, migrations*: SQLite's own machinery and file I/O.
* *Request logs, health, OpenAPI, dashboard, server*: append-only writes, text,
  wiring.
* *Tokenizers, HTML sanitizing, TOTP, WebAuthn and OAuth2 cryptography, the
  JavaScript interpreter*: of these only the result matters to the models.

## Plan

1. A settings module: two updates, each read, merge and write of one row, and a
   restart that reads what they left.
2. Paging and sorting of lists, once a filter selects.
3. Proofs about two requests on one record's files, with the conditions under which
   they leave rows and storage in agreement.
