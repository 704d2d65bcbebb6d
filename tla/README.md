# TLA+ models of the SequoiaDB storage engine for MySQL (sequoiasql-mysql)

This directory holds TLA+ models of the session and connection layer of the
SequoiaDB storage engine (`src/src/sdbwrapper`, `src/src/handler`). It also
holds the TLC configurations that check them. `PROJECT.json` lists the
components, the runs, the mutants that show each property constrains the
code, the map from every definition to the source lines it models, the
findings and the hazards.

## 1. The system

The engine runs inside a MySQL server. Each MySQL session (a `THD`) gets a
`Thd_sdb` the first time it touches a SequoiaDB table. The `Thd_sdb` owns one
`Sdb_conn`, and the `Sdb_conn` owns one physical connection
(`sdbclient::sdb`) to the cluster's coordinators. One thread uses a session,
and calls within a session never overlap. Sessions share only the catalog of
the cluster (collection spaces and collections) and the process-wide
configuration (address list, encrypted password).

| Part | Source | State | Operations |
|---|---|---|---|
| Address parser | `ha_sdb_conf.cc` 260-340 | `addrs[]`, `conn_num` | `parse_conn_addrs`, `clear_conn_addrs`, sysvar check `sdb_conn_addr_validate` |
| Password cache | `ha_sdb_conf.cc` 64-95, 342-368 | `sdb_encoded_password` under `sdb_password_lock` | `sdb_password_update` (write lock), `sdb_encrypt_password`, `sdb_get_password` (read lock) |
| Session connection | `sdb_conn.cc`, `sdb_conn.h` | `m_connection` (valid or not), `m_is_authenticated`, `m_transaction_on`, `pushed_autocommit`, `last_tx_isolation` | `connect`, `retry`, `begin_transaction`, `commit_transaction`, `rollback_transaction`, `get_cl`, `create_cl`, `rename_cl`, `drop_cl`, `drop_cs`, `get_cl_statistics`, `snapshot`, `set_session_attr`, `interrupt_operation` |
| Collection handle | `sdb_cl.cc` | the collection reference, the cursor | `init`, `retry`, `query*`, `insert`, `bulk_insert`, `upsert`, `update`, `del`, `create_index` (2 forms), `drop_index`, `truncate`, auto-increment, `drop`, `get_count`, `get_detail`, ... |
| Index reconciler | `sdb_cl.cc` 303-354 | none (pure) | `is_old_version_index`, `cl_create_index2` |
| Statistics aggregator | `sdb_conn.cc` 447-546 | running totals | the cursor loop of `get_cl_statistics` |
| Per-session registry | `ha_sdb_thd.cc` | the `Thd_sdb` attached to the THD | `seize`, `release`, `recycle_conn`, `check_sdb_in_thd` |
| Version shims | `ha_sdb_sql.cc`, `ha_sdb_sql.h` | none | one-line adapters over server internals; the AES wrappers `sdb_aes_encrypt`/`sdb_aes_decrypt` are modelled in SdbConn |

How they interact:
- Before each statement, the MySQL layer (`ha_sdb.cc`, not among the sources)
  calls `check_sdb_in_thd`. That call attaches a `Thd_sdb` if the THD has
  none, and, when its caller passes `validate_conn`, calls `connect()` if
  the connection is not valid and authenticated. The callers are not in the
  sources, so `CheckStart` lets each call choose `validate_conn`
  (`Recycle`); `Seize` is the new `Thd_sdb` with `m_conn` in its initial
  state.
- The MySQL layer then calls `begin_transaction`, and `get_cl` for the
  table, and then runs the row operations on the `Sdb_cl`.
- A transaction ends with `commit_transaction` or `rollback_transaction`.
- Every call to the cluster goes through `Sdb_conn::retry` or
  `Sdb_cl::retry`. After a network error outside a transaction, these
  reconnect with `connect()` and call again, at most twice.
- `connect()` itself sets the session attributes through `retry()`, so
  `connect` and `retry` nest.
- `connect()` decrypts the password from the process-wide
  `sdb_encoded_password` under the read guard of `sdb_password_lock`.
  `SET GLOBAL sequoiadb_password`, in another THD, re-encrypts it under the
  write guard.

What is hard in this code, and what the models look for:
- A reconnect replaces the server session, and with it the server
  transaction and the session's isolation level. The client-side flags
  (`m_transaction_on`, `last_tx_isolation`) must follow the new session.
- Retrying a call after a network error is safe only when the call is
  idempotent and no transaction is open.
- `create_cl` creates a collection space and a collection in several round
  trips, races with other sessions doing the same, and compensates on error
  by dropping what it created.
- The address parser must be all-or-nothing. The statistics aggregator must
  rescale page counts across nodes with different page sizes.

## 2. Modules

| Module | Models | Checked by |
|---|---|---|
| `SdbConn` | one session: `check_sdb_in_thd`, `connect`, `Sdb_conn::retry`, `Sdb_cl::retry`, `begin/commit/rollback_transaction`, `get_cl`, the statement-level `Sdb_cl` calls (queries, row writes, the batch inserts, `next`), `snapshot`, `get_last_result_obj`, `interrupt_operation`, `Thd_sdb` seize and release, the server session the connection talks to, and the password cache with a concurrent `SET GLOBAL sequoiadb_password` | `MCSdbConn` |
| `SdbCatalog` | `create_cl` (own retry loop, races, compensation), `rename_cl`, `drop_cl`, `drop_cs` through `Sdb_conn::retry`, for concurrent sessions on one collection space | `MCSdbCatalog` |
| `SdbClLifecycle` | the lifecycle calls of `Sdb_cl` through `Sdb_cl::retry`: `create_index` (both forms, with `is_old_version_index`), `drop_index`, `drop`, `truncate`, `create_auto_increment`, `drop_auto_increment`, for concurrent sessions on one collection | `MCSdbClLifecycle` |
| `SdbStatistics` | `Sdb_conn::get_cl_statistics`: `get_cl`, `get_detail`, the cursor loop and the final division | `MCSdbStatistics` |
| `AddrParser` | `parse_conn_addrs` step by step, its constructor, `clear_conn_addrs`, and the sysvar check `sdb_conn_addr_validate` | `MCAddrParser` |
| `AddrParse` | the specification's parser: one atomic step, defined by a RECURSIVE reference split | instantiated by `AddrParser` (refinement) |

Each `MC*` module only gives model values and small sets to the constants.

### SdbConn

The session thread runs one call at a time, but the calls nest (connect →
retry → connect ...). The thread's control is therefore a stack of frames,
one per active C++ call:
- `proc` names the function and `pc` the point inside it.
- `retries` is the function's local `retry_times`.
- `inTx` records whether the call was issued inside a server transaction.

Each action executes one step of the top frame, and a step that talks to the
cluster is one round trip that may fail.
- **Connection state:** the `Sdb_conn` fields (`valid`, `authenticated`,
  `txOn`, `pushedAutocommit`, `lastIso`).
- **Server state:** the current server session (`srvIso`, `srvAttrs`,
  `srvTx`).
- **History variables**, for the properties only: the writes acknowledged in
  the current MySQL transaction, the commits that answered OK, and the
  isolation each server transaction began with.
- **Network faults** (`LoseSession`, `NetFault`) close the physical
  connection at any round trip or between calls, and drop the server session
  and its transaction. A transient fault (in every round trip, and in
  `BeginLoop`'s `transactionBegin`) returns a network error but keeps
  the socket.

Correspondence: every action is named after the function and the point in it
(`ConnectStart`, `ConnectAttrDone`, `RetryCall`, `RetryReconnected`,
`BeginStart`, `BeginIsoSet`, `BeginLoop`, `CommitStart`, `CommitReconn`,
`RollbackStart`, `RollbackReconn`, `GetClStart`, `GetClInitDone`,
`GetClReconn`, `CheckStart`, `CheckRecycled`, `SessionEnd`). `PROJECT.json`
maps each one to its lines.
- The MySQL layer that drives a session is not in the sources.
  `StartTxn` ... `AfterEnd` model it from the specification: each statement
  runs check → begin → get_cl → one `Sdb_cl` call, and a transaction ends
  with commit or rollback. An autocommit statement first
  sets `pushed_autocommit`. After a failed call the statement ends and the
  transaction goes on, as MySQL does after a statement error.
- The statement's `Sdb_cl` call is one of `StmtFrames`:
  - `query`, `query_one`, `query_and_remove`, a single-row `insert`,
    `upsert`, `update`, `del`, `get_count`, `get_indexes`,
    `set_attributes`, `attach`/`detach`/`split`: a frame of `Sdb_cl::retry`
    (`ClRetryCall`);
  - the insert of a vector of rows and `bulk_insert`: a frame that calls the
    driver directly (`BatchCall`), so a network error is returned without a
    reconnect.
  - After a query the statement may read its cursor: `ClNext` is one
    unretried round trip (`Sdb_cl::next`, where `SDB_DMS_EOC` becomes
    `HA_ERR_END_OF_FILE`).
  - `RoundTrip(retried)` is the one round trip all of these share. Its
    failure goes to `OnError` (the retry logic) or is returned.
- `SnapshotFrame`, `LastResultFrame` and `InterruptFrame` are
  `Sdb_conn::snapshot`, `get_last_result_obj` and `interrupt_operation`,
  each a frame of `Sdb_conn::retry` (`ConnRetryCall`). What
  `interruptOperation` stops on the server is not modelled.
- **A failed commit or rollback.** `CommitStart` and `RollbackStart` have a
  disjunct for a server error that is not a network error. The code has
  already cleared `m_transaction_on`; what the server does with the
  transaction is not in the sources (connect() turned its auto-rollback
  off), so `OnServerTxError` leaves it open or ends it. Commit returns the
  error; rollback ignores it and returns 0.
- **The password cache and the admin thread.** `PasswordUpdate` is
  `sdb_password_update` up to the allocation in `sdb_aes_encrypt`: it takes
  the write guard, and either leaves the buffer being rewritten (`TORN`,
  the guard held, `pwdWriting` = the new password) or, when `dst.alloc`
  fails, leaves it empty (`EMPTY`). In the second case the error is ignored
  and the guard is released. `PasswordEncrypted` completes the encryption
  and releases the guard.
  - `ConnectStart` reads the credential through `GetPassword`, which waits
    while the write guard is held. No property states that the reader never
    sees the half-written buffer: with the guard kept it holds by
    `GetPassword`'s guard alone. The password update still interleaves with
    every step of `connect()`, and the other `conn_safety` properties are
    checked across it.
  - `Authenticates` holds when the buffer decrypts (`DecryptOk`) to the
    password the cluster accepts. Otherwise `connect()` disconnects and
    returns an error (a decrypt error or `SDB_AUTH_AUTHORITY_FORBIDDEN`),
    which is not a network error, so `retry()` does not call again.
  - The encrypted bytes are abstracted to the password they encode.
    `sdb_password` is read only by the encryption, so it is kept only while
    the guard is held.
  - The initial credential is the one the cluster accepts. The plugin's
    start-up encryption is in `ha_sdb.cc`, which is not in the sources.
- `sdb_use_transaction` is a read-only system variable. `Init` chooses it
  and no step changes it, so one run covers both settings.
- SdbConn lets a re-run through `Sdb_cl::retry` after a reconnect work. The
  handle it re-runs on is stale (see SdbClLifecycle); that question is
  asked there, not here.

### SdbCatalog

State: the cluster's catalog (`csExists`, `cls`, the collections of the one
space) and per session a record of the call in progress: the operation, the
point in it (`pc`), the local `retry_times`, `new_cs`/`new_cl`, whether the
`cs` handle was set, and history flags for the properties (a server error
seen, a concurrent change seen, the catalog when the call began). `acked`
holds the collections whose `create_cl` answered OK.
- One action is one round trip plus the code that handles its reply:
  `CreateGetCs`, `CreateCs`, `CreateCl`, `CreateGetCl`, `CreateCs2` (the
  `CS_NOTEXIST` branch that creates the space and goes back to `retry:`),
  `Reconnect` (the error label), `DropClGetCs`, `DropClDrop`, `DropCs`,
  `RenameGetCs`, `RenameDo`.
- A round trip's outcome is `ok`, `net` (request lost), `lost` (applied, reply
  lost) or `err`; the last three are counted against `MaxFaults`.
- When `createCollectionSpace` answers `CS_EXIST`, the code leaves the `cs`
  handle unset and goes on to `createCollection`; the driver's answer on an
  unset handle is not in the sources, so the model lets it be a network or
  another error.
- Compensation (`Compensate`) is the error path's `drop_cs` or `drop_cl`,
  part of the action that hits the error.

### SdbClLifecycle

State:
- `coll`, the collection on the cluster: whether it exists, its indexes by
  name (key pattern, Unique, NotNull, or `NoIndex`), and whether its
  auto-increment field is defined;
- per session, the call in progress: the operation, `pc`, the local
  `retry_times`, whether `m_cl` is stale, and history flags for the
  properties (a server error seen, another session's change seen, a
  conflict or a dropped collection at the start).

Actions:
- `Call` starts one lifecycle call.
- `IdxCreate`, `IdxDrop`, `ClDrop`, `ClTruncate`, `AiCreate` and `AiDrop`
  are each one call of the `cl_*` function through `m_cl` (`Through`),
  together with that function's error mapping (`Then`):
  - `REDEF` → OK;
  - `IXM_NOTEXIST` → OK;
  - `DMS_NOTEXIST` → OK for `drop`;
  - `FIELD_CONFLICT` and `FIELD_NOT_EXIST` → OK;
  - `EXIST` → `is_old_version_index` for the options form.
- `IdxGetIndex` is the `getIndex` of `is_old_version_index`, whose failure
  means "not old".
- `ClReconnect` is the `connect()` of `Sdb_cl::retry`.
- Every call on a dropped collection gets `SDB_DMS_NOTEXIST`.

Modelling choices:
- `Sdb_cl::retry` re-runs the call on the same `m_cl` after `connect()`.
  The specification says reconnection invalidates that reference and the
  handle must be re-resolved. The driver is not in the sources, so a call
  through a stale handle may either work or fail with a network error before
  reaching the cluster (`Rejected`). A new call starts with a fresh handle,
  because the handler resolves the collection per statement.
- `Equivalent` is the specification's index equivalence (8.4), written
  independently of `IsOldVersionIndex`: identical, or for the options form
  the same key and uniqueness created before NotNull was recorded.
- Rows are not modelled, so `truncate` has no visible effect beyond its
  answer.

### SdbStatistics

State: the documents the detail cursor will return (`docs`, chosen in
`Init`), what `cursor.next` returns after them (`endRc`), the position, the
`Sdb_statistics` being filled and `rc`. Actions: `GetCl`, `GetDetail`,
`NextDoc` (one loop iteration: no Details → skip; malformed → `SDB_SYS`;
otherwise fix a zero page size and accumulate in 4 KB units), `CursorEnd`
(`EOC` → divide down to the smallest page size; other → error). `RefStats`
is the specification's aggregate (rescale every node to the smallest page
size, then sum), with RECURSIVE `SumOf` and `MinPs`.

### AddrParser and AddrParse

`AddrParser` steps through `parse_conn_addrs` one token per action
(`ParseStart`, `ParseToken`, `ParseEnd`), then `Validate` stores the value
as MySQL does when the check function returns 0. A string is a sequence
over the alphabet {host character, ':', ','}; `FindFrom` is `strchr`.
`AddrParse` is the specification's parse as one step, defined by the
RECURSIVE `SplitAtComma` and the reference `RefAccepted`/`RefValid`. The
refinement mapping shows `addrs` only after a successful parse (both callers
discard the handle on error) and collapses the loop's internal steps.

## 3. Runs

| Run | Cfg | Expect | Shows |
|---|---|---|---|
| `conn_safety` | `MCSdbConn.cfg` | pass | `TxFlagMatchesServer`: while connected, `m_transaction_on` outside pushed autocommit implies an open server transaction. `TxWritesStayInTx`: a write issued inside a server transaction is never re-run outside one. `SessionAttrsApplied`: an open connection always has connect()'s session attributes. `NestingBounded`: the connect → retry → connect stack is at most four frames deep (a call through `retry()` on a connection never opened, then connect and its retry) plus two per network fault, so the nesting grows only through faults (a `retry()` that reconnected on any error would nest without one). |
| `conn_isolation` | `MCSdbConn_IsolationHonoured.cfg` | violation | after a reconnect, `last_tx_isolation` still claims the requested level was pushed, and the transaction runs at the server default |
| `conn_lost_tx` | `MCSdbConn_CommittedTxAtomic.cfg` | violation | a reconnect in the middle of a transaction clears `m_transaction_on`; COMMIT then answers OK for writes the server rolled back |
| `conn_orphan_tx` | `MCSdbConn_NoOrphanServerTx.cfg` | violation | `NoOrphanServerTx`: by design (specification invariant 7) a COMMIT or ROLLBACK that the server rejects with an error other than a network error has already cleared `m_transaction_on`; the server transaction may stay open (auto-rollback is off), and the session leaves the MySQL transaction with it |
| `catalog_safety` | `MCSdbCatalog.cfg` | pass | `CreateDropIdempotent`: `create_cl`, `drop_cl` and `drop_cs` fail only when a fault or another session's change reached them; a re-run after a lost reply never becomes an error |
| `catalog_rename_retry` | `MCSdbCatalog_RenameIdempotent.cfg` | violation | a lost reply to `renameCollection` makes the re-run fail with `SDB_DMS_NOTEXIST` for a rename the cluster did |
| `catalog_compensation` | `MCSdbCatalog_CompensationSparesOthers.cfg` | violation | `create_cl`'s compensation drops the space it created, with a collection another session created there and was told succeeded |
| `cl_lifecycle` | `MCSdbClLifecycle.cfg` | pass | Through lost requests and replies and a legacy index, and unless a server error or another session's change reached the call:<br>`ClCallsAnswerSpec`: `create_index` succeeds exactly when no genuinely conflicting index exists, and otherwise reports `SDB_IXM_EXIST`. The other calls succeed, and on a dropped collection only `drop` succeeds.<br>`ClCallsTakeEffect` (action property): a call that answers OK leaves its effect on the cluster.<br>`ClCallsReturn` (liveness): every call returns. |
| `cl_stale_handle` | `MCSdbClLifecycle_ClRetryRecovers.cfg` | violation | if the driver rejects the stale `m_cl`, one lost round trip makes a lifecycle call return a network error although the reconnect succeeded |
| `stats_aggregate` | `MCSdbStatistics.cfg` | pass | `StatsMatchSpec`: OK only after the whole cursor, and then the totals equal the specification's aggregate |
| `parser_spec` | `MCAddrParser.cfg` | pass | `ParseRefinesSpec`: the loop implements the specification's atomic parse |
| `parser_empty_list` | `MCAddrParser_NonEmpty.cfg` | violation | `SET GLOBAL sequoiadb_conn_addr=','` is accepted and yields no coordinator |

Every passing run also checks the module's `TypeOK`, which carries the
bounds a wrong retry budget or a wrong cap would break (each has a mutant
in `PROJECT.json`). The findings behind the violation runs are in
`PROJECT.json` with the lines they come from.

Bounds, and why they are enough:
- SdbConn: two MySQL transactions of up to two statements, isolations RC, RR
  and SERIALIZABLE, up to three network faults, and one password update at
  any point. Three faults are the least that exhaust a retry budget (two
  reconnects that succeed, then a third error). Two transactions are the
  least that carry state from one into the next.
  - The admin re-sets the password the cluster accepts. A wrong password
    would give `connect()` the same error path as the empty buffer left by a
    failed allocation, which is modelled.
  - One update already puts a `connect()` before, during and after the
    write guard.
  - About 2.8 million states, under 2 minutes.
- SdbCatalog: two sessions, two collection names, one call each, any
  initial catalog, three faults (a lost reply, then a reconnect budget to
  spend). Two names make rename and a foreign collection possible. About
  156 000 states, 6 s.
- SdbClLifecycle: two sessions with one call each, one index name and one
  key pattern, any initial index (legacy ones included), either
  auto-increment state, and one fault. Unique and NotNull still vary, so
  identical, conflicting and legacy indexes all occur. Two sessions give a
  call racing another session's drop, and a call on a collection the other
  session already dropped. One fault already gives a lost reply followed by
  a re-run. The stale-handle rejection is not counted as a fault, so the
  retry budget can still be spent. About 64 000 states, 11 s (two calls
  per session pass too, in about 6 minutes).
- SdbStatistics: up to three documents with page sizes 4 KB, 8 KB, 64 KB or
  missing, so rescaling by 1, 2 and 16 and the missing-size fix all happen.
  About 94 000 states, 3 s.
- AddrParser: NULL and every string of up to five characters, cap of two
  coordinators: five characters reach three tokens, so the cap cuts one off.
  About 2 600 states.

Fairness:
- `cl_lifecycle` checks `FairSpec`, which adds weak fairness on `Busy(s)`,
  the steps of a call in progress. The specification (5) says every call
  blocks the session's thread until the cluster answers or the retry budget
  is spent, so those steps do run.
- Starting a call (`Call`) is not fair: whether a session makes another
  call is up to MySQL.
- The network may reject calls through the stale handle for ever
  (`Rejected` is not bounded by `MaxFaults`). `ClCallsReturn` therefore
  shows that `Sdb_cl::retry`'s budget alone ends the reconnect loop. The
  mutant that never spends the budget violates it.
- The other runs check safety only. In SdbConn every failure costs a fault
  from a finite budget, so termination there would hold by the bound and
  not by the code.

## 4. Not modelled

- `ha_sdb_sql.cc`/`.h`: adapters over server internals, with no state,
  except the AES wrappers, which SdbConn models.
- The MySQL handler (`ha_sdb.cc`) is not in the sources. Only its calling
  pattern is modelled, from the specification.
- Error codes are abstracted to the few each operation tells apart
  (`convert_sdb_code` is not in the sources).
- Integer widths in `get_cl_statistics`: its products and sums are `int` and
  can overflow for very large collections; the model uses unbounded
  integers on small counts (a hazard in `PROJECT.json`).
- `parse_conn_addrs` leaves the accepted tokens in `addrs[]` when a later
  token fails; both callers discard the handle, so this is latent. The
  specification asks for both "all-or-nothing" and a cap of 128 that
  ignores later tokens; the code validates nothing past the cap, and the
  model follows the code.
- Row data and cursor contents are not modelled. The statement-level
  `Sdb_cl` calls are modelled by their control (retried, direct or
  unretried), not by the rows they return. A lost reply to a single-row
  insert, which the retry re-runs, is therefore a hazard without a
  property. The specification says batch inserts go through retry, and the
  code calls the driver directly; `BatchCall` follows the code.
- `Sdb_obj_cache` (`ha_sdb_util.h`) is a buffer cache of the handler, which
  is not among the sources.
- A lost reply to COMMIT (the cluster committed, the client sees a network
  error) reaches the same model state as a lost request: the session is
  dropped and no durable outcome per server transaction is recorded.
- `begin_transaction` tests `--retry_times > 0` with `retry_times = 2`, so it
  reconnects once where `retry()` reconnects twice and the specification
  says "up to 2 times". `BeginLoop` follows the code; the divergence has no
  run of its own (the run budget went to `conn_orphan_tx`).
- `Sdb_encryption`'s key and the `my_aes_*` library are outside the
  sources. The model keeps only the outcome of a decrypt: a whole encoding
  gives its password, and an empty or half-written buffer gives none.
- `sdb_password_update` ignores the return code of `sdb_encrypt_password`.
  After a failed allocation, `SET GLOBAL` succeeds but leaves
  `sdb_encoded_password` empty, and every later `connect()` fails until the
  password is set again. SdbConn contains this path, and `conn_safety`
  shows the session's properties survive it. No run states the
  specification's "publishes the new encoded credential", which this path
  breaks; it is listed as a hazard.
- `connect()` reads `sdb_conn_str`, `sdb_user` and the token variables
  without a lock, while `SET GLOBAL` may replace them. This race lies in
  the server's system-variable machinery; it is listed as a hazard.
