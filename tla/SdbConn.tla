------------------------------ MODULE SdbConn ------------------------------
(***************************************************************************)
(* One MySQL session (THD) of the SequoiaDB storage engine and its         *)
(* Sdb_conn (src/sdbwrapper/sdb_conn.cc, src/sdbwrapper/sdb_cl.cc,         *)
(* src/handler/ha_sdb_thd.cc).                                             *)
(*                                                                         *)
(* The session thread runs one call at a time, but the calls nest:         *)
(* connect() sets session attributes through retry(), and retry() calls    *)
(* connect() again after a network error.  The thread's control is        *)
(* therefore a stack of frames, one per active C++ call; every action     *)
(* below executes one step of the frame on top of the stack, and every     *)
(* step that talks to the cluster is one round trip that may fail.         *)
(*                                                                         *)
(* The server side keeps, for the current physical connection, the        *)
(* session's isolation level, whether the session attributes of           *)
(* connect() were applied, and the open server transaction.  A network    *)
(* fault closes the physical connection: the server session and its       *)
(* transaction are gone.                                                   *)
(*                                                                         *)
(* The MySQL layer that drives the engine (ha_sdb.cc: external_lock,       *)
(* start_statement, commit, rollback) is not part of the sources; its      *)
(* calling pattern is taken from the specification: each statement first  *)
(* validates the connection with check_sdb_in_thd and then calls           *)
(* begin_transaction, and a transaction ends with commit or rollback.      *)
(***************************************************************************)
EXTENDS Integers, Sequences, SequencesExt, FiniteSets

CONSTANTS
  ReqIsos,         \* isolation levels (MySQL enum values) sessions request
  SdbDefaultIso,   \* TransIsolation of a fresh server session (SDB code)
  MaxNetFaults,    \* bound: network faults injected in one behaviour
  MaxTxns,         \* bound: MySQL transactions run by the session
  MaxStmts,        \* bound: statements per MySQL transaction
  Passwords,       \* values SET GLOBAL sequoiadb_password may assign
  ClusterPassword, \* the password the cluster accepts for sdb_user
  MaxPwdUpdates    \* bound: password updates by the admin thread

\* MySQL's enum_tx_isolation.
ISO_READ_UNCOMMITTED == 0
ISO_READ_COMMITTED == 1
ISO_REPEATABLE_READ == 2
ISO_SERIALIZABLE == 3

\* SequoiaDB TransIsolation codes (ha_sdb_def.h).
SDB_TRANS_ISO_RU == 0
SDB_TRANS_ISO_RC == 1
SDB_TRANS_ISO_RS == 2
SDB_TRANS_ISO_RR == 3

\* retry_times in Sdb_conn::retry, Sdb_cl::retry and begin_transaction.
RetryTimes == 2

ASSUME ReqIsos \subseteq {ISO_READ_UNCOMMITTED, ISO_READ_COMMITTED,
                          ISO_REPEATABLE_READ, ISO_SERIALIZABLE}
ASSUME SdbDefaultIso \in {SDB_TRANS_ISO_RU, SDB_TRANS_ISO_RC,
                          SDB_TRANS_ISO_RS, SDB_TRANS_ISO_RR}
ASSUME {MaxNetFaults, MaxTxns, MaxStmts, MaxPwdUpdates} \subseteq Nat
ASSUME ClusterPassword \in Passwords

(* The content of sdb_encoded_password: the password it encrypts, TORN   *)
(* while my_aes_encrypt rewrites the buffer, or EMPTY after dst.alloc    *)
(* failed (String::real_alloc sets the length to 0 before allocating).   *)
TORN == "TORN"
EMPTY == "EMPTY"
NOWRITER == "NOWRITER"
ASSUME {TORN, EMPTY, NOWRITER} \cap Passwords = {}

(* Result codes, abstracted to what the callers tell apart:              *)
(* OK, a network error (IS_SDB_NET_ERR), any other server error, and      *)
(* HA_ERR_NOT_ALLOWED_COMMAND.  convert_sdb_code keeps the kind.          *)
RCs == {"OK", "NET", "ERR", "NOTALLOWED"}

VARIABLES
  useTransaction,    \* sdb_use_transaction (read-only: fixed per process)
  thdSdb,            \* a Thd_sdb is attached to the THD
  valid,             \* m_connection.isValid()
  authenticated,     \* Sdb_conn::m_is_authenticated
  txOn,              \* Sdb_conn::m_transaction_on
  pushedAutocommit,  \* Sdb_conn::pushed_autocommit
  lastIso,           \* Sdb_conn::last_tx_isolation
  srvIso,            \* server: TransIsolation of the current session
  srvAttrs,          \* server: connect()'s session attributes applied
  srvTx,             \* server: open transaction id, 0 = none
  txCount,           \* server: transactions begun so far (id source)
  faults,            \* network faults injected so far
  stack,             \* the session thread's call frames
  ret,               \* the value returned by the last finished frame
  cpc,               \* MySQL layer: the call it is waiting for
  mysqlTx,           \* MySQL layer: a transaction is open
  reqIso,            \* MySQL layer: thd->tx_isolation of the transaction
  autoTx,            \* MySQL layer: the transaction is one autocommit stmt
  txns, stmts,       \* MySQL layer: transactions / statements so far
  writes,            \* history: writes acknowledged in the MySQL txn
  committed,         \* history: MySQL transactions whose commit said OK
  begun,             \* history: <<requested, server>> isolation per begin
  encoded,           \* sdb_encoded_password (process-wide)
  pwdWriting,        \* the sdb_password being encrypted under the write
                     \* guard of sdb_password_lock, NOWRITER when free
  pwdUpdates         \* admin thread: password updates so far

connVars == <<valid, authenticated, txOn, pushedAutocommit, lastIso>>
srvVars == <<srvIso, srvAttrs, srvTx, txCount, faults>>
callerVars ==
  <<useTransaction, thdSdb, cpc, mysqlTx, reqIso, autoTx, txns, stmts>>
histVars == <<writes, committed, begun>>
pwdVars == <<encoded, pwdWriting, pwdUpdates>>
vars == <<connVars, srvVars, stack, ret, callerVars, histVars, pwdVars>>

-----------------------------------------------------------------------------
(* Frames.  proc names the C++ function, pc the point inside it, op the   *)
(* cluster call a retry frame wraps, iso an isolation argument, retries   *)
(* the local retry_times, inTx whether the call was issued inside a       *)
(* server transaction.                                                    *)
Procs == {"check", "connect", "retry", "clretry", "getcl", "begin",
          "commit", "rollback", "batch", "next"}
Ops == {"none", "attr_conn", "attr_iso", "cl_init", "write", "query"}

Frame(p, pc0, o, i) ==
  [proc |-> p, pc |-> pc0, op |-> o, iso |-> i, retries |-> RetryTimes,
   inTx |-> txOn /\ ~pushedAutocommit]

ConnectFrame == Frame("connect", "start", "none", 0)

Top == Last(stack)

\* The top frame returns r to its caller.
Return(r) == stack' = Front(stack) /\ ret' = r

\* The top frame moves to pc and calls the function of frame g.
CallFrom(pc, g) ==
  /\ stack' = Append([stack EXCEPT ![Len(stack)].pc = pc], g)
  /\ UNCHANGED ret

SetPc(pc) == stack' = [stack EXCEPT ![Len(stack)].pc = pc] /\ UNCHANGED ret

\* convert_to_sdb_isolation (sdb_conn.h).
ToSdbIso(i) ==
  CASE i = ISO_READ_UNCOMMITTED -> SDB_TRANS_ISO_RU
    [] i = ISO_READ_COMMITTED   -> SDB_TRANS_ISO_RC
    [] i = ISO_REPEATABLE_READ  -> SDB_TRANS_ISO_RR

\* A network fault closes the physical connection; the server drops the
\* session, its attributes and its transaction.
LoseSession ==
  /\ faults < MaxNetFaults
  /\ faults' = faults + 1
  /\ valid' = FALSE
  /\ srvAttrs' = FALSE
  /\ srvTx' = 0
  /\ UNCHANGED <<srvIso, txCount>>

-----------------------------------------------------------------------------
(* sdb_aes_decrypt: my_aes_decrypt succeeds on a whole encoding; the     *)
(* empty buffer does not decrypt, and a half-written one decrypts to no  *)
(* password the cluster accepts.                                          *)
DecryptOk(e) == e \in Passwords

\* connect() decrypts the password and the cluster accepts it for sdb_user.
Authenticates == DecryptOk(encoded) /\ encoded = ClusterPassword

(* sdb_get_password: take the read guard of sdb_password_lock (blocked  *)
(* while the admin thread holds the write guard) and decrypt              *)
(* sdb_encoded_password.                                                   *)
GetPassword == pwdWriting = NOWRITER

(* Mutation: connect() that keeps m_transaction_on from the lost session. *)
ConnectStartKeepTx ==
  /\ stack # <<>> /\ Top.proc = "connect" /\ Top.pc = "start"
  /\ \/ /\ valid /\ authenticated
        /\ Return("OK")
        /\ UNCHANGED <<connVars, srvVars>>
     \/ /\ ~(valid /\ authenticated)
        /\ GetPassword
        /\ \/ /\ Authenticates
              /\ valid' = TRUE
              /\ srvIso' = SdbDefaultIso
              /\ srvAttrs' = FALSE
              /\ srvTx' = 0
              /\ CallFrom("attr", Frame("retry", "call", "attr_conn", 0))
              /\ UNCHANGED <<txCount, faults>>
           \/ /\ Authenticates
              /\ LoseSession
              /\ Return("NET")
           \/ /\ ~Authenticates
              /\ valid' = FALSE
              /\ srvAttrs' = FALSE
              /\ srvTx' = 0
              /\ Return("ERR")
              /\ UNCHANGED <<srvIso, txCount, faults>>
        /\ UNCHANGED <<authenticated, txOn, pushedAutocommit, lastIso>>
  /\ UNCHANGED <<callerVars, histVars, encoded, pwdWriting, pwdUpdates>>

(* Sdb_conn::connect.  If the connection is not both valid and            *)
(* authenticated: clear m_transaction_on, parse the addresses, decrypt    *)
(* the password, connect (a new server session with default isolation),  *)
(* then set the session attributes through retry().  A failed decrypt    *)
(* and a password the cluster rejects (SDB_AUTH_AUTHORITY_FORBIDDEN) are  *)
(* errors; a network failure stays SDB_NET_CANNOT_CONNECT.  Every failure *)
(* disconnects.  Parsing the configured address string succeeds (it      *)
(* passed sdb_conn_addr_validate); AddrParser models the parser.          *)
ConnectStart ==
  /\ stack # <<>> /\ Top.proc = "connect" /\ Top.pc = "start"
  /\ \/ /\ valid /\ authenticated
        /\ Return("OK")
        /\ UNCHANGED <<connVars, srvVars>>
     \/ /\ ~(valid /\ authenticated)
        /\ GetPassword
        /\ txOn' = FALSE
        /\ \/ /\ Authenticates
              /\ valid' = TRUE
              /\ srvIso' = SdbDefaultIso
              /\ srvAttrs' = FALSE
              /\ srvTx' = 0
              /\ CallFrom("attr", Frame("retry", "call", "attr_conn", 0))
              /\ UNCHANGED <<txCount, faults>>
           \/ /\ Authenticates
              /\ LoseSession           \* SDB_NET_CANNOT_CONNECT
              /\ Return("NET")
           \/ /\ ~Authenticates
              /\ valid' = FALSE         \* m_connection.disconnect()
              /\ srvAttrs' = FALSE
              /\ srvTx' = 0
              /\ Return("ERR")
              /\ UNCHANGED <<srvIso, txCount, faults>>
        /\ UNCHANGED <<authenticated, pushedAutocommit, lastIso>>
  /\ UNCHANGED <<callerVars, histVars, encoded, pwdWriting, pwdUpdates>>

(* Mutation: a failed set_session_attr that keeps the connection open. *)
ConnectAttrDoneNoDisconnect ==
  /\ stack # <<>> /\ Top.proc = "connect" /\ Top.pc = "attr"
  /\ authenticated' = (authenticated \/ ret = "OK")
  /\ Return(ret)
  /\ UNCHANGED <<valid, srvAttrs, srvTx, txOn, pushedAutocommit, lastIso,
                 srvIso, txCount, faults, callerVars, histVars>>

ConnectAttrDone ==
  /\ stack # <<>> /\ Top.proc = "connect" /\ Top.pc = "attr"
  /\ \/ /\ ret = "OK"
        /\ authenticated' = TRUE
        /\ UNCHANGED <<valid, srvAttrs, srvTx>>
     \/ /\ ret # "OK"
        /\ valid' = FALSE                \* m_connection.disconnect()
        /\ srvAttrs' = FALSE
        /\ srvTx' = 0
        /\ UNCHANGED authenticated
  /\ Return(ret)
  /\ UNCHANGED <<txOn, pushedAutocommit, lastIso, srvIso, txCount, faults,
                 callerVars, histVars>>

-----------------------------------------------------------------------------
(* Mutation: retry() without the retry_times budget check. *)
OnErrorNoBudget(rc) ==
  IF rc = "NET" /\ ~txOn
  THEN /\ stack' = Append([stack EXCEPT ![Len(stack)].pc = "reconnect",
                                        ![Len(stack)].retries = @ - 1],
                          ConnectFrame)
       /\ UNCHANGED ret
  ELSE Return(rc)

(* Mutation: retry() that also reconnects inside a transaction. *)
OnErrorInTx(rc) ==
  IF rc = "NET" /\ Top.retries > 0
  THEN /\ stack' = Append([stack EXCEPT ![Len(stack)].pc = "reconnect",
                                        ![Len(stack)].retries = @ - 1],
                          ConnectFrame)
       /\ UNCHANGED ret
  ELSE Return(rc)

(* Mutation: retry() that reconnects on any error, not only a network   *)
(* error (IS_SDB_NET_ERR dropped).                                        *)
OnErrorAnyError(rc) ==
  IF rc # "OK" /\ ~txOn /\ Top.retries > 0
  THEN /\ stack' = Append([stack EXCEPT ![Len(stack)].pc = "reconnect",
                                        ![Len(stack)].retries = @ - 1],
                          ConnectFrame)
       /\ UNCHANGED ret
  ELSE Return(rc)

(* Sdb_conn::retry and Sdb_cl::retry: call func; on a network error,       *)
(* outside a transaction and with retries left, reconnect and call again;  *)
(* otherwise return the (converted) error.  The value connect() returned  *)
(* only decides whether to call again: a failed reconnect returns the     *)
(* operation's own network error.                                          *)
OnError(rc) ==
  IF rc = "NET" /\ ~txOn /\ Top.retries > 0
  THEN /\ stack' = Append([stack EXCEPT ![Len(stack)].pc = "reconnect",
                                        ![Len(stack)].retries = @ - 1],
                          ConnectFrame)
       /\ UNCHANGED ret
  ELSE Return(rc)

\* The effect of a successful cluster call of frame f.
Apply(f) ==
  /\ srvIso' = IF f.op = "attr_iso" THEN ToSdbIso(f.iso) ELSE srvIso
  /\ srvAttrs' = (srvAttrs \/ f.op = "attr_conn")
  /\ writes' = IF f.op = "write"
               THEN writes \cup {[tx |-> srvTx, inTx |-> f.inTx]}
               ELSE writes

(* One round trip of the top frame's cluster call; a failure goes to the *)
(* retry logic when the call is made through retry(), and is returned     *)
(* otherwise.                                                               *)
RoundTrip(retried) ==
  LET OnFail(rc) == IF retried THEN OnError(rc) ELSE Return(rc) IN
  /\ \/ /\ valid
        /\ Apply(Top)
        /\ Return("OK")
        /\ UNCHANGED <<valid, srvTx, txCount, faults>>
     \/ /\ valid                        \* request or reply lost
        /\ LoseSession
        /\ OnFail("NET")
        /\ UNCHANGED writes
     \/ /\ ~valid
        /\ OnFail("NET")
        /\ UNCHANGED <<srvVars, valid, writes>>
     \/ /\ valid /\ faults < MaxNetFaults   \* transient: the socket survives
        /\ faults' = faults + 1
        /\ OnFail("NET")
        /\ UNCHANGED <<valid, srvIso, srvAttrs, srvTx, txCount, writes>>
     \/ /\ valid       \* a server error: duplicate key, rejected attribute
        /\ OnFail("ERR")
        /\ UNCHANGED <<srvVars, valid, writes>>
  /\ UNCHANGED <<authenticated, txOn, pushedAutocommit, lastIso,
                 callerVars, committed, begun>>

RetryCall(p) ==
  /\ stack # <<>> /\ Top.proc = p /\ Top.pc = "call"
  /\ RoundTrip(TRUE)

\* Sdb_conn::retry wraps set_session_attr, snapshot, drop_cl, ... .
ConnRetryCall == RetryCall("retry")

\* Sdb_cl::retry wraps the collection operations (insert, update, ...).
ClRetryCall == RetryCall("clretry")

(* The insert of a vector of rows and bulk_insert call m_cl directly, not *)
(* through Sdb_cl::retry: a network error is converted and returned, and  *)
(* nothing reconnects.                                                      *)
BatchCall ==
  /\ stack # <<>> /\ Top.proc = "batch" /\ Top.pc = "call"
  /\ RoundTrip(FALSE)

(* Sdb_cl::next (and current) reads the cursor without Sdb_cl::retry:     *)
(* SDB_DMS_EOC becomes HA_ERR_END_OF_FILE, which the caller takes as the  *)
(* end of the rows; any other error is converted and returned.            *)
ClNext ==
  /\ stack # <<>> /\ Top.proc = "next" /\ Top.pc = "call"
  /\ RoundTrip(FALSE)

\* The frames of the statement-level Sdb_cl calls.  Sdb_cl::query and
\* Sdb_cl::query_one run cl_query / cl_query_one through Sdb_cl::retry.
QueryFrame == Frame("clretry", "call", "query", 0)

\* Sdb_cl::query_and_remove: a query that deletes what it returns.
QueryAndRemoveFrame == Frame("clretry", "call", "write", 0)

\* Sdb_cl::insert of one row: cl_insert through Sdb_cl::retry.
InsertFrame == Frame("clretry", "call", "write", 0)

\* Sdb_cl::upsert, update and del: cl_upsert / cl_update / cl_del through
\* Sdb_cl::retry.
UpdateFrame == Frame("clretry", "call", "write", 0)

\* Sdb_cl::insert of a vector of rows and Sdb_cl::bulk_insert.
BatchFrame == Frame("batch", "call", "write", 0)

\* Sdb_cl::get_count and get_indexes: reads through Sdb_cl::retry that
\* open no cursor.
InfoFrame == Frame("clretry", "call", "none", 0)

\* Sdb_cl::set_attributes: cl_set_attributes through Sdb_cl::retry.
SetAttrFrame == Frame("clretry", "call", "none", 0)

\* Sdb_cl::attach_collection, detach_collection and split through
\* Sdb_cl::retry; their effect on the catalog is not part of this model.
AlterFrame == Frame("clretry", "call", "none", 0)

\* Sdb_cl::next on the cursor of the last query.
NextFrame == Frame("next", "call", "none", 0)

\* Sdb_conn::snapshot: conn_snapshot (getSnapshot and the first record of
\* its cursor) through Sdb_conn::retry.
SnapshotFrame == Frame("retry", "call", "none", 0)

\* Sdb_conn::get_last_result_obj: getLastResultObj through Sdb_conn::retry.
LastResultFrame == Frame("retry", "call", "none", 0)

\* Sdb_conn::interrupt_operation: interruptOperation through
\* Sdb_conn::retry; what the server interrupts is not part of this model.
InterruptFrame == Frame("retry", "call", "none", 0)

StmtFrames ==
  {QueryFrame, QueryAndRemoveFrame, InsertFrame, UpdateFrame, BatchFrame,
   InfoFrame, SetAttrFrame, AlterFrame, SnapshotFrame, LastResultFrame,
   InterruptFrame}

RetryReconnected ==
  /\ stack # <<>> /\ Top.proc \in {"retry", "clretry"}
  /\ Top.pc = "reconnect"
  /\ IF ret = "OK" THEN SetPc("call") ELSE Return("NET")
  /\ UNCHANGED <<connVars, srvVars, callerVars, histVars>>

-----------------------------------------------------------------------------
(* Sdb_conn::begin_transaction.  Refuse SERIALIZABLE; when the requested  *)
(* isolation differs from last_tx_isolation, set it on the server session *)
(* through retry() and remember it; then, while no transaction is on,     *)
(* either just mark it on (pushed autocommit) or begin a server           *)
(* transaction, reconnecting after a network error while --retry_times    *)
(* stays positive.                                                          *)
BeginStart ==
  /\ stack # <<>> /\ Top.proc = "begin" /\ Top.pc = "start"
  /\ \/ /\ ~useTransaction
        /\ Return("OK")
     \/ /\ useTransaction /\ Top.iso = ISO_SERIALIZABLE
        /\ Return("NOTALLOWED")
     \/ /\ useTransaction /\ Top.iso # ISO_SERIALIZABLE
        /\ Top.iso # lastIso
        /\ CallFrom("iso", Frame("retry", "call", "attr_iso", Top.iso))
     \/ /\ useTransaction /\ Top.iso # ISO_SERIALIZABLE
        /\ Top.iso = lastIso
        /\ SetPc("loop")
  /\ UNCHANGED <<connVars, srvVars, callerVars, histVars>>

BeginIsoSet ==
  /\ stack # <<>> /\ Top.proc = "begin" /\ Top.pc = "iso"
  /\ \/ /\ ret = "OK"
        /\ lastIso' = Top.iso
        /\ SetPc("loop")
     \/ /\ ret # "OK"
        /\ Return(ret)
        /\ UNCHANGED lastIso
  /\ UNCHANGED <<valid, authenticated, txOn, pushedAutocommit, srvVars,
                 callerVars, histVars>>

BeginLoop ==
  /\ stack # <<>> /\ Top.proc = "begin" /\ Top.pc = "loop"
  /\ \/ /\ txOn
        /\ Return("OK")
        /\ UNCHANGED <<valid, txOn, srvVars, begun>>
     \/ /\ ~txOn /\ pushedAutocommit
        /\ txOn' = TRUE
        /\ Return("OK")
        /\ UNCHANGED <<valid, srvVars, begun>>
     \/ /\ ~txOn /\ ~pushedAutocommit /\ valid     \* transactionBegin
        /\ txCount' = txCount + 1
        /\ srvTx' = txCount + 1
        /\ txOn' = TRUE
        /\ begun' = begun \cup {<<Top.iso, srvIso>>}
        /\ Return("OK")
        /\ UNCHANGED <<valid, srvIso, srvAttrs, faults>>
     \/ /\ ~txOn /\ ~pushedAutocommit /\ valid     \* a server error
        /\ Return("ERR")
        /\ UNCHANGED <<valid, txOn, srvVars, begun>>
     \/ /\ ~txOn /\ ~pushedAutocommit
        /\ \/ ~valid /\ UNCHANGED <<valid, srvVars>>
           \/ valid /\ LoseSession
           \/ /\ valid /\ faults < MaxNetFaults   \* transient: socket kept
              /\ faults' = faults + 1
              /\ UNCHANGED <<valid, srvIso, srvAttrs, srvTx, txCount>>
        /\ IF Top.retries - 1 > 0
           THEN /\ stack' = Append([stack EXCEPT ![Len(stack)].retries = @ - 1],
                                   ConnectFrame)
                /\ UNCHANGED ret
           ELSE Return("NET")
        /\ UNCHANGED <<txOn, begun>>
  /\ UNCHANGED <<authenticated, pushedAutocommit, lastIso,
                 callerVars, writes, committed>>

-----------------------------------------------------------------------------
(* A transactionCommit or transactionRollback that fails with an error   *)
(* other than a network error: the sources do not say what the server     *)
(* does with the transaction then (connect() turned the server's          *)
(* auto-rollback off), so it is either ended or left open.                *)
OnServerTxError ==
  \E kept \in BOOLEAN : srvTx' = IF kept THEN srvTx ELSE 0

(* Sdb_conn::commit_transaction: clear m_transaction_on first; unless in  *)
(* pushed-autocommit mode, commit on the server; on a network error,      *)
(* reconnect (result ignored) and return the error.  committed records,   *)
(* for every commit that answers OK, the writes of the MySQL transaction  *)
(* and the server transaction the commit made durable (0: none).          *)
CommitStart ==
  /\ stack # <<>> /\ Top.proc = "commit" /\ Top.pc = "start"
  /\ \/ /\ ~txOn
        /\ Return("OK")
        /\ committed' = committed \cup {[writes |-> writes, tx |-> 0]}
        /\ UNCHANGED <<valid, txOn, pushedAutocommit, srvVars>>
     \/ /\ txOn /\ pushedAutocommit
        /\ txOn' = FALSE
        /\ pushedAutocommit' = FALSE
        /\ Return("OK")
        /\ committed' = committed \cup {[writes |-> writes, tx |-> 0]}
        /\ UNCHANGED <<valid, srvVars>>
     \/ /\ txOn /\ ~pushedAutocommit /\ valid   \* transactionCommit
        /\ txOn' = FALSE
        /\ srvTx' = 0
        /\ Return("OK")
        /\ committed' = committed \cup {[writes |-> writes, tx |-> srvTx]}
        /\ UNCHANGED <<valid, pushedAutocommit, srvIso, srvAttrs, txCount,
                       faults>>
     \/ /\ txOn /\ ~pushedAutocommit /\ valid   \* a server error
        /\ txOn' = FALSE
        /\ OnServerTxError
        /\ Return("ERR")
        /\ UNCHANGED <<valid, pushedAutocommit, srvIso, srvAttrs, txCount,
                       faults, committed>>
     \/ /\ txOn /\ ~pushedAutocommit
        /\ \/ ~valid /\ UNCHANGED <<valid, srvVars>>
           \/ valid /\ LoseSession
        /\ txOn' = FALSE
        /\ CallFrom("reconn", ConnectFrame)
        /\ UNCHANGED <<pushedAutocommit, committed>>
  /\ UNCHANGED <<authenticated, lastIso, callerVars, writes, begun>>

CommitReconn ==
  /\ stack # <<>> /\ Top.proc = "commit" /\ Top.pc = "reconn"
  /\ Return("NET")
  /\ UNCHANGED <<connVars, srvVars, callerVars, histVars>>

(* Sdb_conn::rollback_transaction: as commit, but a failure only causes a *)
(* reconnect and the call always returns 0.                                *)
RollbackStart ==
  /\ stack # <<>> /\ Top.proc = "rollback" /\ Top.pc = "start"
  /\ \/ /\ ~txOn
        /\ Return("OK")
        /\ UNCHANGED <<valid, txOn, pushedAutocommit, srvVars>>
     \/ /\ txOn /\ pushedAutocommit
        /\ txOn' = FALSE
        /\ pushedAutocommit' = FALSE
        /\ Return("OK")
        /\ UNCHANGED <<valid, srvVars>>
     \/ /\ txOn /\ ~pushedAutocommit /\ valid   \* transactionRollback
        /\ txOn' = FALSE
        /\ srvTx' = 0
        /\ Return("OK")
        /\ UNCHANGED <<valid, pushedAutocommit, srvIso, srvAttrs, txCount,
                       faults>>
     \/ /\ txOn /\ ~pushedAutocommit /\ valid   \* a server error, ignored
        /\ txOn' = FALSE
        /\ OnServerTxError
        /\ Return("OK")
        /\ UNCHANGED <<valid, pushedAutocommit, srvIso, srvAttrs, txCount,
                       faults>>
     \/ /\ txOn /\ ~pushedAutocommit
        /\ \/ ~valid /\ UNCHANGED <<valid, srvVars>>
           \/ valid /\ LoseSession
        /\ txOn' = FALSE
        /\ CallFrom("reconn", ConnectFrame)
        /\ UNCHANGED pushedAutocommit
  /\ UNCHANGED <<authenticated, lastIso, callerVars, histVars>>

RollbackReconn ==
  /\ stack # <<>> /\ Top.proc = "rollback" /\ Top.pc = "reconn"
  /\ pushedAutocommit' = FALSE
  /\ Return("OK")
  /\ UNCHANGED <<valid, authenticated, txOn, lastIso, srvVars, callerVars,
                 histVars>>

-----------------------------------------------------------------------------
(* check_sdb_in_thd(thd, &conn, validate_conn): attach a new Thd_sdb     *)
(* (and so a new Sdb_conn, in its constructor's state) when the THD has   *)
(* none; then, if the caller asked to validate, recycle_conn() =          *)
(* connect() unless the connection is valid and authenticated.  The       *)
(* callers (ha_sdb.cc) are not in the sources, so validate_conn is either. *)
Recycle(validate, isValid, isAuth) ==
  IF validate /\ ~(isValid /\ isAuth)
  THEN CallFrom("recycle", ConnectFrame)
  ELSE Return("OK")

(* Thd_sdb::seize: new (std::nothrow) Thd_sdb, whose constructor builds  *)
(* m_conn in Sdb_conn's initial state (not authenticated, no transaction, *)
(* last isolation RR); thd_set_thd_sdb attaches it to the THD.            *)
Seize ==
  /\ thdSdb' = TRUE
  /\ authenticated' = FALSE
  /\ txOn' = FALSE
  /\ pushedAutocommit' = FALSE
  /\ lastIso' = SDB_TRANS_ISO_RR

CheckStart ==
  /\ stack # <<>> /\ Top.proc = "check" /\ Top.pc = "start"
  /\ \E validate \in BOOLEAN :
       \/ /\ thdSdb
          /\ Recycle(validate, valid, authenticated)
          /\ UNCHANGED <<useTransaction, thdSdb, connVars>>
       \/ /\ ~thdSdb                          \* Thd_sdb::seize
          /\ Seize
          /\ Recycle(validate, valid, FALSE)
          /\ UNCHANGED valid
       \/ /\ ~thdSdb                          \* new (std::nothrow) failed
          /\ Return("ERR")                    \* HA_ERR_OUT_OF_MEM
          /\ UNCHANGED <<useTransaction, thdSdb, connVars>>
  /\ UNCHANGED <<useTransaction, srvVars, cpc, mysqlTx, reqIso, autoTx, txns,
                 stmts, histVars>>

CheckRecycled ==
  /\ stack # <<>> /\ Top.proc = "check" /\ Top.pc = "recycle"
  /\ Return(ret)
  /\ UNCHANGED <<connVars, srvVars, callerVars, histVars>>

(* Thd_sdb::release when the THD ends: the Sdb_conn and its physical      *)
(* connection are destroyed, which ends the server session.               *)
SessionEnd ==
  /\ stack = <<>> /\ cpc = "idle" /\ ~mysqlTx /\ thdSdb
  /\ thdSdb' = FALSE
  /\ valid' = FALSE
  /\ srvAttrs' = FALSE
  /\ srvTx' = 0
  /\ UNCHANGED <<authenticated, txOn, pushedAutocommit, lastIso, srvIso,
                 txCount, faults, stack, ret, useTransaction, cpc, mysqlTx,
                 reqIso, autoTx, txns, stmts, histVars>>

-----------------------------------------------------------------------------
(* Sdb_conn::get_cl: Sdb_cl::init resolves the collection through         *)
(* Sdb_cl::retry (cl_init); on a network error that retry did not absorb  *)
(* (inside a transaction, or out of budget) get_cl calls connect() before *)
(* returning the error.                                                    *)
GetClStart ==
  /\ stack # <<>> /\ Top.proc = "getcl" /\ Top.pc = "start"
  /\ CallFrom("init", Frame("clretry", "call", "cl_init", 0))
  /\ UNCHANGED <<connVars, srvVars, callerVars, histVars>>

GetClInitDone ==
  /\ stack # <<>> /\ Top.proc = "getcl" /\ Top.pc = "init"
  /\ \/ /\ ret = "NET"
        /\ CallFrom("reconn", ConnectFrame)
     \/ /\ ret # "NET"
        /\ Return(ret)
  /\ UNCHANGED <<connVars, srvVars, callerVars, histVars>>

GetClReconn ==
  /\ stack # <<>> /\ Top.proc = "getcl" /\ Top.pc = "reconn"
  /\ Return("NET")
  /\ UNCHANGED <<connVars, srvVars, callerVars, histVars>>

-----------------------------------------------------------------------------
(* The MySQL layer (ha_sdb.cc, not in the sources; modelled from the      *)
(* specification).  A transaction is a run of statements; each statement *)
(* validates the connection, begins (or joins) the transaction and does  *)
(* one collection write; the transaction ends with commit or rollback.    *)
(* An autocommit transaction is one statement run in pushed-autocommit    *)
(* mode.  After a failed call the statement ends and the transaction goes *)
(* on, as MySQL does after a statement error.                             *)
StartTxn ==
  /\ stack = <<>> /\ cpc = "idle" /\ ~mysqlTx /\ txns < MaxTxns
  /\ \E i \in ReqIsos, a \in BOOLEAN :
       /\ reqIso' = i
       /\ autoTx' = a
  /\ mysqlTx' = TRUE
  /\ txns' = txns + 1
  /\ stmts' = 0
  /\ writes' = {}
  /\ UNCHANGED <<connVars, srvVars, stack, ret, useTransaction, thdSdb, cpc,
                 committed, begun>>

StartStmt ==
  /\ stack = <<>> /\ cpc = "idle" /\ mysqlTx
  /\ stmts < IF autoTx THEN 1 ELSE MaxStmts
  /\ stmts' = stmts + 1
  /\ stack' = <<Frame("check", "start", "none", 0)>>
  /\ cpc' = "check"
  /\ UNCHANGED <<connVars, srvVars, ret, useTransaction, thdSdb, mysqlTx,
                 reqIso, autoTx, txns, histVars>>

\* After the check: Sdb_conn::set_pushed_autocommit for an autocommit
\* statement, then begin_transaction.
AfterCheck ==
  /\ stack = <<>> /\ cpc = "check"
  /\ \/ /\ ret = "OK"
        /\ pushedAutocommit' = (pushedAutocommit \/ autoTx)
        /\ stack' = <<Frame("begin", "start", "none", reqIso)>>
        /\ cpc' = "begin"
     \/ /\ ret # "OK"
        /\ cpc' = "idle"
        /\ UNCHANGED <<pushedAutocommit, stack>>
  /\ UNCHANGED <<valid, authenticated, txOn, lastIso, srvVars, ret,
                 useTransaction, thdSdb, mysqlTx, reqIso, autoTx, txns, stmts,
                 histVars>>

AfterBegin ==
  /\ stack = <<>> /\ cpc = "begin"
  /\ \/ /\ ret = "OK"
        /\ stack' = <<Frame("getcl", "start", "none", 0)>>
        /\ cpc' = "getcl"
     \/ /\ ret # "OK"
        /\ cpc' = "idle"
        /\ UNCHANGED stack
  /\ UNCHANGED <<connVars, srvVars, ret, useTransaction, thdSdb, mysqlTx,
                 reqIso, autoTx, txns, stmts, histVars>>

AfterGetCl ==
  /\ stack = <<>> /\ cpc = "getcl"
  /\ \/ /\ ret = "OK"
        /\ \E f \in StmtFrames :
             /\ stack' = <<f>>
             /\ cpc' = IF f.op = "query" THEN "query" ELSE "op"
     \/ /\ ret # "OK"
        /\ cpc' = "idle"
        /\ UNCHANGED stack
  /\ UNCHANGED <<connVars, srvVars, ret, useTransaction, thdSdb, mysqlTx,
                 reqIso, autoTx, txns, stmts, histVars>>

\* After a query the statement reads its rows, or (query_one) has them.
AfterQuery ==
  /\ stack = <<>> /\ cpc = "query"
  /\ \/ /\ ret = "OK"
        /\ stack' = <<NextFrame>>
        /\ cpc' = "op"
     \/ /\ cpc' = "idle"
        /\ UNCHANGED stack
  /\ UNCHANGED <<connVars, srvVars, ret, useTransaction, thdSdb, mysqlTx,
                 reqIso, autoTx, txns, stmts, histVars>>

AfterOp ==
  /\ stack = <<>> /\ cpc = "op"
  /\ cpc' = "idle"
  /\ UNCHANGED <<connVars, srvVars, stack, ret, useTransaction, thdSdb,
                 mysqlTx, reqIso, autoTx, txns, stmts, histVars>>

EndTxn ==
  /\ stack = <<>> /\ cpc = "idle" /\ mysqlTx /\ stmts > 0
  /\ \E p \in {"commit", "rollback"} :
       /\ stack' = <<Frame(p, "start", "none", 0)>>
       /\ cpc' = p
  /\ UNCHANGED <<connVars, srvVars, ret, useTransaction, thdSdb, mysqlTx,
                 reqIso, autoTx, txns, stmts, histVars>>

AfterEnd ==
  /\ stack = <<>> /\ cpc \in {"commit", "rollback"}
  /\ cpc' = "idle"
  /\ mysqlTx' = FALSE
  /\ writes' = {}
  /\ UNCHANGED <<connVars, srvVars, stack, ret, useTransaction, thdSdb,
                 reqIso, autoTx, txns, stmts, committed, begun>>

\* The connection drops between two calls.
NetFault ==
  /\ valid
  /\ LoseSession
  /\ UNCHANGED <<authenticated, txOn, pushedAutocommit, lastIso, stack, ret,
                 callerVars, histVars>>

\* Every bounded run ends with the session idle.
Finished ==
  /\ stack = <<>> /\ cpc = "idle" /\ ~mysqlTx /\ txns = MaxTxns
  /\ UNCHANGED vars

-----------------------------------------------------------------------------
(* The admin thread: SET GLOBAL sequoiadb_password runs                   *)
(* sdb_password_update in another THD, concurrently with the session.     *)
(* Under the write guard it assigns sdb_password and re-encrypts it into  *)
(* sdb_encoded_password: sdb_aes_encrypt allocates the buffer, then       *)
(* my_aes_encrypt writes it.  A failed allocation leaves the buffer empty *)
(* and its error is ignored by sdb_password_update; the guard is released *)
(* on return either way.  sdb_password itself is read only by this       *)
(* encryption, so the model keeps it only while the guard is held         *)
(* (pwdWriting); its masking with '*' for SHOW VARIABLES changes only     *)
(* what is displayed and is left out.                                     *)
PasswordUpdate ==
  /\ pwdWriting = NOWRITER /\ pwdUpdates < MaxPwdUpdates
  /\ pwdUpdates' = pwdUpdates + 1
  /\ \E p \in Passwords :
       \/ /\ encoded' = TORN           \* dst.alloc succeeded
          /\ pwdWriting' = p
       \/ /\ encoded' = EMPTY          \* HA_ERR_OUT_OF_MEM, rc ignored
          /\ UNCHANGED pwdWriting
  /\ UNCHANGED <<connVars, srvVars, stack, ret, callerVars, histVars>>

\* my_aes_encrypt fills the buffer with sdb_password; the write guard is
\* released.
PasswordEncrypted ==
  /\ pwdWriting # NOWRITER
  /\ encoded' = pwdWriting
  /\ pwdWriting' = NOWRITER
  /\ UNCHANGED <<connVars, srvVars, stack, ret, callerVars, histVars,
                 pwdUpdates>>

-----------------------------------------------------------------------------
Init ==
  /\ useTransaction \in BOOLEAN
  /\ thdSdb = FALSE
  /\ valid = FALSE
  /\ authenticated = FALSE
  /\ txOn = FALSE
  /\ pushedAutocommit = FALSE
  /\ lastIso = SDB_TRANS_ISO_RR          \* Sdb_conn::Sdb_conn: "default is RR"
  /\ srvIso = SdbDefaultIso
  /\ srvAttrs = FALSE
  /\ srvTx = 0
  /\ txCount = 0
  /\ faults = 0
  /\ stack = <<>>
  /\ ret = "OK"
  /\ cpc = "idle"
  /\ mysqlTx = FALSE
  /\ reqIso = ISO_REPEATABLE_READ
  /\ autoTx = FALSE
  /\ txns = 0
  /\ stmts = 0
  /\ writes = {}
  /\ committed = {}
  /\ begun = {}
  /\ encoded = ClusterPassword          \* encrypted when the plugin starts
  /\ pwdWriting = NOWRITER
  /\ pwdUpdates = 0

\* The session's steps that do not touch the password cache.
SessionStep ==
  \/ ConnectAttrDone
  \/ ConnRetryCall \/ ClRetryCall \/ RetryReconnected \/ BatchCall \/ ClNext
  \/ BeginStart \/ BeginIsoSet \/ BeginLoop
  \/ CommitStart \/ CommitReconn \/ RollbackStart \/ RollbackReconn
  \/ GetClStart \/ GetClInitDone \/ GetClReconn
  \/ CheckStart \/ CheckRecycled \/ SessionEnd
  \/ StartTxn \/ StartStmt \/ AfterCheck \/ AfterBegin \/ AfterGetCl
  \/ AfterQuery \/ AfterOp \/ EndTxn \/ AfterEnd
  \/ NetFault

Next ==
  \/ ConnectStart
  \/ SessionStep /\ UNCHANGED pwdVars
  \/ PasswordUpdate \/ PasswordEncrypted
  \/ Finished

Spec == Init /\ [][Next]_vars

-----------------------------------------------------------------------------
Isos == {ISO_READ_UNCOMMITTED, ISO_READ_COMMITTED, ISO_REPEATABLE_READ,
         ISO_SERIALIZABLE}
TxIds == 0..(MaxTxns * MaxStmts)

TypeOK ==
  /\ {thdSdb, valid, authenticated, txOn, pushedAutocommit, srvAttrs,
      mysqlTx, autoTx} \subseteq BOOLEAN
  /\ lastIso \in Isos
  /\ srvIso \in {SDB_TRANS_ISO_RU, SDB_TRANS_ISO_RC, SDB_TRANS_ISO_RS,
                 SDB_TRANS_ISO_RR}
  /\ srvTx \in TxIds /\ txCount \in TxIds
  /\ faults \in 0..MaxNetFaults
  /\ \A k \in 1..Len(stack) :
       /\ stack[k].proc \in Procs
       /\ stack[k].op \in Ops
       /\ stack[k].retries \in 0..RetryTimes
  /\ ret \in RCs
  /\ cpc \in {"idle", "check", "begin", "getcl", "query", "op", "commit",
                "rollback"}
  /\ reqIso \in Isos
  /\ txns \in 0..MaxTxns /\ stmts \in 0..MaxStmts
  /\ writes \subseteq [tx : TxIds, inTx : BOOLEAN]
  /\ encoded \in Passwords \cup {TORN, EMPTY}
  /\ pwdWriting \in Passwords \cup {NOWRITER}
  /\ pwdUpdates \in 0..MaxPwdUpdates


ConnectInProgress == \E k \in 1..Len(stack) : stack[k].proc = "connect"

(* Sdb_conn never believes in a server transaction the server does not   *)
(* have: while the physical connection is up, m_transaction_on outside    *)
(* pushed-autocommit mode means the server session has a transaction      *)
(* open.  Breaks if a reconnect (connect(), via retry, begin, commit,     *)
(* rollback or check_sdb_in_thd) kept m_transaction_on from the lost      *)
(* session.                                                                *)
TxFlagMatchesServer ==
  (valid /\ txOn /\ ~pushedAutocommit) => srvTx # 0

(* A collection write issued while a server transaction was on is only   *)
(* ever applied inside a server transaction: retry() must not reconnect  *)
(* and re-run it on a fresh session (where it would autocommit) after a   *)
(* network error inside the transaction.                                  *)
TxWritesStayInTx ==
  \A w \in writes : w.inTx => w.tx # 0

(* A physical connection the session keeps open between calls has had    *)
(* connect()'s session attributes (Source, TransAutoRollback = false,     *)
(* TransAutoCommit) applied: a failed set_session_attr disconnects.       *)
SessionAttrsApplied ==
  (valid /\ ~ConnectInProgress) => srvAttrs

(* Between two MySQL transactions the server session holds no open      *)
(* transaction: commit_transaction and rollback_transaction clear         *)
(* m_transaction_on only together with ending the server transaction.    *)
(* An open one would absorb the next autocommit statements, whose commit  *)
(* in pushed-autocommit mode never reaches the server.                    *)
NoOrphanServerTx ==
  (stack = <<>> /\ cpc = "idle" /\ ~mysqlTx /\ valid) => srvTx = 0

(* Every server transaction begins with the isolation level the MySQL    *)
(* session asked for (the specification: the isolation is pushed when    *)
(* it differs from the last isolation set on this physical connection).  *)
IsolationHonoured ==
  \A b \in begun : b[2] = ToSdbIso(b[1])

(* A commit that answers OK made every write the MySQL transaction was   *)
(* told succeeded durable in the one server transaction it committed:     *)
(* a disconnect never silently drops part of an in-flight transaction.    *)
CommittedTxAtomic ==
  \A c \in committed : \A w \in c.writes : w.tx = c.tx

(* connect() calls retry(set_session_attr), whose network error calls   *)
(* connect() again: the call stack only deepens through a reconnect, and *)
(* a reconnect inside connect() only follows a network fault.  The       *)
(* nesting is bounded by the faults the session has met: four frames on *)
(* the deepest fault-free path (a call through retry() on a connection   *)
(* never opened, as check_sdb_in_thd without validate_conn leaves it,    *)
(* then connect and its retry) and two more per fault.                   *)
NestingBounded == Len(stack) <= 4 + 2 * faults

=============================================================================
