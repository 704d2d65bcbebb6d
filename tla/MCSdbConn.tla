----------------------------- MODULE MCSdbConn -----------------------------
(* Model-checking instance of SdbConn: the bounds, the server default     *)
(* isolation of SequoiaDB (TransIsolation 0, read uncommitted), and the   *)
(* password the cluster accepts.  The admin thread re-sets that same      *)
(* password: a rejected password would give connect() the same error     *)
(* path as the empty buffer a failed allocation leaves behind.            *)
EXTENDS SdbConn

MCReqIsos == {ISO_READ_COMMITTED, ISO_REPEATABLE_READ, ISO_SERIALIZABLE}
MCSdbDefaultIso == SDB_TRANS_ISO_RU
MCPasswords == {"pw1"}
MCClusterPassword == "pw1"
=============================================================================
