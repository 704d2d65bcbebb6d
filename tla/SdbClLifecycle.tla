--------------------------- MODULE SdbClLifecycle ---------------------------
(***************************************************************************)
(* The lifecycle operations of the collection handle                      *)
(* (src/sdbwrapper/sdb_cl.cc), each a cl_* function run through           *)
(* Sdb_cl::retry: create_index in its key form (cl_create_index) and its  *)
(* options form (cl_create_index2 with the legacy-index reconciler        *)
(* is_old_version_index), drop_index, drop, truncate,                     *)
(* create_auto_increment and drop_auto_increment, for sessions that each  *)
(* hold an Sdb_cl on the same collection.                                  *)
(*                                                                         *)
(* An index definition is its key pattern and its Unique and NotNull      *)
(* flags; an index created by v3.2.2 or earlier did not record NotNull,   *)
(* so it appears with NotNull false.  The key form carries no NotNull.    *)
(* The auto-increment state is whether the one auto-increment field is    *)
(* defined; rows are not modelled, so truncate has no visible effect.     *)
(* A round trip may lose its request or its reply, or fail on the server.*)
(* After Sdb_cl::retry reconnects it calls again through the same m_cl,   *)
(* whose reference to the old connection the specification says is       *)
(* invalidated; the driver is not in the sources, so a call through such  *)
(* a stale handle may work or fail with a network error.  These calls run*)
(* outside transactions (MySQL commits before DDL).                        *)
(***************************************************************************)
EXTENDS Integers, FiniteSets

CONSTANTS
  Sessions,     \* sessions, each with its own Sdb_conn and Sdb_cl
  IndexNames,   \* index names
  Keys,         \* key patterns
  NoIndex,      \* no index of that name
  MaxCalls,     \* bound: calls per session
  MaxFaults     \* bound: injected failures in a behaviour

ASSUME NoIndex \notin [key : Keys, unique : BOOLEAN, notNull : BOOLEAN]

RetryTimes == 2     \* retry_times = 2 in Sdb_cl::retry

Defs == [key : Keys, unique : BOOLEAN, notNull : BOOLEAN]

\* The calls: create_index (key form, options form), drop_index, drop,
\* truncate, create_auto_increment, drop_auto_increment.
Ops == {"create", "create2", "drop_idx", "drop_cl", "truncate", "create_ai",
        "drop_ai"}
Creates == {"create", "create2"}

VARIABLES
  coll,     \* the collection on the cluster: exists, indexes, auto-increment
  sess,     \* per session: the call in progress and its locals
  faults    \* failures injected so far

vars == <<coll, sess, faults>>

-----------------------------------------------------------------------------
(* The cluster's answers.  A call on a dropped collection gets            *)
(* SDB_DMS_NOTEXIST; otherwise createIndex answers new, identical (REDEF)*)
(* or other (EXIST); dropIndex answers IXM_NOTEXIST for a missing index;  *)
(* createAutoIncrement answers FIELD_CONFLICT when the field already has  *)
(* one, dropAutoIncrement FIELD_NOT_EXIST when it has none.               *)
CollRc(r) == IF coll.exists THEN r ELSE "DMS_NOTEXIST"
CreateIndexRc(n, d) ==
  CollRc(IF coll.idx[n] = NoIndex THEN "OK"
         ELSE IF coll.idx[n] = d THEN "REDEF" ELSE "EXIST")
DropIndexRc(n) == CollRc(IF coll.idx[n] = NoIndex THEN "IXM_NOTEXIST" ELSE "OK")
CreateAiRc == CollRc(IF coll.autoInc THEN "AI_CONFLICT" ELSE "OK")
DropAiRc == CollRc(IF coll.autoInc THEN "OK" ELSE "AI_NOTEXIST")

\* The collection after the server dropped it.
Dropped == [exists |-> FALSE, idx |-> [n \in IndexNames |-> NoIndex],
            autoInc |-> FALSE]

\* Round-trip outcomes, as in SdbCatalog.
Outcomes == {"ok", "net", "lost", "err"}
Possible(o) == o = "ok" \/ faults < MaxFaults
Applied(o) == o \in {"ok", "lost"}
RcOf(o, r) ==
  CASE o = "ok" -> r [] o \in {"net", "lost"} -> "NET" [] o = "err" -> "ERR"
CountFault(o) == faults' = faults + (IF o = "ok" THEN 0 ELSE 1)

\* Another session's change to the collection disturbs every call in progress.
Disturb(s) ==
  [t \in Sessions |->
     IF t # s /\ sess[t].pc \notin {"idle", "done"}
     THEN [sess[t] EXCEPT !.disturbed = TRUE] ELSE sess[t]]

-----------------------------------------------------------------------------
\* Mutant of IsOldVersionIndex: any NotNull difference accepted.
IsOldVersionIndexSymmetric(info, d) ==
  /\ info # NoIndex
  /\ info.key = d.key
  /\ info.unique = d.unique
  /\ d.notNull # info.notNull

(* is_old_version_index on the index getIndex returned: same key pattern, *)
(* same uniqueness, and NotNull requested where the existing index has    *)
(* none recorded.  A failed getIndex means not old.                        *)
IsOldVersionIndex(info, d) ==
  /\ info # NoIndex
  /\ info.key = d.key
  /\ info.unique = d.unique
  /\ d.notNull /\ ~info.notNull

(* The specification's equivalence (8.4): the existing index e serves the *)
(* request d when it is identical, or (options form only) it is the same *)
(* index created before NotNull was recorded.                              *)
Equivalent(op, e, d) ==
  \/ e = d
  \/ /\ op = "create2" /\ e # NoIndex
     /\ e.key = d.key /\ e.unique = d.unique /\ d.notNull /\ ~e.notNull

\* A genuine conflict: an index of that name that does not serve the request.
Conflicts(op, n, d) == coll.idx[n] # NoIndex /\ ~Equivalent(op, coll.idx[n], d)

(* A session at rest makes one of the calls on its Sdb_cl.                *)
Call(s) ==
  /\ sess[s].pc \in {"idle", "done"}
  /\ sess[s].calls < MaxCalls
  /\ \E op \in Ops, n \in IndexNames, d \in Defs :
       /\ op = "create" => ~d.notNull
       /\ op \notin Creates => d = CHOOSE e \in Defs : TRUE
       /\ op \notin Creates \cup {"drop_idx"} => n = CHOOSE m \in IndexNames : TRUE
       /\ sess' = [sess EXCEPT ![s] =
                     [op |-> op, name |-> n, def |-> d, pc |-> "call",
                      retries |-> RetryTimes, stale |-> FALSE,
                      result |-> "OK", unretried |-> FALSE,
                      disturbed |-> FALSE, netFaults |-> 0,
                      conflict |-> op \in Creates /\ Conflicts(op, n, d),
                      gone |-> ~coll.exists,
                      calls |-> sess[s].calls + 1]]
  /\ UNCHANGED <<coll, faults>>

\* The call returns rc.
Return(l, rc) == [l EXCEPT !.pc = "done", !.result = rc]

\* Mutant of ClRetryError: the budget tested as retry_times-- >= 0.
ClRetryErrorOffByOne(l, rc) ==
  IF rc = "NET" /\ l.retries >= 0
  THEN [l EXCEPT !.retries = @ - 1, !.pc = "reconnect"]
  ELSE Return(l, rc)

\* Mutant of ClRetryError: the budget never spent.
ClRetryErrorNoBudget(l, rc) ==
  IF rc = "NET" THEN [l EXCEPT !.pc = "reconnect"] ELSE Return(l, rc)

(* Sdb_cl::retry after a failed call: reconnect and call again on a       *)
(* network error while budget remains (no transaction is open),           *)
(* otherwise return the error.                                              *)
ClRetryError(l, rc) ==
  IF rc = "NET" /\ l.retries > 0
  THEN [l EXCEPT !.retries = @ - 1, !.pc = "reconnect"]
  ELSE Return(l, rc)

\* The locals after an outcome: a network failure or an unretried error.
Note(l, o) ==
  CASE o \in {"net", "lost"} -> [l EXCEPT !.netFaults = @ + 1]
    [] o = "err" -> [l EXCEPT !.unretried = TRUE]
    [] OTHER -> l

(* The stale m_cl after a reconnect: the driver may reject the call with *)
(* a network error before it reaches the cluster.                          *)
Rejected(l) == l.stale

\* cl_create_index treats SDB_IXM_REDEF as success.
CreateIndexOk(rc) == rc \in {"OK", "REDEF"}

\* cl_drop_index treats SDB_IXM_NOTEXIST as success.
DropIndexOk(rc) == rc \in {"OK", "IXM_NOTEXIST"}

\* Mutant of ClDropOk: a lost connection taken for a dropped collection.
ClDropOkOnNet(rc) == rc \in {"OK", "DMS_NOTEXIST", "NET"}

\* cl_drop treats SDB_DMS_NOTEXIST as success.
ClDropOk(rc) == rc \in {"OK", "DMS_NOTEXIST"}

\* cl_create_auto_increment treats SDB_AUTOINCREMENT_FIELD_CONFLICT as success.
CreateAiOk(rc) == rc \in {"OK", "AI_CONFLICT"}

\* cl_drop_auto_increment treats SDB_AUTOINCREMENT_FIELD_NOT_EXIST as success.
DropAiOk(rc) == rc \in {"OK", "AI_NOTEXIST"}

(* What the cl_* function of call l makes of the answer rc: the codes it *)
(* maps to success (cl_truncate maps none), the options form's turn to   *)
(* is_old_version_index after SDB_IXM_EXIST, and Sdb_cl::retry for the   *)
(* rest.                                                                    *)
Then(l, rc) ==
  LET ok == CASE l.op \in Creates -> CreateIndexOk(rc)
              [] l.op = "drop_idx" -> DropIndexOk(rc)
              [] l.op = "drop_cl" -> ClDropOk(rc)
              [] l.op = "truncate" -> rc = "OK"
              [] l.op = "create_ai" -> CreateAiOk(rc)
              [] l.op = "drop_ai" -> DropAiOk(rc)
  IN
  IF ok THEN Return(l, "OK")
  ELSE IF rc = "EXIST" /\ l.op = "create2" THEN [l EXCEPT !.pc = "get_index"]
  ELSE ClRetryError(l, rc)

(* One call of func through m_cl inside Sdb_cl::retry: the cluster answers *)
(* r and, when the request arrives, the collection becomes new.            *)
Through(s, r, new) ==
  LET l == sess[s] IN
  \/ /\ Rejected(l)
     /\ sess' = [sess EXCEPT ![s] = ClRetryError(l, "NET")]
     /\ UNCHANGED <<coll, faults>>
  \/ \E o \in Outcomes :
       LET next == Then(Note(l, o), RcOf(o, r)) IN
       /\ Possible(o) /\ CountFault(o)
       /\ IF Applied(o) /\ new # coll
          THEN /\ coll' = new
               /\ sess' = [Disturb(s) EXCEPT ![s] = next]
          ELSE /\ UNCHANGED coll
               /\ sess' = [sess EXCEPT ![s] = next]

\* Sdb_cl::create_index, both forms: createIndex through m_cl.
IdxCreate(s) ==
  LET l == sess[s] IN
  /\ l.pc = "call" /\ l.op \in Creates
  /\ Through(s, CreateIndexRc(l.name, l.def),
             IF CreateIndexRc(l.name, l.def) = "OK"
             THEN [coll EXCEPT !.idx[l.name] = l.def] ELSE coll)

(* cl_create_index2 after SDB_IXM_EXIST: is_old_version_index fetches the *)
(* index by name; an equivalent legacy index makes the call succeed,      *)
(* anything else (a failed getIndex included) returns SDB_IXM_EXIST.      *)
IdxGetIndex(s) ==
  LET l == sess[s] IN
  /\ l.pc = "get_index"
  /\ \/ /\ Rejected(l)
        /\ sess' = [sess EXCEPT ![s] =
                      Return([l EXCEPT !.unretried = TRUE], "EXIST")]
        /\ UNCHANGED faults
     \/ \E o \in {"ok", "net", "err"} :
          LET read == o = "ok" /\ coll.exists
              info == IF read THEN coll.idx[l.name] ELSE NoIndex
          IN
          /\ Possible(o) /\ CountFault(o)
          /\ sess' = [sess EXCEPT ![s] =
                        IF IsOldVersionIndex(info, l.def)
                        THEN Return(l, "OK")
                        ELSE Return([l EXCEPT !.unretried = ~read], "EXIST")]
  /\ UNCHANGED coll

\* Sdb_cl::drop_index: dropIndex through m_cl.
IdxDrop(s) ==
  LET l == sess[s] IN
  /\ l.pc = "call" /\ l.op = "drop_idx"
  /\ Through(s, DropIndexRc(l.name), [coll EXCEPT !.idx[l.name] = NoIndex])

\* Sdb_cl::drop: the collection, its indexes and auto-increment go.
ClDrop(s) ==
  LET l == sess[s] IN
  /\ l.pc = "call" /\ l.op = "drop_cl"
  /\ Through(s, CollRc("OK"), Dropped)

\* Sdb_cl::truncate: rows are not modelled, so the collection is unchanged.
ClTruncate(s) ==
  LET l == sess[s] IN
  /\ l.pc = "call" /\ l.op = "truncate"
  /\ Through(s, CollRc("OK"), coll)

\* Sdb_cl::create_auto_increment.
AiCreate(s) ==
  LET l == sess[s] IN
  /\ l.pc = "call" /\ l.op = "create_ai"
  /\ Through(s, CreateAiRc,
             IF coll.exists THEN [coll EXCEPT !.autoInc = TRUE] ELSE coll)

\* Sdb_cl::drop_auto_increment.
AiDrop(s) ==
  LET l == sess[s] IN
  /\ l.pc = "call" /\ l.op = "drop_ai"
  /\ Through(s, DropAiRc, [coll EXCEPT !.autoInc = FALSE])

(* The connect() of Sdb_cl::retry: on success call func again through the *)
(* same, now stale, m_cl; on failure return the network error.            *)
ClReconnect(s) ==
  LET l == sess[s] IN
  /\ l.pc = "reconnect"
  /\ \E ok \in BOOLEAN :
       /\ ok \/ faults < MaxFaults
       /\ faults' = faults + (IF ok THEN 0 ELSE 1)
       /\ sess' = [sess EXCEPT ![s] =
                     IF ok THEN [l EXCEPT !.stale = TRUE, !.pc = "call"]
                     ELSE Return([l EXCEPT !.netFaults = @ + 1], "NET")]
  /\ UNCHANGED coll

-----------------------------------------------------------------------------
(* The collection the handles were resolved on, with any indexes (legacy *)
(* ones among them) and either auto-increment state; every session at    *)
(* rest.                                                                    *)
Init ==
  /\ coll \in [exists : {TRUE}, idx : [IndexNames -> Defs \cup {NoIndex}],
               autoInc : BOOLEAN]
  /\ sess = [s \in Sessions |->
               [op |-> "none", name |-> CHOOSE n \in IndexNames : TRUE,
                def |-> CHOOSE e \in Defs : TRUE, pc |-> "idle",
                retries |-> RetryTimes, stale |-> FALSE, result |-> "OK",
                unretried |-> FALSE, disturbed |-> FALSE, netFaults |-> 0,
                conflict |-> FALSE, gone |-> FALSE, calls |-> 0]]
  /\ faults = 0

\* The steps of a call in progress, which its thread runs to the end.
Busy(s) ==
  \/ IdxCreate(s) \/ IdxGetIndex(s) \/ IdxDrop(s) \/ ClDrop(s)
  \/ ClTruncate(s) \/ AiCreate(s) \/ AiDrop(s) \/ ClReconnect(s)

\* Every session has made its calls.
Finished ==
  /\ \A s \in Sessions : sess[s].pc \in {"idle", "done"}
                          /\ sess[s].calls = MaxCalls
  /\ UNCHANGED vars

Next == (\E s \in Sessions : Call(s) \/ Busy(s)) \/ Finished

Spec == Init /\ [][Next]_vars

(* A call blocks its session's thread until the cluster answers or the   *)
(* retry budget is spent, so the steps of a call in progress are weakly  *)
(* fair; whether and when a session makes its next call is up to MySQL.  *)
FairSpec == Spec /\ \A s \in Sessions : WF_vars(Busy(s))

-----------------------------------------------------------------------------
TypeOK ==
  /\ coll \in [exists : BOOLEAN, idx : [IndexNames -> Defs \cup {NoIndex}],
               autoInc : BOOLEAN]
  /\ faults \in 0 .. MaxFaults
  /\ \A s \in Sessions :
       /\ sess[s].op \in Ops \cup {"none"}
       /\ sess[s].pc \in {"idle", "done", "call", "get_index", "reconnect"}
       /\ sess[s].retries \in 0 .. RetryTimes
       /\ sess[s].result \in {"OK", "EXIST", "DMS_NOTEXIST", "NET", "ERR"}
       /\ sess[s].calls \in 0 .. MaxCalls

\* What the specification says a call answers.
Expected(l) ==
  IF l.gone THEN IF l.op = "drop_cl" THEN "OK" ELSE "DMS_NOTEXIST"
  ELSE IF l.op \in Creates /\ l.conflict THEN "EXIST"
  ELSE "OK"

(* The lifecycle calls answer what the specification says, whatever was  *)
(* lost and re-run on the way: create_index succeeds exactly when no     *)
(* index of that name conflicts (identical, absent, or for the options   *)
(* form an equivalent legacy index) and otherwise reports the conflict;  *)
(* drop_index, drop and both auto-increment calls succeed; on a dropped  *)
(* collection only drop succeeds.  Excused are calls a server error or a *)
(* concurrent change reached, and calls that ran out of reconnects.       *)
ClCallsAnswerSpec ==
  \A s \in Sessions :
    LET l == sess[s] IN
    l.pc = "done" /\ l.op # "none" /\ ~l.unretried /\ ~l.disturbed
      /\ l.result # "NET"
      => l.result = Expected(l)

\* The collection as a successful call l leaves it.
InEffect(l, c) ==
  CASE l.op \in Creates -> Equivalent(l.op, c.idx[l.name], l.def)
    [] l.op = "drop_idx" -> c.idx[l.name] = NoIndex
    [] l.op = "drop_cl" -> ~c.exists
    [] l.op = "truncate" -> c.exists
    [] l.op = "create_ai" -> c.autoInc
    [] l.op = "drop_ai" -> ~c.autoInc

(* A call that answers OK, and that no other session's change reached,   *)
(* returns with its effect in place on the cluster: an error mapped to   *)
(* success (REDEF, IXM_NOTEXIST, DMS_NOTEXIST, the two auto-increment    *)
(* codes, a legacy index) is mapped only when the state it stands for    *)
(* holds.                                                                   *)
ClCallsTakeEffect ==
  [][\A s \in Sessions :
       (/\ sess[s].pc # "done" /\ sess'[s].pc = "done"
        /\ sess'[s].result = "OK" /\ ~sess'[s].disturbed)
       => InEffect(sess'[s], coll')]_vars

(* Every call returns: Sdb_cl::retry's budget ends the reconnect loop    *)
(* even when every call through the stale handle fails.                   *)
ClCallsReturn ==
  \A s \in Sessions : sess[s].pc \notin {"idle", "done"} ~> sess[s].pc = "done"

(* Sdb_cl::retry recovers from one network failure: a call that met a    *)
(* single lost request or reply, and whose reconnect succeeded, does not  *)
(* return a network error.                                                  *)
ClRetryRecovers ==
  \A s \in Sessions :
    LET l == sess[s] IN
    l.pc = "done" /\ l.op # "none" /\ ~l.unretried /\ ~l.disturbed
      /\ l.netFaults <= 1
      => l.result # "NET"

=============================================================================
