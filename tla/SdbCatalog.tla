----------------------------- MODULE SdbCatalog -----------------------------
(***************************************************************************)
(* The catalog operations of Sdb_conn (src/sdbwrapper/sdb_conn.cc):       *)
(* create_cl with its own retry loop and its compensation, and rename_cl, *)
(* drop_cl and drop_cs through Sdb_conn::retry, run by several sessions   *)
(* against one collection space of the shared cluster catalog.            *)
(*                                                                         *)
(* Sessions (of one or of several MySQL servers sharing the cluster) each *)
(* own a connection and issue catalog calls concurrently; the cluster     *)
(* serialises their round trips.  One action is one round trip and the    *)
(* code that handles its reply.  A round trip may fail with a network     *)
(* error before or after the server applied it (a lost reply), or with a  *)
(* server error.  DDL runs outside transactions (MySQL commits first), so *)
(* m_transaction_on is false throughout.                                   *)
(***************************************************************************)
EXTENDS Integers, FiniteSets

CONSTANTS
  Sessions,     \* the sessions, each with its own Sdb_conn
  ClNames,      \* collection names of the one collection space
  MaxCalls,     \* bound: catalog calls per session
  MaxFaults     \* bound: injected failures in a behaviour

ASSUME MaxCalls \in Nat /\ MaxFaults \in Nat

RetryTimes == 2     \* retry_times = 2 in Sdb_conn::retry and in create_cl

\* Return codes, abstracted: SDB_OK, SDB_DMS_CS_NOTEXIST, SDB_DMS_CS_EXIST,
\* SDB_DMS_NOTEXIST, SDB_DMS_EXIST, a network error, any other error.
RCs == {"OK", "CS_NOTEXIST", "CS_EXIST", "NOTEXIST", "EXIST", "NET", "ERR"}

Ops == {"create", "dropcl", "dropcs", "rename"}

Calls ==
  [op : {"create", "dropcl"}, cl : ClNames, cl2 : {"none"}]
  \cup [op : {"dropcs"}, cl : {"none"}, cl2 : {"none"}]
  \cup {c \in [op : {"rename"}, cl : ClNames, cl2 : ClNames] : c.cl # c.cl2}

VARIABLES
  csExists,   \* the collection space exists on the cluster
  cls,        \* the collections in it
  sess,       \* per session: the C++ call in progress and its locals
  faults,     \* failures injected so far
  acked       \* history: collections whose create_cl returned OK and
              \* that no drop or rename call has removed since

vars == <<csExists, cls, sess, faults, acked>>

-----------------------------------------------------------------------------
(* Outcome of one round trip: the reply arrives; the request is lost; the *)
(* reply is lost after the server applied the request; a server error.    *)
Outcomes == {"ok", "net", "lost", "err"}
Possible(o) == o = "ok" \/ faults < MaxFaults
Applied(o) == o \in {"ok", "lost"}
RcOf(o, r) ==
  CASE o = "ok" -> r [] o \in {"net", "lost"} -> "NET" [] o = "err" -> "ERR"
CountFault(o) == faults' = faults + (IF o = "ok" THEN 0 ELSE 1)

\* The server's reply to each request, from the catalog.
GetCsRc == IF csExists THEN "OK" ELSE "CS_NOTEXIST"
CreateCsRc == IF csExists THEN "CS_EXIST" ELSE "OK"
CreateClRc(c) ==
  IF ~csExists THEN "CS_NOTEXIST" ELSE IF c \in cls THEN "EXIST" ELSE "OK"
GetClRc(c) ==
  IF ~csExists THEN "CS_NOTEXIST" ELSE IF c \in cls THEN "OK" ELSE "NOTEXIST"
RenameRc(c, c2) ==
  IF ~csExists THEN "CS_NOTEXIST" ELSE IF c \notin cls THEN "NOTEXIST"
  ELSE IF c2 \in cls THEN "EXIST" ELSE "OK"

\* Another session's change to the catalog disturbs every call in progress.
Disturb(s) ==
  [t \in Sessions |->
     IF t # s /\ sess[t].pc \notin {"idle", "done"}
     THEN [sess[t] EXCEPT !.disturbed = TRUE] ELSE sess[t]]

\* Catalog effects.  Only drops and renames issued as calls update acked.
DoCreateCs == csExists' = TRUE /\ cls' = {}
DoDropCs == csExists' = FALSE /\ cls' = {}

-----------------------------------------------------------------------------
(* A session at rest starts a catalog call; rename's target must not be   *)
(* its source.                                                              *)
Call(s) ==
  /\ sess[s].pc \in {"idle", "done"}
  /\ sess[s].calls < MaxCalls
  /\ \E c \in Calls :
       LET start == CASE c.op = "create" -> "get_cs"
                      [] c.op = "dropcl" -> "dcl_get_cs"
                      [] c.op = "dropcs" -> "drop_cs"
                      [] c.op = "rename" -> "ren_get_cs"
       IN
       sess' = [sess EXCEPT ![s] =
                  [op |-> c.op, cl |-> c.cl, cl2 |-> c.cl2,
                   pc |-> start, restart |-> start, retries |-> RetryTimes,
                   newCs |-> FALSE, newCl |-> FALSE, csSet |-> FALSE,
                   comp |-> FALSE, err |-> "OK", result |-> "OK",
                   sawErr |-> FALSE, disturbed |-> FALSE,
                   pre |-> c.op # "rename"
                           \/ (csExists /\ c.cl \in cls /\ c.cl2 \notin cls),
                   calls |-> sess[s].calls + 1]]
  /\ UNCHANGED <<csExists, cls, faults, acked>>

(* The call returns to its caller.  A drop run as create_cl's            *)
(* compensation returns, instead, the error create_cl is returning.       *)
Return(l, rc) ==
  [l EXCEPT !.pc = "done", !.result = IF l.comp THEN l.err ELSE rc]

(* Sdb_conn::retry after a failed attempt of the function it wraps:      *)
(* reconnect and call again on a network error while budget remains,      *)
(* otherwise return the error.                                              *)
RetryError(l, rc) ==
  IF rc = "NET" /\ l.retries > 0
  THEN [l EXCEPT !.retries = @ - 1, !.pc = "reconnect"]
  ELSE Return(l, rc)

(* create_cl's compensation: drop the collection space if this call      *)
(* created it, else the collection if this call created it, each through  *)
(* Sdb_conn::retry, whose own error is ignored.                             *)
Compensate(l, rc) ==
  IF l.newCs
  THEN [l EXCEPT !.newCs = FALSE, !.newCl = FALSE, !.comp = TRUE, !.err = rc,
                 !.retries = RetryTimes, !.restart = "drop_cs",
                 !.pc = "drop_cs"]
  ELSE IF l.newCl
  THEN [l EXCEPT !.newCl = FALSE, !.comp = TRUE, !.err = rc,
                 !.retries = RetryTimes, !.restart = "dcl_get_cs",
                 !.pc = "dcl_get_cs"]
  ELSE Return(l, rc)

\* Mutant of CreateError: the budget tested as retry_times-- >= 0.
CreateErrorOffByOne(l, rc) ==
  IF rc = "NET" /\ l.retries >= 0
  THEN [l EXCEPT !.retries = @ - 1, !.pc = "reconnect"]
  ELSE Compensate(l, rc)

(* The error label of create_cl: reconnect and goto retry on a network   *)
(* error while budget remains, otherwise compensate.                      *)
CreateError(l, rc) ==
  IF rc = "NET" /\ l.retries > 0
  THEN [l EXCEPT !.retries = @ - 1, !.pc = "reconnect"]
  ELSE Compensate(l, rc)

\* The locals after a reply that was an injected server error.
Saw(l, o) == IF o = "err" THEN [l EXCEPT !.sawErr = TRUE] ELSE l

(* One round trip of session s: when it changes the catalog, apply the   *)
(* effect and mark the other calls in progress as disturbed; the session  *)
(* continues with locals l2.                                               *)
Step(s, changes, effect, l2) ==
  IF changes
  THEN effect /\ sess' = [Disturb(s) EXCEPT ![s] = l2]
  ELSE UNCHANGED <<csExists, cls>> /\ sess' = [sess EXCEPT ![s] = l2]

-----------------------------------------------------------------------------
(* Sdb_conn::create_cl.  retry: getCollectionSpace; on CS_NOTEXIST,      *)
(* createCollectionSpace.                                                   *)
CreateGetCs(s) ==
  LET l == sess[s] IN
  /\ l.pc = "get_cs"
  /\ \E o \in {"ok", "net", "err"} :
       /\ Possible(o) /\ CountFault(o)
       /\ LET rc == RcOf(o, GetCsRc) IN
          sess' = [sess EXCEPT ![s] =
                     CASE rc = "OK" -> [l EXCEPT !.csSet = TRUE,
                                                 !.pc = "create_cl"]
                       [] rc = "CS_NOTEXIST" -> [l EXCEPT !.pc = "create_cs"]
                       [] OTHER -> CreateError(Saw(l, o), rc)]
  /\ UNCHANGED <<csExists, cls, acked>>

(* createCollectionSpace: on OK the call owns a new collection space; on *)
(* CS_EXIST it goes on with the cs handle left as it was.                  *)
CreateCs(s) ==
  LET l == sess[s] IN
  /\ l.pc = "create_cs"
  /\ \E o \in Outcomes :
       /\ Possible(o) /\ CountFault(o)
       /\ LET rc == RcOf(o, CreateCsRc) IN
          Step(s, Applied(o) /\ ~csExists, DoCreateCs,
               CASE rc = "OK" -> [l EXCEPT !.newCs = TRUE, !.csSet = TRUE,
                                           !.pc = "create_cl"]
                 [] rc = "CS_EXIST" -> [l EXCEPT !.pc = "create_cl"]
                 [] OTHER -> CreateError(Saw(l, o), rc))
  /\ UNCHANGED acked

(* cs.createCollection: EXIST fetches the existing collection, a vanished *)
(* collection space is created again before goto retry, OK returns with   *)
(* new_cl.  A cs handle that was never set (or belongs to a closed        *)
(* connection) fails inside the driver, with an error code the sources    *)
(* do not fix: network or other.                                            *)
CreateCl(s) ==
  LET l == sess[s] IN
  /\ l.pc = "create_cl"
  /\ \/ /\ ~l.csSet
        /\ \E rc \in {"NET", "ERR"} : sess' = [sess EXCEPT ![s] = CreateError(l, rc)]
        /\ UNCHANGED <<csExists, cls, faults, acked>>
     \/ /\ l.csSet
        /\ \E o \in Outcomes :
             /\ Possible(o) /\ CountFault(o)
             /\ LET rc == RcOf(o, CreateClRc(l.cl)) IN
                /\ Step(s, Applied(o) /\ CreateClRc(l.cl) = "OK",
                        cls' = cls \cup {l.cl} /\ UNCHANGED csExists,
                        CASE rc = "EXIST" -> [l EXCEPT !.pc = "get_cl"]
                          [] rc = "CS_NOTEXIST" -> [l EXCEPT !.pc = "create_cs2"]
                          [] rc = "OK" -> Return([l EXCEPT !.newCl = TRUE], "OK")
                          [] OTHER -> CreateError(Saw(l, o), rc))
                /\ acked' = IF rc = "OK" THEN acked \cup {l.cl} ELSE acked

\* cs.getCollection after EXIST; its error is not retried unless network.
CreateGetCl(s) ==
  LET l == sess[s] IN
  /\ l.pc = "get_cl"
  /\ \E o \in {"ok", "net", "err"} :
       /\ Possible(o) /\ CountFault(o)
       /\ LET rc == RcOf(o, GetClRc(l.cl)) IN
          /\ sess' = [sess EXCEPT ![s] =
                        IF rc = "OK" THEN Return(l, "OK")
                        ELSE CreateError(Saw(l, o), rc)]
          /\ acked' = IF rc = "OK" THEN acked \cup {l.cl} ELSE acked
  /\ UNCHANGED <<csExists, cls>>

(* createCollectionSpace after createCollection found no collection     *)
(* space: OK or CS_EXIST goto retry, any other error goto error.          *)
CreateCs2(s) ==
  LET l == sess[s] IN
  /\ l.pc = "create_cs2"
  /\ \E o \in Outcomes :
       /\ Possible(o) /\ CountFault(o)
       /\ LET rc == RcOf(o, CreateCsRc) IN
          Step(s, Applied(o) /\ ~csExists, DoCreateCs,
               CASE rc = "OK" -> [l EXCEPT !.newCs = TRUE, !.csSet = TRUE,
                                           !.pc = "get_cs"]
                 [] rc = "CS_EXIST" -> [l EXCEPT !.pc = "get_cs"]
                 [] OTHER -> CreateError(Saw(l, o), rc))
  /\ UNCHANGED acked

(* The connect() of a retry: on success call again from the restart     *)
(* point with fresh handles; on failure create_cl compensates and the    *)
(* wrapped calls return the network error.                                 *)
Reconnect(s) ==
  LET l == sess[s] IN
  /\ l.pc = "reconnect"
  /\ \E ok \in BOOLEAN :
       /\ ok \/ faults < MaxFaults
       /\ faults' = faults + (IF ok THEN 0 ELSE 1)
       /\ sess' = [sess EXCEPT ![s] =
                     IF ok THEN [l EXCEPT !.csSet = FALSE, !.pc = l.restart]
                     ELSE IF l.op = "create" /\ ~l.comp
                     THEN Compensate(l, "NET")
                     ELSE Return(l, "NET")]
  /\ UNCHANGED <<csExists, cls, acked>>

-----------------------------------------------------------------------------
\* Mutant of DropClOk: SDB_DMS_NOTEXIST not mapped to success.
DropClOkStrict(rc) == rc = "OK"

\* conn_drop_cl treats a collection that does not exist as dropped.
DropClOk(rc) == rc \in {"OK", "NOTEXIST"}

(* conn_drop_cl: getCollectionSpace; a missing collection space is       *)
(* success.                                                                 *)
DropClGetCs(s) ==
  LET l == sess[s] IN
  /\ l.pc = "dcl_get_cs"
  /\ \E o \in {"ok", "net", "err"} :
       /\ Possible(o) /\ CountFault(o)
       /\ LET rc == RcOf(o, GetCsRc) IN
          sess' = [sess EXCEPT ![s] =
                     CASE rc = "OK" -> [l EXCEPT !.pc = "dcl_drop"]
                       [] rc = "CS_NOTEXIST" -> Return(l, "OK")
                       [] OTHER -> RetryError(Saw(l, o), rc)]
  /\ UNCHANGED <<csExists, cls, acked>>

\* cs.dropCollection: a missing collection is success.
DropClDrop(s) ==
  LET l == sess[s] IN
  /\ l.pc = "dcl_drop"
  /\ \E o \in Outcomes :
       /\ Possible(o) /\ CountFault(o)
       /\ LET r == GetClRc(l.cl)
              rc == RcOf(o, r)
              changes == Applied(o) /\ r = "OK"
          IN
          /\ Step(s, changes, cls' = cls \ {l.cl} /\ UNCHANGED csExists,
                  IF DropClOk(rc) THEN Return(l, "OK")
                  ELSE RetryError(Saw(l, o), rc))
          /\ acked' = IF changes /\ ~l.comp THEN acked \ {l.cl} ELSE acked

\* conn_drop_cs: dropCollectionSpace; a missing collection space is success.
DropCs(s) ==
  LET l == sess[s] IN
  /\ l.pc = "drop_cs"
  /\ \E o \in Outcomes :
       /\ Possible(o) /\ CountFault(o)
       /\ LET rc == RcOf(o, "OK")
              changes == Applied(o) /\ csExists
          IN
          /\ Step(s, changes, DoDropCs,
                  IF rc = "OK" THEN Return(l, "OK") ELSE RetryError(Saw(l, o), rc))
          /\ acked' = IF changes /\ ~l.comp THEN {} ELSE acked

\* conn_rename_cl: getCollectionSpace, then renameCollection.
RenameGetCs(s) ==
  LET l == sess[s] IN
  /\ l.pc = "ren_get_cs"
  /\ \E o \in {"ok", "net", "err"} :
       /\ Possible(o) /\ CountFault(o)
       /\ LET rc == RcOf(o, GetCsRc) IN
          sess' = [sess EXCEPT ![s] =
                     IF rc = "OK" THEN [l EXCEPT !.pc = "ren_do"]
                     ELSE RetryError(Saw(l, o), rc)]
  /\ UNCHANGED <<csExists, cls, acked>>

RenameDo(s) ==
  LET l == sess[s] IN
  /\ l.pc = "ren_do"
  /\ \E o \in Outcomes :
       /\ Possible(o) /\ CountFault(o)
       /\ LET r == RenameRc(l.cl, l.cl2)
              rc == RcOf(o, r)
              changes == Applied(o) /\ r = "OK"
          IN
          /\ Step(s, changes,
                  cls' = (cls \ {l.cl}) \cup {l.cl2} /\ UNCHANGED csExists,
                  IF rc = "OK" THEN Return(l, "OK") ELSE RetryError(Saw(l, o), rc))
          /\ acked' = IF changes
                      THEN (acked \ {l.cl, l.cl2})
                             \cup (IF l.cl \in acked THEN {l.cl2} ELSE {})
                      ELSE acked

-----------------------------------------------------------------------------
(* Any catalog the cluster may hold; every session at rest.               *)
Init ==
  /\ csExists \in BOOLEAN
  /\ cls \in IF csExists THEN SUBSET ClNames ELSE {{}}
  /\ sess = [s \in Sessions |->
               [op |-> "none", cl |-> "none", cl2 |-> "none", pc |-> "idle",
                restart |-> "none", retries |-> RetryTimes, newCs |-> FALSE,
                newCl |-> FALSE, csSet |-> FALSE, comp |-> FALSE,
                err |-> "OK", result |-> "OK", sawErr |-> FALSE,
                disturbed |-> FALSE, pre |-> TRUE, calls |-> 0]]
  /\ faults = 0
  /\ acked = {}

\* Every session has made its calls.
Finished ==
  /\ \A s \in Sessions : sess[s].pc \in {"idle", "done"}
                          /\ sess[s].calls = MaxCalls
  /\ UNCHANGED vars

Next ==
  \/ \E s \in Sessions :
       \/ Call(s) \/ Reconnect(s)
       \/ CreateGetCs(s) \/ CreateCs(s) \/ CreateCl(s) \/ CreateGetCl(s)
       \/ CreateCs2(s)
       \/ DropClGetCs(s) \/ DropClDrop(s) \/ DropCs(s)
       \/ RenameGetCs(s) \/ RenameDo(s)
  \/ Finished

Spec == Init /\ [][Next]_vars

-----------------------------------------------------------------------------
PCs == {"idle", "done", "get_cs", "create_cs", "create_cl", "get_cl",
        "create_cs2", "reconnect", "dcl_get_cs", "dcl_drop", "drop_cs",
        "ren_get_cs", "ren_do"}

TypeOK ==
  /\ csExists \in BOOLEAN /\ cls \subseteq ClNames
  /\ ~csExists => cls = {}
  /\ faults \in 0 .. MaxFaults
  /\ acked \subseteq ClNames
  /\ \A s \in Sessions :
       /\ sess[s].op \in Ops \cup {"none"}
       /\ sess[s].pc \in PCs /\ sess[s].restart \in PCs \cup {"none"}
       /\ sess[s].retries \in 0 .. RetryTimes
       /\ sess[s].err \in RCs /\ sess[s].result \in RCs
       /\ sess[s].calls \in 0 .. MaxCalls

(* A call of one of the operations O, on arguments valid when it started, *)
(* fails only when a fault reached it: a server error, the reconnect      *)
(* budget exhausted or a failed connect (both returned as a network       *)
(* error), or a concurrent change to the catalog.  In particular a        *)
(* request the server applied but whose reply was lost, and then re-run   *)
(* after the reconnect, must not turn into an error.                       *)
FailsOnlyOnFault(O) ==
  \A s \in Sessions :
    LET l == sess[s] IN
    l.pc = "done" /\ l.op \in O /\ l.pre /\ ~l.sawErr /\ ~l.disturbed
      => l.result \in {"OK", "NET"}

(* create_cl, drop_cl and drop_cs absorb lost replies: a re-run create   *)
(* finds EXIST and fetches the collection, a re-run drop finds NOTEXIST  *)
(* and reports success.                                                     *)
CreateDropIdempotent == FailsOnlyOnFault({"create", "dropcl", "dropcs"})

(* rename_cl absorbs a lost reply the same way: a re-run rename of a      *)
(* collection the server has already renamed does not fail.               *)
RenameIdempotent == FailsOnlyOnFault({"rename"})

(* create_cl's compensation undoes only this call's own work: a          *)
(* collection whose create_cl returned OK survives until a drop or rename *)
(* call removes it.                                                         *)
CompensationSparesOthers ==
  acked \subseteq (IF csExists THEN cls ELSE {})

=============================================================================
