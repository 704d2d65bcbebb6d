---------------------------- MODULE SdbStatistics ----------------------------
(***************************************************************************)
(* Sdb_conn::get_cl_statistics (src/sdbwrapper/sdb_conn.cc): fetch the    *)
(* collection, open its detail cursor, and fold the per-node detail       *)
(* documents into totals normalised to the smallest page size.            *)
(*                                                                         *)
(* The cursor's documents are fixed when the cursor opens; one step reads *)
(* one document.  A document's Details array is empty or starts with the  *)
(* detail the code reads (it reads only the first element); a document    *)
(* the BSON accessors reject raises bson::assertion.                       *)
(***************************************************************************)
EXTENDS Integers, Sequences, SequencesExt

CONSTANTS
  PageSizes,      \* PageSize field values a node may report (0 = missing)
  PageCounts,     \* data and index page counts a node may report
  Amounts,        \* free space and record counts a node may report
  MaxDocs         \* bound: documents in the detail cursor

PAGE_SIZE_MIN == 4096
PAGE_SIZE_MAX == 65536

Details ==
  [kind : {"detail"}, ps : PageSizes, dp : PageCounts, ip : PageCounts,
   fs : Amounts, rec : Amounts]
\* A cursor document: a detail, no detail, or a malformed document.
Docs ==
  Details \cup [kind : {"nodetail", "malformed"}, ps : {0}, dp : {0},
                ip : {0}, fs : {0}, rec : {0}]

VARIABLES
  docs,      \* the documents the detail cursor returns, in order
  endRc,     \* what cursor.next returns after the last document
  pos,       \* the next document
  stats,     \* the Sdb_statistics being filled
  rc,        \* the return code
  pc         \* "get_cl", "get_detail", "loop", "done"

vars == <<docs, endRc, pos, stats, rc, pc>>

-----------------------------------------------------------------------------
(* The specification's aggregate: every contributing node's counts are    *)
(* rescaled from its page size to the smallest page size before summing;  *)
(* a missing page size counts as the largest.                              *)
NodePs(d) == IF d.ps = 0 THEN PAGE_SIZE_MAX ELSE d.ps
Contributing(ds) == SelectSeq(ds, LAMBDA d : d.kind = "detail")
RECURSIVE SumOf(_, _)
SumOf(f(_), ds) == IF ds = <<>> THEN 0 ELSE f(Head(ds)) + SumOf(f, Tail(ds))
RECURSIVE MinPs(_)
MinPs(ds) ==
  IF ds = <<>> THEN PAGE_SIZE_MAX
  ELSE LET m == MinPs(Tail(ds)) IN IF NodePs(Head(ds)) < m THEN NodePs(Head(ds)) ELSE m
RefStats(ds) ==
  LET c == Contributing(ds) IN
  [page_size |-> MinPs(c),
   total_data_pages |-> SumOf(LAMBDA d : d.dp * NodePs(d), c) \div MinPs(c),
   total_index_pages |-> SumOf(LAMBDA d : d.ip * NodePs(d), c) \div MinPs(c),
   total_data_free_space |-> SumOf(LAMBDA d : d.fs, c),
   total_records |-> SumOf(LAMBDA d : d.rec, c)]

-----------------------------------------------------------------------------
Zero == [page_size |-> 0, total_data_pages |-> 0, total_index_pages |-> 0,
         total_data_free_space |-> 0, total_records |-> 0]

\* Any cursor the cluster may return, and a caller's untouched statistics.
Init ==
  /\ docs \in BoundedSeq(Docs, MaxDocs)
  /\ endRc \in {"EOC", "ERR"}
  /\ pos = 1
  /\ stats = Zero
  /\ rc = "OK"
  /\ pc = "get_cl"

\* get_cl(cs_name, cl_name, cl); an error goes to the error label.
GetCl ==
  /\ pc = "get_cl"
  /\ \E r \in {"OK", "ERR"} :
       /\ rc' = r
       /\ pc' = IF r = "OK" THEN "get_detail" ELSE "done"
  /\ UNCHANGED <<docs, endRc, pos, stats>>

(* cl.get_detail(cursor); on success reset the statistics: the page size *)
(* to PAGE_SIZE_MAX, every total to 0.                                     *)
GetDetail ==
  /\ pc = "get_detail"
  /\ \/ /\ rc' = "OK"
        /\ stats' = [Zero EXCEPT !.page_size = PAGE_SIZE_MAX]
        /\ pc' = "loop"
     \/ /\ rc' = "ERR"
        /\ pc' = "done"
        /\ UNCHANGED stats
  /\ UNCHANGED <<docs, endRc, pos>>

\* Mutant of FixPageSize: a missing page size kept as 0.
FixPageSizeMissing(ps) == ps

\* A page size of 0 (the field missing) is taken as PAGE_SIZE_MAX.
FixPageSize(ps) == IF ps = 0 THEN PAGE_SIZE_MAX ELSE ps

\* Mutant of Accumulate: the node's pages summed without rescaling.
AccumulateRaw(s, d, ps) ==
  [s EXCEPT !.page_size = IF ps < @ THEN ps ELSE @,
            !.total_data_pages = @ + d.dp,
            !.total_index_pages = @ + d.ip,
            !.total_data_free_space = @ + d.fs,
            !.total_records = @ + d.rec]

(* One detail into the running totals: track the smallest page size and  *)
(* add the node's pages in PAGE_SIZE_MIN units.                            *)
Accumulate(s, d, ps) ==
  [s EXCEPT !.page_size = IF ps < @ THEN ps ELSE @,
            !.total_data_pages = @ + d.dp * (ps \div PAGE_SIZE_MIN),
            !.total_index_pages = @ + d.ip * (ps \div PAGE_SIZE_MIN),
            !.total_data_free_space = @ + d.fs,
            !.total_records = @ + d.rec]

(* One iteration of while (!(rc = cursor.next(obj))): skip a document    *)
(* without details; a malformed one aborts with SDB_SYS; otherwise fix a  *)
(* zero page size to PAGE_SIZE_MAX and accumulate.                         *)
NextDoc ==
  /\ pc = "loop" /\ pos <= Len(docs)
  /\ LET d == docs[pos] IN
     \/ /\ d.kind = "nodetail"
        /\ pos' = pos + 1
        /\ UNCHANGED <<stats, rc, pc>>
     \/ /\ d.kind = "malformed"
        /\ rc' = "SYS"
        /\ pc' = "done"
        /\ UNCHANGED <<pos, stats>>
     \/ /\ d.kind = "detail"
        /\ stats' = Accumulate(stats, d, FixPageSize(d.ps))
        /\ pos' = pos + 1
        /\ UNCHANGED <<rc, pc>>
  /\ UNCHANGED <<docs, endRc>>

(* The cursor ends: SDB_DMS_EOC is success and the totals are divided    *)
(* down to the smallest page size; any other error is returned.           *)
CursorEnd ==
  /\ pc = "loop" /\ pos > Len(docs)
  /\ pc' = "done"
  /\ \/ /\ endRc = "EOC"
        /\ rc' = "OK"
        /\ stats' = [stats EXCEPT
                       !.total_data_pages =
                          @ \div (stats.page_size \div PAGE_SIZE_MIN),
                       !.total_index_pages =
                          @ \div (stats.page_size \div PAGE_SIZE_MIN)]
     \/ /\ endRc = "ERR"
        /\ rc' = "ERR"
        /\ UNCHANGED stats
  /\ UNCHANGED <<docs, endRc, pos>>

\* The call has returned.
Returned == pc = "done" /\ UNCHANGED vars

Next == GetCl \/ GetDetail \/ NextDoc \/ CursorEnd \/ Returned

Spec == Init /\ [][Next]_vars

-----------------------------------------------------------------------------
TypeOK ==
  /\ docs \in Seq(Docs) /\ Len(docs) <= MaxDocs
  /\ pos \in 1 .. MaxDocs + 1
  /\ stats.page_size \in PageSizes \cup {PAGE_SIZE_MAX}
  /\ pc = "loop" => stats.page_size \in (PageSizes \ {0}) \cup {PAGE_SIZE_MAX}
  /\ rc \in {"OK", "ERR", "SYS"}
  /\ pc \in {"get_cl", "get_detail", "loop", "done"}

(* get_cl_statistics returns OK exactly when the collection, its detail  *)
(* cursor and every document could be read, and then its statistics are  *)
(* the specification's aggregate of the detail stream.                     *)
StatsMatchSpec ==
  pc = "done" =>
    /\ rc = "OK" => stats = RefStats(docs)
    /\ rc = "OK" => endRc = "EOC" /\ pos > Len(docs)

=============================================================================
