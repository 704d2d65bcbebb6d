----------------------------- MODULE AddrParser -----------------------------
(***************************************************************************)
(* ha_sdb_conn_addrs::parse_conn_addrs (src/handler/ha_sdb_conf.cc), the  *)
(* parser of the sequoiadb_conn_addr system variable, and                  *)
(* sdb_conn_addr_validate, the check function MySQL runs on SET GLOBAL.    *)
(*                                                                         *)
(* Both callers (Sdb_conn::connect and sdb_conn_addr_validate) parse into  *)
(* a freshly constructed handle, so one behaviour is one parse of one      *)
(* input.  A string is a sequence of characters over a three-letter       *)
(* alphabet: a host/port character, ':' and ','.  The loop of the parser  *)
(* consumes one token per step.                                            *)
(***************************************************************************)
EXTENDS Integers, Sequences, SequencesExt

CONSTANTS
  CoordNumMax,   \* SDB_COORD_NUM_MAX (128 in the code; small in the model)
  MaxLen,        \* bound: length of the input strings
  Null           \* a NULL char pointer

ASSUME CoordNumMax \in Nat \ {0} /\ MaxLen \in Nat

Chars == {"h", ":", ","}
Inputs == {Null} \cup BoundedSeq(Chars, MaxLen)

VARIABLES
  in,      \* the conn_addr argument
  p,       \* the cursor p, an index into in
  addrs,   \* addrs[0 .. conn_num - 1], as a sequence of tokens
  rc,      \* the return code
  oom,     \* malloc returned NULL for a token
  saved,   \* sdb_conn_addr_validate: the value stored through save
  pc       \* "start", "loop", "parsed", "validated"

vars == <<in, p, addrs, rc, oom, saved, pc>>

\* strchr(&in[p], c): the index of the first c at or after p, 0 if none.
FindFrom(s, i, c) == SelectInSubSeq(s, i, Len(s), LAMBDA x : x = c)

-----------------------------------------------------------------------------
\* Mutant of NoInput: the test for the empty string forgotten.
NoInputNullOnly(s) == s = Null

\* NULL == conn_addr || 0 == strlen(conn_addr)
NoInput(s) == s = Null \/ s = <<>>

\* Mutant of AtCap: the cap tested with > instead of >=.
AtCapPastEnd(n) == n > CoordNumMax

\* The loop stops taking tokens once conn_num reaches SDB_COORD_NUM_MAX.
AtCap(n) == n >= CoordNumMax

\* Mutant of HostPortToken: a colon anywhere after p is accepted.
HostPortTokenAnyColon(comma, colon) == colon # 0

\* A non-empty token is accepted when a colon comes before the next comma.
HostPortToken(comma, colon) == colon # 0 /\ (comma = 0 \/ colon < comma)

\* ha_sdb_conn_addrs::ha_sdb_conn_addrs: conn_num = 0, every slot NULL.
Init ==
  /\ in \in Inputs
  /\ p = 1
  /\ addrs = <<>>
  /\ rc = 0
  /\ oom = FALSE
  /\ saved = Null
  /\ pc = "start"

(* Entry of parse_conn_addrs: a NULL or empty string is an error;         *)
(* otherwise clear_conn_addrs and enter the loop.                          *)
ParseStart ==
  /\ pc = "start"
  /\ \/ /\ NoInput(in)
        /\ rc' = -1
        /\ pc' = "parsed"
        /\ UNCHANGED addrs
     \/ /\ ~NoInput(in)
        /\ addrs' = <<>>                      \* clear_conn_addrs()
        /\ pc' = "loop"
        /\ UNCHANGED rc
  /\ UNCHANGED <<in, p, oom, saved>>

(* One iteration of the parse loop: stop at the cap; otherwise take the  *)
(* token up to the next comma; a non-empty token needs a colon before     *)
(* that comma, and is copied into a malloc'd slot; then step over the     *)
(* token and one comma.                                                     *)
ParseToken ==
  /\ pc = "loop" /\ p <= Len(in)
  /\ LET comma == FindFrom(in, p, ",")
         colon == FindFrom(in, p, ":")
         len == IF comma = 0 THEN Len(in) - p + 1 ELSE comma - p
         next == IF p + len <= Len(in) /\ in[p + len] = ","
                 THEN p + len + 1 ELSE p + len
     IN \/ /\ AtCap(Len(addrs))
           /\ pc' = "parsed"
           /\ UNCHANGED <<p, addrs, rc, oom>>
        \/ /\ ~AtCap(Len(addrs))
           /\ len = 0
           /\ p' = next
           /\ UNCHANGED <<addrs, rc, oom, pc>>
        \/ /\ ~AtCap(Len(addrs))
           /\ len > 0
           /\ ~HostPortToken(comma, colon)
           /\ rc' = -1
           /\ pc' = "parsed"
           /\ UNCHANGED <<p, addrs, oom>>
        \/ /\ ~AtCap(Len(addrs))
           /\ len > 0
           /\ HostPortToken(comma, colon)
           /\ \/ /\ addrs' = Append(addrs, SubSeq(in, p, p + len - 1))
                 /\ p' = next
                 /\ UNCHANGED <<rc, oom, pc>>
              \/ /\ rc' = -1                   \* malloc failed
                 /\ oom' = TRUE
                 /\ pc' = "parsed"
                 /\ UNCHANGED <<p, addrs>>
  /\ UNCHANGED <<in, saved>>

\* The loop ends at the terminating NUL.
ParseEnd ==
  /\ pc = "loop" /\ p > Len(in)
  /\ pc' = "parsed"
  /\ UNCHANGED <<in, p, addrs, rc, oom, saved>>

(* sdb_conn_addr_validate: MySQL stores the new value only when the parse *)
(* returned 0.                                                              *)
Validate ==
  /\ pc = "parsed"
  /\ saved' = IF rc = 0 THEN in ELSE Null
  /\ pc' = "validated"
  /\ UNCHANGED <<in, p, addrs, rc, oom>>

Next == ParseStart \/ ParseToken \/ ParseEnd \/ Validate

Spec == Init /\ [][Next]_vars

-----------------------------------------------------------------------------
TypeOK ==
  /\ in \in Inputs
  /\ p \in 1 .. MaxLen + 1
  /\ addrs \in Seq(Seq(Chars)) /\ Len(addrs) <= CoordNumMax
  /\ rc \in {0, -1}
  /\ oom \in BOOLEAN
  /\ saved \in Inputs
  /\ pc \in {"start", "loop", "parsed", "validated"}

(* The specification's parse, seen through the code: a failed parse     *)
(* is read as returning no addresses (the callers discard the handle),    *)
(* and the loop's steps are internal.                                      *)
Abs == INSTANCE AddrParse
         WITH addrs <- IF pc \in {"parsed", "validated"} /\ rc = 0
                       THEN addrs ELSE <<>>,
              pc <- IF pc \in {"start", "loop"} THEN "start" ELSE "parsed"

(* parse_conn_addrs implements the specification of the address parser:  *)
(* it succeeds exactly on the strings whose accepted tokens all carry a   *)
(* colon (unless memory runs out), and then returns those tokens in       *)
(* order, at most SDB_COORD_NUM_MAX of them.                               *)
ParseRefinesSpec == Abs!Spec

(* A value that SET GLOBAL sequoiadb_conn_addr accepts names at least one *)
(* coordinator: every later connect() parses it into a non-empty list.    *)
ValidatedAddrsNonEmpty ==
  pc = "validated" /\ saved # Null => addrs # <<>>

=============================================================================
