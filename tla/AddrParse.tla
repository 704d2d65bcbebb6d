------------------------------ MODULE AddrParse ------------------------------
(***************************************************************************)
(* What the specification promises of the address parser, as one atomic   *)
(* step: split the string on commas, drop empty tokens, accept at most    *)
(* CoordNumMax tokens, and fail -- returning no addresses -- when the     *)
(* input is NULL or empty, when an accepted token has no colon, or when   *)
(* memory runs out.  AddrParser, the parse loop of the code, implements   *)
(* it.                                                                      *)
(***************************************************************************)
EXTENDS Integers, Sequences, SequencesExt

CONSTANTS CoordNumMax, MaxLen, Null

Chars == {"h", ":", ","}
Inputs == {Null} \cup BoundedSeq(Chars, MaxLen)

VARIABLES in, addrs, rc, oom, pc

(* The reference parse, from the specification: split on commas, drop    *)
(* empty tokens, accept at most CoordNumMax tokens, and fail when an      *)
(* accepted token has no colon.                                            *)
RECURSIVE SplitAtComma(_)
SplitAtComma(s) ==
  LET k == SelectInSeq(s, LAMBDA x : x = ",")
  IN IF k = 0 THEN <<s>>
     ELSE <<SubSeq(s, 1, k - 1)>> \o SplitAtComma(SubSeq(s, k + 1, Len(s)))

RefTokens(s) == SelectSeq(SplitAtComma(s), LAMBDA t : t # <<>>)

RefAccepted(s) ==
  SubSeq(RefTokens(s), 1,
         IF Len(RefTokens(s)) < CoordNumMax THEN Len(RefTokens(s))
                                            ELSE CoordNumMax)

RefValid(s) ==
  /\ s # Null /\ s # <<>>
  /\ \A k \in 1 .. Len(RefAccepted(s)) : Contains(RefAccepted(s)[k], ":")

-----------------------------------------------------------------------------
Init ==
  /\ in \in Inputs
  /\ addrs = <<>> /\ rc = 0 /\ oom = FALSE
  /\ pc = "start"

(* The parse: the reference result, or a failure with no addresses when  *)
(* the input is not valid or an allocation fails.                          *)
Parse ==
  /\ pc = "start"
  /\ pc' = "parsed"
  /\ \/ /\ RefValid(in)
        /\ rc' = 0 /\ addrs' = RefAccepted(in) /\ oom' = FALSE
     \/ /\ rc' = -1 /\ addrs' = <<>>
        /\ oom' \in BOOLEAN
        /\ ~RefValid(in) \/ oom'
  /\ UNCHANGED in

Spec == Init /\ [][Parse]_<<in, addrs, rc, oom, pc>>

=============================================================================
