---------------------------- MODULE MCNasCleanup ----------------------------
(***************************************************************************)
(* Small instances of NasArchive with its clean-up.  Two objects share a   *)
(* pack, the third is large in its first version and small in its second;  *)
(* rewriting the first keeps its size, rewriting the second does not.  The *)
(* folder holds one file, which may change its size.                       *)
(***************************************************************************)
EXTENDS NasCleanup

CONSTANTS w1, w2, f1

MCShare == <<w1, w1, w2>>
MCSize == << <<1, 1>>, <<2, 1>>, <<4, 2>> >>
MCInitial == {<<1, 1, 1>>}
MCPackRank == [ks \in SUBSET Keys |-> 4 * Cardinality(ks) + (IF 2 \in ks THEN 0 ELSE 1)]
MCExpected == [f \in File |-> 1]
=============================================================================
