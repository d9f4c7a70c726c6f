----------------------- MODULE MCStreamConsolidation -----------------------
(***************************************************************************)
(* Small instances of StreamConsolidation: three shards, five streams and  *)
(* three hashes.                                                           *)
(***************************************************************************)
EXTENDS StreamConsolidation, TLC

CONSTANTS a, b, c

Symmetry == Permutations(Workspaces)

MCHash == {a, b, c}
MCStream == 1 .. 5

Good(s, h) == [shard |-> s, hash |-> h, receipt |-> "ACCEPT",
               historical |-> "ACCEPT", agrees |-> TRUE, scored |-> TRUE]

(* Shared hashes inside a shard and across shards; a false historical      *)
(* accept that the receipt rejects.                                        *)
Overlapping == <<Good(0, a), Good(0, a), Good(1, b), Good(1, a), Good(2, b)>>
Reclassified ==
    <<[Good(0, a) EXCEPT !.receipt = "REJECT"], Good(0, b), Good(1, a),
      [Good(2, b) EXCEPT !.historical = "REJECT"], Good(2, c)>>
(* Accepted by the receipt, rejected by the history: no score can be       *)
(* written if it is the first owner.                                       *)
Unscored == [Overlapping EXCEPT ![3].historical = "REJECT"]
(* The rows of the first shard withdrawn: what it is published again with. *)
Withdrawn == [Overlapping EXCEPT ![1].receipt = "REJECT", ![2].receipt = "REJECT"]
(* A historical accept without a decision, and a hash disagreement.        *)
Undecided == [Overlapping EXCEPT ![1].receipt = "NONE"]
Disagreeing == [Overlapping EXCEPT ![5].agrees = FALSE]

AllCorpora  == {Overlapping, Reclassified, Unscored, Undecided, Disagreeing,
                Withdrawn}
GoodCorpora == {Overlapping, [Reclassified EXCEPT ![4].historical = "ACCEPT"]}
=============================================================================
