---------------------------- MODULE MCExperiment ----------------------------
(***************************************************************************)
(* Small instances of Experiment: three songs, the last with two tracks.   *)
(* Either every track has one of three verdicts, or one of two scores and  *)
(* another checkout judges one track anew, or the first has any score of   *)
(* up to two notes and all others are rejected.                            *)
(***************************************************************************)
EXTENDS Experiment

MCTracks == <<1, 1, 2>>
MCRank == [c \in Candidate |-> CASE c = <<1, 1>> -> 3 [] c = <<2, 1>> -> 1
                                 [] c = <<3, 1>> -> 4 [] c = <<3, 2>> -> 2]

Short == <<Note(0, 1)>>
Long  == <<Note(0, 2), Note(5, 1), Note(5, 2)>>

Plain == [Candidate -> {Reject, Short, Long}]

Same(v) == [k \in {1} |-> v]

Notes == {Note(onset, duration) : onset \in 0 .. 5, duration \in 1 .. 3}

OneScore(score) == [c \in Candidate |-> IF c = <<1, 1>> THEN score ELSE Reject]

MCVerdicts ==
    {Same(v) : v \in Plain} \cup
    {[k \in 1 .. 2 |-> IF k = 1 THEN v ELSE [v EXCEPT ![<<2, 1>>] = Reject]] :
        v \in [Candidate -> {Short, Long}]} \cup
    {Same(OneScore(<<m>>)) : m \in Notes} \cup
    {Same(OneScore(<<m, n>>)) : <<m, n>> \in {p \in Notes \X Notes : p[1].onset <= p[2].onset}}
=============================================================================
