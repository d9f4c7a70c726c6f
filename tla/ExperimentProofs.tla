-------------------------- MODULE ExperimentProofs --------------------------
(***************************************************************************)
(* Proofs about Experiment, for any songs, tracks, verdicts and bounds:    *)
(* type correctness, that a recorded score is stored, that a score trains  *)
(* once, that the windows of a snapshot are those of the projection, that  *)
(* no split divides a family, and that every reader of a bar hears what    *)
(* the score sounds in it.                                                 *)
(***************************************************************************)
EXTENDS Experiment, FiniteSetTheorems, WellFoundedInduction, TLAPS

(* Candidates are numbered by song and track.                              *)
LEMMA CandidateShape ==
    /\ \A c \in Candidate : /\ c = <<c[1], c[2]>> /\ c[1] \in Song /\ c[1] \in Nat \ {0}
                            /\ c[2] \in Nat \ {0} /\ c[2] <= Tracks[c[1]]
    /\ \A s \in Song, t \in Nat \ {0} : t <= Tracks[s] => <<s, t>> \in Candidate
    /\ \A s \in Song : Tracks[s] \in Nat
    /\ Song \subseteq Nat \ {0} /\ SongCount \in Song
<1>1. \A s \in Song : Tracks[s] \in Nat
  BY CountAssumption
<1>2. Song \subseteq Nat \ {0} /\ SongCount \in Song
  BY CountAssumption DEF Song
<1>3. ASSUME NEW c \in Candidate
      PROVE  /\ c = <<c[1], c[2]>> /\ c[1] \in Song /\ c[1] \in Nat \ {0}
             /\ c[2] \in Nat \ {0} /\ c[2] <= Tracks[c[1]]
  <2>1. PICK s \in Song : c \in {s} \X (1 .. Tracks[s])
    BY DEF Candidate
  <2>2. Tracks[s] \in Nat
    BY <1>1
  <2> QED BY <2>1, <2>2, <1>2
<1>4. ASSUME NEW s \in Song, NEW t \in Nat \ {0}, t <= Tracks[s]
      PROVE  <<s, t>> \in Candidate
  <2>1. t \in 1 .. Tracks[s]
    BY <1>1, <1>4
  <2>2. <<s, t>> \in {s} \X (1 .. Tracks[s])
    BY <2>1
  <2> QED BY <2>2 DEF Candidate
<1> QED BY <1>1, <1>2, <1>3, <1>4

(* The scores that Brick 3 may accept.                                     *)
Score == Results \ {Reject}

LEMMA ScoreFacts ==
    /\ None \notin Score /\ Reject \notin Score
    /\ \A x \in Score : IsScore(x)
<1>1. ASSUME NEW x \in Score
      PROVE  x # Reject /\ x # None /\ IsScore(x)
  <2>1. x # Reject /\ x \in Results
    BY DEF Score
  <2>a. PICK v \in Verdicts : x \in {v[k][c] : k \in DOMAIN v, c \in Candidate}
    BY <2>1 DEF Results
  <2>2. PICK k \in DOMAIN v, c \in Candidate : x = v[k][c]
    BY <2>a
  <2> QED BY <2>1, <2>2, VerdictAssumption, SentinelAssumption
<1> QED BY <1>1

LEMMA VerdictFacts ==
    ASSUME NEW v \in Verdicts, NEW k \in DOMAIN v, NEW c \in Candidate
    PROVE  /\ k \in Checkouts /\ v[k][c] # None
           /\ v[k][c] # Reject => v[k][c] \in Score
           /\ \A o \in Candidate \cup {None} :
                [score |-> v[k][c], owner |-> o, checkout |-> k] \in Record
<1>1. k \in Checkouts /\ v[k][c] # None
  BY VerdictAssumption, SentinelAssumption
<1>2. v[k][c] \in Results
  BY DEF Results
<1>3. v[k][c] # Reject => v[k][c] \in Score
  BY <1>2 DEF Score
<1>4. ASSUME NEW o \in Candidate \cup {None}
      PROVE  [score |-> v[k][c], owner |-> o, checkout |-> k] \in Record
  BY <1>1, <1>2 DEF Record
<1> QED BY <1>1, <1>3, <1>4

LEMMA RecordFacts ==
    ASSUME NEW r \in Record
    PROVE  /\ r # None /\ r.score # None
           /\ r.owner \in Candidate \cup {None} /\ r.checkout \in Checkouts
           /\ r.score # Reject => r.score \in Score
<1>1. r # None
  BY SentinelAssumption
<1>a. r.score \in Results
  BY DEF Record
<1>2. PICK v \in Verdicts : r.score \in {v[k][c] : k \in DOMAIN v, c \in Candidate}
  BY <1>a DEF Results
<1>3. PICK k \in DOMAIN v, c \in Candidate : r.score = v[k][c]
  BY <1>2
<1>4. r.score # None /\ (r.score # Reject => r.score \in Score)
  BY <1>3, VerdictFacts
<1> QED BY <1>1, <1>4 DEF Record

(* What Evaluate says of the candidate at hand.                            *)
Verdict == verdict[run.checkout][at]

Owner == IF Verdict = Reject THEN None
         ELSE IF Verdict \in DOMAIN seen THEN seen[Verdict] ELSE at

LEMMA EvaluateForm ==
    ASSUME Evaluate
    PROVE  /\ Working /\ at \in Candidate /\ at \notin run.existing
           /\ records' = [records EXCEPT ![at] =
                            [score |-> Verdict, owner |-> Owner, checkout |-> run.checkout]]
           /\ seen' = IF Owner = at THEN [x \in DOMAIN seen \cup {Verdict} |->
                                             IF x = Verdict THEN at ELSE seen[x]]
                      ELSE seen
           /\ batch' = IF Verdict = Reject THEN batch ELSE [batch EXCEPT ![at] = Verdict]
           /\ torn' = torn \ {at} /\ NextTrack
           /\ UNCHANGED <<verdict, database, progress, view, pc, run, snapshot, mixed, runs, kills>>
  BY DEF Evaluate, Verdict, Owner

-----------------------------------------------------------------------------
(* Types.                                                                  *)

DiskTyped ==
    /\ verdict \in Verdicts
    /\ records \in [Candidate -> Record \cup {None}]
    /\ database \in [Candidate -> Score \cup {None}]
    /\ progress \in {"none", "RUNNING", "COMPLETE"}
    /\ torn \subseteq Candidate /\ mixed \in BOOLEAN

RunTyped ==
    /\ batch \in [Candidate -> Score \cup {None}]
    /\ pc \in {"idle", "song"}
    /\ at \in (Nat \ {0}) \X (Nat \ {0})
    /\ run \in [resume : BOOLEAN, sample : BOOLEAN, songs : Song \cup {0}, checkout : Checkouts \cup {None},
                existing : SUBSET Candidate]
    /\ pc = "song" => run.songs \in Song /\ run.checkout \in DOMAIN verdict

SeenTyped == DOMAIN seen \subseteq Score /\ seen \in [DOMAIN seen -> Candidate]

TypeInv == DiskTyped /\ RunTyped /\ SeenTyped

LEMMA InitTypes == Init => TypeInv
<1> SUFFICES ASSUME Init PROVE TypeInv
  OBVIOUS
<1>1. NoRecords \in [Candidate -> {None}]
  BY DEF NoRecords
<1>a. NoRecords \in [Candidate -> Record \cup {None}] /\ NoRecords \in [Candidate -> Score \cup {None}]
  BY <1>1
<1>b. DiskTyped
  BY <1>a DEF Init, DiskTyped
<1>2. RunTyped
  BY <1>a DEF Init, RunTyped, Idle
<1>3. SeenTyped
  BY DEF Init, SeenTyped, NoOwners
<1> QED BY <1>b, <1>2, <1>3 DEF TypeInv

(* The owners that a resumed run finds are candidates of accepted records. *)
LEMMA LeastOf ==
    ASSUME NEW T, T \subseteq Nat, T # {}
    PROVE  \E k \in T : \A j \in T : k <= j
<1>1. PICK k \in T : \A j \in T : ~(<<j, k>> \in OpToRel(<, Nat))
  BY WFMin, NatLessThanWellFounded
<1>2. \A j \in T : ~(j < k)
  BY <1>1 DEF OpToRel
<1> QED BY <1>2

LEMMA FirstIn ==
    ASSUME NEW cs \in SUBSET Candidate, cs # {}
    PROVE  First(cs) \in cs
<1> DEFINE ranks == {Rank[c] : c \in cs}
<1>1. ranks \subseteq Nat /\ ranks # {}
  BY RankAssumption
<1>2. PICK k \in ranks : \A j \in ranks : k <= j
  BY <1>1, LeastOf
<1>3. \E c \in cs : \A d \in cs : Rank[c] <= Rank[d]
  BY <1>2
<1> QED BY <1>3 DEF First

LEMMA OwnersTyped ==
    ASSUME DiskTyped
    PROVE  /\ DOMAIN Owners(records) \subseteq Score
           /\ Owners(records) \in [DOMAIN Owners(records) -> Candidate]
           /\ \A x \in DOMAIN Owners(records) :
                Owners(records)[x] \in Unique(records) /\ records[Owners(records)[x]].score = x
           /\ \A c \in Unique(records) : records[c].score \in DOMAIN Owners(records)
<1>1. ASSUME NEW c \in Unique(records)
      PROVE  c \in Candidate /\ records[c] \in Record /\ records[c].score \in Score
  <2>1. c \in Candidate /\ records[c] # None /\ records[c].score # Reject
    BY DEF Unique, Accepted, Recorded
  <2>2. records[c] \in Record
    BY <2>1 DEF DiskTyped
  <2> QED BY <2>1, <2>2, RecordFacts
<1>2. DOMAIN Owners(records) = {records[c].score : c \in Unique(records)}
  BY DEF Owners
<1>3. ASSUME NEW x \in DOMAIN Owners(records)
      PROVE  Owners(records)[x] \in Unique(records) /\ records[Owners(records)[x]].score = x
  <2> DEFINE cs == {c \in Unique(records) : records[c].score = x}
  <2>1. Owners(records)[x] = First(cs)
    BY <1>2 DEF Owners
  <2>2. cs # {} /\ cs \in SUBSET Candidate
    BY <1>1, <1>2
  <2>3. First(cs) \in cs
    BY <2>2, FirstIn
  <2> QED BY <2>1, <2>3
<1>4. DOMAIN Owners(records) \subseteq Score
  BY <1>1, <1>2
<1>5. Owners(records) = [x \in DOMAIN Owners(records) |-> Owners(records)[x]]
  BY DEF Owners
<1>6. \A x \in DOMAIN Owners(records) : Owners(records)[x] \in Candidate
  BY <1>1, <1>3
<1> QED BY <1>1, <1>2, <1>3, <1>4, <1>5, <1>6

(* What each step leaves alone or sets is seen best one group at a time.   *)
LEMMA EvaluateTypes ==
    ASSUME TypeInv, Evaluate
    PROVE  TypeInv' /\ Verdict # None /\ Verdict \in Score \cup {Reject} /\ Owner \in Candidate \cup {None}
<1>1. /\ at \in Candidate /\ run.checkout \in DOMAIN verdict /\ verdict \in Verdicts
      /\ pc = "song" /\ run.checkout \in Checkouts
  BY VerdictFacts, EvaluateForm DEF TypeInv, DiskTyped, RunTyped, Working
<1>2. Verdict # None /\ Verdict \in Score \cup {Reject}
  BY <1>1, VerdictFacts DEF Verdict
<1>3. Owner \in Candidate \cup {None}
  BY <1>1 DEF Owner, TypeInv, SeenTyped
<1>4. [score |-> Verdict, owner |-> Owner, checkout |-> run.checkout] \in Record
  BY <1>1, <1>3, VerdictFacts DEF Verdict
<1>5. records' \in [Candidate -> Record \cup {None}]
  BY <1>1, <1>4, EvaluateForm DEF TypeInv, DiskTyped
<1>6. DiskTyped'
  BY <1>1, <1>5, EvaluateForm DEF TypeInv, DiskTyped
<1>7. batch' \in [Candidate -> Score \cup {None}]
  BY <1>1, <1>2, EvaluateForm DEF TypeInv, RunTyped
<1>8. at' \in (Nat \ {0}) \X (Nat \ {0})
  BY EvaluateForm DEF TypeInv, RunTyped, NextTrack
<1>9. RunTyped'
  BY <1>1, <1>7, <1>8, EvaluateForm DEF TypeInv, RunTyped
<1>10. SeenTyped'
  <2>1. CASE Owner = at
    <3>1. Verdict \in Score
      BY <1>1, <1>2, <2>1, SentinelAssumption DEF Owner
    <3>2. seen' = [x \in DOMAIN seen \cup {Verdict} |-> IF x = Verdict THEN at ELSE seen[x]]
      BY <2>1, EvaluateForm
    <3>3. DOMAIN seen' = DOMAIN seen \cup {Verdict}
      BY <3>2
    <3>4. \A x \in DOMAIN seen' : seen'[x] \in Candidate
      BY <1>1, <3>2 DEF TypeInv, SeenTyped
    <3>5. seen' = [x \in DOMAIN seen' |-> seen'[x]]
      BY <3>2
    <3> QED BY <3>1, <3>3, <3>4, <3>5 DEF TypeInv, SeenTyped
  <2>2. CASE Owner # at
    BY <2>2, EvaluateForm DEF TypeInv, SeenTyped
  <2> QED BY <2>1, <2>2
<1> QED BY <1>2, <1>3, <1>6, <1>9, <1>10 DEF TypeInv

LEMMA EndTypes ==
    ASSUME End
    PROVE  /\ UNCHANGED verdict /\ DiskTyped' => TypeInv'
           /\ pc' = "idle" /\ at' = <<1, 1>> /\ batch' = NoRecords /\ run' = Idle
<1>1. NoRecords \in [Candidate -> Score \cup {None}]
  BY DEF NoRecords
<1>2. RunTyped'
  BY <1>1 DEF End, RunTyped, Idle
<1>3. SeenTyped'
  BY DEF End, SeenTyped, NoOwners
<1> QED BY <1>2, <1>3 DEF TypeInv, End

LEMMA StepTypes == TypeInv /\ [Next]_vars => TypeInv'
<1> SUFFICES ASSUME TypeInv, [Next]_vars PROVE TypeInv'
  OBVIOUS
<1>1. ASSUME NEW resume \in BOOLEAN, NEW sample \in BOOLEAN, NEW songs \in Song, NEW checkout \in Checkouts,
             Start(resume, sample, songs, checkout)
      PROVE  TypeInv'
  <2>1. DiskTyped'
    BY <1>1 DEF Start, disk, TypeInv, DiskTyped
  <2>2. Recorded(records) \subseteq Candidate
    BY DEF Recorded
  <2>3. NoRecords \in [Candidate -> Score \cup {None}]
    BY DEF NoRecords
  <2>4. run' \in [resume : BOOLEAN, sample : BOOLEAN, songs : Song \cup {0}, checkout : Checkouts \cup {None},
                  existing : SUBSET Candidate]
    BY <1>1, <2>2 DEF Start
  <2>5. RunTyped'
    BY <1>1, <2>3, <2>4 DEF Start, RunTyped
  <2>6. SeenTyped'
    <3>1. seen' = IF resume THEN Owners(records) ELSE NoOwners
      BY <1>1 DEF Start
    <3>2. CASE resume
      BY <3>1, <3>2, OwnersTyped DEF SeenTyped, TypeInv
    <3>3. CASE ~resume
      BY <3>1, <3>3 DEF SeenTyped, NoOwners
    <3> QED BY <3>2, <3>3
  <2> QED BY <2>1, <2>5, <2>6 DEF TypeInv
<1>2. CASE Skip
  <2>1. DiskTyped' /\ SeenTyped'
    BY <1>2 DEF Skip, disk, TypeInv, DiskTyped, SeenTyped
  <2>2. at' \in (Nat \ {0}) \X (Nat \ {0})
    BY <1>2 DEF Skip, NextTrack, TypeInv, RunTyped
  <2> QED BY <1>2, <2>1, <2>2 DEF Skip, TypeInv, RunTyped
<1>3. CASE Evaluate
  BY <1>3, EvaluateTypes
<1>4. CASE Commit
  <2>1. Stored \in [Candidate -> Score \cup {None}]
    BY DEF Stored, TypeInv, DiskTyped, RunTyped
  <2>2. DiskTyped' /\ SeenTyped'
    BY <1>4, <2>1 DEF Commit, TypeInv, DiskTyped, SeenTyped
  <2>3. at' \in (Nat \ {0}) \X (Nat \ {0})
    BY <1>4 DEF Commit, TypeInv, RunTyped
  <2>4. NoRecords \in [Candidate -> Score \cup {None}]
    BY DEF NoRecords
  <2>5. RunTyped'
    BY <1>4, <2>3, <2>4 DEF Commit, TypeInv, RunTyped
  <2> QED BY <2>2, <2>5 DEF TypeInv
<1>5. CASE EndSample
  <2>1. DiskTyped'
    BY <1>5 DEF EndSample, disk, TypeInv, DiskTyped
  <2> QED BY <1>5, <2>1, EndTypes DEF EndSample
<1>6. CASE Finalize
  <2>1. progress' \in {progress, "COMPLETE"}
    BY <1>6 DEF Finalize
  <2>2. mixed' \in BOOLEAN
    BY <1>6 DEF Finalize, TypeInv, DiskTyped, RunTyped
  <2>3. DiskTyped'
    BY <1>6, <2>1, <2>2 DEF Finalize, TypeInv, DiskTyped
  <2> QED BY <1>6, <2>3, EndTypes DEF Finalize
<1>7. CASE Kill
  <2>1. DiskTyped'
    BY <1>7 DEF Kill, disk, TypeInv, DiskTyped
  <2> QED BY <1>7, <2>1, EndTypes DEF Kill
<1>8. CASE Build
  BY <1>8 DEF Build, disk, local, TypeInv, DiskTyped, RunTyped, SeenTyped
<1>9. CASE UNCHANGED vars
  BY <1>9 DEF vars, disk, local, TypeInv, DiskTyped, RunTyped, SeenTyped
<1> QED BY <1>1, <1>2, <1>3, <1>4, <1>5, <1>6, <1>7, <1>8, <1>9 DEF Next

LEMMA Types == Spec => []TypeInv
<1> QED BY InitTypes, StepTypes, PTL DEF Spec

(* Every variable holds a value of its kind.                               *)
THEOREM ExperimentTypes == Spec => []TypeOK
<1>1. TypeInv => TypeOK
  <2> SUFFICES ASSUME TypeInv PROVE TypeOK
    OBVIOUS
  <2>1. \A c \in Candidate : records[c] = None \/ records[c] \in Record
    BY DEF TypeInv, DiskTyped
  <2>2. DOMAIN database = Candidate /\ DOMAIN batch = Candidate
    BY DEF TypeInv, DiskTyped, RunTyped
  <2> QED BY <2>1, <2>2 DEF TypeInv, DiskTyped, RunTyped, TypeOK
<1> QED BY <1>1, Types, PTL

-----------------------------------------------------------------------------
(* Records and rows.                                                       *)

(* The open transaction holds scores of the song at hand, as recorded.     *)
BatchInv ==
    \A c \in Candidate : batch[c] # None =>
        /\ pc = "song" /\ records[c] # None /\ records[c].score = batch[c]
        /\ c[1] = at[1] /\ c[2] < at[2]

(* A run past its last song has committed it.                              *)
PlaceInv ==
    pc = "song" =>
        /\ at[1] > run.songs => at[2] = 1 /\ at[1] = run.songs + 1
        /\ at[1] > 1 => progress = "RUNNING"

RowInv == BatchInv /\ PlaceInv /\ RecordedIsStored

LEMMA NothingOpen ==
    ASSUME TypeInv, BatchInv, pc = "idle" \/ at[2] = 1
    PROVE  \A c \in Candidate : batch[c] = None
<1> SUFFICES ASSUME NEW c \in Candidate, batch[c] # None PROVE FALSE
  OBVIOUS
<1>1. pc = "song" /\ c[2] < at[2]
  BY DEF BatchInv
<1> QED BY <1>1, CandidateShape

(* A step that leaves records, database and torn alone and ends with no    *)
(* open transaction, when there was nothing in it.                         *)
LEMMA StoredStays ==
    ASSUME TypeInv, RowInv, pc = "idle" \/ at[2] = 1,
           batch' = NoRecords, records' = records, database' = database, torn' = torn
    PROVE  BatchInv' /\ RecordedIsStored'
<1>1. \A c \in Candidate : batch[c] = None /\ batch'[c] = None
  BY NothingOpen DEF RowInv, NoRecords
<1>2. BatchInv'
  BY <1>1 DEF BatchInv
<1>3. \A c \in Accepted(records) : c \in Candidate /\ records[c].score # None
  BY RecordFacts DEF Accepted, Recorded, TypeInv, DiskTyped
<1>4. \A c \in Accepted(records) : database[c] = records[c].score \/ c \in torn
  BY <1>1, <1>3 DEF RowInv, RecordedIsStored
<1>5. Accepted(records') = Accepted(records)
  OBVIOUS
<1>6. RecordedIsStored'
  BY <1>4 DEF RecordedIsStored, Accepted, Recorded
<1> QED BY <1>2, <1>6

LEMMA RowInit == Init => RowInv
<1> SUFFICES ASSUME Init PROVE RowInv
  OBVIOUS
<1>1. \A c \in Candidate : batch[c] = None /\ records[c] = None
  BY DEF Init, NoRecords
<1> QED BY <1>1 DEF Init, RowInv, BatchInv, PlaceInv, RecordedIsStored, Accepted, Recorded

LEMMA RowEvaluate ==
    ASSUME TypeInv, RowInv, Evaluate
    PROVE  RowInv'
<1>1. /\ at \in Candidate /\ pc = "song" /\ pc' = "song" /\ at[1] <= run.songs
      /\ at' = <<at[1], at[2] + 1>> /\ at[2] \in Nat /\ at[1] \in Nat
  BY EvaluateForm DEF Working, NextTrack, TypeInv, RunTyped
<1>2. Verdict # None
  BY EvaluateTypes
<1>3. ASSUME NEW c \in Candidate, c # at
      PROVE  records'[c] = records[c] /\ batch'[c] = batch[c] /\ (c \in torn' <=> c \in torn)
             /\ database'[c] = database[c]
  BY <1>1, <1>3, EvaluateForm DEF TypeInv, DiskTyped, RunTyped
<1>4. /\ records'[at] = [score |-> Verdict, owner |-> Owner, checkout |-> run.checkout]
      /\ records'[at] # None
  <2>1. records'[at] = [score |-> Verdict, owner |-> Owner, checkout |-> run.checkout]
    BY <1>1, EvaluateForm DEF TypeInv, DiskTyped
  <2>2. records'[at] \in Record \/ records'[at] = None
    BY <1>1, EvaluateTypes DEF TypeInv, DiskTyped
  <2>3. run.checkout \in DOMAIN verdict /\ verdict \in Verdicts
    BY <1>1 DEF TypeInv, DiskTyped, RunTyped
  <2>4. records'[at] \in Record
    BY <1>1, <2>1, <2>3, VerdictFacts, EvaluateTypes DEF Verdict
  <2> QED BY <2>1, <2>4, RecordFacts
<1>5. batch[at] = None
  <2> SUFFICES ASSUME batch[at] # None PROVE FALSE
    OBVIOUS
  <2>1. at[2] < at[2]
    BY <1>1 DEF RowInv, BatchInv
  <2> QED BY <1>1, <2>1
<1>6. batch'[at] = IF Verdict = Reject THEN None ELSE Verdict
  BY <1>1, <1>5, EvaluateForm DEF TypeInv, RunTyped
<1>7. BatchInv'
  <2> SUFFICES ASSUME NEW c \in Candidate, batch'[c] # None
               PROVE  /\ records'[c] # None /\ records'[c].score = batch'[c]
                      /\ c[1] = at'[1] /\ c[2] < at'[2]
    BY <1>1 DEF BatchInv
  <2>1. CASE c = at
    BY <2>1, <1>1, <1>4, <1>6
  <2>2. CASE c # at
    <3>1. records[c] # None /\ records[c].score = batch[c] /\ c[1] = at[1] /\ c[2] < at[2]
      BY <2>2, <1>3 DEF RowInv, BatchInv
    <3> QED BY <3>1, <2>2, <1>1, <1>3, CandidateShape
  <2> QED BY <2>1, <2>2
<1>8. PlaceInv'
  <2>1. run'.songs = run.songs /\ progress' = progress
    BY EvaluateForm
  <2>2. run.songs \in Nat
    BY <1>1, CandidateShape DEF TypeInv, RunTyped
  <2> QED BY <1>1, <2>1, <2>2 DEF PlaceInv, RowInv
<1>9. RecordedIsStored'
  <2> SUFFICES ASSUME NEW c \in Candidate, records'[c] # None, records'[c].score # Reject
               PROVE  \/ database'[c] = records'[c].score \/ batch'[c] = records'[c].score
                      \/ c \in torn'
    BY DEF RecordedIsStored, Accepted, Recorded
  <2>1. CASE c = at
    BY <2>1, <1>4, <1>6
  <2>2. CASE c # at
    BY <2>2, <1>3 DEF RowInv, RecordedIsStored, Accepted, Recorded
  <2> QED BY <2>1, <2>2
<1> QED BY <1>7, <1>8, <1>9 DEF RowInv

LEMMA RowCommit ==
    ASSUME TypeInv, RowInv, Commit
    PROVE  RowInv'
<1>1. /\ at' = <<at[1] + 1, 1>> /\ at[1] \in Nat /\ run.songs \in Nat /\ at[1] <= run.songs
      /\ progress' = "RUNNING" /\ run' = run
  BY CandidateShape DEF Commit, Working, TypeInv, RunTyped
<1>2. PlaceInv'
  BY <1>1 DEF PlaceInv
<1>3. BatchInv'
  BY DEF Commit, BatchInv, NoRecords
<1>4. RecordedIsStored'
  <2> SUFFICES ASSUME NEW c \in Candidate, records[c] # None, records[c].score # Reject
               PROVE  database'[c] = records[c].score \/ c \in torn
    BY DEF Commit, RecordedIsStored, Accepted, Recorded
  <2>1. database'[c] = IF batch[c] # None THEN batch[c] ELSE database[c]
    BY DEF Commit, Stored
  <2>2. CASE batch[c] # None
    BY <2>1, <2>2 DEF RowInv, BatchInv
  <2>3. CASE batch[c] = None
    <3>1. records[c].score # None
      BY RecordFacts DEF TypeInv, DiskTyped
    <3>2. database[c] = records[c].score \/ batch[c] = records[c].score \/ c \in torn
      BY DEF RowInv, RecordedIsStored, Accepted, Recorded
    <3> QED BY <2>1, <2>3, <3>1, <3>2
  <2> QED BY <2>2, <2>3
<1> QED BY <1>2, <1>3, <1>4 DEF RowInv

LEMMA RowKill ==
    ASSUME TypeInv, RowInv, Kill
    PROVE  RowInv'
<1>1. PlaceInv' /\ BatchInv'
  BY DEF Kill, End, PlaceInv, BatchInv, NoRecords
<1>2. RecordedIsStored'
  <2> SUFFICES ASSUME NEW c \in Candidate, records[c] # None, records[c].score # Reject
               PROVE  database[c] = records[c].score \/ c \in torn'
    BY DEF Kill, disk, RecordedIsStored, Accepted, Recorded
  <2>1. records[c].score # None
    BY RecordFacts DEF TypeInv, DiskTyped
  <2>2. database[c] = records[c].score \/ batch[c] = records[c].score \/ c \in torn
    BY DEF RowInv, RecordedIsStored, Accepted, Recorded
  <2>3. batch[c] # None => c[1] = at[1]
    BY DEF RowInv, BatchInv
  <2> QED BY <2>1, <2>2, <2>3 DEF Kill
<1> QED BY <1>1, <1>2 DEF RowInv

LEMMA RowStep == TypeInv /\ RowInv /\ [Next]_vars => RowInv'
<1> SUFFICES ASSUME TypeInv, RowInv, [Next]_vars PROVE RowInv'
  OBVIOUS
<1>1. ASSUME NEW resume \in BOOLEAN, NEW sample \in BOOLEAN, NEW songs \in Song, NEW checkout \in Checkouts,
             Start(resume, sample, songs, checkout)
      PROVE  RowInv'
  <2>1. BatchInv' /\ RecordedIsStored'
    BY <1>1, StoredStays DEF Start, disk
  <2>2. PlaceInv'
    BY <1>1, CandidateShape DEF Start, PlaceInv
  <2> QED BY <2>1, <2>2 DEF RowInv
<1>2. CASE Skip
  <2>1. /\ pc = "song" /\ pc' = "song" /\ at' = <<at[1], at[2] + 1>> /\ run' = run /\ batch' = batch
        /\ records' = records /\ database' = database /\ progress' = progress /\ torn' = torn
        /\ at[1] <= run.songs /\ at[2] \in Nat /\ at[1] \in Nat /\ run.songs \in Nat
    BY <1>2, CandidateShape DEF Skip, Working, NextTrack, disk, TypeInv, RunTyped
  <2>2. BatchInv'
    <3> SUFFICES ASSUME NEW c \in Candidate, batch[c] # None
                 PROVE  /\ records[c] # None /\ records[c].score = batch[c]
                        /\ c[1] = at'[1] /\ c[2] < at'[2]
      BY <2>1 DEF BatchInv
    <3>1. records[c] # None /\ records[c].score = batch[c] /\ c[1] = at[1] /\ c[2] < at[2]
      BY DEF RowInv, BatchInv
    <3> QED BY <2>1, <3>1, CandidateShape
  <2>3. PlaceInv'
    BY <2>1 DEF RowInv, PlaceInv
  <2>4. RecordedIsStored'
    BY <2>1 DEF RowInv, RecordedIsStored, Accepted, Recorded
  <2> QED BY <2>2, <2>3, <2>4 DEF RowInv
<1>3. CASE Evaluate
  BY <1>3, RowEvaluate
<1>4. CASE Commit
  BY <1>4, RowCommit
<1>5. CASE EndSample \/ Finalize
  <2>1. at[2] = 1
    BY <1>5, CandidateShape, CountAssumption DEF EndSample, Finalize, RowInv, PlaceInv, TypeInv, RunTyped, Song
  <2>2. batch' = NoRecords /\ records' = records /\ database' = database /\ torn' = torn /\ pc' = "idle"
    BY <1>5 DEF EndSample, Finalize, End, disk
  <2>3. BatchInv' /\ RecordedIsStored'
    BY <2>1, <2>2, StoredStays
  <2> QED BY <2>2, <2>3 DEF RowInv, PlaceInv
<1>6. CASE Kill
  BY <1>6, RowKill
<1>7. CASE Build \/ UNCHANGED vars
  <2>1. UNCHANGED <<records, database, batch, pc, at, run, progress, torn>>
    BY <1>7 DEF Build, vars, disk, local
  <2> QED BY <2>1 DEF RowInv, BatchInv, PlaceInv, RecordedIsStored, Accepted, Recorded
<1> QED BY <1>1, <1>2, <1>3, <1>4, <1>5, <1>6, <1>7 DEF Next

LEMMA Rows == Spec => []RowInv
<1>1. Init => RowInv
  BY RowInit
<1> QED BY <1>1, RowStep, Types, PTL DEF Spec

(* An accepted record has its rows in the database, unless its song is     *)
(* under way or was cut off: a kill loses the rows of one song at most.    *)
THEOREM RecordsAreStored == Spec => []RecordedIsStored
<1>1. RowInv => RecordedIsStored
  BY DEF RowInv
<1> QED BY <1>1, Rows, PTL

-----------------------------------------------------------------------------
(* The order in which candidates are judged.                               *)

Precedes(c, d) == c[1] < d[1] \/ (c[1] = d[1] /\ c[2] < d[2])

LEMMA Ordered ==
    ASSUME NEW c \in Candidate, NEW d \in Candidate
    PROVE  /\ c = d \/ Precedes(c, d) \/ Precedes(d, c)
           /\ Precedes(c, d) => ~Precedes(d, c) /\ c # d
<1>1. /\ c = <<c[1], c[2]>> /\ c[1] \in Nat /\ c[2] \in Nat
      /\ d = <<d[1], d[2]>> /\ d[1] \in Nat /\ d[2] \in Nat
  BY CandidateShape
<1>2. c[1] = d[1] /\ c[2] = d[2] => c = d
  BY <1>1
<1> QED BY <1>1, <1>2 DEF Precedes

LEMMA Transitive ==
    ASSUME NEW c \in Candidate, NEW d \in Candidate, NEW e \in Candidate,
           Precedes(c, d), d = e \/ Precedes(d, e)
    PROVE  Precedes(c, e)
  BY CandidateShape DEF Precedes

(* The next candidate but one is the one behind the next.                  *)
LEMMA PassesOne ==
    ASSUME TypeInv, at \in Candidate, NEW c \in Candidate
    PROVE  Precedes(c, <<at[1], at[2] + 1>>) <=> c = at \/ Precedes(c, at)
<1>1. /\ c = <<c[1], c[2]>> /\ c[1] \in Nat /\ c[2] \in Nat
      /\ at = <<at[1], at[2]>> /\ at[1] \in Nat /\ at[2] \in Nat
  BY CandidateShape
<1>2. c[1] = at[1] /\ c[2] = at[2] <=> c = at
  BY <1>1
<1> QED BY <1>1, <1>2 DEF Precedes

(* Behind the last track of a song come those of the next.                 *)
LEMMA PassesSong ==
    ASSUME TypeInv, at \notin Candidate, at[1] \in Song, NEW c \in Candidate
    PROVE  Precedes(c, <<at[1] + 1, 1>>) <=> Precedes(c, at)
<1>1. /\ c[1] \in Nat /\ c[2] \in Nat \ {0} /\ c[2] <= Tracks[c[1]]
      /\ at = <<at[1], at[2]>> /\ at[1] \in Nat /\ at[2] \in Nat \ {0} /\ Tracks[at[1]] \in Nat
  BY CandidateShape DEF TypeInv, RunTyped
<1>2. ~(at[2] <= Tracks[at[1]])
  BY <1>1, CandidateShape
<1> QED BY <1>1, <1>2 DEF Precedes

(* What is recorded is a beginning of the candidates, as every run goes    *)
(* through them in order and skips only what is recorded.                  *)
SegmentInv ==
    /\ \A c, d \in Candidate : Precedes(c, d) /\ records[d] # None => records[c] # None
    /\ \A c, d \in Candidate : Precedes(c, d) /\ d \in run.existing => c \in run.existing
    /\ \A c \in run.existing : records[c] # None
    /\ ~run.resume => run.existing = {}
    /\ pc = "song" => \A c \in Candidate : Precedes(c, at) => records[c] # None

LEMMA SegmentInit == Init => SegmentInv
  BY DEF Init, SegmentInv, NoRecords, Idle

(* A run that has ended leaves the records behind as they are.             *)
LEMMA SegmentEnd ==
    ASSUME TypeInv, SegmentInv, End, records' = records
    PROVE  SegmentInv'
<1>1. run' = Idle /\ pc' = "idle"
  BY DEF End
<1> QED BY <1>1 DEF SegmentInv, Idle

LEMMA Judges ==
    ASSUME TypeInv, Evaluate
    PROVE  /\ at \in Candidate /\ pc = "song" /\ pc' = "song" /\ run' = run /\ verdict' = verdict
           /\ records'[at] = [score |-> Verdict, owner |-> Owner, checkout |-> run.checkout]
           /\ records'[at] # None
           /\ \A c \in Candidate : c # at => records'[c] = records[c]
           /\ at' = <<at[1], at[2] + 1>>
<1>1. /\ at \in Candidate /\ pc = "song" /\ pc' = "song" /\ run' = run /\ verdict' = verdict
      /\ at' = <<at[1], at[2] + 1>>
  BY EvaluateForm DEF Working, NextTrack
<1>2. records'[at] = [score |-> Verdict, owner |-> Owner, checkout |-> run.checkout]
  BY <1>1, EvaluateForm DEF TypeInv, DiskTyped
<1>3. run.checkout \in DOMAIN verdict /\ verdict \in Verdicts
  BY <1>1 DEF TypeInv, DiskTyped, RunTyped
<1>4. records'[at] \in Record
  BY <1>1, <1>2, <1>3, VerdictFacts, EvaluateTypes DEF Verdict
<1>5. \A c \in Candidate : c # at => records'[c] = records[c]
  BY <1>1, EvaluateForm DEF TypeInv, DiskTyped
<1> QED BY <1>1, <1>2, <1>4, <1>5, RecordFacts

LEMMA SegmentStep == TypeInv /\ SegmentInv /\ [Next]_vars => SegmentInv'
<1> SUFFICES ASSUME TypeInv, SegmentInv, [Next]_vars PROVE SegmentInv'
  OBVIOUS
<1>1. ASSUME NEW resume \in BOOLEAN, NEW sample \in BOOLEAN, NEW songs \in Song, NEW checkout \in Checkouts,
             Start(resume, sample, songs, checkout)
      PROVE  SegmentInv'
  <2>1. /\ records' = records /\ at' = <<1, 1>> /\ run'.resume = resume
        /\ run'.existing = IF resume THEN Recorded(records) ELSE {}
    BY <1>1 DEF Start, disk
  <2>2. \A c \in Candidate : c \in Recorded(records) <=> records[c] # None
    BY DEF Recorded
  <2>3. \A c \in Candidate : ~Precedes(c, <<1, 1>>)
    BY CandidateShape DEF Precedes
  <2>4. \A c \in run'.existing : c \in Candidate /\ records[c] # None
    BY <2>1 DEF Recorded
  <2> QED BY <2>1, <2>2, <2>3, <2>4 DEF SegmentInv
<1>2. CASE Skip
  <2>1. /\ at \in Candidate /\ at \in run.existing /\ records' = records /\ run' = run /\ pc' = pc
        /\ at' = <<at[1], at[2] + 1>> /\ pc = "song"
    BY <1>2 DEF Skip, Working, NextTrack, disk
  <2>2. \A c \in Candidate : Precedes(c, at') => records[c] # None
    BY <2>1, PassesOne DEF SegmentInv
  <2> QED BY <2>1, <2>2 DEF SegmentInv
<1>3. CASE Evaluate
  <2>1. \A c \in Candidate : records[c] # None => records'[c] # None
    BY <1>3, Judges
  <2>2. \A c \in Candidate : Precedes(c, at') => records'[c] # None
    BY <1>3, <2>1, Judges, PassesOne DEF SegmentInv
  <2>3. ASSUME NEW c \in Candidate, NEW d \in Candidate, Precedes(c, d), records'[d] # None
        PROVE  records'[c] # None
    <3>1. CASE d = at
      BY <1>3, <2>1, <2>3, <3>1, Judges DEF SegmentInv
    <3>2. CASE d # at
      BY <1>3, <2>1, <2>3, <3>2, Judges DEF SegmentInv
    <3> QED BY <3>1, <3>2
  <2>4. run' = run /\ pc' = "song" /\ run.existing \subseteq Candidate
    BY <1>3, Judges DEF TypeInv, RunTyped
  <2> QED BY <2>1, <2>2, <2>3, <2>4 DEF SegmentInv
<1>4. CASE Commit
  <2>1. at \notin Candidate /\ records' = records /\ run' = run /\ pc' = pc /\ pc = "song"
        /\ at' = <<at[1] + 1, 1>> /\ at[1] <= run.songs
    BY <1>4 DEF Commit, Working
  <2>2. at[1] \in Song
    BY <2>1, CountAssumption DEF TypeInv, RunTyped, Song
  <2>3. \A c \in Candidate : Precedes(c, at') => records[c] # None
    BY <2>1, <2>2, PassesSong DEF SegmentInv
  <2> QED BY <2>1, <2>3 DEF SegmentInv
<1>5. CASE EndSample \/ Finalize \/ Kill
  BY <1>5, SegmentEnd DEF EndSample, Finalize, Kill, disk
<1>6. CASE Build \/ UNCHANGED vars
  <2>1. UNCHANGED <<records, pc, at, run>>
    BY <1>6 DEF Build, vars, disk, local
  <2> QED BY <2>1 DEF SegmentInv
<1> QED BY <1>1, <1>2, <1>3, <1>4, <1>5, <1>6 DEF Next

LEMMA Segments == Spec => []SegmentInv
<1> QED BY SegmentInit, SegmentStep, Types, PTL DEF Spec

-----------------------------------------------------------------------------
(* Owners.                                                                 *)

(* Candidate d is the first of which the verdicts v say x.                 *)
IsFirst(v, d, x) == v[d] = x /\ \A e \in Candidate : Precedes(e, d) => v[e] # x

(* Record r is what checkout k, with verdicts v, has to say of c.          *)
Judged(v, k, r, c) ==
    /\ r.checkout = k /\ r.score = v[c]
    /\ v[c] = Reject => r.owner = None
    /\ v[c] # Reject => /\ r.owner \in Candidate /\ ~Precedes(c, r.owner)
                        /\ IsFirst(v, r.owner, v[c])

LEMMA FirstIsOne ==
    ASSUME NEW v, NEW x, NEW c \in Candidate, NEW d \in Candidate,
           IsFirst(v, c, x), IsFirst(v, d, x)
    PROVE  c = d
  BY Ordered DEF IsFirst

LEMMA JudgedOnce ==
    ASSUME NEW v, NEW k, NEW c \in Candidate, NEW r \in Record, NEW s \in Record,
           Judged(v, k, r, c), Judged(v, k, s, c)
    PROVE  r = s
<1>1. r.owner = s.owner
  BY FirstIsOne DEF Judged
<1> QED BY <1>1 DEF Judged, Record

(* All records are those of one checkout.                                  *)
JudgedBy(k) == \A c \in Recorded(records) : Judged(verdict[k], k, records[c], c)

(* Of one checkout's records each owner owns itself, and nobody else its   *)
(* score.                                                                  *)
LEMMA OwnersAreUnique ==
    ASSUME TypeInv, SegmentInv, NEW k, JudgedBy(k)
    PROVE  /\ \A c \in Accepted(records) :
                /\ records[c].owner \in Unique(records)
                /\ records[records[c].owner].score = records[c].score
           /\ \A c, d \in Unique(records) : records[c].score = records[d].score => c = d
           /\ \A c \in Unique(records) : IsFirst(verdict[k], c, records[c].score)
<1> DEFINE v == verdict[k]
<1>1. ASSUME NEW c \in Accepted(records)
      PROVE  c \in Candidate /\ c \in Recorded(records) /\ v[c] # Reject /\ records[c].score = v[c]
             /\ Judged(v, k, records[c], c)
    BY DEF Accepted, Recorded, JudgedBy, Judged
<1>2. ASSUME NEW c \in Unique(records)
      PROVE  c \in Candidate /\ IsFirst(v, c, records[c].score)
  <2>1. c \in Accepted(records) /\ records[c].owner = c
    BY DEF Unique
  <2> QED BY <1>1, <2>1 DEF Judged
<1>3. ASSUME NEW c \in Unique(records), NEW d \in Unique(records), records[c].score = records[d].score
      PROVE  c = d
  BY <1>2, <1>3, FirstIsOne
<1>4. ASSUME NEW c \in Accepted(records)
      PROVE  records[c].owner \in Unique(records) /\ records[records[c].owner].score = records[c].score
  <2> DEFINE o == records[c].owner
  <2>1. o \in Candidate /\ ~Precedes(c, o) /\ IsFirst(v, o, v[c]) /\ v[o] = v[c]
    BY <1>1 DEF Judged, IsFirst
  <2>2. records[o] # None
    BY <1>1, <2>1, Ordered DEF SegmentInv, Recorded
  <2>3. Judged(v, k, records[o], o)
    BY <2>1, <2>2 DEF JudgedBy, Recorded
  <2>4. records[o].score = v[c] /\ records[o].owner \in Candidate /\ IsFirst(v, records[o].owner, v[c])
    BY <1>1, <2>1, <2>3 DEF Judged
  <2>5. records[o].owner = o
    BY <2>1, <2>4, FirstIsOne
  <2> QED BY <1>1, <2>1, <2>2, <2>4, <2>5 DEF Unique, Accepted, Recorded
<1> QED BY <1>2, <1>3, <1>4

Known == {c \in Candidate : Precedes(c, at)} \cup run.existing

(* A run whose records are all its own, or that starts anew, knows the     *)
(* first of each score among the candidates it has passed or loaded.       *)
SeenInv ==
    pc = "song" /\ (run.resume => ~mixed) =>
        /\ \A x \in DOMAIN seen : seen[x] \in Known /\ IsFirst(verdict[run.checkout], seen[x], x)
        /\ \A c \in Known : verdict[run.checkout][c] # Reject => verdict[run.checkout][c] \in DOMAIN seen

(* A run that starts anew replaces what there was, mixed or not.           *)
PassedInv ==
    pc = "song" /\ ~run.resume =>
        \A c \in Candidate : Precedes(c, at) =>
            Judged(verdict[run.checkout], run.checkout, records[c], c)

UnmixedInv ==
    /\ pc = "song" /\ ~mixed => JudgedBy(run.checkout)
    /\ pc = "idle" /\ ~mixed => \E k : JudgedBy(k)

(* A completed view stands for the records as they are.                    *)
ViewInv ==
    ~mixed /\ progress = "COMPLETE" =>
        /\ \A c \in Candidate : records[c] # None
        /\ view.streams = {c \in Unique(records) : Fits(records[c].score, view.cap)}

OwnerInv == SeenInv /\ PassedInv /\ UnmixedInv /\ ViewInv

LEMMA OwnerInit == Init => OwnerInv
<1> SUFFICES ASSUME Init PROVE OwnerInv
  OBVIOUS
<1>1. Recorded(records) = {}
  BY DEF Init, Recorded, NoRecords
<1>2. JudgedBy(None)
  BY <1>1 DEF JudgedBy
<1> QED BY <1>2 DEF Init, OwnerInv, SeenInv, PassedInv, UnmixedInv, ViewInv

LEMMA JudgedStays ==
    ASSUME NEW k, JudgedBy(k), records' = records, verdict' = verdict
    PROVE  JudgedBy(k)'
  BY DEF JudgedBy, Recorded

LEMMA OwnerStart ==
    ASSUME TypeInv, SegmentInv, OwnerInv, NEW resume \in BOOLEAN, NEW sample \in BOOLEAN, NEW songs \in Song,
           NEW checkout \in Checkouts, Start(resume, sample, songs, checkout)
    PROVE  OwnerInv'
<1>1. /\ pc = "idle" /\ pc' = "song" /\ at' = <<1, 1>> /\ run'.resume = resume /\ run'.checkout = checkout
      /\ run'.existing = (IF resume THEN Recorded(records) ELSE {})
      /\ seen' = (IF resume THEN Owners(records) ELSE NoOwners)
      /\ mixed' = (mixed \/ \E c \in Recorded(records) : records[c].checkout # checkout)
      /\ UNCHANGED <<verdict, records, progress, view>>
  BY DEF Start, disk
<1>2. \A c \in Candidate : ~Precedes(c, at')
  BY <1>1, CandidateShape DEF Precedes
<1>3. ASSUME ~mixed'
      PROVE  JudgedBy(checkout)
  <2>1. \A c \in Recorded(records) : records[c].checkout = checkout
    BY <1>1, <1>3
  <2>2. PICK k : JudgedBy(k)
    BY <1>1, <1>3 DEF OwnerInv, UnmixedInv
  <2>3. \A c \in Recorded(records) : records[c].checkout = k
    BY <2>2 DEF JudgedBy, Judged
  <2> QED BY <2>1, <2>2, <2>3 DEF JudgedBy
<1>4. Known' = run'.existing
  BY <1>2 DEF Known
<1>5. SeenInv'
  <2> SUFFICES ASSUME resume => ~mixed'
               PROVE  /\ \A x \in DOMAIN seen' : seen'[x] \in run'.existing
                                                /\ IsFirst(verdict[checkout], seen'[x], x)
                      /\ \A c \in run'.existing : verdict[checkout][c] # Reject
                                                => verdict[checkout][c] \in DOMAIN seen'
    BY <1>1, <1>4 DEF SeenInv
  <2>1. CASE ~resume
    BY <1>1, <2>1 DEF NoOwners
  <2>2. CASE resume
    <3>1. JudgedBy(checkout)
      BY <1>3, <2>2
    <3>2. \A c \in Unique(records) : c \in Recorded(records)
      BY DEF Unique, Accepted
    <3>3. ASSUME NEW x \in DOMAIN Owners(records)
          PROVE  Owners(records)[x] \in Recorded(records) /\ IsFirst(verdict[checkout], Owners(records)[x], x)
      BY <3>1, <3>2, OwnersTyped, OwnersAreUnique DEF TypeInv
    <3>4. ASSUME NEW c \in Recorded(records), verdict[checkout][c] # Reject
          PROVE  verdict[checkout][c] \in DOMAIN Owners(records)
      <4>1. records[c].score = verdict[checkout][c]
        BY <3>1 DEF JudgedBy, Judged
      <4>2. c \in Accepted(records)
        BY <3>4, <4>1 DEF Accepted
      <4>3. records[c].owner \in Unique(records) /\ records[records[c].owner].score = records[c].score
        BY <3>1, <4>2, OwnersAreUnique
      <4> QED BY <4>1, <4>3, OwnersTyped DEF TypeInv
    <3> QED BY <1>1, <2>2, <3>3, <3>4
  <2> QED BY <2>1, <2>2
<1>6. PassedInv'
  BY <1>2 DEF PassedInv
<1>7. UnmixedInv'
  <2>1. ~mixed' => JudgedBy(checkout)'
    BY <1>1, <1>3, JudgedStays
  <2> QED BY <1>1, <2>1 DEF UnmixedInv, JudgedBy
<1>8. ViewInv'
  BY <1>1 DEF OwnerInv, ViewInv, Unique, Accepted, Recorded
<1> QED BY <1>5, <1>6, <1>7, <1>8 DEF OwnerInv

LEMMA OwnerSkip ==
    ASSUME TypeInv, SegmentInv, OwnerInv, Skip
    PROVE  OwnerInv'
<1>1. /\ at \in Candidate /\ at \in run.existing /\ pc = "song"
      /\ at' = <<at[1], at[2] + 1>>
      /\ UNCHANGED <<verdict, records, progress, view, pc, run, seen, mixed>>
  BY DEF Skip, Working, NextTrack, disk
<1>2. Known' = Known
  BY <1>1, PassesOne DEF Known
<1>3. SeenInv' /\ ViewInv'
  BY <1>1, <1>2 DEF OwnerInv, SeenInv, ViewInv, Unique, Accepted, Recorded
<1>4. PassedInv'
  BY <1>1 DEF PassedInv, SegmentInv
<1>5. UnmixedInv'
  BY <1>1 DEF OwnerInv, UnmixedInv, JudgedBy, Recorded
<1> QED BY <1>3, <1>4, <1>5 DEF OwnerInv

LEMMA OwnerCommit ==
    ASSUME TypeInv, SegmentInv, OwnerInv, Commit
    PROVE  OwnerInv'
<1>1. /\ at \notin Candidate /\ pc = "song" /\ at' = <<at[1] + 1, 1>> /\ progress' = "RUNNING"
      /\ at[1] <= run.songs
      /\ UNCHANGED <<verdict, records, view, pc, run, seen, mixed>>
  BY DEF Commit, Working
<1>2. at[1] \in Song
  BY <1>1, CountAssumption DEF TypeInv, RunTyped, Song
<1>3. \A c \in Candidate : Precedes(c, at') <=> Precedes(c, at)
  BY <1>1, <1>2, PassesSong
<1>4. Known' = Known
  BY <1>1, <1>3 DEF Known
<1>5. SeenInv' /\ ViewInv'
  BY <1>1, <1>4 DEF OwnerInv, SeenInv, ViewInv
<1>6. PassedInv'
  BY <1>1, <1>3 DEF OwnerInv, PassedInv
<1>7. UnmixedInv'
  BY <1>1 DEF OwnerInv, UnmixedInv, JudgedBy, Recorded
<1> QED BY <1>5, <1>6, <1>7 DEF OwnerInv

(* A run that knows the firsts names the first as the owner.               *)
LEMMA EvaluateJudges ==
    ASSUME TypeInv, SegmentInv, OwnerInv, Evaluate, run.resume => ~mixed
    PROVE  /\ Judged(verdict[run.checkout], run.checkout, records'[at], at)
           /\ \A x \in DOMAIN seen : seen[x] # at
           /\ Owner = at => IsFirst(verdict[run.checkout], at, Verdict)
<1> DEFINE v == verdict[run.checkout]
<1>1. /\ at \in Candidate /\ at \notin run.existing /\ pc = "song" /\ v[at] = Verdict
      /\ records'[at] = [score |-> Verdict, owner |-> Owner, checkout |-> run.checkout]
      /\ run.existing \subseteq Candidate
  BY Judges, EvaluateForm DEF Verdict, TypeInv, RunTyped
<1>2. /\ \A x \in DOMAIN seen : seen[x] \in Known /\ IsFirst(v, seen[x], x)
      /\ \A c \in Known : v[c] # Reject => v[c] \in DOMAIN seen
  BY <1>1 DEF OwnerInv, SeenInv
<1>3. ASSUME NEW c \in Known
      PROVE  c \in Candidate /\ c # at /\ ~Precedes(at, c)
  <2>1. CASE c \in run.existing
    BY <1>1, <2>1 DEF SegmentInv
  <2>2. CASE c \in Candidate /\ Precedes(c, at)
    BY <1>1, <2>2, Ordered
  <2> QED BY <2>1, <2>2 DEF Known
<1>4. CASE Verdict = Reject
  <2>1. Owner = None /\ None # at
    BY <1>1, <1>4, SentinelAssumption DEF Owner
  <2> QED BY <1>1, <1>2, <1>3, <1>4, <2>1 DEF Judged
<1>5. CASE Verdict # Reject /\ Verdict \in DOMAIN seen
  <2>1. Owner = seen[Verdict] /\ Owner \in Known /\ IsFirst(v, Owner, Verdict)
    BY <1>2, <1>5 DEF Owner
  <2>2. Owner \in Candidate /\ Owner # at /\ ~Precedes(at, Owner)
    BY <1>3, <2>1
  <2> QED BY <1>1, <1>2, <1>3, <1>5, <2>1, <2>2 DEF Judged
<1>6. CASE Verdict # Reject /\ Verdict \notin DOMAIN seen
  <2>1. Owner = at
    BY <1>6 DEF Owner
  <2>2. ASSUME NEW e \in Candidate, Precedes(e, at), v[e] = Verdict
        PROVE  FALSE
    BY <1>2, <1>6, <2>2 DEF Known
  <2>3. IsFirst(v, at, Verdict)
    BY <1>1, <2>2 DEF IsFirst
  <2>4. ~Precedes(at, at)
    BY <1>1, Ordered
  <2> QED BY <1>1, <1>2, <1>3, <1>6, <2>1, <2>3, <2>4 DEF Judged
<1> QED BY <1>4, <1>5, <1>6

LEMMA OwnerEvaluate ==
    ASSUME TypeInv, SegmentInv, OwnerInv, Evaluate
    PROVE  OwnerInv'
<1> DEFINE v == verdict[run.checkout]
<1>1. /\ at \in Candidate /\ pc = "song" /\ pc' = "song" /\ run' = run /\ verdict' = verdict
      /\ records'[at] = [score |-> Verdict, owner |-> Owner, checkout |-> run.checkout]
      /\ records'[at] # None /\ v[at] = Verdict
      /\ \A c \in Candidate : c # at => records'[c] = records[c]
      /\ at' = <<at[1], at[2] + 1>>
      /\ UNCHANGED <<progress, view, mixed>>
  BY Judges, EvaluateForm DEF Verdict
<1>2. \A c \in Candidate : Precedes(c, at') <=> c = at \/ Precedes(c, at)
  BY <1>1, PassesOne
<1>3. Known' = Known \cup {at}
  BY <1>1, <1>2 DEF Known
<1>4. Verdict \in Score \cup {Reject}
  BY EvaluateTypes
<1>5. SeenInv'
  <2> SUFFICES ASSUME run.resume => ~mixed
               PROVE  /\ \A x \in DOMAIN seen' : seen'[x] \in Known \cup {at} /\ IsFirst(v, seen'[x], x)
                      /\ \A c \in Known \cup {at} : v[c] # Reject => v[c] \in DOMAIN seen'
    BY <1>1, <1>3 DEF SeenInv
  <2>1. /\ \A x \in DOMAIN seen : seen[x] \in Known /\ IsFirst(v, seen[x], x)
        /\ \A c \in Known : v[c] # Reject => v[c] \in DOMAIN seen
    BY <1>1 DEF OwnerInv, SeenInv
  <2>2. CASE Owner = at
    <3>1. seen' = [x \in DOMAIN seen \cup {Verdict} |-> IF x = Verdict THEN at ELSE seen[x]]
      BY <2>2, EvaluateForm
    <3>2. IsFirst(v, at, Verdict)
      BY <2>2, EvaluateJudges
    <3> QED BY <1>1, <2>1, <3>1, <3>2
  <2>3. CASE Owner # at
    <3>1. seen' = seen
      BY <2>3, EvaluateForm
    <3>2. Verdict # Reject => Verdict \in DOMAIN seen
      BY <2>3 DEF Owner
    <3> QED BY <1>1, <2>1, <3>1, <3>2
  <2> QED BY <2>2, <2>3
<1>6. PassedInv'
  <2> SUFFICES ASSUME ~run.resume, NEW c \in Candidate, c = at \/ Precedes(c, at)
               PROVE  Judged(v, run.checkout, records'[c], c)
    BY <1>1, <1>2 DEF PassedInv
  <2>1. CASE c = at
    BY <2>1, EvaluateJudges
  <2>2. CASE c # at
    BY <1>1, <2>2 DEF OwnerInv, PassedInv
  <2> QED BY <2>1, <2>2
<1>7. UnmixedInv'
  <2> SUFFICES ASSUME ~mixed, NEW c \in Candidate, records'[c] # None
               PROVE  Judged(v, run.checkout, records'[c], c)
    BY <1>1 DEF UnmixedInv, JudgedBy, Recorded
  <2>1. CASE c = at
    BY <2>1, EvaluateJudges
  <2>2. CASE c # at
    BY <1>1, <2>2 DEF OwnerInv, UnmixedInv, JudgedBy, Recorded
  <2> QED BY <2>1, <2>2
<1>8. ViewInv'
  <2> SUFFICES ASSUME ~mixed, progress = "COMPLETE"
               PROVE  /\ \A c \in Candidate : records'[c] # None
                      /\ view.streams = {c \in Unique(records') : Fits(records'[c].score, view.cap)}
    BY <1>1 DEF ViewInv, Unique, Accepted, Recorded
  <2>1. /\ \A c \in Candidate : records[c] # None
        /\ view.streams = {c \in Unique(records) : Fits(records[c].score, view.cap)}
    BY DEF OwnerInv, ViewInv
  <2>2. Judged(v, run.checkout, records[at], at)
    BY <1>1, <2>1 DEF OwnerInv, UnmixedInv, JudgedBy, Recorded
  <2>3. Judged(v, run.checkout, records'[at], at)
    BY EvaluateJudges
  <2>4. records[at] \in Record /\ records'[at] \in Record
    BY <1>1, <2>1, EvaluateTypes DEF TypeInv, DiskTyped
  <2>5. records'[at] = records[at]
    BY <1>1, <2>2, <2>3, <2>4, JudgedOnce
  <2>6. records' = records
    BY <1>1, <2>5, EvaluateForm DEF TypeInv, DiskTyped
  <2> QED BY <2>1, <2>6
<1> QED BY <1>5, <1>6, <1>7, <1>8 DEF OwnerInv

LEMMA OwnerFinalize ==
    ASSUME TypeInv, SegmentInv, PlaceInv, OwnerInv, Finalize
    PROVE  OwnerInv'
<1>1. /\ pc = "song" /\ pc' = "idle" /\ mixed' = (mixed /\ run.resume)
      /\ records' = records /\ verdict' = verdict /\ progress = "RUNNING"
  BY CountAssumption DEF Finalize, End, PlaceInv, TypeInv, RunTyped
<1>2. \A c \in Candidate : Precedes(c, at)
  BY CandidateShape, CountAssumption DEF Precedes, Finalize, TypeInv, RunTyped, Song
<1>3. ~mixed' => JudgedBy(run.checkout)
  <2>1. CASE ~mixed
    BY <1>1, <2>1 DEF OwnerInv, UnmixedInv
  <2>2. CASE ~run.resume
    BY <1>1, <1>2, <2>2 DEF OwnerInv, PassedInv, JudgedBy, Recorded
  <2> QED BY <1>1, <2>1, <2>2 DEF TypeInv, DiskTyped, RunTyped
<1>4. UnmixedInv'
  BY <1>1, <1>3 DEF UnmixedInv, JudgedBy, Recorded
<1>5. ViewInv'
  <2> SUFFICES ASSUME progress' = "COMPLETE"
               PROVE  /\ \A c \in Candidate : records[c] # None
                      /\ view'.streams = {c \in Unique(records) : Fits(records[c].score, view'.cap)}
    BY <1>1 DEF ViewInv, Unique, Accepted, Recorded
  <2>1. view' = TrainingView
    BY <1>1 DEF Finalize
  <2>2. view'.streams = StreamsFit(Unique(records), view'.cap)
    BY <2>1 DEF TrainingView
  <2> QED BY <1>1, <1>2, <2>2 DEF StreamsFit, SegmentInv
<1>6. SeenInv' /\ PassedInv'
  BY <1>1 DEF SeenInv, PassedInv
<1> QED BY <1>4, <1>5, <1>6 DEF OwnerInv

LEMMA OwnerStep == TypeInv /\ SegmentInv /\ PlaceInv /\ OwnerInv /\ [Next]_vars => OwnerInv'
<1> SUFFICES ASSUME TypeInv, SegmentInv, PlaceInv, OwnerInv, [Next]_vars PROVE OwnerInv'
  OBVIOUS
<1>1. ASSUME NEW resume \in BOOLEAN, NEW sample \in BOOLEAN, NEW songs \in Song, NEW checkout \in Checkouts,
             Start(resume, sample, songs, checkout)
      PROVE  OwnerInv'
  BY <1>1, OwnerStart
<1>2. CASE Skip
  BY <1>2, OwnerSkip
<1>3. CASE Evaluate
  BY <1>3, OwnerEvaluate
<1>4. CASE Commit
  BY <1>4, OwnerCommit
<1>5. CASE EndSample \/ Kill
  <2>1. /\ pc # "idle" /\ pc' = "idle"
        /\ UNCHANGED <<verdict, records, progress, view, mixed>>
    BY <1>5 DEF EndSample, Kill, End, disk
  <2>2. pc = "song"
    BY <2>1 DEF TypeInv, RunTyped
  <2>3. UnmixedInv'
    BY <2>1, <2>2 DEF OwnerInv, UnmixedInv, JudgedBy, Recorded
  <2>4. ViewInv'
    BY <2>1 DEF OwnerInv, ViewInv, Unique, Accepted, Recorded
  <2> QED BY <2>1, <2>3, <2>4 DEF OwnerInv, SeenInv, PassedInv
<1>6. CASE Finalize
  BY <1>6, OwnerFinalize
<1>7. CASE Build \/ UNCHANGED vars
  <2>1. UNCHANGED <<verdict, records, progress, view, mixed, pc, at, run, seen>>
    BY <1>7 DEF Build, vars, disk, local
  <2>2. SeenInv' /\ PassedInv' /\ ViewInv'
    BY <2>1 DEF OwnerInv, SeenInv, PassedInv, ViewInv, Known, Unique, Accepted, Recorded
  <2>3. UnmixedInv'
    BY <2>1 DEF OwnerInv, UnmixedInv, JudgedBy, Recorded
  <2> QED BY <2>2, <2>3 DEF OwnerInv
<1> QED BY <1>1, <1>2, <1>3, <1>4, <1>5, <1>6, <1>7 DEF Next

LEMMA Owned == Spec => []OwnerInv
<1>1. RowInv => PlaceInv
  BY DEF RowInv
<1> QED BY <1>1, OwnerInit, OwnerStep, Types, Segments, Rows, PTL DEF Spec

LEMMA OwnersTrainOnce == TypeInv /\ SegmentInv /\ OwnerInv => TrainsEachScoreOnce
<1> SUFFICES ASSUME TypeInv, SegmentInv, OwnerInv, ~mixed
             PROVE  TrainsEachScoreOnce
  BY DEF TrainsEachScoreOnce
<1>1. PICK k : JudgedBy(k)
  BY DEF OwnerInv, UnmixedInv, TypeInv, RunTyped
<1>2. /\ \A c \in Accepted(records) : /\ records[c].owner \in Unique(records)
                                     /\ records[records[c].owner].score = records[c].score
      /\ \A c, d \in Unique(records) : records[c].score = records[d].score => c = d
  BY <1>1, OwnersAreUnique
<1>3. ASSUME progress = "COMPLETE", NEW x \in Scores(records)
      PROVE  Cardinality({c \in view.streams : records[c].score = x})
                 = (IF Fits(x, view.cap) THEN 1 ELSE 0)
  <2> DEFINE trained == {c \in view.streams : records[c].score = x}
  <2>1. view.streams = {c \in Unique(records) : Fits(records[c].score, view.cap)}
    BY <1>3 DEF OwnerInv, ViewInv
  <2>2. PICK c \in Accepted(records) : records[c].score = x
    BY DEF Scores
  <2> DEFINE o == records[c].owner
  <2>3. o \in Unique(records) /\ records[o].score = x
    BY <1>2, <2>2
  <2>4. \A d \in Unique(records) : records[d].score = x => d = o
    BY <1>2, <2>3
  <2>5. CASE Fits(x, view.cap)
    <3>1. trained = {o}
      BY <2>1, <2>3, <2>4, <2>5
    <3> QED BY <2>5, <3>1, FS_Singleton
  <2>6. CASE ~Fits(x, view.cap)
    <3>1. trained = {}
      BY <2>1, <2>6
    <3> QED BY <2>6, <3>1, FS_EmptySet
  <2> QED BY <2>5, <2>6
<1> QED BY <1>2, <1>3 DEF TrainsEachScoreOnce

(* Of one checkout's records a score has one owner, whom its duplicates    *)
(* name, and a completed view trains on each score that fits exactly once. *)
THEOREM ScoresTrainOnce == Spec => []TrainsEachScoreOnce
<1> QED BY OwnersTrainOnce, Types, Segments, Owned, PTL

-----------------------------------------------------------------------------
(* Bars.  A tick lies before the end of bar i when its bar is no later,    *)
(* and not before the start when its bar is no earlier.                    *)
LEMMA BarOfTick ==
    ASSUME NEW t \in Nat, NEW i \in Nat
    PROVE  /\ t \div BarTicks \in Nat
           /\ t < BarEnd(i) <=> t \div BarTicks <= i
           /\ t >= BarStart(i) <=> t \div BarTicks >= i
<1>1. BarTicks \in Nat \ {0}
  BY BarAssumption
<1> SUFFICES ASSUME NEW B \in Nat \ {0}
             PROVE  /\ t \div B \in Nat
                    /\ t < (i + 1) * B <=> t \div B <= i
                    /\ t >= i * B <=> t \div B >= i
  BY <1>1 DEF BarStart, BarEnd
<1>2. t \div B \in Nat
  BY Z3
<1>3. PICK q \in Nat : q = t \div B /\ B * q <= t /\ t < B * (q + 1)
  <2>1. B * (t \div B) <= t
    BY Z3
  <2>2. t < B * (t \div B + 1)
    BY Z3
  <2> QED BY <1>2, <2>1, <2>2
<1>4. q <= i => B * (q + 1) <= (i + 1) * B
  BY <1>3, Z3
<1>5. q > i => (i + 1) * B <= B * q
  BY <1>3, Z3
<1>6. q >= i => i * B <= B * q
  BY <1>3, Z3
<1>7. q < i => B * (q + 1) <= i * B
  BY <1>3, Z3
<1>8. {B * q, B * (q + 1), i * B, (i + 1) * B} \subseteq Int
  BY <1>3
<1>9. t < (i + 1) * B <=> q <= i
  BY <1>3, <1>4, <1>5, <1>8
<1>10. t >= i * B <=> q >= i
  BY <1>3, <1>6, <1>7, <1>8
<1> QED BY <1>2, <1>3, <1>9, <1>10

(* The greatest of numbers that have a bound, and of two.                  *)
LEMMA MaxOf ==
    ASSUME NEW S, S \subseteq Nat, S # {}, NEW b \in Nat, \A x \in S : x <= b
    PROVE  Max(S) \in S /\ \A x \in S : x <= Max(S)
<1> DEFINE U == {m \in Nat : \A x \in S : x <= m}
<1>1. PICK m \in U : \A j \in U : m <= j
  <2>1. U \subseteq Nat /\ b \in U
    OBVIOUS
  <2> HIDE DEF U
  <2> QED BY <2>1, LeastOf
<1>2. m \in S
  <2> SUFFICES ASSUME m \notin S PROVE FALSE
    OBVIOUS
  <2>1. PICK x \in S : TRUE
    OBVIOUS
  <2>2. \A y \in S : y \in Nat /\ y < m
    BY <1>1
  <2>3. m - 1 \in Nat
    BY <1>1, <2>1, <2>2
  <2>4. m - 1 \in U
    BY <1>1, <2>2, <2>3
  <2> QED BY <1>1, <2>3, <2>4
<1>3. \E x \in S : \A y \in S : x >= y
  BY <1>1, <1>2
<1>4. Max(S) \in S /\ \A y \in S : Max(S) >= y
  BY <1>3 DEF Max
<1>5. \A y \in S : y <= Max(S)
  BY <1>4
<1> QED BY <1>4, <1>5

LEMMA MaxOfTwo ==
    ASSUME NEW a \in Nat, NEW b \in Nat
    PROVE  Max({a, b}) \in Nat /\ Max({a, b}) = IF a <= b THEN b ELSE a
<1>1. \A x \in {a, b} : x <= a + b
  OBVIOUS
<1>2. Max({a, b}) \in {a, b} /\ \A x \in {a, b} : x <= Max({a, b})
  BY <1>1, MaxOf
<1> QED BY <1>2

(* The notes of a score are bounded, so it has an end and bars.            *)
LEMMA NotesOf ==
    ASSUME NEW score, IsScore(score)
    PROVE  /\ Len(score) \in Nat /\ DOMAIN score = 1 .. Len(score)
           /\ \A k \in DOMAIN score : /\ score[k].onset \in Nat /\ score[k].end \in Nat
                                      /\ score[k].onset < score[k].end
<1>1. score \in Seq([onset : Nat, end : Nat])
  BY DEF IsScore
<1>2. ASSUME NEW S, NEW s \in Seq(S)
      PROVE  Len(s) \in Nat /\ DOMAIN s = 1 .. Len(s) /\ \A k \in 1 .. Len(s) : s[k] \in S
  OBVIOUS
<1>3. /\ Len(score) \in Nat /\ DOMAIN score = 1 .. Len(score)
      /\ \A k \in 1 .. Len(score) : score[k] \in [onset : Nat, end : Nat]
  BY <1>1, <1>2
<1>4. \A k \in DOMAIN score : score[k].onset < score[k].end
  BY DEF IsScore
<1> QED BY <1>3, <1>4

LEMMA ScoreEnds ==
    ASSUME NEW score, IsScore(score)
    PROVE  \E b \in Nat : \A k \in DOMAIN score : score[k].end <= b
<1> DEFINE Bounded(n) == \E b \in Nat : \A k \in 1 .. n : score[k].end <= b
           U == {n \in Nat : n <= Len(score) /\ ~Bounded(n)}
<1>1. Len(score) \in Nat /\ DOMAIN score = 1 .. Len(score)
  BY NotesOf
<1>2. \A k \in 1 .. Len(score) : score[k].end \in Nat
  BY <1>1, NotesOf
<1>3. Bounded(0)
  OBVIOUS
<1>4. ASSUME NEW n \in Nat, n + 1 <= Len(score), Bounded(n)
      PROVE  Bounded(n + 1)
  <2>1. PICK b \in Nat : \A k \in 1 .. n : score[k].end <= b
    BY <1>4
  <2>2. n + 1 \in 1 .. Len(score) /\ score[n + 1].end \in Nat
    BY <1>1, <1>2, <1>4
  <2>3. ASSUME NEW k \in 1 .. n + 1
        PROVE  score[k].end <= b + score[n + 1].end
    <3>1. CASE k = n + 1
      BY <2>2, <3>1
    <3>2. CASE k \in 1 .. n
      <4>1. score[k].end <= b /\ score[k].end \in Nat
        BY <1>1, <1>2, <1>4, <2>1, <3>2
      <4> QED BY <2>2, <4>1
    <3> QED BY <3>1, <3>2
  <2>4. b + score[n + 1].end \in Nat
    BY <2>2
  <2>5. \E c \in Nat : \A k \in 1 .. n + 1 : score[k].end <= c
    BY <2>3, <2>4
  <2> QED BY <2>5
<1>5. Bounded(Len(score))
  <2> HIDE DEF Bounded
  <2> SUFFICES ASSUME ~Bounded(Len(score)) PROVE FALSE
    OBVIOUS
  <2>1. U \subseteq Nat /\ U # {}
    BY <1>1
  <2>2. PICK n \in U : \A j \in U : n <= j
    <3> HIDE DEF U
    <3> QED BY <2>1, LeastOf
  <2>3. n # 0 /\ n \in Nat /\ n <= Len(score) /\ ~Bounded(n)
    BY <1>3, <2>2
  <2>4. n - 1 \in Nat /\ (n - 1) + 1 = n /\ n - 1 <= Len(score) /\ ~(n <= n - 1)
    BY <1>1, <2>3
  <2>5. Bounded(n - 1)
    BY <2>2, <2>4
  <2>6. (n - 1) + 1 <= Len(score)
    BY <2>3, <2>4
  <2>7. Bounded((n - 1) + 1)
    BY <1>4, <2>4, <2>5, <2>6
  <2> QED BY <2>3, <2>4, <2>7
<1> QED BY <1>1, <1>5

LEMMA ScoreBars ==
    ASSUME NEW score, IsScore(score)
    PROVE  BarCount(score) \in Nat \ {0}
<1> DEFINE ends == {0} \cup {score[k].end : k \in DOMAIN score}
<1>1. \A k \in DOMAIN score : score[k].end \in Nat
  BY NotesOf
<1>2. PICK b \in Nat : \A k \in DOMAIN score : score[k].end <= b
  BY ScoreEnds
<1>3. ends \subseteq Nat /\ ends # {} /\ \A x \in ends : x <= b
  BY <1>1, <1>2
<1>4. SpanEnd(score) \in Nat
  <2>1. Max(ends) \in ends
    <3> HIDE DEF ends
    <3> QED BY <1>3, MaxOf
  <2> QED BY <1>3, <2>1 DEF SpanEnd
<1>5. (SpanEnd(score) + BarTicks - 1) \div BarTicks \in Nat
  <2>1. SpanEnd(score) + BarTicks - 1 \in Nat
    BY <1>4, BarAssumption
  <2> QED BY <2>1, BarOfTick
<1> QED BY <1>5, MaxOfTwo DEF BarCount

-----------------------------------------------------------------------------
(* The stored flag.  A note begins in its onset bar and ends in its end    *)
(* bar, and is heard in those between.                                     *)
LEMMA NoteBars ==
    ASSUME NEW n, n.onset \in Nat, n.end \in Nat, n.onset < n.end, NEW i \in Nat
    PROVE  /\ OnsetBar(n) \in Nat /\ EndBar(n) \in Nat /\ OnsetBar(n) <= EndBar(n)
           /\ Overlaps(n, i) <=> OnsetBar(n) <= i /\ i <= EndBar(n)
<1>1. n.end - 1 \in Nat /\ n.onset <= n.end - 1
  OBVIOUS
<1>2. OnsetBar(n) \in Nat
  BY BarOfTick DEF OnsetBar
<1> DEFINE last == (n.end - 1) \div BarTicks
<1>3. last \in Nat
  BY <1>1, BarOfTick
<1>4. n.onset >= BarStart(OnsetBar(n))
  BY <1>2, BarOfTick DEF OnsetBar
<1>5. BarStart(OnsetBar(n)) \in Nat /\ BarStart(i) \in Nat /\ BarEnd(i) \in Nat
  BY <1>2, BarAssumption DEF BarStart, BarEnd
<1>6. n.end - 1 >= BarStart(OnsetBar(n))
  BY <1>1, <1>4, <1>5
<1>7. last >= OnsetBar(n)
  BY <1>1, <1>2, <1>6, BarOfTick
<1>8. EndBar(n) = last
  <2> HIDE DEF last
  <2>1. EndBar(n) = Max({OnsetBar(n), last})
    BY DEF EndBar, last
  <2> QED BY <1>2, <1>3, <1>7, <2>1, MaxOfTwo
<1>9. n.onset < BarEnd(i) <=> OnsetBar(n) <= i
  BY BarOfTick DEF OnsetBar
<1>10. n.end - 1 >= BarStart(i) <=> last >= i
  BY <1>1, BarOfTick
<1>11. n.end > BarStart(i) <=> n.end - 1 >= BarStart(i)
  BY <1>5
<1> HIDE DEF last
<1> QED BY <1>2, <1>3, <1>7, <1>8, <1>9, <1>10, <1>11 DEF Overlaps

(* The notes that have begun by bar i, and those that have ended before.   *)
Begun(score, i) == {k \in DOMAIN score : OnsetBar(score[k]) <= i}
Over(score, i)  == {k \in DOMAIN score : EndBar(score[k]) + 1 <= i}

LEMMA BegunOver ==
    ASSUME NEW score, IsScore(score), NEW i \in Nat
    PROVE  /\ IsFiniteSet(Begun(score, i)) /\ IsFiniteSet(Over(score, i))
           /\ Cardinality(Begun(score, i)) \in Nat /\ Cardinality(Over(score, i)) \in Nat
           /\ Over(score, i) \subseteq Begun(score, i)
           /\ Occupied(score, i) <=> Over(score, i) # Begun(score, i)
<1>1. IsFiniteSet(DOMAIN score)
  BY NotesOf, FS_Interval
<1>2. Begun(score, i) \subseteq DOMAIN score /\ Over(score, i) \subseteq DOMAIN score
  BY DEF Begun, Over
<1>3. IsFiniteSet(Begun(score, i)) /\ IsFiniteSet(Over(score, i))
  BY <1>1, <1>2, FS_Subset
<1>4. ASSUME NEW k \in DOMAIN score
      PROVE  /\ OnsetBar(score[k]) \in Nat /\ EndBar(score[k]) \in Nat
             /\ OnsetBar(score[k]) <= EndBar(score[k])
             /\ Overlaps(score[k], i) <=> OnsetBar(score[k]) <= i /\ i <= EndBar(score[k])
  BY NotesOf, NoteBars
<1>5. Over(score, i) \subseteq Begun(score, i)
  BY <1>4 DEF Begun, Over
<1>6. \A k \in DOMAIN score : Overlaps(score[k], i) <=> k \in Begun(score, i) /\ k \notin Over(score, i)
  BY <1>4 DEF Begun, Over
<1>7. Occupied(score, i) <=> Over(score, i) # Begun(score, i)
  BY <1>2, <1>5, <1>6 DEF Occupied
<1> QED BY <1>3, <1>5, <1>7, FS_CardinalityType

(* What the difference array adds up to.                                   *)
Sounding(score) == [i \in Bars(score) |-> Cardinality(Begun(score, i)) - Cardinality(Over(score, i))]

LEMMA DeltaSums ==
    ASSUME NEW score, IsScore(score), NEW i \in Bars(score)
    PROVE  Sounding(score)[i] = Delta(score, i) + (IF i = 0 THEN 0 ELSE Sounding(score)[i - 1])
<1> DEFINE on == {k \in DOMAIN score : OnsetBar(score[k]) = i}
           off == {k \in DOMAIN score : EndBar(score[k]) + 1 = i}
<1>1. i \in Nat /\ (i # 0 => i - 1 \in Bars(score) /\ i - 1 \in Nat)
  BY ScoreBars DEF Bars
<1>2. ASSUME NEW k \in DOMAIN score
      PROVE  OnsetBar(score[k]) \in Nat /\ EndBar(score[k]) \in Nat
  BY NotesOf, NoteBars, <1>1
<1>3. IsFiniteSet(on) /\ IsFiniteSet(off)
  <2>1. IsFiniteSet(DOMAIN score)
    BY NotesOf, FS_Interval
  <2>2. on \subseteq DOMAIN score /\ off \subseteq DOMAIN score
    OBVIOUS
  <2> HIDE DEF on, off
  <2> QED BY <2>1, <2>2, FS_Subset
<1>4. Cardinality(on) \in Nat /\ Cardinality(off) \in Nat /\ Delta(score, i) = Cardinality(on) - Cardinality(off)
  BY <1>3, FS_CardinalityType DEF Delta
<1>5. CASE i = 0
  <2>1. Begun(score, i) = on /\ Over(score, i) = {} /\ off = {}
    BY <1>2, <1>5 DEF Begun, Over
  <2>2. Cardinality(Over(score, i)) = 0 /\ Cardinality(off) = 0
    BY <2>1, FS_EmptySet
  <2>3. Sounding(score)[i] = Cardinality(Begun(score, i)) - Cardinality(Over(score, i))
    BY DEF Sounding
  <2>4. Cardinality(Begun(score, i)) = Cardinality(on)
    BY <2>1
  <2> HIDE DEF on, off
  <2> QED BY <1>4, <1>5, <2>2, <2>3, <2>4
<1>6. CASE i # 0
  <2> DEFINE j == i - 1
  <2>1. /\ Begun(score, i) = Begun(score, j) \cup on /\ Begun(score, j) \cap on = {}
        /\ Over(score, i) = Over(score, j) \cup off /\ Over(score, j) \cap off = {}
    BY <1>1, <1>2, <1>6 DEF Begun, Over
  <2>2. /\ IsFiniteSet(Begun(score, j)) /\ IsFiniteSet(Over(score, j))
        /\ Cardinality(Begun(score, j)) \in Nat /\ Cardinality(Over(score, j)) \in Nat
    BY <1>1, <1>6, BegunOver
  <2> HIDE DEF on, off
  <2>3. /\ Cardinality(Begun(score, i)) = Cardinality(Begun(score, j)) + Cardinality(on)
        /\ Cardinality(Over(score, i)) = Cardinality(Over(score, j)) + Cardinality(off)
    <3>1. Cardinality(Begun(score, j) \cup on) = Cardinality(Begun(score, j)) + Cardinality(on) - 0
      BY <1>3, <2>1, <2>2, FS_Union, FS_EmptySet
    <3>2. Cardinality(Over(score, j) \cup off) = Cardinality(Over(score, j)) + Cardinality(off) - 0
      BY <1>3, <2>1, <2>2, FS_Union, FS_EmptySet
    <3> QED BY <1>4, <2>1, <2>2, <3>1, <3>2
  <2>4. /\ Sounding(score)[i] = Cardinality(Begun(score, i)) - Cardinality(Over(score, i))
        /\ Sounding(score)[j] = Cardinality(Begun(score, j)) - Cardinality(Over(score, j))
    BY <1>1, <1>6 DEF Sounding
  <2> QED BY <1>4, <1>6, <2>2, <2>3, <2>4
<1> QED BY <1>5, <1>6

(* The sum is what the materialization counts up: its recursion has a      *)
(* solution, and only one.                                                 *)
LEMMA ActiveIsSounding ==
    ASSUME NEW score, IsScore(score)
    PROVE  Active(score) = Sounding(score)
<1> DEFINE step(f) == [i \in Bars(score) |-> Delta(score, i) + (IF i = 0 THEN 0 ELSE f[i - 1])]
<1>1. Sounding(score) = step(Sounding(score))
  <2>1. Sounding(score) = [i \in Bars(score) |-> Sounding(score)[i]]
    BY DEF Sounding
  <2>2. \A i \in Bars(score) : Sounding(score)[i] = step(Sounding(score))[i]
    BY DeltaSums
  <2> QED BY <2>1, <2>2
<1>2. Active(score) = CHOOSE f : f = step(f)
  BY DEF Active
<1>3. Active(score) = step(Active(score))
  BY <1>1, <1>2
<1>4. ASSUME NEW i \in Bars(score)
      PROVE  /\ Active(score)[i] = Delta(score, i) + (IF i = 0 THEN 0 ELSE Active(score)[i - 1])
             /\ Sounding(score)[i] = Delta(score, i) + (IF i = 0 THEN 0 ELSE Sounding(score)[i - 1])
  BY <1>1, <1>3
<1>5. Bars(score) \subseteq Nat /\ \A i \in Bars(score) : i # 0 => i - 1 \in Bars(score)
  BY ScoreBars DEF Bars
<1> DEFINE U == {i \in Bars(score) : Active(score)[i] # Sounding(score)[i]}
<1>6. U = {}
  <2> SUFFICES ASSUME U # {} PROVE FALSE
    OBVIOUS
  <2>1. PICK i \in U : \A j \in U : i <= j
    <3>1. U \subseteq Nat
      BY <1>5
    <3> HIDE DEF U
    <3> QED BY <3>1, LeastOf
  <2>2. i \in Bars(score) /\ i \in Nat /\ Active(score)[i] # Sounding(score)[i]
    BY <1>5, <2>1
  <2>3. i # 0
    BY <1>4, <2>2
  <2>4. i - 1 \in Bars(score) /\ ~(i <= i - 1)
    BY <1>5, <2>2, <2>3
  <2>5. Active(score)[i - 1] = Sounding(score)[i - 1]
    BY <2>1, <2>4
  <2> QED BY <1>4, <2>2, <2>3, <2>5
<1>7. Active(score) = [i \in Bars(score) |-> Active(score)[i]]
  BY <1>3
<1>8. Sounding(score) = [i \in Bars(score) |-> Sounding(score)[i]]
  BY <1>1
<1> HIDE DEF step
<1> QED BY <1>6, <1>7, <1>8

(* The stored flag says of a bar what the projection finds.                *)
LEMMA EmptyIsUnoccupied ==
    ASSUME NEW score, IsScore(score), NEW i \in Bars(score)
    PROVE  i \in EmptyBars(score) <=> ~Occupied(score, i)
<1>1. i \in Nat
  BY ScoreBars DEF Bars
<1>2. Active(score)[i] = Cardinality(Begun(score, i)) - Cardinality(Over(score, i))
  BY ActiveIsSounding DEF Sounding
<1>3. /\ IsFiniteSet(Begun(score, i)) /\ Over(score, i) \subseteq Begun(score, i)
      /\ Cardinality(Begun(score, i)) \in Nat /\ Cardinality(Over(score, i)) \in Nat
      /\ Occupied(score, i) <=> Over(score, i) # Begun(score, i)
  BY <1>1, BegunOver
<1>4. Active(score)[i] = 0 <=> Cardinality(Begun(score, i)) = Cardinality(Over(score, i))
  BY <1>2, <1>3
<1>5. Cardinality(Begun(score, i)) = Cardinality(Over(score, i)) <=> Over(score, i) = Begun(score, i)
  BY <1>3, FS_Subset
<1> QED BY <1>3, <1>4, <1>5 DEF EmptyBars

-----------------------------------------------------------------------------
(* Segments.  The one of bar i begins with the first of the occupied bars  *)
(* that lead up to i without a gap.                                        *)
LeadsTo(score, j, i) ==
    /\ j \in 0 .. i /\ \A m \in j .. i : Occupied(score, m)
    /\ j = 0 \/ ~Occupied(score, j - 1)

Beginning(score, i) == CHOOSE j \in Nat : LeadsTo(score, j, i)

LEMMA OneBeginning ==
    ASSUME NEW score, NEW i \in Nat, NEW j \in Nat, LeadsTo(score, j, i)
    PROVE  Beginning(score, i) = j
<1> DEFINE b == Beginning(score, i)
<1>1. b \in Nat /\ LeadsTo(score, b, i)
  BY DEF Beginning
<1>2. ASSUME NEW x \in Nat, NEW y \in Nat, LeadsTo(score, x, i), LeadsTo(score, y, i), x < y
      PROVE  FALSE
  <2>1. y - 1 \in x .. i /\ y # 0
    BY <1>2 DEF LeadsTo
  <2> QED BY <1>2, <2>1 DEF LeadsTo
<1> HIDE DEF b
<1>3. ~(b < j) /\ ~(j < b)
  BY <1>1, <1>2
<1> QED BY <1>1, <1>3 DEF b

LEMMA SomeBeginning ==
    ASSUME NEW score, NEW i \in Nat, Occupied(score, i)
    PROVE  \E j \in Nat : LeadsTo(score, j, i)
<1> DEFINE U == {j \in Nat : j <= i /\ \A m \in j .. i : Occupied(score, m)}
<1>1. U \subseteq Nat /\ U # {}
  <2>1. i \in U
    OBVIOUS
  <2> QED BY <2>1
<1>2. PICK j \in U : \A x \in U : j <= x
  <2> HIDE DEF U
  <2> QED BY <1>1, LeastOf
<1>3. j \in Nat /\ j <= i /\ \A m \in j .. i : Occupied(score, m)
  BY <1>2
<1>4. j = 0 \/ ~Occupied(score, j - 1)
  <2> SUFFICES ASSUME j # 0, Occupied(score, j - 1) PROVE FALSE
    OBVIOUS
  <2>1. j - 1 \in Nat /\ j - 1 <= i /\ \A m \in j - 1 .. i : m = j - 1 \/ m \in j .. i
    BY <1>3
  <2>2. j - 1 \in U
    BY <1>3, <2>1
  <2> QED BY <1>2, <1>3, <2>2
<1> QED BY <1>3, <1>4 DEF LeadsTo

LEMMA SegmentStarts ==
    ASSUME NEW score, IsScore(score)
    PROVE  \A i \in Bars(score) :
             Segment(score)[i] =
                 IF ~Occupied(score, i) THEN -1
                 ELSE IF i = 0 \/ ~Occupied(score, i - 1) THEN i ELSE Segment(score)[i - 1]
<1> DEFINE step(f) == [i \in Bars(score) |->
                         IF ~Occupied(score, i) THEN -1
                         ELSE IF i = 0 \/ ~Occupied(score, i - 1) THEN i ELSE f[i - 1]]
           starts == [i \in Bars(score) |-> IF Occupied(score, i) THEN Beginning(score, i) ELSE -1]
<1>1. Bars(score) \subseteq Nat /\ \A i \in Bars(score) : i # 0 => i - 1 \in Bars(score)
  BY ScoreBars DEF Bars
<1>2. ASSUME NEW i \in Bars(score)
      PROVE  starts[i] = step(starts)[i]
  <2>1. CASE ~Occupied(score, i)
    BY <2>1
  <2>2. CASE Occupied(score, i) /\ (i = 0 \/ ~Occupied(score, i - 1))
    <3>1. LeadsTo(score, i, i)
      BY <1>1, <2>2 DEF LeadsTo
    <3>2. Beginning(score, i) = i
      BY <1>1, <3>1, OneBeginning
    <3> QED BY <2>2, <3>2
  <2>3. CASE Occupied(score, i) /\ i # 0 /\ Occupied(score, i - 1)
    <3>1. i \in Nat /\ i - 1 \in Nat /\ i - 1 \in Bars(score)
      BY <1>1, <2>3
    <3>2. PICK j \in Nat : LeadsTo(score, j, i - 1)
      BY <2>3, <3>1, SomeBeginning
    <3>3. LeadsTo(score, j, i)
      <4>1. \A m \in j .. i : m = i \/ m \in j .. i - 1
        BY <3>1
      <4>2. j \in 0 .. i
        BY <3>1, <3>2 DEF LeadsTo
      <4> QED BY <2>3, <3>2, <4>1, <4>2 DEF LeadsTo
    <3>4. Beginning(score, i) = j /\ Beginning(score, i - 1) = j
      BY <3>1, <3>2, <3>3, OneBeginning
    <3> QED BY <2>3, <3>1, <3>4
  <2> QED BY <2>1, <2>2, <2>3
<1>3. starts = step(starts)
  BY <1>2
<1>4. Segment(score) = CHOOSE f : f = step(f)
  BY DEF Segment
<1>5. Segment(score) = step(Segment(score))
  <2> HIDE DEF starts
  <2> QED BY <1>3, <1>4
<1> HIDE DEF starts
<1> QED BY <1>5

(* The bars of a window without a gap are of one segment.                  *)
LEMMA OneSegment ==
    ASSUME NEW score, IsScore(score), NEW s \in WindowsFrom(score),
           \A i \in Window(s) : Occupied(score, i)
    PROVE  {Segment(score)[i] : i \in Window(s)} = {Segment(score)[s]}
<1>1. /\ s \in Nat /\ Window(s) \subseteq Bars(score) /\ Window(s) \subseteq Nat /\ s \in Window(s)
      /\ \A i \in Window(s) : i >= s /\ (i # s => i - 1 \in Window(s))
  BY ScoreBars, BarAssumption DEF WindowsFrom, Window, Bars
<1> DEFINE U == {i \in Window(s) : Segment(score)[i] # Segment(score)[s]}
<1>2. U = {}
  <2> SUFFICES ASSUME U # {} PROVE FALSE
    OBVIOUS
  <2>1. PICK i \in U : \A j \in U : i <= j
    <3>1. U \subseteq Nat
      BY <1>1
    <3> HIDE DEF U
    <3> QED BY <3>1, LeastOf
  <2>2. i \in Window(s) /\ i # s /\ i \in Nat /\ i >= s
    BY <1>1, <2>1
  <2>3. i - 1 \in Window(s) /\ ~(i <= i - 1) /\ i # 0 /\ i \in Bars(score)
    BY <1>1, <2>2
  <2>4. Segment(score)[i] = Segment(score)[i - 1]
    BY <2>2, <2>3, SegmentStarts
  <2>5. Segment(score)[i - 1] = Segment(score)[s]
    BY <2>1, <2>3
  <2> QED BY <2>1, <2>4, <2>5
<1> QED BY <1>1, <1>2

(* Windows without an empty bar are the windows of the projection.         *)
LEMMA LiveIsEligible ==
    ASSUME NEW score, IsScore(score)
    PROVE  LiveWindows(score) = EligibleWindows(score)
<1>1. ASSUME NEW s \in WindowsFrom(score)
      PROVE  /\ EmptyBars(score) \cap Window(s) = {} <=> \A i \in Window(s) : Occupied(score, i)
             /\ (\A i \in Window(s) : Occupied(score, i)) =>
                    Cardinality({Segment(score)[i] : i \in Window(s)}) = 1
  <2>1. Window(s) \subseteq Bars(score)
    BY ScoreBars, BarAssumption DEF WindowsFrom, Window, Bars
  <2>2. EmptyBars(score) \cap Window(s) = {} <=> \A i \in Window(s) : Occupied(score, i)
    BY <2>1, EmptyIsUnoccupied
  <2>3. ASSUME \A i \in Window(s) : Occupied(score, i)
        PROVE  Cardinality({Segment(score)[i] : i \in Window(s)}) = 1
    <3>1. {Segment(score)[i] : i \in Window(s)} = {Segment(score)[s]}
      BY <2>3, OneSegment
    <3>2. Cardinality({Segment(score)[s]}) = 1
      BY FS_Singleton
    <3> QED BY <3>1, <3>2
  <2> QED BY <2>2, <2>3
<1> QED BY <1>1 DEF LiveWindows, EligibleWindows

-----------------------------------------------------------------------------
(* The snapshot.                                                           *)

LEMMA BuildTakesLive ==
    ASSUME TypeInv, Build
    PROVE  SnapshotWindowsAreLive'
<1> DEFINE selected == {First({c \in Accepted(records) : records[c].score = x}) : x \in Scores(records)}
           kept     == StreamsFit(selected, SelectedCap(selected))
           rows     == [c \in Accepted(records) |-> records[c].score]
           windows  == UNION {{<<c, s>> : s \in LiveWindows(records[c].score)} : c \in kept}
<1>1. snapshot'.kept = kept /\ snapshot'.rows = rows /\ snapshot'.windows = windows
  BY DEF Build, Snapshot
<1>2. ASSUME NEW c \in selected
      PROVE  c \in Accepted(records)
  <2>1. PICK x \in Scores(records) : c = First({d \in Accepted(records) : records[d].score = x})
    OBVIOUS
  <2> DEFINE cs == {d \in Accepted(records) : records[d].score = x}
  <2>2. cs # {} /\ cs \in SUBSET Candidate
    BY DEF Scores, Accepted, Recorded
  <2>3. First(cs) \in cs
    <3> HIDE DEF cs
    <3> QED BY <2>2, FirstIn
  <2> QED BY <2>1, <2>3
<1>3. kept \subseteq Accepted(records)
  <2> HIDE DEF selected
  <2> QED BY <1>2 DEF StreamsFit
<1>4. ASSUME NEW c \in kept
      PROVE  {s \in WindowsFrom(rows[c]) : <<c, s>> \in windows} = EligibleWindows(rows[c])
  <2> DEFINE score == records[c].score
  <2>1. rows[c] = score /\ c \in Accepted(records)
    BY <1>3, <1>4
  <2>2. IsScore(score)
    <3>1. records[c] \in Record /\ score # Reject
      BY <2>1 DEF Accepted, Recorded, TypeInv, DiskTyped
    <3> QED BY <3>1, RecordFacts, ScoreFacts
  <2>3. ASSUME NEW s
        PROVE  <<c, s>> \in windows <=> s \in LiveWindows(score)
    <3>1. ASSUME s \in LiveWindows(score) PROVE <<c, s>> \in windows
      <4>1. <<c, s>> \in {<<c, t>> : t \in LiveWindows(records[c].score)}
        BY <3>1
      <4> HIDE DEF kept
      <4> QED BY <1>4, <4>1
    <3>2. ASSUME <<c, s>> \in windows PROVE s \in LiveWindows(score)
      <4> HIDE DEF kept
      <4>1. PICK d \in kept : <<c, s>> \in {<<d, t>> : t \in LiveWindows(records[d].score)}
        BY <3>2
      <4>2. PICK t \in LiveWindows(records[d].score) : <<c, s>> = <<d, t>>
        BY <4>1
      <4> QED BY <4>2
    <3> QED BY <3>1, <3>2
  <2>4. LiveWindows(score) \subseteq WindowsFrom(score)
    BY DEF LiveWindows
  <2>5. {s \in WindowsFrom(score) : <<c, s>> \in windows} = LiveWindows(score)
    <3> HIDE DEF windows, score
    <3> QED BY <2>3, <2>4
  <2> HIDE DEF score, windows, kept, rows
  <2> QED BY <2>1, <2>2, <2>5, LiveIsEligible
<1> HIDE DEF kept, rows, windows
<1> QED BY <1>1, <1>4 DEF SnapshotWindowsAreLive

(* A snapshot trains on the windows that the live projection of the stored *)
(* rows finds eligible: those within one run of sounding bars.             *)
THEOREM SnapshotIsLive == Spec => []SnapshotWindowsAreLive
<1>1. Init => SnapshotWindowsAreLive
  BY DEF Init, SnapshotWindowsAreLive
<1>2. TypeInv /\ SnapshotWindowsAreLive /\ [Next]_vars => SnapshotWindowsAreLive'
  <2> SUFFICES ASSUME TypeInv, SnapshotWindowsAreLive, [Next]_vars
               PROVE  SnapshotWindowsAreLive'
    OBVIOUS
  <2>1. CASE Build
    BY <2>1, BuildTakesLive
  <2>2. CASE ~Build
    <3>1. snapshot' = snapshot
      BY <2>2 DEF Next, Start, Skip, Evaluate, Commit, EndSample, Finalize, Kill, vars
    <3> QED BY <3>1 DEF SnapshotWindowsAreLive
  <2> QED BY <2>1, <2>2
<1> QED BY <1>1, <1>2, Types, PTL DEF Spec

-----------------------------------------------------------------------------
(* Families of pieces: a forest in which the pieces of a score are joined. *)

(* A forest of pieces: each has a parent that does not come after it.      *)
Forest == {f \in [Song -> Song] : \A q \in Song : f[q] <= q}

LEMMA ForestFacts ==
    ASSUME NEW f \in Forest
    PROVE  /\ f \in [Song -> Song]
           /\ \A q \in Song : q \in Nat \ {0} /\ q <= SongCount /\ f[q] \in Song /\ f[q] <= q
<1>1. SongCount \in Nat
  BY CountAssumption
<1>2. \A q \in Song : q \in Nat \ {0} /\ q <= SongCount
  BY <1>1 DEF Song
<1> QED BY <1>2 DEF Forest

(* Up to n, r goes from each piece to the root of its tree.                *)
ClimbsTo(r, f, n) ==
    \A q \in Song : q <= n => r[q] = IF f[q] = q THEN q ELSE r[f[q]]

LEMMA ClimbsExist ==
    ASSUME NEW f \in Forest
    PROVE  \E r \in [Song -> Song] : ClimbsTo(r, f, SongCount)
<1> DEFINE U == {n \in Nat : n <= SongCount /\ ~\E r \in [Song -> Song] : ClimbsTo(r, f, n)}
<1>0. SongCount \in Nat
  BY CountAssumption
<1>1. U = {}
  <2> SUFFICES ASSUME U # {} PROVE FALSE
    OBVIOUS
  <2>1. PICK n \in U : \A m \in U : n <= m
    <3>1. U \subseteq Nat
      OBVIOUS
    <3> HIDE DEF U
    <3> QED BY <3>1, LeastOf
  <2>2. n \in Nat /\ n <= SongCount /\ ~\E r \in [Song -> Song] : ClimbsTo(r, f, n)
    BY <2>1
  <2>3. n # 0
    <3> SUFFICES ASSUME n = 0 PROVE FALSE
      OBVIOUS
    <3>1. [q \in Song |-> q] \in [Song -> Song] /\ ClimbsTo([q \in Song |-> q], f, 0)
      BY ForestFacts DEF ClimbsTo
    <3> QED BY <2>2, <3>1
  <2>4. n - 1 \in Nat /\ n - 1 <= SongCount /\ ~(n <= n - 1)
    BY <1>0, <2>2, <2>3
  <2>5. PICK r \in [Song -> Song] : ClimbsTo(r, f, n - 1)
    BY <2>1, <2>4
  <2>6. n \in Song
    BY <1>0, <2>2, <2>3 DEF Song
  <2> DEFINE s == [r EXCEPT ![n] = IF f[n] = n THEN n ELSE r[f[n]]]
  <2>7. s \in [Song -> Song]
    BY <2>6, ForestFacts
  <2>8. ASSUME NEW q \in Song, q <= n
        PROVE  s[q] = IF f[q] = q THEN q ELSE s[f[q]]
    <3>1. q \in Nat /\ f[q] \in Song /\ f[q] \in Nat /\ f[q] <= q
      BY ForestFacts
    <3>2. CASE q = n
      <4>1. s[q] = IF f[n] = n THEN n ELSE r[f[n]]
        BY <2>6, <3>2
      <4>2. f[n] # n => s[f[n]] = r[f[n]]
        BY <3>1, <3>2
      <4> QED BY <3>2, <4>1, <4>2
    <3>3. CASE q # n
      <4>1. q <= n - 1 /\ f[q] # n
        BY <2>2, <2>8, <3>1, <3>3
      <4>2. s[q] = r[q] /\ s[f[q]] = r[f[q]]
        BY <3>1, <3>3, <4>1
      <4>3. r[q] = IF f[q] = q THEN q ELSE r[f[q]]
        BY <2>5, <4>1 DEF ClimbsTo
      <4> HIDE DEF s
      <4> QED BY <4>2, <4>3
    <3> QED BY <3>2, <3>3
  <2>9. ClimbsTo(s, f, n)
    <3> HIDE DEF s
    <3> QED BY <2>8 DEF ClimbsTo
  <2> QED BY <2>2, <2>7, <2>9
<1>2. SongCount \notin U
  BY <1>1
<1> QED BY <1>0, <1>2

(* The root of a piece is that of its parent.                              *)
LEMMA RootSteps ==
    ASSUME NEW f \in Forest, NEW q \in Song
    PROVE  Root(f, q) = IF f[q] = q THEN q ELSE Root(f, f[q])
<1> DEFINE step(r) == [x \in Song |-> IF f[x] = x THEN x ELSE r[f[x]]]
           climb == CHOOSE r : r = step(r)
<1>1. PICK r \in [Song -> Song] : ClimbsTo(r, f, SongCount)
  BY ClimbsExist
<1>2. \A x \in Song : r[x] = IF f[x] = x THEN x ELSE r[f[x]]
  BY <1>1, ForestFacts DEF ClimbsTo
<1>3. r = step(r)
  BY <1>2
<1>4. climb = step(climb)
  <2> HIDE DEF step
  <2> QED BY <1>3
<1>5. \A p : Root(f, p) = climb[p]
  BY DEF Root
<1>6. climb[q] = IF f[q] = q THEN q ELSE climb[f[q]]
  <2> HIDE DEF climb
  <2> QED BY <1>4
<1> QED BY <1>5, <1>6

LEMMA RootFacts ==
    ASSUME NEW f \in Forest
    PROVE  \A q \in Song : Root(f, q) \in Song /\ f[Root(f, q)] = Root(f, q)
<1> DEFINE U == {q \in Song : ~(Root(f, q) \in Song /\ f[Root(f, q)] = Root(f, q))}
<1>1. U = {}
  <2> SUFFICES ASSUME U # {} PROVE FALSE
    OBVIOUS
  <2>1. PICK q \in U : \A p \in U : q <= p
    <3>1. U \subseteq Nat
      BY ForestFacts
    <3> HIDE DEF U
    <3> QED BY <3>1, LeastOf
  <2>2. q \in Song /\ q \in Nat /\ f[q] \in Song /\ f[q] \in Nat /\ f[q] <= q
    BY <2>1, ForestFacts
  <2>3. f[q] # q
    <3> SUFFICES ASSUME f[q] = q PROVE FALSE
      OBVIOUS
    <3>1. Root(f, q) = q
      BY <2>2, RootSteps
    <3> QED BY <2>1, <2>2, <3>1
  <2>4. f[q] \notin U
    BY <2>1, <2>2, <2>3
  <2>5. Root(f, q) = Root(f, f[q])
    BY <2>2, <2>3, RootSteps
  <2> QED BY <2>1, <2>2, <2>4, <2>5
<1> QED BY <1>1

(* Joining two pieces puts one of their trees below the other.             *)
LEMMA JoinRoots ==
    ASSUME NEW f \in Forest, NEW p \in Song, NEW q \in Song
    PROVE  /\ Join(f, p, q) \in Forest
           /\ \E lo, hi \in Song :
                /\ {lo, hi} = {Root(f, p), Root(f, q)}
                /\ \A x \in Song : Root(Join(f, p, q), x) = IF Root(f, x) = hi THEN lo ELSE Root(f, x)
<1> DEFINE a == Root(f, p)
           b == Root(f, q)
           lo == Min({a, b})
           hi == Max({a, b})
           g == [f EXCEPT ![hi] = lo]
<1>1. a \in Song /\ b \in Song /\ a \in Nat /\ b \in Nat /\ f[a] = a /\ f[b] = b
  BY RootFacts, ForestFacts
<1>2. lo \in {a, b} /\ lo = IF a <= b THEN a ELSE b
  <2>1. \E x \in {a, b} : \A y \in {a, b} : x <= y
    BY <1>1
  <2>2. lo \in {a, b} /\ \A y \in {a, b} : lo <= y
    BY <2>1 DEF Min
  <2> QED BY <1>1, <2>2
<1>3. hi = IF a <= b THEN b ELSE a
  BY <1>1, MaxOfTwo
<1>4. Join(f, p, q) = g
  BY DEF Join
<1> HIDE DEF lo, hi, a, b
<1>5. /\ lo \in Song /\ hi \in Song /\ lo \in Nat /\ hi \in Nat /\ lo <= hi
      /\ f[lo] = lo /\ f[hi] = hi /\ {lo, hi} = {a, b}
  BY <1>1, <1>2, <1>3
<1>6. g \in Forest
  <2>1. g \in [Song -> Song]
    BY <1>5, ForestFacts
  <2>2. ASSUME NEW x \in Song PROVE g[x] <= x
    BY <1>5, ForestFacts
  <2> QED BY <2>1, <2>2 DEF Forest
<1>7. \A x \in Song : g[x] = IF x = hi THEN lo ELSE f[x]
  BY <1>5, ForestFacts
<1> HIDE DEF g
<1> DEFINE U == {x \in Song : Root(g, x) # IF Root(f, x) = hi THEN lo ELSE Root(f, x)}
<1>8. U = {}
  <2> SUFFICES ASSUME U # {} PROVE FALSE
    OBVIOUS
  <2>1. PICK x \in U : \A y \in U : x <= y
    <3>1. U \subseteq Nat
      BY ForestFacts
    <3> HIDE DEF U
    <3> QED BY <3>1, LeastOf
  <2>2. /\ x \in Song /\ x \in Nat /\ f[x] \in Song /\ f[x] \in Nat /\ f[x] <= x
        /\ Root(g, x) # IF Root(f, x) = hi THEN lo ELSE Root(f, x)
    BY <2>1, ForestFacts
  <2>3. /\ Root(f, x) = IF f[x] = x THEN x ELSE Root(f, f[x])
        /\ Root(g, x) = IF g[x] = x THEN x ELSE Root(g, g[x])
        /\ g[x] = IF x = hi THEN lo ELSE f[x]
    BY <1>6, <1>7, <2>2, RootSteps
  <2>4. Root(g, lo) = lo
    <3>1. g[lo] = lo
      BY <1>5, <1>7
    <3> QED BY <1>5, <1>6, <3>1, RootSteps
  <2>5. CASE f[x] = x
    BY <1>5, <2>2, <2>3, <2>4, <2>5
  <2>6. CASE f[x] # x
    <3>1. x # hi /\ g[x] = f[x]
      BY <1>5, <2>3, <2>6
    <3>2. f[x] \notin U
      BY <2>1, <2>2, <2>6
    <3>3. Root(g, f[x]) = IF Root(f, f[x]) = hi THEN lo ELSE Root(f, f[x])
      BY <2>2, <3>2
    <3> QED BY <2>2, <2>3, <2>6, <3>1, <3>3
  <2> QED BY <2>5, <2>6
<1>9. \A x \in Song : Root(g, x) = IF Root(f, x) = hi THEN lo ELSE Root(f, x)
  BY <1>8
<1> HIDE DEF U
<1> QED BY <1>4, <1>5, <1>6, <1>9 DEF a, b

-----------------------------------------------------------------------------
(* Folds over finite sets, one element taken at a time.                    *)

Pick(s) == CHOOSE x \in s : TRUE

IsFold(h, S, base, g) ==
    \A s \in SUBSET S : h[s] = IF s = {} THEN base ELSE g[Pick(s)][h[s \ {Pick(s)}]]

FoldsTo(h, S, base, g, n) ==
    \A s \in SUBSET S : Cardinality(s) <= n =>
        h[s] = IF s = {} THEN base ELSE g[Pick(s)][h[s \ {Pick(s)}]]

LEMMA PickOne ==
    ASSUME NEW S, IsFiniteSet(S), NEW s \in SUBSET S
    PROVE  /\ Cardinality(s) \in Nat
           /\ s # {} => /\ Pick(s) \in s /\ s \ {Pick(s)} \in SUBSET S
                        /\ Cardinality(s \ {Pick(s)}) = Cardinality(s) - 1
<1>1. IsFiniteSet(s)
  BY FS_Subset
<1>2. Cardinality(s) \in Nat
  BY <1>1, FS_CardinalityType
<1>3. ASSUME s # {} PROVE Pick(s) \in s
  BY <1>3 DEF Pick
<1>4. ASSUME s # {} PROVE Cardinality(s \ {Pick(s)}) = Cardinality(s) - 1
  BY <1>1, <1>3, <1>4, FS_RemoveElement
<1> QED BY <1>2, <1>3, <1>4

LEMMA FoldExists ==
    ASSUME NEW S, IsFiniteSet(S), NEW V, NEW base \in V, NEW g \in [S -> [V -> V]]
    PROVE  \E h \in [SUBSET S -> V] : IsFold(h, S, base, g)
<1> DEFINE Maps == [SUBSET S -> V]
           U == {n \in Nat : ~\E h \in Maps : FoldsTo(h, S, base, g, n)}
<1>1. ASSUME NEW h \in Maps, NEW s \in SUBSET S
      PROVE  (IF s = {} THEN base ELSE g[Pick(s)][h[s \ {Pick(s)}]]) \in V
  <2>1. CASE s = {}
    BY <2>1
  <2>2. CASE s # {}
    <3>1. Pick(s) \in S /\ s \ {Pick(s)} \in SUBSET S
      BY <2>2, PickOne
    <3>2. g[Pick(s)] \in [V -> V] /\ h[s \ {Pick(s)}] \in V
      BY <3>1
    <3> QED BY <2>2, <3>2
  <2> QED BY <2>1, <2>2
<1>2. U = {}
  <2> SUFFICES ASSUME U # {} PROVE FALSE
    OBVIOUS
  <2>1. PICK n \in U : \A m \in U : n <= m
    <3>1. U \subseteq Nat
      OBVIOUS
    <3> HIDE DEF U
    <3> QED BY <3>1, LeastOf
  <2>2. n \in Nat /\ ~\E h \in Maps : FoldsTo(h, S, base, g, n)
    BY <2>1
  <2>3. PICK h \in Maps : n # 0 => FoldsTo(h, S, base, g, n - 1)
    <3>1. CASE n = 0
      <4>1. [s \in SUBSET S |-> base] \in Maps
        OBVIOUS
      <4> QED BY <3>1, <4>1
    <3>2. CASE n # 0
      <4>1. n - 1 \in Nat /\ ~(n <= n - 1)
        BY <2>2, <3>2
      <4> HIDE DEF Maps
      <4> QED BY <2>1, <3>2, <4>1
    <3> QED BY <3>1, <3>2
  <2> DEFINE k == [s \in SUBSET S |-> IF s = {} THEN base ELSE g[Pick(s)][h[s \ {Pick(s)}]]]
  <2>4. k \in Maps
    BY <1>1
  <2>5. ASSUME NEW s \in SUBSET S, Cardinality(s) <= n, s # {}
        PROVE  k[s \ {Pick(s)}] = h[s \ {Pick(s)}]
    <3>1. /\ s \ {Pick(s)} \in SUBSET S /\ Cardinality(s) \in Nat /\ Cardinality(s \ {Pick(s)}) \in Nat
          /\ Cardinality(s \ {Pick(s)}) = Cardinality(s) - 1
      <4>1. s \ {Pick(s)} \in SUBSET S
        OBVIOUS
      <4>2. Cardinality(s \ {Pick(s)}) \in Nat
        <5>1. IsFiniteSet(s \ {Pick(s)})
          BY <4>1, FS_Subset
        <5> QED BY <5>1, FS_CardinalityType
      <4>3. Cardinality(s) \in Nat /\ Cardinality(s \ {Pick(s)}) = Cardinality(s) - 1
        BY <2>5, PickOne
      <4> QED BY <4>1, <4>2, <4>3
    <3>2. n # 0 /\ Cardinality(s \ {Pick(s)}) <= n - 1
      BY <2>2, <2>5, <3>1
    <3> QED BY <2>3, <3>1, <3>2 DEF FoldsTo
  <2>6. FoldsTo(k, S, base, g, n)
    <3>1. ASSUME NEW s \in SUBSET S, Cardinality(s) <= n
          PROVE  k[s] = IF s = {} THEN base ELSE g[Pick(s)][k[s \ {Pick(s)}]]
      BY <2>5, <3>1
    <3> HIDE DEF k
    <3> QED BY <3>1 DEF FoldsTo
  <2> QED BY <2>2, <2>4, <2>6
<1>3. Cardinality(S) \in Nat /\ Cardinality(S) \notin U
  BY <1>2, FS_CardinalityType
<1>4. PICK h \in Maps : FoldsTo(h, S, base, g, Cardinality(S))
  BY <1>3
<1>5. \A s \in SUBSET S : Cardinality(s) <= Cardinality(S)
  BY FS_Subset
<1> QED BY <1>4, <1>5 DEF FoldsTo, IsFold

(* Step x of g brings about G[x], and no other step undoes it.             *)
Attains(S, V, g, G) ==
    /\ g \in [S -> [V -> V]] /\ G \in [S -> SUBSET V]
    /\ \A x \in S, v \in V : g[x][v] \in G[x]
    /\ \A x, y \in S : \A v \in G[x] : g[y][v] \in G[x]

(* h is the fold of g as long as it is in V.                               *)
FoldsWithin(h, S, V, base, g) ==
    \A s \in SUBSET S :
        IF s = {} THEN h[s] = base
        ELSE h[s \ {Pick(s)}] \in V => h[s] = g[Pick(s)][h[s \ {Pick(s)}]]

LEMMA FoldReaches ==
    ASSUME NEW S, IsFiniteSet(S), NEW V, NEW base \in V, NEW g, NEW G, Attains(S, V, g, G),
           NEW h, FoldsWithin(h, S, V, base, g)
    PROVE  h[S] \in V /\ \A x \in S : h[S] \in G[x]
<1>0. /\ g \in [S -> [V -> V]] /\ G \in [S -> SUBSET V]
      /\ \A x \in S, v \in V : g[x][v] \in G[x]
      /\ \A x, y \in S : \A v \in G[x] : g[y][v] \in G[x]
  BY DEF Attains
<1> DEFINE Done(s) == h[s] \in V /\ \A x \in s : h[s] \in G[x]
           U == {n \in Nat : \E s \in SUBSET S : Cardinality(s) = n /\ ~Done(s)}
<1>1. U = {}
  <2> SUFFICES ASSUME U # {} PROVE FALSE
    OBVIOUS
  <2>1. PICK n \in U : \A m \in U : n <= m
    <3>1. U \subseteq Nat
      OBVIOUS
    <3> HIDE DEF U
    <3> QED BY <3>1, LeastOf
  <2>2. PICK s \in SUBSET S : Cardinality(s) = n /\ ~Done(s)
    BY <2>1
  <2>3. CASE s = {}
    BY <2>2, <2>3 DEF FoldsWithin
  <2>4. CASE s # {}
    <3> DEFINE x == Pick(s)
               t == s \ {x}
    <3>1. x \in s /\ t \in SUBSET S /\ Cardinality(t) = n - 1 /\ n \in Nat /\ Cardinality(t) \in Nat
      BY <2>2, <2>4, PickOne
    <3>2. Done(t)
      <4>1. ~(n <= Cardinality(t))
        BY <3>1
      <4>2. Cardinality(t) \notin U
        <5> HIDE DEF U, t
        <5> QED BY <2>1, <4>1
      <4> QED BY <3>1, <4>2
    <3>3. h[s] = g[x][h[t]]
      BY <2>4, <3>2 DEF FoldsWithin
    <3>4. s \subseteq S /\ s = t \cup {x}
      BY <3>1
    <3> HIDE DEF t, x
    <3>5. h[s] \in G[x] /\ G[x] \subseteq V
      BY <1>0, <3>1, <3>2, <3>3, <3>4
    <3>6. \A y \in t : h[s] \in G[y]
      BY <1>0, <3>1, <3>2, <3>3, <3>4
    <3> QED BY <2>2, <3>4, <3>5, <3>6
  <2> QED BY <2>3, <2>4
<1>2. Cardinality(S) \in Nat /\ S \in SUBSET S
  BY FS_CardinalityType
<1> QED BY <1>1, <1>2

-----------------------------------------------------------------------------
(* Families.                                                               *)

(* Pieces of one tree of f are of one tree of g.                           *)
Coarser(g, f) == \A p, q \in Song : Root(f, p) = Root(f, q) => Root(g, p) = Root(g, q)

LEMMA JoinCoarsens ==
    ASSUME NEW f \in Forest, NEW p \in Song, NEW q \in Song
    PROVE  /\ Join(f, p, q) \in Forest /\ Coarser(Join(f, p, q), f)
           /\ Root(Join(f, p, q), p) = Root(Join(f, p, q), q)
<1>1. PICK lo, hi \in Song :
        /\ {lo, hi} = {Root(f, p), Root(f, q)}
        /\ \A x \in Song : Root(Join(f, p, q), x) = IF Root(f, x) = hi THEN lo ELSE Root(f, x)
  BY JoinRoots
<1>2. Coarser(Join(f, p, q), f)
  BY <1>1 DEF Coarser
<1>3. Root(Join(f, p, q), p) = Root(Join(f, p, q), q)
  BY <1>1
<1> QED BY <1>2, <1>3, JoinRoots

(* The pieces of a score are joined with the first of them, one by one.    *)
Linked(ps, parent) == FoldSet(LAMBDA p, f : Join(f, Min(ps), p), parent, ps \ {Min(ps)})

LEMMA LinkedForm ==
    ASSUME NEW ps, NEW parent
    PROVE  Linked(ps, parent) =
             (CHOOSE h : h = [s \in SUBSET (ps \ {Min(ps)}) |->
                                IF s = {} THEN parent ELSE Join(h[s \ {Pick(s)}], Min(ps), Pick(s))])
                 [ps \ {Min(ps)}]
  BY DEF Linked, FoldSet, MapThenFoldSet, Pick

LEMMA LinkedJoins ==
    ASSUME NEW ps \in SUBSET Song, ps # {}, NEW f \in Forest
    PROVE  /\ Linked(ps, f) \in Forest /\ Coarser(Linked(ps, f), f)
           /\ \A p, q \in ps : Root(Linked(ps, f), p) = Root(Linked(ps, f), q)
<1> DEFINE m == Min(ps)
           S == ps \ {m}
           V == {v \in Forest : Coarser(v, f)}
           g == [p \in S |-> [v \in V |-> Join(v, m, p)]]
           G == [p \in S |-> {v \in V : Root(v, m) = Root(v, p)}]
           step(h) == [s \in SUBSET S |-> IF s = {} THEN f ELSE Join(h[s \ {Pick(s)}], m, Pick(s))]
           fold == CHOOSE h : h = step(h)
<1>1. m \in ps /\ m \in Song
  <2>1. ps \subseteq Nat
    BY ForestFacts
  <2>2. PICK k \in ps : \A j \in ps : k <= j
    BY <2>1, LeastOf
  <2> QED BY <2>2 DEF Min
<1>2. IsFiniteSet(S) /\ S \subseteq Song
  <2>1. IsFiniteSet(Song)
    BY CountAssumption, FS_Interval DEF Song
  <2>2. S \in SUBSET Song
    OBVIOUS
  <2> QED BY <2>1, <2>2, FS_Subset
<1>3. Linked(ps, f) = fold[S]
  BY LinkedForm
<1> HIDE DEF m, S
<1>4. f \in V
  BY DEF Coarser
<1>5. ASSUME NEW p \in S, NEW v \in V
      PROVE  Join(v, m, p) \in V /\ Root(Join(v, m, p), m) = Root(Join(v, m, p), p)
  <2>1. Join(v, m, p) \in Forest /\ Coarser(Join(v, m, p), v)
    BY <1>1, <1>2, JoinCoarsens
  <2>2. Coarser(Join(v, m, p), f)
    BY <2>1 DEF Coarser
  <2> QED BY <1>1, <1>2, <2>1, <2>2, JoinCoarsens
<1>6. g \in [S -> [V -> V]] /\ G \in [S -> SUBSET V]
  BY <1>5
<1>7. \A p \in S, v \in V : g[p][v] = Join(v, m, p) /\ g[p][v] \in G[p]
  BY <1>5
<1>8. ASSUME NEW p \in S, NEW q \in S, NEW v \in G[p]
      PROVE  g[q][v] \in G[p]
  <2>1. v \in V /\ Root(v, m) = Root(v, p) /\ v \in Forest
    BY <1>8
  <2>2. Join(v, m, q) \in V /\ Coarser(Join(v, m, q), v)
    BY <1>1, <1>2, <1>5, <2>1, JoinCoarsens
  <2>3. Root(Join(v, m, q), m) = Root(Join(v, m, q), p)
    BY <1>1, <1>2, <2>1, <2>2 DEF Coarser
  <2> QED BY <1>7, <2>1, <2>2, <2>3
<1> HIDE DEF V, g, G
<1>9. PICK h \in [SUBSET S -> V] : IsFold(h, S, f, g)
  BY <1>2, <1>4, <1>6, FoldExists
<1>10. h = step(h)
  <2>1. \A s \in SUBSET S : h[s] = step(h)[s]
    <3> SUFFICES ASSUME NEW s \in SUBSET S PROVE h[s] = step(h)[s]
      OBVIOUS
    <3>1. CASE s = {}
      BY <1>9, <3>1 DEF IsFold
    <3>2. CASE s # {}
      <4>1. Pick(s) \in S /\ h[s \ {Pick(s)}] \in V
        BY <1>2, <3>2, PickOne
      <4>2. h[s] = g[Pick(s)][h[s \ {Pick(s)}]]
        BY <1>9, <3>2 DEF IsFold
      <4> QED BY <1>7, <3>2, <4>1, <4>2
    <3> QED BY <3>1, <3>2
  <2> QED BY <2>1
<1>11. fold = step(fold)
  <2> HIDE DEF step
  <2> QED BY <1>10
<1> HIDE DEF fold
<1>12. FoldsWithin(fold, S, V, f, g)
  <2> SUFFICES ASSUME NEW s \in SUBSET S
               PROVE  IF s = {} THEN fold[s] = f
                      ELSE fold[s \ {Pick(s)}] \in V => fold[s] = g[Pick(s)][fold[s \ {Pick(s)}]]
    BY DEF FoldsWithin
  <2>1. fold[s] = IF s = {} THEN f ELSE Join(fold[s \ {Pick(s)}], m, Pick(s))
    BY <1>11
  <2>2. s # {} => Pick(s) \in S
    BY <1>2, PickOne
  <2> QED BY <1>7, <2>1, <2>2
<1>13. fold[S] \in V /\ \A p \in S : fold[S] \in G[p]
  <2>1. Attains(S, V, g, G)
    BY <1>6, <1>7, <1>8 DEF Attains
  <2> HIDE DEF step
  <2> QED BY <1>2, <1>4, <1>12, <2>1, FoldReaches
<1>14. \A p \in S : Root(fold[S], m) = Root(fold[S], p)
  BY <1>13 DEF G
<1>15. ps = S \cup {m}
  BY <1>1 DEF S
<1> QED BY <1>3, <1>13, <1>14, <1>15 DEF V

PiecesOf(recs, x) == {Piece(c) : c \in {d \in Accepted(recs) : recs[d].score = x}}

LEMMA FamiliesForm ==
    ASSUME NEW recs
    PROVE  Families(recs) =
             LET parents == (CHOOSE h : h = [s \in SUBSET Scores(recs) |->
                                               IF s = {} THEN [p \in Song |-> p]
                                               ELSE Linked(PiecesOf(recs, Pick(s)), h[s \ {Pick(s)}])])
                                [Scores(recs)]
             IN  [p \in Song |-> Root(parents, p)]
  BY DEF Families, Linked, PiecesOf, FoldSet, MapThenFoldSet, Pick

LEMMA CandidatesAreFinite == IsFiniteSet(Candidate)
<1> DEFINE tracksOf(s) == {s} \X (1 .. Tracks[s])
           all == {tracksOf(s) : s \in Song}
<1>1. IsFiniteSet(Song)
  BY CountAssumption, FS_Interval DEF Song
<1>2. ASSUME NEW s \in Song PROVE IsFiniteSet(tracksOf(s))
  <2>1. Tracks[s] \in Nat
    BY CandidateShape
  <2>2. IsFiniteSet({s})
    BY FS_Singleton
  <2>3. IsFiniteSet(1 .. Tracks[s])
    BY <2>1, FS_Interval
  <2> QED BY <2>2, <2>3, FS_Product
<1>3. IsFiniteSet(all)
  <2> DEFINE m == [s \in Song |-> tracksOf(s)]
  <2>1. m \in Surjection(Song, all)
    BY DEF Surjection
  <2> HIDE DEF all, m
  <2> QED BY <1>1, <2>1, FS_Surjection
<1>4. \A T \in all : IsFiniteSet(T)
  <2> HIDE DEF tracksOf
  <2> QED BY <1>2
<1>5. Candidate = UNION all
  BY DEF Candidate
<1> HIDE DEF all
<1> QED BY <1>3, <1>4, <1>5, FS_UNION

LEMMA ScoresOf ==
    ASSUME NEW recs
    PROVE  /\ IsFiniteSet(Scores(recs))
           /\ \A x \in Scores(recs) : PiecesOf(recs, x) \in SUBSET Song /\ PiecesOf(recs, x) # {}
           /\ \A c \in Accepted(recs) : /\ recs[c].score \in Scores(recs)
                                        /\ Piece(c) \in PiecesOf(recs, recs[c].score)
<1>1. Accepted(recs) \in SUBSET Candidate
  BY DEF Accepted, Recorded
<1>2. IsFiniteSet(Accepted(recs))
  BY <1>1, CandidatesAreFinite, FS_Subset
<1>3. IsFiniteSet(Scores(recs))
  <2> DEFINE m == [c \in Accepted(recs) |-> recs[c].score]
  <2>1. m \in Surjection(Accepted(recs), Scores(recs))
    BY DEF Surjection, Scores
  <2> HIDE DEF m
  <2> QED BY <1>2, <2>1, FS_Surjection
<1>4. \A c \in Accepted(recs) : Piece(c) \in Song
  BY <1>1, CandidateShape DEF Piece
<1> QED BY <1>3, <1>4 DEF Scores, PiecesOf

(* Pieces with a score in common are of one family.                        *)
LEMMA FamiliesHold ==
    ASSUME NEW recs, NEW c \in Accepted(recs), NEW d \in Accepted(recs),
           recs[c].score = recs[d].score
    PROVE  Families(recs)[Piece(c)] = Families(recs)[Piece(d)]
<1> DEFINE S == Scores(recs)
           base == [p \in Song |-> p]
           ps(x) == PiecesOf(recs, x)
           g == [x \in S |-> [v \in Forest |-> Linked(ps(x), v)]]
           G == [x \in S |-> {v \in Forest : \A p, q \in ps(x) : Root(v, p) = Root(v, q)}]
           step(h) == [s \in SUBSET S |-> IF s = {} THEN base
                                          ELSE Linked(ps(Pick(s)), h[s \ {Pick(s)}])]
           fold == CHOOSE h : h = step(h)
<1>1. Families(recs) = [p \in Song |-> Root(fold[S], p)]
  BY FamiliesForm
<1>2. IsFiniteSet(S) /\ \A x \in S : ps(x) \in SUBSET Song /\ ps(x) # {}
  BY ScoresOf
<1>3. base \in Forest
  <2>1. \A q \in Song : q <= q
    BY CandidateShape
  <2> QED BY <2>1 DEF Forest
<1> HIDE DEF S, base, ps
<1>4. ASSUME NEW x \in S, NEW v \in Forest
      PROVE  /\ Linked(ps(x), v) \in Forest /\ Coarser(Linked(ps(x), v), v)
             /\ \A p, q \in ps(x) : Root(Linked(ps(x), v), p) = Root(Linked(ps(x), v), q)
  BY <1>2, LinkedJoins
<1>5. g \in [S -> [Forest -> Forest]] /\ G \in [S -> SUBSET Forest]
  BY <1>4
<1>6. \A x \in S, v \in Forest : g[x][v] = Linked(ps(x), v) /\ g[x][v] \in G[x]
  BY <1>4
<1>7. ASSUME NEW x \in S, NEW y \in S, NEW v \in G[x]
      PROVE  g[y][v] \in G[x]
  <2>1. v \in Forest /\ \A p, q \in ps(x) : Root(v, p) = Root(v, q)
    BY <1>7
  <2>2. Linked(ps(y), v) \in Forest /\ Coarser(Linked(ps(y), v), v)
    BY <1>4, <2>1
  <2>3. \A p, q \in ps(x) : p \in Song /\ q \in Song
    BY <1>2
  <2>4. \A p, q \in ps(x) : Root(Linked(ps(y), v), p) = Root(Linked(ps(y), v), q)
    BY <2>1, <2>2, <2>3 DEF Coarser
  <2> QED BY <1>6, <2>1, <2>2, <2>4
<1> HIDE DEF g, G
<1>8. Attains(S, Forest, g, G)
  BY <1>5, <1>6, <1>7 DEF Attains
<1>9. PICK h \in [SUBSET S -> Forest] : IsFold(h, S, base, g)
  BY <1>2, <1>3, <1>5, FoldExists
<1>10. h = step(h)
  <2>1. ASSUME NEW s \in SUBSET S PROVE h[s] = step(h)[s]
    <3>1. CASE s = {}
      BY <1>9, <3>1 DEF IsFold
    <3>2. CASE s # {}
      <4>1. Pick(s) \in S /\ h[s \ {Pick(s)}] \in Forest
        BY <1>2, <3>2, PickOne
      <4>2. h[s] = g[Pick(s)][h[s \ {Pick(s)}]]
        BY <1>9, <3>2 DEF IsFold
      <4> QED BY <1>6, <3>2, <4>1, <4>2
    <3> QED BY <3>1, <3>2
  <2> QED BY <2>1
<1>11. fold = step(fold)
  <2> HIDE DEF step
  <2> QED BY <1>10
<1> HIDE DEF fold
<1>12. FoldsWithin(fold, S, Forest, base, g)
  <2> SUFFICES ASSUME NEW s \in SUBSET S
               PROVE  IF s = {} THEN fold[s] = base
                      ELSE fold[s \ {Pick(s)}] \in Forest => fold[s] = g[Pick(s)][fold[s \ {Pick(s)}]]
    BY DEF FoldsWithin
  <2>1. fold[s] = IF s = {} THEN base ELSE Linked(ps(Pick(s)), fold[s \ {Pick(s)}])
    BY <1>11
  <2>2. s # {} => Pick(s) \in S
    BY <1>2, PickOne
  <2> QED BY <1>6, <2>1, <2>2
<1>13. \A x \in S : fold[S] \in G[x]
  <2> HIDE DEF step
  <2> QED BY <1>2, <1>3, <1>8, <1>12, FoldReaches
<1>14. \A x \in S : \A p, q \in ps(x) : Root(fold[S], p) = Root(fold[S], q)
  BY <1>13 DEF G
<1>15. recs[c].score \in S /\ Piece(c) \in ps(recs[c].score) /\ Piece(d) \in ps(recs[c].score)
  BY ScoresOf DEF S, ps
<1>16. Root(fold[S], Piece(c)) = Root(fold[S], Piece(d)) /\ Piece(c) \in Song /\ Piece(d) \in Song
  BY <1>2, <1>14, <1>15
<1> QED BY <1>1, <1>16

(* Two streams of a snapshot that come from one piece, or from pieces with *)
(* a score in common, directly or through others, are of one family and so *)
(* train in one split.                                                     *)
THEOREM FamiliesStayWhole == Spec => []NoFamilyIsSplit
<1>1. Init => NoFamilyIsSplit
  BY DEF Init, NoFamilyIsSplit
<1>2. NoFamilyIsSplit /\ [Next]_vars => NoFamilyIsSplit'
  <2> SUFFICES ASSUME NoFamilyIsSplit, [Next]_vars
               PROVE  NoFamilyIsSplit'
    OBVIOUS
  <2>1. CASE Build
    <3>1. /\ snapshot'.rows = [c \in Accepted(records) |-> records[c].score]
          /\ snapshot'.family = Families(records)
      BY <2>1 DEF Build, Snapshot
    <3>2. ASSUME NEW c \in DOMAIN snapshot'.rows, NEW d \in DOMAIN snapshot'.rows,
                 snapshot'.rows[c] = snapshot'.rows[d]
          PROVE  snapshot'.family[Piece(c)] = snapshot'.family[Piece(d)]
      <4>1. /\ c \in Accepted(records) /\ d \in Accepted(records)
            /\ records[c].score = records[d].score
        BY <3>1, <3>2
      <4> QED BY <3>1, <4>1, FamiliesHold
    <3> QED BY <3>2 DEF NoFamilyIsSplit
  <2>2. CASE ~Build
    <3>1. snapshot' = snapshot
      BY <2>2 DEF Next, Start, Skip, Evaluate, Commit, EndSample, Finalize, Kill, vars
    <3> QED BY <3>1 DEF NoFamilyIsSplit
  <2> QED BY <2>1, <2>2
<1> QED BY <1>1, <1>2, PTL DEF Spec


-----------------------------------------------------------------------------
(* The ends of the notes a bar hears, clipped to it.                       *)

LEMMA MinOfTwo ==
    ASSUME NEW a \in Nat, NEW b \in Nat
    PROVE  Min({a, b}) \in Nat /\ Min({a, b}) = IF a <= b THEN a ELSE b
<1>1. \E x \in {a, b} : \A y \in {a, b} : x <= y
  OBVIOUS
<1>2. Min({a, b}) \in {a, b} /\ \A y \in {a, b} : Min({a, b}) <= y
  BY <1>1 DEF Min
<1> QED BY <1>2

LEMMA BarBounds ==
    ASSUME NEW i \in Nat
    PROVE  /\ BarStart(i) \in Nat /\ BarEnd(i) \in Nat /\ BarStart(i) < BarEnd(i)
           /\ BarEnd(i) = BarStart(i + 1) /\ BarStart(i) <= BarStart(i + 1)
           /\ BarStart(0) = 0
<1> SUFFICES ASSUME NEW B \in Nat \ {0}
             PROVE  /\ i * B \in Nat /\ (i + 1) * B \in Nat /\ i * B < (i + 1) * B
                    /\ 0 * B = 0
  BY BarAssumption DEF BarStart, BarEnd
<1>1. i * B \in Nat /\ (i + 1) * B \in Nat
  OBVIOUS
<1>2. (i + 1) * B = i * B + B
  BY Z3
<1> QED BY <1>1, <1>2

Heard(score, i) == {k \in DOMAIN score : Overlaps(score[k], i)}

Left(score, i, k)  == Max({BarStart(i), score[k].onset})
Right(score, i, k) == Min({BarEnd(i), score[k].end})

Up(score, i, k)   == [tick |-> Left(score, i, k), delta |-> 1, index |-> k]
Down(score, i, k) == [tick |-> Right(score, i, k), delta |-> -1, index |-> k]

Ends(score, i) == {Up(score, i, k) : k \in Heard(score, i)} \cup
                  {Down(score, i, k) : k \in Heard(score, i)}

LEMMA HeardIsFinite ==
    ASSUME NEW score, IsScore(score), NEW i \in Nat, NEW ks \in SUBSET Heard(score, i)
    PROVE  IsFiniteSet(ks) /\ Cardinality(ks) \in Nat
<1>1. IsFiniteSet(DOMAIN score)
  BY NotesOf, FS_Interval
<1>2. ks \in SUBSET DOMAIN score
  BY DEF Heard
<1>3. IsFiniteSet(ks)
  BY <1>1, <1>2, FS_Subset
<1> QED BY <1>3, FS_CardinalityType

LEMMA HeardInBar ==
    ASSUME NEW score, IsScore(score), NEW i \in Nat, NEW k \in Heard(score, i)
    PROVE  /\ Left(score, i, k) \in Nat /\ Right(score, i, k) \in Nat /\ k \in Nat
           /\ BarStart(i) <= Left(score, i, k) /\ Left(score, i, k) < Right(score, i, k)
           /\ Right(score, i, k) <= BarEnd(i)
           /\ \A t \in Ticks(i) : (Left(score, i, k) <= t /\ t < Right(score, i, k))
                                      <=> k \in SoundingAt(score, t)
<1>1. /\ k \in DOMAIN score /\ score[k].onset \in Nat /\ score[k].end \in Nat /\ k \in Nat
      /\ score[k].onset < score[k].end /\ score[k].onset < BarEnd(i) /\ score[k].end > BarStart(i)
  BY NotesOf DEF Heard, Overlaps
<1>2. BarStart(i) \in Nat /\ BarEnd(i) \in Nat /\ BarStart(i) < BarEnd(i)
  BY BarBounds
<1>3. Left(score, i, k) \in Nat
      /\ Left(score, i, k) = IF BarStart(i) <= score[k].onset THEN score[k].onset ELSE BarStart(i)
  BY <1>1, <1>2, MaxOfTwo DEF Left
<1>4. Right(score, i, k) \in Nat
      /\ Right(score, i, k) = IF BarEnd(i) <= score[k].end THEN BarEnd(i) ELSE score[k].end
  BY <1>1, <1>2, MinOfTwo DEF Right
<1>5. \A t \in Ticks(i) : t \in Nat /\ BarStart(i) <= t /\ t < BarEnd(i)
  BY <1>2 DEF Ticks
<1>6. \A t \in Ticks(i) : (Left(score, i, k) <= t /\ t < Right(score, i, k)) <=> k \in SoundingAt(score, t)
  BY <1>1, <1>2, <1>3, <1>4, <1>5 DEF SoundingAt
<1> QED BY <1>1, <1>2, <1>3, <1>4, <1>6

LEMMA SoundingIsHeard ==
    ASSUME NEW score, IsScore(score), NEW i \in Nat, NEW t \in Ticks(i)
    PROVE  t \in Nat /\ BarStart(i) <= t /\ t < BarEnd(i) /\ SoundingAt(score, t) \subseteq Heard(score, i)
<1>1. BarStart(i) \in Nat /\ BarEnd(i) \in Nat
  BY BarBounds
<1>2. t \in Nat /\ BarStart(i) <= t /\ t < BarEnd(i)
  BY <1>1 DEF Ticks
<1>3. \A k \in DOMAIN score : score[k].onset \in Nat /\ score[k].end \in Nat
  BY NotesOf
<1> QED BY <1>1, <1>2, <1>3 DEF SoundingAt, Heard, Overlaps

(* The ends as the extractors make them, of all notes of the score.        *)
LEMMA ClippedEnds ==
    ASSUME NEW score, NEW i, NEW notes, {n \in notes : Overlaps(n, i)} = {n \in Numbered(score) : Overlaps(n, i)}
    PROVE  Clipped({n \in notes : Overlaps(n, i)}, i) = Ends(score, i)
<1> DEFINE C == {n \in Numbered(score) : Overlaps(n, i)}
           rec(k) == [onset |-> score[k].onset, end |-> score[k].end, index |-> k]
           up(n) == [tick |-> Max({BarStart(i), n.onset}), delta |-> 1, index |-> n.index]
           down(n) == [tick |-> Min({BarEnd(i), n.end}), delta |-> -1, index |-> n.index]
<1>1. C = {rec(k) : k \in Heard(score, i)}
  BY DEF Numbered, Heard, Overlaps
<1>2. Clipped(C, i) = {up(n) : n \in C} \cup {down(n) : n \in C}
  BY DEF Clipped
<1>3. \A k : up(rec(k)) = Up(score, i, k) /\ down(rec(k)) = Down(score, i, k)
  BY DEF Up, Down, Left, Right
<1> HIDE DEF C, rec, up, down
<1>4. {up(n) : n \in C} = {Up(score, i, k) : k \in Heard(score, i)}
  BY <1>1, <1>3
<1>5. {down(n) : n \in C} = {Down(score, i, k) : k \in Heard(score, i)}
  BY <1>1, <1>3
<1>6. Clipped(C, i) = Ends(score, i)
  BY <1>2, <1>4, <1>5 DEF Ends
<1> QED BY <1>6 DEF C

LEMMA EndFacts ==
    ASSUME NEW score, IsScore(score), NEW i \in Nat
    PROVE  /\ IsFiniteSet(Ends(score, i)) /\ Cardinality(Ends(score, i)) \in Nat
           /\ \A b \in Ends(score, i) :
                /\ b.tick \in Nat /\ b.delta \in {1, -1} /\ b.index \in Nat
                /\ b = [tick |-> b.tick, delta |-> b.delta, index |-> b.index]
                /\ BarStart(i) <= b.tick /\ b.tick <= BarEnd(i)
                /\ b.delta = 1 => b.tick < BarEnd(i)
<1> DEFINE K == Heard(score, i)
           up(k) == Up(score, i, k)
           down(k) == Down(score, i, k)
           ups == {up(k) : k \in K}
           downs == {down(k) : k \in K}
<1>1. IsFiniteSet(K)
  BY HeardIsFinite
<1> HIDE DEF up, down, K
<1>2. IsFiniteSet(ups)
  <2> DEFINE m == [k \in K |-> up(k)]
  <2>1. m \in Surjection(K, ups)
    BY DEF Surjection
  <2> HIDE DEF m, ups
  <2> QED BY <1>1, <2>1, FS_Surjection
<1>3. IsFiniteSet(downs)
  <2> DEFINE m == [k \in K |-> down(k)]
  <2>1. m \in Surjection(K, downs)
    BY DEF Surjection
  <2> HIDE DEF m, downs
  <2> QED BY <1>1, <2>1, FS_Surjection
<1>4. Ends(score, i) = ups \cup downs
  BY DEF Ends, up, down, K
<1>5. IsFiniteSet(Ends(score, i)) /\ Cardinality(Ends(score, i)) \in Nat
  <2> HIDE DEF ups, downs
  <2> QED BY <1>2, <1>3, <1>4, FS_Union, FS_CardinalityType
<1>6. ASSUME NEW b \in Ends(score, i)
      PROVE  /\ b.tick \in Nat /\ b.delta \in {1, -1} /\ b.index \in Nat
             /\ b = [tick |-> b.tick, delta |-> b.delta, index |-> b.index]
             /\ BarStart(i) <= b.tick /\ b.tick <= BarEnd(i)
             /\ b.delta = 1 => b.tick < BarEnd(i)
  <2>1. PICK k \in Heard(score, i) : b = Up(score, i, k) \/ b = Down(score, i, k)
    BY DEF Ends
  <2>2. /\ Left(score, i, k) \in Nat /\ Right(score, i, k) \in Nat /\ k \in Nat
        /\ BarStart(i) <= Left(score, i, k) /\ Left(score, i, k) < Right(score, i, k)
        /\ Right(score, i, k) <= BarEnd(i)
    BY HeardInBar
  <2>3. BarStart(i) \in Nat /\ BarEnd(i) \in Nat
    BY BarBounds
  <2> QED BY <2>1, <2>2, <2>3 DEF Up, Down
<1> QED BY <1>5, <1>6

-----------------------------------------------------------------------------
(* The order of the ends: each has its place among them.                   *)

Ending == [tick : Nat, delta : {1, -1}, index : Nat]

LEMMA BeforeOrder ==
    ASSUME NEW a \in Ending, NEW b \in Ending
    PROVE  /\ ~Before(a, a)
           /\ a = b \/ Before(a, b) \/ Before(b, a)
           /\ Before(a, b) => ~Before(b, a) /\ a.tick <= b.tick
           /\ \A c \in Ending : Before(a, b) /\ Before(b, c) => Before(a, c)
<1>1. /\ a.tick \in Nat /\ a.delta \in Int /\ a.index \in Nat
      /\ b.tick \in Nat /\ b.delta \in Int /\ b.index \in Nat
      /\ \A c \in Ending : c.tick \in Nat /\ c.delta \in Int /\ c.index \in Nat
      /\ (a.tick = b.tick /\ a.delta = b.delta /\ a.index = b.index) => a = b
  BY DEF Ending
<1>2. ~Before(a, a)
  BY <1>1 DEF Before
<1>3. a = b \/ Before(a, b) \/ Before(b, a)
  BY <1>1 DEF Before
<1>4. Before(a, b) => ~Before(b, a) /\ a.tick <= b.tick
  BY <1>1 DEF Before
<1>5. \A c \in Ending : Before(a, b) /\ Before(b, c) => Before(a, c)
  BY <1>1 DEF Before
<1> QED BY <1>2, <1>3, <1>4, <1>5

Place(E, b) == Cardinality({a \in E : Before(a, b)})

LEMMA PlaceFacts ==
    ASSUME NEW E \in SUBSET Ending, IsFiniteSet(E), NEW b \in E
    PROVE  /\ Place(E, b) \in Nat /\ Cardinality(E) \in Nat /\ Place(E, b) < Cardinality(E)
           /\ \A c \in E : Before(b, c) => Place(E, b) < Place(E, c)
<1> DEFINE lower(c) == {a \in E : Before(a, c)}
<1>1. \A c \in E : IsFiniteSet(lower(c)) /\ Cardinality(lower(c)) \in Nat
  <2> SUFFICES ASSUME NEW c \in E PROVE IsFiniteSet(lower(c)) /\ Cardinality(lower(c)) \in Nat
    OBVIOUS
  <2>1. lower(c) \in SUBSET E
    OBVIOUS
  <2>2. IsFiniteSet(lower(c))
    BY <2>1, FS_Subset
  <2> QED BY <2>2, FS_CardinalityType
<1>2. Cardinality(E) \in Nat
  BY FS_CardinalityType
<1>3. b \notin lower(b) /\ lower(b) \cup {b} \in SUBSET E
  BY BeforeOrder
<1>4. Cardinality(lower(b) \cup {b}) = Cardinality(lower(b)) + 1
  BY <1>1, <1>3, FS_AddElement
<1>5. Cardinality(lower(b) \cup {b}) <= Cardinality(E)
  BY <1>3, FS_Subset
<1>6. ASSUME NEW c \in E, Before(b, c)
      PROVE  Cardinality(lower(b)) < Cardinality(lower(c))
  <2>1. lower(b) \cup {b} \in SUBSET lower(c)
    <3>1. ASSUME NEW a \in E, Before(a, b) PROVE Before(a, c)
      <4>1. a \in Ending /\ b \in Ending /\ c \in Ending
        OBVIOUS
      <4> QED BY <1>6, <3>1, <4>1, BeforeOrder
    <3> QED BY <1>6, <3>1
  <2>2. Cardinality(lower(b) \cup {b}) <= Cardinality(lower(c))
    BY <1>1, <2>1, FS_Subset
  <2> QED BY <1>1, <1>4, <2>2
<1>7. Place(E, b) = Cardinality(lower(b)) /\ \A c : Place(E, c) = Cardinality(lower(c))
  BY DEF Place
<1> HIDE DEF lower
<1> QED BY <1>1, <1>2, <1>4, <1>5, <1>6, <1>7

LEMMA PlacesAreTaken ==
    ASSUME NEW E \in SUBSET Ending, IsFiniteSet(E)
    PROVE  /\ \A b, c \in E : Place(E, b) = Place(E, c) => b = c
           /\ \A r \in 0 .. Cardinality(E) - 1 : \E b \in E : Place(E, b) = r
<1> DEFINE n == Cardinality(E)
           m == [b \in E |-> Place(E, b)]
<1>1. n \in Nat
  BY FS_CardinalityType
<1>2. ASSUME NEW b \in E, NEW c \in E, Place(E, b) = Place(E, c)
      PROVE  b = c
  <2>1. Place(E, b) \in Nat /\ Place(E, c) \in Nat
    BY PlaceFacts
  <2>2. ~Before(b, c) /\ ~Before(c, b)
    BY <1>2, <2>1, PlaceFacts
  <2> QED BY <2>2, BeforeOrder
<1>3. m \in [E -> 0 .. n - 1]
  <2> SUFFICES ASSUME NEW b \in E PROVE Place(E, b) \in 0 .. n - 1
    OBVIOUS
  <2>1. Place(E, b) \in Nat /\ Place(E, b) < n
    BY PlaceFacts
  <2> QED BY <1>1, <2>1
<1>4. m \in Injection(E, 0 .. n - 1)
  BY <1>2, <1>3 DEF Injection, IsInjective
<1>5. IsFiniteSet(0 .. n - 1) /\ Cardinality(0 .. n - 1) = n
  BY <1>1, FS_Interval
<1>6. m \in Surjection(E, 0 .. n - 1)
  <2> HIDE DEF m
  <2> QED BY <1>4, <1>5, FS_Injection
<1>7. \A r \in 0 .. n - 1 : \E b \in E : Place(E, b) = r
  BY <1>6 DEF Surjection
<1> QED BY <1>2, <1>7

(* The end at place k - 1, and those up to there.                          *)
Turn(E, k) == CHOOSE b \in E : Place(E, b) = k - 1
Taken(E, k) == {b \in E : Place(E, b) < k}

LEMMA TurnFacts ==
    ASSUME NEW E \in SUBSET Ending, IsFiniteSet(E), NEW k \in 1 .. Cardinality(E)
    PROVE  /\ Turn(E, k) \in E /\ Turn(E, k) \notin Taken(E, k - 1)
           /\ Taken(E, k) = Taken(E, k - 1) \cup {Turn(E, k)}
           /\ \A c \in E : /\ c \in Taken(E, k - 1) <=> Before(c, Turn(E, k))
                           /\ c \notin Taken(E, k) <=> Before(Turn(E, k), c)
<1> DEFINE b == Turn(E, k)
<1>1. Cardinality(E) \in Nat /\ k \in Nat /\ k - 1 \in 0 .. Cardinality(E) - 1
  <2>1. Cardinality(E) \in Nat
    BY FS_CardinalityType
  <2> QED BY <2>1
<1>2. b \in E /\ Place(E, b) = k - 1
  <2>1. \E x \in E : Place(E, x) = k - 1
    BY <1>1, PlacesAreTaken
  <2> QED BY <2>1 DEF Turn
<1> HIDE DEF b
<1>3. \A c \in E : /\ Place(E, c) \in Nat
                   /\ Before(b, c) => Place(E, b) < Place(E, c)
                   /\ Before(c, b) => Place(E, c) < Place(E, b)
                   /\ c = b \/ Before(b, c) \/ Before(c, b)
  <2> SUFFICES ASSUME NEW c \in E
               PROVE  /\ Place(E, c) \in Nat
                      /\ Before(b, c) => Place(E, b) < Place(E, c)
                      /\ Before(c, b) => Place(E, c) < Place(E, b)
                      /\ c = b \/ Before(b, c) \/ Before(c, b)
    OBVIOUS
  <2>1. c \in Ending /\ b \in Ending
    BY <1>2
  <2> QED BY <1>2, <2>1, PlaceFacts, BeforeOrder
<1>4. ~Before(b, b)
  BY <1>2, BeforeOrder
<1>5. b \notin Taken(E, k - 1) /\ Taken(E, k) = Taken(E, k - 1) \cup {b}
  BY <1>1, <1>2, <1>3 DEF Taken
<1>6. \A c \in E : /\ c \in Taken(E, k - 1) <=> Before(c, b)
                   /\ c \notin Taken(E, k) <=> Before(b, c)
  BY <1>1, <1>2, <1>3, <1>4 DEF Taken
<1> QED BY <1>2, <1>5, <1>6 DEF b

LEMMA TakenEnds ==
    ASSUME NEW E \in SUBSET Ending, IsFiniteSet(E)
    PROVE  Taken(E, 0) = {} /\ Taken(E, Cardinality(E)) = E
  BY PlaceFacts DEF Taken

-----------------------------------------------------------------------------
(* How many notes sound after some of the ends.                            *)

On(score, i, H)  == {k \in Heard(score, i) : Up(score, i, k) \in H}
Off(score, i, H) == {k \in Heard(score, i) : Down(score, i, k) \in H}

Level(score, i, H) == Cardinality(On(score, i, H)) - Cardinality(Off(score, i, H))

LEMMA OnOff ==
    ASSUME NEW score, IsScore(score), NEW i \in Nat, NEW H
    PROVE  /\ IsFiniteSet(On(score, i, H)) /\ Cardinality(On(score, i, H)) \in Nat
           /\ IsFiniteSet(Off(score, i, H)) /\ Cardinality(Off(score, i, H)) \in Nat
<1>1. On(score, i, H) \in SUBSET Heard(score, i) /\ Off(score, i, H) \in SUBSET Heard(score, i)
  BY DEF On, Off
<1> QED BY <1>1, HeardIsFinite

(* After all ends up to a tick, those that sound in it.                    *)
LEMMA LevelAt ==
    ASSUME NEW score, IsScore(score), NEW i \in Nat, NEW t \in Ticks(i)
    PROVE  LET H == {b \in Ends(score, i) : b.tick <= t}
           IN  /\ On(score, i, H) = {k \in Heard(score, i) : Left(score, i, k) <= t}
               /\ Off(score, i, H) = {k \in Heard(score, i) : Right(score, i, k) <= t}
               /\ Level(score, i, H) = Cardinality(SoundingAt(score, t))
<1> DEFINE H == {b \in Ends(score, i) : b.tick <= t}
           on == On(score, i, H)
           off == Off(score, i, H)
<1>1. \A k \in Heard(score, i) : /\ Up(score, i, k) \in Ends(score, i) /\ Up(score, i, k).tick = Left(score, i, k)
                                 /\ Down(score, i, k) \in Ends(score, i) /\ Down(score, i, k).tick = Right(score, i, k)
  BY DEF Ends, Up, Down
<1>2. /\ on = {k \in Heard(score, i) : Left(score, i, k) <= t}
      /\ off = {k \in Heard(score, i) : Right(score, i, k) <= t}
  BY <1>1 DEF On, Off
<1>3. IsFiniteSet(on) /\ IsFiniteSet(off) /\ Cardinality(on) \in Nat /\ Cardinality(off) \in Nat
  BY OnOff
<1>4. Level(score, i, H) = Cardinality(on) - Cardinality(off)
  BY DEF Level
<1>5. \A k \in Heard(score, i) :
        /\ Left(score, i, k) \in Nat /\ Right(score, i, k) \in Nat /\ Left(score, i, k) < Right(score, i, k)
        /\ (Left(score, i, k) <= t /\ t < Right(score, i, k)) <=> k \in SoundingAt(score, t)
  BY HeardInBar
<1>6. t \in Nat /\ SoundingAt(score, t) \subseteq Heard(score, i)
  BY SoundingIsHeard
<1> HIDE DEF on, off, H
<1>7. off = on \cap off /\ on \ off = SoundingAt(score, t)
  BY <1>2, <1>5, <1>6
<1>8. Cardinality(on \ off) = Cardinality(on) - Cardinality(on \cap off)
  BY <1>3, FS_Difference
<1> QED BY <1>2, <1>4, <1>7, <1>8 DEF on, off, H

LEMMA EndsAreEndings ==
    ASSUME NEW score, IsScore(score), NEW i \in Nat
    PROVE  Ends(score, i) \in SUBSET Ending /\ IsFiniteSet(Ends(score, i))
<1>1. \A b \in Ends(score, i) : b \in Ending
  BY EndFacts DEF Ending
<1> QED BY <1>1, EndFacts

(* The next end takes a note up or drops one that was taken up.            *)
LEMMA NextLevel ==
    ASSUME NEW score, IsScore(score), NEW i \in Nat, NEW k \in 1 .. Cardinality(Ends(score, i))
    PROVE  LET E == Ends(score, i)
               b == Turn(E, k)
           IN  /\ Level(score, i, Taken(E, k)) = Level(score, i, Taken(E, k - 1)) + b.delta
               /\ Level(score, i, Taken(E, k)) \in Nat
<1> DEFINE E == Ends(score, i)
           b == Turn(E, k)
           H == Taken(E, k - 1)
           G == Taken(E, k)
<1>1. E \in SUBSET Ending /\ IsFiniteSet(E)
  BY EndsAreEndings
<1>2. /\ b \in E /\ b \notin H /\ G = H \cup {b}
      /\ \A c \in E : c \notin G <=> Before(b, c)
  BY <1>1, TurnFacts
<1> HIDE DEF b, H, G
<1>3. PICK x \in Heard(score, i) : b = Up(score, i, x) \/ b = Down(score, i, x)
  BY <1>2 DEF Ends
<1>4. \A y, z : /\ Up(score, i, y) # Down(score, i, z)
                /\ Up(score, i, y) = Up(score, i, z) => y = z
                /\ Down(score, i, y) = Down(score, i, z) => y = z
                /\ Up(score, i, y).delta = 1 /\ Down(score, i, y).delta = -1
  <2> SUFFICES ASSUME NEW y, NEW z
               PROVE  /\ Up(score, i, y) # Down(score, i, z)
                      /\ Up(score, i, y) = Up(score, i, z) => y = z
                      /\ Down(score, i, y) = Down(score, i, z) => y = z
                      /\ Up(score, i, y).delta = 1 /\ Down(score, i, y).delta = -1
    OBVIOUS
  <2>1. /\ Up(score, i, y).delta = 1 /\ Down(score, i, y).delta = -1 /\ Down(score, i, z).delta = -1
        /\ Up(score, i, y).index = y /\ Up(score, i, z).index = z
        /\ Down(score, i, y).index = y /\ Down(score, i, z).index = z
    BY DEF Up, Down
  <2>2. 1 # -1
    OBVIOUS
  <2> QED BY <2>1, <2>2
<1>5. /\ IsFiniteSet(On(score, i, H)) /\ Cardinality(On(score, i, H)) \in Nat
      /\ IsFiniteSet(Off(score, i, H)) /\ Cardinality(Off(score, i, H)) \in Nat
      /\ IsFiniteSet(On(score, i, G)) /\ Cardinality(On(score, i, G)) \in Nat
      /\ IsFiniteSet(Off(score, i, G)) /\ Cardinality(Off(score, i, G)) \in Nat
  BY OnOff
<1>6. Level(score, i, G) = Level(score, i, H) + b.delta
  <2>1. CASE b = Up(score, i, x)
    <3>1. x \notin On(score, i, H) /\ On(score, i, G) = On(score, i, H) \cup {x}
      BY <1>2, <1>3, <1>4, <2>1 DEF On
    <3>2. Off(score, i, G) = Off(score, i, H)
      BY <1>2, <1>4, <2>1 DEF Off
    <3>3. Cardinality(On(score, i, G)) = Cardinality(On(score, i, H)) + 1
      BY <1>5, <3>1, FS_AddElement
    <3> QED BY <1>4, <1>5, <2>1, <3>2, <3>3 DEF Level
  <2>2. CASE b = Down(score, i, x)
    <3>1. x \notin Off(score, i, H) /\ Off(score, i, G) = Off(score, i, H) \cup {x}
      BY <1>2, <1>3, <1>4, <2>2 DEF Off
    <3>2. On(score, i, G) = On(score, i, H)
      BY <1>2, <1>4, <2>2 DEF On
    <3>3. Cardinality(Off(score, i, G)) = Cardinality(Off(score, i, H)) + 1
      BY <1>5, <3>1, FS_AddElement
    <3> QED BY <1>4, <1>5, <2>2, <3>2, <3>3 DEF Level
  <2> QED BY <1>3, <2>1, <2>2
<1>7. Off(score, i, G) \in SUBSET On(score, i, G)
  <2> SUFFICES ASSUME NEW y \in Heard(score, i), Down(score, i, y) \in G, Up(score, i, y) \notin G
               PROVE  FALSE
    BY DEF On, Off
  <2>1. Up(score, i, y) \in E /\ Down(score, i, y) \in E
    BY DEF Ends
  <2>2. Before(b, Up(score, i, y)) /\ ~Before(b, Down(score, i, y))
    BY <1>2, <2>1
  <2>3. Before(Up(score, i, y), Down(score, i, y))
    BY HeardInBar DEF Before, Up, Down
  <2>4. b \in Ending /\ Up(score, i, y) \in Ending /\ Down(score, i, y) \in Ending
    BY <1>1, <1>2, <2>1
  <2> QED BY <2>2, <2>3, <2>4, BeforeOrder
<1>8. Cardinality(Off(score, i, G)) <= Cardinality(On(score, i, G))
  BY <1>5, <1>7, FS_Subset
<1>9. Level(score, i, G) \in Nat
  BY <1>5, <1>8 DEF Level
<1> QED BY <1>6, <1>9 DEF b, H, G

(* A note taken up sounds with those taken up before it.                   *)
LEMMA LevelBound ==
    ASSUME NEW score, IsScore(score), NEW i \in Nat, NEW k \in 1 .. Cardinality(Ends(score, i)),
           Turn(Ends(score, i), k).delta = 1
    PROVE  LET t == Turn(Ends(score, i), k).tick
           IN  /\ t \in Ticks(i)
               /\ Level(score, i, Taken(Ends(score, i), k)) <= Cardinality(SoundingAt(score, t))
<1> DEFINE E == Ends(score, i)
           b == Turn(E, k)
           t == b.tick
           G == Taken(E, k)
           H == {c \in E : c.tick <= t}
<1>1. E \in SUBSET Ending /\ IsFiniteSet(E)
  BY EndsAreEndings
<1>2. b \in E /\ \A c \in E : c \notin G <=> Before(b, c)
  BY <1>1, TurnFacts
<1>3. t \in Nat /\ BarStart(i) <= t /\ t < BarEnd(i)
  BY <1>2, EndFacts
<1>4. t \in Ticks(i)
  BY <1>3, BarBounds DEF Ticks
<1>5. Level(score, i, H) = Cardinality(SoundingAt(score, t))
  BY <1>4, LevelAt
<1>6. G \subseteq E
  BY DEF Taken
<1> HIDE DEF E, b, G
<1>7. \A c \in E : c \in G => c.tick <= t
  <2> SUFFICES ASSUME NEW c \in E, c \in G PROVE c.tick <= t
    OBVIOUS
  <2>1. c \in Ending /\ b \in Ending /\ ~Before(b, c)
    BY <1>1, <1>2
  <2> QED BY <1>3, <2>1, BeforeOrder
<1>8. \A c \in E : c.tick <= t /\ c.delta = -1 => c \in G
  <2> SUFFICES ASSUME NEW c \in E, c.tick <= t, c.delta = -1, Before(b, c) PROVE FALSE
    BY <1>2
  <2>1. c.tick \in Nat /\ b.delta = 1
    BY <1>1 DEF Ending, b, E
  <2> QED BY <1>3, <2>1 DEF Before
<1>9. On(score, i, G) \in SUBSET On(score, i, H)
  BY <1>6, <1>7 DEF On
<1>10. Off(score, i, H) \in SUBSET Off(score, i, G)
  BY <1>8 DEF Off, Down
<1>11. /\ IsFiniteSet(On(score, i, H)) /\ Cardinality(On(score, i, H)) \in Nat
       /\ Cardinality(Off(score, i, H)) \in Nat
       /\ Cardinality(On(score, i, G)) \in Nat
       /\ IsFiniteSet(Off(score, i, G)) /\ Cardinality(Off(score, i, G)) \in Nat
  BY OnOff
<1>12. Cardinality(On(score, i, G)) <= Cardinality(On(score, i, H))
  BY <1>9, <1>11, FS_Subset
<1>13. Cardinality(Off(score, i, H)) <= Cardinality(Off(score, i, G))
  BY <1>10, <1>11, FS_Subset
<1>14. Level(score, i, G) <= Level(score, i, H)
  BY <1>11, <1>12, <1>13 DEF Level
<1> QED BY <1>4, <1>5, <1>14 DEF E, b, G

-----------------------------------------------------------------------------
(* The sweep over the ends.                                                *)

(* The ends up to a tick are those taken between two turns.                *)
LEMMA TakenAt ==
    ASSUME NEW score, IsScore(score), NEW i \in Nat, NEW t \in Nat,
           NEW k \in 0 .. Cardinality(Ends(score, i)),
           k # 0 => Turn(Ends(score, i), k).tick <= t,
           k # Cardinality(Ends(score, i)) => t < Turn(Ends(score, i), k + 1).tick
    PROVE  {c \in Ends(score, i) : c.tick <= t} = Taken(Ends(score, i), k)
<1> DEFINE E == Ends(score, i)
           n == Cardinality(E)
<1>1. E \in SUBSET Ending /\ IsFiniteSet(E) /\ n \in Nat
  BY EndsAreEndings, FS_CardinalityType
<1>2. \A c \in E : c.tick \in Nat /\ c \in Ending
  BY <1>1 DEF Ending
<1>3. ASSUME NEW c \in E, c \in Taken(E, k)
      PROVE  c.tick <= t
  <2>1. k # 0
    BY <1>1, <1>3, TakenEnds
  <2>2. k \in 1 .. n
    BY <1>1, <2>1
  <2>3. Turn(E, k) \in E /\ ~Before(Turn(E, k), c)
    BY <1>1, <1>3, <2>2, TurnFacts
  <2>4. c.tick <= Turn(E, k).tick
    BY <1>2, <2>3, BeforeOrder
  <2> QED BY <1>2, <2>1, <2>3, <2>4
<1>4. ASSUME NEW c \in E, c \notin Taken(E, k)
      PROVE  t < c.tick
  <2>1. k # n
    BY <1>1, <1>4, TakenEnds
  <2>2. k + 1 \in 1 .. n /\ (k + 1) - 1 = k
    BY <1>1, <2>1
  <2>3. Turn(E, k + 1) \in E /\ ~Before(c, Turn(E, k + 1))
    BY <1>1, <1>4, <2>2, TurnFacts
  <2>4. Turn(E, k + 1).tick <= c.tick
    BY <1>2, <2>3, BeforeOrder
  <2> QED BY <1>2, <2>1, <2>3, <2>4
<1>5. Taken(E, k) \subseteq E
  BY DEF Taken
<1>6. \A c \in E : c.tick <= t <=> c \in Taken(E, k)
  BY <1>2, <1>3, <1>4
<1> QED BY <1>5, <1>6

(* The most notes at a time.                                               *)
LEMMA MostFacts ==
    ASSUME NEW score, IsScore(score), NEW i \in Nat
    PROVE  /\ HeardFeatures(score, i).voices \in Nat
           /\ \A t \in Ticks(i) : /\ Cardinality(SoundingAt(score, t)) \in Nat
                                  /\ Cardinality(SoundingAt(score, t)) <= HeardFeatures(score, i).voices
           /\ \E t \in Ticks(i) : Cardinality(SoundingAt(score, t)) = HeardFeatures(score, i).voices
<1> DEFINE sizes == {Cardinality(SoundingAt(score, t)) : t \in Ticks(i)}
           all == Cardinality(Heard(score, i))
<1>1. HeardFeatures(score, i).voices = Max(sizes)
  BY DEF HeardFeatures
<1>2. IsFiniteSet(Heard(score, i)) /\ all \in Nat
  BY HeardIsFinite
<1>3. ASSUME NEW t \in Ticks(i)
      PROVE  Cardinality(SoundingAt(score, t)) \in Nat /\ Cardinality(SoundingAt(score, t)) <= all
  <2>1. SoundingAt(score, t) \in SUBSET Heard(score, i)
    BY SoundingIsHeard
  <2> QED BY <1>2, <2>1, HeardIsFinite, FS_Subset
<1>4. BarStart(i) \in Ticks(i)
  BY BarBounds DEF Ticks
<1>5. sizes \subseteq Nat /\ sizes # {} /\ \A x \in sizes : x <= all
  BY <1>3, <1>4
<1>6. Max(sizes) \in sizes /\ \A x \in sizes : x <= Max(sizes)
  <2> HIDE DEF sizes
  <2> QED BY <1>2, <1>5, MaxOf
<1> QED BY <1>1, <1>3, <1>5, <1>6

(* What has been heard of the bar before tick p.                           *)
Gone(score, i, p) == {t \in Ticks(i) : t < p /\ SoundingAt(score, t) # {}}

(* The state s of the sweep after k ends.                                  *)
SweptTo(score, i, k, s) ==
    /\ s.active = Level(score, i, Taken(Ends(score, i), k)) /\ s.active \in Nat
    /\ s.previous = IF k = 0 THEN BarStart(i) ELSE Turn(Ends(score, i), k).tick
    /\ s.previous \in Nat /\ BarStart(i) <= s.previous /\ s.previous <= BarEnd(i)
    /\ s.voices \in Nat /\ s.voices <= HeardFeatures(score, i).voices
    /\ \A j \in 0 .. k : Level(score, i, Taken(Ends(score, i), j)) <= s.voices
    /\ s.occupied = Cardinality(Gone(score, i, s.previous)) /\ s.occupied \in Nat

AtBarStart(i) == [active |-> 0, voices |-> 0, occupied |-> 0, previous |-> BarStart(i)]

LEMMA SweptInit ==
    ASSUME NEW score, IsScore(score), NEW i \in Nat
    PROVE  SweptTo(score, i, 0, AtBarStart(i))
<1> DEFINE s == AtBarStart(i)
<1>1. s.active = 0 /\ s.voices = 0 /\ s.occupied = 0 /\ s.previous = BarStart(i)
  BY DEF AtBarStart
<1>2. BarStart(i) \in Nat /\ BarEnd(i) \in Nat /\ BarStart(i) < BarEnd(i)
  BY BarBounds
<1>3. Level(score, i, Taken(Ends(score, i), 0)) = 0
  <2>1. Taken(Ends(score, i), 0) = {}
    BY EndsAreEndings, TakenEnds
  <2>2. On(score, i, {}) = {} /\ Off(score, i, {}) = {}
    BY DEF On, Off
  <2> QED BY <2>1, <2>2, FS_EmptySet DEF Level
<1>4. Cardinality(Gone(score, i, BarStart(i))) = 0
  <2>1. Gone(score, i, BarStart(i)) = {}
    BY <1>2 DEF Gone, Ticks
  <2> QED BY <2>1, FS_EmptySet
<1>5. HeardFeatures(score, i).voices \in Nat
  BY MostFacts
<1> HIDE DEF s
<1>6. \A j \in 0 .. 0 : Level(score, i, Taken(Ends(score, i), j)) <= s.voices
  <2>1. \A j \in 0 .. 0 : j = 0
    OBVIOUS
  <2> QED BY <1>1, <1>3, <2>1
<1>7. SweptTo(score, i, 0, s)
  BY <1>1, <1>2, <1>3, <1>4, <1>5, <1>6 DEF SweptTo
<1> QED BY <1>7 DEF s

(* Between two turns as many notes sound in each tick as are taken up.     *)
LEMMA SoundsBetween ==
    ASSUME NEW score, IsScore(score), NEW i \in Nat, NEW k \in 0 .. Cardinality(Ends(score, i)),
           NEW s, SweptTo(score, i, k, s), NEW t \in Ticks(i), s.previous <= t,
           k # Cardinality(Ends(score, i)) => t < Turn(Ends(score, i), k + 1).tick
    PROVE  SoundingAt(score, t) # {} <=> s.active > 0
<1>1. t \in Nat /\ SoundingAt(score, t) \in SUBSET Heard(score, i)
  BY SoundingIsHeard
<1>2. {c \in Ends(score, i) : c.tick <= t} = Taken(Ends(score, i), k)
  <2>1. k # 0 => Turn(Ends(score, i), k).tick <= t
    BY DEF SweptTo
  <2> QED BY <1>1, <2>1, TakenAt
<1>3. s.active = Cardinality(SoundingAt(score, t)) /\ s.active \in Nat
  BY <1>2, LevelAt DEF SweptTo
<1>4. IsFiniteSet(SoundingAt(score, t))
  BY <1>1, HeardIsFinite
<1>5. Cardinality(SoundingAt(score, t)) = 0 <=> SoundingAt(score, t) = {}
  BY <1>4, FS_EmptySet
<1> QED BY <1>3, <1>5

(* From tick p to q all ticks are heard, or none.                          *)
AllOrNone(score, i, p, q, level) ==
    \A t \in Ticks(i) : p <= t /\ t < q => (SoundingAt(score, t) # {} <=> level > 0)

LEMMA GoneGrows ==
    ASSUME NEW score, IsScore(score), NEW i \in Nat, NEW p \in Nat, NEW q \in Nat, NEW level \in Nat,
           BarStart(i) <= p, p <= q, q <= BarEnd(i),
           AllOrNone(score, i, p, q, level)
    PROVE  /\ Cardinality(Gone(score, i, p)) \in Nat
           /\ Cardinality(Gone(score, i, q)) = Cardinality(Gone(score, i, p)) + (IF level > 0 THEN q - p ELSE 0)
<1> DEFINE old == Gone(score, i, p)
           new == p .. q - 1
<1>1. BarStart(i) \in Nat /\ BarEnd(i) \in Nat
  BY BarBounds
<1>2. IsFiniteSet(old) /\ Cardinality(old) \in Nat
  <2>1. IsFiniteSet(Ticks(i))
    BY <1>1, FS_Interval DEF Ticks
  <2>2. old \in SUBSET Ticks(i)
    BY DEF Gone
  <2>3. IsFiniteSet(old)
    BY <2>1, <2>2, FS_Subset
  <2> QED BY <2>3, FS_CardinalityType
<1>3. \A t \in Ticks(i) : t \in Nat
  BY <1>1 DEF Ticks
<1>4. CASE level > 0
  <2>1. Gone(score, i, q) = old \cup new
    <3>1. new \subseteq Ticks(i)
      BY <1>1 DEF Ticks
    <3>2. ASSUME NEW t \in Ticks(i)
          PROVE  t \in Gone(score, i, q) <=> t \in old \cup new
      BY <1>3, <1>4 DEF Gone, AllOrNone
    <3> QED BY <3>1, <3>2 DEF Gone
  <2>2. old \cap new = {}
    BY DEF Gone
  <2>3. IsFiniteSet(new) /\ Cardinality(new) = q - p
    <3>1. p \in Int /\ q - 1 \in Int
      OBVIOUS
    <3>2. IsFiniteSet(new) /\ Cardinality(new) = IF p > q - 1 THEN 0 ELSE (q - 1) - p + 1
      BY <3>1, FS_Interval
    <3> HIDE DEF new
    <3> QED BY <3>2
  <2> HIDE DEF old, new
  <2>4. Cardinality(old \cup new) = Cardinality(old) + Cardinality(new) - 0
    BY <1>2, <2>2, <2>3, FS_Union, FS_EmptySet
  <2> QED BY <1>2, <1>4, <2>1, <2>3, <2>4 DEF old
<1>5. CASE ~(level > 0)
  <2>1. Gone(score, i, q) = old
    BY <1>3, <1>5 DEF Gone, AllOrNone
  <2> QED BY <1>2, <1>5, <2>1
<1> QED BY <1>4, <1>5

LEMMA SweptStep ==
    ASSUME NEW score, IsScore(score), NEW i \in Nat, NEW k \in 1 .. Cardinality(Ends(score, i)),
           NEW s, SweptTo(score, i, k - 1, s)
    PROVE  SweptTo(score, i, k, Sweep(s, Turn(Ends(score, i), k)))
<1> DEFINE E == Ends(score, i)
           b == Turn(E, k)
           r == Sweep(s, b)
           before == Level(score, i, Taken(E, k - 1))
           after == Level(score, i, Taken(E, k))
           most == HeardFeatures(score, i).voices
<1>1. /\ E \in SUBSET Ending /\ IsFiniteSet(E) /\ Cardinality(E) \in Nat
      /\ k \in Nat /\ k - 1 \in Nat /\ k # 0
  BY EndsAreEndings, FS_CardinalityType
<1>2. b \in E /\ \A c \in E : c \in Taken(E, k - 1) <=> Before(c, b)
  BY <1>1, TurnFacts
<1>3. b.tick \in Nat /\ b.delta \in {1, -1} /\ BarStart(i) <= b.tick /\ b.tick <= BarEnd(i)
  BY <1>2, EndFacts
<1>4. after = before + b.delta /\ after \in Nat
  BY NextLevel
<1>5. /\ s.active = before /\ s.active \in Nat
      /\ s.previous = (IF k - 1 = 0 THEN BarStart(i) ELSE Turn(E, k - 1).tick)
      /\ s.previous \in Nat /\ BarStart(i) <= s.previous
      /\ s.voices \in Nat /\ s.voices <= most /\ most \in Nat
      /\ \A j \in 0 .. k - 1 : Level(score, i, Taken(E, j)) <= s.voices
      /\ s.occupied = Cardinality(Gone(score, i, s.previous)) /\ s.occupied \in Nat
  BY MostFacts DEF SweptTo
<1>6. /\ r.active = s.active + b.delta /\ r.previous = b.tick
      /\ r.voices = Max({s.voices, s.active + b.delta})
      /\ r.occupied = IF s.active > 0 THEN s.occupied + (b.tick - s.previous) ELSE s.occupied
  BY DEF Sweep
<1>7. s.previous <= b.tick
  <2>1. CASE k - 1 = 0
    BY <1>3, <1>5, <2>1
  <2>2. CASE k - 1 # 0
    <3> DEFINE a == Turn(E, k - 1)
    <3>1. k - 1 \in 1 .. Cardinality(E)
      BY <1>1, <2>2
    <3>2. a \in E /\ a \in Taken(E, k - 1)
      BY <1>1, <3>1, TurnFacts
    <3>3. Before(a, b) /\ a \in Ending /\ b \in Ending
      BY <1>1, <1>2, <3>2
    <3>4. a.tick <= b.tick
      BY <3>3, BeforeOrder
    <3> QED BY <1>5, <2>2, <3>4
  <2> QED BY <2>1, <2>2
<1>8. r.active = after /\ r.active \in Nat
  BY <1>4, <1>5, <1>6
<1>9. r.voices \in Nat /\ r.voices = IF s.voices <= after THEN after ELSE s.voices
  BY <1>4, <1>5, <1>6, MaxOfTwo
<1>10. r.voices <= most
  <2>1. CASE b.delta = 1
    <3>1. after <= most
      <4> DEFINE t == b.tick
      <4>1. t \in Ticks(i) /\ after <= Cardinality(SoundingAt(score, t))
        BY <2>1, LevelBound
      <4>2. Cardinality(SoundingAt(score, t)) \in Nat /\ Cardinality(SoundingAt(score, t)) <= most
        BY <4>1, MostFacts
      <4> HIDE DEF t, after, most
      <4> QED BY <1>4, <1>5, <4>1, <4>2
    <3> QED BY <1>5, <1>9, <3>1
  <2>2. CASE b.delta = -1
    <3>1. k - 1 \in 0 .. k - 1
      BY <1>1
    <3>2. before <= s.voices
      BY <1>5, <3>1
    <3>3. after <= s.voices
      BY <1>4, <1>5, <2>2, <3>2
    <3> QED BY <1>4, <1>5, <1>9, <3>3
  <2> QED BY <1>3, <2>1, <2>2
<1>11. \A j \in 0 .. k : Level(score, i, Taken(E, j)) <= r.voices
  <2> SUFFICES ASSUME NEW j \in 0 .. k PROVE Level(score, i, Taken(E, j)) <= r.voices
    OBVIOUS
  <2>1. CASE j = k
    BY <1>4, <1>5, <1>9, <2>1
  <2>2. CASE j # k
    <3>1. j \in 0 .. k - 1
      BY <1>1, <2>2
    <3>2. Level(score, i, Taken(E, j)) <= s.voices /\ Level(score, i, Taken(E, j)) \in Int
      BY <1>5, <3>1, OnOff DEF Level
    <3> QED BY <1>4, <1>5, <1>9, <3>2
  <2> QED BY <2>1, <2>2
<1>12. r.occupied = Cardinality(Gone(score, i, b.tick)) /\ r.occupied \in Nat
  <2>1. ASSUME NEW t \in Ticks(i), s.previous <= t, t < b.tick
        PROVE  SoundingAt(score, t) # {} <=> s.active > 0
    <3>1. k - 1 \in 0 .. Cardinality(E) /\ (k - 1) + 1 = k
      BY <1>1
    <3> QED BY <2>1, <3>1, SoundsBetween
  <2>2. /\ Cardinality(Gone(score, i, s.previous)) \in Nat
        /\ Cardinality(Gone(score, i, b.tick)) =
             Cardinality(Gone(score, i, s.previous)) + (IF s.active > 0 THEN b.tick - s.previous ELSE 0)
    <3> DEFINE p == s.previous
               q == b.tick
               level == s.active
    <3>1. /\ p \in Nat /\ q \in Nat /\ level \in Nat
          /\ BarStart(i) <= p /\ p <= q /\ q <= BarEnd(i)
      BY <1>3, <1>5, <1>7
    <3>2. AllOrNone(score, i, p, q, level)
      BY <2>1 DEF AllOrNone
    <3> HIDE DEF p, q, level
    <3>3. /\ Cardinality(Gone(score, i, p)) \in Nat
          /\ Cardinality(Gone(score, i, q)) = Cardinality(Gone(score, i, p)) + (IF level > 0 THEN q - p ELSE 0)
      BY <3>1, <3>2, GoneGrows
    <3> QED BY <3>3 DEF p, q, level
  <2> QED BY <1>3, <1>5, <1>6, <1>7, <2>2
<1> HIDE DEF r
<1>13. SweptTo(score, i, k, r)
  BY <1>1, <1>3, <1>6, <1>8, <1>9, <1>10, <1>11, <1>12 DEF SweptTo
<1> QED BY <1>13 DEF r

-----------------------------------------------------------------------------
(* The sweep as the extractors run it, from its recursion.                 *)

SweepsTo(f, n, start, turn, m) ==
    \A k \in 0 .. n : k <= m => f[k] = IF k = 0 THEN start ELSE Sweep(f[k - 1], turn[k])

IsSwept(f, n, start, turn) ==
    f = [k \in 0 .. n |-> IF k = 0 THEN start ELSE Sweep(f[k - 1], turn[k])]

LEMMA SweepExists ==
    ASSUME NEW n \in Nat, NEW start, NEW turn
    PROVE  \E f : IsSwept(f, n, start, turn)
<1> DEFINE next(f) == [k \in 0 .. n |-> IF k = 0 THEN start ELSE Sweep(f[k - 1], turn[k])]
           U == {m \in Nat : ~\E f : SweepsTo(f, n, start, turn, m)}
<1>1. U = {}
  <2> SUFFICES ASSUME U # {} PROVE FALSE
    OBVIOUS
  <2>1. PICK m \in U : \A j \in U : m <= j
    <3>1. U \subseteq Nat
      OBVIOUS
    <3> HIDE DEF U
    <3> QED BY <3>1, LeastOf
  <2>2. m \in Nat /\ ~\E f : SweepsTo(f, n, start, turn, m)
    BY <2>1
  <2>3. \E f : m # 0 => SweepsTo(f, n, start, turn, m - 1)
    <3>1. CASE m # 0
      <4>1. m - 1 \in Nat /\ ~(m <= m - 1)
        BY <2>2, <3>1
      <4> QED BY <2>1, <4>1
    <3> QED BY <3>1
  <2>4. PICK f : m # 0 => SweepsTo(f, n, start, turn, m - 1)
    BY <2>3
  <2> DEFINE g == next(f)
  <2>5. ASSUME NEW k \in 0 .. n, k <= m
        PROVE  g[k] = IF k = 0 THEN start ELSE Sweep(g[k - 1], turn[k])
    <3>1. g[k] = IF k = 0 THEN start ELSE Sweep(f[k - 1], turn[k])
      OBVIOUS
    <3>2. ASSUME k # 0 PROVE g[k - 1] = f[k - 1]
      <4>1. k - 1 \in 0 .. n /\ k - 1 <= m - 1 /\ m # 0
        BY <2>2, <2>5, <3>2
      <4>2. f[k - 1] = IF k - 1 = 0 THEN start ELSE Sweep(f[(k - 1) - 1], turn[k - 1])
        BY <2>4, <4>1 DEF SweepsTo
      <4>3. g[k - 1] = IF k - 1 = 0 THEN start ELSE Sweep(f[(k - 1) - 1], turn[k - 1])
        BY <4>1
      <4> QED BY <4>2, <4>3
    <3> HIDE DEF g
    <3> QED BY <3>1, <3>2
  <2>6. SweepsTo(g, n, start, turn, m)
    <3> HIDE DEF g
    <3> QED BY <2>5 DEF SweepsTo
  <2> QED BY <2>2, <2>6
<1>2. n \notin U
  BY <1>1
<1>3. PICK f : SweepsTo(f, n, start, turn, n)
  <2>1. \E f : SweepsTo(f, n, start, turn, n)
    BY <1>2
  <2> QED BY <2>1
<1> DEFINE g == [k \in 0 .. n |-> f[k]]
<1>4. \A k \in 0 .. n : f[k] = IF k = 0 THEN start ELSE Sweep(f[k - 1], turn[k])
  BY <1>3 DEF SweepsTo
<1>5. ASSUME NEW k \in 0 .. n
      PROVE  g[k] = IF k = 0 THEN start ELSE Sweep(g[k - 1], turn[k])
  <2>1. k # 0 => k - 1 \in 0 .. n
    OBVIOUS
  <2>2. g[k] = f[k] /\ (k # 0 => g[k - 1] = f[k - 1])
    BY <2>1
  <2> HIDE DEF g
  <2> QED BY <1>4, <2>2
<1>6. g = next(g)
  <2>1. g = [k \in 0 .. n |-> g[k]]
    OBVIOUS
  <2> HIDE DEF g
  <2> QED BY <1>5, <2>1
<1>7. IsSwept(g, n, start, turn)
  <2> HIDE DEF g
  <2> QED BY <1>6 DEF IsSwept
<1> QED BY <1>7

LEMMA BoundariesInTurn ==
    ASSUME NEW score, IsScore(score), NEW i \in Nat,
           NEW notes, {n \in notes : Overlaps(n, i)} = {n \in Numbered(score) : Overlaps(n, i)}
    PROVE  /\ Boundaries(notes, i) = [k \in 1 .. Cardinality(Ends(score, i)) |-> Turn(Ends(score, i), k)]
           /\ Len(Boundaries(notes, i)) = Cardinality(Ends(score, i))
<1> DEFINE E == Ends(score, i)
           n == Cardinality(E)
           s == [k \in 1 .. n |-> Turn(E, k)]
<1>1. Clipped({m \in notes : Overlaps(m, i)}, i) = E
  BY ClippedEnds
<1>2. E \in SUBSET Ending /\ IsFiniteSet(E) /\ n \in Nat
  BY EndsAreEndings, FS_CardinalityType
<1>3. Boundaries(notes, i) = s
  <2> DEFINE C == Clipped({m \in notes : Overlaps(m, i)}, i)
  <2>1. Boundaries(notes, i) = [k \in 1 .. Cardinality(C) |-> Turn(C, k)]
    BY DEF Boundaries, Turn, Place
  <2>2. C = E
    BY <1>1
  <2> HIDE DEF C, E
  <2> QED BY <2>1, <2>2
<1>4. Len(s) = n
  <2>1. \A k \in 1 .. n : Turn(E, k) \in E
    BY <1>2, TurnFacts
  <2> HIDE DEF E, n
  <2>2. s \in Seq(E) /\ DOMAIN s = 1 .. n
    BY <1>2, <2>1
  <2> QED BY <1>2, <2>2
<1> QED BY <1>3, <1>4

(* A sweep over the notes that overlap a bar hears its ticks.              *)
LEMMA SweepHears ==
    ASSUME NEW score, IsScore(score), NEW i \in Nat,
           NEW notes, {n \in notes : Overlaps(n, i)} = {n \in Numbered(score) : Overlaps(n, i)}
    PROVE  BarFeatures(notes, i) = HeardFeatures(score, i)
<1> DEFINE E == Ends(score, i)
           n == Cardinality(E)
           ends == Boundaries(notes, i)
           next(f) == [k \in 0 .. Len(ends) |->
                         IF k = 0 THEN [active |-> 0, voices |-> 0, occupied |-> 0, previous |-> BarStart(i)]
                         ELSE Sweep(f[k - 1], ends[k])]
           after == CHOOSE f : f = next(f)
           swept == after[Len(ends)]
           most == HeardFeatures(score, i).voices
<1>1. /\ ends = [k \in 1 .. n |-> Turn(E, k)] /\ Len(ends) = n
      /\ E \in SUBSET Ending /\ IsFiniteSet(E) /\ n \in Nat
  BY BoundariesInTurn, EndsAreEndings, FS_CardinalityType
<1>2. BarFeatures(notes, i) =
        [voices |-> swept.voices,
         occupied |-> IF swept.active > 0 THEN swept.occupied + (BarEnd(i) - swept.previous)
                      ELSE swept.occupied]
  BY DEF BarFeatures
<1> HIDE DEF E, n, ends
<1>3. after = next(after)
  <2>1. Len(ends) \in Nat
    BY <1>1
  <2>2. \E f : f = next(f)
    <3> DEFINE start == [active |-> 0, voices |-> 0, occupied |-> 0, previous |-> BarStart(i)]
               m == Len(ends)
    <3>1. m \in Nat
      BY <2>1
    <3> HIDE DEF start, m
    <3>2. PICK f : IsSwept(f, m, start, ends)
      BY <3>1, SweepExists
    <3>3. f = next(f)
      BY <3>2 DEF IsSwept, start, m
    <3> HIDE DEF next
    <3> QED BY <3>3
  <2> HIDE DEF next
  <2> QED BY <2>2
<1>4. \A k \in 0 .. n : after[k] = IF k = 0 THEN AtBarStart(i) ELSE Sweep(after[k - 1], Turn(E, k))
  <2> SUFFICES ASSUME NEW k \in 0 .. n
               PROVE  after[k] = IF k = 0 THEN AtBarStart(i) ELSE Sweep(after[k - 1], Turn(E, k))
    OBVIOUS
  <2> HIDE DEF after
  <2>1. after[k] = IF k = 0 THEN AtBarStart(i) ELSE Sweep(after[k - 1], ends[k])
    BY <1>1, <1>3 DEF AtBarStart
  <2>2. k # 0 => ends[k] = Turn(E, k)
    BY <1>1
  <2> QED BY <2>1, <2>2
<1> HIDE DEF after
<1> DEFINE U == {k \in 0 .. n : ~SweptTo(score, i, k, after[k])}
<1>5. U = {}
  <2> SUFFICES ASSUME U # {} PROVE FALSE
    OBVIOUS
  <2>1. PICK k \in U : \A j \in U : k <= j
    <3>1. U \subseteq Nat
      BY <1>1
    <3> HIDE DEF U
    <3> QED BY <3>1, LeastOf
  <2>2. k \in 0 .. n /\ k \in Nat /\ ~SweptTo(score, i, k, after[k])
    BY <1>1, <2>1
  <2>3. k # 0
    BY <1>4, <2>2, SweptInit
  <2>4. k - 1 \in 0 .. n /\ ~(k <= k - 1) /\ k \in 1 .. n
    BY <1>1, <2>2, <2>3
  <2>5. SweptTo(score, i, k - 1, after[k - 1])
    BY <2>1, <2>4
  <2>6. SweptTo(score, i, k, Sweep(after[k - 1], Turn(E, k)))
    BY <2>4, <2>5, SweptStep DEF E, n
  <2> QED BY <1>4, <2>2, <2>3, <2>6
<1>6. SweptTo(score, i, n, swept)
  BY <1>1, <1>5
<1> HIDE DEF swept
<1>7. swept.active = 0
  <2>1. Taken(E, n) = E
    BY <1>1, TakenEnds DEF n
  <2>2. On(score, i, E) = Heard(score, i) /\ Off(score, i, E) = Heard(score, i)
    BY DEF On, Off, E, Ends
  <2>3. Cardinality(Heard(score, i)) \in Nat
    BY HeardIsFinite
  <2> QED BY <1>6, <2>1, <2>2, <2>3 DEF SweptTo, Level, E
<1>8. swept.voices = most
  <2>1. swept.voices \in Nat /\ swept.voices <= most /\ most \in Nat
    BY <1>6, MostFacts DEF SweptTo
  <2>2. PICK t \in Ticks(i) : Cardinality(SoundingAt(score, t)) = most
    BY MostFacts
  <2>3. t \in Nat
    BY SoundingIsHeard
  <2> DEFINE K == {k \in 0 .. n : k # 0 => Turn(E, k).tick <= t}
  <2>4. K \subseteq Nat /\ K # {} /\ \A k \in K : k <= n
    <3>1. 0 \in K
      BY <1>1
    <3>2. K \subseteq 0 .. n
      OBVIOUS
    <3>3. \A k \in 0 .. n : k \in Nat /\ k <= n
      BY <1>1
    <3> HIDE DEF K
    <3> QED BY <3>1, <3>2, <3>3
  <2>5. Max(K) \in K /\ \A k \in K : k <= Max(K)
    <3> HIDE DEF K
    <3> QED BY <1>1, <2>4, MaxOf
  <2> DEFINE k == Max(K)
  <2>6. k \in 0 .. n /\ (k # 0 => Turn(E, k).tick <= t)
    BY <2>5
  <2>7. k # n => t < Turn(E, k + 1).tick
    <3> SUFFICES ASSUME k # n PROVE t < Turn(E, k + 1).tick
      OBVIOUS
    <3>1. k + 1 \in 1 .. n /\ k + 1 \in 0 .. n /\ ~(k + 1 <= k) /\ k + 1 # 0
      BY <1>1, <2>6
    <3>2. Turn(E, k + 1).tick \in Nat
      <4>1. Turn(E, k + 1) \in E
        BY <1>1, <3>1, TurnFacts DEF n
      <4> QED BY <1>1, <4>1 DEF Ending
    <3>3. k + 1 \notin K
      <4> HIDE DEF K
      <4> QED BY <2>5, <3>1
    <3> HIDE DEF k
    <3>4. ~(Turn(E, k + 1).tick <= t)
      BY <3>1, <3>3
    <3> QED BY <2>3, <3>2, <3>4
  <2> HIDE DEF k, K
  <2>8. {c \in E : c.tick <= t} = Taken(E, k)
    BY <2>3, <2>6, <2>7, TakenAt DEF E, n
  <2>9. Level(score, i, Taken(E, k)) = most
    BY <2>2, <2>8, LevelAt DEF E
  <2>10. Level(score, i, Taken(E, k)) <= swept.voices
    BY <1>6, <2>6 DEF SweptTo, E
  <2> QED BY <2>1, <2>9, <2>10
<1>9. swept.occupied = HeardFeatures(score, i).occupied
  <2>1. HeardFeatures(score, i).occupied = Cardinality({t \in Ticks(i) : SoundingAt(score, t) # {}})
    BY DEF HeardFeatures
  <2>2. swept.occupied = Cardinality(Gone(score, i, swept.previous)) /\ swept.previous \in Nat
    BY <1>6 DEF SweptTo
  <2>3. ASSUME NEW t \in Ticks(i), SoundingAt(score, t) # {}
        PROVE  t < swept.previous
    <3>1. t \in Nat
      BY SoundingIsHeard
    <3>2. ~(swept.previous <= t)
      <4> SUFFICES ASSUME swept.previous <= t PROVE FALSE
        OBVIOUS
      <4>1. n \in 0 .. n
        BY <1>1
      <4>2. SoundingAt(score, t) # {} <=> swept.active > 0
        BY <1>6, <4>1, SoundsBetween DEF n, E
      <4> QED BY <1>7, <2>3, <4>2
    <3> QED BY <2>2, <3>1, <3>2
  <2>4. Gone(score, i, swept.previous) = {t \in Ticks(i) : SoundingAt(score, t) # {}}
    BY <2>3 DEF Gone
  <2> QED BY <2>1, <2>2, <2>4
<1>10. BarFeatures(notes, i) = [voices |-> swept.voices, occupied |-> swept.occupied]
  BY <1>2, <1>7 DEF swept
<1>11. HeardFeatures(score, i) = [voices |-> most, occupied |-> HeardFeatures(score, i).occupied]
  BY DEF HeardFeatures
<1> HIDE DEF most
<1> QED BY <1>8, <1>9, <1>10, <1>11

-----------------------------------------------------------------------------
(* The notes carried from bar to bar, when they come in order.             *)

InOrder(score) ==
    \A j, k \in DOMAIN score : j <= k => score[j].onset <= score[k].onset

CursorAt(score, i) ==
    IF i = -1 THEN 0 ELSE Max({0} \cup {c \in DOMAIN score : score[c].onset < BarEnd(i)})

CarriedAt(score, i) ==
    [cursor |-> CursorAt(score, i),
     active |-> IF i = -1 THEN {}
                ELSE {n \in Numbered(score) : n.index <= CursorAt(score, i) /\ n.end > BarStart(i)}]

LEMMA CursorFacts ==
    ASSUME NEW score, IsScore(score), InOrder(score), NEW i \in Int, i >= -1
    PROVE  /\ CursorAt(score, i) \in 0 .. Len(score)
           /\ \A k \in DOMAIN score : k <= CursorAt(score, i) <=> i # -1 /\ score[k].onset < BarEnd(i)
<1>1. /\ Len(score) \in Nat /\ DOMAIN score = 1 .. Len(score)
      /\ \A k \in DOMAIN score : score[k].onset \in Nat
  BY NotesOf
<1>2. CASE i = -1
  BY <1>1, <1>2 DEF CursorAt
<1>3. CASE i # -1
  <2> DEFINE S == {0} \cup {c \in DOMAIN score : score[c].onset < BarEnd(i)}
  <2>1. S \subseteq 0 .. Len(score) /\ 0 \in S
    BY <1>1
  <2>2. Max(S) \in S /\ \A x \in S : x <= Max(S)
    <3>1. S \subseteq Nat /\ S # {} /\ \A x \in S : x <= Len(score)
      BY <1>1, <2>1
    <3> HIDE DEF S
    <3> QED BY <1>1, <3>1, MaxOf
  <2>3. CursorAt(score, i) = Max(S)
    BY <1>3 DEF CursorAt
  <2> DEFINE m == Max(S)
  <2>4. BarEnd(i) \in Nat
    BY <1>3, BarBounds
  <2>5. m \in 0 .. Len(score) /\ (m # 0 => m \in DOMAIN score /\ score[m].onset < BarEnd(i))
    BY <2>1, <2>2
  <2>6. \A k \in DOMAIN score : score[k].onset < BarEnd(i) => k <= m
    BY <2>2
  <2> HIDE DEF m, S
  <2>7. ASSUME NEW k \in DOMAIN score, k <= m
        PROVE  score[k].onset < BarEnd(i)
    <3>1. m # 0
      BY <1>1, <2>7
    <3>2. score[k].onset <= score[m].onset /\ score[m].onset \in Nat /\ score[k].onset \in Nat
      BY <1>1, <2>5, <2>7, <3>1 DEF InOrder
    <3> QED BY <2>4, <2>5, <3>1, <3>2
  <2> QED BY <1>3, <2>3, <2>5, <2>6, <2>7 DEF m
<1> QED BY <1>2, <1>3

(* The cursor goes on over the notes that begin before the bar is over.    *)
LEMMA CursorStep ==
    ASSUME NEW score, IsScore(score), InOrder(score), NEW i \in Nat
    PROVE  LET p == CursorAt(score, i - 1)
           IN  /\ Max({p} \cup {c \in DOMAIN score : \A k \in p + 1 .. c : score[k].onset < BarEnd(i)})
                      = CursorAt(score, i)
               /\ \A k \in DOMAIN score : k > p => score[k].onset >= BarStart(i)
<1> DEFINE p == CursorAt(score, i - 1)
           q == CursorAt(score, i)
           S == {p} \cup {c \in DOMAIN score : \A k \in p + 1 .. c : score[k].onset < BarEnd(i)}
<1>1. /\ Len(score) \in Nat /\ DOMAIN score = 1 .. Len(score)
      /\ \A k \in DOMAIN score : score[k].onset \in Nat
  BY NotesOf
<1>2. /\ p \in 0 .. Len(score)
      /\ \A k \in DOMAIN score : k <= p <=> i - 1 # -1 /\ score[k].onset < BarEnd(i - 1)
  <2>1. i - 1 \in Int /\ i - 1 >= -1
    OBVIOUS
  <2> QED BY <2>1, CursorFacts
<1>3. q \in 0 .. Len(score) /\ \A k \in DOMAIN score : k <= q <=> score[k].onset < BarEnd(i)
  <2>1. i \in Int /\ i >= -1 /\ i # -1
    OBVIOUS
  <2> QED BY <2>1, CursorFacts
<1>4. BarStart(i) \in Nat /\ BarEnd(i) \in Nat /\ BarStart(i) < BarEnd(i)
  BY BarBounds
<1>5. i # 0 => i - 1 \in Nat /\ BarEnd(i - 1) = BarStart(i)
  <2> SUFFICES ASSUME i # 0 PROVE i - 1 \in Nat /\ BarEnd(i - 1) = BarStart(i)
    OBVIOUS
  <2>1. i - 1 \in Nat /\ (i - 1) + 1 = i
    OBVIOUS
  <2>2. BarEnd(i - 1) = BarStart((i - 1) + 1)
    BY <2>1, BarBounds
  <2> QED BY <2>1, <2>2
<1> HIDE DEF p, q
<1>6. p <= q
  <2> SUFFICES ASSUME p # 0 PROVE p <= q
    BY <1>2, <1>3
  <2>1. p \in DOMAIN score /\ i # 0
    BY <1>1, <1>2
  <2>2. score[p].onset < BarStart(i) /\ score[p].onset \in Nat
    BY <1>1, <1>2, <1>5, <2>1
  <2> QED BY <1>3, <1>4, <2>1, <2>2
<1>7. \A c \in S : c \in Nat /\ c <= q
  <2> SUFFICES ASSUME NEW c \in S, c # p PROVE c \in Nat /\ c <= q
    BY <1>2, <1>6
  <2>1. c \in DOMAIN score /\ c \in Nat /\ \A k \in p + 1 .. c : score[k].onset < BarEnd(i)
    BY <1>1
  <2>2. CASE c <= p
    BY <1>2, <1>3, <1>6, <2>1, <2>2
  <2>3. CASE c > p
    <3>1. c \in p + 1 .. c
      BY <1>2, <2>1, <2>3
    <3> QED BY <1>3, <2>1, <3>1
  <2> QED BY <1>2, <2>1, <2>2, <2>3
<1>8. q \in S
  <2>1. CASE q = p
    BY <2>1
  <2>2. CASE q # p
    <3>1. q \in DOMAIN score
      BY <1>1, <1>2, <1>3, <1>6, <2>2
    <3>2. \A k \in p + 1 .. q : k \in DOMAIN score /\ k <= q
      BY <1>1, <1>2, <1>3
    <3>3. \A k \in p + 1 .. q : score[k].onset < BarEnd(i)
      BY <1>3, <3>2
    <3> QED BY <3>1, <3>3
  <2> QED BY <2>1, <2>2
<1>9. Max(S) = q
  <2>1. S \subseteq Nat /\ S # {} /\ \A x \in S : x <= q
    BY <1>7, <1>8
  <2>2. q \in Nat
    BY <1>1, <1>3
  <2> HIDE DEF S
  <2>3. Max(S) \in S /\ \A x \in S : x <= Max(S)
    BY <2>1, <2>2, MaxOf
  <2> DEFINE m == Max(S)
  <2>4. m \in Nat /\ m <= q /\ q <= m
    BY <1>8, <2>1, <2>3
  <2> HIDE DEF m
  <2>5. m = q
    BY <2>2, <2>4
  <2> QED BY <2>5 DEF m
<1>10. \A k \in DOMAIN score : k > p => score[k].onset >= BarStart(i)
  <2> SUFFICES ASSUME NEW k \in DOMAIN score, k > p PROVE score[k].onset >= BarStart(i)
    OBVIOUS
  <2>1. k \in Nat /\ ~(k <= p) /\ score[k].onset \in Nat
    BY <1>1, <1>2
  <2>2. CASE i = 0
    BY <2>1, <2>2, BarBounds
  <2>3. CASE i # 0
    BY <1>2, <1>4, <1>5, <2>1, <2>3
  <2> QED BY <2>2, <2>3
<1> QED BY <1>9, <1>10 DEF p, q

LEMMA CarriedStep ==
    ASSUME NEW score, IsScore(score), InOrder(score), NEW i \in Nat
    PROVE  LET last   == CarriedAt(score, i - 1)
               cursor == Max({last.cursor} \cup
                             {c \in DOMAIN score : \A k \in last.cursor + 1 .. c :
                                                      score[k].onset < BarEnd(i)})
           IN  CarriedAt(score, i) =
                 [cursor |-> cursor,
                  active |-> {n \in last.active : n.end > BarStart(i)} \cup
                             {n \in Numbered(score) : n.index \in last.cursor + 1 .. cursor}]
<1> DEFINE p == CursorAt(score, i - 1)
           q == CursorAt(score, i)
           last == CarriedAt(score, i - 1)
           old == {n \in last.active : n.end > BarStart(i)}
           new == {n \in Numbered(score) : n.index \in p + 1 .. q}
<1>1. last.cursor = p
  BY DEF CarriedAt
<1>2. last.active = IF i = 0 THEN {}
                    ELSE {n \in Numbered(score) : n.index <= p /\ n.end > BarStart(i - 1)}
  <2>1. i - 1 = -1 <=> i = 0
    OBVIOUS
  <2> QED BY <2>1 DEF CarriedAt
<1>3. /\ Max({p} \cup {c \in DOMAIN score : \A k \in p + 1 .. c : score[k].onset < BarEnd(i)}) = q
      /\ \A k \in DOMAIN score : k > p => score[k].onset >= BarStart(i)
  BY CursorStep
<1>4. p \in 0 .. Len(score) /\ Len(score) \in Nat /\ (i = 0 => p = 0)
  <2>1. i - 1 \in Int /\ i - 1 >= -1
    OBVIOUS
  <2> QED BY <2>1, CursorFacts, NotesOf DEF CursorAt
<1>5. q \in 0 .. Len(score)
  <2>1. i \in Int /\ i >= -1
    OBVIOUS
  <2> QED BY <2>1, CursorFacts
<1>6. p <= q
  <2> DEFINE S == {p} \cup {c \in DOMAIN score : \A k \in p + 1 .. c : score[k].onset < BarEnd(i)}
  <2>1. S \subseteq Nat /\ S # {} /\ p \in S /\ \A x \in S : x <= Len(score)
    BY <1>4, NotesOf
  <2>2. \A x \in S : x <= Max(S)
    <3> HIDE DEF S
    <3> QED BY <1>4, <2>1, MaxOf
  <2> QED BY <1>3, <2>1, <2>2
<1>7. BarStart(i) \in Nat /\ (i # 0 => BarStart(i - 1) \in Nat /\ BarStart(i - 1) <= BarStart(i))
  <2>1. BarStart(i) \in Nat
    BY BarBounds
  <2>2. ASSUME i # 0 PROVE BarStart(i - 1) \in Nat /\ BarStart(i - 1) <= BarStart(i)
    <3>1. i - 1 \in Nat /\ (i - 1) + 1 = i
      BY <2>2
    <3>2. BarStart(i - 1) \in Nat /\ BarStart(i - 1) <= BarStart((i - 1) + 1)
      BY <3>1, BarBounds
    <3> QED BY <3>1, <3>2
  <2> QED BY <2>1, <2>2
<1>8. \A n \in Numbered(score) :
        /\ n.index \in DOMAIN score /\ n.index \in Nat /\ n.index >= 1
        /\ n.onset = score[n.index].onset /\ n.end = score[n.index].end
        /\ n.onset \in Nat /\ n.end \in Nat /\ n.onset < n.end
  <2> SUFFICES ASSUME NEW n \in Numbered(score)
               PROVE  /\ n.index \in DOMAIN score /\ n.index \in Nat /\ n.index >= 1
                      /\ n.onset = score[n.index].onset /\ n.end = score[n.index].end
                      /\ n.onset \in Nat /\ n.end \in Nat /\ n.onset < n.end
    OBVIOUS
  <2>1. PICK k \in DOMAIN score : n = [onset |-> score[k].onset, end |-> score[k].end, index |-> k]
    BY DEF Numbered
  <2>2. n.index = k /\ n.onset = score[k].onset /\ n.end = score[k].end
    BY <2>1
  <2>3. k \in Nat /\ k >= 1 /\ score[k].onset \in Nat /\ score[k].end \in Nat /\ score[k].onset < score[k].end
    BY NotesOf
  <2> QED BY <2>2, <2>3
<1>9. old \cup new = {n \in Numbered(score) : n.index <= q /\ n.end > BarStart(i)}
  <2> HIDE DEF p, q
  <2>1. old \subseteq Numbered(score) /\ new \subseteq Numbered(score)
    <3> HIDE DEF last
    <3> QED BY <1>2
  <2>2. ASSUME NEW n \in Numbered(score)
        PROVE  n \in old \cup new <=> n.index <= q /\ n.end > BarStart(i)
    <3>1. /\ n.index \in DOMAIN score /\ n.index \in Nat /\ n.index >= 1
          /\ n.onset = score[n.index].onset
          /\ n.onset \in Nat /\ n.end \in Nat /\ n.onset < n.end
      BY <1>8
    <3>2. n \in new <=> n.index > p /\ n.index <= q
      BY <1>4, <1>5, <3>1
    <3>3. n.index > p => n.end > BarStart(i)
      BY <1>3, <1>7, <3>1
    <3>4. n \in old <=> n.index <= p /\ n.end > BarStart(i)
      <4> HIDE DEF last
      <4>1. CASE i = 0
        BY <1>2, <1>4, <3>1, <4>1
      <4>2. CASE i # 0
        BY <1>2, <1>7, <3>1, <4>2
      <4> QED BY <4>1, <4>2
    <3> HIDE DEF old, new
    <3> QED BY <1>4, <1>5, <1>6, <3>1, <3>2, <3>3, <3>4
  <2> HIDE DEF old, new
  <2> QED BY <2>1, <2>2
<1>10. CarriedAt(score, i) = [cursor |-> q, active |-> old \cup new]
  <2>1. i # -1
    OBVIOUS
  <2> HIDE DEF old, new
  <2> QED BY <1>9, <2>1 DEF CarriedAt
<1> HIDE DEF p, q, last
<1> QED BY <1>1, <1>3, <1>10 DEF last

CarryOn(last, score, i) ==
    LET cursor == Max({last.cursor} \cup
                      {c \in DOMAIN score : \A k \in last.cursor + 1 .. c : score[k].onset < BarEnd(i)})
    IN  [cursor |-> cursor,
         active |-> {n \in last.active : n.end > BarStart(i)} \cup
                    {n \in Numbered(score) : n.index \in last.cursor + 1 .. cursor}]

LEMMA CarriedIs ==
    ASSUME NEW score, IsScore(score), InOrder(score), NEW i \in Bars(score)
    PROVE  Carried(score)[i] = CarriedAt(score, i)
<1> DEFINE n == BarCount(score)
           D == -1 .. n - 1
           next(f) == [j \in D |-> IF j = -1 THEN [cursor |-> 0, active |-> {}]
                                   ELSE CarryOn(f[j - 1], score, j)]
           carried == CHOOSE f : f = next(f)
           form == [j \in D |-> CarriedAt(score, j)]
<1>1. n \in Nat \ {0} /\ i \in D /\ i \in Nat
  BY ScoreBars DEF Bars
<1>2. Carried(score) = carried
  BY DEF Carried, CarryOn
<1>3. ASSUME NEW j \in D
      PROVE  CarriedAt(score, j) = IF j = -1 THEN [cursor |-> 0, active |-> {}]
                                   ELSE CarryOn(CarriedAt(score, j - 1), score, j)
  <2>1. CASE j = -1
    BY <2>1 DEF CarriedAt, CursorAt
  <2>2. CASE j # -1
    <3>1. j \in Nat
      BY <1>1, <2>2
    <3>2. CarriedAt(score, j) = CarryOn(CarriedAt(score, j - 1), score, j)
      BY <3>1, CarriedStep DEF CarryOn
    <3> QED BY <2>2, <3>2
  <2> QED BY <2>1, <2>2
<1> HIDE DEF n
<1>4. \A j \in D : j # -1 => j - 1 \in D /\ j \in Int
  BY <1>1
<1>5. form = next(form)
  <2>1. ASSUME NEW j \in D PROVE form[j] = next(form)[j]
    BY <1>3, <1>4
  <2> QED BY <2>1
<1>6. carried = next(carried)
  <2> HIDE DEF next, form
  <2> QED BY <1>5
<1> HIDE DEF carried
<1>7. \A j \in D : carried[j] = IF j = -1 THEN [cursor |-> 0, active |-> {}] ELSE CarryOn(carried[j - 1], score, j)
  BY <1>6
<1> DEFINE U == {m \in Nat : m - 1 \in D /\ carried[m - 1] # CarriedAt(score, m - 1)}
<1>8. U = {}
  <2> SUFFICES ASSUME U # {} PROVE FALSE
    OBVIOUS
  <2>1. PICK m \in U : \A k \in U : m <= k
    <3>1. U \subseteq Nat
      OBVIOUS
    <3> HIDE DEF U
    <3> QED BY <3>1, LeastOf
  <2> DEFINE j == m - 1
  <2>2. m \in Nat /\ j \in D /\ carried[j] # CarriedAt(score, j)
    BY <2>1
  <2>3. j # -1
    BY <1>3, <1>7, <2>2
  <2>4. j - 1 \in D /\ m - 1 \in Nat /\ ~(m <= m - 1) /\ (m - 1) - 1 = j - 1
    BY <1>1, <2>2, <2>3
  <2>5. carried[j - 1] = CarriedAt(score, j - 1)
    BY <2>1, <2>4
  <2> HIDE DEF j
  <2> QED BY <1>3, <1>7, <2>2, <2>3, <2>5
<1>9. i + 1 \in Nat /\ (i + 1) - 1 = i
  BY <1>1
<1>10. carried[i] = CarriedAt(score, i)
  BY <1>1, <1>8, <1>9
<1> QED BY <1>2, <1>10

-----------------------------------------------------------------------------
(* All readers of a bar hear the same.                                     *)

LEMMA BarsAreHeard ==
    ASSUME NEW score, IsScore(score), InOrder(score)
    PROVE  BarsHearTheirNotes(score)
<1> SUFFICES ASSUME NEW i \in Bars(score)
             PROVE  /\ (i \in EmptyBars(score)) <=> (HeardFeatures(score, i).occupied = 0)
                    /\ Occupied(score, i) <=> (HeardFeatures(score, i).occupied # 0)
                    /\ PrimitiveFeatures(score, i) = HeardFeatures(score, i)
                    /\ CandidateFeatures(score, i) = HeardFeatures(score, i)
  BY DEF BarsHearTheirNotes
<1>1. i \in Nat
  BY ScoreBars DEF Bars
<1>2. /\ i \in EmptyBars(score) <=> HeardFeatures(score, i).occupied = 0
      /\ Occupied(score, i) <=> HeardFeatures(score, i).occupied # 0
  <2> DEFINE heard == {t \in Ticks(i) : SoundingAt(score, t) # {}}
  <2>1. HeardFeatures(score, i).occupied = Cardinality(heard)
    BY DEF HeardFeatures
  <2>2. IsFiniteSet(heard)
    <3>1. IsFiniteSet(Ticks(i))
      BY <1>1, BarBounds, FS_Interval DEF Ticks
    <3>2. heard \in SUBSET Ticks(i)
      OBVIOUS
    <3> QED BY <3>1, <3>2, FS_Subset
  <2>3. Occupied(score, i) <=> heard # {}
    <3>1. ASSUME NEW k \in Heard(score, i) PROVE \E t \in Ticks(i) : SoundingAt(score, t) # {}
      <4> DEFINE t == Left(score, i, k)
      <4>1. /\ t \in Nat /\ BarStart(i) <= t /\ t < Right(score, i, k) /\ Right(score, i, k) <= BarEnd(i)
            /\ Right(score, i, k) \in Nat
        BY <1>1, HeardInBar
      <4>2. t \in Ticks(i)
        BY <1>1, <4>1, BarBounds DEF Ticks
      <4>3. k \in SoundingAt(score, t)
        BY <1>1, <4>1, <4>2, HeardInBar
      <4> QED BY <4>2, <4>3
    <3>2. ASSUME NEW t \in Ticks(i), SoundingAt(score, t) # {} PROVE Heard(score, i) # {}
      BY <1>1, <3>2, SoundingIsHeard
    <3>3. Occupied(score, i) <=> Heard(score, i) # {}
      BY DEF Occupied, Heard
    <3> QED BY <3>1, <3>2, <3>3
  <2>4. Cardinality(heard) = 0 <=> heard = {}
    BY <2>2, FS_EmptySet
  <2> HIDE DEF heard
  <2> QED BY <2>1, <2>3, <2>4, EmptyIsUnoccupied
<1>3. PrimitiveFeatures(score, i) = HeardFeatures(score, i)
  BY <1>1, SweepHears DEF PrimitiveFeatures
<1>4. CandidateFeatures(score, i) = HeardFeatures(score, i)
  <2> DEFINE notes == Carried(score)[i].active
  <2>1. notes = {n \in Numbered(score) : n.index <= CursorAt(score, i) /\ n.end > BarStart(i)}
    <3>1. i # -1 /\ Carried(score)[i] = CarriedAt(score, i)
      BY <1>1, CarriedIs
    <3>2. CarriedAt(score, i).active =
            IF i = -1 THEN {} ELSE {n \in Numbered(score) : n.index <= CursorAt(score, i) /\ n.end > BarStart(i)}
      BY DEF CarriedAt
    <3> QED BY <3>1, <3>2
  <2>2. ASSUME NEW n \in Numbered(score), Overlaps(n, i)
        PROVE  n.index <= CursorAt(score, i) /\ n.end > BarStart(i)
    <3>1. n.index \in DOMAIN score /\ n.onset = score[n.index].onset
      BY DEF Numbered
    <3>2. n.onset < BarEnd(i) /\ n.end > BarStart(i)
      BY <2>2 DEF Overlaps
    <3>3. i \in Int /\ i >= -1 /\ i # -1
      BY <1>1
    <3> QED BY <3>1, <3>2, <3>3, CursorFacts
  <2>3. {n \in notes : Overlaps(n, i)} = {n \in Numbered(score) : Overlaps(n, i)}
    BY <2>1, <2>2
  <2> HIDE DEF notes
  <2>4. BarFeatures(notes, i) = HeardFeatures(score, i)
    BY <1>1, <2>3, SweepHears
  <2> QED BY <2>4 DEF CandidateFeatures, notes
<1> QED BY <1>2, <1>3, <1>4

(* Brick 3 gives the notes of a score in the order of their onsets.        *)
ScoresInOrder == \A x \in Score : InOrder(x)

(* Every materialized score is heard the same way by all who read its      *)
(* rows: the stored flag of a bar, the sweep over all notes and the sweep  *)
(* over those carried from bar to bar agree with its ticks.                *)
THEOREM StoredScoresAreHeard == ScoresInOrder /\ Spec => []StoredBarsAreHeard
<1> SUFFICES ASSUME ScoresInOrder PROVE Spec => []StoredBarsAreHeard
  OBVIOUS
<1>1. TypeInv => StoredBarsAreHeard
  <2> SUFFICES ASSUME TypeInv, NEW c \in Candidate, database[c] # None
               PROVE  BarsHearTheirNotes(database[c])
    BY DEF StoredBarsAreHeard
  <2>1. database[c] \in Score
    BY DEF TypeInv, DiskTyped
  <2>2. IsScore(database[c]) /\ InOrder(database[c])
    BY <2>1, ScoreFacts DEF ScoresInOrder
  <2> QED BY <2>2, BarsAreHeard
<1> QED BY <1>1, Types, PTL
=============================================================================
