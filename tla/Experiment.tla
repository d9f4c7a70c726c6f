----------------------------- MODULE Experiment -----------------------------
(***************************************************************************)
(* The POP909 proof of concept and the training snapshot taken from it.    *)
(* A run goes through the songs in order: each track with notes is given   *)
(* to Brick 3, an accepted score is materialized in a database whose       *)
(* transaction spans the song, and the verdict is recorded in a file of    *)
(* its own.  The first track with a score owns it, later ones duplicate    *)
(* it.  A run may be killed and resumed, repeated from the start, limited  *)
(* to a few songs, or made with another checkout of Brick 3.  The training *)
(* view and the snapshot are built from the records.                       *)
(***************************************************************************)
EXTENDS CanonicalScore

CONSTANTS SongCount,
          Tracks,        \* Tracks[s]: number of candidate tracks of song s
          Rank,          \* order of the candidates' ids, which are hashes
          Reject,        \* a verdict that accepts nothing
          Checkouts,     \* versions of Brick 3
          Verdicts,      \* what those at hand may say of each candidate
          Caps,          \* block lengths to choose from
          None,
          MaxRuns, MaxKills   \* bounds

Song == 1 .. SongCount

Candidate == UNION {{s} \X (1 .. Tracks[s]) : s \in Song}

(* What may be recorded of a candidate.                                    *)
Results == UNION {{v[k][c] : k \in DOMAIN v, c \in Candidate} : v \in Verdicts}

Record == [score : Results, owner : Candidate \cup {None}, checkout : Checkouts]

ASSUME CountAssumption == SongCount \in Nat \ {0} /\ Tracks \in [Song -> Nat]
ASSUME RankAssumption ==
    /\ Rank \in [Candidate -> Nat]
    /\ \A c, d \in Candidate : Rank[c] = Rank[d] => c = d

(* What Brick 3 accepts can be materialized: a score without a note of no  *)
(* length, in one tempo and metre from its start.  The result of the       *)
(* materialization is not looked at.                                       *)
ASSUME VerdictAssumption ==
    \A v \in Verdicts :
        /\ DOMAIN v \subseteq Checkouts
        /\ \A k \in DOMAIN v, c \in Candidate : v[k][c] = Reject \/ IsScore(v[k][c])
ASSUME SentinelAssumption ==
    /\ None # Reject /\ None \notin Candidate \cup Record
    /\ \A v \in Verdicts : \A k \in DOMAIN v, c \in Candidate : v[k][c] # None
ASSUME CapsAssumption == Caps \subseteq Nat \ {0} /\ Caps # {}
ASSUME BoundsAssumption == {MaxRuns, MaxKills} \subseteq Nat

VARIABLES
    verdict,     \* what each checkout says of each candidate, for ever
    records,     \* records[c]: the record file of candidate c, or None
    database,    \* database[c]: committed score of candidate c, or None
    batch,       \* the same in the open transaction
    pc, at,      \* "idle" or "song"; the next song and track
    run,         \* arguments of the current run and the records it loaded
    seen,        \* seen: scores with their owner, as the run knows them
    progress,    \* state of the progress file
    view,        \* the training view
    snapshot,    \* the snapshot, or None
    mixed,       \* records of several checkouts may stand side by side
    torn,        \* candidates recorded by a song that was cut off
    runs, kills

disk  == <<records, database, progress, view>>
local == <<batch, pc, at, run, seen>>
vars  == <<verdict, disk, local, snapshot, mixed, torn, runs, kills>>

NoRecords == [c \in Candidate |-> None]

Recorded(recs) == {c \in Candidate : recs[c] # None}
Accepted(recs) == {c \in Recorded(recs) : recs[c].score # Reject}
Unique(recs)   == {c \in Accepted(recs) : recs[c].owner = c}
Scores(recs)   == {recs[c].score : c \in Accepted(recs)}

First(cs) == CHOOSE c \in cs : \A d \in cs : Rank[c] <= Rank[d]

(* Owners found in the records: of several the one whose id comes first.   *)
Owners(recs) ==
    [x \in {recs[c].score : c \in Unique(recs)} |->
        First({c \in Unique(recs) : recs[c].score = x})]

NoOwners == [x \in {} |-> None]

Idle == [resume |-> FALSE, sample |-> FALSE, songs |-> 0, checkout |-> None, existing |-> {}]

Init ==
    /\ verdict \in Verdicts
    /\ records = NoRecords /\ database = NoRecords /\ batch = NoRecords
    /\ pc = "idle" /\ at = <<1, 1>>
    /\ run = Idle /\ seen = NoOwners
    /\ progress = "none" /\ view = None /\ snapshot = None
    /\ mixed = FALSE /\ torn = {}
    /\ runs = 0 /\ kills = 0

-----------------------------------------------------------------------------
(* A run.                                                                  *)

(* Mutation: a resumed run does not know the owners of its records.        *)
StartForgetful(resume, sample, songs, checkout) ==
    /\ pc = "idle" /\ runs < MaxRuns /\ checkout \in DOMAIN verdict
    /\ sample \/ songs = SongCount
    /\ runs' = runs + 1
    /\ pc' = "song" /\ at' = <<1, 1>> /\ batch' = NoRecords
    /\ run' = [resume |-> resume, sample |-> sample, songs |-> songs, checkout |-> checkout,
               existing |-> IF resume THEN Recorded(records) ELSE {}]
    /\ seen' = NoOwners
    /\ mixed' = (mixed \/ \E c \in Recorded(records) : records[c].checkout # checkout)
    /\ UNCHANGED <<verdict, disk, snapshot, torn, kills>>

(* A limited run is a sample, also when its limit takes in every song.     *)
Start(resume, sample, songs, checkout) ==
    /\ pc = "idle" /\ runs < MaxRuns /\ checkout \in DOMAIN verdict
    /\ sample \/ songs = SongCount
    /\ runs' = runs + 1
    /\ pc' = "song" /\ at' = <<1, 1>> /\ batch' = NoRecords
    /\ run' = [resume |-> resume, sample |-> sample, songs |-> songs, checkout |-> checkout,
               existing |-> IF resume THEN Recorded(records) ELSE {}]
    /\ seen' = IF resume THEN Owners(records) ELSE NoOwners
    /\ mixed' = (mixed \/ \E c \in Recorded(records) : records[c].checkout # checkout)
    /\ UNCHANGED <<verdict, disk, snapshot, torn, kills>>

Working == pc = "song" /\ at[1] <= run.songs

NextTrack == at' = <<at[1], at[2] + 1>>

(* A candidate with a record that the run loaded is skipped, whatever      *)
(* checkout judged it: its bytes are those of its id.                      *)
Skip ==
    /\ Working /\ at \in Candidate /\ at \in run.existing
    /\ NextTrack
    /\ UNCHANGED <<verdict, disk, batch, pc, run, seen, snapshot, mixed, torn, runs, kills>>

(* Judge a candidate, materialize its score in the open transaction, and   *)
(* write its record.                                                       *)
Evaluate ==
    /\ Working /\ at \in Candidate /\ at \notin run.existing
    /\ LET score == verdict[run.checkout][at]
           owner == IF score = Reject THEN None
                    ELSE IF score \in DOMAIN seen THEN seen[score] ELSE at
       IN  /\ records' = [records EXCEPT ![at] =
                             [score |-> score, owner |-> owner, checkout |-> run.checkout]]
           /\ seen' = IF owner = at THEN [x \in DOMAIN seen \cup {score} |->
                                            IF x = score THEN at ELSE seen[x]]
                      ELSE seen
           /\ batch' = IF score = Reject THEN batch ELSE [batch EXCEPT ![at] = score]
    /\ torn' = torn \ {at}
    /\ NextTrack
    /\ UNCHANGED <<verdict, database, progress, view, pc, run, snapshot, mixed, runs, kills>>

Stored == [c \in Candidate |-> IF batch[c] # None THEN batch[c] ELSE database[c]]

(* Mutation: the transaction is left open until the last song is done.     *)
CommitLast ==
    /\ Working /\ at \notin Candidate
    /\ IF at[1] = run.songs THEN database' = Stored /\ batch' = NoRecords
       ELSE UNCHANGED <<database, batch>>
    /\ at' = <<at[1] + 1, 1>>
    /\ progress' = "RUNNING"
    /\ UNCHANGED <<verdict, records, view, pc, run, seen, snapshot, mixed, torn, runs, kills>>

(* The song is done: its rows are committed.                               *)
Commit ==
    /\ Working /\ at \notin Candidate
    /\ database' = Stored /\ batch' = NoRecords
    /\ at' = <<at[1] + 1, 1>>
    /\ progress' = "RUNNING"
    /\ UNCHANGED <<verdict, records, view, pc, run, seen, snapshot, mixed, torn, runs, kills>>

End == /\ pc' = "idle" /\ at' = <<1, 1>> /\ batch' = NoRecords
       /\ run' = Idle /\ seen' = NoOwners

(* A limited run ends with a throughput report.                            *)
EndSample ==
    /\ pc = "song" /\ run.sample /\ at[1] > run.songs
    /\ End
    /\ UNCHANGED <<verdict, disk, snapshot, mixed, torn, runs, kills>>

-----------------------------------------------------------------------------
(* The training view.                                                      *)

(* A bar is as long as the notes that begin in it make it, plus its mark.  *)
BarLengths(score) ==
    [i \in Bars(score) |-> 1 + Cardinality({k \in DOMAIN score : OnsetBar(score[k]) = i})]

Fits(score, cap) == \A i \in Bars(score) : BarLengths(score)[i] <= cap

AllBars(cs) == UNION {{<<c, i>> : i \in Bars(records[c].score)} : c \in cs}

BarsFit(cs, cap) ==
    {b \in AllBars(cs) : BarLengths(records[b[1]].score)[b[2]] <= cap}

StreamsFit(cs, cap) == {c \in cs : Fits(records[c].score, cap)}

Covering(cs) ==
    {cap \in Caps : /\ 100 * Cardinality(BarsFit(cs, cap)) >= 99 * Cardinality(AllBars(cs))
                    /\ 100 * Cardinality(StreamsFit(cs, cap)) >= 99 * Cardinality(cs)}

Better(cs, a, b) ==
    LET streams(cap) == Cardinality(StreamsFit(cs, cap))
        bars(cap)    == Cardinality(BarsFit(cs, cap))
    IN  \/ streams(a) > streams(b)
        \/ streams(a) = streams(b) /\ bars(a) > bars(b)
        \/ streams(a) = streams(b) /\ bars(a) = bars(b) /\ a <= b

(* The smallest cap that nearly all bars and streams fit in, or the best.  *)
SelectedCap(cs) ==
    IF Covering(cs) # {} THEN Min(Covering(cs))
    ELSE CHOOSE a \in Caps : \A b \in Caps : Better(cs, a, b)

Windows(cs) == UNION {{<<c, s>> : s \in WindowsFrom(records[c].score)} : c \in cs}

TrainingView ==
    LET cap  == SelectedCap(Unique(records))
        kept == StreamsFit(Unique(records), cap)
    IN  [cap |-> cap, streams |-> kept, windows |-> Windows(kept)]

(* After the last song: without an accepted stream the run fails.  A run   *)
(* over all songs that resumed nothing has replaced every record.          *)
Finalize ==
    /\ pc = "song" /\ ~run.sample /\ at[1] > SongCount
    /\ IF Unique(records) = {} THEN UNCHANGED <<view, progress>>
       ELSE view' = TrainingView /\ progress' = "COMPLETE"
    /\ mixed' = (mixed /\ run.resume)
    /\ End
    /\ UNCHANGED <<verdict, records, database, snapshot, torn, runs, kills>>

(* A kill, or an exception: the open transaction is rolled back.           *)
Kill ==
    /\ pc # "idle" /\ kills < MaxKills
    /\ kills' = kills + 1
    /\ torn' = torn \cup {c \in Candidate : batch[c] # None /\ c[1] = at[1]}
    /\ End
    /\ UNCHANGED <<verdict, disk, snapshot, mixed, runs>>

-----------------------------------------------------------------------------
(* The snapshot.                                                           *)

Piece(c) == c[1]

Root(parent, p) ==
    LET root[q \in Song] == IF parent[q] = q THEN q ELSE root[parent[q]]
    IN  root[p]

(* Mutation: the pieces themselves are joined, not the families they have. *)
JoinPieces(parent, p, q) == [parent EXCEPT ![Max({p, q})] = Min({p, q})]

Join(parent, p, q) ==
    LET a == Root(parent, p)
        b == Root(parent, q)
    IN  [parent EXCEPT ![Max({a, b})] = Min({a, b})]

(* Pieces that share a score are one family, and so are those they share   *)
(* other scores with.                                                      *)
Families(recs) ==
    LET pieces(x) == {Piece(c) : c \in {d \in Accepted(recs) : recs[d].score = x}}
        joined(x, parent) == FoldSet(LAMBDA p, f : Join(f, Min(pieces(x)), p), parent,
                                     pieces(x) \ {Min(pieces(x))})
        parents == FoldSet(joined, [p \in Song |-> p], Scores(recs))
    IN  [p \in Song |-> Root(parents, p)]

(* Of the candidates with the same score the first by id is selected; the  *)
(* family of a stream decides which split it trains in.                    *)
Snapshot ==
    LET selected == {First({c \in Accepted(records) : records[c].score = x}) : x \in Scores(records)}
        kept     == StreamsFit(selected, SelectedCap(selected))
    IN  [rows    |-> [c \in Accepted(records) |-> records[c].score],
         kept    |-> kept,
         family  |-> Families(records),
         windows |-> UNION {{<<c, s>> : s \in LiveWindows(records[c].score)} : c \in kept}]

(* A snapshot is built once under its name, from what is recorded when no  *)
(* run is under way (a bound of the model: nothing prevents one).          *)
Build ==
    /\ snapshot = None /\ pc = "idle" /\ Accepted(records) # {}
    /\ snapshot' = Snapshot
    /\ UNCHANGED <<verdict, disk, local, mixed, torn, runs, kills>>

Next == \/ \E resume, sample \in BOOLEAN, songs \in Song, checkout \in Checkouts :
                Start(resume, sample, songs, checkout)
        \/ Skip \/ Evaluate \/ Commit \/ EndSample \/ Finalize
        \/ Kill
        \/ Build

Spec == Init /\ [][Next]_vars

-----------------------------------------------------------------------------
(* Every variable holds a value of its kind.                               *)
TypeOK ==
    /\ verdict \in Verdicts
    /\ \A c \in Candidate : records[c] = None \/ records[c] \in Record
    /\ DOMAIN database = Candidate /\ DOMAIN batch = Candidate
    /\ pc \in {"idle", "song"}
    /\ progress \in {"none", "RUNNING", "COMPLETE"}
    /\ torn \subseteq Candidate
    /\ mixed \in BOOLEAN

(* Of one checkout's records: a score has one owner, whom its duplicates   *)
(* name, and a completed view trains on each score that fits exactly once, *)
(* through kills, resumed, repeated and limited runs (canonical_seen, and  *)
(* the records it is filled from).                                         *)
TrainsEachScoreOnce ==
    ~mixed =>
        /\ \A c \in Accepted(records) :
             LET o == records[c].owner
             IN  o \in Unique(records) /\ records[o].score = records[c].score
        /\ \A c, d \in Unique(records) : records[c].score = records[d].score => c = d
        /\ progress = "COMPLETE" =>
             \A x \in Scores(records) :
                 Cardinality({c \in view.streams : records[c].score = x})
                     = (IF Fits(x, view.cap) THEN 1 ELSE 0)

(* An accepted record has its rows in the database, unless its song is     *)
(* still being worked on or was cut off before the commit: a kill loses    *)
(* the rows of one song at most.                                           *)
RecordedIsStored ==
    \A c \in Accepted(records) :
        \/ database[c] = records[c].score
        \/ batch[c] = records[c].score
        \/ c \in torn

(* Two streams of a snapshot that come from one piece, or from pieces with *)
(* a score in common, directly or through others, are of one family and so *)
(* train in one split.                                                     *)
NoFamilyIsSplit ==
    snapshot # None =>
        \A c, d \in DOMAIN snapshot.rows :
            snapshot.rows[c] = snapshot.rows[d] =>
                snapshot.family[Piece(c)] = snapshot.family[Piece(d)]

(* See BarsHearTheirNotes: every materialized score is heard the same way  *)
(* by all who read its rows.                                               *)
StoredBarsAreHeard ==
    \A c \in Candidate : database[c] # None => BarsHearTheirNotes(database[c])

(* A snapshot trains on the windows that the live projection of the stored *)
(* rows finds eligible: those within one run of sounding bars.             *)
SnapshotWindowsAreLive ==
    snapshot # None =>
        \A c \in snapshot.kept :
            {s \in WindowsFrom(snapshot.rows[c]) : <<c, s>> \in snapshot.windows}
                = EligibleWindows(snapshot.rows[c])
=============================================================================
