--------------------------- MODULE CanonicalScore ---------------------------
(***************************************************************************)
(* What is computed from an accepted score.  Its notes are stored with     *)
(* bars that say whether anything sounds in them; later passes read the    *)
(* stored rows: a live projection cuts the bars into segments, the feature *)
(* extractors sweep each bar, and windows of consecutive bars are chosen   *)
(* for training.  Each pass decides for itself which notes a bar hears.    *)
(***************************************************************************)
EXTENDS Integers, FiniteSets, SequencesExt

CONSTANTS BarTicks,      \* ticks in a bar
          WindowBars     \* bars in a training window

ASSUME BarAssumption == {BarTicks, WindowBars} \subseteq Nat \ {0}

Note(onset, duration) == [onset |-> onset, end |-> onset + duration]

(* What the materialization takes: every note lasts.                       *)
IsScore(score) ==
    /\ score \in Seq([onset : Nat, end : Nat])
    /\ \A k \in DOMAIN score : score[k].onset < score[k].end

BarStart(i) == i * BarTicks
BarEnd(i)   == (i + 1) * BarTicks

(* The score ends with its last sounding note.                             *)
SpanEnd(score) == Max({0} \cup {score[k].end : k \in DOMAIN score})

BarCount(score) == Max({1, (SpanEnd(score) + BarTicks - 1) \div BarTicks})

Bars(score) == 0 .. BarCount(score) - 1

-----------------------------------------------------------------------------
(* Materialization: occupancy of the bars by a difference array.           *)

OnsetBar(n) == n.onset \div BarTicks

(* Mutation: a note that ends on a bar line still sounds after it.         *)
EndBarOnLine(n) == Max({OnsetBar(n), n.end \div BarTicks})

EndBar(n) == Max({OnsetBar(n), (n.end - 1) \div BarTicks})

Delta(score, i) == Cardinality({k \in DOMAIN score : OnsetBar(score[k]) = i})
                 - Cardinality({k \in DOMAIN score : EndBar(score[k]) + 1 = i})

Active(score) ==
    LET active[i \in Bars(score)] == Delta(score, i) + (IF i = 0 THEN 0 ELSE active[i - 1])
    IN  active

EmptyBars(score) == {i \in Bars(score) : Active(score)[i] = 0}

-----------------------------------------------------------------------------
(* The live projection: maximal runs of occupied bars.                     *)

Overlaps(n, i) == n.onset < BarEnd(i) /\ n.end > BarStart(i)

Occupied(score, i) == \E k \in DOMAIN score : Overlaps(score[k], i)

(* First bar of the live segment that bar i is in, or -1.                  *)
Segment(score) ==
    LET start[i \in Bars(score)] ==
          IF ~Occupied(score, i) THEN -1
          ELSE IF i = 0 \/ ~Occupied(score, i - 1) THEN i ELSE start[i - 1]
    IN  start

WindowsFrom(score) == 0 .. BarCount(score) - WindowBars

Window(s) == s .. s + WindowBars - 1

(* Windows of the projection: within one live segment.                     *)
EligibleWindows(score) ==
    {s \in WindowsFrom(score) :
        /\ \A i \in Window(s) : Occupied(score, i)
        /\ Cardinality({Segment(score)[i] : i \in Window(s)}) = 1}

(* Mutation: the last bar of a window is not looked at.                    *)
LiveWindowsShort(score) ==
    {s \in WindowsFrom(score) : EmptyBars(score) \cap (s .. s + WindowBars - 2) = {}}

(* Windows of the snapshot: no bar of them is empty.                       *)
LiveWindows(score) == {s \in WindowsFrom(score) : EmptyBars(score) \cap Window(s) = {}}

-----------------------------------------------------------------------------
(* Features of a bar: a sweep over the ends of the notes clipped to it.    *)

Clipped(notes, i) ==
    {[tick |-> Max({BarStart(i), n.onset}), delta |-> 1, index |-> n.index] : n \in notes} \cup
    {[tick |-> Min({BarEnd(i), n.end}), delta |-> -1, index |-> n.index] : n \in notes}

Before(a, b) ==
    \/ a.tick < b.tick
    \/ a.tick = b.tick /\ a.delta < b.delta
    \/ a.tick = b.tick /\ a.delta = b.delta /\ a.index < b.index

Boundaries(notes, i) ==
    LET ends == Clipped({n \in notes : Overlaps(n, i)}, i)
    IN  [k \in 1 .. Cardinality(ends) |->
            CHOOSE b \in ends : Cardinality({a \in ends : Before(a, b)}) = k - 1]

Sweep(s, b) ==
    LET active == s.active + b.delta
    IN  [active   |-> active,
         voices   |-> Max({s.voices, active}),
         occupied |-> IF s.active > 0 THEN s.occupied + (b.tick - s.previous) ELSE s.occupied,
         previous |-> b.tick]

(* Most voices at a time and occupied ticks of bar i, of numbered notes.   *)
BarFeatures(notes, i) ==
    LET ends == Boundaries(notes, i)
        after[k \in 0 .. Len(ends)] ==
          IF k = 0 THEN [active |-> 0, voices |-> 0, occupied |-> 0, previous |-> BarStart(i)]
          ELSE Sweep(after[k - 1], ends[k])
        swept == after[Len(ends)]
    IN  [voices |-> swept.voices,
         occupied |-> IF swept.active > 0 THEN swept.occupied + (BarEnd(i) - swept.previous)
                      ELSE swept.occupied]

Numbered(score) == {[onset |-> score[k].onset, end |-> score[k].end, index |-> k] : k \in DOMAIN score}

(* The primitive extractor reads all notes of the stream for each bar.     *)
PrimitiveFeatures(score, i) == BarFeatures(Numbered(score), i)

(* The candidate extractor carries the notes that still sound from bar to  *)
(* bar and takes up new ones in the order of their numbers.                *)
Carried(score) ==
    LET at[i \in -1 .. BarCount(score) - 1] ==
          IF i = -1 THEN [cursor |-> 0, active |-> {}]
          ELSE LET last   == at[i - 1]
                   cursor == Max({last.cursor} \cup
                                 {c \in DOMAIN score : \A k \in last.cursor + 1 .. c :
                                                          score[k].onset < BarEnd(i)})
               IN  [cursor |-> cursor,
                    active |-> {n \in last.active : n.end > BarStart(i)} \cup
                               {n \in Numbered(score) : n.index \in last.cursor + 1 .. cursor}]
    IN  at

CandidateFeatures(score, i) == BarFeatures(Carried(score)[i].active, i)

-----------------------------------------------------------------------------
(* What the passes should say of a bar, tick by tick.                      *)

SoundingAt(score, t) == {k \in DOMAIN score : score[k].onset <= t /\ t < score[k].end}

Ticks(i) == BarStart(i) .. BarEnd(i) - 1

HeardFeatures(score, i) ==
    [voices |-> Max({Cardinality(SoundingAt(score, t)) : t \in Ticks(i)}),
     occupied |-> Cardinality({t \in Ticks(i) : SoundingAt(score, t) # {}})]

(* The stored flag, the projection and both extractors hear the same notes *)
(* in every bar, those that sound in one of its ticks: notes held over bar *)
(* lines, ending on them, or overlapping (the difference array of          *)
(* materialize_canonical_stream, the sweeps, the carried notes).           *)
BarsHearTheirNotes(score) ==
    \A i \in Bars(score) :
        /\ (i \in EmptyBars(score)) <=> (HeardFeatures(score, i).occupied = 0)
        /\ Occupied(score, i) <=> (HeardFeatures(score, i).occupied # 0)
        /\ PrimitiveFeatures(score, i) = HeardFeatures(score, i)
        /\ CandidateFeatures(score, i) = HeardFeatures(score, i)
=============================================================================
