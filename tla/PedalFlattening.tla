-------------------------- MODULE PedalFlattening --------------------------
(***************************************************************************)
(* performance_flattening_v1: one track is read message by message, and    *)
(* the pedals CC64 and CC66 become longer notes.  A note is held from its  *)
(* note-on; its note-off comes when it is read, or is deferred while a     *)
(* pedal keeps the note sounding.                                          *)
(*                                                                         *)
(* Notes are numbered in the order of their note-ons, so the note that a   *)
(* note-off releases, the last of its key's list, is the greatest.         *)
(*                                                                         *)
(* latch is not in the code: it marks the notes that sounded when the      *)
(* sostenuto pedal was last pressed, as long as it stays down: with their  *)
(* key down, or under the sustain pedal only.                              *)
(***************************************************************************)
EXTENDS Integers, FiniteSets

CONSTANTS Channels, Pitches,
          MaxNotes, MaxTick   \* bounds: notes of a track, its length in ticks

Keys  == Channels \X Pitches
Notes == 1 .. MaxNotes

ASSUME KeyAssumption == Keys # {}
ASSUME BoundAssumption == {MaxNotes, MaxTick} \subseteq Nat

VARIABLES
    tick,        \* absolute time of the message read last
    note,        \* note[n]: what became of the n-th note
    used,        \* notes so far
    sustain, sostenuto,   \* per channel: the pedal is down
    phase        \* "read"; "flat" when the track is rendered; "stray", see NoteOff

pedalVars == <<tick, note, used, sustain, sostenuto, phase>>

NoteStates == {"none", "held", "deferred", "ended", "dropped"}

Unplayed == [key |-> CHOOSE k \in Keys : TRUE, start |-> 0, end |-> 0, state |-> "none",
             sostenuto |-> FALSE, latch |-> "none"]

Active(k) == {n \in Notes : note[n].state = "held" /\ note[n].key = k}
Deferred  == {n \in Notes : note[n].state = "deferred"}

Channel(n) == note[n].key[1]

-----------------------------------------------------------------------------
PedalInit ==
    /\ tick = 0
    /\ note = [n \in Notes |-> Unplayed] /\ used = 0
    /\ sustain = [c \in Channels |-> FALSE] /\ sostenuto = [c \in Channels |-> FALSE]
    /\ phase = "read"

(* Messages carry a delta time, realtime and soft pedal messages nothing   *)
(* else.                                                                   *)
Wait ==
    /\ phase = "read" /\ tick < MaxTick
    /\ tick' = tick + 1
    /\ UNCHANGED <<note, used, sustain, sostenuto, phase>>

NoteOn(k) ==
    /\ phase = "read" /\ used < MaxNotes
    /\ used' = used + 1
    /\ note' = [note EXCEPT ![used'] =
                   [Unplayed EXCEPT !.key = k, !.start = tick, !.state = "held"]]
    /\ UNCHANGED <<tick, sustain, sostenuto, phase>>

(* Mutation: a latch keeps the note, whether its pedal is down or not.      *)
KeptByLatch(n) == sustain[Channel(n)] \/ note[n].sostenuto

KeptByPedal(n) == sustain[Channel(n)] \/ (sostenuto[Channel(n)] /\ note[n].sostenuto)

(* A note that ends on the tick it began is dropped, pedal or no pedal.    *)
Released(n) ==
    [note[n] EXCEPT !.state = IF tick = note[n].start THEN "dropped"
                              ELSE IF KeptByPedal(n) THEN "deferred" ELSE "ended",
                    !.end = tick]

(* A note-off whose key is up is written as it is.  It does no harm unless *)
(* a pedal holds a note of that key, which the reader of the file takes to *)
(* end there; such a track is not followed further.                        *)
NoteOff(k) ==
    /\ phase = "read"
    /\ IF Active(k) = {}
       THEN /\ \E n \in Deferred : note[n].key = k
            /\ phase' = "stray" /\ UNCHANGED note
       ELSE LET n == CHOOSE n \in Active(k) : \A m \in Active(k) : m <= n
            IN  note' = [note EXCEPT ![n] = Released(n)] /\ UNCHANGED phase
    /\ UNCHANGED <<tick, used, sustain, sostenuto>>

(* Mutation: the deferred notes of every channel end.                      *)
FlushedEverywhere(notes, c, sus, sos) ==
    [n \in Notes |->
        IF notes[n].state = "deferred" /\ ~sus /\ ~(sos /\ notes[n].sostenuto)
        THEN [notes[n] EXCEPT !.state = "ended", !.end = tick] ELSE notes[n]]

(* The deferred notes of the channel that no pedal keeps end now.          *)
Flushed(notes, c, sus, sos) ==
    [n \in Notes |->
        IF /\ notes[n].state = "deferred" /\ notes[n].key[1] = c
           /\ ~sus /\ ~(sos /\ notes[n].sostenuto)
        THEN [notes[n] EXCEPT !.state = "ended", !.end = tick] ELSE notes[n]]

SustainPedal(c, down) ==
    /\ phase = "read"
    /\ sustain' = [sustain EXCEPT ![c] = down]
    /\ note' = IF sustain[c] /\ ~down THEN Flushed(note, c, FALSE, sostenuto[c]) ELSE note
    /\ UNCHANGED <<tick, used, sostenuto, phase>>

(* A press latches the notes whose keys are down, not those that only the  *)
(* sustain pedal keeps sounding.                                           *)
Latched(c) ==
    [n \in Notes |->
        IF Channel(n) # c THEN note[n]
        ELSE CASE note[n].state = "held"     -> [note[n] EXCEPT !.sostenuto = TRUE, !.latch = "key"]
               [] note[n].state = "deferred" -> [note[n] EXCEPT !.latch = "pedal"]
               [] OTHER                      -> note[n]]

(* The release takes the latch off deferred notes, not off held ones.      *)
Unlatched(c) ==
    [n \in Notes |-> IF Channel(n) # c THEN note[n]
                     ELSE [note[n] EXCEPT !.sostenuto = @ /\ note[n].state = "held",
                                          !.latch = "none"]]

SostenutoPedal(c, down) ==
    /\ phase = "read"
    /\ sostenuto' = [sostenuto EXCEPT ![c] = down]
    /\ note' = IF down /\ ~sostenuto[c] THEN Latched(c)
               ELSE IF sostenuto[c] /\ ~down THEN Flushed(Unlatched(c), c, sustain[c], FALSE)
               ELSE note
    /\ UNCHANGED <<tick, used, sustain, phase>>

(* CC121 releases both pedals of its channel and every latch.              *)
Reset(c) ==
    /\ phase = "read"
    /\ sustain' = [sustain EXCEPT ![c] = FALSE]
    /\ sostenuto' = [sostenuto EXCEPT ![c] = FALSE]
    /\ note' = Flushed([n \in Notes |-> IF Channel(n) # c THEN note[n]
                           ELSE [note[n] EXCEPT !.sostenuto = FALSE, !.latch = "none"]],
                       c, FALSE, FALSE)
    /\ UNCHANGED <<tick, used, phase>>

(* At the end of the track the deferred note-offs come at the last tick;   *)
(* keys that were never released stay down.                                *)
EndOfTrack ==
    /\ phase = "read"
    /\ phase' = "flat"
    /\ note' = [n \in Notes |-> IF n \in Deferred
                                THEN [note[n] EXCEPT !.state = "ended", !.end = tick]
                                ELSE note[n]]
    /\ UNCHANGED <<tick, used, sustain, sostenuto>>

PedalNext ==
    \/ Wait \/ EndOfTrack
    \/ \E k \in Keys : NoteOn(k) \/ NoteOff(k)
    \/ \E c \in Channels : \/ \E down \in BOOLEAN : SustainPedal(c, down) \/ SostenutoPedal(c, down)
                           \/ Reset(c)

PedalSpec == PedalInit /\ [][PedalNext]_pedalVars

-----------------------------------------------------------------------------
(* Properties.                                                             *)

NoteType == [key : Keys, start : 0 .. MaxTick, end : 0 .. MaxTick, state : NoteStates,
             sostenuto : BOOLEAN, latch : {"none", "key", "pedal"}]

(* Every variable has its kind.                                            *)
PedalTypeOK ==
    /\ tick \in 0 .. MaxTick /\ note \in [Notes -> NoteType] /\ used \in 0 .. MaxNotes
    /\ sustain \in [Channels -> BOOLEAN] /\ sostenuto \in [Channels -> BOOLEAN]
    /\ phase \in {"read", "flat", "stray"}

(* A note whose key is up sounds only while a pedal of its channel holds   *)
(* it: the sustain pedal, or a sostenuto pedal that was pressed while the  *)
(* note sounded, be it that a stale latch says so (Unlatched).             *)
SoundsUnderPedal ==
    \A n \in Deferred : \/ sustain[Channel(n)]
                        \/ sostenuto[Channel(n)] /\ note[n].latch # "none"

(* Conversely, no step ends a note that a pedal, as the step leaves it,    *)
(* holds, before the track ends: a key that comes up, the reset and the    *)
(* release of one pedal leave the notes of the other and of other channels *)
(* alone.  Of the notes that sounded when the sostenuto pedal was pressed  *)
(* this is true of those whose keys were down; the others end with the     *)
(* sustain pedal, although the documentation has them held as well.        *)
HeldNotesStay ==
    [][phase' = "read" =>
        \A n \in Notes : note[n].state \in {"held", "deferred"} /\ note'[n].state = "ended" =>
            /\ ~sustain'[Channel(n)]
            /\ ~(sostenuto'[Channel(n)] /\ note'[n].latch = "key")]_pedalVars
=============================================================================
