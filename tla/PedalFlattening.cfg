\* Three notes, which may overlap on one key, in three ticks.
CONSTANTS
    left = left
    right = right
    Channels = {left, right}
    Pitches = {60}
    MaxNotes = 3
    MaxTick = 2
SPECIFICATION PedalSpec
INVARIANTS
    SoundsUnderPedal
PROPERTIES
    HeldNotesStay
CHECK_DEADLOCK FALSE
