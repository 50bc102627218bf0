SPECIFICATION Spec
CONSTANTS
    Base = base
    Indirects = {ind}
    Markers = {m}
    Narrowings <- MCNarrowings
    Length = 3
    Edits = 2
    Moves = 2
    History = 3
    Saves = 2
    None = None
INVARIANTS TypeOK UndoRestores
PROPERTIES PlacesKept EditsStayVisible
CHECK_DEADLOCK FALSE
