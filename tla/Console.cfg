SPECIFICATION Spec
CONSTANTS
    Blank = Blank
    None = None
INVARIANTS LineSeen LibrarySound
PROPERTIES ScreenSound TerminalSound
CHECK_DEADLOCK FALSE
