SPECIFICATION Spec
CONSTANTS
    ByteBits = 4
    PageBytes = 2
    Boots <- SmallBoots
    Requests = {0, 1, 2, 3}
INVARIANTS TypeOK ReservedStays OwnedIsSafe MarksExact BookkeepingRight
\* A panic stops the machine.
CHECK_DEADLOCK FALSE
