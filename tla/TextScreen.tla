----------------------------- MODULE TextScreen -----------------------------
(***************************************************************************)
(* What the display driver promises: a grid of characters with a cursor.   *)
(* A line that is full goes on in the next row, and a row below the last   *)
(* one is made room for by moving all rows up, both only when the next     *)
(* character comes.                                                        *)
(***************************************************************************)
EXTENDS Integers

CONSTANTS Rows, Cols, Glyphs, Blank, Tab

ScreenAssumption == {Rows, Cols, Tab} \subseteq Nat \ {0} /\ Blank \notin Glyphs

VARIABLES cells, row, col

screen == <<cells, row, col>>

Places == (0 .. Rows - 1) \X (0 .. Cols - 1)
Empty  == [p \in Places |-> Blank]

TypeOK == cells \in [Places -> Glyphs \cup {Blank}] /\ row \in 0 .. Rows /\ col \in Nat

Init == cells = Empty /\ row = 0 /\ col = 0

(* Where the next character goes, and what is on the screen by then. *)
Wraps   == col >= Cols
NextRow == IF Wraps THEN row + 1 ELSE row
Scrolls == NextRow >= Rows

Up == [p \in Places |-> IF p[1] = Rows - 1 THEN Blank ELSE cells[p[1] + 1, p[2]]]

Row    == IF Scrolls THEN NextRow - 1 ELSE NextRow
Col    == IF Wraps \/ Scrolls THEN 0 ELSE col
Ground == IF Scrolls THEN Up ELSE cells

Put(g) == /\ cells' = [Ground EXCEPT ![Row, Col] = g]
            /\ row' = Row /\ col' = Col + 1

(* A backspace goes back one place, but not to the row above, and clears.  *)
Back == LET c == IF Col > 0 THEN Col - 1 ELSE 0
        IN  cells' = [Ground EXCEPT ![Row, c] = Blank] /\ row' = Row /\ col' = c

Newline == cells' = Ground /\ row' = Row + 1 /\ col' = 0
Return  == cells' = Ground /\ row' = Row /\ col' = 0
Skip    == cells' = Ground /\ row' = Row /\ col' = Col + Tab

Clear == cells' = Empty /\ row' = 0 /\ col' = 0

(* 0 leaves a coordinate as it is. *)
Move(x, y) == /\ col' = (IF x = 0 THEN col ELSE x)
              /\ row' = (IF y = 0 THEN row ELSE y)
              /\ UNCHANGED cells

Next == \/ \E g \in Glyphs \cup {Blank} : Put(g)
        \/ Back \/ Newline \/ Return \/ Skip \/ Clear
        \/ \E x \in 0 .. Cols - 1, y \in 0 .. Rows - 1 : Move(x, y)

Spec == Init /\ [][Next]_screen
=============================================================================
