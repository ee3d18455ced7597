------------------------------ MODULE LineEcho ------------------------------
(***************************************************************************)
(* What a user sees of the line that SYS_READ edits (src/kernel/sys.c) on  *)
(* the text screen that module Display implements.  Before a read, and     *)
(* after it, programs print.  The characters come from KbdStream; tabs are *)
(* left out.                                                               *)
(*                                                                         *)
(* The definition AnythingLeftAny stands before the one whose name it      *)
(* extends and is a mistake the code could have made.                      *)
(***************************************************************************)
EXTENDS TextScreen, Sequences

CONSTANTS Size, \* length of the caller's buffer (256 in the terminal)
          None, \* no read is going on
    MaxUps \* bound: rows the screen moves up during a read

EchoAssumption == ScreenAssumption /\ Size \in Nat \ {0, 1} /\ MaxUps \in Nat /\ None \notin Seq(Glyphs)

VARIABLES
    line,  \* buf[0] .. buf[i-1], or None
    first, \* history: where the line's first character goes, counted in
           \* places from the top of the screen as it was then
    ups,   \* history: rows the screen has moved up since
    edge   \* history: something was erased at the edge of a row since

echo == <<line, first, ups, edge>>
echoVars == <<screen, echo>>

EchoInit == Init /\ line = None /\ first = 0 /\ ups = 0 /\ edge = FALSE

Reading == line # None
Moves   == ups' = ups + (IF Scrolls THEN 1 ELSE 0) /\ ups' <= MaxUps

(* Programs that print, the terminal's prompt for one. *)
Program == /\ ~Reading /\ UNCHANGED echo
           /\ Newline \/ \E g \in Glyphs : Put(g)

(* A full row counts as the start of the next. *)
Cursor == row * Cols + (IF Wraps THEN Cols ELSE col)

BeginRead == /\ ~Reading
             /\ line' = <<>> /\ first' = Cursor /\ ups' = 0 /\ edge' = FALSE
             /\ UNCHANGED screen

Room == Len(line) + 1 < Size

Type(g) == /\ Reading /\ Room
           /\ line' = Append(line, g) /\ Put(g) /\ Moves
           /\ UNCHANGED <<first, edge>>

AnythingLeftAny == TRUE
AnythingLeft == line # <<>>

(* A backspace on an empty line does nothing. *)
Erase == /\ Reading /\ Room /\ AnythingLeft
         /\ line' = SubSeq(line, 1, Len(line) - 1) /\ Back /\ Moves
         /\ edge' = (edge \/ Wraps \/ Col = 0)
         /\ UNCHANGED first

(* The enter key, which is not echoed, or a full buffer. *)
EndRead == /\ Reading /\ UNCHANGED screen
           /\ line' = None /\ first' = 0 /\ ups' = 0 /\ edge' = FALSE

EchoNext == Program \/ BeginRead \/ Erase \/ EndRead \/ \E g \in Glyphs : Type(g)

EchoSpec == EchoInit /\ [][EchoNext]_echoVars

-----------------------------------------------------------------------------
(* The line has room for the end mark of the string.                       *)
EchoTypeOK == TypeOK /\ ups \in 0 .. MaxUps /\ edge \in BOOLEAN
              /\ Reading => line \in Seq(Glyphs) /\ Len(line) < Size

(* The place of the k-th character, which may have left the screen. *)
Place(k) == LET n == first + k - 1 - ups * Cols IN <<n \div Cols, n % Cols>>

OnShow == /\ Cursor + ups * Cols = first + Len(line)
          /\ \A k \in 1 .. Len(line) : Place(k) \in Places => cells[Place(k)] = line[k]
          /\ Place(Len(line) + 1) \in Places => cells[Place(Len(line) + 1)] = Blank

(* While a line is edited the screen shows what the buffer holds, with the *)
(* cursor behind it, over ends of rows and however often the screen moves  *)
(* up: as long as nothing was erased at the edge of a row.                 *)
SeenBetweenEdges == Reading /\ ~edge => OnShow
=============================================================================
