------------------------------ MODULE Display ------------------------------
(***************************************************************************)
(* The display driver, src/kernel/driver/image.c: glyphs drawn into the    *)
(* words of a framebuffer, whose lines may be longer than what is seen,    *)
(* and which need not be a whole number of glyphs wide or high.            *)
(*                                                                         *)
(* Colours are left out: a word is background or a pixel of a glyph.       *)
(* Definitions such as RowWordsSeen stand before the one whose name they   *)
(* extend and are mistakes the code could have made.                       *)
(***************************************************************************)
EXTENDS Integers

CONSTANTS
    Width, Height, \* fb.width, fb.height
    Pitch,         \* fb.pitch / 4
    W, H,          \* font->width, font->height
    Glyphs,        \* characters that are drawn
    Blank,         \* the space, and a word that is background
    Tab            \* glyphs a tab is wide (4)

DisplayAssumption ==
    /\ {Width, Height, Pitch, W, H, Tab} \subseteq Nat \ {0}
    /\ W <= Width /\ H <= Height /\ Width <= Pitch /\ Blank \notin Glyphs

Words == 0 .. (Height * Pitch - 1)
Pixels == Glyphs \X (0 .. H - 1) \X (0 .. W - 1)
Font(c, i, j) == IF c = Blank THEN Blank ELSE <<c, i, j>>

VARIABLES
    fb,   \* the words at fb.base
    x, y  \* dsp_x, dsp_y, in pixels

vars == <<fb, x, y>>

Cleared == [a \in Words |-> Blank]

Init == fb = Cleared /\ x = 0 /\ y = 0
-----------------------------------------------------------------------------
(* check_scroll_or_new_line, at the start of every dsp_putchar. *)

Full == x + W > Width

LineY == IF Full THEN y + H ELSE y

Below == LineY + H > Height

RowWordsSeen == H * Width
RowWords == H * Pitch

(* memmove towards the start, then background in the last words. *)
Scrolled == [a \in Words |-> IF a + RowWords \in Words THEN fb[a + RowWords] ELSE Blank]

DrawY == IF Below THEN LineY - H ELSE LineY
DrawX == IF Full \/ Below THEN 0 ELSE x
Base  == IF Below THEN Scrolled ELSE fb

OnScreen(px, py) == px < Width /\ py < Height

Draw(c, dx, dy) ==
    [a \in Words |->
        LET py == a \div Pitch
            px == a % Pitch
        IN  IF py \in dy .. (dy + H - 1) /\ px \in dx .. (dx + W - 1) /\ OnScreen(px, py)
            THEN Font(c, py - dy, px - dx) ELSE Base[a]]

PutGlyph(c) == fb' = Draw(c, DrawX, DrawY) /\ y' = DrawY /\ x' = DrawX + W

PutBack == LET bx == IF DrawX >= W THEN DrawX - W ELSE DrawX
           IN  fb' = Draw(Blank, bx, DrawY) /\ y' = DrawY /\ x' = bx

PutNewline == fb' = Base /\ y' = DrawY + H /\ x' = 0
PutTab     == fb' = Base /\ y' = DrawY /\ x' = DrawX + Tab * W
PutReturn  == fb' = Base /\ y' = DrawY /\ x' = 0

DspClear == fb' = Cleared /\ x' = 0 /\ y' = 0

(* Places on the screen.  Behind it a glyph may be drawn in part. *)
SetCursor(cx, cy) == /\ x' = (IF cx # 0 THEN cx * W ELSE x)
                     /\ y' = (IF cy # 0 THEN cy * H ELSE y)
                     /\ UNCHANGED fb

Rows == Height \div H
Cols == Width \div W

Next == \/ \E c \in Glyphs \cup {Blank} : PutGlyph(c)
        \/ PutBack \/ PutNewline \/ PutTab \/ PutReturn \/ DspClear
        \/ \E cx \in 0 .. Cols - 1, cy \in 0 .. Rows - 1 : SetCursor(cx, cy)

Spec == Init /\ [][Next]_vars
-----------------------------------------------------------------------------
(* The cursor is at most one row below the screen, in whole glyphs.        *)
TypeOK == /\ fb \in [Words -> Pixels \cup {Blank}]
          /\ x \in 0 .. ((Cols + Tab) * W) /\ x % W = 0
          /\ y \in 0 .. (Rows * H) /\ y % H = 0

(* Beside the last column, below the last row and in the words of a line   *)
(* that are not seen there is never a part of a glyph, so that none comes  *)
(* into view when the rows move up.                                        *)
MarginsBlank == \A a \in Words :
    (a % Pitch >= Cols * W \/ a \div Pitch >= Rows * H) => fb[a] = Blank

(* The character at a place; a glyph of which only a part is there, or one *)
(* over another, is none.                                                  *)
Torn == "torn"
Shows(c, p) == \A i \in 0 .. H - 1, j \in 0 .. W - 1 :
                  fb[(p[1] * H + i) * Pitch + p[2] * W + j] = Font(c, i, j)
CharAt(p) == IF \E c \in Glyphs \cup {Blank} : Shows(c, p)
             THEN CHOOSE c \in Glyphs \cup {Blank} : Shows(c, p) ELSE Torn

Screen == INSTANCE TextScreen WITH
    cells <- [p \in (0 .. Rows - 1) \X (0 .. Cols - 1) |-> CharAt(p)],
    row   <- y \div H,
    col   <- x \div W

(* The words of the framebuffer show a grid of whole characters, which     *)
(* every dsp_putchar, dsp_clear and dsp_set_cursor changes as a text       *)
(* screen does, whatever the size of the screen, of its lines and of the   *)
(* font.                                                                   *)
ImplementsScreen == Screen!Spec

(* The screen is one of text, also where it is not seen.                   *)
ScreenSound == []TypeOK /\ []MarginsBlank /\ ImplementsScreen
=============================================================================
