----------------------------- MODULE MCConsole -----------------------------
(***************************************************************************)
(* What stands between a program and the user, on small instances for TLC: *)
(* the display driver, the line that is typed as the screen shows it, the  *)
(* terminal's words and its working directory, and the C library under     *)
(* them.  They share no state, and a behaviour is one of a single part;    *)
(* the others stay as they begin.                                          *)
(***************************************************************************)
EXTENDS Integers, Sequences

CONSTANTS Blank, None

VARIABLES part,
    fb, x, y,
    cells, row, col, line, first, ups, edge,
    text, com, argv, tPc, current, entered,
    mem, call, sPc, d, s, len, ret

displayVars == <<fb, x, y>>
echoVars    == <<cells, row, col, line, first, ups, edge>>
termVars    == <<text, com, argv, tPc, current, entered>>
libVars     == <<mem, call, sPc, d, s, len, ret>>
consoleVars == <<part, displayVars, echoVars, termVars, libVars>>
-----------------------------------------------------------------------------
(* Three columns and two rows of glyphs, with words beside and below them, *)
(* and one more in each line that is not seen.                             *)
Screen == INSTANCE Display WITH
    Width <- 7, Height <- 5, Pitch <- 8, W <- 2, H <- 2, Glyphs <- {"a", "b"}, Tab <- 4

(* A line of up to five characters, nearly a screen. *)
Typed == INSTANCE LineEcho WITH
    Rows <- 2, Cols <- 3, Glyphs <- {"a", "b"}, Tab <- 4, Size <- 6, MaxUps <- 2
-----------------------------------------------------------------------------
UpTo(n, S) == UNION {[1 .. k -> S] : k \in 0 .. n}

(* Everything short for the words; for cd, everything short as its target; *)
(* for wh, words that have just room in its buffer and just none.          *)
AnyLines == UpTo(5, {" ", "quote", "cr", "a"})
CdLines  == {<<"cd">>, <<"cd", " ", "quote">>}
            \cup {<<"cd", " ">> \o t : t \in UpTo(3, {"/", ".", "a"})}
            \cup {<<"wh">>} \cup {<<"wh", " ">> \o [k \in 1 .. n |-> "a"] : n \in {6, 7}}

HomePath == <<"a", "/", "a">>

Parser == INSTANCE Terminal WITH
    Lines <- AnyLines, MaxArgs <- 2, Cap <- 7, Home <- HomePath, Dsk <- <<"/", "a", "/">>,
    PathCap <- 10, pc <- tPc
Paths == INSTANCE Terminal WITH
    Lines <- CdLines, MaxArgs <- 2, Cap <- 7, Home <- HomePath, Dsk <- <<"/", "a", "/">>,
    PathCap <- 10, pc <- tPc
-----------------------------------------------------------------------------
(* Twelve different bytes in words of two and blocks of four to move; all  *)
(* memories of five characters, one of them negative, for strings.         *)
Moves == INSTANCE StrLib WITH
    M <- 12, Word <- 2, Block <- 4, CharMod <- 4, Chars <- {0},
    Lens <- {0, 1, 2, 3, 5, 8, 9, 11}, Functions <- {"memset", "memcpy", "memmove"}, pc <- sPc
Texts == INSTANCE StrLib WITH
    M <- 5, Word <- 2, Block <- 4, CharMod <- 4, Chars <- {0, 1, 3}, Lens <- {0, 1, 2},
    Functions <- {"memcmp", "strlen", "strcmp", "strncmp", "strcat", "strrchr", "strcpy"},
    pc <- sPc
-----------------------------------------------------------------------------
ASSUME ConsoleAssumption ==
    /\ Screen!DisplayAssumption /\ Typed!EchoAssumption
    /\ Parser!TermAssumption /\ Paths!TermAssumption
    /\ Moves!StrAssumption /\ Texts!StrAssumption

LibStays == Moves!Called("memset", [i \in 0 .. 11 |-> i], 0, 0, 0)

Init ==
    \/ part = "display" /\ Screen!Init /\ Typed!EchoInit /\ Parser!Init /\ LibStays
    \/ part = "echo"    /\ Screen!Init /\ Typed!EchoInit /\ Parser!Init /\ LibStays
    \/ part = "words"   /\ Screen!Init /\ Typed!EchoInit /\ Parser!Init /\ LibStays
    \/ part = "cd"      /\ Screen!Init /\ Typed!EchoInit /\ Paths!Init  /\ LibStays
    \/ part = "moves"   /\ Screen!Init /\ Typed!EchoInit /\ Parser!Init /\ Moves!Init
    \/ part = "texts"   /\ Screen!Init /\ Typed!EchoInit /\ Parser!Init /\ Texts!Init

Next ==
    /\ UNCHANGED part
    /\ \/ part = "display" /\ Screen!Next    /\ UNCHANGED <<echoVars, termVars, libVars>>
       \/ part = "echo"    /\ Typed!EchoNext /\ UNCHANGED <<displayVars, termVars, libVars>>
       \/ part = "words"   /\ Parser!Next    /\ UNCHANGED <<displayVars, echoVars, libVars>>
       \/ part = "cd"      /\ Paths!Next     /\ UNCHANGED <<displayVars, echoVars, libVars>>
       \/ part = "moves"   /\ Moves!Next     /\ UNCHANGED <<displayVars, echoVars, termVars>>
       \/ part = "texts"   /\ Texts!Next     /\ UNCHANGED <<displayVars, echoVars, termVars>>

Spec == Init /\ [][Next]_consoleVars
-----------------------------------------------------------------------------
(* The framebuffer shows a text screen, with nothing of a glyph beside it. *)
ScreenSound == [](part = "display" => Screen!TypeOK /\ Screen!MarginsBlank)
               /\ Screen!ImplementsScreen

(* The screen shows the line that SYS_READ will hand over, as long as      *)
(* nothing was erased at the edge of a row.                                *)
LineSeen == part = "echo" => Typed!EchoTypeOK /\ Typed!SeenBetweenEdges

(* A command's words are those of its line, cd goes where they say, and    *)
(* the paths stay in their buffers, but for one that wh makes from an      *)
(* argument: nothing in the code bounds that one.                          *)
TerminalSound ==
    /\ [](part = "words" => Parser!TypeOK /\ Parser!ArgsAreWords)
    /\ [](part = "cd" => Paths!TypeOK) /\ Paths!CdResolves

(* memset, memcpy and memmove write what they are asked for and nothing    *)
(* else; searches, copies and comparisons of strings are right, that of    *)
(* strncmp when the bytes to be compared decide it.                        *)
LibrarySound == /\ part = "moves" => Moves!LibrarySound
                /\ part = "texts" => Texts!LibrarySound
=============================================================================
