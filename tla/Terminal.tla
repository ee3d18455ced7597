------------------------------ MODULE Terminal ------------------------------
(***************************************************************************)
(* The terminal program, src/terminal/tmain.c: a line is cut into words in *)
(* place, cd changes the working directory, which is text in a buffer of   *)
(* its own, and wh puts together a path in another.  The commands that     *)
(* only print do nothing here, nor does what wh then lists.                *)
(*                                                                         *)
(* A line is a sequence of the characters that count, "cd" and "wh" being  *)
(* one each.                                                               *)
(* The definition JoinedBare stands before the one whose name it extends   *)
(* and is a mistake the code could have made.                              *)
(***************************************************************************)
EXTENDS Integers, Sequences

CONSTANTS
    Lines,   \* what the user may enter
    MaxArgs, \* words command_parser takes (16)
    Cap,     \* sizeof(current) (100)
    Home,    \* "space/user"
    Dsk,     \* "/dsk/"
    PathCap  \* sizeof(path) (128)

(* Characters with a meaning; NUL ends a string. *)
NUL    == "nul"
Blanks == {" "}   \* the tab and the newline too
Quote  == "quote"
CR     == "cr"
Slash  == "/"
Dot    == "."
CD     == <<"cd">>
WH     == <<"wh">>

TermAssumption ==
    /\ MaxArgs \in Nat \ {0} /\ {Cap, PathCap} \subseteq Nat /\ Len(Home) < Cap
    /\ Len(Dsk) + Cap <= PathCap
    /\ \A l \in Lines : l \in Seq({" ", Quote, CR, Slash, Dot, "cd", "wh", "a"})

VARIABLES
    text,    \* command, its end mark included
    com,     \* the pointer into it
    argv,    \* places of the words
    pc,      \* where command_parser is
    current, \* the working directory
    entered  \* history: the line as it was entered

vars == <<text, com, argv, pc, current, entered>>

Init == /\ text = <<NUL>> /\ com = 1 /\ argv = <<>> /\ pc = "prompt"
        /\ current = Home /\ entered = <<>>

At == text[com]

Goes(l) == pc' = l /\ UNCHANGED <<text, com, argv, current, entered>>
Past    == com' = com + 1 /\ UNCHANGED <<text, argv, pc, current, entered>>

Enter(l) == /\ pc = "prompt"
            /\ text' = Append(l, NUL) /\ entered' = l /\ com' = 1 /\ argv' = <<>>
            /\ pc' = "top" /\ UNCHANGED current

More == Len(argv) < MaxArgs

Top == pc = "top" /\ Goes(IF At # NUL /\ More THEN "skip" ELSE "run")

Word(place, l) == argv' = Append(argv, place) /\ com' = place /\ pc' = l
                  /\ UNCHANGED <<text, current, entered>>

Skip == /\ pc = "skip"
        /\ \/ At \in Blanks /\ Past
           \/ At = NUL /\ Goes("run")
           \/ At = Quote /\ Word(com + 1, "quoted")
           \/ At \notin Blanks \cup {NUL, Quote} /\ Word(com, "word")

EndsWord == Blanks \cup {NUL, CR}

Quoted  == pc = "quoted" /\ IF At \in {NUL, Quote} THEN Goes("cut") ELSE Past
InWord  == pc = "word" /\ IF At \in EndsWord THEN Goes("cut") ELSE Past

(* The character behind a word gives way to an end mark. *)
Cut == /\ pc = "cut" /\ pc' = "top" /\ UNCHANGED <<argv, current, entered>>
       /\ IF At = NUL THEN UNCHANGED <<text, com>>
          ELSE text' = [text EXCEPT ![com] = NUL] /\ com' = com + 1
-----------------------------------------------------------------------------
Prefix(s, stops) == LET n == CHOOSE k \in 0 .. Len(s) :
                            /\ \A i \in 1 .. k : s[i] \notin stops
                            /\ k < Len(s) => s[k + 1] \in stops
                    IN  SubSeq(s, 1, n)
From(s, k) == SubSeq(s, k, Len(s))

(* The string argv[k]. *)
Arg(k) == Prefix(From(text, argv[k]), {NUL})

EndsIn(s, c) == s # <<>> /\ s[Len(s)] = c

(* cd .. cuts at the last slash, if there is one. *)
LastSlash == CHOOSE k \in 1 .. Len(current) :
                current[k] = Slash /\ \A i \in (k + 1) .. Len(current) : current[i] # Slash
HasSlash  == \E k \in 1 .. Len(current) : current[k] = Slash
Up == IF HasSlash THEN SubSeq(current, 1, LastSlash - 1) ELSE current

Fits(t) == Len(current) + 1 + Len(t) < Cap

JoinedBare(t) == current \o t
Joined(t) == IF current # <<>> /\ ~EndsIn(current, Slash)
             THEN Append(current, Slash) \o t ELSE current \o t

Cd(t) == CASE t = <<Dot>>      -> current
           [] t = <<Dot, Dot>> -> Up
           [] t # <<>> /\ t[1] = Slash -> IF Len(t) < Cap THEN Tail(t) ELSE current
           [] OTHER -> IF Fits(t) THEN Joined(t) ELSE current

IsCd == argv # <<>> /\ Arg(1) = CD

(* The path of wh, which nothing checks: when it is longer than its buffer *)
(* it overwrites the stack, and whatever comes then is left out.           *)
IsWh    == argv # <<>> /\ Arg(1) = WH
WhPath  == Dsk \o (IF Len(argv) > 1 THEN Arg(2) ELSE current)
Overrun == IsWh /\ Len(WhPath) >= PathCap

(* The command; of its line nothing is used again. *)
Run == /\ pc = "run" /\ ~Overrun /\ pc' = "prompt"
       /\ current' = IF ~IsCd THEN current
                     ELSE IF Len(argv) < 2 THEN Home ELSE Cd(Arg(2))
       /\ text' = <<NUL>> /\ com' = 1 /\ argv' = <<>> /\ entered' = <<>>

Breaks == pc = "run" /\ Overrun /\ Goes("overrun")

Next == (\E l \in Lines : Enter(l)) \/ Top \/ Skip \/ Quoted \/ InWord \/ Cut \/ Run \/ Breaks

Spec == Init /\ [][Next]_vars
-----------------------------------------------------------------------------
(* The pointer stays in the line, argv in its array with room for NULL,    *)
(* and the working directory in its buffer, end mark included.  So does    *)
(* the path of wh, but for a path that was made from an argument.          *)
TypeOK == /\ com \in 1 .. Len(text) /\ EndsIn(text, NUL)
          /\ Len(argv) <= MaxArgs /\ \A k \in DOMAIN argv : argv[k] \in 1 .. Len(text)
          /\ pc \in {"prompt", "top", "skip", "quoted", "word", "cut", "run", "overrun"}
          /\ Len(current) < Cap
          /\ pc = "overrun" => Len(argv) > 1

(* What the words of a line are: blanks part them, but not between quotes. *)
RECURSIVE Words(_)
Words(s) ==
    IF s = <<>> THEN <<>>
    ELSE IF Head(s) \in Blanks THEN Words(Tail(s))
    ELSE LET q == Head(s) = Quote
             w == IF q THEN Prefix(Tail(s), {Quote}) ELSE Prefix(s, Blanks \cup {CR})
         IN  <<w>> \o Words(From(s, Len(w) + (IF q THEN 3 ELSE 2)))

(* When a command is run, its words are those of the line that was entered *)
(* (the first ones of them), although the line was cut up on the way.      *)
ArgsAreWords == pc = "run" =>
    LET all == Words(entered)
        n   == IF Len(all) < MaxArgs THEN Len(all) ELSE MaxArgs
    IN  [k \in DOMAIN argv |-> Arg(k)] = SubSeq(all, 1, n)

RECURSIVE Names(_)
Names(p) == IF p = <<>> THEN <<>>
            ELSE IF Head(p) = Slash THEN Names(Tail(p))
            ELSE LET n == Prefix(p, {Slash}) IN <<n>> \o Names(From(p, Len(n) + 1))

(* cd goes where its argument says, as a list of names: to a path from the *)
(* root, one name up (unless the path ends in a slash, when only that goes *)
(* away, or has no slash), or down.  A path with no room in the buffer     *)
(* changes nothing.                                                        *)
CdResolves == [][(pc = "run" /\ IsCd /\ Len(argv) > 1) =>
    LET t  == Arg(2)
        to == CASE t = <<Dot>> -> Names(current)
                [] t = <<Dot, Dot>> -> IF HasSlash /\ ~EndsIn(current, Slash)
                                       THEN SubSeq(Names(current), 1, Len(Names(current)) - 1)
                                       ELSE Names(current)
                [] t # <<>> /\ t[1] = Slash -> Names(t)
                [] OTHER -> Names(current) \o Names(t)
    IN  Names(current') = to \/ (current' = current /\ Len(current) + Len(t) + 1 >= Cap)]_vars
=============================================================================
