----------------------------- MODULE MCDirSlots -----------------------------
(***************************************************************************)
(* Small volumes for TLC.  Clusters have two slots.                        *)
(***************************************************************************)
EXTENDS DirSlots, TLC

Slot(k, n, a) == [kind |-> k, name |-> n, alias |-> a, to |-> NoDir, skip |-> FALSE,
                  head |-> FALSE, left |-> 0]
Sfn(n, a)      == Slot("sfn", n, a)
DirE(n, a, c)  == [Slot("sfn", n, a) EXCEPT !.to = c]
Dot(a, c)      == [DirE(a, a, c) EXCEPT !.skip = TRUE]
Label          == [Slot("sfn", "lab", "lab") EXCEPT !.skip = TRUE]
LfnHead(n, l)  == [Slot("lfn", n, n) EXCEPT !.head = TRUE, !.left = l]
LfnPart(n, l)  == [Slot("lfn", n, n) EXCEPT !.left = l]
Free           == Slot("free", "x", "x")
EndMark           == Slot("last", "x", "x")
Body           == Sfn("body", "BODY")   \* file data that looks like an entry

Volume(dirs, seq) == [dirs |-> dirs, slots |-> [p \in 0 .. (Len(seq) - 1) |-> seq[p + 1]]]

(* As the Makefile lays it out: the first entry of the root has no long    *)
(* name.  The root goes on after a cluster of a file; the directory in it  *)
(* is full to its last slot.                                               *)
Image == Volume(0 :> <<0, 2>> @@ 3 :> <<3, 4>>,
    <<DirE("efi", "EFI", 3), LfnHead("space", 1), Body, Body, Sfn("space", "SPACE"), EndMark,
      Dot(".", 3), Dot("..", 0), Sfn("boot", "BOOT"), Free>>)

(* A long name of two pieces over the edge of a cluster, a label, a piece  *)
(* that has lost its entry, and old slots behind the end mark.             *)
Worn == Volume(0 :> <<0, 1, 2>> @@ 3 :> <<3>>,
    <<Label, LfnHead("long", 2), LfnPart("long", 1), Sfn("long", "LONG~"),
      LfnPart("gone", 1), Sfn("old", "OLD"), EndMark, Sfn("older", "OLDER")>>)

Loose == Volume(0 :> <<0, 2>> @@ 1 :> <<1>>,
    <<DirE("d", "D", 1), Free, Free, Free, Free, Sfn("f", "F"), Body, Body>>)

AllVolumes == "image" :> Image @@ "worn" :> Worn @@ "loose" :> Loose
=============================================================================
