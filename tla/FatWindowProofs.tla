-------------------------- MODULE FatWindowProofs --------------------------
(***************************************************************************)
(* Lemmas about the window of FatWindow, for the proofs about the modules  *)
(* built on it.  Whatever update_buf and sync_buf do, and however they     *)
(* fail, what is seen of every sector stays the same, and the medium stays *)
(* as it is or becomes what was seen.                                      *)
(***************************************************************************)
EXTENDS FatWindow, TLAPS

(* The window holds a sector of T, or none; the contents of sectors are in *)
(* C.  Only a dirty window differs from the medium.                        *)
WindowFits(T, none, C) ==
    /\ disk \in [T -> C]
    /\ win \in [sect : T \cup {none}, buf : C, dirty : BOOLEAN]
    /\ win.dirty => win.sect \in T
    /\ ~win.dirty /\ win.sect \in T => disk[win.sect] = win.buf

(* What is seen of sector t after outcome o. *)
SeenAfter(o, t) == IF o.win.sect = t THEN o.win.buf ELSE o.disk[t]

(* An outcome of sync_buf or update_buf that fits. *)
OutcomeFits(o, T, none, C) ==
    /\ o.disk \in [T -> C]
    /\ o.win \in [sect : T \cup {none}, buf : C, dirty : BOOLEAN]
    /\ o.ok \in BOOLEAN
    /\ o.win.dirty => o.win.sect \in T
    /\ ~o.win.dirty /\ o.win.sect \in T => o.disk[o.win.sect] = o.win.buf
    /\ o.win.sect \in T \/ o.win = win
    /\ \A t \in T : SeenAfter(o, t) = View(t)
    /\ o.disk = disk \/ \A t \in T : o.disk[t] = View(t)

(* What sync_buf leaves; when it succeeds the medium is what was seen.     *)
LEMMA SyncBufFits ==
    ASSUME NEW T, NEW C, NEW none, none \notin T, WindowFits(T, none, C), NEW o \in SyncBuf
    PROVE  /\ OutcomeFits(o, T, none, C)
           /\ o.win.sect = win.sect
           /\ o.ok => ~o.win.dirty /\ \A t \in T : o.disk[t] = View(t)
  <1> DEFINE written == [disk EXCEPT ![win.sect] = win.buf]
             clean   == [win EXCEPT !.dirty = FALSE]
  <1>1. /\ disk \in [T -> C] /\ win \in [sect : T \cup {none}, buf : C, dirty : BOOLEAN]
        /\ win.dirty => win.sect \in T
        /\ ~win.dirty /\ win.sect \in T => disk[win.sect] = win.buf
    BY DEF WindowFits
  <1>2. win.dirty => /\ written \in [T -> C]
                     /\ \A t \in T : written[t] = View(t)
    BY <1>1 DEF View
  <1>3. /\ clean \in [sect : T \cup {none}, buf : C, dirty : BOOLEAN]
        /\ clean.sect = win.sect /\ clean.buf = win.buf /\ ~clean.dirty
    BY <1>1
  <1>4. CASE o = [win |-> clean, disk |-> written, ok |-> TRUE] /\ win.dirty
    <2>1. o.win = clean /\ o.disk = written /\ o.ok = TRUE  BY <1>4
    <2>2. written[win.sect] = win.buf  BY <1>1, <1>4
    <2> HIDE DEF written, clean
    <2>3. \A t \in T : SeenAfter(o, t) = View(t)
      BY <1>2, <1>3, <1>4, <2>1, <2>2 DEF SeenAfter, View
    <2>4. o.ok \in BOOLEAN  BY <2>1, Zenon
    <2> QED BY <1>1, <1>2, <1>3, <1>4, <2>1, <2>2, <2>3, <2>4 DEF OutcomeFits
  <1>5. CASE o \in {[win |-> win, disk |-> d, ok |-> FALSE] : d \in {disk, written}} /\ win.dirty
    <2>1. o.win = win /\ o.disk \in {disk, written} /\ o.ok = FALSE  BY <1>5
    <2> HIDE DEF written, clean
    <2>3. \A t \in T : SeenAfter(o, t) = View(t)
      BY <1>2, <1>5, <2>1 DEF SeenAfter, View
    <2>4. o.ok \in BOOLEAN  BY <2>1, Zenon
    <2> QED BY <1>1, <1>2, <1>5, <2>1, <2>3, <2>4 DEF OutcomeFits
  <1>6. CASE o = [win |-> win, disk |-> disk, ok |-> TRUE] /\ ~win.dirty
    <2>1. o.win = win /\ o.disk = disk /\ o.ok = TRUE  BY <1>6
    <2>2. \A t \in T : disk[t] = View(t)  BY <1>1, <1>6 DEF View
    <2>3. \A t \in T : SeenAfter(o, t) = View(t)  BY <2>1 DEF SeenAfter, View
    <2>4. o.ok \in BOOLEAN  BY <2>1, Zenon
    <2> QED BY <1>1, <1>6, <2>1, <2>2, <2>3, <2>4 DEF OutcomeFits
  <1> QED BY <1>4, <1>5, <1>6 DEF SyncBuf

(* What update_buf leaves. *)
LEMMA UpdateBufFits ==
    ASSUME NEW T, NEW C, NEW none, none \notin T, WindowFits(T, none, C), NEW s \in T,
           NEW o \in UpdateBuf(s)
    PROVE  /\ OutcomeFits(o, T, none, C)
           /\ o.ok => o.win.sect = s /\ o.win.buf = View(s)
           /\ win.sect = s => o.win = win /\ o.disk = disk /\ o.ok
           /\ o.ok /\ win.sect # s => \A t \in T : o.disk[t] = View(t)
  <1>1. /\ disk \in [T -> C] /\ win \in [sect : T \cup {none}, buf : C, dirty : BOOLEAN]
        /\ win.dirty => win.sect \in T
        /\ ~win.dirty /\ win.sect \in T => disk[win.sect] = win.buf
    BY DEF WindowFits
  <1>2. CASE win.sect = s
    <2>1. o.win = win /\ o.disk = disk /\ o.ok = TRUE  BY <1>2 DEF UpdateBuf
    <2>2. o.ok \in BOOLEAN  BY <2>1, Zenon
    <2>3. \A t \in T : SeenAfter(o, t) = View(t)  BY <2>1 DEF SeenAfter, View
    <2>4. OutcomeFits(o, T, none, C)  BY <1>1, <2>1, <2>2, <2>3 DEF OutcomeFits
    <2> QED BY <1>2, <2>1, <2>4 DEF View
  <1>3. CASE win.sect # s
    <2>1. PICK p \in SyncBuf :
            IF p.ok THEN \/ o = [p EXCEPT !.win = [sect |-> s, buf |-> p.disk[s], dirty |-> FALSE]]
                         \/ o = [p EXCEPT !.ok = FALSE]
            ELSE o = p
      BY <1>3 DEF UpdateBuf
    <2>2. /\ OutcomeFits(p, T, none, C)
          /\ p.win.sect = win.sect
          /\ p.ok => ~p.win.dirty /\ \A t \in T : p.disk[t] = View(t)
      BY SyncBufFits
    <2>3. p = [win |-> p.win, disk |-> p.disk, ok |-> p.ok]
      BY DEF SyncBuf
    <2>4. CASE p.ok /\ o = [p EXCEPT !.win = [sect |-> s, buf |-> p.disk[s], dirty |-> FALSE]]
      <3> DEFINE w == [sect |-> s, buf |-> p.disk[s], dirty |-> FALSE]
      <3>1. p.disk[s] \in C /\ p.disk[s] = View(s) /\ \A t \in T : p.disk[t] = View(t)
        BY <2>2, <2>4 DEF OutcomeFits
      <3>2. /\ w \in [sect : T \cup {none}, buf : C, dirty : BOOLEAN]
            /\ w.sect = s /\ w.buf = View(s) /\ ~w.dirty
        BY <3>1
      <3>3. o.win = w /\ o.disk = p.disk /\ o.ok = p.ok  BY <2>3, <2>4
      <3> HIDE DEF w
      <3>4. \A t \in T : SeenAfter(o, t) = View(t)  BY <3>1, <3>2, <3>3 DEF SeenAfter
      <3>5. OutcomeFits(o, T, none, C)
        BY <2>2, <3>1, <3>2, <3>3, <3>4 DEF OutcomeFits
      <3> QED BY <1>3, <3>1, <3>2, <3>3, <3>5
    <2>5. CASE p.ok /\ o = [p EXCEPT !.ok = FALSE]
      <3>1. o.win = p.win /\ o.disk = p.disk /\ o.ok = FALSE  BY <2>3, <2>5
      <3>2. o.ok \in BOOLEAN  BY <3>1, Zenon
      <3>3. \A t \in T : SeenAfter(o, t) = View(t)  BY <2>2, <3>1 DEF SeenAfter, OutcomeFits
      <3>4. OutcomeFits(o, T, none, C)  BY <2>2, <3>1, <3>2, <3>3 DEF OutcomeFits
      <3> QED BY <1>3, <3>1, <3>4
    <2>6. CASE ~p.ok /\ o = p
      BY <1>3, <2>2, <2>6
    <2> QED BY <2>1, <2>4, <2>5, <2>6
  <1> QED BY <1>2, <1>3

(* A step that takes such an outcome. *)
LEMMA TookFits ==
    ASSUME NEW T, NEW C, NEW none, none \notin T, NEW o, OutcomeFits(o, T, none, C), Took(o)
    PROVE  /\ WindowFits(T, none, C)'
           /\ \A t \in T : View(t)' = View(t)
           /\ disk' = disk \/ \A t \in T : disk'[t] = View(t)
  BY DEF OutcomeFits, Took, WindowFits, SeenAfter, View

(* A step that changes sector s to b: the change is in the window only, and *)
(* what was in the window has reached the medium.                           *)
LEMMA ChangesFits ==
    ASSUME NEW T, NEW C, NEW none, none \notin T, WindowFits(T, none, C), NEW s \in T,
           NEW o \in UpdateBuf(s), NEW b \in C, o.ok,
           win' \in [sect : {s}, buf : {b}, dirty : {TRUE}], disk' = o.disk
    PROVE  /\ WindowFits(T, none, C)'
           /\ View(s)' = b
           /\ \A t \in T \ {s} : View(t)' = View(t)
           /\ win'.sect = s /\ win'.dirty
           /\ \/ \A t \in T : disk'[t] = View(t)
              \/ disk' = disk /\ \A t \in T \ {s} : disk[t] = View(t)
  <1>1. /\ OutcomeFits(o, T, none, C) /\ o.win.sect = s
        /\ win.sect = s => o.disk = disk
        /\ win.sect # s => \A t \in T : o.disk[t] = View(t)
    BY UpdateBufFits
  <1>3. /\ win' \in [sect : T \cup {none}, buf : C, dirty : BOOLEAN]
        /\ win'.sect = s /\ win'.buf = b /\ win'.dirty
    OBVIOUS
  <1>4. WindowFits(T, none, C)'  BY <1>1, <1>3 DEF WindowFits, OutcomeFits
  <1>5. View(s)' = b  BY <1>3 DEF View
  <1>6. \A t \in T \ {s} : View(t)' = View(t)
    BY <1>1, <1>3 DEF View, OutcomeFits, SeenAfter
  <1>7. win.sect = s => disk' = disk /\ \A t \in T \ {s} : disk[t] = View(t)
    BY <1>1 DEF View
  <1>8. win.sect # s => \A t \in T : disk'[t] = View(t)
    BY <1>1
  <1> QED BY <1>3, <1>4, <1>5, <1>6, <1>7, <1>8

(* Sector s with v in cell x, and a step that stores it. *)
Rewritten(s, x, v) == [View(s) EXCEPT ![x] = v]

LEMMA WritesFits ==
    ASSUME NEW T, NEW C, NEW none, none \notin T, WindowFits(T, none, C), NEW s \in T,
           NEW o \in UpdateBuf(s), NEW x, NEW v, Writes(o, x, v), Rewritten(s, x, v) \in C
    PROVE  /\ WindowFits(T, none, C)'
           /\ View(s)' = Rewritten(s, x, v)
           /\ \A t \in T \ {s} : View(t)' = View(t)
           /\ win'.sect = s /\ win'.dirty
           /\ \/ \A t \in T : disk'[t] = View(t)
              \/ disk' = disk /\ \A t \in T \ {s} : disk[t] = View(t)
  <1>1. /\ OutcomeFits(o, T, none, C) /\ o.win.sect = s /\ o.win.buf = View(s) /\ o.ok
    BY UpdateBufFits DEF Writes
  <1> DEFINE b == Rewritten(s, x, v)
  <1>2. win' = [o.win EXCEPT !.buf = b, !.dirty = TRUE] /\ disk' = o.disk
    BY <1>1 DEF Writes, Rewritten
  <1> HIDE DEF b
  <1>3. win' \in [sect : {s}, buf : {b}, dirty : {TRUE}]
    BY <1>1, <1>2 DEF OutcomeFits
  <1>4. b \in C /\ o.ok /\ disk' = o.disk  BY <1>1, <1>2 DEF b
  <1>5. /\ WindowFits(T, none, C)'
        /\ View(s)' = b
        /\ \A t \in T \ {s} : View(t)' = View(t)
        /\ win'.sect = s /\ win'.dirty
        /\ \/ \A t \in T : disk'[t] = View(t)
           \/ disk' = disk /\ \A t \in T \ {s} : disk[t] = View(t)
    BY <1>3, <1>4, ChangesFits
  <1> QED BY <1>5 DEF b

(* Power is lost: the medium is all that is left. *)
LEMMA LostPowerFits ==
    ASSUME NEW T, NEW C, NEW none, none \notin T, NEW b \in C, WindowFits(T, none, C),
           win' = [sect |-> none, buf |-> b, dirty |-> FALSE], disk' = disk
    PROVE  WindowFits(T, none, C)' /\ \A t \in T : View(t)' = disk[t]
  <1>1. win' \in [sect : T \cup {none}, buf : C, dirty : BOOLEAN] /\ win'.sect = none /\ ~win'.dirty
    OBVIOUS
  <1>2. disk' \in [T -> C]  BY DEF WindowFits
  <1> QED BY <1>1, <1>2 DEF WindowFits, View
(* Dividing and multiplying, as all that counts sectors does.              *)
LEMMA Division ==
    ASSUME NEW p \in Nat, NEW d \in Nat, d > 0
    PROVE  /\ p \div d \in Nat
           /\ \A s \in Nat : p \div d = s <=> s * d <= p /\ p < (s + 1) * d
           /\ \A s \in Nat : p \div d < s <=> p < s * d
  <1> DEFINE a == p \div d
  <1>1. a \in Nat /\ p = d * a + (p % d) /\ p % d \in 0 .. (d - 1)  OBVIOUS
  <1> DEFINE x == d * a
             r == p % d
  <1>2. x \in Nat /\ p = x + r /\ r \in 0 .. (d - 1)  BY <1>1
  <1>3. ASSUME NEW s \in Nat, a < s PROVE p < s * d
    <2> HIDE DEF a
    <2>1. x + d <= s * d
      <3>1. a + 1 <= s /\ s - (a + 1) \in Nat  BY <1>1, <1>3
      <3>2. (s - (a + 1)) * d \in Nat  BY <3>1
      <3>3. (s - (a + 1)) * d = s * d - (d * a + d)  BY <1>1
      <3> QED BY <1>1, <3>2, <3>3
    <2>2. s * d \in Nat  OBVIOUS
    <2> HIDE DEF x, r
    <2> QED BY <1>2, <2>1, <2>2
  <1>4. ASSUME NEW s \in Nat, s <= a PROVE s * d <= p
    <2> HIDE DEF a
    <2>1. s * d <= x
      <3>1. a - s \in Nat  BY <1>1, <1>4
      <3>2. (a - s) * d \in Nat  BY <3>1
      <3>3. (a - s) * d = d * a - s * d  BY <1>1
      <3> QED BY <1>1, <3>2, <3>3
    <2>2. s * d \in Nat  OBVIOUS
    <2> HIDE DEF x, r
    <2> QED BY <1>2, <2>1, <2>2
  <1> HIDE DEF x, r
  <1>5. \A s \in Nat : a < s <=> p < s * d
    <2> TAKE s \in Nat
    <2>1. s * d \in Nat  OBVIOUS
    <2> HIDE DEF a
    <2> QED BY <1>1, <1>3, <1>4, <2>1
  <1>6. ASSUME NEW s \in Nat PROVE a = s <=> s * d <= p /\ p < (s + 1) * d
    <2>1. s * d \in Nat /\ (s + 1) * d \in Nat /\ s + 1 \in Nat  OBVIOUS
    <2>2. (a < s <=> p < s * d) /\ (a < s + 1 <=> p < (s + 1) * d)  BY <1>5, <2>1
    <2> HIDE DEF a
    <2> QED BY <1>1, <2>1, <2>2
  <1> QED BY <1>1, <1>5, <1>6
=============================================================================
