-------------------------------- MODULE Gpt --------------------------------
(***************************************************************************)
(* Finding the partition of the file system: gpt_find_partition of         *)
(* src/kernel/driver/gpt.c, called once by fat32_init.                     *)
(*                                                                         *)
(* There is one buffer.  The header pointer h stays where it is when the   *)
(* sectors of the table are read over the header, so that from then on the *)
(* number of entries and the place of the table come from the name of the  *)
(* first partition of the sector that was read last.                       *)
(***************************************************************************)
EXTENDS Integers, Sequences

CONSTANTS
    SectBytes,   \* DISK_SECTOR_SIZE
    Disks,       \* what a disk can hold: see below
    Sectors,     \* sectors of a disk
    MaxFaults    \* bound: reads that fail

(* A disk has a header [sig, count, lba, size] and, from sector lba on, a  *)
(* table of entries [type, first, asCount, asLba]: type is "esp", "other"  *)
(* or "empty", first is first_lba, and the last two are what a name gives  *)
(* where the header had parts_count and parts_lba.                         *)
Entries == [type : {"esp", "other", "empty"}, first : Nat, asCount : Nat, asLba : Nat]
GptAssumption ==
    /\ {SectBytes, Sectors, MaxFaults} \subseteq Nat /\ SectBytes > 0 /\ Sectors > 1
    /\ \A d \in Disks : {d.count, d.lba, d.size} \subseteq Nat /\ d.table \in Seq(Entries)
    /\ \A d \in Disks : d.size \in 1 .. SectBytes => Len(d.table) % (SectBytes \div d.size) = 0

VARIABLES
    disk,     \* the disk
    pc,       \* where the call is; "done" and "panic" at its end
    sec,      \* the sector in the buffer
    pps,      \* parts_per_sector
    i,        \* the entry looked at
    out,      \* what was found: first_lba, or none
    wild,     \* memory outside the buffer was read as an entry
    faults    \* reads that failed

vars == <<disk, pc, sec, pps, i, out, wild, faults>>

None == -1

(* gpt_find_partition is called on disk d. *)
Called(d) == /\ disk = d
             /\ pc = "start" /\ sec = None /\ pps = 1 /\ i = 0 /\ out = None
             /\ wild = FALSE /\ faults = 0

Init == \E d \in Disks : Called(d)

(* What h->parts_count and h->parts_lba are while sector s is in the       *)
(* buffer, and the entries of s.  Other sectors have nothing in them.      *)
Blank == [type |-> "empty", first |-> 0, asCount |-> 0, asLba |-> 0]
Index(s) == (s - disk.lba) * pps
InTable(s) == s >= disk.lba /\ Index(s) < Len(disk.table)
EntryOf(s, k) == IF InTable(s) THEN disk.table[Index(s) + k + 1] ELSE Blank

CountIn(s) == IF s = 1 THEN disk.count ELSE EntryOf(s, 0).asCount
LbaIn(s)   == IF s = 1 THEN disk.lba ELSE EntryOf(s, 0).asLba

Gives(l, v) == pc' = l /\ out' = v /\ UNCHANGED <<sec, i, pps, wild>>

(* read_disk refuses what is not on the disk, and may fail. *)
Reads(s, l) ==
    \/ faults < MaxFaults /\ faults' = faults + 1 /\ Gives("done", None)
    \/ s >= Sectors /\ Gives("done", None) /\ UNCHANGED faults
    \/ s < Sectors /\ sec' = s /\ pc' = l /\ UNCHANGED <<faults, i, pps, out, wild>>

ReadHeader == pc = "start" /\ Reads(1, "check") /\ UNCHANGED disk

MinSize == 128    \* sizeof(gpt_entry_t)
SizeOk(n) == n \in MinSize .. SectBytes

CheckHeader ==
    /\ pc = "check" /\ UNCHANGED <<disk, sec, i, out, wild, faults>>
    /\ IF /\ disk.sig /\ CountIn(sec) \in 1 .. 512 /\ SizeOk(disk.size)
       THEN pc' = "loop" /\ pps' = SectBytes \div disk.size
       ELSE pc' = "done" /\ UNCHANGED pps

NewSector(k) == k % pps = 0

(* The head of the loop: the end, another sector, or an entry. *)
Loop ==
    /\ pc = "loop" /\ UNCHANGED disk
    /\ IF i >= CountIn(sec) THEN Gives("done", None) /\ UNCHANGED faults
       ELSE IF NewSector(i) THEN Reads(LbaIn(sec) + i \div pps, "look")
       ELSE Gives("look", None) /\ UNCHANGED faults

(* Where the code takes entry i to be: the stride is the number of entries.*)
Offset == (i % pps) * CountIn(sec)

Matches(e) == e.type = "esp"

(* Entry i is compared.  Between two entries no GUID is found; memory      *)
(* outside the buffer may hold anything, or not be there.                  *)
Look ==
    /\ pc = "look" /\ UNCHANGED <<disk, sec, pps, faults>>
    /\ IF Offset + 16 > SectBytes
       THEN /\ wild' = TRUE
            /\ \/ pc' = "panic" /\ UNCHANGED <<i, out>>
               \/ pc' = "done" /\ \E x \in 0 .. Sectors : out' = x /\ UNCHANGED i
               \/ pc' = "loop" /\ i' = i + 1 /\ UNCHANGED out
       ELSE LET e == EntryOf(sec, Offset \div disk.size)
                here == Offset % disk.size = 0 /\ Matches(e)
            IN  /\ UNCHANGED wild
                /\ pc' = IF here THEN "done" ELSE "loop"
                /\ out' = IF here THEN e.first ELSE None
                /\ i' = IF here THEN i ELSE i + 1

Next == ReadHeader \/ CheckHeader \/ Loop \/ Look

Spec == Init /\ [][Next]_vars
-----------------------------------------------------------------------------
TypeOK ==
    /\ pc \in {"start", "check", "loop", "look", "done", "panic"}
    /\ sec \in {None} \cup 0 .. (Sectors - 1)
    /\ pps \in 1 .. (SectBytes \div MinSize) /\ i \in Nat
    /\ out \in {None} \cup 0 .. Sectors

Sound == /\ disk.sig /\ disk.count \in 1 .. 512 /\ disk.size \in MinSize .. SectBytes
         /\ disk.lba + disk.count \div (SectBytes \div disk.size) < Sectors
         /\ disk.table # <<>>

(* A partition that is the first of its table, as the Makefile makes it,   *)
(* is found, whatever the names make of the header.                        *)
FirstIsFound ==
    pc = "done" /\ Sound /\ faults = 0 /\ disk.table[1].type = "esp"
    => out = disk.table[1].first

(* What is found is in the table, unless memory outside the buffer was     *)
(* taken for an entry; and only the header and the table are read.         *)
FoundIsListed ==
    /\ pc = "done" /\ out # None /\ ~wild
       => \E n \in DOMAIN disk.table : disk.table[n].type = "esp" /\ disk.table[n].first = out
    /\ sec \in {None, 1} \/ InTable(sec)

(* The search is right about the partition it is for.                      *)
SearchSound == TypeOK /\ FirstIsFound /\ FoundIsListed
=============================================================================
