# TRS: specifications and proofs

TRS is a small 64-bit operating system: a UEFI boot loader, a kernel that runs
in one address space with interrupts as its only concurrency, a FAT32 driver
and a terminal program.  This directory holds TLA+ modules of its parts, the
TLC configurations that check them, and TLAPS proofs about them.

## Inventory

| part | state | operations | properties that make it correct |
|---|---|---|---|
| FAT32 volume (`trfs/fat32/fat.c`) | one-sector window `sect`/`buf`/`FAT_BUF_DIRTY`; `last_used`, `free_cnt`, `FAT_INFO_DIRTY`; two FAT copies and FSINFO on the medium | `update_buf`, `sync_buf`, `sync_fs`, `get_fat`, `put_fat`, `stretch_chain`, `remove_chain`, `fat_mount` | what is on the medium is a file store after a crash at any moment; synchronised means durable; counters and mirror agree; calls return |
| FAT32 directories (`fat.c`) | slots of 32 bytes in a chain of clusters; a name is one short entry after its long-name entries | `dir_next`, `dir_search`, `dir_add`, `remove_entries`, `fat_dir_create`, `fat_dir_read`, `fat_unlink` | a search finds what was added; removal removes that and no more; a crash leaves the directory readable |
| FAT32 file handles (`fat.c`) | `offset`, `size`, `clust`, `sect`, a sector buffer, flags, one set for each handle | `fat_file_open`, `read`, `write`, `seek`, `sync`, `close` | a handle reads what was written; sizes grow with writes; errors are told |
| FAT32 glue (`driver/fat32.c`, `libc/dirent.c`) | ten directory slots with `used` and `need_next` | `fat32_dir_open/read/close`, `opendir/readdir/closedir` | each entry once, in order; slots are given back |
| ATA (`driver/disk.c`) | registers of the drive | `read_disk`, `write_disk` by polled transfer with time-outs | success only after all sectors were moved; never endless |
| GPT (`driver/gpt.c`) | one sector buffer for header and table | `gpt_find_partition` | finds the entry of the type |
| Keyboard (`driver/keyboard.c`) | `shift_down`, `caps_down`, the ring, `overflow` | `kb_irq_handler` | the right character, in order, or counted as lost |
| Streams (`stream.c`) | ring `head`/`tail`/`buf` | `ringbuf_put/get`, `stream_try_read`, `stream_read` | a bounded queue under interrupts; a reader wakes up |
| System calls (`sys.c`) | the caller's line buffer | `SYS_READ` with line editing; directory and display calls | a line is what its keys edit to; terminated within its buffer |
| Interrupts (`cpu/idt.c`, `idt_asm.asm`, `pic.c`) | interrupt flag, masks and in-service bits of two controllers, handlers | `pic_remap`, `pic_unmask`, gates, `isr_dispatcher`, spurious check | one end-of-interrupt for each interrupt served; no request waits for ever |
| Page allocator (`memory_paging.c`) | bitmap, `total_pages`, `used_pages`, `usable_pages` | `pmm_init`, `pmm_alloc_pages`, `pmm_free_page` | no page has two owners; reserved pages are never given; the count is exact |
| Mounting (`fat.c`) | `g_fat_list`, a `Fat` for each volume | `fat_probe`, `fat_mount`, `fat_umount`, `find_fat_volume` | foreign media are judged rightly; the areas of a volume are apart; the list is what is mounted |
| Boot loader (`bootloader/uefi/boot.c`) | memory map and its key, the display's mode, the kernel's pages | read the kernel, choose a mode, take the map, leave boot services, jump | the map handed over is the one in force; the loader ends |
| Program start (`app.c`, `kernel.c`) | none | wait for a key, load and call the terminal | starts once |
| Terminal (`terminal/tmain.c`) | working directory of 100 bytes | split the command, `cd`, `wh`, `pwd` | paths stay in their buffers and mean what was typed |
| Display (`driver/image.c`) | the framebuffer's words, the cursor | `dsp_putchar`, `dsp_clear`, `dsp_set_cursor`, scrolling | the words show a grid of whole characters |
| C library (`libc/string.c`) | none | memory and string functions | they agree with their definitions, whatever overlaps |
| Tables, panic screen, build | constants; none; none | set up once; a dump, then a halt | none that a model would tell |

How they interact: the terminal calls the kernel through `int 0x77`.
`SYS_READ` takes characters from the ring that the keyboard interrupt fills;
the directory calls go through the slots of `fat32.c` to `fat.c`, which reads
and writes sectors through `read_disk`/`write_disk`.  The page allocator gets its
memory map from the boot loader.  `fat.c` keeps everything but file data in one
window, so the order of sectors on the medium is the order of `update_buf`
calls; nothing else makes that order.

The hard behaviours are: a power loss or a failed transfer between any two
sectors of an operation (nothing is journalled); the keyboard interrupt between
any two instructions of a reader; limits (full ring, full buffer, full volume,
runs of pages at the edges of bytes); counters kept beside the data they count;
and one bug-like line, `bitmap_test` without a mask, whose effect is global.
`PROJECT.json` lists the hazards line by line.

## Modules

| module | models | kind |
|---|---|---|
| `FatWindow` | the one-sector window: `sync_buf`, `update_buf`, their failures | shared by `FatVolume`, `FatDir` and `FatFile` |
| `FileStore` | what a caller may rely on to find on the medium | abstract specification |
| `FatVolume` | the volume layer of `fat.c`, a step for every sector transferred | component; implements `FileStore` |
| `DirStore` | the names of a directory, for the driver and on the medium | abstract specification |
| `FatDir` | one directory of `fat.c`, a step for every slot | component; implements `DirStore` |
| `ByteFile` | an array of bytes with positions in it | abstract specification |
| `FatFile` | the handles of one file of `fat.c`, a step for every sector | component; implements `ByteFile` |
| `DirTable` | descriptors that list directories | abstract specification |
| `DirSlots` | the slots of `driver/fat32.c`, `readdir`, and the reading of directories in `fat.c` | component; implements `DirTable` |
| `FatMount` | probing, mounting, unmounting, and the search for a free cluster on foreign volumes | component |
| `BlockDevice` | sectors that are moved one by one | abstract specification |
| `AtaDisk` | `read_disk` and `write_disk` with a drive | component; implements `BlockDevice` |
| `Gpt` | the search for a partition | component |
| `KeyQueue` | a bounded queue | abstract specification |
| `KbdStream` | keyboard interrupt, ring, `kmain`'s poll, `SYS_READ` | component; implements `KeyQueue` |
| `Irq` | the two interrupt controllers, the dispatcher, and `kb_init` | component |
| `Pmm` | the page allocator | component |
| `Boot` | the UEFI loader | component |
| `TextScreen` | a grid of characters with a cursor | abstract specification |
| `Display` | the framebuffer's words under `dsp_putchar` | component; implements `TextScreen` |
| `LineEcho` | what `SYS_READ`'s echo shows, on a `TextScreen` | composition |
| `Terminal` | the words of a command line, and `cd` | component |
| `StrLib` | the functions of `libc/string.c`, a step for every round of a loop | component |
| `KbdStreamProofs`, `PmmProofs` | proofs about the module of that name | TLAPS |
| `HardwareProofs` | proofs about `AtaDisk` and, as the instances `Ctl`, `Ldr`, `Vol` and `Gp`, `Irq`, `Boot`, `FatMount` and `Gpt` | TLAPS |
| `FatWindowProofs` | what the window's two operations keep | TLAPS |
| `FatVolumeProofs` | what each step of `FatVolume` does to the FAT, its mirror, the directory and FSINFO; the invariants, what failures cost, and the refinement of `FileStore` | TLAPS |
| `FatFileProofs` | where the handles of `FatFile` stand, what a close leaves, the size in the entry, what readers leave alone, and the refinement of `ByteFile` | TLAPS |
| `FatDirProofs` | what the steps of `FatDir` do to its slots; the invariants, what searches find, the names that failures leave in pieces, and the refinement of `DirStore` | TLAPS |
| `Iteration` | least elements and loops, for the proofs about functions defined by recursion | TLAPS |
| `MC...` | small instances; `MCFatFile`, `MCStartup` and `MCConsole` hold several side by side | models for TLC |

Each component has some definitions that are wrong on purpose, named after the
one they stand before: mistakes the code could have made, each of which
breaks a property.  No specification uses them.

Three models for TLC are sums: a variable (`scene`, `part`) says which of several
parts a behaviour is about, and the variables of the others stay as they begin.
The parts share no state in the code either, or only in ways that their
own abstract specifications cover (`Display` and `LineEcho` meet in `TextScreen`).
A property of such a run is a conjunction over the parts it is about.

### FatVolume

`disk` is the medium, `win` the window with its dirty flag, `vol` the counters
with theirs.  `pc` and `call` are the place and the locals of the running call:
`find` is `follow_path`, `walk` the loop of `fat_file_seek`, `near` and `scan` the two searches of
`stretch_chain`, `eocM eoc linkM link` its four `put_fat2` calls, `rmGet rmM rm`
the loop of `remove_chain`, `flush info infoFlush` the three transfers of
`sync_fs`, `add` and `rmEntry` the directory's changes, `touch` the one of
`fat_file_sync`.  An operation ends with `Return`, whose error code is kept in
`res`.  `SyncBuf` and `UpdateBuf` are sets of outcomes: done, or failed; a write
that fails may or may not have reached the medium, as `write_disk` can give up
after the transfer.  A failed read leaves the buffer alone: `read_disk` of
one sector stores only after its last check.

Calls are not interleaved: the driver has one caller at a time.  The
interleaving is with failures, `MaxFaults` of them in a behaviour.  A crash
drops the window and mounts again.  `torn` remembers that an unlink was cut
short, or that an allocation reported success after a failed read (`fat.c:426`
returns `flags`, which may be uninitialised): `fat.c` has no repair, and after
that no property of sharing or counting can be promised; the properties say so
in their premise, and `FileStore` by `broken`.

Abstracted: all names live in one directory sector with room for each (long
names and growing directories are in `FatDir`); file data does not pass
through the window and is left out, with the failures of its transfers, which
change nothing modelled here; the value an uninitialised cluster number may
have is taken from the clusters of the volume.  A volume starts as `mkfs` leaves it.

`ImplementsStore` maps each name to the chain of its clusters on the medium.
`FileStore` says that a name appears with one cluster, grows by one at its end,
shares none, and vanishes in two steps, first the content, then the name.

### FatDir

The same window over one directory.  A place (`dir->clust`, `sect`, `idx`) is the number of its
slot along the chain; `dir_next` is `Advance`, which at the end of a cluster goes
through the FAT (`next`).  `search` and `parse` are `dir_search` and
`parse_lfn_name`, a slot a step; `alloc allocSync` is `create_chain`, `dots` what
`fat_dir_create` puts in the new directory; `room grow growSync clear`
is the first loop of `dir_add` with `stretch_chain` and `clust_clear`, then come
the end mark and `fill`; `release releaseSync unmark flush` is `fat_unlink`.  A
slot has a first byte (`mark`) and the rest (`kind`, `n`, `k`), since freeing a
slot, or making it the end, changes the first byte only, and
`parse_lfn_name` does not look at it.

Abstracted: all sectors that are not the directory's stand as one, which
remembers only how long the directory's chain is.  The allocator
may say FULL at any time, and after a failure `remove_chain` may say BROKEN
at any time (`FatVolume` knows when).  A name is its number of fragments and
its short form; two fragments of different names are never equal.  A file
opened after it was found is not followed further.  Whether a directory to be
unlinked is empty is not asked.  The data area is aligned to clusters, as
`dir_next` takes for granted (`fat.c:511`).  A cluster that was never cleared reads as one
of four things, the same in all its slots.  A directory starts empty, or full
without an end mark, as other systems leave it.

`DirStore` has the set of names the driver sees, the set on the medium, and the
running call.  A call changes the first set by its own name only; the second
follows the first; after a power loss the first is the second.

### KbdStream

One processor.  `KbdIrq` is the whole handler and happens between any two steps
of the thread when `intr` is set.  The thread polls in `kmain` and swallows the
character it finds (`poll`), starts the terminal (`start`; `parked` when that fails) and then makes SYS_READ
calls with any length: `loop` is the test of the `while`, `try` is
`stream_try_read` between `irq_save` and `irq_restore`, `sleep` the `sti; hlt`,
`got` the editing, `done` the terminator and `iretq`.  The gate is an interrupt
gate, so `intr` is off until the first `sti` and stays on afterwards.  A halted thread goes on
with any interrupt; other lines are masked.  `ImplementsQueue` maps the ring to the queue of its
contents.  `sleeps` and `typed` are history: how often the call has halted and
what it has read.

### Pmm

Addresses are pages.  The four loops of `pmm_init` are the phases `size`,
`place`, `clear` (a descriptor a step) and `reserve` (a range a step); then
`Alloc` and `Free` happen in any order.  `Test` is true when the page's bit or a
higher one in its byte is set, as in the code.  The two loops that matter are
there twice: as sets in the actions, and step by step as `LoopStart` and
`LoopMarked`, and the runs show that they agree.  `held` is what boot left
marked, `owned` what is handed out.  Neither call does anything while the bitmap is at address 0 (`home`), which the code
takes for none.  Callers free only what they own; today no
code in the tree frees a page.

### FatFile

Several handles on one file.  The window carries the file's FAT entries (how many
clusters the chain has) and its directory entry (its size); data goes past the
window, a sector a step.  `hs` are the `File` objects with their sector buffers.
`chunk` is the loop of `fat_file_read` and `fat_file_write`, `follow` and
`stretch` the walk of `fat_file_seek`, `back` and `fill` its two transfers, `put`,
`touch` and `flush` those of `fat_file_sync`.

Abstracted: the chain is sound (`FatVolume` is about that) and its clusters are
numbered along it; the volume may be full at any time; a file is
created in `FatVolume` and `FatDir`, so that here it exists.  An unlinked file
with open handles is left out.  `at`, `hurt` and `late` are
history: whose bytes a buffer has, whether a call of the handle failed, and
whether another handle has rewritten the entry since it was opened.  `lost` are
the sectors that two handles had at once, one of them to write.  After a failed
transfer a handle is astray, and when it is used all the same `spoilt` ends the
behaviour: the code promises nothing then, as the notes below show.

The run plays in three scenes: one handle of every kind with a failure or
a loss of power anywhere; two handles of which at least one writes; two readers.
`ByteFile` says that only a write changes the bytes, at the offset of its handle,
and that a failed call takes back one sector at most.

### DirSlots

`g_dirs` are the slots (two instead of ten) with `used` and `need_next`; `dir` is
a place on the volume, a slot number and a cluster, which the code keeps as
`sect`, `idx` and `clust`.  `BeginOpen`, `BeginOn` are the system calls; `look`, `skip`,
`parse` and `piece` are the loop of `fat_dir_read` with `parse_lfn_name` in it, `open` the
walk of `follow_path`.  `readdir` passes over labels, `.` and `..` (`Delivers`).
The volumes are given, and are only read: one as the Makefile lays it out, one worn by use, and one whose
directories are not in the order of their clusters.

`ImplementsTable` (in `SlotsSound`) says what a descriptor delivers: each entry of one directory,
once, in order.  After the end or an error nothing is known of a descriptor
until it is closed.  `OpenEntry` takes the
first entry of the root for the root itself when no long name is before it, as
the code does, so an open is only asked to list *some* directory.

### FatMount

Drives of all sorts: a volume without a partition table, an MBR, neither; fields of
the boot sector that other systems write; every role of the FAT copies; FSINFO with wrong
numbers.  A step is a transfer or two of one sector, and each can fail: `zero`, `part`, `info` for
`probe` and `fat_mount`; `scan` for the loop of `stretch_chain`, which starts from what FSINFO says, `copy` and `mark` for its
`put_fat`; `sync`, `tell`, `told` for the three parts of `sync_fs`, with which `stretch_chain`, `fat_sync` and `fat_umount` end.

`fat` is what `fat_mount` sets of a `Fat` object and `win` what it does not, but for `sect`: the buffer and the flags
`FAT_BUF_DIRTY` (`dirty`) and `FAT_INFO_DIRTY` (`told`).  So what an unmounting could not write is
still there when the object is mounted again, and goes to the sector that `sect` then names: sector 0 (`Written`).
Of a sector in the buffer only what the medium has not is kept: the clusters marked in it, or the numbers for FSINFO.
`given` and `left` are history: the drive as it was, and the objects whose unmounting failed.

`CheckFat` computes as the code does: the difference of all sectors and those before the data wraps, and a division
by 0 is the processor's exception, with which the kernel stops (`Panic`).  Numbers wrap at `Wrap`; the drives are
those on which sectors and clusters have numbers below it, since the code checks no sum of the boot sector's fields,
with FSINFO before the FATs (`res` is at least 2).

Clusters are only taken here and no chain is made of them: freeing, linking and the order of writes are `FatVolume`'s.  A drive
has one sort of volume in all its partitions.  A volume and an object are mounted once at a time, and only mounted objects
are used, as the callers do.

### AtaDisk

The driver's steps are `select`, `issue`, `bsy`, `drq`, `move`, `end`, `flush`, `last` and `done`;
a poll may pass, wait, or have run out.  The drive is external: it is busy, asks
for data (DRQ), or rests; it may fail or hang at any time, and ignores a command
while it asks for data, as the drives of QEMU do.  The identification of the drives,
once at start, is left out; `LbaSent` has the whole address, since 28 bits is
what a drive says it has at most in the words the driver reads.
`BlockDevice` says that a job that succeeds has moved all its sectors, but for the last
of a write, and that a failed one has moved some.  Once a poll has timed out
(`late`) nothing is promised.

### Gpt

One call on disks with every kind of table.  `h` points into the buffer that is
read over, so `CountIn` and `LbaIn` depend on the sector in it: the
header, or the name of an entry.  `Offset` is the code's, a multiple of the
number of entries.  Memory outside the buffer may hold anything.

### Irq

`irr`, `isr` and `imr` are the registers of the controllers, which are external.  The processor
takes an interrupt in `task` (`Accept`), asks which it is (`Acknowledge`), and runs the dispatcher with
interrupts off: `dispatch`, `handler`, `eoi2`, `eoi`, `iret`.  `pic_remap`, the
drain loop of `kb_init` and its unmasking come first.  The kernel itself
unmasks line 1 only; the other lines stand for the drivers that `idt.c` and
`pic.c` are written for, and `Noise` raises them and takes requests back, which is
how spurious interrupts come about.  `KbdStream` has the handler and the readers in detail.

### Boot

Memory is a row of pages with their uses; a map is a list of runs.  `Firmware` changes pages at any
time, which makes the key old.  `alloc`, `map`, `exit` are the loop of
`get_mmaped_end_exit`.  A call that fails with a message stops the machine, from
the first one for a display (`NoDisplay`) on.  Results the code does not look at fail too: `wild` stands for a call
through an uninitialised pointer, after which nothing is said.  Colour masks and
the geometry of a mode are left out.

### Display, TextScreen, LineEcho

`fb` has a pixel of a glyph, or background, in each word.  Every `Put...` starts with
`check_scroll_or_new_line` (`LineY`, `Below`, `DrawX`, `DrawY`, `Scrolled`).
`ImplementsScreen` reads the grid of characters back from the words.
Places behind the screen are left out of `SetCursor`: a glyph there is drawn in
part, and scrolling then also takes the cursor to column 0.  0 leaves a coordinate as it is.
`LineEcho` has the editing of `SYS_READ` on a `TextScreen`, without tabs.

### Terminal, StrLib

`Terminal` cuts a line in place, as `command_parser` does, a character a step
(`skip`, `quoted`, `word`, `cut`), and runs `cd` on the text of the working
directory, with its check of the length.  `wh` puts its path together in a buffer of 128 bytes (`WhPath`): of the working directory,
which always fits (`TypeOK`), or of its argument, which nothing measures (`tmain.c:55`).  A path that is too long is the end
of a behaviour, `overrun`.  The commands that only print are left out.
`StrLib` starts with a call on some memory and runs it to its end, byte by byte and word by word; `Legal` is what
C allows.  A byte is one of four values, the upper two negative as a char.

## Runs

| run | shows | bounds and why they are enough |
|---|---|---|
| `fat_volume` | the medium is sound (`MediumSound`), a failure costs at most one of each (`FailuresCostOne`: a lost cluster, a count, a mirror entry), and the refinement, with symmetry over names | clusters 2 to 5 in two FAT sectors, so that a chain crosses sectors and the volume gets full; two files, so that clusters could be shared; mirrored, so that every put is two; two faults, so that one call fails and a later one, or the crash after it, meets what it left; the counter is modulo 10 with 9 the unknown value |
| `fat_volume_live` | every call returns | seven cluster numbers, one of them bad, unmirrored, one fault |
| `fat_dir` | searching finds what is there, one entry for each name and true results (`DirectorySound`), nothing unwritten is shown, and the refinement | three names, one of two fragments and two with one short form; every slot a sector of its own, so that every entry crosses sectors and clusters of two; three clusters, so that the chain grows twice; one fault |
| `fat_dir_twice` | two failures leave at most two names in pieces, and every call returns | two names, four clusters of one sector of two slots, two faults |
| `fat_dir_short` | a violation: a search stops at another name's entry | two names with one short form |
| `fat_file` | a handle is where its offset says, closes are durable, bytes and sizes are kept, and the refinement | sectors of two bytes, two clusters (three of two sectors for the readers), so that offsets fall inside, at the edge of, and behind each; `MaxOff` at the end of the largest file; one handle with a fault, two writing without, two readers with two faults |
| `dir_slots` | listings are right and independent of each other; every call returns | two slots; names of two pieces over the edge of a cluster of two slots; chains out of order; two faults |
| `ata_disk` | the driver is a device, in step with the drive; every call returns | three sectors, up to two in a call, so that there is a first, a last, and one that is both; two failures or hangs |
| `kbd_stream` | safety, refinement, and a typed line is returned | a ring of four slots (three characters) and up to five keys, so that it fills, refuses and wraps round; a letter and a digit, for both rules of the columns; buffers of 0, 1 and 3 bytes; `overflow` modulo 3 |
| `pmm` | the allocator | 36 boots: maps with holes, of up to 18 pages, of four bits a byte, one without memory, one where the bitmap does not fit; a bitmap at address 0; reservations that overlap each other, holes and the end; requests of 0 to 3 pages |
| `startup` | the loader's handover is true and it ends; interrupts are answered and served; partitions and volumes are found and every call ends | five pages, any of them the firmware's, two changes and a failed call, a first buffer that is too small for some maps; controllers of four lines, four key bytes and three edges of noise; tables of up to five entries in two sectors, every first name that matters; two volumes of four clusters, one of one, one with more before its data than it has sectors, one with clusters of no sectors, one with FATs of no sectors, FSINFO numbers around every limit; two objects and one failed transfer, so that one is mounted again after it could not be unmounted while the other stays |
| `console` | the screen is one of text; a typed line is seen; words and paths are right; the library is right | a screen of two rows and three columns that is no whole number of glyphs; a line of up to five characters with two rows scrolled; every line of five characters and every target of three, and `wh` with arguments that just fit and just do not; every memory of five bytes of three values, and every move in twelve bytes in words of two |

Deadlock is not checked where the system may stop: a volume that cannot be mounted,
a panic, a handle that a failure has left astray, and the parts that come to an end (the loader, the
search for the partition, a function of the library).

What the runs show, besides that the properties hold:

- The write order of the one window alone makes creating and extending safe.  It
  is not the `sync_fs` in `stretch_chain` that does it.
- Unlinking is the one operation with a moment at which the medium is wrong;
  a power loss there leaves a name whose clusters are free.  No later call repairs
  it: `fat_unlink` of that name returns `FAT_ERR_BROKEN`.
- A mirror entry that went out of step stays so, one for each fault.
- `free_cnt` is at most one too high for each fault and never too low, unless an unlink was
  cut short; only then can it reach the value with which `fat_mount` refuses.
- `FAT_ERR_FULL` is returned with one cluster free: `last_used` itself.
- A directory has no repair either.  A failure while an entry is added or removed
  leaves a piece of it, and all searches that come to the piece return
  `FAT_ERR_BROKEN`; no other name is lost, but the names after it cannot be
  reached, nor can a name be added.
- If the piece is the short entry alone, it is an entry again, of every name
  with that short form.  `fat_dir_short` shows it: `remove_entries` frees the long name
  and the write of the next sector fails; a search for another name stops at what is left.
  The comment at `fat.c:590` says that the driver "relies on LFN names only".
  Unlinking the other name then goes for the piece: `remove_chain` returns
  `FAT_ERR_BROKEN` while the piece's cluster is free, and once it has been given to
  another file frees that, removes the piece, reports success and leaves the name (the
  exception in `DirectorySound`).
- New clusters of a directory are linked before they are cleared.  The end
  mark hides them, and `dir_add` writes the new mark first, so up to the first failure
  nothing unwritten is shown.  A second failure, or a directory that was full
  without a mark, can show it.
- The first halt of a SYS_READ cannot lose a wakeup; later ones can, and then
  the character waits for the next key event.
- `bitmap_test` wastes pages, and makes boot skip pages whose bits are clear, but
  hands out no reserved page as long as callers free only what they own.
- Spurious interrupts are answered rightly on both controllers.  The keyboard's line
  is taken into use safely only because `kb_init` drains before it unmasks: the
  initialisation words have dropped the edge of a byte that came earlier.
- The loader comes to an end however often the firmware changes the map, since the firmware's
  changes are bounded and each refusal grows the buffer.  After a refused `ExitBootServices`
  it still calls `FreePool` and `AllocatePool`.

Where the models follow the code into behaviour that a caller would not expect, so that
a property has an exception or says nothing:

- `fat_file_write` keeps the error of its seeks in an inner variable (`fat.c:1371`) and
  returns `FAT_ERR_NONE`, although the comment at `fat.c:1342` says it returns the code.
- `fat_file_sync`, and so a close, writes the buffer whether it is dirty or not (`fat.c:1483`),
  although the comment at `fat.c:1299` says "if dirty".  After a failed read that is another
  sector's bytes, which is why a handle that failed is astray; trying the same seek again
  returns success with that buffer.  A seek forwards that fails on its way leaves `clust` ahead of `offset`.
- Reading a file to its end allocates a cluster when the size is a multiple of the cluster
  size (`fat.c:1443`); one at most, as `ReadersKept` says.
- A handle opened before another grew the file writes the smaller size back.
- A directory whose short entry is the first slot of the root, with no long name, is
  taken for the root (`fat.c:779`, `1587`); the comment at `fat.c:1590` says it is entered.
- A read after the end goes on behind it (`fat32.c:76`; the comment at `fat.c:1661`
  says not to call), at a cluster's end into the cluster that lies next on the medium.
  After an error in a long name the entry comes again under its short one.
- A partition that is not the first of its table is missed, or memory outside
  the buffer is taken for an entry (`gpt.c:56-61`); `VolumeFound` is about the first.
- `fat_mount` rounds the number of clusters up to whole sectors of the FAT (`fat.c:1091`), so that
  a volume whose last FAT sector is not filled has clusters behind its end.
- A boot sector with fewer sectors than there are before its data passes `check_fat`, as the
  subtraction wraps (`fat.c:1028`), and is mounted; `VolumeFound` says of those drives only what it says of all mounted ones (its
  premise is `total >= Meta`).  One with no sectors to a cluster stops the machine (`fat.c:1029`).
- `fat_mount` sets `sect` to 0, "Causes buffering on first call" (`fat.c:1120`), and leaves the flags.  After `fat_umount`
  has failed the object may still have `FAT_BUF_DIRTY`; when it is mounted again the first `update_buf` writes what is in its buffer
  over the boot sector or the partition table, and the drive cannot be mounted any more.  `FirstSectorKept` shows that nothing else
  writes there, and names these objects (`left`) as the exception.
- A `free_cnt` that was too low can count down to 0xffffffff, and then the volume is refused; `InfoStaysGood` is about those that were not.
- A search on a full volume whose `next_free` is none of its clusters never ends (`Endless`), which `CallsEnd` leaves out.
  In the scan the error of a failed read is lost (`fat.c:426`), as in `FatVolume`.
- `wh` with a long argument writes behind its buffer (`tmain.c:55`); `TerminalSound` promises the buffer of `wh` without one only.
- A write of `disk.c` succeeds although the drive failed on its last sector or in the flush.
  `FatVolume` takes success to mean that the sector is stored.  After a poll that timed out the
  next call may have its command ignored and move the other call's sector (`disk.c:168-174`).
- When the pages for the stack (`boot.c:195`) or the size of the kernel's file (`boot.c:35-37`) cannot be had, the
  loader goes on: with any stack, or with an empty kernel.
- A character erased at the edge of a row stays on the screen (`image.c:101`); `LineSeen` is about lines where that did not happen.
- `strncmp` looks at the byte behind the ones it is asked for when those are equal (`string.c:124`); nothing calls it.  `LibrarySound`
  is about strings that differ, or end, before.
- `cd ..` on a path that ends in a slash drops only the slash.

## Fairness

`FatVolume` and `FatDir`: weak fairness of the steps of a call.  A call runs in the one
thread and is never blocked, since its transfers have time-outs in `disk.c`.
Beginning a call, failures and crashes are not fair; `MaxFaults` bounds the failures,
and `CallsReturn` would hold for any bound since each ends the call.

`KbdStream`: weak fairness of the thread, which is the only one, and of a key event
while the processor is halted.  The second is an assumption about the
person: without another key a lost wakeup lasts.  Pressing keys otherwise, and
calling SYS_READ, are not fair.

`FatFile` is checked for safety alone; its calls are loops over sectors like `FatVolume`'s.

`DirSlots` and `FatMount`: the steps of a call are fair, as above; opening, reading, closing,
mounting are not.  `AtaDisk`: the driver's steps are fair, and a poll, which
counts to ten million, runs out in the end; nothing is asked of the drive.

`Irq`: weak fairness of the processor, which returns from every handler to the task
with interrupts on, and of the controllers' cascade.  Keys and other lines
are not fair.  `Boot`: the loader is the only program.

## Proofs

All proofs are for every value of the constants under the named assumptions:
- `KbdAssumption`: the ring has a power of two slots, more than one;
- `PmmAssumption`: the shapes of a boot, positive sizes of a byte and a page, nothing about the maps
  themselves;
- `DiskAssumption`: a disk has a sector, a call may ask for one;
- `VolumeAssumption`, `WindowAssumption`: a volume has clusters, the root among them and not bad, and the
  counter can hold their number (`CountMod` is 2^32 in the code and a FAT32 volume has fewer than 2^28);
- `DirAssumption`: a name has up to 20 fragments (`fat.c` has 255 characters for it, 13 in each), a cluster has slots,
  and a directory does not start with one name twice;
- `FileAssumption`: sectors and clusters have bytes, and offsets go as far as a cluster (2^32 - 1 in the code);
- `IrqAssumption`: the keyboard's line and the cascade are two, and neither is the last line;
- `BootAssumption`: there is a page and the kernel's are among them, a display has a mode, the first pool has room
  for a descriptor;
- `MountAssumption`: a FAT sector has entries, and the drives are those described under `FatMount` above, with
  finitely many objects to mount;
- `GptAssumption`: a disk has a sector for the header, a header numbers, and a table entries.

`FailuresAreCheap` has one more: `ClustCnt + MaxFaults < CountMod`.  Each failure can put `free_cnt` one too
high, so with enough of them the counter would come to its unknown value.  The run has 6 + 2 < 10,
and the code room for more than 2^31 failures.

`KbdStreamProofs`
- `TypeCorrect`: the type invariant is inductive as it stands.
- `FirstSleepIsSafe`: the strengthening says that before the first halt of a call the flag is
  clear, and that the ring is empty between the failed try and the halt.
- `RingImplementsQueue`: a put appends to the contents and a get removes their
  head, for each position of `head` and `tail`; each other step leaves the contents alone.
- `LineIsTheEditedOne`: `Edited` is a loop over what was read.  One character more is one round more
  (`EditedAppend`), and that round is what `got` does to the buffer.

`PmmProofs`
- The invariant `IInv` says for each phase of `pmm_init` what it has done:
  everything outside conventional memory is marked (`HolesMarked`), the ranges
  so far are cleared, the reserved pages so far test as used.  `HeldCovers` is
  the heart: what makes a reserved page test as used was marked when boot ended.
  Since `held` and `owned` are apart (`MarksExact`), and callers free only what they own, no one
  can take the cover away.  Neither part is inductive without the other.
- `TypeCorrect`, `NeverHandsOutReserved`, `ReservedStaysUsed` and `BitmapIsExact`
  follow from it.
- `BookkeepingIsRight` is about the loops.  `Scanned` is what the scan of `pmm_alloc_pages` knows after some
  rounds: how long the run of free pages behind it is, and that no run before it was long enough.
  `LoopMarkedIs` says the loop of `reserv_range` marks what tests free, although a page it
  marks can make the next ones test as used.

`HardwareProofs`
- `DriverIsSound`: driver and drive are two processes that meet in the registers.  `Together` says where the
  drive is at each place of the driver: at the driver's sector or, when the driver has just moved one,
  behind it by that one.  It holds unless a poll was given up (`late`); before that the
  drive is always at rest when a call begins.
- `DriverIsDevice`: a step is one of `BlockDevice` or moves nothing; the drive's own steps store
  the sector that the driver has given it.

- `DispatcherIsSound`: `Serving` says which lines are in service at each step: none outside of the
  dispatcher, one of the first controller, and one of the second with the cascade.
  A spurious interrupt of the first controller has none in service, one of the second has the cascade, which is why
  the dispatcher ends the one without and the other with one end-of-interrupt.  Whether the handler may
  be called cannot be told without it: the last line can be real too.

- `LoaderIsSound`: `Mapped` says that a key that is current is the key of the map in the pool, so memory is as that
  map has it; any allocation or change by the firmware makes the key an old one, and the kernel is entered
  with a current one only.  `Taken` follows the pages: the kernel's stay taken once they are read, and the pool that
  the loader knows of is the only one, which holds since each round frees the last before it asks for another.
  The pool's size is bounded since a map has at most a descriptor for each page (`RunsAre`).

- `VolumesAreSound`: the invariant `Mounting` has what a call has found out at each step (`CallKnows`: an object that reads
  FSINFO is of a volume that is `There`), the areas of each object from the sector its volume begins at (`AreasFit`), and the
  list as a sequence without repetition (`Linked`), from which the walk comes to what is mounted (`ListedIsUp`),
  mounting puts an object before it (`ChainPut`) and unmounting cuts one out (`ChainCut`).
- `InfoIsKept`: `Counting` follows the free clusters and the count from the object to FSINFO.  A cluster is marked in the window first, then taken off the
  count, and both may stay in the buffer of an object that could not be unmounted (`Telling`); what is still to be written has a count that is
  no lower than the clusters it leaves free, and the medium is at most behind.  `SeenFree` is what keeps the count above 0 when it is taken down: the
  scan has just seen a free cluster.
- `FirstSectorIsKept`: an object that is not in `left` has nothing to write when its window is set to sector 0, since its last unmounting ended with
  a clean window; after that the window only comes to the sectors of the FATs and of FSINFO, which are not 0 (`AreasFit`).

- `FirstIsAlwaysFound`: the entry looked at first is at offset 0 whatever the wrong stride is, and its sector is
  computed while the buffer still has the header.

`FatVolumeProofs`, on `FatWindowProofs`
- It goes from sectors and the window to eight things: the FAT, its mirror, the directory
  and FSINFO, each as seen through the window and as it is on the medium.  Each action changes
  one of them as seen, and those on the medium stay or become what was seen.  This last fact is what
  the one window is good for, and everything below rests on it.
- The invariant: `MediumFits` and `CallFits` (shapes), `Counted` (FSINFO has the counters unless they are dirty),
  `Flushed` (a chain is on the medium before its entry is added), `SyncIsDurable`,
  `Passed` (what the scan has passed is in use), and unless the volume is torn `Whole`: names share nothing and
  point at nothing free, as seen and on the medium (`Entries`), an entry dangles only while it is being
  unlinked (`Unlinking`), and the clusters a call has in hand are nobody's (`InHand`).
- `MediumIsSound`, `SyncedIsDurable`, `FullIsSaidOfFull` and `WindowKeepsAll` follow from it.
- `FailuresAreCheap`: `MirrorCost`, `CountCost` and `LeakCost` count what is apart, as seen and on the medium.
  A call opens a difference of one and closes it; a failure in between leaves it, and is
  one more failure.  The medium may be one ahead or behind, which is the sector in the window.
- `MediumIsStore`: what the window holds back is at most one orderly change of each file (`Pays`), so when
  the sector is written the files move as `FileStore` says.  While a chain is being changed
  the directory is not (`Level`), and before the directory changes the window is clean (`Even`).

`FatFileProofs`, on `FatWindowProofs`
- The invariant `IInv` has three parts.  `MediumFits`: what window and medium have of the FAT and of the entry, each as
  seen and as it is.  `Handling`: between calls a handle is where its offset says with that sector in its buffer (`Sane`)
  or a transfer for it has failed, and the handle of the running call is as far as the place of the call says (`Track`):
  while clusters are followed `clust` and `left` add up to the cluster of the new offset and the buffer still has the old
  sector, and when the chain has ended the handle stands and only its buffer is behind.  A call that began with a
  handle gone astray (`spoilt`) is only held to the shapes of `CallOk`.  `SizesOk`: a handle that changed nothing has the size of the entry and no
  handle has less, unless it truncated or another rewrote the entry since (`late`).
- `Handling` is not inductive without the exception of `ChunkOk`, which the code has: a write whose seek failed ends its loop
  with nothing left to move and reports success (`fat.c:1371`), with a handle that the transfer has left astray.
- `FileIsSound` follows.  `ClosedIsDurable`: only a flush closes a handle without an error, and before it the buffer and
  the entry were written.  `SizeOnlyGrows`: only a touch changes the entry.
- `FileIsBytes`: what is seen of a sector (`Seen`) is the buffer of the handle that has it, or the medium.  `FileInv` adds to
  `IInv` that outside of `lost`, the sectors that two handles had at once and one of them to write, a clean buffer is
  the medium's sector, and of two buffers of one sector none is dirty (`Coherent`).  So a transfer changes
  nothing that is seen, a chunk of a write changes what `ByteFile` writes, and a failure takes back the sector of one handle.
- `ReadersLeaveIt` assumes that no handle may write or truncate, which is how the programs open files (`app.c`); its
  invariant `ReadInv` says that no handle has then changed its size (`Meek`), that nothing is lost, and that the entry's
  size is the same as seen and on the medium; so a close writes what is there.  Failures are in it: a handle whose transfer failed may still
  stand with its own sector in its buffer, and only the use of one that does not (`spoilt`) ends what the theorem promises.
- `ReadingAddsOne` assumes that and that nobody seeks: a seek behind the end stretches the chain as far as it goes.
  Its invariant `ChainInv` adds that offsets stay inside the file (`Inside`), so the cluster after the last byte's is
  the last that is asked for, as seen and on the medium.

`FatDirProofs`, on `FatWindowProofs`
- Sectors and the window become two directories, the one the driver sees and the one on the medium, and each
  action changes one slot of the first, or clears the slots of one sector that are not seen yet; the second stays or becomes the first.
- `Good` is what holds of both at any moment, whatever has failed: entries end before the chain does and do
  not overlap, a head that has its short entry where it has to be is followed by just the fragments of its
  name, no other short entry has that name, and behind the end is nothing an
  entry was ever written to.  That last part is why `dir_add` may put the new end mark before it writes
  over the old one.
- `PlaceOk` says what is true where a call is: a search has passed only whole entries of other names (`Passed`),
  `parse_lfn_name` is at the slot that its count and the head tell (`Parsing`), the slots counted by `dir_add` can be
  written (`Run`), those it has written are the first parts of its entry (`Filling`), and those that are
  freed from the head on are one entry's (`Unmarking`).  A failure leaves the call and keeps `Good`.
- Up to the first failure `Tidy` adds that every used slot belongs to a whole entry, but for the entry a call is at; without it
  a search could stop at a piece, and does after a failure.  It is what makes `BROKEN` a sign of a failure.
- `DirectoryIsSound`, `SearchFinds`, `ClearedBeforeSeen` and `DirectoryIsStore` follow from it: the
  set of names changes only in the step that writes the short entry of a call's name, or frees the first of its slots.
- `PiecesAreFew` counts what failures leave behind, with an invariant of its own, `PieceInv`, since `PiecesBounded` is neither
  about running calls nor inductive.  `From .. To` are the slots a call is at: those it has filled or is freeing, or the
  rest of a cluster it clears.  Without them the names in pieces are at most as many as the failures were (`Loose`),
  and they themselves are of one name (`OneName`), so that a failure, which makes them pieces like the others, adds one
  name at most.  The medium has one name more at most,
  which the power loss that would make it the directory seen pays for.  A
  call that succeeds leaves `From .. To` empty only when its entry is whole or free again (`FillCovers`, `UnmarkCovers`).

`Iteration` is what takes the place of induction with an operator as parameter: a set of
numbers stands for the statement, and the least number it lacks comes from the library's
well-founded ordering of finite sets.

Only model-checked: liveness, since the prover has no fairness; what `Terminal` and `StrLib` compute with
recursive operators; the listings of `DirSlots`, which `FlattenSeq` and `SelectSeq` compute from a volume; the safety of
`Display`, the rest of what `Gpt` is checked for, and the refinements of `DirTable` and `TextScreen`.

## Not modelled

Descriptor tables, panic screen, fonts, colours and the build have no behaviour
to check.  `stream_write` has no caller that passes its flag test.  The spin lock
has no user and `mem.c` has stubs.  The printing functions on top of `dsp_putchar`, `fat_stat`,
the listing of `wh`, and the identification of drives only read or print.  `pic_mask`, `fat_dir_rewind` and
`strncmp` have no caller (the last is in `StrLib` all the same).  A file unlinked while it is open, several
directories at once in `FatDir`, and paths of more than two names are left out: no program in the tree does the first, and the others
repeat the steps that are there.

## Plan

What is left, in this order:

1. `Display`: that a scrolled framebuffer is a scrolled grid, from arithmetic on words.
2. `DirSlots`: `SlotsSound`.
