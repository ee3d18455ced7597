------------------------------- MODULE MCPmm -------------------------------
(***************************************************************************)
(* Memory maps of up to eighteen pages and bytes of four bits for TLC.     *)
(* Between them the maps have holes, a partial last byte, a bitmap that    *)
(* does not fit or is at address 0, and no conventional memory; the        *)
(* reserved ranges overlap each other, holes and the end of memory.        *)
(***************************************************************************)
EXTENDS Pmm

Conv(f, n) == [conv |-> TRUE, first |-> f, pages |-> n]
Firm(f, n) == [conv |-> FALSE, first |-> f, pages |-> n]
Range(f, l) == [first |-> f, last |-> l]

SmallBoots ==
    [mmap : {<<Conv(0, 3), Firm(3, 2), Conv(5, 6)>>,
             <<Conv(0, 7), Firm(7, 1), Conv(8, 4)>>,
             <<Firm(0, 2), Conv(2, 8)>>,
             <<Conv(0, 1), Firm(1, 8), Conv(9, 2)>>,
             <<Conv(0, 4), Firm(4, 1), Conv(5, 13)>>,
             <<Firm(0, 4)>>},
     before : {<<Range(0, 1), Range(6, 8)>>, <<Range(0, 1)>>},
     after  : {<<Range(2, 4), Range(9, 14)>>, <<Range(4, 6), Range(6, 8)>>, <<>>}]
=============================================================================
