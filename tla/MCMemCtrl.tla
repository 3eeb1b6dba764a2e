----------------------------- MODULE MCMemCtrl ------------------------------
(***************************************************************************)
(* MemCtrl with few blocks.  Blocks 0 and 2 share bank 0 and 1 and 3 share *)
(* bank 1; 0 and 1 lie in row 0, 2 and 3 in row 1.  The queue holds two    *)
(* blocks, as in the code.                                                 *)
(*                                                                         *)
(* RelativeView is the state with every cycle number taken relative to the *)
(* current one.  The controller only ever compares cycle numbers with each *)
(* other, except for the test that stat_cycles is not 0, so states with    *)
(* one view have the same future, and TLC covers runs of any length.  The  *)
(* cycles of the commands and of the requests are relative as well.        *)
(***************************************************************************)
EXTENDS Waiting

MCBlocks == 0 .. 3

Relative(list) ==
  [i \in 1 .. Len(list) |-> <<list[i].min - stat_cycles, list[i].max - stat_cycles>>]

RelativeView ==
  <<[i \in 1 .. Len(mshr) |->
       <<mshr[i].blk, mshr[i].word, IF i \in InFlight THEN mshr[i].fin - stat_cycles ELSE 0,
         stat_cycles - since[mshr[i].blk]>>],
    IF mshr = << >> THEN 0 ELSE stat_cycles - asked,
    row_buffer,
    Relative(busy.cmd), Relative(busy.data), [k \in Banks |-> Relative(busy.bank[k])],
    {<<c.at - stat_cycles, c.blk, c.word>> : c \in commands},
    stat_cycles = 0, run_bit, aborted>>
=============================================================================
