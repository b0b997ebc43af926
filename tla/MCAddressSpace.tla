--------------------------- MODULE MCAddressSpace ---------------------------
(***************************************************************************)
(* Four programs, in pages of four bytes: one with a page it does not      *)
(* copy to; two segments that share a page, of which the second takes the  *)
(* first one's last bytes away; one that begins at the end of a page and   *)
(* gets a page too few; and one in two page tables, with a page that       *)
(* clean_user_space() keeps and, because p_memsz fills its page, one that  *)
(* both segments ask for.  Frames run out with three tasks.                *)
(***************************************************************************)
EXTENDS AddressSpace

MCLayout ==
  <<<<0, 0>>, <<0, 0, 0>>, <<0, 0, 0, 0>>, <<0, 0, 0, 1>>, <<0, 0, 0, 511>>,
    <<0, 0, 1>>, <<0, 0, 1, 0>>,
    <<0, 2>>, <<0, 2, 511>>, <<0, 2, 511, 510>>, <<0, 2, 511, 511>>>>

Segment(vaddr, filesz, memsz) == [vaddr |-> vaddr, filesz |-> filesz, memsz |-> memsz]

Small == <<Segment(0, 1, 5)>>
Shared == <<Segment(0, 6, 6), Segment(7, 1, 1)>>
Short == <<Segment(3, 2, 2)>>
Tall == <<Segment(2048, 1, 1), Segment(2044, 4, 4)>>

MCPrograms == {Small, Shared, Short, Tall}
MCFrames == 1 .. 28
MCSpare == {3, 4}
=============================================================================
