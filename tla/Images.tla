-------------------------------- MODULE Images --------------------------------
(* Small volumes for the readers of Fat32 and Boot; names have three characters. *)
EXTENDS Integers, SequencesExt

End == 2^28 - 1

Entry(n, h, l, s) == [name |-> n, high |-> h, low |-> l, size |-> s]

Label   == Entry(<<"V", "V", " ">>, 0, 0, 0)
LongName == Entry(<<"A", "0", "V">>, 0, 0, 0)
Stage2  == Entry(<<"S", " ", " ">>, 0, 3, 600)
Kern    == Entry(<<"K", " ", " ">>, 0, 5, 1100)
Ab      == Entry(<<"A", "B", " ">>, 0, 9, 512)
Abc     == Entry(<<"A", "B", "C">>, 0, 10, 700)
Empty   == Entry(<<"E", " ", " ">>, 0, 0, 0)
Folder  == Entry(<<"D", " ", " ">>, 0, 12, 0)
FarK    == Entry(<<"K", " ", " ">>, 0, 127, 1500)
HighK   == Entry(<<"K", " ", " ">>, 1, 2, 600)

Base ==
  [lba |-> 1, reserved |-> 2, fats |-> 2, spf |-> 1, spc |-> 1, root |-> 2, elf |-> {5, 9},
   fat |-> 0 :> (End - 7) @@ 1 :> End @@ 2 :> End @@ 3 :> 4 @@ 4 :> End
           @@ 5 :> 8 @@ 8 :> 6 @@ 6 :> (End - 7) @@ 9 :> End @@ 10 :> 11 @@ 11 :> End @@ 12 :> End,
   dir |-> <<2, 0>> :> <<Label, Stage2, Kern, Ab, Abc, Empty, Folder>>]

\* The root directory goes on in cluster 7.
LongRoot ==
  [Base EXCEPT !.fat = 2 :> 7 @@ 7 :> End @@ @,
               !.dir = <<2, 0>> :> <<LongName, Kern, Folder>> @@ <<7, 0>> :> <<Abc, Stage2>>]

\* Every way to lay four clusters out: one that the root directory goes on in, two
\* of a file with two names and one of the kernel.
Layouts ==
  {[Base EXCEPT !.elf = {p[2]},
      !.fat = 0 :> (End - 7) @@ 1 :> End @@ 2 :> p[1] @@ p[1] :> End
              @@ p[2] :> p[3] @@ p[3] :> (End - 7) @@ p[4] :> End,
      !.dir = <<2, 0>> :> <<Label, Entry(Kern.name, 0, p[4], 512)>>
              @@ <<p[1], 0>> :> <<Entry(Stage2.name, 0, p[2], 1024), Entry(Ab.name, 0, p[2], 513)>>] :
     p \in SetToSeqs({3, 4, 5, 6})}

\* No loader in two clusters of the root directory, no kernel in the first, none at all.
NoLoader == [LongRoot EXCEPT !.dir = <<2, 0>> :> <<Label, Ab>> @@ <<7, 0>> :> <<Kern, Abc>>]
LateKernel == [LongRoot EXCEPT !.dir = <<2, 0>> :> <<Stage2, Abc>> @@ <<7, 0>> :> <<Kern>>]
NoKernel == [Base EXCEPT !.dir = <<2, 0>> :> <<Label, Stage2, Ab>>]

\* A file whose entries lie in three sectors of the FAT, with reserved bits set in one.
Far ==
  [Base EXCEPT !.spf = 600, !.elf = {127},
               !.fat = 127 :> 128 @@ 128 :> (2^28 + 300) @@ 300 :> End @@ @,
               !.dir = <<2, 0>> :> <<Label, Stage2, FarK>>]

\* A program whose chain goes on, behind cluster 127, where the kernel does not find it.
FarProgram ==
  [Far EXCEPT !.dir = <<2, 0>> :> <<Label, Stage2, Entry(Kern.name, 0, 5, 1100),
                                    Entry(Ab.name, 0, 127, 1500), Entry(Abc.name, 0, 300, 512)>>]

\* A STAGE2 of three sectors.
LongLoader == [Base EXCEPT !.fat = 4 :> 7 @@ 7 :> End @@ @]

\* A kernel of four sectors.
LongKernel ==
  [Base EXCEPT !.fat = 6 :> 13 @@ 13 :> End @@ @,
               !.dir = <<2, 0>> :> <<Label, Stage2, Entry(Kern.name, 0, 5, 2048)>>]

High ==
  [Base EXCEPT !.spf = 600, !.elf = {65538},
               !.fat = 65538 :> 65540 @@ 65540 :> End @@ @,
               !.dir = <<2, 0>> :> <<Label, Stage2, HighK>>]
=============================================================================
