-------------------------------- MODULE Startup --------------------------------
(***************************************************************************)
(* From power-on to programs: the boot loader brings the kernel into       *)
(* memory, and the kernel then reads the same disk, with other code, for   *)
(* every exec().                                                           *)
(***************************************************************************)
EXTENDS Boot, Fat32

\* The boot loader's files are files, of any length, and not empty.
Bootable(v) ==
  \A i \in DOMAIN RootEntries(v) :
    RootEntries(v)[i].name \in {Stage2Name, KernelName} => Sound(v, FirstCluster(RootEntries(v)[i]))

\* A file, wherever it is: its chain, if it has one, is as long as its size says.
Readable(v, e) ==
  LET chain == Chain(v, FirstCluster(e))
  IN  FirstCluster(e) # 0 =>
        /\ Sound(v, FirstCluster(e))
        /\ (Len(chain) - 1) * BytesPerSector <= e.size
        /\ Len(chain) <= MaxSectors

ASSUME StartupAssumption ==
  /\ MaxSectors \in Nat \ {0} /\ {Stage2Room, KernelRoom} \subseteq Nat \ {0} /\ HeapWords \subseteq Nat
  /\ Arguments \subseteq Seq(Characters \ {NUL})
  /\ \A v \in Volumes :
       /\ WellFormed(v) /\ Bootable(v) /\ Near(v, v.root)
       /\ \A text \in Arguments : Readable(v, FirstMatch(RootEntries(v), text))

vars == <<disk, boot_vars, fat_vars>>

Init == disk \in Volumes /\ BootInit /\ FatInit

Kernel == stage = "kernel" /\ FatNext /\ UNCHANGED boot_vars

Next == (BootNext /\ UNCHANGED fat_vars) \/ Kernel

\* One thread, which goes on whenever it can; a drive that does not fail answers.
Fairness ==
  /\ WF_vars(BootNext /\ UNCHANGED fat_vars)
  /\ WF_vars(stage = "kernel" /\ Step /\ UNCHANGED boot_vars)
  /\ WF_vars(stage = "kernel" /\ Answer /\ UNCHANGED boot_vars)

Spec == Init /\ [][Next]_vars /\ Fairness
=============================================================================
