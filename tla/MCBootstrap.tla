----------------------------- MODULE MCBootstrap -------------------------------
(***************************************************************************)
(* Multiboot records for checking the loader: tables of four entries and   *)
(* pages of two units, so ONE_GIGABYTE is 32 units, WORD 128 and a page    *)
(* table maps 8.  The kernel images are what a linker produces: sections   *)
(* disjoint and within one gigabyte.                                       *)
(***************************************************************************)
EXTENDS Bootstrap

Section(type, alloc, write, addr, offset, size) ==
    [type |-> type, alloc |-> alloc, write |-> write, addr |-> addr, offset |-> offset, size |-> size]
Text(addr, offset, size) == Section("progbits", TRUE, FALSE, addr, offset, size)
Data(addr, offset, size) == Section("progbits", TRUE, TRUE, addr, offset, size)
Bss(addr, offset, size)  == Section("nobits", TRUE, TRUE, addr, offset, size)
Debug(size)              == Section("progbits", FALSE, FALSE, 0, 3, size)
Tbss(addr, size)         == Section("nobits", TRUE, FALSE, addr, 0, size)

Image(ok, entry, sections) == [headerOk |-> ok, entry |-> entry, sections |-> sections]
(* .bss spread over two page tables; a hole; text alone; a page table for   *)
(* every page, which takes all the pages reserved; .bss first; exactly one  *)
(* gigabyte and one page more; unaligned text; an object file that is not   *)
(* an executable; nothing to load.                                          *)
Images ==
    { Image(TRUE, 1, <<Text(0, 2, 3), Data(4, 6, 2), Bss(6, 8, 5), Debug(3)>>),
      Image(TRUE, 1, <<Text(0, 2, 6), Tbss(6, 2), Bss(12, 8, 1), Data(28, 8, 4)>>),
      Image(TRUE, 9, <<Text(8, 2, 2)>>),
      Image(TRUE, 1, <<Text(0, 2, 2), Bss(8, 4, 2), Bss(16, 4, 2), Data(24, 4, 2)>>),
      Image(TRUE, 1, <<Bss(0, 2, 2), Bss(8, 2, 2), Bss(16, 2, 4), Text(24, 2, 1), Debug(6)>>),
      Image(TRUE, 1, <<Text(0, 2, 32)>>),
      Image(TRUE, 1, <<Text(0, 2, 30), Bss(30, 32, 3)>>),
      Image(TRUE, 1, <<Text(0, 3, 2)>>),
      Image(FALSE, 1, <<Text(0, 2, 2)>>),
      Image(TRUE, 1, <<Debug(1)>>) }
Module(name, start, end, image) == [name |-> name, start |-> start, end |-> end, image |-> image]
Initrd == Image(FALSE, 0, <<>>)
ModuleLists(image) ==
    { <<>>,
      <<Module("initrd", 16, 18, Initrd)>>,
      <<Module("Interlude", 16, 21, image)>>,
      <<Module("Interlude", 17, 20, image)>>,
      <<Module("Interlude", 16, 20, image), Module("initrd", 20, 23, Initrd)>>,
      <<Module("other", 16, 20, Initrd), Module("Interlude", 24, 28, image)>>,
      <<Module("Interlude", 24, 28, image), Module("other", 16, 20, image)>> }

Region(base, length, type) == [base |-> base, length |-> length, type |-> type]
Low == Region(0, 5, 1)
(* All memory in one region; two regions of which the second is too small  *)
(* or large enough; a reserved region only; a region ending inside a page, *)
(* and one starting inside a page; one so long that its length in an int   *)
(* is negative, with one above 4GB.                                        *)
MemoryMaps ==
    { <<Low, Region(8, 56, 1)>>,
      <<Low, Region(8, 40, 1), Region(52, 6, 1)>>,
      <<Low, Region(8, 36, 1), Region(50, 46, 1), Region(96, 32, 2)>>,
      <<Low, Region(8, 80, 2)>>,
      <<Low, Region(8, 31, 1)>>,
      <<Low, Region(8, 4, 2), Region(33, 31, 1)>>,
      <<Low, Region(8, 120, 1), Region(160, 60, 1)>> }

Cmdlines == { <<>>,
              <<[name |-> "kernel", value |-> "other"]>>,
              <<[name |-> "kernel", value |-> "other"], [name |-> "kernel", value |-> "Interlude"]>>,
              <<[name |-> "kernel", value |-> None]>>,
              <<[name |-> "quiet", value |-> None]>> }

Record(cmdline, mods, map) ==
    [hasModules |-> TRUE, hasMap |-> TRUE, hasCmdline |-> TRUE,
     cmdline |-> cmdline, mods |-> mods, map |-> map]

MCMultiboots ==
    UNION { { Record(c, ms, mm) : c \in {<<>>}, ms \in ModuleLists(i), mm \in MemoryMaps } : i \in Images }
    \cup { Record(c, ms, CHOOSE mm \in MemoryMaps : TRUE) :
              c \in Cmdlines, ms \in ModuleLists(CHOOSE i \in Images : i.headerOk) }
    \cup { [Record(<<>>, <<Module("Interlude", 16, 20, Initrd)>>, <<Low>>) EXCEPT !.hasMap = FALSE],
           [Record(<<>>, <<>>, <<Low>>) EXCEPT !.hasModules = FALSE] }
===============================================================================
