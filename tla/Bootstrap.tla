------------------------------- MODULE Bootstrap -------------------------------
(***************************************************************************)
(* The second-stage loader of hos-boot/src/x86_64/bootstrap.c: from the    *)
(* multiboot record GRUB leaves behind to the jump into the kernel.  It    *)
(* picks the kernel among the boot modules, sizes it, reserves memory for  *)
(* page tables and .bss, builds the 4-level tables and enters long mode.   *)
(*                                                                         *)
(* Addresses are integers in a unit that divides the page; the widths of   *)
(* the code scale with the page and the number of entries of a table: a    *)
(* page directory maps ONE_GIGABYTE and a uint32_t counts WORD = 4GB.      *)
(* Kernel virtual addresses are offsets from KERNEL_LOAD_ADDRESS, whose    *)
(* low 32 bits are zero.                                                   *)
(***************************************************************************)
EXTENDS Integers, Sequences, FiniteSets, FiniteSetsExt

CONSTANTS PAGE,        \* PAGE_SIZE
          ENTRIES,     \* ENTRIES_PER_PAGE_TABLE
          Multiboots,  \* the multiboot records the loader may be given
          None         \* an absent value or a zero table entry

SectionType == [type : {"progbits", "nobits", "other"}, alloc : BOOLEAN, write : BOOLEAN,
                addr : Nat, offset : Nat, size : Nat]

ASSUME BootAssumption ==
    /\ PAGE \in Nat \ {0}
    /\ ENTRIES \in Nat /\ ENTRIES >= 2
    /\ \A m \in Multiboots :
         /\ \A j \in DOMAIN m.mods : m.mods[j].image.sections \in Seq(SectionType) /\ m.mods[j].end \in Nat
         /\ \A j \in DOMAIN m.map : m.map[j].base \in Nat /\ m.map[j].length \in Nat

ONE_GIGABYTE == PAGE * ENTRIES * ENTRIES
WORD         == 4 * ONE_GIGABYTE
PML4_ENTRY   == ENTRIES \div 2          \* 256 of 512
DefaultKernel == "Interlude"

AlignDown(x) == (x \div PAGE) * PAGE
AlignUp(x)   == AlignDown(x + PAGE - 1)
Aligned(x)   == x % PAGE = 0
U32(x)       == x % WORD
S32(x)       == ((x + WORD \div 2) % WORD) - WORD \div 2    \* stored in an int

VARIABLES
    pc, mbi,
    kernel_name, kernel, highest,       \* the module found, highest_module_address
    kernel_entry,
    sec, kernel_size, bss_size,         \* the loop over the section headers
    wrapped, sizeUpTo,                  \* history of the sizing loop: overflow, pages so far
    pages, page_table_start,
    used,                               \* pages taken by alloc_page
    page,                               \* pages of the section already mapped
    tables, pdt,                        \* page-table pages by address; the kernel's PDT
    bssPages,                           \* history: what backs .bss
    rip

findVars  == <<kernel_name, kernel, highest>>
sizeVars  == <<kernel_size, bss_size, wrapped, sizeUpTo>>
tableVars == <<used, page, tables, pdt, bssPages>>
vars == <<pc, mbi, findVars, kernel_entry, sec, sizeVars, pages, page_table_start,
          tableVars, rip>>

Init ==
    /\ mbi \in Multiboots
    /\ pc = "check"
    /\ kernel_name = DefaultKernel /\ kernel = None /\ highest = 0
    /\ kernel_entry = 0
    /\ sec = 0 /\ kernel_size = 0 /\ bss_size = 0
    /\ wrapped = FALSE /\ sizeUpTo = <<>>
    /\ pages = 0 /\ page_table_start = 0
    /\ used = 0 /\ page = 0 /\ tables = <<>> /\ pdt = 0 /\ bssPages = {}
    /\ rip = None

-------------------------------------------------------------------------------
(* From the multiboot record to the kernel module.                         *)

CheckMultiboot ==
    /\ pc = "check"
    /\ pc' = IF ~mbi.hasModules \/ mbi.mods = <<>> \/ ~mbi.hasMap THEN "error" ELSE "cmdline"
    /\ UNCHANGED <<mbi, findVars, kernel_entry, sec, sizeVars, pages, page_table_start, tableVars, rip>>

(* parse_command_line stops at the first option that is not kernel=name.   *)
BadOption(o) == o.name # "kernel" \/ o.value = None

ParseCmdline ==
    /\ pc = "cmdline"
    /\ LET options == IF mbi.hasCmdline THEN mbi.cmdline ELSE <<>> IN
       \/ /\ \E j \in DOMAIN options : BadOption(options[j])
          /\ pc' = "error"
          /\ UNCHANGED kernel_name
       \/ /\ \A j \in DOMAIN options : ~BadOption(options[j])
          /\ pc' = "modules"
          /\ kernel_name' = IF options = <<>> THEN kernel_name ELSE options[Len(options)].value
    /\ UNCHANGED <<mbi, kernel, highest, kernel_entry, sec, sizeVars, pages, page_table_start,
                   tableVars, rip>>

ModuleEnd(mod) == U32(AlignUp(mod.end))

(* The last module with the kernel's name wins; load_kernel gives up when  *)
(* there is none.                                                          *)
ParseModules ==
    /\ pc = "modules"
    /\ LET named == {j \in DOMAIN mbi.mods : mbi.mods[j].name = kernel_name} IN
       \/ named = {} /\ pc' = "error" /\ UNCHANGED kernel
       \/ \E last \in named :
             /\ \A j \in named : j <= last
             /\ pc' = "verify" /\ kernel' = mbi.mods[last]
    /\ highest' = Max({0} \cup {ModuleEnd(mbi.mods[j]) : j \in DOMAIN mbi.mods})
    /\ UNCHANGED <<mbi, kernel_name, kernel_entry, sec, sizeVars, pages, page_table_start,
                   tableVars, rip>>

(* A wrong magic number only suppresses a message; the ELF header fields   *)
(* are what is checked.                                                    *)
VerifyElf ==
    /\ pc = "verify"
    /\ IF kernel.image.headerOk
         THEN pc' = "estimate" /\ kernel_entry' = kernel.image.entry
         ELSE pc' = "error" /\ UNCHANGED kernel_entry
    /\ sec' = 1
    /\ UNCHANGED <<mbi, findVars, sizeVars, pages, page_table_start, tableVars, rip>>

-------------------------------------------------------------------------------
(* estimate_pages_needed_for_kernel                                        *)

Sections == kernel.image.sections
IsBss(s) == s.type = "nobits" /\ s.alloc /\ s.write
LoadsFile(s) == s.type = "progbits" /\ s.alloc
WillLoad(s) == IsBss(s) \/ LoadsFile(s)

(* Every section counts, loaded or not, and .bss counts once more for the  *)
(* pages that will back it.                                                *)
EstimateLoadedOnly(s) ==                      \* mutant: .bss is counted once
    /\ kernel_size' = U32(kernel_size + AlignUp(s.size))
    /\ wrapped' = (wrapped \/ kernel_size + AlignUp(s.size) >= WORD)
    /\ UNCHANGED bss_size
CountSection(s) ==
    /\ kernel_size' = U32(kernel_size + AlignUp(s.size))
    /\ bss_size' = IF IsBss(s) THEN U32(bss_size + AlignUp(s.size)) ELSE bss_size
    /\ wrapped' = (wrapped \/ kernel_size + AlignUp(s.size) >= WORD)

EstimateSection ==
    /\ pc = "estimate" /\ sec <= Len(Sections)
    /\ LET s == Sections[sec] IN
       IF WillLoad(s) /\ ~(Aligned(s.addr) /\ Aligned(s.offset))
         THEN pc' = "error" /\ UNCHANGED <<sec, sizeVars>>
         ELSE /\ CountSection(s)
              /\ sizeUpTo' = Append(sizeUpTo, [all |-> kernel_size' \div PAGE, bss |-> bss_size' \div PAGE])
              /\ sec' = sec + 1
              /\ UNCHANGED pc
    /\ UNCHANGED <<mbi, findVars, kernel_entry, pages, page_table_start, tableVars, rip>>

EstimateDone ==
    /\ pc = "estimate" /\ sec > Len(Sections)
    /\ IF ~Aligned(kernel.start) \/ kernel_size > ONE_GIGABYTE
         THEN pc' = "error" /\ UNCHANGED pages
         ELSE pc' = "reserve" /\ pages' = 5 + kernel_size \div PAGE + bss_size \div PAGE
    /\ UNCHANGED <<mbi, findVars, kernel_entry, sec, sizeVars, page_table_start, tableVars, rip>>

-------------------------------------------------------------------------------
(* reserve_kernel_space: the last free region above the modules with       *)
(* enough pages.                                                           *)

RegionBase(e) == IF e.base < highest THEN highest ELSE U32(e.base)
RegionLength(e) ==
    S32(AlignDown(e.base + e.length) - AlignUp(IF e.base < highest THEN highest ELSE e.base))
AnyRegionFits(e) == pages < RegionLength(e) \div PAGE      \* mutant: type ignored
RegionFits(e) == e.type = 1 /\ pages < RegionLength(e) \div PAGE

ReserveSpace ==
    /\ pc = "reserve"
    /\ LET fits == {j \in DOMAIN mbi.map : RegionFits(mbi.map[j])} IN
       \/ fits = {} /\ pc' = "error" /\ UNCHANGED page_table_start
       \/ \E last \in fits :
             /\ \A j \in fits : j <= last
             /\ pc' = "tables"
             /\ page_table_start' = U32(AlignUp(RegionBase(mbi.map[last])))
    /\ UNCHANGED <<mbi, findVars, kernel_entry, sec, sizeVars, pages, tableVars, rip>>

-------------------------------------------------------------------------------
(* build_page_tables.  The reserved pages were zeroed, so a page taken for *)
(* a table starts with no entry.                                           *)

PageAt(n) == U32(page_table_start + n * PAGE)      \* the n-th page of alloc_page
EmptyTable == [e \in 0..(ENTRIES - 1) |-> None]
Entry(to, write) == [to |-> to, write |-> write, large |-> FALSE]
LargeEntry(to) == [to |-> to, write |-> TRUE, large |-> TRUE]

WithTable(tabs, at) ==
    [a \in DOMAIN tabs \cup {at} |-> IF a = at THEN EmptyTable ELSE tabs[a]]
SetEntry(tabs, at, e, entry) == [tabs EXCEPT ![at][e] = entry]

BuildStart ==
    /\ pc = "tables"
    /\ used' = 3
    /\ tables' = [a \in {PageAt(0), PageAt(1), PageAt(2)} |-> EmptyTable]
    /\ pdt' = PageAt(2)
    /\ sec' = 1 /\ page' = 0
    /\ pc' = "map"
    /\ UNCHANGED <<mbi, findVars, kernel_entry, sizeVars, pages, page_table_start, bssPages, rip>>

PdtIndex(virt) == (virt \div (PAGE * ENTRIES)) % ENTRIES
PtIndex(virt)  == (virt \div PAGE) % ENTRIES
AlwaysWritable(s) == TRUE                                  \* mutant
Access(s) == s.write

(* map_page: the page table is allocated, at fresh, when the directory has *)
(* none for this address.                                                  *)
Mapped(tabs, virt, real, write, fresh) ==
    LET dir  == PdtIndex(virt)
        tabs2 == IF tabs[pdt][dir] = None
                   THEN SetEntry(WithTable(tabs, fresh), pdt, dir, Entry(fresh, TRUE))
                   ELSE tabs
    IN SetEntry(tabs2, tabs2[pdt][dir].to, PtIndex(virt), Entry(real, write))

Mapping == pc = "map" /\ sec <= Len(Sections)
SectionMapped == page * PAGE >= Sections[sec].size

(* One iteration of the loop over the pages of a section: a page for .bss, *)
(* then a page for the table when needed.                                  *)
MapPage ==
    /\ Mapping
    /\ WillLoad(Sections[sec]) /\ ~SectionMapped
    /\ LET s    == Sections[sec]
           virt == s.addr + page * PAGE
           zero == IF IsBss(s) THEN 1 ELSE 0
           real == IF IsBss(s) THEN PageAt(used) ELSE kernel.start + s.offset + page * PAGE
           table == IF tables[pdt][PdtIndex(virt)] = None THEN 1 ELSE 0
       IN /\ tables' = Mapped(tables, virt, real, Access(s), PageAt(used + zero))
          /\ used' = used + zero + table
          /\ bssPages' = IF IsBss(s) THEN bssPages \cup {real} ELSE bssPages
    /\ page' = page + 1
    /\ UNCHANGED <<pc, mbi, findVars, kernel_entry, sec, sizeVars, pages, page_table_start, pdt, rip>>

StuckOnSkipped ==                        \* mutant: a skipped section is not passed over
    /\ Mapping
    /\ ~WillLoad(Sections[sec]) \/ SectionMapped
    /\ sec' = IF WillLoad(Sections[sec]) THEN sec + 1 ELSE sec
    /\ page' = 0
    /\ UNCHANGED <<pc, mbi, findVars, kernel_entry, sizeVars, pages, page_table_start,
                   used, tables, pdt, bssPages, rip>>
NextSection ==
    /\ Mapping
    /\ ~WillLoad(Sections[sec]) \/ SectionMapped
    /\ sec' = sec + 1 /\ page' = 0
    /\ UNCHANGED <<pc, mbi, findVars, kernel_entry, sizeVars, pages, page_table_start,
                   used, tables, pdt, bssPages, rip>>

(* The kernel's half of the PML4, then tables of the loader's own: the     *)
(* first four megabytes, mapped to themselves.                             *)
BuildFinish ==
    /\ pc = "map" /\ sec > Len(Sections)
    /\ LET t1 == SetEntry(tables, PageAt(0), PML4_ENTRY, Entry(PageAt(1), TRUE))
           t2 == SetEntry(t1, PageAt(1), 0, Entry(pdt, TRUE))
           t3 == WithTable(WithTable(t2, PageAt(used)), PageAt(used + 1))
           t4 == SetEntry(t3, PageAt(0), 0, Entry(PageAt(used), TRUE))
           t5 == SetEntry(t4, PageAt(used), 0, Entry(PageAt(used + 1), TRUE))
           t6 == SetEntry(t5, PageAt(used + 1), 0, LargeEntry(0))
       IN tables' = SetEntry(t6, PageAt(used + 1), 1, LargeEntry(PAGE * ENTRIES))
    /\ used' = used + 2
    /\ pc' = "jump"
    /\ UNCHANGED <<mbi, findVars, kernel_entry, sec, sizeVars, pages, page_table_start, page, pdt,
                   bssPages, rip>>

-------------------------------------------------------------------------------
(* _enterLongMode of boot.S jumps to 0xffff800000000001.                   *)
HardJump == 1

EnterLongMode ==
    /\ pc = "jump"
    /\ rip' = HardJump
    /\ pc' = "running"
    /\ UNCHANGED <<mbi, findVars, kernel_entry, sec, sizeVars, pages, page_table_start, tableVars>>

(* error() prints its message and spins; the kernel has taken over.        *)
Halted == pc \in {"error", "running"} /\ UNCHANGED vars

Step == \/ CheckMultiboot \/ ParseCmdline \/ ParseModules \/ VerifyElf
        \/ EstimateSection \/ EstimateDone \/ ReserveSpace
        \/ BuildStart \/ MapPage \/ NextSection \/ BuildFinish \/ EnterLongMode

Next == Step \/ Halted
Spec == Init /\ [][Next]_vars
FairSpec == Spec /\ WF_vars(Step)

-------------------------------------------------------------------------------
(* What the loader must get right.                                         *)

Frames == Nat
Entries == {None} \cup [to : Frames, write : BOOLEAN, large : BOOLEAN]

(* Every variable has its type; an address stored in a uint32_t stays      *)
(* below WORD.                                                             *)
TypeOK ==
    /\ pc \in {"check", "cmdline", "modules", "verify", "estimate", "reserve", "tables",
               "map", "jump", "running", "error"}
    /\ mbi \in Multiboots
    /\ highest \in 0..(WORD - 1) /\ Aligned(highest)
    /\ kernel_size \in 0..(WORD - 1) /\ bss_size \in 0..(WORD - 1)
    /\ sec \in Nat /\ page \in Nat /\ used \in Nat /\ pages \in Nat
    /\ page_table_start \in 0..(WORD - 1)
    /\ \A a \in DOMAIN tables : tables[a] \in [0..(ENTRIES - 1) -> Entries]
    /\ rip \in {None} \cup Nat

(* reserve_kernel_space sets aside the pages that                          *)
(* estimate_pages_needed_for_kernel counted, and build_page_tables takes   *)
(* its pages one by one with no check of its own: it must never take more  *)
(* than were reserved (as long as kernel_size did not overflow).           *)
PageTablesFit == ~wrapped => used <= pages

(* The n pages from a on lie in one region of free memory.                 *)
InFreeRegion(a, n) ==
    \E j \in DOMAIN mbi.map :
        LET e == mbi.map[j] IN
        e.type = 1 /\ e.base <= a /\ a + n * PAGE <= e.base + e.length
OverlapsModule(a, n) ==
    \E j \in DOMAIN mbi.mods : a < mbi.mods[j].end /\ mbi.mods[j].start < a + n * PAGE
Reserved == pc \in {"tables", "map", "jump", "running"}
MapBelow4GB == \A j \in DOMAIN mbi.map : mbi.map[j].base + mbi.map[j].length <= WORD
Wraps == UNION {0..((mbi.map[j].base + mbi.map[j].length) \div WORD) : j \in DOMAIN mbi.map}

(* What reserve_kernel_space has chosen is free memory and holds no module: *)
(* the kernel image is read again, and mapped, after the reservation.  It   *)
(* keeps the address in a uint32_t, so page_table_start is that address    *)
(* itself where all memory is below 4GB, and else what is left of it.      *)
ReservedIsFree ==
    Reserved =>
        \E k \in Wraps :
            /\ InFreeRegion(page_table_start + k * WORD, pages)
            /\ ~OverlapsModule(page_table_start + k * WORD, pages)
            /\ MapBelow4GB => k = 0

(* The 4-level walk of the kernel's half, from the PML4 the loader gives   *)
(* to the processor.                                                       *)
WalkTo(virt) ==
    LET pdpt  == tables[PageAt(0)][PML4_ENTRY].to
        dir   == tables[pdpt][0].to
        entry == tables[dir][PdtIndex(virt)]
    IN IF entry = None THEN None ELSE tables[entry.to][PtIndex(virt)]

LoadedPages ==
    {p \in (1..Len(Sections)) \X (0..(ONE_GIGABYTE \div PAGE)) :
        WillLoad(Sections[p[1]]) /\ p[2] * PAGE < Sections[p[1]].size}
VirtOf(p) == Sections[p[1]].addr + p[2] * PAGE
MappedRight(p) ==
    LET s == Sections[p[1]]
        e == WalkTo(VirtOf(p))
    IN /\ e # None
       /\ e.write = s.write
       /\ LoadsFile(s) => e.to = kernel.start + s.offset + p[2] * PAGE
       /\ IsBss(s) => /\ e.to \in bssPages \ DOMAIN tables
                      /\ page_table_start <= e.to /\ e.to < page_table_start + pages * PAGE

(* In long mode every page of every loaded section is mapped with the      *)
(* section's access: file pages to the module's bytes, .bss pages to       *)
(* reserved pages of their own, none of which is a page table; nothing     *)
(* else of the kernel's half is mapped, and the loader's first 4MB still   *)
(* map to themselves.                                                      *)
TranslationCorrect ==
    pc = "running" /\ ~wrapped =>
        /\ \A p \in LoadedPages : MappedRight(p)
        /\ \A p, q \in LoadedPages :
              IsBss(Sections[p[1]]) /\ p # q => WalkTo(VirtOf(p)).to # WalkTo(VirtOf(q)).to
        /\ \A n \in 0..(ONE_GIGABYTE \div PAGE - 1) :
              WalkTo(n * PAGE) # None => \E p \in LoadedPages : VirtOf(p) = n * PAGE
        /\ LET low == tables[tables[tables[PageAt(0)][0].to][0].to] IN
           low[0] = LargeEntry(0) /\ low[1] = LargeEntry(PAGE * ENTRIES)

(* The loader always ends: in the kernel or with an error message.         *)
BootEnds == <>(pc \in {"running", "error"})
===============================================================================
