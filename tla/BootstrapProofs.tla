---------------------------- MODULE BootstrapProofs ----------------------------
(***************************************************************************)
(* The loader never takes a page it did not reserve, for every kernel      *)
(* image whose size does not overflow: PageTablesFit, from an inductive    *)
(* invariant that follows the sums of the sizing loop into the mapping     *)
(* loop.                                                                   *)
(***************************************************************************)
EXTENDS Bootstrap, WellFoundedInduction, TLAPS

PagesOf(s) == (s.size + PAGE - 1) \div PAGE
AllUpTo(sums, n) == IF n = 0 THEN 0 ELSE sums[n].all
BssUpTo(sums, n) == IF n = 0 THEN 0 ELSE sums[n].bss
BssPages(s) == IF IsBss(s) THEN PagesOf(s) ELSE 0

Sizing == pc = "estimate"
Sized  == pc \in {"reserve", "tables", "map", "jump", "running"}

Sums == [all : Int, bss : Int]

(* The history of the sizing loop: one entry for each section passed, the  *)
(* partial sums of the sections' pages.                                    *)
PrefixSums(sums, sections) ==
    \A n \in 1..Len(sums) :
        /\ sums[n].all \in Nat /\ sums[n].bss \in Nat
        /\ n <= Len(sections)
        /\ sums[n].all = AllUpTo(sums, n - 1) + PagesOf(sections[n])
        /\ sums[n].bss = BssUpTo(sums, n - 1) + BssPages(sections[n])
        /\ \A k \in 0..n : /\ AllUpTo(sums, k) <= AllUpTo(sums, n)
                           /\ BssUpTo(sums, k) <= BssUpTo(sums, n)

KernelKnown == Sections \in Seq(SectionType)

SizingInv ==
    /\ sec \in 1..(Len(Sections) + 1)
    /\ Len(sizeUpTo) = sec - 1
    /\ ~wrapped => /\ PrefixSums(sizeUpTo, Sections)
                   /\ kernel_size = PAGE * AllUpTo(sizeUpTo, sec - 1)
                   /\ bss_size = PAGE * BssUpTo(sizeUpTo, sec - 1)
                   /\ bss_size <= kernel_size /\ kernel_size < WORD

SizedInv ==
    /\ Len(sizeUpTo) = Len(Sections)
    /\ PrefixSums(sizeUpTo, Sections)
    /\ pages = 5 + AllUpTo(sizeUpTo, Len(Sections)) + BssUpTo(sizeUpTo, Len(Sections))

(* The pages taken so far are accounted for by the sections mapped so far. *)
MappingInv ==
    /\ sec \in 1..(Len(Sections) + 1) /\ page \in Nat
    /\ sec > Len(Sections) => page = 0
    /\ sec <= Len(Sections) =>
         /\ page <= PagesOf(Sections[sec])
         /\ ~WillLoad(Sections[sec]) => page = 0
    /\ used <= 3 + AllUpTo(sizeUpTo, sec - 1) + BssUpTo(sizeUpTo, sec - 1) + page
                 + (IF sec <= Len(Sections) /\ IsBss(Sections[sec]) THEN page ELSE 0)

IInv ==
    /\ mbi \in Multiboots
    /\ used \in Nat /\ wrapped \in BOOLEAN
    /\ kernel_size \in Nat /\ bss_size \in Nat /\ pages \in Nat
    /\ pc \in {"check", "cmdline", "modules", "verify", "estimate", "reserve", "tables", "map",
               "jump", "running", "error"}
    /\ sizeUpTo \in Seq(Sums)
    /\ pc \in {"check", "cmdline", "modules", "verify"} =>
          kernel_size = 0 /\ bss_size = 0 /\ sizeUpTo = <<>> /\ ~wrapped
    /\ pc = "verify" \/ Sizing \/ Sized => KernelKnown
    /\ Sized /\ ~wrapped => SizedInv
    /\ Sizing => SizingInv
    /\ pc = "map" /\ ~wrapped => MappingInv
    /\ pc \in {"jump", "running"} /\ ~wrapped => used <= pages
    /\ pc \in {"check", "cmdline", "modules", "verify", "estimate", "reserve", "tables"} => used = 0
    /\ pc = "error" => used = 0

-------------------------------------------------------------------------------
(* Arithmetic of pages.                                                    *)

(* Rounding up to a page counts whole pages, which cover every page offset *)
(* below the size.                                                         *)
LEMMA AlignUpPages ==
    ASSUME NEW s \in SectionType
    PROVE  /\ PagesOf(s) \in Nat
           /\ AlignUp(s.size) = PAGE * PagesOf(s)
           /\ \A k \in Nat : k * PAGE < s.size => k + 1 <= PagesOf(s)
<1> DEFINE q == (s.size + PAGE - 1) \div PAGE
<1>1. s.size \in Nat /\ PAGE \in Nat /\ PAGE > 0
  BY BootAssumption DEF SectionType
<1>2. q \in Nat /\ s.size + PAGE - 1 = PAGE * q + ((s.size + PAGE - 1) % PAGE)
      /\ (s.size + PAGE - 1) % PAGE \in 0..(PAGE - 1)
  BY <1>1
<1>3. ASSUME NEW k \in Nat, k * PAGE < s.size
      PROVE  k + 1 <= q
  <2>1. SUFFICES ASSUME q <= k PROVE FALSE
    BY <1>2
  <2>2. PAGE * q <= PAGE * k
    BY <2>1, <1>1, <1>2
  <2>3. PAGE * k < s.size
    BY <1>1, <1>3
  <2> HIDE DEF q
  <2> QED BY <1>1, <1>2, <2>2, <2>3
<1>4. AlignUp(s.size) = q * PAGE
  BY DEF AlignUp, AlignDown
<1> QED BY <1>1, <1>2, <1>3, <1>4 DEF PagesOf

(* Division undoes multiplication by the page.                             *)
LEMMA WholePages ==
    ASSUME NEW n \in Nat
    PROVE  (PAGE * n) \div PAGE = n
BY BootAssumption

(* A sum that stays below WORD is not truncated.                           *)
LEMMA NoTruncation ==
    ASSUME NEW x \in Nat
    PROVE  U32(x) \in Nat /\ (x < WORD => U32(x) = x) /\ WORD \in Nat /\ 0 < WORD
<1>1. PAGE \in Nat /\ PAGE > 0 /\ ENTRIES \in Nat /\ ENTRIES > 0
  BY BootAssumption
<1>2. PAGE * ENTRIES \in Nat /\ PAGE * ENTRIES > 0
  BY <1>1
<1>3. PAGE * ENTRIES * ENTRIES \in Nat /\ PAGE * ENTRIES * ENTRIES > 0
  BY <1>1, <1>2
<1>4. WORD \in Nat /\ WORD > 0
  BY <1>3 DEF WORD, ONE_GIGABYTE
<1> QED BY <1>4 DEF U32

(* Partial sums are natural numbers.                                       *)
LEMMA SumsAreNat ==
    ASSUME NEW sums, NEW sections, Len(sums) \in Nat, PrefixSums(sums, sections),
           NEW n \in 0..Len(sums)
    PROVE  AllUpTo(sums, n) \in Nat /\ BssUpTo(sums, n) \in Nat
<1>1. CASE n = 0
  BY <1>1 DEF AllUpTo, BssUpTo
<1>2. CASE n \in 1..Len(sums)
  <2>1. sums[n].all \in Nat /\ sums[n].bss \in Nat
    BY <1>2 DEF PrefixSums
  <2> QED BY <1>2, <2>1 DEF AllUpTo, BssUpTo
<1> QED BY <1>1, <1>2

-------------------------------------------------------------------------------
LEMMA InitInv == Init => IInv
<1> SUFFICES ASSUME Init PROVE IInv
  OBVIOUS
<1>1. sizeUpTo \in Seq(Sums)
  BY DEF Init
<1>2. wrapped \in BOOLEAN /\ ~wrapped
  BY DEF Init
<1>3. mbi \in Multiboots /\ used = 0 /\ kernel_size = 0 /\ bss_size = 0 /\ pages = 0
      /\ sizeUpTo = <<>> /\ pc = "check"
  BY DEF Init
<1> QED BY <1>1, <1>2, <1>3 DEF IInv, Sizing, Sized

(* Before the kernel is chosen nothing has been counted.                   *)
LEMMA FindSteps ==
    ASSUME IInv, CheckMultiboot \/ ParseCmdline \/ ParseModules \/ VerifyElf
    PROVE  IInv'
<1> USE DEF IInv, Sizing, Sized
<1>1. CASE CheckMultiboot
  BY <1>1 DEF CheckMultiboot, findVars, sizeVars, tableVars
<1>2. CASE ParseCmdline
  BY <1>2 DEF ParseCmdline, findVars, sizeVars, tableVars
<1>3. CASE ParseModules
  <2>1. CASE pc' = "error"
    BY <1>3, <2>1 DEF ParseModules, sizeVars, tableVars
  <2>2. CASE pc' # "error"
    <3>1. PICK last \in DOMAIN mbi.mods : pc' = "verify" /\ kernel' = mbi.mods[last]
      BY <1>3, <2>2 DEF ParseModules
    <3>2. KernelKnown'
      BY <3>1, BootAssumption DEF KernelKnown, Sections
    <3> QED BY <1>3, <3>1, <3>2 DEF ParseModules, sizeVars, tableVars
  <2> QED BY <2>1, <2>2
<1>4. CASE VerifyElf
  <2>1. KernelKnown /\ KernelKnown'
    BY <1>4 DEF VerifyElf, findVars, KernelKnown, Sections
  <2>2. CASE pc' = "estimate"
    <3>1. Len(sizeUpTo') = 0 /\ 0 < WORD /\ kernel_size' = PAGE * 0 /\ bss_size' = PAGE * 0
      BY <1>4, NoTruncation, BootAssumption DEF VerifyElf, sizeVars
    <3>2. Len(Sections') \in Nat
      BY <2>1 DEF KernelKnown
    <3>3. SizingInv'
      BY SMTT(60), <3>1, <3>2, <1>4, <2>1, <2>2, NoTruncation DEF VerifyElf, findVars, sizeVars, SizingInv, PrefixSums,
         AllUpTo, BssUpTo, KernelKnown, Sections
    <3> QED BY <1>4, <2>1, <2>2, <3>3 DEF VerifyElf, findVars, sizeVars, tableVars
  <2>3. CASE pc' = "error"
    BY <1>4, <2>3 DEF VerifyElf, findVars, sizeVars, tableVars
  <2> QED BY <1>4, <2>2, <2>3 DEF VerifyElf
<1> QED BY <1>1, <1>2, <1>3, <1>4

(* Appending the sums up to the next section keeps them partial sums.      *)
LEMMA AppendSums ==
    ASSUME NEW sections \in Seq(SectionType), NEW sums \in Seq(Sums),
           Len(sums) < Len(sections), PrefixSums(sums, sections),
           NEW e, e = [all |-> AllUpTo(sums, Len(sums)) + PagesOf(sections[Len(sums) + 1]),
                       bss |-> BssUpTo(sums, Len(sums)) + BssPages(sections[Len(sums) + 1])]
    PROVE  PrefixSums(Append(sums, e), sections)
<1> DEFINE m == Len(sums)
           new == Append(sums, e)
<1>1. sections[m + 1] \in SectionType /\ m \in Nat
  OBVIOUS
<1>2. PagesOf(sections[m + 1]) \in Nat /\ BssPages(sections[m + 1]) \in Nat
  BY <1>1, AlignUpPages DEF BssPages
<1>3. /\ Len(new) = m + 1
      /\ \A n \in 1..m : new[n] = sums[n]
      /\ new[m + 1] = e
  OBVIOUS
<1>4. \A n \in 0..m : AllUpTo(new, n) = AllUpTo(sums, n) /\ BssUpTo(new, n) = BssUpTo(sums, n)
  BY <1>3 DEF AllUpTo, BssUpTo
<1>5. \A n \in 0..m : AllUpTo(sums, n) \in Nat /\ BssUpTo(sums, n) \in Nat
  BY DEF PrefixSums, AllUpTo, BssUpTo
<1>6. \A n \in 0..m : AllUpTo(sums, n) <= AllUpTo(sums, m) /\ BssUpTo(sums, n) <= BssUpTo(sums, m)
  BY <1>1, <1>5 DEF PrefixSums, AllUpTo, BssUpTo
<1>7. /\ AllUpTo(new, m + 1) = AllUpTo(sums, m) + PagesOf(sections[m + 1])
      /\ BssUpTo(new, m + 1) = BssUpTo(sums, m) + BssPages(sections[m + 1])
  BY <1>1, <1>3 DEF AllUpTo, BssUpTo
<1> HIDE DEF new
<1>8. ASSUME NEW n \in 1..(m + 1)
      PROVE  /\ new[n].all \in Nat /\ new[n].bss \in Nat
             /\ n <= Len(sections)
             /\ new[n].all = AllUpTo(new, n - 1) + PagesOf(sections[n])
             /\ new[n].bss = BssUpTo(new, n - 1) + BssPages(sections[n])
             /\ \A k \in 0..n : /\ AllUpTo(new, k) <= AllUpTo(new, n)
                                /\ BssUpTo(new, k) <= BssUpTo(new, n)
  <2>1. CASE n \in 1..m
    <3>1. n - 1 \in 0..m /\ n \in 0..m /\ \A k \in 0..n : k \in 0..m
      BY <2>1, <1>1
    <3>2. new[n] = sums[n]
      BY <2>1, <1>3
    <3>3. /\ sums[n].all \in Nat /\ sums[n].bss \in Nat
          /\ n <= Len(sections)
          /\ sums[n].all = AllUpTo(sums, n - 1) + PagesOf(sections[n])
          /\ sums[n].bss = BssUpTo(sums, n - 1) + BssPages(sections[n])
          /\ \A k \in 0..n : /\ AllUpTo(sums, k) <= AllUpTo(sums, n)
                             /\ BssUpTo(sums, k) <= BssUpTo(sums, n)
      BY <2>1 DEF PrefixSums
    <3> QED BY <3>1, <3>2, <3>3, <1>4
  <2>2. CASE n = m + 1
    <3>1. new[n].all = AllUpTo(new, n) /\ new[n].bss = BssUpTo(new, n)
      BY <2>2, <1>1 DEF AllUpTo, BssUpTo
    <3>2. \A k \in 0..n : k = n \/ k \in 0..m
      BY <2>2, <1>1
    <3>3. /\ e.all = AllUpTo(sums, m) + PagesOf(sections[m + 1])
          /\ e.bss = BssUpTo(sums, m) + BssPages(sections[m + 1])
          /\ new[n] = e /\ n - 1 = m /\ m \in 0..m
      BY <2>2, <1>1, <1>3
    <3>4. e.all \in Nat /\ e.bss \in Nat /\ AllUpTo(sums, m) <= e.all /\ BssUpTo(sums, m) <= e.bss
      BY SMTT(60), <3>3, <1>2, <1>5
    <3>5. ASSUME NEW k \in 0..n
          PROVE  AllUpTo(new, k) <= AllUpTo(new, n) /\ BssUpTo(new, k) <= BssUpTo(new, n)
      <4>1. CASE k = n
        BY <4>1, <3>1, <3>3, <3>4
      <4>2. CASE k \in 0..m
        BY <4>2, <3>1, <3>3, <3>4, <1>4, <1>5, <1>6
      <4> QED BY <4>1, <4>2, <3>2
    <3>6. n <= Len(sections)
      BY <2>2, <1>1
    <3>7. e.all = AllUpTo(new, n - 1) + PagesOf(sections[n]) /\ e.bss = BssUpTo(new, n - 1) + BssPages(sections[n])
      BY <3>3, <2>2, <1>4
    <3> QED BY <3>3, <3>4, <3>5, <3>6, <3>7
  <2> QED BY <2>1, <2>2, <1>1
<1> QED BY <1>3, <1>8 DEF PrefixSums, new

(* A section is counted: the sums grow by its pages.                       *)
LEMMA EstimateStep ==
    ASSUME IInv, EstimateSection
    PROVE  IInv'
<1> DEFINE s == Sections[sec]
<1>0. /\ pc = "estimate" /\ Sizing /\ SizingInv /\ KernelKnown
      /\ sec \in 1..Len(Sections) /\ s \in SectionType
      /\ UNCHANGED <<mbi, kernel, pages, used>> /\ Sections' = Sections
  BY DEF IInv, EstimateSection, Sizing, SizingInv, KernelKnown, findVars, tableVars, Sections
<1>1. CASE pc' = "error"
  BY <1>0, <1>1 DEF EstimateSection, CountSection, IInv, Sizing, Sized, sizeVars
<1>2. CASE pc' # "error"
  <2>1. /\ pc' = pc /\ sec' = sec + 1
        /\ CountSection(s)
        /\ sizeUpTo' = Append(sizeUpTo, [all |-> kernel_size' \div PAGE, bss |-> bss_size' \div PAGE])
    BY <1>0, <1>2 DEF EstimateSection
  <2>2. kernel_size' \in Nat /\ bss_size' \in Nat /\ wrapped' \in BOOLEAN
    <3>1. kernel_size + AlignUp(s.size) \in Nat /\ bss_size + AlignUp(s.size) \in Nat
      BY SMTT(60), <1>0, AlignUpPages, BootAssumption DEF IInv
    <3> QED BY <2>1, <3>1, NoTruncation DEF CountSection, IInv
  <2>3. sizeUpTo' \in Seq(Sums) /\ Len(sizeUpTo') = sec
    BY <2>1, <2>2, <1>0, BootAssumption DEF IInv, Sums, SizingInv
  <2>4. ASSUME ~wrapped'
        PROVE  /\ PrefixSums(sizeUpTo', Sections)
               /\ kernel_size' = PAGE * AllUpTo(sizeUpTo', sec)
               /\ bss_size' = PAGE * BssUpTo(sizeUpTo', sec)
               /\ bss_size' <= kernel_size' /\ kernel_size' < WORD
    <3> DEFINE p == PagesOf(s)
               b == BssPages(s)
               A == AllUpTo(sizeUpTo, sec - 1)
               B == BssUpTo(sizeUpTo, sec - 1)
    <3>2. /\ p \in Nat /\ AlignUp(s.size) = PAGE * p /\ b \in Nat
          /\ b = IF IsBss(s) THEN p ELSE 0
          /\ PAGE \in Nat /\ PAGE * p \in Nat
      BY <1>0, AlignUpPages, BootAssumption DEF BssPages
    <3>1. /\ ~wrapped /\ kernel_size + PAGE * p < WORD
          /\ kernel_size = PAGE * A /\ bss_size = PAGE * B /\ bss_size <= kernel_size
          /\ kernel_size < WORD /\ PrefixSums(sizeUpTo, Sections)
      <4>1. ~wrapped /\ ~(kernel_size + AlignUp(s.size) >= WORD)
        BY <2>1, <2>4 DEF CountSection
      <4>2. WORD \in Nat /\ kernel_size \in Nat
        BY NoTruncation DEF IInv
      <4>3. kernel_size + PAGE * p < WORD
        BY <4>1, <4>2, <3>2
      <4> QED BY <4>1, <4>3, <1>0 DEF SizingInv
    <3>3. A \in Nat /\ B \in Nat /\ Len(sizeUpTo) = sec - 1
      BY <3>1, <1>0 DEF PrefixSums, AllUpTo, BssUpTo, SizingInv
    <3>4. kernel_size' = kernel_size + PAGE * p
      <4>1. kernel_size' = U32(kernel_size + PAGE * p)
        BY <2>1, <3>2 DEF CountSection
      <4> QED BY SMTT(60), <4>1, <3>1, <3>2, NoTruncation DEF IInv
    <3>5. bss_size' = bss_size + PAGE * b
      <4>1. CASE IsBss(s)
        <5>1. bss_size' = U32(bss_size + PAGE * p)
          BY <2>1, <3>2, <4>1 DEF CountSection
        <5>2. bss_size + PAGE * p < WORD
          <6>1. WORD \in Nat /\ kernel_size \in Nat /\ bss_size \in Nat
            BY NoTruncation DEF IInv
          <6> QED BY <6>1, <3>1, <3>2
        <5> QED BY <4>1, <5>1, <5>2, <3>2, NoTruncation DEF IInv
      <4>2. CASE ~IsBss(s)
        BY <2>1, <4>2, <3>2 DEF CountSection, IInv
      <4> QED BY <4>1, <4>2
    <3> HIDE DEF p, b, A, B
    <3>6. PAGE * b <= PAGE * p
      <4>1. CASE IsBss(s)
        BY <3>2, <4>1
      <4>2. CASE ~IsBss(s)
        BY <3>2, <4>2
      <4> QED BY <4>1, <4>2
    <3>7. kernel_size' = PAGE * (A + p) /\ bss_size' = PAGE * (B + b)
      BY <3>1, <3>2, <3>3, <3>4, <3>5
    <3>8. bss_size' <= kernel_size' /\ kernel_size' < WORD
      <4>1. WORD \in Nat /\ kernel_size \in Nat /\ bss_size \in Nat /\ PAGE * b \in Nat
        BY <3>2, NoTruncation DEF IInv
      <4> QED BY <4>1, <3>1, <3>2, <3>4, <3>5, <3>6
    <3>9. kernel_size' \div PAGE = A + p /\ bss_size' \div PAGE = B + b
      BY <3>7, <3>2, <3>3, WholePages
    <3>10. Len(sizeUpTo) + 1 = sec /\ Len(sizeUpTo) < Len(Sections)
      BY <3>3, <1>0 DEF KernelKnown
    <3>11. sizeUpTo' = Append(sizeUpTo, [all |-> A + p, bss |-> B + b])
      BY <2>1, <3>9
    <3>12. PrefixSums(sizeUpTo', Sections)
      BY <3>1, <3>3, <3>10, <3>11, <1>0, AppendSums DEF IInv, KernelKnown, p, b, A, B
    <3>13. sizeUpTo'[sec] = [all |-> A + p, bss |-> B + b] /\ sec # 0
      BY <3>10, <3>11, <1>0 DEF IInv
    <3> QED BY <3>7, <3>8, <3>12, <3>13 DEF AllUpTo, BssUpTo
  <2>5. SizingInv'
    BY <2>1, <2>3, <2>4, <1>0 DEF SizingInv, KernelKnown
  <2>6. KernelKnown'
    BY <1>0 DEF KernelKnown
  <2> QED BY <2>1, <2>2, <2>3, <2>5, <2>6, <1>0 DEF IInv, Sizing, Sized
<1> QED BY <1>1, <1>2

(* The estimate is the sums of the last section, and five pages more.      *)
LEMMA EstimateDoneStep ==
    ASSUME IInv, EstimateDone
    PROVE  IInv'
<1>1. /\ pc = "estimate" /\ Sizing /\ SizingInv /\ KernelKnown /\ sec > Len(Sections)
      /\ UNCHANGED <<mbi, kernel, used, sizeUpTo, wrapped, kernel_size, bss_size, sec>>
      /\ Sections' = Sections
  BY DEF IInv, EstimateDone, Sizing, findVars, sizeVars, tableVars, Sections
<1>2. sec = Len(Sections) + 1 /\ Len(sizeUpTo) = Len(Sections)
  BY <1>1 DEF SizingInv, KernelKnown
<1>3. CASE pc' = "error"
  BY <1>1, <1>3 DEF EstimateDone, IInv, Sizing, Sized
<1>4. CASE pc' # "error"
  <2>1. pc' = "reserve" /\ pages' = 5 + kernel_size \div PAGE + bss_size \div PAGE
    BY <1>4 DEF EstimateDone
  <2>2. kernel_size \div PAGE \in Nat /\ bss_size \div PAGE \in Nat
    BY BootAssumption DEF IInv
  <2>3. ASSUME ~wrapped
        PROVE  SizedInv'
    <3> DEFINE A == AllUpTo(sizeUpTo, Len(Sections))
               B == BssUpTo(sizeUpTo, Len(Sections))
    <3>1. kernel_size = PAGE * A /\ bss_size = PAGE * B /\ PrefixSums(sizeUpTo, Sections)
      BY <2>3, <1>1, <1>2 DEF SizingInv, KernelKnown
    <3>2. A \in Nat /\ B \in Nat
      BY <3>1, <1>1, <1>2 DEF PrefixSums, AllUpTo, BssUpTo, KernelKnown
    <3>3. pages' = 5 + A + B
      BY <2>1, <3>1, <3>2, WholePages
    <3> QED BY <3>1, <3>3, <1>1, <1>2 DEF SizedInv
  <2> QED BY <1>1, <2>1, <2>2, <2>3 DEF IInv, Sizing, Sized, KernelKnown
<1> QED BY <1>3, <1>4

LEMMA ReserveStep ==
    ASSUME IInv, ReserveSpace
    PROVE  IInv'
<1>1. /\ pc = "reserve" /\ Sized /\ KernelKnown /\ Sections' = Sections /\ used' = 0
      /\ UNCHANGED <<mbi, kernel, used, sizeUpTo, wrapped, kernel_size, bss_size, sec, pages>>
  BY DEF IInv, ReserveSpace, Sized, findVars, sizeVars, tableVars, Sections
<1>2. pc' \in {"error", "tables"}
  BY DEF ReserveSpace
<1>3. ~wrapped => SizedInv'
  BY <1>1 DEF IInv, SizedInv, KernelKnown
<1> QED BY <1>1, <1>2, <1>3 DEF IInv, Sizing, Sized, KernelKnown

LEMMA BuildStartStep ==
    ASSUME IInv, BuildStart
    PROVE  IInv'
<1>1. /\ pc = "tables" /\ pc' = "map" /\ Sized /\ KernelKnown /\ Sections' = Sections
      /\ used' = 3 /\ sec' = 1 /\ page' = 0
      /\ UNCHANGED <<mbi, kernel, sizeUpTo, wrapped, kernel_size, bss_size, pages>>
  BY DEF IInv, BuildStart, Sized, findVars, sizeVars, tableVars, Sections
<1>2. ~wrapped => SizedInv'
  BY <1>1 DEF IInv, SizedInv, KernelKnown
<1>3. MappingInv'
  <2>1. Len(Sections) \in Nat
    BY <1>1 DEF KernelKnown
  <2>2. 1 <= Len(Sections) => PagesOf(Sections[1]) \in Nat
    BY <1>1, AlignUpPages DEF KernelKnown
  <2> QED BY <1>1, <2>1, <2>2 DEF MappingInv, AllUpTo, BssUpTo, PagesOf
<1> QED BY <1>1, <1>2, <1>3 DEF IInv, Sizing, Sized, KernelKnown

(* A page of a section is mapped: at most one page for a table and, for    *)
(* .bss, one for the contents.                                             *)
LEMMA MapPageStep ==
    ASSUME IInv, MapPage
    PROVE  IInv'
<1> DEFINE s == Sections[sec]
           zero == IF IsBss(s) THEN 1 ELSE 0
           table == IF tables[pdt][PdtIndex(s.addr + page * PAGE)] = None THEN 1 ELSE 0
<1>1. /\ pc = "map" /\ pc' = pc /\ Sized /\ KernelKnown /\ Sections' = Sections
      /\ sec <= Len(Sections) /\ WillLoad(s) /\ ~SectionMapped
      /\ used' = used + zero + table /\ page' = page + 1
      /\ UNCHANGED <<mbi, kernel, sizeUpTo, wrapped, kernel_size, bss_size, pages, sec>>
  BY DEF IInv, MapPage, Mapping, Sized, findVars, sizeVars, Sections
<1>2. used' \in Nat /\ used' <= used + 1 + zero
  BY <1>1 DEF IInv
<1>3. ~wrapped => SizedInv'
  BY <1>1 DEF IInv, SizedInv, KernelKnown
<1>4. ASSUME ~wrapped
      PROVE  MappingInv'
  <2>1. MappingInv /\ SizedInv /\ sec \in 1..Len(Sections) /\ s \in SectionType /\ page \in Nat
    BY <1>1, <1>4 DEF IInv, MappingInv, KernelKnown
  <2>2. page + 1 <= PagesOf(s)
    <3>1. page * PAGE < s.size
      <4>1. s.size \in Nat /\ PAGE \in Nat /\ page * PAGE \in Nat
        BY <2>1, BootAssumption DEF SectionType
      <4> QED BY <4>1, <1>1 DEF SectionMapped
    <3> QED BY <2>1, <3>1, AlignUpPages
  <2>3. AllUpTo(sizeUpTo, sec - 1) \in Nat /\ BssUpTo(sizeUpTo, sec - 1) \in Nat
    <3>1. sec - 1 \in 0..Len(sizeUpTo) /\ Len(sizeUpTo) \in Nat /\ PrefixSums(sizeUpTo, Sections)
      BY <2>1 DEF SizedInv, IInv
    <3> QED BY <3>1, SumsAreNat
  <2> DEFINE A == AllUpTo(sizeUpTo, sec - 1)
             B == BssUpTo(sizeUpTo, sec - 1)
             pagesOfBss == IF IsBss(s) THEN page ELSE 0
  <2>4. used <= 3 + A + B + page + pagesOfBss
    BY <2>1 DEF MappingInv
  <2> HIDE DEF A, B
  <2>5. used' <= 3 + A + B + (page + 1) + (IF IsBss(s) THEN page + 1 ELSE 0)
    BY SMTT(60), <2>1, <2>3, <2>4, <1>2 DEF IInv, A, B
  <2> QED BY <2>1, <2>2, <2>5, <1>1 DEF MappingInv, A, B
<1> QED BY <1>1, <1>2, <1>3, <1>4 DEF IInv, Sizing, Sized, KernelKnown

(* The pages of a finished section are those its sums counted.             *)
LEMMA NextSectionStep ==
    ASSUME IInv, NextSection
    PROVE  IInv'
<1> DEFINE s == Sections[sec]
<1>1. /\ pc = "map" /\ pc' = pc /\ Sized /\ KernelKnown /\ Sections' = Sections
      /\ sec <= Len(Sections) /\ sec' = sec + 1 /\ page' = 0
      /\ UNCHANGED <<mbi, kernel, sizeUpTo, wrapped, kernel_size, bss_size, pages, used>>
  BY DEF IInv, NextSection, Mapping, Sized, findVars, sizeVars, Sections
<1>2. ~wrapped => SizedInv'
  BY <1>1 DEF IInv, SizedInv, KernelKnown
<1>3. ASSUME ~wrapped
      PROVE  MappingInv'
  <2>1. MappingInv /\ SizedInv /\ sec \in 1..Len(Sections) /\ s \in SectionType /\ page \in Nat
    BY <1>1, <1>3 DEF IInv, MappingInv, KernelKnown
  <2> DEFINE A == AllUpTo(sizeUpTo, sec - 1)
             B == BssUpTo(sizeUpTo, sec - 1)
  <2>2. /\ A \in Nat /\ B \in Nat
        /\ AllUpTo(sizeUpTo, sec) = A + PagesOf(s)
        /\ BssUpTo(sizeUpTo, sec) = B + BssPages(s)
    BY <2>1 DEF SizedInv, PrefixSums, AllUpTo, BssUpTo
  <2>3. PagesOf(s) \in Nat /\ BssPages(s) \in Nat
    BY <2>1, AlignUpPages DEF BssPages
  <2>4. used <= 3 + A + B + page + (IF IsBss(s) THEN page ELSE 0) /\ page <= PagesOf(s)
    BY <2>1 DEF MappingInv
  <2> HIDE DEF A, B
  <2>5. used <= 3 + AllUpTo(sizeUpTo, sec) + BssUpTo(sizeUpTo, sec)
    BY <2>1, <2>2, <2>3, <2>4 DEF IInv, BssPages
  <2>6. (sec + 1) - 1 = sec /\ sec + 1 \in 1..(Len(Sections) + 1)
    BY <2>1
  <2>7. sec + 1 <= Len(Sections) => PagesOf(Sections[sec + 1]) \in Nat
    BY <2>1, <1>1, AlignUpPages DEF KernelKnown
  <2>8. AllUpTo(sizeUpTo, sec) \in Nat /\ BssUpTo(sizeUpTo, sec) \in Nat
    BY <2>2, <2>3
  <2> QED BY <1>1, <2>5, <2>6, <2>7, <2>8 DEF MappingInv, PagesOf, IInv
<1> QED BY <1>1, <1>2, <1>3 DEF IInv, Sizing, Sized, KernelKnown

(* The sums up to a section are at most those of the whole image.          *)
LEMMA WithinEstimate ==
    ASSUME IInv, pc = "map", ~wrapped
    PROVE  used + 2 <= pages
<1>1. MappingInv /\ SizedInv /\ KernelKnown /\ sec \in 1..(Len(Sections) + 1) /\ page \in Nat
      /\ used \in Nat /\ pages \in Nat
  BY DEF IInv, MappingInv, Sized
<1> DEFINE n == Len(Sections)
<1>2. /\ n \in Nat
      /\ \A k \in 0..n : /\ AllUpTo(sizeUpTo, k) \in Nat /\ BssUpTo(sizeUpTo, k) \in Nat
                         /\ AllUpTo(sizeUpTo, k) <= AllUpTo(sizeUpTo, n)
                         /\ BssUpTo(sizeUpTo, k) <= BssUpTo(sizeUpTo, n)
  BY <1>1 DEF SizedInv, PrefixSums, AllUpTo, BssUpTo, KernelKnown
<1>3. pages = 5 + AllUpTo(sizeUpTo, n) + BssUpTo(sizeUpTo, n)
  BY <1>1 DEF SizedInv
<1>4. CASE sec > n
  BY SMTT(60), <1>1, <1>2, <1>3, <1>4 DEF MappingInv
<1>5. CASE sec <= n
  <2> DEFINE s == Sections[sec]
             A == AllUpTo(sizeUpTo, sec - 1)
             B == BssUpTo(sizeUpTo, sec - 1)
             p == PagesOf(s)
             b == BssPages(s)
             extra == IF IsBss(s) THEN page ELSE 0
  <2>1. AllUpTo(sizeUpTo, sec) = A + p /\ BssUpTo(sizeUpTo, sec) = B + b
    BY <1>1, <1>2, <1>5 DEF SizedInv, PrefixSums, AllUpTo, BssUpTo
  <2>2. page <= p /\ extra <= b /\ extra \in Nat
    BY <1>1, <1>5 DEF MappingInv, BssPages
  <2>3. p \in Nat /\ b \in Nat
    BY <1>1, <1>5, AlignUpPages DEF BssPages, KernelKnown
  <2>4. used <= 3 + A + B + page + extra
    BY <1>1, <1>5 DEF MappingInv
  <2>5. sec \in 0..n /\ sec - 1 \in 0..n
    BY <1>1, <1>2, <1>5
  <2>6. A \in Nat /\ B \in Nat
    BY <2>5, <1>2
  <2>7. A + p <= AllUpTo(sizeUpTo, n) /\ B + b <= BssUpTo(sizeUpTo, n)
        /\ AllUpTo(sizeUpTo, n) \in Nat /\ BssUpTo(sizeUpTo, n) \in Nat
    <3>1. n \in 0..n
      BY <1>2
    <3> QED BY <2>1, <2>5, <1>2, <3>1
  <2> HIDE DEF A, B, p, b, extra
  <2> QED BY <2>2, <2>3, <2>4, <2>6, <2>7, <1>1, <1>3
<1> QED BY <1>1, <1>2, <1>4, <1>5

LEMMA FinishSteps ==
    ASSUME IInv, BuildFinish \/ EnterLongMode \/ Halted \/ UNCHANGED vars
    PROVE  IInv'
<1>1. CASE BuildFinish
  <2>1. /\ pc = "map" /\ pc' = "jump" /\ Sized /\ KernelKnown /\ Sections' = Sections
        /\ used' = used + 2
        /\ UNCHANGED <<mbi, kernel, sizeUpTo, wrapped, kernel_size, bss_size, pages>>
    BY <1>1 DEF IInv, BuildFinish, Sized, findVars, sizeVars, Sections
  <2>2. ~wrapped => SizedInv' /\ used' <= pages'
    BY <2>1, WithinEstimate DEF IInv, SizedInv, KernelKnown
  <2> QED BY <2>1, <2>2 DEF IInv, Sizing, Sized, KernelKnown
<1>2. CASE EnterLongMode
  <2>1. /\ pc = "jump" /\ pc' = "running" /\ Sized /\ KernelKnown /\ Sections' = Sections
        /\ UNCHANGED <<mbi, kernel, sizeUpTo, wrapped, kernel_size, bss_size, pages, used>>
    BY <1>2 DEF IInv, EnterLongMode, Sized, findVars, sizeVars, tableVars, Sections
  <2>2. ~wrapped => SizedInv'
    BY <2>1 DEF IInv, SizedInv, KernelKnown
  <2> QED BY <2>1, <2>2 DEF IInv, Sizing, Sized, KernelKnown
<1>3. CASE UNCHANGED vars
  BY <1>3 DEF vars, findVars, sizeVars, tableVars, IInv, Sizing, Sized, KernelKnown, SizingInv,
     SizedInv, MappingInv, Sections, PrefixSums, AllUpTo, BssUpTo, WillLoad, IsBss, LoadsFile
<1> QED BY <1>1, <1>2, <1>3 DEF Halted

-------------------------------------------------------------------------------
(* IInv is inductive.                                                      *)
THEOREM Inductive == Spec => []IInv
<1>1. IInv /\ [Next]_vars => IInv'
  BY FindSteps, EstimateStep, EstimateDoneStep, ReserveStep, BuildStartStep, MapPageStep,
     NextSectionStep, FinishSteps DEF Next, Step
<1> QED BY InitInv, <1>1, PTL DEF Spec

(* build_page_tables never takes more pages than                           *)
(* estimate_pages_needed_for_kernel counted, whatever the kernel image.    *)
THEOREM PagesSuffice == Spec => []PageTablesFit
<1>1. IInv => PageTablesFit
  <2> SUFFICES ASSUME IInv, ~wrapped PROVE used <= pages
    BY Zenon DEF PageTablesFit
  <2>1. CASE pc = "map"
    <3>1. used + 2 <= pages /\ used \in Nat /\ pages \in Nat
      BY <2>1, WithinEstimate DEF IInv
    <3> QED BY <3>1
  <2>2. CASE pc = "jump" \/ pc = "running"
    BY <2>2 DEF IInv
  <2>3. CASE pc \notin {"map", "jump", "running"}
    <3>1. used = 0 /\ pages \in Nat
      BY <2>3 DEF IInv
    <3> QED BY <3>1
  <2> QED BY <2>1, <2>2, <2>3
<1> QED BY <1>1, Inductive, PTL

-------------------------------------------------------------------------------
(* Where the reserved pages are.                                           *)

(* No module ends in the upper two gigabytes.  There the length that        *)
(* reserve_kernel_space computes for a region below the modules is so      *)
(* negative that it is positive when it is stored in an int.               *)
ModulesBelow2GB == \A j \in DOMAIN mbi.mods : AlignUp(mbi.mods[j].end) <= WORD \div 2

(* highest_module_address is the end of the last page with a module in it. *)
HighestInv ==
    /\ highest \in Nat
    /\ pc \in {"verify", "estimate", "reserve"} /\ ModulesBelow2GB =>
         /\ highest <= WORD \div 2 /\ AlignUp(highest) = highest
         /\ \A j \in DOMAIN mbi.mods : mbi.mods[j].end <= highest

ReservedInv == ModulesBelow2GB => ReservedIsFree

(* A set of numbers that is not empty has a least one.                     *)
LEMMA LeastNat ==
    ASSUME NEW T \in SUBSET Nat, T # {}
    PROVE  \E m \in T : \A k \in T : m <= k
<1>1. PICK m \in T : \A k \in T : <<k, m>> \notin OpToRel(<, Nat)
  BY WFMin, NatLessThanWellFounded, Zenon
<1>2. \A k \in T : ~(k < m)
  BY <1>1, Zenon DEF OpToRel
<1> QED BY <1>2

(* A bounded set has a greatest one, which is its Max.                     *)
LEMMA MaxIs ==
    ASSUME NEW T \in SUBSET Nat, T # {}, NEW b \in Nat, \A x \in T : x <= b
    PROVE  Max(T) \in T /\ \A x \in T : x <= Max(T)
<1> DEFINE D == {b - x : x \in T}
<1>1. D \in SUBSET Nat /\ D # {}
  <2>1. \A x \in T : b - x \in Nat
    OBVIOUS
  <2> QED BY <2>1
<1>2. PICK m \in D : \A k \in D : m <= k
  BY <1>1, LeastNat
<1>3. PICK x \in T : m = b - x
  OBVIOUS
<1>4. \A y \in T : x >= y
  <2> SUFFICES ASSUME NEW y \in T PROVE x >= y
    OBVIOUS
  <2>1. b - x <= b - y
    BY <1>2, <1>3
  <2> QED BY <2>1
<1>5. Max(T) \in T /\ \A y \in T : Max(T) >= y
  BY <1>4 DEF Max
<1> QED BY <1>5

(* Pages and the word: rounding, and the width of an address.              *)
LEMMA WordIs ==
    /\ PAGE \in Nat \ {0}
    /\ \E k \in Nat : k > 0 /\ WORD = PAGE * (4 * k)
    /\ WORD \in Nat /\ WORD > 0
<1>1. PAGE \in Nat \ {0} /\ ENTRIES \in Nat /\ ENTRIES > 0
  BY BootAssumption
<1>2. ENTRIES * ENTRIES \in Nat /\ ENTRIES * ENTRIES > 0
  BY <1>1
<1>3. WORD = PAGE * (4 * (ENTRIES * ENTRIES))
  BY <1>1, <1>2 DEF WORD, ONE_GIGABYTE
<1> QED BY <1>1, <1>2, <1>3, NoTruncation

(* Rounding down and up to a page, and rounding twice.                     *)
LEMMA AlignIs ==
    ASSUME NEW x \in Nat
    PROVE  /\ AlignDown(x) \in Nat /\ AlignDown(x) <= x /\ x < AlignDown(x) + PAGE
           /\ AlignUp(x) \in Nat /\ x <= AlignUp(x) /\ AlignUp(x) < x + PAGE
           /\ AlignUp(AlignUp(x)) = AlignUp(x)
           /\ \E k \in Nat : AlignDown(x) = k * PAGE
           /\ \E k \in Nat : AlignUp(x) = k * PAGE
<1>1. PAGE \in Nat /\ PAGE > 0
  BY WordIs
<1>2. ASSUME NEW y \in Nat
      PROVE  /\ y \div PAGE \in Nat /\ AlignDown(y) = (y \div PAGE) * PAGE
             /\ AlignDown(y) <= y /\ y < AlignDown(y) + PAGE /\ AlignDown(y) \in Nat
  <2>1. y = PAGE * (y \div PAGE) + (y % PAGE) /\ y % PAGE \in 0..(PAGE - 1) /\ y \div PAGE \in Nat
    BY <1>1
  <2> QED BY <1>1, <2>1 DEF AlignDown
<1>3. x + PAGE - 1 \in Nat
  BY <1>1
<1>4. x <= AlignUp(x) /\ AlignUp(x) \in Nat /\ AlignUp(x) < x + PAGE
  BY <1>1, <1>2, <1>3 DEF AlignUp
<1>5. \A k \in Nat : AlignUp(k * PAGE) = k * PAGE
  <2> SUFFICES ASSUME NEW k \in Nat PROVE AlignUp(k * PAGE) = k * PAGE
    OBVIOUS
  <2>1. k * PAGE \in Nat /\ (k * PAGE + (PAGE - 1)) \div PAGE = k
    BY <1>1
  <2> QED BY <1>1, <2>1 DEF AlignUp, AlignDown
<1>6. \E k \in Nat : AlignUp(x) = k * PAGE
  BY <1>2, <1>3 DEF AlignUp
<1> QED BY <1>2, <1>4, <1>5, <1>6

(* The greatest of the modules' ends.                                      *)
LEMMA ModulesHighest ==
    ASSUME IInv, ParseModules
    PROVE  HighestInv'
<1> DEFINE end(j) == mbi.mods[j].end
           T == {0} \cup {ModuleEnd(mbi.mods[j]) : j \in DOMAIN mbi.mods}
<1>1. highest' = Max(T) /\ mbi' = mbi
  BY DEF ParseModules
<1>2. ASSUME NEW j \in DOMAIN mbi.mods
      PROVE  /\ end(j) \in Nat /\ AlignUp(end(j)) \in Nat /\ end(j) <= AlignUp(end(j))
             /\ ModuleEnd(mbi.mods[j]) \in 0..WORD
             /\ AlignUp(end(j)) <= WORD \div 2 => ModuleEnd(mbi.mods[j]) = AlignUp(end(j))
  <2>1. end(j) \in Nat
    BY BootAssumption DEF IInv
  <2>2. AlignUp(end(j)) \in Nat /\ end(j) <= AlignUp(end(j))
    BY <2>1, AlignIs
  <2>3. ModuleEnd(mbi.mods[j]) = AlignUp(end(j)) % WORD
    BY DEF ModuleEnd, U32
  <2>4. \A x \in Nat : x % WORD \in 0..WORD /\ (x <= WORD \div 2 => x % WORD = x)
    BY WordIs
  <2> HIDE DEF end
  <2> QED BY <2>1, <2>2, <2>3, <2>4
<1>3. T \in SUBSET Nat /\ T # {} /\ \A x \in T : x <= WORD
  BY <1>2, WordIs
<1>4. Max(T) \in T /\ \A x \in T : x <= Max(T)
  BY <1>3, WordIs, MaxIs
<1>5. highest' \in Nat
  BY <1>1, <1>3, <1>4
<1>6. ASSUME ModulesBelow2GB
      PROVE  /\ highest' <= WORD \div 2 /\ AlignUp(highest') = highest'
             /\ \A j \in DOMAIN mbi.mods : end(j) <= highest'
  <2>1. \A j \in DOMAIN mbi.mods : ModuleEnd(mbi.mods[j]) = AlignUp(end(j))
    BY <1>2, <1>6 DEF ModulesBelow2GB
  <2>2. 0 <= WORD \div 2 /\ AlignUp(0) = 0
    BY WordIs DEF AlignUp, AlignDown
  <2>3. \A j \in DOMAIN mbi.mods : AlignUp(AlignUp(end(j))) = AlignUp(end(j))
    BY <1>2, AlignIs
  <2>4. \A x \in T : x <= WORD \div 2 /\ AlignUp(x) = x
    BY <1>6, <2>1, <2>2, <2>3 DEF ModulesBelow2GB
  <2>5. \A j \in DOMAIN mbi.mods : AlignUp(end(j)) <= Max(T)
    BY <1>4, <2>1
  <2> HIDE DEF T, end
  <2>6. \A j \in DOMAIN mbi.mods : end(j) <= Max(T)
    <3> SUFFICES ASSUME NEW j \in DOMAIN mbi.mods PROVE end(j) <= Max(T)
      OBVIOUS
    <3>1. end(j) \in Nat /\ AlignUp(end(j)) \in Nat /\ end(j) <= AlignUp(end(j)) /\ AlignUp(end(j)) <= Max(T)
      BY <1>2, <2>5
    <3>2. Max(T) \in Nat
      BY <1>3, <1>4
    <3> QED BY <3>1, <3>2
  <2> QED BY <1>1, <1>4, <2>4, <2>6
<1> QED BY <1>1, <1>5, <1>6 DEF HighestInv, ModulesBelow2GB

(* The quotient and the remainder are the only ones.                       *)
LEMMA ModIs ==
    ASSUME NEW w \in Nat, w > 0, NEW q \in Int, NEW t \in 0..(w - 1)
    PROVE  (w * q + t) % w = t
<1> DEFINE x == w * q + t
           r == x % w
           d == (x \div w) - q
<1>1. x \in Int /\ r \in 0..(w - 1) /\ x \div w \in Int /\ x = w * (x \div w) + r
  OBVIOUS
<1>2. d \in Int /\ w * d = t - r
  BY <1>1
<1> HIDE DEF d, r
<1>3. ~(d >= 1)
  <2>1. d >= 1 => w * d >= w
    BY <1>2
  <2> QED BY <1>1, <1>2, <2>1
<1>4. ~(d <= 0 - 1)
  <2>1. d <= 0 - 1 => w * d <= 0 - w
    BY <1>2
  <2> QED BY <1>1, <1>2, <2>1
<1>5. d = 0
  BY <1>2, <1>3, <1>4
<1>6. r = t
  BY <1>1, <1>2, <1>5
<1> QED BY <1>6 DEF r, x

(* Adding whole words changes no uint32_t.                                 *)
LEMMA WordsAway ==
    ASSUME NEW y \in Nat, NEW k \in Nat
    PROVE  U32(y + WORD * k) = U32(y) /\ U32(y) \in 0..(WORD - 1) /\ y = U32(y) + WORD * (y \div WORD)
<1>1. WORD \in Nat /\ WORD > 0
  BY WordIs
<1>2. /\ y % WORD \in 0..(WORD - 1) /\ y \div WORD \in Nat /\ y = WORD * (y \div WORD) + (y % WORD)
  BY <1>1
<1> DEFINE q == y \div WORD
           t == y % WORD
<1>3. y + WORD * k = WORD * (q + k) + t /\ q + k \in Int
  BY <1>1, <1>2
<1>4. (WORD * (q + k) + t) % WORD = t
  BY <1>1, <1>2, <1>3, ModIs
<1>5. y = t + WORD * q
  <2>1. WORD * q \in Int /\ t \in Int
    BY <1>1, <1>2
  <2> HIDE DEF q, t
  <2>2. y = WORD * q + t
    BY <1>2 DEF q, t
  <2> QED BY <2>1, <2>2
<1>6. U32(y) = t
  BY DEF U32
<1>7. U32(y + WORD * k) = t
  <2> HIDE DEF q, t
  <2> QED BY <1>3, <1>4 DEF U32
<1>8. t \in 0..(WORD - 1)
  BY <1>2
<1> HIDE DEF t
<1> QED BY <1>5, <1>6, <1>7, <1>8 DEF q

(* Rounding up goes by whole pages.                                        *)
LEMMA AlignUpPast ==
    ASSUME NEW x \in Nat, NEW m \in Nat
    PROVE  AlignUp(x + PAGE * m) = AlignUp(x) + PAGE * m
<1>1. PAGE \in Nat /\ PAGE > 0 /\ PAGE * m \in Nat
  BY WordIs
<1>2. PICK q \in Nat : AlignUp(x) = q * PAGE
  BY AlignIs
<1>3. PICK p \in Nat : AlignUp(x + PAGE * m) = p * PAGE
  <2> DEFINE y == x + PAGE * m
  <2>1. y \in Nat
    BY <1>1
  <2> HIDE DEF y
  <2>2. \E p \in Nat : AlignUp(y) = p * PAGE
    BY <2>1, AlignIs
  <2> QED BY <2>2 DEF y
<1>4. x <= q * PAGE /\ q * PAGE < x + PAGE
  <2>1. x <= AlignUp(x) /\ AlignUp(x) < x + PAGE
    BY AlignIs
  <2> QED BY <1>2, <2>1
<1>5. x + PAGE * m <= p * PAGE /\ p * PAGE < x + PAGE * m + PAGE
  <2> DEFINE y == x + PAGE * m
  <2>1. y \in Nat
    BY <1>1
  <2> HIDE DEF y
  <2>2. y <= AlignUp(y) /\ AlignUp(y) < y + PAGE
    BY <2>1, AlignIs
  <2>3. AlignUp(y) = p * PAGE
    BY <1>3 DEF y
  <2>4. y <= p * PAGE /\ p * PAGE < y + PAGE
    BY <2>2, <2>3
  <2> QED BY <2>4 DEF y
<1> DEFINE d == p - q - m
<1>6. d \in Int /\ PAGE * d = p * PAGE - q * PAGE - PAGE * m
  BY <1>1
<1>7. PAGE * d < PAGE /\ PAGE * d > 0 - PAGE
  <2> HIDE DEF d
  <2> QED BY <1>1, <1>4, <1>5, <1>6
<1> HIDE DEF d
<1>8. ~(d >= 1)
  <2>1. d >= 1 => PAGE * d >= PAGE
    BY <1>1, <1>6
  <2> QED BY <1>1, <1>6, <1>7, <2>1
<1>9. ~(d <= 0 - 1)
  <2>1. d <= 0 - 1 => PAGE * d <= 0 - PAGE
    BY <1>1, <1>6
  <2> QED BY <1>1, <1>6, <1>7, <2>1
<1>10. d = 0
  BY <1>6, <1>8, <1>9
<1>11. p * PAGE = q * PAGE + PAGE * m
  BY <1>1, <1>6, <1>10
<1> QED BY <1>2, <1>3, <1>11

(* The length of a region that fits is not more than what is there, and    *)
(* as many pages lie in it, above the modules, at the address of which     *)
(* page_table_start is what 32 bits hold.                                  *)
LEMMA FitLies ==
    ASSUME IInv, HighestInv, pc = "reserve", ModulesBelow2GB,
           NEW j \in DOMAIN mbi.map, RegionFits(mbi.map[j]),
           NEW a, a = U32(AlignUp(RegionBase(mbi.map[j])))
    PROVE  \E k \in Wraps :
             /\ InFreeRegion(a + k * WORD, pages) /\ ~OverlapsModule(a + k * WORD, pages)
             /\ MapBelow4GB => k = 0
<1> DEFINE e == mbi.map[j]
           from == IF e.base < highest THEN highest ELSE e.base
           bot == AlignUp(from)
           top == AlignDown(e.base + e.length)
           H == WORD \div 2
           n == bot \div WORD
<1>1. /\ e.base \in Nat /\ e.length \in Nat /\ e.base + e.length \in Nat
      /\ pages \in Nat /\ highest \in Nat /\ highest <= H /\ e.type = 1
      /\ pages < RegionLength(e) \div PAGE
  BY BootAssumption DEF IInv, HighestInv, RegionFits
<1>2. PAGE \in Nat /\ PAGE > 0 /\ WORD \in Nat /\ WORD > 0 /\ H \in Nat /\ WORD = 2 * H /\ 2 * PAGE <= H
  <2>1. PICK k \in Nat : k > 0 /\ WORD = PAGE * (4 * k)
    BY WordIs
  <2>2. PAGE * k \in Nat /\ PAGE <= PAGE * k /\ WORD = 4 * (PAGE * k)
    BY <2>1, WordIs
  <2> QED BY <2>2, WordIs
<1>3. from \in Nat /\ e.base <= from /\ highest <= from
  BY <1>1
<1>4. /\ bot \in Nat /\ from <= bot /\ bot < from + PAGE
      /\ top \in Nat /\ top <= e.base + e.length /\ e.base + e.length < top + PAGE
  <2> HIDE DEF from, e
  <2>1. bot \in Nat /\ from <= bot /\ bot < from + PAGE
    BY <1>3, AlignIs
  <2>2. top \in Nat /\ top <= e.base + e.length /\ e.base + e.length < top + PAGE
    BY <1>1, AlignIs
  <2> QED BY <2>1, <2>2
<1>5. RegionLength(e) = ((top - bot + H) % WORD) - H
  BY DEF RegionLength, S32
<1>6. from = e.base \/ (from = highest /\ bot = highest)
  <2>1. AlignUp(highest) = highest
    BY DEF HighestInv
  <2> QED BY <2>1
<1>7. a = U32(bot)
  <2>1. CASE e.base < highest
    BY <2>1 DEF RegionBase
  <2>2. CASE ~(e.base < highest)
    <3> DEFINE r == U32(e.base)
               k == e.base \div WORD
    <3>1. r \in Nat /\ k \in Nat /\ e.base = r + WORD * k
      <4>1. e.base \in Nat
        BY <1>1
      <4> HIDE DEF e
      <4>2. k \in Nat
        BY <1>2, <4>1
      <4>3. r \in 0..(WORD - 1) /\ e.base = r + WORD * (e.base \div WORD)
        BY <4>1, WordsAway
      <4>4. r \in Nat
        <5> HIDE DEF r
        <5> QED BY <1>2, <4>3
      <4>5. e.base = r + WORD * k
        BY <4>3
      <4> QED BY <4>2, <4>4, <4>5
    <3>2. PICK m \in Nat : WORD = PAGE * (4 * m)
      BY WordIs
    <3>3. (4 * m) * k \in Nat /\ WORD * k = PAGE * ((4 * m) * k)
      BY <1>2, <3>1, <3>2
    <3>4. RegionBase(e) = r /\ bot = AlignUp(r + WORD * k)
      BY <2>2, <3>1 DEF RegionBase
    <3> HIDE DEF r, k, e, bot
    <3>5. AlignUp(r + WORD * k) = AlignUp(r) + WORD * k
      BY <3>1, <3>3, AlignUpPast
    <3>6. AlignUp(r) \in Nat
      BY <3>1, AlignIs
    <3>7. U32(AlignUp(r) + WORD * k) = U32(AlignUp(r))
      BY <3>1, <3>6, WordsAway
    <3>8. a = U32(AlignUp(RegionBase(e)))
      BY DEF e
    <3> QED BY <3>4, <3>5, <3>7, <3>8
  <2> QED BY <2>1, <2>2
<1>8. RegionLength(e) \div PAGE > 0
  <2>1. RegionLength(e) \in Int
    BY <1>2, <1>4, <1>5
  <2>2. RegionLength(e) \div PAGE \in Int
    BY <1>2, <2>1
  <2> QED BY <1>1, <2>2
<1> HIDE DEF from, bot, top, H, e
<1>11. top - bot >= 0 - H
  <2>1. CASE from = e.base
    BY <1>1, <1>2, <1>4, <2>1
  <2>2. CASE from = highest /\ bot = highest
    BY <1>1, <1>2, <1>4, <2>2
  <2> QED BY <1>6, <2>1, <2>2
<1>12. RegionLength(e) > 0 /\ RegionLength(e) \in Int
  BY <1>2, <1>4, <1>5, <1>8
<1>13. RegionLength(e) <= top - bot
  <2>1. top - bot + H \in Nat
    BY <1>2, <1>4, <1>11
  <2>2. (top - bot + H) % WORD <= top - bot + H
    <3> DEFINE x == top - bot + H
    <3> HIDE DEF x
    <3>1. x \in Nat => x % WORD <= x
      BY <1>2
    <3> QED BY <2>1, <3>1 DEF x
  <2> QED BY <1>2, <1>4, <1>5, <2>1, <2>2
<1>14. bot < top
  BY <1>4, <1>12, <1>13
<1>15. pages * PAGE <= RegionLength(e)
  <2> DEFINE q == RegionLength(e) \div PAGE
  <2>1. q \in Nat /\ PAGE * q <= RegionLength(e)
    BY <1>2, <1>12
  <2> HIDE DEF q
  <2>2. pages < q
    BY <1>1 DEF q
  <2>3. PAGE * pages <= PAGE * q
    BY <1>1, <1>2, <2>1, <2>2
  <2> QED BY <1>1, <1>2, <1>12, <2>1, <2>3
<1>16. InFreeRegion(bot, pages)
  <2>1. pages * PAGE \in Nat
    BY <1>1, <1>2
  <2>2. e.base <= bot /\ bot + pages * PAGE <= e.base + e.length
    BY <1>1, <1>2, <1>3, <1>4, <1>12, <1>13, <1>15, <2>1
  <2> QED BY <1>1, <2>2 DEF InFreeRegion, e
<1>17. ~OverlapsModule(bot, pages)
  <2> SUFFICES ASSUME NEW k \in DOMAIN mbi.mods PROVE ~(bot < mbi.mods[k].end)
    BY DEF OverlapsModule
  <2>1. mbi.mods[k].end \in Nat /\ mbi.mods[k].end <= highest
    BY BootAssumption DEF IInv, HighestInv
  <2> QED BY <1>1, <1>3, <1>4, <2>1
<1>18. a + n * WORD = bot /\ n \in Nat
  <2>1. bot = U32(bot) + WORD * (bot \div WORD)
    BY <1>4, WordsAway
  <2>2. n \in Nat
    BY <1>2, <1>4
  <2>3. WORD * n = n * WORD
    BY <1>2, <2>2
  <2> QED BY <1>7, <2>1, <2>2, <2>3
<1>19. n \in Wraps
  <2>1. n <= (e.base + e.length) \div WORD
    <3> DEFINE y == e.base + e.length
               b == y \div WORD
    <3>1. y \in Nat /\ bot <= y
      BY <1>1, <1>4, <1>14
    <3> HIDE DEF y
    <3>2. b \in Nat /\ y < WORD * (b + 1)
      BY <1>2, <3>1
    <3>3. WORD * n <= bot
      BY <1>2, <1>4
    <3> HIDE DEF b, n
    <3>4. n >= b + 1 => WORD * n >= WORD * (b + 1)
      BY <1>2, <1>18, <3>2
    <3>5. WORD * (b + 1) \in Nat /\ WORD * n \in Nat
      BY <1>2, <1>18, <3>2
    <3>6. ~(n >= b + 1)
      BY <1>4, <3>1, <3>2, <3>3, <3>4, <3>5
    <3>7. n <= b
      BY <1>18, <3>2, <3>6
    <3> QED BY <3>7 DEF b, y
  <2> HIDE DEF n
  <2>2. (e.base + e.length) \div WORD \in Nat
    BY <1>1, <1>2
  <2>3. n \in 0..((e.base + e.length) \div WORD)
    BY <1>18, <2>1, <2>2
  <2> QED BY <2>3 DEF Wraps, e
<1>20. MapBelow4GB => n = 0
  <2>1. MapBelow4GB => e.base + e.length <= WORD
    BY DEF MapBelow4GB, e
  <2>2. MapBelow4GB => bot < WORD
    BY <1>1, <1>2, <1>4, <1>14, <2>1
  <2> QED BY <1>2, <1>4, <2>2
<1> HIDE DEF n
<1> QED BY <1>16, <1>17, <1>18, <1>19, <1>20

(* What is reserved stays as it was chosen.                                *)
LEMMA ReservedStep ==
    ASSUME IInv, HighestInv, ReservedInv, [Next]_vars
    PROVE  HighestInv' /\ ReservedInv'
<1>1. CASE ParseModules
  <2>1. ~Reserved'
    BY <1>1 DEF ParseModules, Reserved
  <2> QED BY <1>1, <2>1, ModulesHighest DEF ReservedInv, ReservedIsFree
<1>2. CASE ReserveSpace
  <2>1. UNCHANGED <<mbi, highest, pages>> /\ pc = "reserve" /\ pc' \in {"error", "tables"}
    BY <1>2 DEF ReserveSpace, findVars
  <2>2. HighestInv'
    BY <2>1 DEF HighestInv
  <2>3. CASE pc' = "error"
    BY <2>2, <2>3 DEF ReservedInv, ReservedIsFree, Reserved
  <2>4. CASE pc' = "tables"
    <3>1. PICK last \in DOMAIN mbi.map :
             RegionFits(mbi.map[last]) /\ page_table_start' = U32(AlignUp(RegionBase(mbi.map[last])))
      BY <1>2, <2>4 DEF ReserveSpace
    <3>2. ModulesBelow2GB =>
             \E k \in Wraps :
               /\ InFreeRegion(page_table_start' + k * WORD, pages)
               /\ ~OverlapsModule(page_table_start' + k * WORD, pages)
               /\ MapBelow4GB => k = 0
      BY <2>1, <3>1, FitLies
    <3>3. ModulesBelow2GB' => ModulesBelow2GB
      BY <2>1 DEF ModulesBelow2GB
    <3>4. ModulesBelow2GB => ReservedIsFree'
      BY <2>1, <3>2 DEF ReservedIsFree, Wraps, MapBelow4GB, InFreeRegion, OverlapsModule
    <3> QED BY <2>2, <3>3, <3>4 DEF ReservedInv
  <2> QED BY <2>1, <2>3, <2>4
<1>3. CASE EstimateDone
  <2>1. UNCHANGED <<mbi, highest>> /\ pc = "estimate" /\ pc' \in {"error", "reserve"}
    BY <1>3 DEF EstimateDone, findVars
  <2> QED BY <2>1 DEF HighestInv, ReservedInv, ReservedIsFree, Reserved, ModulesBelow2GB
<1>4. ASSUME UNCHANGED <<mbi, highest, pages, page_table_start>>,
             pc' \in {"verify", "estimate", "reserve"} => pc \in {"verify", "estimate", "reserve"},
             Reserved' => Reserved
      PROVE  HighestInv' /\ ReservedInv'
  BY <1>4 DEF HighestInv, ReservedInv, ReservedIsFree, ModulesBelow2GB, Wraps, MapBelow4GB, InFreeRegion, OverlapsModule
<1>5. CASE CheckMultiboot \/ ParseCmdline \/ VerifyElf \/ EstimateSection
  BY <1>4, <1>5 DEF CheckMultiboot, ParseCmdline, VerifyElf, EstimateSection, findVars, Reserved
<1>6. CASE BuildStart \/ MapPage \/ NextSection \/ BuildFinish \/ EnterLongMode
  BY <1>4, <1>6 DEF BuildStart, MapPage, NextSection, Mapping, BuildFinish, EnterLongMode, findVars, Reserved
<1>7. CASE Halted \/ UNCHANGED vars
  BY <1>4, <1>7 DEF Halted, vars, findVars, Reserved
<1> QED BY <1>1, <1>2, <1>3, <1>5, <1>6, <1>7 DEF Next, Step

(* What reserve_kernel_space chooses is free and holds no module, whatever  *)
(* the memory map, also above 4GB, the modules and the size of the kernel, *)
(* as long as the modules are below two gigabytes.  page_table_start is    *)
(* its address where all memory is below 4GB, and else the lower half of   *)
(* the address.                                                            *)
THEOREM ReservationSound == Spec => [](ModulesBelow2GB => ReservedIsFree)
<1>1. Init => HighestInv /\ ReservedInv
  BY DEF Init, HighestInv, ReservedInv, ReservedIsFree, Reserved
<1>2. IInv /\ HighestInv /\ ReservedInv /\ [Next]_vars => HighestInv' /\ ReservedInv'
  BY ReservedStep
<1>3. ReservedInv <=> (ModulesBelow2GB => ReservedIsFree)
  BY DEF ReservedInv
<1> QED BY <1>1, <1>2, <1>3, Inductive, PTL DEF Spec

===============================================================================
