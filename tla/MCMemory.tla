------------------------------- MODULE MCMemory --------------------------------
(***************************************************************************)
(* From the boot to a collection: the loader boots every multiboot record  *)
(* of MCBootstrap, and after a boot of one of them either the collector    *)
(* threads of three Capabilities meet, or the block allocator is used, or   *)
(* two Capabilities run threads and collect while the timer ticks.         *)
(* The parts share no state, and each is explored on its own.              *)
(***************************************************************************)
EXTENDS MCBootstrap, GCThreads, BlockAlloc, Timer

VARIABLE part       \* what is explored

loaderVars == vars
othersOfTimer == <<loaderVars, gcVars, baVars, part>>
memoryVars == <<loaderVars, gcVars, baVars, tmVars, part>>

(* Two collections by all; one with a Capability disabled.                 *)
AllCollect == [off |-> {}, collections |-> 2]
OneDisabled == [off |-> {2}, collections |-> 1]
Collections == {AllCollect, OneDisabled}
(* The next collection may start before this one has let all threads go.   *)
DisabledTwice == {[off |-> {2}, collections |-> 2]}

BootRecord == Record(<<>>, <<Module("Interlude", 16, 21, Image(TRUE, 9, <<Text(8, 2, 2)>>))>>, <<Low, Region(8, 56, 1)>>)

(* Where the Tasks of the timer's part are; in the other parts they all run. *)
Places == IF part = "timer" THEN {"idle", "running"} ELSE {"running"}

MemoryInit ==
    /\ part \in {"loader", "collector", "allocator", "timer"}
    /\ Init /\ (part # "loader" => mbi = BootRecord)
    /\ GCInit /\ (part # "collector" => cols.off = {})
    /\ BAInit
    /\ TimerStart(Places)

Booted(p) == part = p /\ pc = "running"
Boots == Step /\ UNCHANGED <<gcVars, baVars, tmVars, part>>
(* Bound: the second collection by all finds nothing beside the roots.     *)
RootsOnly == cols.off = {} /\ cols.left = 0
Collects ==
    /\ Booted("collector") /\ GCNext
    /\ RootsOnly => cols'.unseen >= cols.unseen
    /\ UNCHANGED <<loaderVars, baVars, tmVars, part>>
Allocates == Booted("allocator") /\ BANext /\ UNCHANGED <<loaderVars, gcVars, tmVars, part>>
Timed(A) == Booted("timer") /\ A /\ UNCHANGED othersOfTimer
Stops == Halted /\ UNCHANGED <<gcVars, baVars, tmVars, part>>

MemoryNext == Boots \/ Collects \/ Allocates \/ Timed(TimerNext) \/ Stops
MemorySpec ==
    /\ MemoryInit /\ [][MemoryNext]_memoryVars
    /\ WF_memoryVars(Boots)
    /\ WF_memoryVars(Timed(Fire)) /\ WF_memoryVars(Timed(TickStep)) /\ WF_memoryVars(Timed(IOManagerReturns))
    /\ \A c \in TimerCaps : WF_memoryVars(Timed(CapStep(c))) /\ SF_memoryVars(Timed(StopWorld(c)))
    /\ SF_memoryVars(Timed(SetYesInTime))
===============================================================================
