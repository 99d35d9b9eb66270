------------------------------ MODULE Services ------------------------------
(***************************************************************************)
(* The services below the operations, side by side: the wire format, the    *)
(* two allocators, sending and the life of a job, global pointers, devices  *)
(* and function pointers.  They share no state that the properties tell     *)
(* apart (a job keeps the heaps of its processes itself), so a behaviour    *)
(* exercises one of them, chosen at the start, and the others stay idle.    *)
(***************************************************************************)
EXTENDS Serialization, SegmentAllocator, StartStop, GlobalPtr, Devices, Ccs

VARIABLE service     \* the service of this behaviour

segmentVars == <<seg, segHeld>>
serviceVars == <<service, ser, segmentVars, heapVars, amVars, gpVars, dvVars, ccsVars>>

(* no ranks, no calls *)
IdleJob == [nbhd |-> <<>>, npam |-> "always", upc |-> FALSE, env |-> <<0, 0>>, prog |-> <<>>]
IdleProgram == <<>>
NoFunctions == [loaded |-> <<CcsSentinel.lib>>, calls |-> <<>>, init |-> 0, enforce |-> FALSE,
                sends |-> [r \in CcsRanks |-> [t \in CcsThreads |-> <<>>]], opens |-> [r \in CcsRanks |-> {}]]

ServicesInit ==
    /\ service \in {"wire format", "segments", "shared heap", "job", "global pointers", "devices",
                    "function pointers"}
    /\ SerInit /\ SegInit /\ HeapInit /\ GpInit
    /\ JobStart(IF service = "job" THEN Jobs ELSE {IdleJob})
    /\ DvRun(IF service = "devices" THEN DvPrograms ELSE {IdleProgram})
    /\ CcsRun(IF service = "function pointers" THEN CcsJobs ELSE {NoFunctions})

WireStep ==
    /\ service = "wire format" /\ SerNext
    /\ UNCHANGED <<service, segmentVars, heapVars, amVars, gpVars, dvVars, ccsVars>>
SegmentStep ==
    /\ service = "segments" /\ SegNext
    /\ UNCHANGED <<service, ser, heapVars, amVars, gpVars, dvVars, ccsVars>>
HeapStep ==
    /\ service = "shared heap" /\ HeapNext
    /\ UNCHANGED <<service, ser, segmentVars, amVars, gpVars, dvVars, ccsVars>>
JobStep ==
    /\ service = "job" /\ JobNext
    /\ UNCHANGED <<service, ser, segmentVars, heapVars, gpVars, dvVars, ccsVars>>
PointerStep ==
    /\ service = "global pointers" /\ GpNext
    /\ UNCHANGED <<service, ser, segmentVars, heapVars, amVars, dvVars, ccsVars>>
DeviceStep ==
    /\ service = "devices" /\ DvNext
    /\ UNCHANGED <<service, ser, segmentVars, heapVars, amVars, gpVars, ccsVars>>

FunctionStep ==
    /\ service = "function pointers" /\ CcsNext
    /\ UNCHANGED <<service, ser, segmentVars, heapVars, amVars, gpVars, dvVars>>

ServicesNext ==
    WireStep \/ SegmentStep \/ HeapStep \/ JobStep \/ PointerStep \/ DeviceStep \/ FunctionStep

(* A rank of a job goes on: its threads are scheduled, and the loops of the *)
(* library call progress.                                                   *)
RankProgress(r) == r \in Ranks /\ Progress(r) /\ UNCHANGED <<service, ser, segmentVars, heapVars, gpVars, dvVars, ccsVars>>
RankOperation(r) == r \in Ranks /\ Operation(r) /\ UNCHANGED <<service, ser, segmentVars, heapVars, gpVars, dvVars, ccsVars>>

JobRanks == UNION {DOMAIN j.prog : j \in Jobs}
ServicesSpec ==
    /\ ServicesInit /\ [][ServicesNext]_serviceVars
    /\ \A r \in JobRanks : WF_serviceVars(RankProgress(r)) /\ WF_serviceVars(RankOperation(r))
=============================================================================
