------------------------------- MODULE MCCpu -------------------------------
(***************************************************************************)
(* The pipeline, and the caches its IC and DC stages go through.  A        *)
(* behaviour explores one of them, its part, and leaves the other where it *)
(* began: the run is their union and not their product.                    *)
(***************************************************************************)
EXTENDS MCPipeline, Caches

VARIABLE part

cpu == <<part, vars, cachesVars>>

CpuInit == part \in {"pipeline", "cache"} /\ Init /\ CachesInit

PipelineStep == part = "pipeline" /\ UNCHANGED <<part, cachesVars>> /\ Next
CacheStep == part = "cache" /\ UNCHANGED <<part, vars>> /\ CachesNext

CpuNext == PipelineStep \/ CacheStep

CpuSpec == CpuInit /\ [][CpuNext]_cpu

=============================================================================
