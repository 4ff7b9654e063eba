-------------------------- MODULE MCVoxelPipeline --------------------------
(* VoxelPipeline on small instances; the cfgs give the constants values.   *)
EXTENDS VoxelPipeline
=============================================================================
