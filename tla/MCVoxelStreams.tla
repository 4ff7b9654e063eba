---------------------------- MODULE MCVoxelStreams ----------------------------
(* VoxelStreams on a small instance; the cfg gives the constants values.   *)
EXTENDS VoxelStreams
=============================================================================
