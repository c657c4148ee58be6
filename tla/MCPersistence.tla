---------------------------- MODULE MCPersistence ----------------------------
(* The row of two blocks of two voxels, with its file.                       *)
EXTENDS MCBlockedArray, Persistence
==============================================================================
