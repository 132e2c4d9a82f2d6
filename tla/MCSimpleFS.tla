----------------------------- MODULE MCSimpleFS -----------------------------
(***************************************************************************)
(* A disk of one inode block with two usable inodes, and data blocks that  *)
(* two files with indirect blocks can fill.                                *)
(***************************************************************************)
EXTENDS SimpleFS

=============================================================================
