---------------------------- MODULE MCOspfsImage ----------------------------
(* Model values for the run of OspfsImage: files that fill three blocks,   *)
(* and that need a doubly indirect block and end within one.               *)
EXTENDS OspfsImage, MCOspfs

MCSize == <<6, 9>>
ImageView == <<View, formatVars>>
=============================================================================
