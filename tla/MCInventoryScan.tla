--------------------------- MODULE MCInventoryScan ---------------------------
(* InventoryScan for TLC: one program of Layer 0 only, one driver whose    *)
(* file has the same key, one piece of software found in files only; a     *)
(* path under the priority directories and one outside them.               *)
EXTENDS InventoryScan

CONSTANTS app, driver, tool, newtool, p1, p2
=============================================================================
