--------------------------- MODULE MCStartReloads ---------------------------
(* One source that is written again and again, and one page.                *)
EXTENDS StartReloads

CONSTANTS a, tab
=============================================================================
