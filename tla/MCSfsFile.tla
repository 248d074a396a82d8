----------------------------- MODULE MCSfsFile -----------------------------
(* Two files on a small disk, long enough to need their indirect blocks. *)
EXTENDS SfsFile
============================================================================
