----------------------------- MODULE MCBrowser ------------------------------
(* Small instances of Browser: a folder, a file, and an item to be made. *)
EXTENDS Browser
CONSTANTS dir1, file1, new1
=============================================================================
