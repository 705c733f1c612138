------------------------------ MODULE MCUploader ------------------------------
(***************************************************************************)
(* A job that creates a file and jobs that replace it.                     *)
(***************************************************************************)
EXTENDS DiskUploader, TLC
================================================================================
