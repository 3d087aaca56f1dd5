------------------------------ MODULE MCBufIo ------------------------------
(* Three bytes to be read, up to four to be written, in calls that are     *)
(* smaller and larger than the size hint of two.                           *)
EXTENDS BufIo

MCSource == <<101, 102, 103>>
=============================================================================
