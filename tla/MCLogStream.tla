---------------------------- MODULE MCLogStream ----------------------------
(* Small instances of LogStream for TLC; the constants are plain numbers.  *)
EXTENDS LogStream
=============================================================================
