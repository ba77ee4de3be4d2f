---------------------------- MODULE MCAsyncLogging ----------------------------
(* Buffers of two lines and up to six lines, so that the spare buffer is   *)
(* used up and a third one is allocated; files change by size, by period   *)
(* and not at all.                                                         *)
EXTENDS AsyncLogging
=============================================================================
