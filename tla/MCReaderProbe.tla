---------------------------- MODULE MCReaderProbe ----------------------------
(* Instances of ReaderProbe for TLC. *)
EXTENDS ReaderProbe
=============================================================================
