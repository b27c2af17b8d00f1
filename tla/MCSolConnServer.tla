--------------------------- MODULE MCSolConnServer ---------------------------
(* An instance of SolConnServer for TLC.                                    *)
EXTENDS SolConnServer
=============================================================================
