----------------------------- MODULE MCMemBackend -----------------------------
(* MemBackendConvertor for TLC.                                            *)
EXTENDS MemBackendConvertor

=============================================================================
