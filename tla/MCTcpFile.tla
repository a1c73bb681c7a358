----------------------------- MODULE MCTcpFile -----------------------------
(***************************************************************************)
(* TcpFile for TLC: chunks of three sizes as in the source (16, 32 and 64  *)
(* KiB), a file of two chunks and a part of one, a size of two bytes.      *)
(***************************************************************************)
EXTENDS TcpFile

SevenBytes == <<11, 12, 13, 14, 15, 16, 17>>
=============================================================================
