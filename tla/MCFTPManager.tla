---------------------------- MODULE MCFTPManager ----------------------------
(***************************************************************************)
(* FTPManager with an empty file and one of three blocks, bursts and       *)
(* answers of two, sequence numbers that wrap soon, and a vehicle that     *)
(* gives out the session ids 0 and 1.                                      *)
(***************************************************************************)
EXTENDS FTPManager

SomeSizes == {0, 3}
SomeStarts == {65526}
=============================================================================
