----------------------------- MODULE MCOneShot -----------------------------
(* A small instance of OneShot for TLC.                                     *)
EXTENDS OneShot

MCGiven == <<2, 1, 2>>
=============================================================================
