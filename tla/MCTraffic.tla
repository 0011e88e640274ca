----------------------------- MODULE MCTraffic -----------------------------
(***************************************************************************)
(* Four single requests, paced or not, or three sessions of one to three   *)
(* turns, over two permits.                                                *)
(***************************************************************************)
EXTENDS Traffic

MCSessions == <<<<0, 1, 2>>, <<0, 2>>, <<0>>>>
=============================================================================
