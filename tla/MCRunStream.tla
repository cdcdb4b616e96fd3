---------------------------- MODULE MCRunStream ----------------------------
(* A small instance of RunStream: two workers that may be connected, plans *)
(* of at most two layers with at most two samples each.                    *)
EXTENDS RunStream
CONSTANTS w1, w2
=============================================================================
