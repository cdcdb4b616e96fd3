---------------------------- MODULE MCPoolConfig ----------------------------
(* Small instances of PoolConfig: two worker ids, the capacity or one of   *)
(* them an engine's, and two or three request threads.                     *)
EXTENDS PoolConfig
CONSTANTS i1, i2, eng, t1, t2, t3
=============================================================================
