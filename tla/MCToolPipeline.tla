--------------------------- MODULE MCToolPipeline ---------------------------
(* ToolPipeline with two coroutines, a limit of one token on the coder's   *)
(* write_file, one replacement of its bucket, and tokens of every kind.    *)
EXTENDS ToolPipeline, TLC

CONSTANTS t1, t2

MCThreads == {t1, t2}
MCCosts == {1}
MCCalls == { [agent |-> "coder", tool |-> "write_file"],
             [agent |-> "coder", tool |-> "run_tests"],
             [agent |-> "coder", tool |-> "run_garak"],
             [agent |-> "auditor", tool |-> "run_garak"],
             [agent |-> "sec_offensive", tool |-> "offensive_probe"] }
MCLimitedCall == [agent |-> "coder", tool |-> "write_file"]
MCTokens == [exists : BOOLEAN, private : BOOLEAN, stamp : {0, 2, 3, 11}]
MCSymmetry == Permutations(MCThreads)
=============================================================================
