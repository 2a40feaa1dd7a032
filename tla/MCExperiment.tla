---------------------------- MODULE MCExperiment ----------------------------
\* Values for the constants of Experiment that a configuration cannot spell.
EXTENDS Experiment

CONSTANTS board0, board1, board3

Others  == <<board0, board1>>
Nobody  == <<>>
\* The numbers of leader.sh: 0 and 1 are IPs, 3 is the leader itself.
Mixed   == <<board0, board3, board3, board1, board0>>
\* pause_order as it is committed, cut short.
OnlyOwn == <<board3, board3>>
=============================================================================
