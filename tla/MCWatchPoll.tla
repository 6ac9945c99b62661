----------------------------- MODULE MCWatchPoll -----------------------------
(* Every configuration matches every edital: the case in which they meet.  *)
EXTENDS WatchPoll

MatchAll == [c \in Configs |-> Editals]
=============================================================================
