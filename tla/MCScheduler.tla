---------------------------- MODULE MCScheduler ----------------------------
(* Two programs beside the initial and the idle thread.                    *)
EXTENDS SchedulerProperties
CONSTANTS w1, w2

MCCalls == [t \in Thread |->
    CASE t = Main -> {"create", "append", "halt"}
      [] t = w1   -> {"create", "remove", "halt", "load"}
      [] t = w2   -> {"remove", "load", "write", "read", "exit", "sleep"}
      [] OTHER    -> {}]
=============================================================================
