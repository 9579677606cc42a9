--------------------------- MODULE MCCrawlerPlan -----------------------------
(* Values of the constants of CrawlerPlan for the model checker. *)
EXTENDS CrawlerPlan, TLC

PlanSymmetry == Permutations(Executor) \cup Permutations(File)
=============================================================================
