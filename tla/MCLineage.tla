----------------------------- MODULE MCLineage ------------------------------
(* Lineage for TLC: transactions and rows are interchangeable.              *)
EXTENDS Lineage, TLC

Symmetry == Permutations(Txs) \cup Permutations(Rows)
=============================================================================
