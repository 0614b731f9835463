----------------------------- MODULE PageRefsMC -----------------------------
(* Small instances of PageRefs: every user page in one page table.           *)
EXTENDS PageRefs, TLC

CONSTANTS c1, c2, a, b, v1, v2, d1

OneTable == [v \in Va |-> d1]
\* CPUs and pages are interchangeable: no action or property names one.
Alike == Permutations(Page) \cup Permutations(CPU)
=============================================================================
