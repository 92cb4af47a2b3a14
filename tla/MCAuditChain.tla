---------------------------- MODULE MCAuditChain ----------------------------
(***************************************************************************)
(* Instances of AuditChain for TLC.                                        *)
(***************************************************************************)
EXTENDS AuditChain, TLC

\* Processes, threads and contents are interchangeable: no invariant tells them
\* apart.
Symmetry == Permutations(Procs) \cup Permutations(Threads) \cup Permutations(Contents)
=============================================================================
