------------------------------ MODULE MCPayroll ------------------------------
(* Small instances of Payroll for TLC.                                      *)
EXTENDS Payroll, TLC

\* Workers, assignment ids (UUIDs) and agencies are interchangeable.
Symmetry == Permutations(Workers) \cup Permutations(AssignmentIds)
              \cup Permutations(Agencies)

=============================================================================
