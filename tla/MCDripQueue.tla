----------------------------- MODULE MCDripQueue -----------------------------
EXTENDS DripQueue, TLC

\* Steps of one sequence, workers and addresses are interchangeable.
Symmetry == Permutations(CallStep) \cup Permutations(BankStep)
              \cup Permutations(Worker) \cup Permutations(Address)
=============================================================================
