------------------------ MODULE MCApplicationWorkflow ------------------------
EXTENDS ApplicationWorkflow, TLC

\* Requests are interchangeable: no operation, guard or property names one.
RequestSymmetry == Permutations(Request)

Everything == Operation

\* From intake to disbursement, each step through its own handler.
StepByStep == Operation \ {"none", "updateStatus", "requestDocuments", "expire"}
=============================================================================
