------------------------------ MODULE MCEngine ------------------------------
(* Catalogs for the instances of Engine, one for each question.             *)
EXTENDS Engine, TLC

Symmetric == Permutations(Procs)

\* A step that is backed up, one that leaves a receipt, a driver step, and a
\* driver step whose operation takes the lock again.
RecoveryKind     == <<"lossless", "evidence", "manual", "manual">>
RecoveryDecision == <<"auto", "auto", "prompt", "auto">>

\* Every kind of step and every decision, and a bound step between them.
CatalogKind     == <<"lossless", "check", "advisory", "lossless", "inapplicable",
                     "evidence", "manual">>
CatalogDecision == <<"prompt", "auto", "auto", "auto", "auto", "skip", "auto">>

AdvisoryKind     == <<"lossless", "advisory", "advisory", "evidence">>
AdvisoryDecision == <<"auto", "auto", "auto", "auto">>

DriverKind     == <<"lossless", "manual">>
TwoAuto        == <<"auto", "auto">>
=============================================================================
