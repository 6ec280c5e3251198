---------------------------- MODULE MCDemoServer ----------------------------
EXTENDS DemoServerProps, TLC

\* Instances, handlers and addresses are only ever compared for equality.
Symmetry == Permutations(Inst) \cup Permutations(Requests) \cup Permutations(IP)
=============================================================================
