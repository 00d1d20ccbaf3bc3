----------------------------- MODULE MCExecutor -----------------------------
EXTENDS Executor, TLC

CONSTANTS b1, b2, t1, t2

\* Addresses are interchangeable.
Symmetry == Permutations(Addr)

\* One backend, two run_backend slots: a repeated spawn of one id.
OneBackend == [t \in Task |-> b1]

\* Two backends with one slot each.
OnePerBackend == (t1 :> b1) @@ (t2 :> b2)

\* Both keys fall into one shard of the DashMap.
OneShard == [b \in Backend |-> 0]
=============================================================================
