---------------------------- MODULE MCWorkerPool ----------------------------
(* Small instances of WorkerPool for TLC. *)
EXTENDS WorkerPool, TLC

\* Ctrl-C reaches every process of the terminal.
Terminal == {Procs}

\* "kill" reaches one process.
Single == {{p} : p \in Procs}

\* Workers and connections are interchangeable.
PoolSymmetry == Permutations(Workers) \cup Permutations(Clients)
=============================================================================
