------------------------------ MODULE MCDaemon ------------------------------
(* Finite instances of Daemon. *)
EXTENDS Daemon, TLC

CONSTANTS p1, p2

\* p1 and p2 are unrelated.
Unrelated == [p \in Pids |-> NoPid]

\* p2 is forked by p1.
Forking == [p \in Pids |-> IF p = p2 THEN p1 ELSE NoPid]

NoCommands == {}
SomeCommands == {<<"throttle", p1>>, <<"restore", p1>>, <<"boost", p2>>}

Symmetry == Permutations(Pids)
=============================================================================
