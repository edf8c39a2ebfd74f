------------------------------ MODULE Rollback ------------------------------
(***************************************************************************)
(* rollback.js: the record RollbackManager keeps for each pid the daemon   *)
(* modified, and what recoverFromCrash does with the record of a daemon    *)
(* that died.                                                              *)
(*                                                                         *)
(* A start time identifies a process among those that ever had its pid.    *)
(* NoStart is the entry of a pid whose /proc/<pid>/stat could not be read  *)
(* when the entry was made.  An entry is created by the first trackProcess *)
(* of a pid and is never removed or refreshed while the daemon lives.      *)
(***************************************************************************)
EXTENDS Naturals, Actuator

CONSTANT MaxStart    \* bound: start times are 1..MaxStart

ASSUME MaxStartAssumption == MaxStart \in Nat \ {0}

NoStart == 0

Entries == [tracked : BOOLEAN,
            start   : 0..MaxStart,
            nice    : {"unset", "boost", "bg"},
            io      : {"unset", "boost", "bg"},
            oom     : BOOLEAN]

NoEntry == [tracked |-> FALSE, start |-> NoStart,
            nice |-> "unset", io |-> "unset", oom |-> FALSE]

\* The first trackProcess of a pid: start is NoStart when the pid is dead.
Track(entry, start) ==
  IF entry.tracked THEN entry
  ELSE [entry EXCEPT !.tracked = TRUE, !.start = start]

\* The trackProcess calls of _executeBoost.  Each records the value the daemon
\* has just written, not the one it replaced.
TrackBoost(entry, start, gameMode) ==
  LET e == Track(entry, start)
  IN  [e EXCEPT !.nice = IF gameMode THEN e.nice ELSE "boost",
                !.io   = "boost",
                !.oom  = e.oom \/ OomProtection]

\* The trackProcess calls of _executeThrottle.
TrackThrottle(entry, start) ==
  [Track(entry, start) EXCEPT !.nice = "bg", !.io = "bg"]

\* recoverFromCrash restores a pid it finds alive when the start time agrees,
\* and also when the entry has none.
SameProcess(entry, start) == entry.start \in {NoStart, start}

\* Without the test that a value was saved.
RecoveredUnchecked(attr, entry) ==
  [place |-> "base", nice |-> entry.nice, io |-> entry.io, oom |-> "zero"]

\* What recoverFromCrash writes: the saved nice and ionice, all cores or the
\* base cgroup, and oom_score_adj 0.
Recovered(attr, entry) ==
  [place |-> "base",
   nice  |-> IF entry.nice = "unset" THEN attr.nice ELSE entry.nice,
   io    |-> IF entry.io = "unset" THEN attr.io ELSE entry.io,
   oom   |-> IF entry.oom THEN "zero" ELSE attr.oom]
=============================================================================
