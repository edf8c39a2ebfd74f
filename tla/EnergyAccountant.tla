-------------------------- MODULE EnergyAccountant --------------------------
(***************************************************************************)
(* lib/energy-accountant.js with the timer of daemon.js that feeds it: the *)
(* processor's energy counter, which wraps around, is sampled, and what    *)
(* was used since the last sample is shared out to applications by their   *)
(* CPU time.  Energy is in units of the counter; the shares are parts of   *)
(* TotalTicks, so that accounts are kept in units of 1 / TotalTicks of it. *)
(* One process to an application.                                          *)
(***************************************************************************)
EXTENDS Integers, Sequences, SequencesExt, FiniteSetsExt, LayerConstants

CONSTANTS Overflow,    \* RAPL_OVERFLOW, what the counter counts up to
          MaxApps,     \* MAX_APPS
          TotalTicks,  \* the CPU time of all processes
          MaxSpent     \* bound: energy the machine uses

ASSUME EnergyAssumption ==
  /\ Overflow \in Nat \ {0} /\ Overflow % 2 = 0
  /\ MaxApps \in Nat \ {0} /\ TotalTicks \in Nat \ {0} /\ MaxSpent \in Nat
  /\ IsFiniteSet(Apps)
  /\ None \notin Int

VARIABLES counter,  \* energy_uj
          prev,     \* _prevCounters.package, None before the first sample
          total,    \* _totals.package
          ledger,   \* _appJoules, in the order of the Map
          spent,    \* what the machine used since the first sample
          pending,  \* what of it since the last sample
          missed    \* an interval was too long, or used more than the counter shows
energyVars == <<counter, prev, total, ledger, spent, pending, missed>>

EnergyInit ==
  /\ counter = 0 /\ prev = None /\ total = 0 /\ ledger = <<>>
  /\ spent = 0 /\ pending = 0 /\ missed = FALSE

-----------------------------------------------------------------------------
\* _deltaUj: more than half of the range is taken for a misread.
\* A mutant does not notice that the counter wrapped around.
PlainDelta(before, now) == IF now - before > Overflow \div 2 THEN None ELSE now - before
DeltaUj(before, now) ==
  LET delta == IF now < before THEN now - before + Overflow ELSE now - before
  IN IF delta > Overflow \div 2 THEN None ELSE delta

\* An application's account grows, a new one is added at the end, and beyond
\* MaxApps the one added first goes.
Attribute(accounts, comm, joules) ==
  IF \E i \in DOMAIN accounts : accounts[i].comm = comm
  THEN [i \in DOMAIN accounts |->
          IF accounts[i].comm = comm THEN [accounts[i] EXCEPT !.joules = @ + joules]
                                     ELSE accounts[i]]
  ELSE LET grown == Append(accounts, [comm |-> comm, joules |-> joules])
       IN IF Len(grown) > MaxApps THEN Tail(grown) ELSE grown

Added(amounts) ==
  LET sum[n \in 0..Len(amounts)] == IF n = 0 THEN 0 ELSE sum[n - 1] + amounts[n]
  IN sum[Len(amounts)]

\* The applications get their part of the energy in the order of /proc, which
\* the model leaves open; times[c] is the CPU time of c so far, and a process
\* without any gets nothing.
Times(order) ==
  {t \in [Apps -> 0..TotalTicks] : Added([i \in DOMAIN order |-> t[order[i]]]) = TotalTicks}
SharedOut(delta, times, order) ==
  LET shared[n \in 0..Len(order)] ==
        IF n = 0 THEN ledger
        ELSE IF times[order[n]] = 0 THEN shared[n - 1]
        ELSE Attribute(shared[n - 1], order[n], delta * times[order[n]])
  IN shared[Len(order)]

\* sample().  A counter that cannot be read leaves everything for the next
\* one; of an interval too short or too long (300 s) nothing is accounted.
Account(delta) ==
  IF delta = None THEN UNCHANGED <<total, ledger>>
  ELSE /\ total' = total + delta * TotalTicks
       /\ \E order \in SetToSeqs(Apps) : \E times \in Times(order) :
            ledger' = SharedOut(delta, times, order)

SampleEnergy(inTime) ==
  /\ Account(IF prev # None /\ inTime THEN DeltaUj(prev, counter) ELSE None)
  /\ prev' = counter /\ pending' = 0
  /\ missed' = (missed \/ (prev # None /\ (~inTime \/ pending > Overflow \div 2)))
  /\ UNCHANGED <<counter, spent>>

\* The machine uses energy; before the first sample nobody looks.
Consume ==
  /\ spent < MaxSpent
  /\ counter' = (counter + 1) % Overflow
  /\ spent' = IF prev = None THEN spent ELSE spent + 1
  /\ pending' = IF prev = None THEN pending ELSE pending + 1
  /\ UNCHANGED <<prev, total, ledger, missed>>

EnergyNext == Consume \/ \E inTime \in BOOLEAN : SampleEnergy(inTime)

-----------------------------------------------------------------------------
EnergyTypeOK ==
  /\ counter \in 0..(Overflow - 1) /\ prev \in 0..(Overflow - 1) \cup {None}
  /\ total \in Nat /\ ledger \in Seq([comm : Apps, joules : Nat])
  /\ spent \in 0..MaxSpent /\ pending \in 0..MaxSpent /\ missed \in BOOLEAN

\* The total is never more than the machine used, and all of it up to the last
\* sample when no interval was unfit, however often the counter wrapped around
\* or could not be read; and the applications never have more than the total.
EnergyAccounted ==
  /\ total <= spent * TotalTicks
  /\ ~missed => total = (spent - pending) * TotalTicks
  /\ Added([i \in DOMAIN ledger |-> ledger[i].joules]) <= total
=============================================================================
