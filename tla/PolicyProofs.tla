---------------------------- MODULE PolicyProofs ----------------------------
(***************************************************************************)
(* Proofs that PolicyEngine hands the governors back, that every policy    *)
(* that matched gets its entry in the audit log, and that an action that   *)
(* failed is undone: for whatever policy files, rules, profiles and        *)
(* interleavings of their actions, and although actions are awaited and    *)
(* profiles are taken back half way.                                       *)
(***************************************************************************)
EXTENDS PolicyEngine, ListLemmas, TLAPS

\* On every core what is captured is what the core had at first, and a core of
\* which nothing is captured still has it.
Traceable(m) ==
  /\ {"governor", "captured"} \subseteq DOMAIN m
  /\ \A c \in Cores :
       \/ m.captured[c] = InitialGovernor
       \/ m.captured[c] = None /\ m.governor[c] = InitialGovernor

\* After the end nothing is left that could act.
Quiet ==
  status = "destroyed" =>
    /\ todo = <<>> /\ jobs = <<>> /\ timers = <<>> /\ ~watch.on

Inv == Traceable(machine) /\ Quiet /\ GovernorHandedBack

LEMMA NoneIsNoGovernor == None # InitialGovernor
BY ExecutorAssumption

\* A change of another part of the machine.
LEMMA OtherParts ==
  ASSUME NEW m, Traceable(m), NEW f, f # "governor", f # "captured", NEW x
  PROVE  Traceable([m EXCEPT ![f] = x])
<1> DEFINE n == [m EXCEPT ![f] = x]
<1>1. DOMAIN n = DOMAIN m /\ n.governor = m.governor /\ n.captured = m.captured
  BY DEF Traceable
<1> QED
  BY <1>1 DEF Traceable

\* A change of the governors that leaves those alone of which nothing is captured.
LEMMA OtherGovernors ==
  ASSUME NEW m, Traceable(m), NEW g,
         \A c \in Cores : m.captured[c] = None => g[c] \in {m.governor[c], InitialGovernor}
  PROVE  Traceable([m EXCEPT !.governor = g])
<1> DEFINE n == [m EXCEPT !.governor = g]
<1>1. DOMAIN n = DOMAIN m /\ n.governor = g /\ n.captured = m.captured
  BY DEF Traceable
<1> QED
  BY <1>1 DEF Traceable

LEMMA CaptureKeeps ==
  ASSUME NEW m, Traceable(m), NEW cores
  PROVE  /\ Traceable(CaptureOriginals(m, cores))
         /\ \A c \in cores \cap Cores : CaptureOriginals(m, cores).captured[c] # None
<1> DEFINE n == CaptureOriginals(m, cores)
           captured == [c \in Cores |-> IF c \in cores /\ m.captured[c] = None
                                          THEN m.governor[c] ELSE m.captured[c]]
<1>1. DOMAIN n = DOMAIN m /\ n.governor = m.governor /\ n.captured = captured
  BY DEF CaptureOriginals, Traceable
<1>2. \A c \in Cores :
        captured[c] = IF c \in cores /\ m.captured[c] = None THEN m.governor[c] ELSE m.captured[c]
  OBVIOUS
<1> HIDE DEF captured, n
<1>3. Traceable(n)
  <2>1. ASSUME NEW c \in Cores
        PROVE  \/ n.captured[c] = InitialGovernor
               \/ n.captured[c] = None /\ n.governor[c] = InitialGovernor
    <3>1. CASE c \in cores /\ m.captured[c] = None
      BY <1>1, <1>2, <3>1, NoneIsNoGovernor DEF Traceable
    <3>2. CASE ~(c \in cores /\ m.captured[c] = None)
      BY <1>1, <1>2, <3>2 DEF Traceable
    <3> QED
      BY <3>1, <3>2
  <2> QED
    BY <1>1, <2>1 DEF Traceable
<1>4. \A c \in cores \cap Cores : n.captured[c] # None
  BY <1>1, <1>2, NoneIsNoGovernor DEF Traceable
<1> QED
  BY <1>3, <1>4 DEF n

LEMMA SetGovernorKeeps ==
  ASSUME NEW m, Traceable(m), NEW cores, NEW governor
  PROVE  Traceable(SetGovernor(m, cores, governor))
<1> DEFINE n == CaptureOriginals(m, cores)
           g == [c \in Cores |-> IF c \in cores THEN governor ELSE n.governor[c]]
<1>1. Traceable(n) /\ \A c \in cores \cap Cores : n.captured[c] # None
  BY CaptureKeeps
<1>2. \A c \in Cores : n.captured[c] = None => g[c] = n.governor[c]
  BY <1>1
<1>3. Traceable([n EXCEPT !.governor = g])
  <2> HIDE DEF n, g
  <2> QED
    BY <1>1, <1>2, OtherGovernors
<1> QED
  BY <1>3 DEF SetGovernor

LEMMA OriginalsKeep ==
  ASSUME NEW m, Traceable(m), NEW cores
  PROVE  Traceable([m EXCEPT !.governor = Originals(m, cores)])
<1>1. \A c \in Cores : m.captured[c] = None => Originals(m, cores)[c] = m.governor[c]
  BY DEF Originals
<1> QED
  BY <1>1, OtherGovernors

LEMMA PlaceKeeps ==
  ASSUME NEW m, Traceable(m), NEW pid, NEW where
  PROVE  Traceable(Place(m, pid, where).machine)
<1>1. Traceable([m EXCEPT !.place = [m.place EXCEPT ![pid] = where]])
  BY OtherParts
<1> QED
  BY <1>1 DEF Place, Done, Failed

\* One action, up to its first await.
LEMMA PerformKeeps ==
  ASSUME NEW m0, Traceable(m0), NEW action, NEW fields, NEW answer
  PROVE  Traceable(Perform(m0, action, fields, answer).machine)
<1> DEFINE m == Prepared(m0, action)
<1>1. Traceable(m)
  BY CaptureKeeps DEF Prepared
<1> HIDE DEF m
<1>2. Traceable(Done(m).machine) /\ Traceable(Failed(m).machine)
  BY <1>1 DEF Done, Failed
<1>3. \A cores, governor : Traceable(Done(SetGovernor(m, cores, governor)).machine)
  BY <1>1, SetGovernorKeeps DEF Done
<1>4. \A psi : Traceable(Done([m EXCEPT !.psi = psi]).machine)
  BY <1>1, OtherParts DEF Done
<1>5. \A pid, where : Traceable(Place(m, pid, where).machine)
  BY <1>1, PlaceKeeps
<1> QED
  BY <1>2, <1>3, <1>4, <1>5 DEF Perform, m

LEMMA RestoreKeeps ==
  ASSUME NEW m, Traceable(m), NEW snapshot
  PROVE  Traceable(RestoreSnapshot(m, snapshot))
<1>1. Traceable([m EXCEPT !.governor = Originals(m, snapshot.cores)])
  BY OriginalsKeep
<1>2. Traceable([m EXCEPT !.psi = snapshot.psi])
  BY OtherParts
<1> QED
  BY <1>1, <1>2 DEF RestoreSnapshot

LEMMA RestoreAllKeeps ==
  ASSUME NEW m, Traceable(m), NEW snapshots
  PROVE  Traceable(RestoreAll(m, snapshots))
<1>1. ASSUME NEW cores, NEW psi
      PROVE  Traceable([m EXCEPT !.governor = Originals(m, cores), !.psi = psi])
  <2> DEFINE n == [m EXCEPT !.governor = Originals(m, cores)]
  <2>1. Traceable(n)
    BY OriginalsKeep
  <2>2. Traceable([n EXCEPT !.psi = psi])
    <3> HIDE DEF n
    <3> QED
      BY <2>1, OtherParts
  <2>3. [m EXCEPT !.governor = Originals(m, cores), !.psi = psi] = [n EXCEPT !.psi = psi]
    OBVIOUS
  <2> QED
    BY <2>2, <2>3
<1> QED
  BY <1>1 DEF RestoreAll

\* The first part of execute(), and what every await leaves.
LEMMA ExecuteKeeps ==
  ASSUME Traceable(machine), NEW rule, NEW known, NEW fields, NEW answer, NEW alone
  PROVE  Traceable(Execute(rule, known, fields, answer, alone).machine)
<1>1. \A action : Traceable(Perform(machine, action, fields, answer).machine)
  BY PerformKeeps
<1> QED
  BY <1>1 DEF Execute

LEMMA ResumeKeeps ==
  ASSUME Traceable(machine), NEW job, NEW fields
  PROVE  Traceable(Resume(job, fields).machine)
<1>1. \A next : Traceable(Settle(job, next).machine)
  BY RestoreKeeps DEF Settle
<1>2. Traceable(Step(job).machine)
  BY RestoreAllKeeps DEF Step
<1>3. Traceable(Proceed(job, fields).machine)
  BY PerformKeeps DEF Proceed
<1> QED
  BY <1>1, <1>2, <1>3 DEF Resume

-----------------------------------------------------------------------------
LEMMA InitInv == Init => Inv
<1> SUFFICES ASSUME Init PROVE Inv
  OBVIOUS
<1>1. machine = InitMachine /\ status = "new"
  BY DEF Init
<1>2. Traceable(machine)
  BY <1>1 DEF InitMachine, Traceable
<1> QED
  BY <1>1, <1>2 DEF Inv, Quiet, GovernorHandedBack

\* Steps of the calls and microtasks of a callback: there are none after the end.
LEMMA ActionSteps ==
  ASSUME Inv, Call \/ ResumeJob \/ Audit
  PROVE  Inv'
<1>1. status # "destroyed" /\ status' = status
  BY DEF Inv, Quiet, Call, CallUpdate, CallStore, CallEmit, CallDelayed, CallRunAction,
         CallAwait, ResumeJob, Audit, Awaiting
<1>2. Traceable(machine')
  <2>1. CASE CallRunAction
    <3>1. PICK answer \in BOOLEAN :
            machine' = Execute(Head(todo).rule, profiles, store, answer, jobs = <<>>).machine
      BY <2>1 DEF CallRunAction
    <3> QED
      BY <3>1, ExecuteKeeps DEF Inv
  <2>2. CASE ResumeJob
    <3>1. machine' = Resume(Head(jobs), store).machine
      BY <2>2 DEF ResumeJob
    <3> QED
      BY <3>1, ResumeKeeps DEF Inv
  <2>3. CASE machine' = machine
    BY <2>3 DEF Inv
  <2> QED
    BY <2>1, <2>2, <2>3 DEF Call, CallUpdate, CallStore, CallEmit, CallDelayed, CallAwait, Audit
<1> QED
  BY <1>1, <1>2 DEF Inv, Quiet, GovernorHandedBack

\* The daemon's end.
LEMMA DestroyStep ==
  ASSUME Inv, Destroy
  PROVE  Inv'
<1> DEFINE g == [c \in Cores |-> IF machine.captured[c] = None THEN machine.governor[c]
                                 ELSE machine.captured[c]]
<1>1. Traceable(machine)
  BY DEF Inv
<1>2. g = [c \in Cores |-> InitialGovernor]
  BY <1>1, NoneIsNoGovernor DEF Traceable
<1>3. machine' = [machine EXCEPT !.governor = g]
  BY DEF Destroy, RestoreGovernors
<1>4. machine'.governor = [c \in Cores |-> InitialGovernor]
  BY <1>1, <1>2, <1>3 DEF Traceable
<1>5. Traceable(machine')
  <2>1. \A c \in Cores : g[c] = InitialGovernor
    BY <1>2
  <2> HIDE DEF g
  <2> QED
    BY <1>1, <1>3, <2>1, OtherGovernors
<1>6. todo' = <<>> /\ jobs' = <<>> /\ timers' = <<>> /\ ~watch'.on
  BY DEF Destroy, Running, Idle, TimersCleared, NotWatching
<1> QED
  BY <1>4, <1>5, <1>6 DEF Inv, Quiet, GovernorHandedBack

LEMMA NextInv ==
  ASSUME Inv, [Next]_vars
  PROVE  Inv'
<1>1. CASE Call \/ ResumeJob \/ Audit
  BY <1>1, ActionSteps
<1>2. CASE Destroy
  BY <1>2, DestroyStep
<1>3. CASE ConfigReload
  <2>1. status # "destroyed" /\ status' = status
    BY <1>3 DEF ConfigReload, Running
  <2>2. Traceable(machine')
    BY <1>3, OtherParts DEF ConfigReload, Inv
  <2> QED
    BY <2>1, <2>2 DEF Inv, Quiet, GovernorHandedBack
<1>4. ASSUME UNCHANGED machine, status' # "destroyed" PROVE Inv'
  BY <1>4 DEF Inv, Quiet, GovernorHandedBack
<1>5. CASE Start
  BY <1>4, <1>5 DEF Start
<1>6. CASE FastTick \/ Foreground \/ SlowTick \/ Advance
  BY <1>4, <1>6 DEF FastTick, Foreground, SlowTick, Advance, Running
<1>7. ASSUME UNCHANGED <<machine, status, jobs>>,
             status = "destroyed" => todo' = <<>> /\ timers' = <<>> /\ ~watch'.on
      PROVE  Inv'
  BY <1>7 DEF Inv, Quiet, GovernorHandedBack
<1>8. CASE RunImmediate
  BY <1>7, <1>8 DEF RunImmediate, Inv, Quiet
<1>9. CASE TimerFires
  <2>1. status # "destroyed"
    BY <1>9 DEF TimerFires, Inv, Quiet
  <2> QED
    BY <1>4, <1>9, <2>1 DEF TimerFires
<1>10. CASE EditFile
  <2>1. watch'.on = watch.on
    BY <1>10 DEF EditFile
  <2> QED
    BY <1>7, <1>10, <2>1 DEF EditFile, Inv, Quiet
<1>11. CASE BaseStat \/ Notice \/ Reload
  <2>1. status # "destroyed" /\ UNCHANGED <<machine, status>>
    BY <1>11 DEF BaseStat, Notice, Reload, Inv, Quiet
  <2> QED
    BY <1>4, <2>1
<1>12. CASE UNCHANGED vars
  BY <1>12 DEF vars, engineVars, Inv, Quiet, GovernorHandedBack
<1> QED
  BY <1>1, <1>2, <1>3, <1>5, <1>6, <1>8, <1>9, <1>10, <1>11, <1>12 DEF Next, Callback, Input

\* When the daemon has cleaned up, every core has the governor it had before.
THEOREM GovernorsAreHandedBack == Spec => []GovernorHandedBack
<1>1. Init => Inv
  BY InitInv
<1>2. Inv /\ [Next]_vars => Inv'
  BY NextInv
<1>3. Inv => GovernorHandedBack
  BY DEF Inv
<1> QED
  BY <1>1, <1>2, <1>3, PTL DEF Spec

-----------------------------------------------------------------------------
(***************************************************************************)
(* The audit log.  What has matched and is not in the log is a call, a     *)
(* timer or a job; so the proof counts, and for the count to mean anything *)
(* the queues must be finite sequences, the rules first of all: that the   *)
(* loops of validatePolicy and evaluateEvent build such sequences is       *)
(* proved by induction over the lists they run through.                    *)
(***************************************************************************)

\* The loop of validatePolicy.
LEMMA ValidRulesAreListed ==
  ASSUME NEW doc, Len(doc.rules) \in Nat
  PROVE  IsList(ValidRules(doc))
<1> DEFINE N == Len(doc.rules)
           After(k, before) == IF doc.rules[k].valid
                               THEN Append(before, NormalizeRule(doc.rules[k])) ELSE before
           Loop(n, f) == [k \in 0..n |-> IF k = 0 THEN <<>> ELSE After(k, f[k - 1])]
           Reached == {n \in Nat : \E f : f = Loop(n, f)}
<1>1. 0 \in Reached
  <2> DEFINE f == [k \in 0..0 |-> <<>>]
  <2>1. \A k \in 0..0 : k = 0
    OBVIOUS
  <2>2. f = Loop(0, f)
    BY <2>1
  <2> QED
    BY <2>2
<1>2. \A n \in Nat : n \in Reached => n + 1 \in Reached
  <2>1. ASSUME NEW n \in Nat, NEW f, f = Loop(n, f)
        PROVE  \E g : g = Loop(n + 1, g)
    <3> DEFINE value == After(n + 1, f[n])
               g == [k \in 0..(n + 1) |-> IF k = n + 1 THEN value ELSE f[k]]
    <3> HIDE DEF After, value
    <3>1. /\ \A k \in 0..n : g[k] = f[k]
          /\ \A k \in 1..n : g[k - 1] = f[k - 1]
          /\ g[n + 1] = value /\ g[(n + 1) - 1] = f[n]
      BY OneMoreTurn
    <3>2. g = [k \in 0..(n + 1) |-> g[k]]
      OBVIOUS
    <3> HIDE DEF g
    <3>3. \A k \in 0..(n + 1) : g[k] = IF k = 0 THEN <<>> ELSE After(k, g[k - 1])
      <4> TAKE k \in 0..(n + 1)
      <4>1. CASE k = n + 1
        BY <3>1, <4>1 DEF value
      <4>2. CASE k # n + 1
        <5>1. k \in 0..n /\ (k # 0 => k \in 1..n)
          BY <4>2
        <5> QED
          BY <2>1, <3>1, <5>1
      <4> QED
        BY <4>1, <4>2
    <3>4. g = Loop(n + 1, g)
      BY <3>2, <3>3
    <3> QED
      BY <3>4
  <2> HIDE DEF Loop
  <2> QED
    BY <2>1
<1>3. Nat \subseteq Reached
  <2> HIDE DEF Reached
  <2> QED
    BY <1>1, <1>2, Induct
<1>4. \E f : f = Loop(N, f)
  BY <1>3
<1> DEFINE taken == CHOOSE f : f = Loop(N, f)
<1>5. taken = Loop(N, taken)
  BY <1>4
<1>6. ValidRules(doc) = taken[N]
  BY Zenon DEF ValidRules
<1> DEFINE Listed == {n \in Nat : n <= N => IsList(taken[n])}
<1> HIDE DEF taken
<1>7. 0 \in Listed
  <2>1. taken[0] = <<>>
    BY <1>5
  <2> QED
    BY <2>1, EmptyList
<1>8. \A n \in Nat : n \in Listed => n + 1 \in Listed
  <2> SUFFICES ASSUME NEW n \in Nat, n + 1 <= N, IsList(taken[n])
               PROVE  IsList(taken[n + 1])
    OBVIOUS
  <2>1. n + 1 \in 0..N /\ n + 1 # 0 /\ (n + 1) - 1 = n
    OBVIOUS
  <2>2. taken[n + 1] = After(n + 1, taken[n])
    BY <1>5, <2>1
  <2> QED
    BY <2>2, LongerList
<1>9. Nat \subseteq Listed
  <2> HIDE DEF Listed
  <2> QED
    BY <1>7, <1>8, Induct
<1> QED
  BY <1>6, <1>9

\* The loop of evaluateEvent.
LEMMA MatchesAreListed ==
  ASSUME IsList(rules), NEW event, NEW fields
  PROVE  IsList(EvaluateEvent(event, fields).matches)
<1> DEFINE N == Len(rules)
           After(k, before) == EvaluateRule(rules[k], event, before, fields)
           Loop(n, f) == [k \in 0..n |-> IF k = 0 THEN Evaluation ELSE After(k, f[k - 1])]
           Reached == {n \in Nat : \E f : f = Loop(n, f)}
<1>0. N \in Nat
  BY ListFacts
<1>1. 0 \in Reached
  <2> DEFINE f == [k \in 0..0 |-> Evaluation]
  <2>1. \A k \in 0..0 : k = 0
    OBVIOUS
  <2>2. f = Loop(0, f)
    BY <2>1
  <2> QED
    BY <2>2
<1>2. \A n \in Nat : n \in Reached => n + 1 \in Reached
  <2>1. ASSUME NEW n \in Nat, NEW f, f = Loop(n, f)
        PROVE  \E g : g = Loop(n + 1, g)
    <3> DEFINE value == After(n + 1, f[n])
               g == [k \in 0..(n + 1) |-> IF k = n + 1 THEN value ELSE f[k]]
    <3> HIDE DEF After, value
    <3>1. /\ \A k \in 0..n : g[k] = f[k]
          /\ \A k \in 1..n : g[k - 1] = f[k - 1]
          /\ g[n + 1] = value /\ g[(n + 1) - 1] = f[n]
      BY OneMoreTurn
    <3>2. g = [k \in 0..(n + 1) |-> g[k]]
      OBVIOUS
    <3> HIDE DEF g
    <3>3. \A k \in 0..(n + 1) : g[k] = IF k = 0 THEN Evaluation ELSE After(k, g[k - 1])
      <4> TAKE k \in 0..(n + 1)
      <4>1. CASE k = n + 1
        BY <3>1, <4>1 DEF value
      <4>2. CASE k # n + 1
        <5>1. k \in 0..n /\ (k # 0 => k \in 1..n)
          BY <4>2
        <5> QED
          BY <2>1, <3>1, <5>1
      <4> QED
        BY <4>1, <4>2
    <3>4. g = Loop(n + 1, g)
      BY <3>2, <3>3
    <3> QED
      BY <3>4
  <2> HIDE DEF Loop
  <2> QED
    BY <2>1
<1>3. Nat \subseteq Reached
  <2> HIDE DEF Reached
  <2> QED
    BY <1>1, <1>2, Induct
<1>4. \E f : f = Loop(N, f)
  BY <1>3
<1> DEFINE turn == CHOOSE f : f = Loop(N, f)
<1>5. turn = Loop(N, turn)
  BY <1>4
<1>6. EvaluateEvent(event, fields) = turn[N]
  BY Zenon DEF EvaluateEvent
<1> DEFINE Listed == {n \in Nat : n <= N => IsList(turn[n].matches)}
<1> HIDE DEF turn
<1>7. 0 \in Listed
  <2>1. turn[0] = Evaluation
    BY <1>0, <1>5
  <2>2. turn[0].matches = <<>>
    BY <2>1 DEF Evaluation
  <2> QED
    BY <2>2, EmptyList
<1>8. \A n \in Nat : n \in Listed => n + 1 \in Listed
  <2> SUFFICES ASSUME NEW n \in Nat, n + 1 <= N, IsList(turn[n].matches)
               PROVE  IsList(turn[n + 1].matches)
    BY <1>0
  <2>1. n + 1 \in 0..N /\ n + 1 # 0 /\ (n + 1) - 1 = n
    BY <1>0
  <2>2. turn[n + 1] = After(n + 1, turn[n])
    BY <1>5, <2>1
  <2>3. \/ turn[n + 1] = turn[n]
        \/ turn[n + 1].matches = Append(turn[n].matches, rules[n + 1])
    BY <2>2 DEF EvaluateRule
  <2>4. IsList(Append(turn[n].matches, rules[n + 1]))
    BY LongerList
  <2> QED
    BY <2>3, <2>4
<1>9. Nat \subseteq Listed
  <2> HIDE DEF Listed
  <2> QED
    BY <1>7, <1>8, Induct
<1> QED
  BY <1>0, <1>6, <1>9

LEMMA RulesAreListed ==
  ASSUME NEW doc, Len(doc.rules) \in Nat
  PROVE  IsList(InForce(doc))
<1> DEFINE list == SubSeq(ValidRules(doc), 1, IF Len(ValidRules(doc)) > MaxRules
                                              THEN MaxRules ELSE Len(ValidRules(doc)))
<1>1. IsList(ValidRules(doc)) /\ Len(ValidRules(doc)) \in Nat
  BY ValidRulesAreListed, ListFacts
<1>2. IsList(list)
  <2>1. (IF Len(ValidRules(doc)) > MaxRules THEN MaxRules ELSE Len(ValidRules(doc))) \in Int
    BY <1>1, RuleAssumption
  <2> QED
    BY <1>1, <2>1, PartOfList
<1> HIDE DEF list
<1>3. Len(list) \in Nat /\ DOMAIN list = 1..Len(list)
  BY <1>2, ListFacts
<1>4. Sorted(list) = [k \in 1..Len(list) |-> Sorted(list)[k]]
  <2> DEFINE Before(i, j) ==
               \/ list[i].priority > list[j].priority
               \/ list[i].priority = list[j].priority /\ i < j
             Ranked(k) == CHOOSE j \in DOMAIN list :
                            Cardinality({i \in DOMAIN list : Before(i, j)}) = k - 1
             sorted == [k \in DOMAIN list |-> list[Ranked(k)]]
  <2>1. Sorted(list) = sorted
    BY Zenon DEF Sorted
  <2> HIDE DEF Ranked
  <2>2. sorted = [k \in 1..Len(list) |-> sorted[k]]
    BY <1>3
  <2> QED
    BY <2>1, <2>2
<1>5. IsList(Sorted(list))
  BY <1>3, <1>4, ListOf
<1> QED
  BY <1>5 DEF InForce, list

-----------------------------------------------------------------------------
\* The events of an update of the sources, if the sets of processes are finite.
LEMMA UpdatesAreListed ==
  ASSUME NEW item, item.call \in Updates,
         "pids" \in DOMAIN prev, prev.pids = Undefined \/ IsFiniteSet(prev.pids),
         item.call = "processes" => IsFiniteSet(item.arg)
  PROVE  /\ IsList(Updated(item).events)
         /\ "pids" \in DOMAIN Updated(item).prev
         /\ Updated(item).prev.pids = Undefined \/ IsFiniteSet(Updated(item).prev.pids)
<1> DEFINE u == Updated(item)
           Known(f) == "pids" \in DOMAIN f /\ (f.pids = Undefined \/ IsFiniteSet(f.pids))
           Good(v) == IsList(v.events) /\ Known(v.prev)
<1>1. \A x, y : IsList(<<x>>) /\ IsList(<<x, y>>)
  BY SingleList, PairList
<1>2. \A condition, s : IsList(s) => IsList(If(condition, s))
  BY EmptyList DEF If
<1>3. \A s, t : IsList(s) /\ IsList(t) => IsList(s \o t)
  BY JoinedList
<1>4. \A f, p, s : Known(p) /\ IsList(s) => Good(Update(f, p, s))
  BY DEF Update
<1>5. \A x, y : Known([prev EXCEPT !.battery = x]) /\ Known([prev EXCEPT !.temp = x])
                /\ Known([prev EXCEPT !.fg = x]) /\ Known([prev EXCEPT !.cpu = x, !.stress = y])
  OBVIOUS
<1>6. Good(NoUpdate)
  BY <1>4, EmptyList DEF NoUpdate
<1>7. SUFFICES Good(u)
  OBVIOUS
<1> HIDE DEF Known, Good
<1>8. CASE item.call = "battery"
  <2> DEFINE new == item.arg
             old == prev.battery
             low(b) == b.onBattery /\ b.capacity <= BatteryLow
             level == "capacity" :> new.capacity
             switched == IF new.onBattery
                         THEN <<Event("onAcUnplugged", level), Event("onBatteryDischarging", level)>>
                         ELSE <<Event("onAcPlugged", level), Event("onBatteryCharging", level)>>
             lowered == <<Event("onBatteryLow", "level" :> new.capacity)>>
             events == If(old # Undefined /\ old.onBattery # new.onBattery, switched)
                       \o If(low(new) /\ ~(old # Undefined /\ low(old)), lowered)
  <2>1. u = UpdateBattery(new)
    BY <1>8 DEF Updated
  <2>2. \/ u = NoUpdate
        \/ u = Update("battery.capacity" :> new.capacity @@ "battery.plugged" :> ~new.onBattery,
                      [prev EXCEPT !.battery = new], events)
    BY <2>1, Zenon DEF UpdateBattery
  <2>3. IsList(switched) /\ IsList(lowered)
    BY <1>1
  <2>4. IsList(events)
    <3> HIDE DEF switched, lowered
    <3> QED
      BY <2>3, <1>2, <1>3
  <2> HIDE DEF events
  <2> QED
    BY <2>2, <2>4, <1>4, <1>5, <1>6
<1>9. CASE item.call = "thermal"
  <2>1. u = UpdateThermal(item.arg)
    BY <1>9 DEF Updated
  <2> QED
    BY <2>1, <1>1, <1>2, <1>4, <1>5, <1>6 DEF UpdateThermal
<1>10. CASE item.call = "pressure"
  <2> DEFINE threshold == machine.psi.warn
             cpu == item.arg.cpu
             known == cpu # Undefined
             was == prev.cpu >= threshold
             high == cpu >= threshold
             events == If(known /\ high /\ ~was, <<Event("onCpuHigh", "pressure" :> cpu)>>)
                       \o If(known /\ ~high /\ was, <<Event("onCpuNormal", "pressure" :> cpu)>>)
                       \o If(item.arg.stress # prev.stress,
                             <<Event("onStressChanged", "to" :> item.arg.stress)>>)
             left == [prev EXCEPT !.cpu = IF known THEN cpu ELSE @, !.stress = item.arg.stress]
  <2>1. u = UpdatePressure(cpu, item.arg.stress, threshold)
    BY <1>10 DEF Updated
  <2>2. u = Update(IF known THEN "cpu.pressure" :> cpu ELSE NoFields, left, events)
    BY <2>1, Zenon DEF UpdatePressure
  <2>3. IsList(events)
    BY <1>1, <1>2, <1>3
  <2>4. Known(left)
    BY <1>5
  <2> HIDE DEF events, left
  <2> QED
    BY <2>2, <2>3, <2>4, <1>4
<1>11. CASE item.call = "foreground"
  <2>1. u = UpdateForeground(item.arg)
    BY <1>11 DEF Updated
  <2> QED
    BY <2>1, <1>1, <1>4, <1>5, <1>6 DEF UpdateForeground
<1>12. CASE item.call = "processes"
  <2>1. u = UpdateProcesses(item.arg) /\ IsFiniteSet(item.arg)
    BY <1>12 DEF Updated
  <2> DEFINE pids == item.arg
             known == prev.pids
             about(name, set) ==
               [i \in 1..Cardinality(set) |-> Event(name, "pid" :> SetToSeq(set)[i])]
             events == about("onProcessStarted", pids \ known)
                         \o about("onProcessExited", known \ pids)
  <2>2. \A name, set : IsFiniteSet(set) => IsList(about(name, set))
    <3> SUFFICES ASSUME NEW name, NEW set, IsFiniteSet(set) PROVE IsList(about(name, set))
      OBVIOUS
    <3> DEFINE E(i) == Event(name, "pid" :> SetToSeq(set)[i])
               n == Cardinality(set)
               f == [i \in 1..n |-> E(i)]
    <3>1. n \in Nat
      BY FS_CardinalityType
    <3> HIDE DEF E, n
    <3>2. f = [i \in 1..n |-> f[i]]
      OBVIOUS
    <3>3. IsList(f)
      <4> HIDE DEF f
      <4> QED
        BY <3>1, <3>2, ListOf
    <3> QED
      BY <3>3 DEF E, n
  <2> HIDE DEF about
  <2>3. known # Undefined => IsList(events)
    <3> SUFFICES ASSUME known # Undefined PROVE IsList(events)
      OBVIOUS
    <3>1. IsFiniteSet(pids \ known) /\ IsFiniteSet(known \ pids)
      BY <2>1, FS_Difference
    <3> QED
      BY <3>1, <2>2, <1>3
  <2>4. IsList(If(known # Undefined, events))
    BY <2>3, EmptyList DEF If
  <2>5. /\ u.events = If(known # Undefined, events)
        /\ u.prev = [prev EXCEPT !.pids = pids]
    <3>1. u = [Update(NoFields, [prev EXCEPT !.pids = pids], If(known # Undefined, events))
                 EXCEPT !.late = "processes.count" :> Cardinality(pids)]
      BY <2>1 DEF UpdateProcesses, about
    <3> QED
      BY <3>1 DEF Update
  <2>6. Known(u.prev)
    BY <2>1, <2>5 DEF Known
  <2> QED
    BY <2>4, <2>5, <2>6 DEF Good
<1> QED
  BY <1>8, <1>9, <1>10, <1>11, <1>12 DEF Updates
-----------------------------------------------------------------------------
\* The calls that end in a record of the audit log.
RunCalls == {"match", "run", "await"}
ToRun(s) == {i \in DOMAIN s : s[i].call \in RunCalls}
Count(s) == Cardinality(ToRun(s))

LEMMA CountIsNumber ==
  ASSUME NEW s, IsList(s)
  PROVE  IsFiniteSet(ToRun(s)) /\ Count(s) \in Nat
<1>1. IsFiniteSet(1..Len(s)) /\ ToRun(s) \in SUBSET (1..Len(s))
  BY ListFacts, FS_Interval DEF ToRun
<1>2. IsFiniteSet(ToRun(s))
  BY <1>1, FS_Subset
<1> QED
  BY <1>2, FS_CardinalityType DEF Count

LEMMA CountNone ==
  ASSUME NEW s, \A i \in DOMAIN s : s[i].call \notin RunCalls
  PROVE  Count(s) = 0
<1>1. ToRun(s) = {}
  BY DEF ToRun
<1> QED
  BY <1>1, FS_EmptySet DEF Count

LEMMA CountAll ==
  ASSUME NEW s, IsList(s), \A i \in DOMAIN s : s[i].call \in RunCalls
  PROVE  Count(s) = Len(s)
<1>1. ToRun(s) = 1..Len(s) /\ Len(s) \in Nat
  BY ListFacts DEF ToRun
<1>2. Cardinality(1..Len(s)) = Len(s)
  <2>1. 1 \in Int /\ Len(s) \in Int /\ (IF 1 > Len(s) THEN 0 ELSE Len(s) - 1 + 1) = Len(s)
    BY <1>1
  <2> QED
    BY <2>1, FS_Interval
<1> QED
  BY <1>1, <1>2 DEF Count

LEMMA CountSingle ==
  ASSUME NEW x
  PROVE  Count(<<x>>) = IF x.call \in RunCalls THEN 1 ELSE 0
<1>1. IsList(<<x>>) /\ Len(<<x>>) = 1 /\ DOMAIN <<x>> = {1} /\ <<x>>[1] = x
  BY SingleList
<1>2. CASE x.call \in RunCalls
  BY <1>1, <1>2, CountAll
<1>3. CASE x.call \notin RunCalls
  BY <1>1, <1>3, CountNone
<1> QED
  BY <1>2, <1>3

LEMMA CountJoined ==
  ASSUME NEW s, IsList(s), NEW t, IsList(t)
  PROVE  Count(s \o t) = Count(s) + Count(t)
<1> DEFINE moved == {i + Len(s) : i \in ToRun(t)}
<1>1. /\ Len(s) \in Nat /\ Len(t) \in Nat
      /\ DOMAIN s = 1..Len(s) /\ DOMAIN t = 1..Len(t)
  BY ListFacts
<1>2. /\ DOMAIN (s \o t) = 1..(Len(s) + Len(t))
      /\ \A i \in 1..Len(s) : (s \o t)[i] = s[i]
      /\ \A i \in 1..Len(t) : (s \o t)[i + Len(s)] = t[i]
  BY JoinedList
<1>3. ToRun(s \o t) = ToRun(s) \cup moved
  <2>1. ASSUME NEW i \in ToRun(s \o t) PROVE i \in ToRun(s) \cup moved
    <3>1. CASE i \in 1..Len(s)
      BY <1>1, <1>2, <2>1, <3>1 DEF ToRun
    <3>2. CASE i \notin 1..Len(s)
      <4>1. i - Len(s) \in 1..Len(t) /\ i = (i - Len(s)) + Len(s)
        BY <1>1, <1>2, <2>1, <3>2 DEF ToRun
      <4>2. (s \o t)[i] = t[i - Len(s)]
        BY <1>2, <4>1
      <4>3. i - Len(s) \in ToRun(t)
        BY <1>1, <2>1, <4>1, <4>2 DEF ToRun
      <4> QED
        BY <4>1, <4>3
    <3> QED
      BY <3>1, <3>2
  <2>2. ASSUME NEW i \in ToRun(s) PROVE i \in ToRun(s \o t)
    BY <1>1, <1>2, <2>2 DEF ToRun
  <2>3. ASSUME NEW i \in ToRun(t) PROVE i + Len(s) \in ToRun(s \o t)
    <3>1. i \in 1..Len(t) /\ i + Len(s) \in 1..(Len(s) + Len(t))
      BY <1>1, <2>3 DEF ToRun
    <3> QED
      BY <1>2, <2>3, <3>1 DEF ToRun
  <2> QED
    BY <2>1, <2>2, <2>3
<1>4. ToRun(s) \cap moved = {}
  BY <1>1 DEF ToRun
<1>5. IsFiniteSet(ToRun(s)) /\ IsFiniteSet(ToRun(t)) /\ Count(s) \in Nat /\ Count(t) \in Nat
  BY CountIsNumber
<1>6. ToRun(t) \in SUBSET Int
  BY <1>1 DEF ToRun
<1>7. IsFiniteSet(moved) /\ Cardinality(moved) = Count(t)
  <2>1. Len(s) \in Int
    BY <1>1
  <2>2. Cardinality(ToRun(t)) = Count(t)
    BY DEF Count
  <2> QED
    BY <1>5, <1>6, <2>1, <2>2, MovedNumbers
<1> HIDE DEF moved
<1>8. Cardinality(ToRun(s) \cup moved)
        = Cardinality(ToRun(s)) + Cardinality(moved) - Cardinality(ToRun(s) \cap moved)
  BY <1>5, <1>7, FS_Union
<1>9. Cardinality(ToRun(s) \cap moved) = 0
  BY <1>4, FS_EmptySet
<1> QED
  BY <1>3, <1>5, <1>7, <1>8, <1>9 DEF Count

\* A stack of calls; what a scan has found is a finite set.
Calls(s) ==
  /\ IsList(s)
  /\ \A i \in DOMAIN s : s[i].call = "processes" => IsFiniteSet(s[i].arg)

Ledger ==
  /\ IsList(rules) /\ Calls(todo) /\ IsList(jobs) /\ IsList(timers)
  /\ "pids" \in DOMAIN prev /\ (prev.pids = Undefined \/ IsFiniteSet(prev.pids))
  /\ file \in Documents
  /\ status = "new" => todo = <<>> /\ jobs = <<>> /\ timers = <<>> /\ ~watch.on
  /\ owed = Count(todo) + Len(timers) + Len(jobs)

LEMMA LedgerIsComplete == Ledger => AuditComplete
BY Zenon DEF Ledger, AuditComplete, Count, ToRun, RunCalls

LEMMA NoCalls == Calls(<<>>) /\ Count(<<>>) = 0
BY EmptyList, CountNone DEF Calls

LEMMA OneCall ==
  ASSUME NEW x, x.call = "processes" => IsFiniteSet(x.arg)
  PROVE  Calls(<<x>>)
BY SingleList DEF Calls

LEMMA JoinedCalls ==
  ASSUME NEW s, Calls(s), NEW t, Calls(t)
  PROVE  Calls(s \o t) /\ Count(s \o t) = Count(s) + Count(t)
<1>1. /\ IsList(s) /\ IsList(t)
      /\ Len(s) \in Nat /\ Len(t) \in Nat
      /\ DOMAIN s = 1..Len(s) /\ DOMAIN t = 1..Len(t)
  BY ListFacts DEF Calls
<1>2. /\ IsList(s \o t)
      /\ DOMAIN (s \o t) = 1..(Len(s) + Len(t))
      /\ \A i \in 1..Len(s) : (s \o t)[i] = s[i]
      /\ \A i \in 1..Len(t) : (s \o t)[i + Len(s)] = t[i]
  BY <1>1, JoinedList
<1>3. ASSUME NEW i \in DOMAIN (s \o t), (s \o t)[i].call = "processes"
      PROVE  IsFiniteSet((s \o t)[i].arg)
  <2>1. CASE i \in 1..Len(s)
    BY <1>1, <1>2, <1>3, <2>1 DEF Calls
  <2>2. CASE i \notin 1..Len(s)
    <3>1. i - Len(s) \in 1..Len(t) /\ i = (i - Len(s)) + Len(s)
      BY <1>1, <1>2, <2>2
    <3>2. (s \o t)[i] = t[i - Len(s)]
      BY <1>2, <3>1
    <3> QED
      BY <1>1, <1>3, <3>1, <3>2 DEF Calls
  <2> QED
    BY <2>1, <2>2
<1> QED
  BY <1>1, <1>2, <1>3, CountJoined DEF Calls

LEMMA FirstCall ==
  ASSUME NEW s, Calls(s), s # <<>>
  PROVE  /\ Calls(Tail(s)) /\ Count(Tail(s)) \in Nat
         /\ Head(s).call = "processes" => IsFiniteSet(Head(s).arg)
         /\ Count(s) = (IF Head(s).call \in RunCalls THEN 1 ELSE 0) + Count(Tail(s))
<1>1. /\ IsList(Tail(s)) /\ 1 \in DOMAIN s /\ Head(s) = s[1]
      /\ s = <<Head(s)>> \o Tail(s)
      /\ Len(s) = Len(Tail(s)) + 1
      /\ \A i \in 1..Len(Tail(s)) : Tail(s)[i] = s[i + 1]
  BY ShorterList DEF Calls
<1>2. /\ Len(Tail(s)) \in Nat /\ DOMAIN Tail(s) = 1..Len(Tail(s)) /\ DOMAIN s = 1..Len(s)
  BY <1>1, ListFacts DEF Calls
<1>3. Calls(Tail(s))
  <2>1. \A i \in DOMAIN Tail(s) : i + 1 \in DOMAIN s /\ Tail(s)[i] = s[i + 1]
    BY <1>1, <1>2
  <2> QED
    BY <1>1, <2>1 DEF Calls
<1>4. Calls(<<Head(s)>>)
  BY <1>1, OneCall DEF Calls
<1>5. Count(s) = Count(<<Head(s)>>) + Count(Tail(s))
  BY <1>1, <1>3, <1>4, JoinedCalls
<1> QED
  BY <1>1, <1>3, <1>5, CountSingle, CountIsNumber DEF Calls

LEMMA EmitsAreCalls ==
  ASSUME NEW events, IsList(events)
  PROVE  Calls(Emits(events)) /\ Count(Emits(events)) = 0
<1>1. Len(events) \in Nat /\ DOMAIN events = 1..Len(events)
  BY ListFacts
<1>2. Emits(events) = [i \in 1..Len(events) |-> Emits(events)[i]]
  BY <1>1 DEF Emits
<1>3. IsList(Emits(events)) /\ DOMAIN Emits(events) = 1..Len(events)
  BY <1>1, <1>2, ListOf
<1>4. \A i \in DOMAIN Emits(events) : Emits(events)[i].call = "emit"
  BY <1>1, <1>3 DEF Emits
<1> QED
  BY <1>3, <1>4, CountNone DEF Calls, RunCalls

LEMMA InitLedger == Init => Ledger
<1> SUFFICES ASSUME Init PROVE Ledger
  OBVIOUS
<1>1. prev.pids = Undefined /\ "pids" \in DOMAIN prev
  BY DEF Init, NoPrevious
<1> QED
  BY <1>1, NoCalls, EmptyList DEF Init, Ledger, NotWatching

\* The synchronous calls: what the first call leaves in the place of itself.
LEMMA CallLedger ==
  ASSUME Ledger, Call
  PROVE  Ledger'
<1> DEFINE head == Head(todo)
           rest == Tail(todo)
<1>1. /\ todo # <<>> /\ Calls(rest) /\ Count(rest) \in Nat
      /\ head.call = "processes" => IsFiniteSet(head.arg)
      /\ Count(todo) = (IF head.call \in RunCalls THEN 1 ELSE 0) + Count(rest)
  BY FirstCall DEF Ledger, Call, CallUpdate, CallStore, CallEmit, CallDelayed, CallRunAction,
                   CallAwait
<1>2. Len(timers) \in Nat /\ Len(jobs) \in Nat
  BY ListFacts DEF Ledger
<1>3. /\ status # "new" /\ status' = status /\ rules' = rules /\ file' = file
  BY <1>1 DEF Ledger, Call, CallUpdate, CallStore, CallEmit, CallDelayed, CallRunAction,
              CallAwait, ruleVars
<1>4. ASSUME UNCHANGED <<prev, timers, jobs, owed>>,
             NEW s, Calls(s), todo' = s \o rest,
             head.call \in RunCalls => Count(s) = 1,
             head.call \notin RunCalls => Count(s) = 0
      PROVE  Ledger'
  <2>1. Calls(s \o rest) /\ Count(s \o rest) = Count(s) + Count(rest)
    BY <1>1, <1>4, JoinedCalls
  <2> QED
    BY <1>1, <1>3, <1>4, <2>1 DEF Ledger
<1>5. \A job : IsList(Awaits(job)) /\ Len(Awaits(job)) = Len(jobs) + 1
  <2> TAKE job
  <2> DEFINE others == [k \in DOMAIN jobs |-> [jobs[k] EXCEPT !.alone = FALSE]]
  <2>1. DOMAIN jobs = 1..Len(jobs)
    BY ListFacts DEF Ledger
  <2>2. others = [k \in 1..Len(jobs) |-> others[k]]
    BY <2>1
  <2>3. IsList(others) /\ Len(others) = Len(jobs)
    <3> HIDE DEF others
    <3> QED
      BY <1>2, <2>2, ListOf
  <2> QED
    BY <2>3, LongerList DEF Awaits
<1>6. CASE CallUpdate
  <2> DEFINE u == Updated(head)
             stores == IF u.late = NoFields THEN <<>> ELSE <<[call |-> "store", fields |-> u.late]>>
  <2>1. /\ head.call \in Updates /\ head.call \notin RunCalls
        /\ prev' = u.prev /\ todo' = (Emits(u.events) \o stores) \o rest
        /\ UNCHANGED <<timers, jobs, owed>>
    BY <1>6 DEF CallUpdate, Updates, RunCalls
  <2>2. /\ IsList(u.events) /\ "pids" \in DOMAIN u.prev
        /\ u.prev.pids = Undefined \/ IsFiniteSet(u.prev.pids)
    BY <1>1, <2>1, UpdatesAreListed DEF Ledger
  <2>3. Calls(Emits(u.events)) /\ Count(Emits(u.events)) = 0
    BY <2>2, EmitsAreCalls
  <2>4. Calls(stores) /\ Count(stores) = 0
    <3>1. [call |-> "store", fields |-> u.late].call = "store"
      OBVIOUS
    <3> QED
      BY <3>1, NoCalls, OneCall, CountSingle DEF RunCalls
  <2>5. /\ Calls(Emits(u.events) \o stores) /\ Count(Emits(u.events) \o stores) = 0
    BY <2>3, <2>4, JoinedCalls
  <2>6. /\ Calls((Emits(u.events) \o stores) \o rest)
        /\ Count((Emits(u.events) \o stores) \o rest) = Count(rest)
    BY <1>1, <2>5, JoinedCalls
  <2> HIDE DEF u, stores, rest
  <2> QED
    BY <1>1, <1>3, <2>1, <2>2, <2>6 DEF Ledger
<1>7. CASE CallStore
  <2>1. /\ head.call \notin RunCalls /\ todo' = rest
        /\ UNCHANGED <<prev, timers, jobs, owed>>
    BY <1>7 DEF CallStore, RunCalls
  <2> QED
    BY <1>1, <1>3, <2>1 DEF Ledger
<1>8. CASE CallEmit
  <2> DEFINE matches == EvaluateEvent(head.event, store).matches
             ran == [k \in DOMAIN matches |-> [call |-> "match", rule |-> matches[k]]]
  <2>1. /\ head.call \notin RunCalls /\ todo' = ran \o rest /\ owed' = owed + Len(matches)
        /\ UNCHANGED <<prev, timers, jobs>>
    BY <1>8 DEF CallEmit, RunCalls
  <2>2. IsList(matches)
    BY MatchesAreListed DEF Ledger
  <2>3. Len(matches) \in Nat /\ DOMAIN matches = 1..Len(matches)
    BY <2>2, ListFacts
  <2> HIDE DEF matches
  <2>4. IsList(ran) /\ Len(ran) = Len(matches) /\ DOMAIN ran = 1..Len(matches)
    <3>1. ran = [k \in 1..Len(matches) |-> ran[k]]
      BY <2>3
    <3> HIDE DEF ran
    <3> QED
      BY <2>3, <3>1, ListOf
  <2>5. \A k \in DOMAIN ran : ran[k].call = "match"
    BY <2>3, <2>4
  <2> HIDE DEF ran
  <2>6. Calls(ran) /\ Count(ran) = Len(matches)
    BY <2>4, <2>5, CountAll DEF Calls, RunCalls
  <2>7. Calls(ran \o rest) /\ Count(ran \o rest) = Len(matches) + Count(rest)
    BY <1>1, <2>6, JoinedCalls
  <2> QED
    BY <1>1, <1>2, <1>3, <2>1, <2>3, <2>7 DEF Ledger
<1>9. CASE CallDelayed
  <2>1. /\ head.call \in RunCalls /\ todo' = rest
        /\ timers' = Append(timers, [rule |-> head.rule, wait |-> head.rule.delay])
        /\ UNCHANGED <<prev, jobs, owed>>
    BY <1>9 DEF CallDelayed, Delayed, RunCalls
  <2>2. IsList(timers') /\ Len(timers') = Len(timers) + 1
    BY <2>1, LongerList DEF Ledger
  <2>3. owed' = Count(todo') + Len(timers') + Len(jobs')
    BY <1>1, <1>2, <2>1, <2>2 DEF Ledger
  <2> HIDE DEF rest
  <2> QED
    BY <1>1, <1>3, <2>1, <2>2, <2>3 DEF Ledger
<1>10. CASE CallRunAction
  <2> DEFINE refreshes == head.rule.action.type = "refreshPalette"
             emitted == Emits(<<Event("onWallpaperChanged", NoFields)>>)
  <2>1. head.call \in RunCalls /\ UNCHANGED <<prev, timers, owed>>
    BY <1>10 DEF CallRunAction, RunCalls
  <2>2. PICK job :
          /\ jobs' = IF refreshes THEN jobs ELSE Awaits(job)
          /\ todo' = (IF refreshes THEN emitted \o <<[call |-> "await", job |-> job]>>
                      ELSE <<>>) \o rest
    BY <1>10 DEF CallRunAction
  <2>3. CASE refreshes
    <3> DEFINE await == <<[call |-> "await", job |-> job]>>
    <3>1. Calls(emitted) /\ Count(emitted) = 0
      BY SingleList, EmitsAreCalls
    <3>2. Calls(await) /\ Count(await) = 1
      <4>1. [call |-> "await", job |-> job].call = "await"
        OBVIOUS
      <4> QED
        BY <4>1, OneCall, CountSingle DEF RunCalls
    <3> HIDE DEF emitted, await
    <3>3. Calls(emitted \o await) /\ Count(emitted \o await) = 1
      BY <3>1, <3>2, JoinedCalls
    <3>4. todo' = (emitted \o await) \o rest /\ jobs' = jobs
      BY <2>2, <2>3 DEF await
    <3> QED
      BY <1>4, <2>1, <3>3, <3>4
  <2>4. CASE ~refreshes
    <3>1. todo' = <<>> \o rest /\ jobs' = Awaits(job)
      BY <2>2, <2>4
    <3>2. Calls(<<>> \o rest) /\ Count(<<>> \o rest) = Count(rest)
      BY <1>1, NoCalls, JoinedCalls
    <3>3. IsList(jobs') /\ Len(jobs') = Len(jobs) + 1
      BY <3>1, <1>5
    <3> QED
      BY <1>1, <1>2, <1>3, <2>1, <3>1, <3>2, <3>3 DEF Ledger
  <2> QED
    BY <2>3, <2>4
<1>11. CASE CallAwait
  <2>1. /\ head.call \in RunCalls /\ todo' = rest /\ jobs' = Awaits(head.job)
        /\ UNCHANGED <<prev, timers, owed>>
    BY <1>11 DEF CallAwait, RunCalls
  <2>2. IsList(jobs') /\ Len(jobs') = Len(jobs) + 1
    BY <1>5, <2>1
  <2>3. owed = (1 + Count(rest)) + Len(timers) + Len(jobs)
    BY <1>1, <2>1 DEF Ledger
  <2> HIDE DEF rest
  <2>4. owed' = Count(todo') + Len(timers') + Len(jobs')
    BY <1>1, <1>2, <2>1, <2>2, <2>3
  <2> QED
    BY <1>1, <1>3, <2>1, <2>2, <2>4 DEF Ledger
<1> QED
  BY <1>6, <1>7, <1>8, <1>9, <1>10, <1>11 DEF Call

\* The microtasks.
LEMMA JobLedger ==
  ASSUME Ledger, ResumeJob \/ Audit
  PROVE  Ledger'
<1>1. jobs # <<>> /\ IsList(jobs)
  BY DEF Ledger, ResumeJob, Audit, Awaiting
<1>2. IsList(Tail(jobs)) /\ Len(Tail(jobs)) \in Nat /\ Len(jobs) = Len(Tail(jobs)) + 1
  BY <1>1, ShorterList, ListFacts
<1>3. /\ status # "new"
      /\ UNCHANGED <<rules, todo, prev, timers, status, file>>
  BY <1>1 DEF Ledger, ResumeJob, Audit, ruleVars
<1>4. Len(timers) \in Nat /\ Count(todo) \in Nat
  BY ListFacts, CountIsNumber DEF Ledger, Calls
<1>5. CASE ResumeJob
  <2>1. PICK job : jobs' = Append(Tail(jobs), job)
    BY <1>5 DEF ResumeJob
  <2>2. IsList(jobs') /\ Len(jobs') = Len(jobs)
    BY <1>2, <2>1, LongerList
  <2>3. owed' = owed
    BY <1>5 DEF ResumeJob
  <2> QED
    BY <1>3, <2>2, <2>3 DEF Ledger
<1>6. CASE Audit
  <2>1. jobs' = Tail(jobs) /\ owed' = owed - 1
    BY <1>6 DEF Audit
  <2>2. owed = Count(todo) + Len(timers) + Len(jobs)
    BY DEF Ledger
  <2>3. owed' = Count(todo) + Len(timers) + Len(jobs')
    BY <1>2, <1>4, <2>1, <2>2
  <2> QED
    BY <1>2, <1>3, <2>1, <2>3 DEF Ledger
<1> QED
  BY <1>5, <1>6

\* A callback that starts puts calls on an empty stack that match nothing yet.
LEMMA CallbackLedger ==
  ASSUME Ledger, todo = <<>>, status' # "new",
         Calls(todo'), Count(todo') = 0, IsList(rules'), file' \in Documents,
         UNCHANGED <<prev, jobs, owed>>,
         IsList(timers'), Len(timers') = Len(timers)
  PROVE  Ledger'
BY NoCalls DEF Ledger

LEMMA TickLedger ==
  ASSUME Ledger, FastTick \/ Foreground \/ SlowTick \/ RunImmediate
  PROVE  Ledger'
<1>1. /\ todo = <<>>
      /\ UNCHANGED <<rules, prev, jobs, owed, timers, file, status, watch>>
  BY DEF FastTick, Foreground, SlowTick, RunImmediate, Running, Idle, ruleVars
<1>2. SUFFICES Calls(todo') /\ Count(todo') = 0
  BY <1>1, NoCalls DEF Ledger, RunImmediate, FastTick, Foreground, SlowTick, Running
<1>3. \A x : x.call \in Updates \ {"processes"} =>
               Calls(<<x>>) /\ Count(<<x>>) = 0
  BY OneCall, CountSingle DEF Updates, RunCalls
<1>4. \A condition, t : Calls(t) /\ Count(t) = 0 =>
                          Calls(If(condition, t)) /\ Count(If(condition, t)) = 0
  BY NoCalls DEF If
<1>5. CASE FastTick
  <2>1. PICK r \in Readings :
          todo' = If(r.battery # Undefined, <<[call |-> "battery", arg |-> r.battery]>>)
                  \o If(r.temp # Undefined, <<[call |-> "thermal", arg |-> r.temp]>>)
                  \o <<[call |-> "pressure", arg |-> [cpu |-> r.cpu, stress |-> r.stress]]>>
    BY <1>5 DEF FastTick
  <2> DEFINE b == [call |-> "battery", arg |-> r.battery]
             h == [call |-> "thermal", arg |-> r.temp]
             p == [call |-> "pressure", arg |-> [cpu |-> r.cpu, stress |-> r.stress]]
             s == If(r.battery # Undefined, <<b>>)
             t == If(r.temp # Undefined, <<h>>)
  <2>2. b.call = "battery" /\ h.call = "thermal" /\ p.call = "pressure"
    OBVIOUS
  <2>3. todo' = (s \o t) \o <<p>>
    BY <2>1
  <2> HIDE DEF b, h, p
  <2>4. /\ Calls(<<b>>) /\ Count(<<b>>) = 0
        /\ Calls(<<h>>) /\ Count(<<h>>) = 0
        /\ Calls(<<p>>) /\ Count(<<p>>) = 0
    BY <2>2, <1>3 DEF Updates
  <2>5. Calls(s) /\ Count(s) = 0 /\ Calls(t) /\ Count(t) = 0
    BY <2>4, <1>4
  <2> HIDE DEF s, t
  <2>6. Calls(s \o t) /\ Count(s \o t) = 0
    BY <2>5, JoinedCalls
  <2>7. Calls((s \o t) \o <<p>>) /\ Count((s \o t) \o <<p>>) = 0
    BY <2>4, <2>6, JoinedCalls
  <2> QED
    BY <2>3, <2>7
<1>6. CASE Foreground
  <2>1. PICK pid : todo' = <<[call |-> "foreground", arg |-> pid]>>
    BY <1>6 DEF Foreground
  <2>2. [call |-> "foreground", arg |-> pid].call = "foreground"
    OBVIOUS
  <2> QED
    BY <2>1, <2>2, <1>3 DEF Updates
<1>7. CASE SlowTick
  <2>1. PICK pids \in ProcessLists : todo' = <<[call |-> "processes", arg |-> pids]>>
    BY <1>7 DEF SlowTick
  <2> DEFINE x == [call |-> "processes", arg |-> pids]
  <2>2. x.call = "processes" /\ IsFiniteSet(x.arg)
    BY EngineAssumption
  <2> HIDE DEF x
  <2>3. Calls(<<x>>) /\ Count(<<x>>) = 0
    BY <2>2, OneCall, CountSingle DEF RunCalls
  <2> QED
    BY <2>1, <2>3 DEF x
<1>8. CASE RunImmediate
  <2>1. todo' = Emits(<<Head(immediates)>>) \/ todo' = <<>>
    BY <1>8 DEF RunImmediate
  <2> QED
    BY <2>1, SingleList, EmitsAreCalls, NoCalls
<1> QED
  BY <1>5, <1>6, <1>7, <1>8

\* A new policy in force.
LEMMA ReloadLedger ==
  ASSUME Ledger, Start \/ Reload
  PROVE  Ledger'
<1>1. todo = <<>> /\ status' # "new"
  BY DEF Ledger, Start, Reload, Idle
<1>2. UNCHANGED <<prev, jobs, owed, timers, file>>
  BY DEF Start, Reload
<1>3. IsList(rules')
  <2>1. ASSUME NEW doc \in Documents \ {Unreadable}, Apply(doc) PROVE IsList(rules')
    <3>1. Len(doc.rules) \in Nat
      BY EngineAssumption
    <3> QED
      BY <2>1, <3>1, RulesAreListed DEF Apply, SetRules
  <2>2. ASSUME Apply(EmptyDocument) PROVE IsList(rules')
    <3>1. EmptyDocument.rules = <<>>
      BY DEF EmptyDocument
    <3>2. Len(EmptyDocument.rules) \in Nat
      BY <3>1, EmptyList
    <3> QED
      BY <2>2, <3>2, RulesAreListed DEF Apply, SetRules
  <2>3. CASE Start
    <3>1. Apply(IF file = Unreadable THEN EmptyDocument ELSE file)
      BY <2>3 DEF Start
    <3> QED
      BY <3>1, <2>1, <2>2 DEF Ledger
  <2>4. CASE Reload
    <3>1. IF file = Unreadable THEN UNCHANGED rules ELSE Apply(file)
      BY <2>4 DEF Reload, ruleVars
    <3> QED
      BY <3>1, <2>1 DEF Ledger
  <2> QED
    BY <2>3, <2>4
<1>4. Calls(todo') /\ Count(todo') = 0
  <2>1. \A name : Lifecycle(name).call = "emit"
    BY DEF Lifecycle
  <2>2. \A name : Calls(<<Lifecycle(name)>>) /\ Count(<<Lifecycle(name)>>) = 0
    BY <2>1, OneCall, CountSingle DEF RunCalls
  <2>3. CASE Start
    <3> DEFINE x == Lifecycle("onPolicyEngineReloaded")
               y == Lifecycle("onPolicyEngineStarted")
    <3>1. todo' = <<x, y>> /\ <<x, y>> = <<x>> \o <<y>>
      BY <2>3 DEF Start
    <3>2. Calls(<<x>>) /\ Count(<<x>>) = 0 /\ Calls(<<y>>) /\ Count(<<y>>) = 0
      BY <2>2
    <3> HIDE DEF x, y
    <3>3. Calls(<<x>> \o <<y>>) /\ Count(<<x>> \o <<y>>) = 0
      BY <3>2, JoinedCalls
    <3> QED
      BY <3>1, <3>3
  <2>4. CASE Reload
    <3>1. todo' = <<Lifecycle("onPolicyEngineReloaded")>> \/ todo' = todo
      BY <2>4 DEF Reload
    <3> QED
      BY <3>1, <2>2, <1>1, NoCalls
  <2> QED
    BY <2>3, <2>4
<1> QED
  BY <1>1, <1>2, <1>3, <1>4, CallbackLedger DEF Ledger

\* A timer leaves its queue for the stack.
LEMMA TimerLedger ==
  ASSUME Ledger, TimerFires
  PROVE  Ledger'
<1>1. PICK i \in DOMAIN timers :
        /\ timers' = RemoveAt(timers, i)
        /\ todo' = <<[call |-> "run", rule |-> timers[i].rule]>>
  BY DEF TimerFires
<1>2. /\ todo = <<>> /\ UNCHANGED <<rules, prev, status, jobs, file, owed>>
  BY DEF TimerFires, Idle, ruleVars
<1>3. Len(timers) \in Nat /\ DOMAIN timers = 1..Len(timers) /\ Len(jobs) \in Nat
  BY ListFacts DEF Ledger
<1>4. IsList(timers') /\ Len(timers') = Len(timers) - 1
  <2> DEFINE s == SubSeq(timers, 1, i - 1)
             t == SubSeq(timers, i + 1, Len(timers))
  <2>1. /\ 1 \in Int /\ i \in Int /\ i - 1 \in Int /\ i + 1 \in Int /\ Len(timers) \in Int
    BY <1>3
  <2>2. /\ IsList(s) /\ Len(s) = IF 1 <= i - 1 THEN (i - 1) - 1 + 1 ELSE 0
        /\ IsList(t) /\ Len(t) = IF i + 1 <= Len(timers) THEN Len(timers) - (i + 1) + 1 ELSE 0
    BY <2>1, PartOfList DEF Ledger
  <2>3. Len(s) + Len(t) = Len(timers) - 1
    BY <1>3, <2>2
  <2>4. timers' = s \o t
    BY <1>1 DEF RemoveAt
  <2> HIDE DEF s, t
  <2> QED
    BY <2>2, <2>3, <2>4, JoinedList
<1>5. status # "new"
  BY <1>3, EmptyList DEF Ledger
<1>6. Calls(todo') /\ Count(todo') = 1
  <2>1. [call |-> "run", rule |-> timers[i].rule].call = "run"
    OBVIOUS
  <2> QED
    BY <1>1, <2>1, OneCall, CountSingle DEF RunCalls
<1>7. owed = 0 + Len(timers) + Len(jobs)
  BY <1>2, NoCalls DEF Ledger
<1>8. owed' = Count(todo') + Len(timers') + Len(jobs')
  BY <1>2, <1>3, <1>4, <1>6, <1>7
<1> QED
  BY <1>2, <1>4, <1>5, <1>6, <1>8 DEF Ledger

LEMMA OtherLedger ==
  ASSUME Ledger,
         \/ BaseStat \/ Notice \/ EditFile \/ ConfigReload \/ Destroy \/ Advance
         \/ UNCHANGED vars
  PROVE  Ledger'
<1>1. CASE BaseStat \/ Notice \/ EditFile \/ ConfigReload \/ UNCHANGED vars
  <2>1. UNCHANGED <<rules, todo, prev, jobs, timers, status, owed>>
    BY <1>1 DEF BaseStat, Notice, EditFile, ConfigReload, vars, engineVars, ruleVars
  <2>2. file' \in Documents
    BY <1>1 DEF BaseStat, Notice, EditFile, ConfigReload, vars, engineVars, Ledger
  <2>3. status = "new" => ~watch'.on
    <3> SUFFICES ASSUME status = "new" PROVE ~watch'.on
      OBVIOUS
    <3>1. ~watch.on
      BY DEF Ledger
    <3>2. CASE EditFile
      BY <3>1, <3>2 DEF EditFile
    <3> QED
      BY <1>1, <3>1, <3>2 DEF BaseStat, Notice, ConfigReload, Running, vars, engineVars
  <2> QED
    BY <2>1, <2>2, <2>3 DEF Ledger
<1>2. CASE Destroy
  <2>1. /\ todo = <<>> /\ jobs = <<>> /\ status' = "destroyed"
        /\ rules' = <<>> /\ timers' = <<>> /\ owed' = owed - Len(timers)
        /\ UNCHANGED <<prev, todo, jobs, file>>
    BY <1>2 DEF Destroy, Running, Idle, ClearRules, TimersCleared
  <2>2. owed = 0 + Len(timers) + 0 /\ Len(timers) \in Nat
    BY <2>1, NoCalls, EmptyList, ListFacts DEF Ledger
  <2>3. owed' = 0 + 0 + 0
    BY <2>1, <2>2
  <2> QED
    BY <2>1, <2>3, NoCalls, EmptyList DEF Ledger
<1>3. CASE Advance
  <2>1. /\ todo = <<>> /\ status = "running" /\ UNCHANGED <<rules, prev, jobs, owed, todo, status, file>>
        /\ timers' = [i \in DOMAIN timers |-> [timers[i] EXCEPT !.wait = timers[i].wait - 1]]
    BY <1>3 DEF Advance, Running, Idle
  <2>2. Len(timers) \in Nat /\ DOMAIN timers = 1..Len(timers)
    BY ListFacts DEF Ledger
  <2>3. timers' = [i \in 1..Len(timers) |-> timers'[i]]
    BY <2>1, <2>2
  <2>4. IsList(timers') /\ Len(timers') = Len(timers)
    BY <2>2, <2>3, ListOf
  <2> QED
    BY <2>1, <2>4, NoCalls, CallbackLedger DEF Ledger
<1> QED
  BY <1>1, <1>2, <1>3

LEMMA NextLedger == Ledger /\ [Next]_vars => Ledger'
BY CallLedger, JobLedger, TickLedger, ReloadLedger, TimerLedger, OtherLedger
   DEF Next, Callback, Input

\* Whatever matched has its record in the audit log, or is still on its way to it.
THEOREM AuditIsComplete == Spec => []AuditComplete
<1>1. Init => Ledger
  BY InitLedger
<1>2. Ledger /\ [Next]_vars => Ledger'
  BY NextLedger
<1>3. Ledger => AuditComplete
  BY LedgerIsComplete
<1> QED
  BY <1>1, <1>2, <1>3, PTL DEF Spec

-----------------------------------------------------------------------------
(***************************************************************************)
(* Failed actions.  What an action has changed is covered by the snapshots *)
(* it still has to restore if it fails: those of the steps it has applied, *)
(* and that of the step on its way.                                        *)
(***************************************************************************)

\* Restoring the snapshots of S takes m back to b, but for cores that get what the
\* daemon captured.
Covered(m, b, S) ==
  /\ m.psi = b.psi \/ \E s \in S : s.kind = "schedulerMode"
  /\ \A s \in S : s.kind = "schedulerMode" => s.psi = b.psi
  /\ \A c \in Cores :
       \/ m.governor[c] \in {b.governor[c], m.captured[c]}
       \/ \E s \in S : s.kind = "governor" /\ c \in s.cores /\ m.captured[c] # None

Whole(m) == DOMAIN m = {"psi", "governor", "captured", "place"}

\* What leaves thresholds and governors and captures at most what a core has.
Alike(m, n) ==
  /\ n.psi = m.psi /\ n.governor = m.governor
  /\ \A c \in Cores : n.captured[c] \in {m.captured[c], m.governor[c]}
  /\ \A c \in Cores : m.captured[c] # None => n.captured[c] = m.captured[c]

LEMMA CoveredAlike ==
  ASSUME NEW m, NEW n, NEW b, NEW S, NEW T, Covered(m, b, S), Alike(m, n), S \subseteq T,
         \A s \in T : s \notin S => s.kind # "schedulerMode"
  PROVE  Covered(n, b, T)
<1>1. \A c \in Cores :
        \/ n.governor[c] \in {b.governor[c], n.captured[c]}
        \/ \E s \in T : s.kind = "governor" /\ c \in s.cores /\ n.captured[c] # None
  <2> SUFFICES ASSUME NEW c \in Cores
               PROVE  \/ n.governor[c] \in {b.governor[c], n.captured[c]}
                      \/ \E s \in T : s.kind = "governor" /\ c \in s.cores /\ n.captured[c] # None
    OBVIOUS
  <2>1. CASE n.captured[c] = m.captured[c]
    BY <2>1 DEF Covered, Alike
  <2>2. CASE n.captured[c] = m.governor[c]
    BY <2>2 DEF Alike
  <2> QED
    BY <2>1, <2>2 DEF Alike
<1>2. n.psi = b.psi \/ \E s \in T : s.kind = "schedulerMode"
  BY DEF Covered, Alike
<1>3. \A s \in T : s.kind = "schedulerMode" => s.psi = b.psi
  BY DEF Covered
<1> QED
  BY <1>1, <1>2, <1>3 DEF Covered

LEMMA CapturedParts ==
  ASSUME NEW m, Whole(m), NEW cores
  PROVE  Whole(CaptureOriginals(m, cores)) /\ Alike(m, CaptureOriginals(m, cores))
<1> DEFINE n == CaptureOriginals(m, cores)
           captured == [c \in Cores |-> IF c \in cores /\ m.captured[c] = None
                                          THEN m.governor[c] ELSE m.captured[c]]
<1>1. /\ DOMAIN n = DOMAIN m /\ n.psi = m.psi /\ n.governor = m.governor
      /\ n.captured = captured
  BY DEF CaptureOriginals, Whole
<1>2. \A c \in Cores :
        captured[c] = IF c \in cores /\ m.captured[c] = None THEN m.governor[c] ELSE m.captured[c]
  OBVIOUS
<1> HIDE DEF captured, n
<1>3. Whole(n) /\ Alike(m, n)
  BY <1>1, <1>2 DEF Whole, Alike
<1> QED
  BY <1>3 DEF n

\* The first part of an action, and the snapshot taken before it.
Performed(done, b, S, s) ==
  /\ Whole(done.machine)
  /\ done.ok => Covered(done.machine, b, S \cup {s})
  /\ ~done.ok => /\ Covered(done.machine, b, S)
                 /\ s.kind = "schedulerMode" => s.psi = b.psi

LEMMA OutcomeParts ==
  ASSUME NEW n
  PROVE  /\ Done(n).machine = n /\ Done(n).ok = TRUE
         /\ Failed(n).machine = n /\ Failed(n).ok = FALSE
BY DEF Done, Failed

LEMMA GovernorCovers ==
  ASSUME NEW m, Whole(m), Traceable(m), NEW b, NEW S, Covered(m, b, S),
         NEW action, action.type = "setGovernor", NEW fields, NEW answer
  PROVE  Performed(Perform(m, action, fields, answer), b, S, CaptureSnapshot(m, action))
<1> DEFINE done == Perform(m, action, fields, answer)
           s == CaptureSnapshot(m, action)
           cores == ResolveCores(action.cores)
           n == CaptureOriginals(m, cores)
           g == [c \in Cores |-> IF c \in cores THEN action.governor ELSE n.governor[c]]
           r == [n EXCEPT !.governor = g]
<1>1. s.kind = "governor" /\ s.cores = cores
  BY DEF CaptureSnapshot
<1>2. SetGovernor(m, cores, action.governor) = r
  BY DEF SetGovernor
<1>3. Prepared(m, action) = n
  BY DEF Prepared
<1>4. done = IF ValidGovernor(action) THEN Done(SetGovernor(n, cores, action.governor))
             ELSE Failed(n)
  BY <1>3, Zenon DEF Perform
<1>5. Whole(n) /\ Alike(m, n) /\ Traceable(n)
  BY CapturedParts, CaptureKeeps
<1>6. \A c \in cores \cap Cores : n.captured[c] # None
  BY CaptureKeeps
<1> HIDE DEF n, r, g
<1>7. Covered(n, b, S)
  BY <1>5, CoveredAlike
<1>8. CASE ~ValidGovernor(action)
  <2>1. done.machine = n /\ done.ok = FALSE
    BY <1>4, <1>8, OutcomeParts
  <2> HIDE DEF done, s
  <2>2. Performed(done, b, S, s)
    BY <1>1, <1>5, <1>7, <2>1 DEF Performed
  <2> QED
    BY <2>2 DEF done, s
<1>9. CASE ValidGovernor(action)
  <2> DEFINE k == CaptureOriginals(n, cores)
             h == [c \in Cores |-> IF c \in cores THEN action.governor ELSE k.governor[c]]
             q == [k EXCEPT !.governor = h]
  <2>1. done = Done(q)
    BY <1>4, <1>9 DEF SetGovernor
  <2>2. Whole(k) /\ Alike(n, k)
    BY <1>5, CapturedParts
  <2>3. \A c \in cores \cap Cores : k.captured[c] # None
    BY <1>5, CaptureKeeps
  <2>4. Covered(k, b, S)
    BY <1>7, <2>2, CoveredAlike
  <2> HIDE DEF k
  <2>5. Whole(q) /\ q.psi = k.psi /\ q.captured = k.captured /\ q.governor = h
    BY <2>2 DEF Whole
  <2>6. \A c \in Cores : h[c] = IF c \in cores THEN action.governor ELSE k.governor[c]
    OBVIOUS
  <2>7. done.machine = q /\ done.ok = TRUE
    BY <2>1, OutcomeParts
  <2> HIDE DEF q, h, s, cores, done
  <2>8. ASSUME NEW c \in Cores
        PROVE  \/ q.governor[c] \in {b.governor[c], q.captured[c]}
               \/ \E t \in S \cup {s} : t.kind = "governor" /\ c \in t.cores /\ q.captured[c] # None
    <3>1. CASE c \in cores
      BY <1>1, <2>3, <2>5, <3>1
    <3>2. CASE c \notin cores
      BY <2>4, <2>5, <2>6, <3>2 DEF Covered
    <3> QED
      BY <3>1, <3>2
  <2>9. Covered(q, b, S \cup {s})
    BY <1>1, <2>4, <2>5, <2>8 DEF Covered
  <2>10. Performed(done, b, S, s)
    BY <2>5, <2>7, <2>9 DEF Performed
  <2> QED
    BY <2>10 DEF done, s
<1> QED
  BY <1>8, <1>9

LEMMA ModeCovers ==
  ASSUME NEW m, Whole(m), NEW b, NEW S, Covered(m, b, S), m.psi = b.psi,
         NEW action, action.type = "setSchedulerMode", NEW fields, NEW answer
  PROVE  Performed(Perform(m, action, fields, answer), b, S, CaptureSnapshot(m, action))
<1> DEFINE done == Perform(m, action, fields, answer)
           s == CaptureSnapshot(m, action)
           r == [m EXCEPT !.psi = Preset(action.mode)]
<1>1. s.kind = "schedulerMode" /\ s.psi = b.psi
  BY DEF CaptureSnapshot
<1>2. Prepared(m, action) = m
  BY DEF Prepared
<1>3. done = IF ValidMode(action.mode) THEN Done(r) ELSE Failed(m)
  BY <1>2, Zenon DEF Perform
<1>4. Whole(r) /\ r.governor = m.governor /\ r.captured = m.captured
  BY DEF Whole
<1>5. \/ done.machine = r /\ done.ok = TRUE
      \/ done.machine = m /\ done.ok = FALSE
  BY <1>3, OutcomeParts
<1> HIDE DEF r, s, done
<1>6. Covered(r, b, S \cup {s})
  BY <1>1, <1>4 DEF Covered
<1>7. Performed(done, b, S, s)
  BY <1>1, <1>4, <1>5, <1>6 DEF Performed
<1> QED
  BY <1>7 DEF done, s

LEMMA OthersCover ==
  ASSUME NEW m, Whole(m), NEW b, NEW S, Covered(m, b, S),
         NEW action, action.type \notin {"setGovernor", "setSchedulerMode"},
         NEW fields, NEW answer
  PROVE  Performed(Perform(m, action, fields, answer), b, S, CaptureSnapshot(m, action))
<1> DEFINE done == Perform(m, action, fields, answer)
           s == CaptureSnapshot(m, action)
           Same(r) == /\ Whole(r) /\ r.psi = m.psi /\ r.governor = m.governor
                      /\ r.captured = m.captured
<1>1. s.kind = "none"
  BY DEF CaptureSnapshot, NoSnapshot
<1>2. Prepared(m, action) = m
  BY DEF Prepared
<1>3. Same(Done(m).machine) /\ Same(Failed(m).machine)
  BY OutcomeParts
<1>4. \A pid, where : Same(Place(m, pid, where).machine)
  <2> SUFFICES ASSUME NEW pid, NEW where PROVE Same(Place(m, pid, where).machine)
    BY Zenon
  <2>1. Same([m EXCEPT !.place[pid] = where])
    BY DEF Whole
  <2> HIDE DEF Same
  <2> QED
    BY <1>3, <2>1, OutcomeParts DEF Place
<1> HIDE DEF Same
<1>5. Same(done.machine)
  BY <1>2, <1>3, <1>4 DEF Perform
<1>6. Whole(done.machine) /\ Alike(m, done.machine)
  BY <1>5 DEF Same, Alike
<1> HIDE DEF done, s
<1>7. Covered(done.machine, b, S)
  BY <1>6, CoveredAlike
<1>8. Covered(done.machine, b, S \cup {s})
  BY <1>1, <1>6, CoveredAlike
<1>9. Performed(done, b, S, s)
  BY <1>1, <1>6, <1>7, <1>8 DEF Performed
<1> QED
  BY <1>9 DEF done, s

LEMMA PerformCovers ==
  ASSUME NEW m, Whole(m), Traceable(m), NEW b, NEW S, Covered(m, b, S),
         NEW action, action.type = "setSchedulerMode" => m.psi = b.psi,
         NEW fields, NEW answer
  PROVE  Performed(Perform(m, action, fields, answer), b, S, CaptureSnapshot(m, action))
BY GovernorCovers, ModeCovers, OthersCover

LEMMA PerformOk ==
  ASSUME NEW m, NEW action, NEW fields, NEW answer
  PROVE  Perform(m, action, fields, answer).ok \in BOOLEAN
<1>1. \A pid, n, where : Place(n, pid, where).ok \in BOOLEAN
  BY OutcomeParts DEF Place
<1> QED
  BY <1>1, OutcomeParts DEF Perform

\* The restorations.
LEMMA RestoreCovers ==
  ASSUME NEW m, Whole(m), NEW b, NEW S, Covered(m, b, S),
         NEW snapshot, snapshot.kind = "schedulerMode" => snapshot.psi = b.psi
  PROVE  Whole(RestoreSnapshot(m, snapshot)) /\ Covered(RestoreSnapshot(m, snapshot), b, S)
<1>1. CASE snapshot.kind = "governor"
  <2> DEFINE g == Originals(m, snapshot.cores)
             r == [m EXCEPT !.governor = g]
  <2>1. Whole(r) /\ r.psi = m.psi /\ r.captured = m.captured /\ r.governor = g
    BY DEF Whole
  <2>2. \A c \in Cores : g[c] \in {m.governor[c], m.captured[c]}
    BY DEF Originals
  <2>3. RestoreSnapshot(m, snapshot) = r
    BY <1>1 DEF RestoreSnapshot
  <2> HIDE DEF g, r
  <2>4. Covered(r, b, S)
    BY <2>1, <2>2 DEF Covered
  <2> QED
    BY <2>1, <2>3, <2>4
<1>2. CASE snapshot.kind = "schedulerMode"
  <2> DEFINE r == [m EXCEPT !.psi = snapshot.psi]
  <2>1. /\ Whole(r) /\ r.psi = b.psi
        /\ r.captured = m.captured /\ r.governor = m.governor
    BY <1>2 DEF Whole
  <2>2. RestoreSnapshot(m, snapshot) = r
    BY <1>2 DEF RestoreSnapshot
  <2> HIDE DEF r
  <2>3. Covered(r, b, S)
    BY <2>1 DEF Covered
  <2> QED
    BY <2>1, <2>2, <2>3
<1>3. CASE snapshot.kind \notin {"governor", "schedulerMode"}
  BY <1>3 DEF RestoreSnapshot
<1> QED
  BY <1>1, <1>2, <1>3

LEMMA RestoreAllCovers ==
  ASSUME NEW m, Whole(m), NEW b, NEW snapshots, Covered(m, b, Elements(snapshots))
  PROVE  /\ Whole(RestoreAll(m, snapshots))
         /\ Covered(RestoreAll(m, snapshots), b, {})
<1> DEFINE Of(kind) == {i \in DOMAIN snapshots : snapshots[i].kind = kind}
           first == CHOOSE i \in Of("schedulerMode") : TRUE
           cores == UNION {snapshots[i].cores : i \in Of("governor")}
           g == Originals(m, cores)
           psi == IF Of("schedulerMode") = {} THEN m.psi ELSE snapshots[first].psi
           r == [m EXCEPT !.governor = g, !.psi = psi]
<1>1. RestoreAll(m, snapshots) = r
  BY DEF RestoreAll
<1>2. Whole(r) /\ r.psi = psi /\ r.captured = m.captured /\ r.governor = g
  BY DEF Whole
<1>3. psi = b.psi
  <2>1. CASE Of("schedulerMode") = {}
    BY <2>1 DEF Covered, Elements
  <2>2. CASE Of("schedulerMode") # {}
    <3>1. first \in Of("schedulerMode")
      BY <2>2
    <3> QED
      BY <2>2, <3>1 DEF Covered, Elements
  <2> QED
    BY <2>1, <2>2
<1>4. ASSUME NEW c \in Cores
      PROVE  g[c] \in {b.governor[c], m.captured[c]}
  <2>1. g[c] = IF c \in cores /\ m.captured[c] # None THEN m.captured[c] ELSE m.governor[c]
    BY DEF Originals
  <2>2. CASE m.governor[c] \in {b.governor[c], m.captured[c]}
    BY <2>1, <2>2
  <2>3. CASE \E s \in Elements(snapshots) :
               s.kind = "governor" /\ c \in s.cores /\ m.captured[c] # None
    <3>1. c \in cores /\ m.captured[c] # None
      BY <2>3 DEF Elements
    <3> QED
      BY <2>1, <3>1
  <2> QED
    BY <2>2, <2>3 DEF Covered
<1> HIDE DEF psi, g, r
<1> QED
  BY <1>1, <1>2, <1>3, <1>4 DEF Covered

-----------------------------------------------------------------------------
\* A job that is alone can still be undone; one that has succeeded needs not be.
Shape(job) ==
  DOMAIN job = {"rule", "stage", "steps", "applied", "snapshot", "ok", "alone", "before"}
Harmless(job) == job.ok /\ job.stage \in {"result", "audit"}
NoMode(s) == \A i \in DOMAIN s : s[i].type # "setSchedulerMode"

Covering(job) ==
  CASE job.stage = "settle" ->
         Elements(job.applied) \cup (IF job.ok THEN {job.snapshot} ELSE {})
    [] job.stage = "step" ->
         Elements(job.applied) \cup (IF job.ok THEN {job.snapshot} ELSE {})
    [] job.stage = "proceed" -> IF job.ok THEN Elements(job.applied) ELSE {}
    [] OTHER -> {}

Undoable(job, m) ==
  /\ job.stage \in Stages /\ job.ok \in BOOLEAN
  /\ IsList(job.steps) /\ NoMode(job.steps) /\ IsList(job.applied)
  /\ Harmless(job) \/ Covered(m, job.before, Covering(job))
  /\ job.stage \in {"settle", "result"} /\ ~job.ok /\ job.snapshot.kind = "schedulerMode" =>
       job.snapshot.psi = job.before.psi

\* The steps of a profile after its first.
NoModeLater(s) == \A i \in DOMAIN s : i = 1 \/ s[i].type # "setSchedulerMode"

LEMMA LaterJoined ==
  ASSUME NEW s, IsList(s), NoModeLater(s), NEW t, IsList(t), NoMode(t)
  PROVE  IsList(s \o t) /\ NoModeLater(s \o t)
<1>1. /\ Len(s) \in Nat /\ Len(t) \in Nat
      /\ DOMAIN s = 1..Len(s) /\ DOMAIN t = 1..Len(t)
  BY ListFacts
<1>2. /\ IsList(s \o t)
      /\ DOMAIN (s \o t) = 1..(Len(s) + Len(t))
      /\ \A i \in 1..Len(s) : (s \o t)[i] = s[i]
      /\ \A i \in 1..Len(t) : (s \o t)[i + Len(s)] = t[i]
  BY JoinedList
<1>3. ASSUME NEW i \in DOMAIN (s \o t), i # 1
      PROVE  (s \o t)[i].type # "setSchedulerMode"
  <2>1. CASE i \in 1..Len(s)
    BY <1>1, <1>2, <1>3, <2>1 DEF NoModeLater
  <2>2. CASE i \notin 1..Len(s)
    <3>1. i - Len(s) \in 1..Len(t) /\ i = (i - Len(s)) + Len(s)
      BY <1>1, <1>2, <2>2
    <3>2. (s \o t)[i] = t[i - Len(s)]
      BY <1>2, <3>1
    <3> QED
      BY <1>1, <3>1, <3>2 DEF NoMode
  <2> QED
    BY <2>1, <2>2
<1> QED
  BY <1>2, <1>3 DEF NoModeLater

LEMMA TailNoMode ==
  ASSUME NEW s, IsList(s), s # <<>>, NoModeLater(s)
  PROVE  IsList(Tail(s)) /\ NoMode(Tail(s))
<1>1. /\ IsList(Tail(s)) /\ Len(s) = Len(Tail(s)) + 1
      /\ \A i \in 1..Len(Tail(s)) : Tail(s)[i] = s[i + 1]
  BY ShorterList
<1>2. /\ Len(Tail(s)) \in Nat /\ DOMAIN Tail(s) = 1..Len(Tail(s)) /\ DOMAIN s = 1..Len(s)
  BY <1>1, ListFacts
<1>3. \A i \in DOMAIN Tail(s) : i + 1 \in DOMAIN s /\ i + 1 # 1 /\ Tail(s)[i] = s[i + 1]
  BY <1>1, <1>2
<1> QED
  BY <1>1, <1>3 DEF NoMode, NoModeLater

LEMMA FirstNoMode ==
  ASSUME NEW s, IsList(s), s # <<>>, NoMode(s)
  PROVE  /\ IsList(Tail(s)) /\ NoMode(Tail(s))
         /\ Head(s).type # "setSchedulerMode"
<1>1. 1 \in DOMAIN s /\ Head(s) = s[1]
  BY ShorterList
<1> QED
  BY <1>1, TailNoMode DEF NoMode, NoModeLater

LEMMA LaterSteps ==
  ASSUME NEW profile, Steps(profile) # <<>>
  PROVE  IsList(Tail(Steps(profile))) /\ NoMode(Tail(Steps(profile)))
<1> DEFINE x == [type |-> "setSchedulerMode", mode |-> profile.mode]
           y == [type |-> "setGovernor", governor |-> profile.governor, cores |-> profile.cores]
           z == [type |-> "boostProcess", pid |-> "foreground"]
           a == IF profile.mode = None THEN <<>> ELSE <<x>>
           b == IF profile.governor = None THEN <<>> ELSE <<y>>
           c == IF profile.boost THEN <<z>> ELSE <<>>
<1>1. Steps(profile) = (a \o b) \o c
  BY DEF Steps
<1>2. y.type # "setSchedulerMode" /\ z.type # "setSchedulerMode"
  OBVIOUS
<1> HIDE DEF x, y, z
<1>3. \A t : t.type # "setSchedulerMode" => IsList(<<t>>) /\ NoMode(<<t>>)
  BY SingleList DEF NoMode
<1>4. IsList(<<>>) /\ NoMode(<<>>) /\ NoModeLater(<<>>)
  BY EmptyList DEF NoMode, NoModeLater
<1>5. IsList(b) /\ NoMode(b) /\ IsList(c) /\ NoMode(c)
  BY <1>2, <1>3, <1>4
<1>6. IsList(a) /\ NoModeLater(a)
  BY SingleList, <1>4 DEF NoModeLater
<1> HIDE DEF a, b, c
<1>7. IsList(a \o b) /\ NoModeLater(a \o b)
  BY <1>5, <1>6, LaterJoined
<1>8. IsList((a \o b) \o c) /\ NoModeLater((a \o b) \o c)
  BY <1>5, <1>7, LaterJoined
<1> QED
  BY <1>1, <1>8, TailNoMode

\* A job that has just begun.
Began(run, rule, alone) ==
  /\ Whole(run.machine) /\ Shape(run.job) /\ run.job.alone = alone
  /\ Undoable(run.job, run.machine)
  /\ rule.action.type = "refreshPalette" =>
       run.machine = machine /\ run.job.ok = TRUE /\ run.job.stage = "result"

LEMMA ExecuteUndoable ==
  ASSUME Whole(machine), Traceable(machine),
         NEW rule, NEW known, NEW fields, NEW answer, NEW alone
  PROVE  Began(Execute(rule, known, fields, answer, alone), rule, alone)
<1> DEFINE run == Execute(rule, known, fields, answer, alone)
           a == rule.action
           steps == IF a.type = "applyProfile" /\ a.profile \in DOMAIN known
                    THEN Steps(known[a.profile]) ELSE <<>>
           first == IF steps # <<>> THEN Head(steps) ELSE a
           done == Perform(machine, first, fields, answer)
           s == CaptureSnapshot(machine, first)
<1>1. /\ IsList(<<>>) /\ NoMode(<<>>) /\ Elements(<<>>) = {}
  BY EmptyList DEF NoMode, Elements
<1>2. Covered(machine, machine, {})
  BY DEF Covered
<1>3. Performed(done, machine, {}, s)
  <2> HIDE DEF first
  <2> QED
    BY <1>2, PerformCovers
<1>4. done.ok \in BOOLEAN
  <2> HIDE DEF first
  <2> QED
    BY PerformOk
<1>5. CASE steps # <<>>
  <2> DEFINE job == Job(rule, "settle", Tail(steps), s, done.ok, alone)
  <2>1. run = [machine |-> done.machine, job |-> job]
    BY <1>5, Zenon DEF Execute
  <2>2. IsList(Tail(steps)) /\ NoMode(Tail(steps)) /\ a.type = "applyProfile"
    BY <1>5, LaterSteps
  <2> HIDE DEF done, steps, s, first
  <2>3. /\ job.stage = "settle" /\ job.steps = Tail(steps) /\ job.applied = <<>>
        /\ job.snapshot = s /\ job.ok = done.ok /\ job.alone = alone /\ job.before = machine
        /\ Shape(job)
    BY DEF Job, Shape
  <2> HIDE DEF job
  <2>4. Covered(done.machine, machine, Covering(job))
    BY <1>1, <1>3, <1>4, <2>3 DEF Performed, Covering
  <2>5. Undoable(job, done.machine)
    BY <1>1, <1>3, <1>4, <2>2, <2>3, <2>4 DEF Performed, Undoable, Stages
  <2>6. run.machine = done.machine /\ run.job = job
    BY <2>1
  <2> HIDE DEF run
  <2>7. Began(run, rule, alone)
    BY <1>3, <2>2, <2>3, <2>5, <2>6 DEF Performed, Began
  <2> QED
    BY <2>7 DEF run
<1>6. CASE steps = <<>> /\ a.type = "applyProfile"
  <2> DEFINE job == Job(rule, "result", <<>>, NoSnapshot, a.profile \in DOMAIN known, alone)
  <2>1. run = [machine |-> machine, job |-> job]
    BY <1>6, Zenon DEF Execute
  <2>2. /\ job.stage = "result" /\ job.steps = <<>> /\ job.applied = <<>>
        /\ job.snapshot.kind = "none" /\ job.ok \in BOOLEAN
        /\ job.alone = alone /\ job.before = machine /\ Shape(job)
    BY DEF Job, Shape, NoSnapshot
  <2> HIDE DEF job
  <2>3. Covering(job) = {}
    BY <2>2 DEF Covering
  <2>4. Undoable(job, machine)
    BY <1>1, <1>2, <2>2, <2>3 DEF Undoable, Stages
  <2>5. run.machine = machine /\ run.job = job
    BY <2>1
  <2> HIDE DEF run
  <2>6. Began(run, rule, alone)
    BY <1>6, <2>2, <2>4, <2>5 DEF Began
  <2> QED
    BY <2>6 DEF run
<1>7. CASE steps = <<>> /\ a.type # "applyProfile"
  <2> DEFINE job == Job(rule, "result", <<>>, s, done.ok, alone)
  <2>1. first = a
    BY <1>7
  <2>2. run = [machine |-> done.machine, job |-> job]
    BY <1>7, <2>1, Zenon DEF Execute
  <2>3. a.type = "refreshPalette" => done.machine = machine /\ done.ok = TRUE
    BY <2>1, OutcomeParts DEF Perform, Prepared
  <2> HIDE DEF done, steps, s, first
  <2>4. /\ job.stage = "result" /\ job.steps = <<>> /\ job.applied = <<>>
        /\ job.snapshot = s /\ job.ok = done.ok /\ job.alone = alone /\ job.before = machine
        /\ Shape(job)
    BY DEF Job, Shape
  <2> HIDE DEF job
  <2>5. Covering(job) = {}
    BY <2>4 DEF Covering
  <2>6. Undoable(job, done.machine)
    BY <1>1, <1>3, <1>4, <2>4, <2>5 DEF Performed, Undoable, Stages, Harmless
  <2>7. run.machine = done.machine /\ run.job = job
    BY <2>2
  <2> HIDE DEF run
  <2>8. Began(run, rule, alone)
    BY <1>3, <2>3, <2>4, <2>6, <2>7 DEF Performed, Began
  <2> QED
    BY <2>8 DEF run
<1> QED
  BY <1>5, <1>6, <1>7

\* What every await leaves, of whatever job.
LEMMA RestoredWhole ==
  ASSUME NEW m, Whole(m), NEW x
  PROVE  Whole(RestoreSnapshot(m, x)) /\ Whole(RestoreAll(m, x))
<1>1. \A g, psi : /\ Whole([m EXCEPT !.governor = g]) /\ Whole([m EXCEPT !.psi = psi])
                  /\ Whole([m EXCEPT !.governor = g, !.psi = psi])
  BY DEF Whole
<1>2. Whole(RestoreSnapshot(m, x))
  BY <1>1 DEF RestoreSnapshot
<1>3. Whole(RestoreAll(m, x))
  BY <1>1, Zenon DEF RestoreAll
<1> QED
  BY <1>2, <1>3

LEMMA ResumeShape ==
  ASSUME Whole(machine), Traceable(machine), NEW job, Shape(job), NEW fields
  PROVE  /\ Whole(Resume(job, fields).machine)
         /\ Shape(Resume(job, fields).job)
         /\ Resume(job, fields).job.alone = job.alone
<1> DEFINE Good(next) == /\ Whole(next.machine) /\ Shape(next.job)
                         /\ next.job.alone = job.alone
<1>1. \A stage : Good(Settle(job, stage))
  BY RestoredWhole DEF Settle, Shape
<1>2. Good(Step(job))
  BY RestoredWhole DEF Step, Shape
<1>3. Good(Proceed(job, fields))
  <2>1. CASE ~job.ok \/ job.steps = <<>>
    BY <2>1 DEF Proceed, Shape
  <2>2. CASE ~(~job.ok \/ job.steps = <<>>)
    <3> DEFINE step == Head(job.steps)
               done == Perform(machine, step, fields, TRUE)
               s == CaptureSnapshot(machine, step)
               k == [job EXCEPT !.stage = "settle", !.steps = Tail(@), !.snapshot = s,
                                !.ok = done.ok]
    <3>1. Proceed(job, fields) = [machine |-> done.machine, job |-> k]
      BY <2>2, Zenon DEF Proceed
    <3>2. Whole(done.machine)
      <4>1. Covered(machine, machine, {})
        BY DEF Covered
      <4>2. Performed(done, machine, {}, s)
        <5> HIDE DEF step
        <5> QED
          BY <4>1, PerformCovers
      <4> QED
        BY <4>2 DEF Performed
    <3> HIDE DEF done, s
    <3>3. Shape(k) /\ k.alone = job.alone
      BY DEF Shape
    <3> HIDE DEF k, step
    <3>4. Proceed(job, fields).machine = done.machine /\ Proceed(job, fields).job = k
      BY <3>1
    <3> QED
      BY <3>2, <3>3, <3>4
  <2> QED
    BY <2>1, <2>2
<1> HIDE DEF Good
<1>4. Good(Resume(job, fields))
  BY <1>1, <1>2, <1>3 DEF Resume
<1> QED
  BY <1>4 DEF Good

\* What every await leaves of a job that can be undone.
LEMMA SettleUndoable ==
  ASSUME Whole(machine), NEW job, Shape(job), Undoable(job, machine),
         NEW stage, \/ job.stage = "settle" /\ stage = "step"
                    \/ job.stage = "result" /\ stage = "audit"
  PROVE  Undoable(Settle(job, stage).job, Settle(job, stage).machine)
<1> DEFINE k == [job EXCEPT !.stage = stage]
           m == IF job.ok THEN machine ELSE RestoreSnapshot(machine, job.snapshot)
<1>1. Settle(job, stage).job = k /\ Settle(job, stage).machine = m
  BY DEF Settle
<1>2. /\ k.stage = stage /\ k.steps = job.steps /\ k.applied = job.applied
      /\ k.snapshot = job.snapshot /\ k.ok = job.ok /\ k.before = job.before
  BY DEF Shape
<1> HIDE DEF k
<1>3. Covering(k) = Covering(job)
  BY <1>2 DEF Covering
<1>4. Harmless(job) => Harmless(k)
  BY <1>2 DEF Harmless
<1>5. Harmless(k) \/ Covered(m, k.before, Covering(k))
  <2>1. CASE Harmless(job)
    BY <1>4, <2>1
  <2>2. CASE ~Harmless(job) /\ job.ok
    BY <1>2, <1>3, <2>2 DEF Undoable
  <2>3. CASE ~Harmless(job) /\ ~job.ok
    <3>1. job.snapshot.kind = "schedulerMode" => job.snapshot.psi = job.before.psi
      BY <2>3 DEF Undoable
    <3>2. Covered(machine, job.before, Covering(job))
      BY <2>3 DEF Undoable
    <3>3. Covered(RestoreSnapshot(machine, job.snapshot), job.before, Covering(job))
      BY <3>1, <3>2, RestoreCovers
    <3> QED
      BY <1>2, <1>3, <2>3, <3>3
  <2> QED
    BY <2>1, <2>2, <2>3
<1> HIDE DEF m
<1>6. Undoable(k, m)
  BY <1>2, <1>5 DEF Undoable, Stages
<1> QED
  BY <1>1, <1>6

LEMMA StepUndoable ==
  ASSUME Whole(machine), NEW job, Shape(job), Undoable(job, machine), job.stage = "step"
  PROVE  Undoable(Step(job).job, Step(job).machine)
<1> DEFINE applied == IF job.ok THEN Append(job.applied, job.snapshot) ELSE job.applied
           k == [job EXCEPT !.stage = "proceed", !.applied = applied]
           m == IF job.ok THEN machine ELSE RestoreAll(machine, job.applied)
<1>1. Step(job).job = k /\ Step(job).machine = m
  BY DEF Step
<1>2. /\ k.stage = "proceed" /\ k.steps = job.steps /\ k.applied = applied
      /\ k.snapshot = job.snapshot /\ k.ok = job.ok /\ k.before = job.before
  BY DEF Shape
<1>3. IsList(applied)
  BY LongerList DEF Undoable
<1>4. Covered(machine, job.before, Covering(job))
  BY DEF Undoable, Harmless
<1>5. CASE job.ok
  <2>1. Elements(applied) = Elements(job.applied) \cup {job.snapshot}
    BY <1>5, LongerElements DEF Undoable
  <2> HIDE DEF k, applied
  <2>2. Covering(k) = Covering(job)
    BY <1>2, <1>5, <2>1 DEF Covering
  <2>3. Undoable(k, machine)
    BY <1>2, <1>3, <1>4, <1>5, <2>2 DEF Undoable, Stages
  <2> QED
    BY <1>1, <1>5, <2>3
<1>6. CASE ~job.ok
  <2> HIDE DEF k, applied
  <2>1. Covering(job) = Elements(job.applied) /\ Covering(k) = {}
    BY <1>2, <1>6 DEF Covering
  <2>2. Covered(RestoreAll(machine, job.applied), job.before, {})
    BY <1>4, <2>1, RestoreAllCovers
  <2>3. Undoable(k, RestoreAll(machine, job.applied))
    BY <1>2, <1>3, <2>1, <2>2, <1>6 DEF Undoable, Stages
  <2> QED
    BY <1>1, <1>6, <2>3
<1> QED
  BY <1>5, <1>6

LEMMA ProceedUndoable ==
  ASSUME Whole(machine), Traceable(machine), NEW job, Shape(job), Undoable(job, machine),
         job.stage = "proceed", NEW fields
  PROVE  Undoable(Proceed(job, fields).job, Proceed(job, fields).machine)
<1>1. Covered(machine, job.before, Covering(job))
  BY DEF Undoable, Harmless
<1>2. CASE ~job.ok \/ job.steps = <<>>
  <2> DEFINE k == [job EXCEPT !.stage = "result", !.snapshot = NoSnapshot]
  <2>1. Proceed(job, fields).job = k /\ Proceed(job, fields).machine = machine
    BY <1>2 DEF Proceed
  <2>2. /\ k.stage = "result" /\ k.steps = job.steps /\ k.applied = job.applied
        /\ k.snapshot.kind = "none" /\ k.ok = job.ok /\ k.before = job.before
    BY DEF Shape, NoSnapshot
  <2> HIDE DEF k
  <2>3. Covering(k) = {} /\ (~job.ok => Covering(job) = {})
    BY <2>2 DEF Covering
  <2>4. Undoable(k, machine)
    BY <1>1, <2>2, <2>3 DEF Undoable, Harmless, Stages
  <2> QED
    BY <2>1, <2>4
<1>3. CASE job.ok /\ job.steps # <<>>
  <2> DEFINE step == Head(job.steps)
             done == Perform(machine, step, fields, TRUE)
             s == CaptureSnapshot(machine, step)
             k == [job EXCEPT !.stage = "settle", !.steps = Tail(job.steps), !.snapshot = s,
                              !.ok = done.ok]
  <2>1. Proceed(job, fields) = [machine |-> done.machine, job |-> k]
    BY <1>3, Zenon DEF Proceed
  <2>2. Proceed(job, fields).machine = done.machine /\ Proceed(job, fields).job = k
    BY <2>1
  <2>3. IsList(Tail(job.steps)) /\ NoMode(Tail(job.steps)) /\ step.type # "setSchedulerMode"
    BY <1>3, FirstNoMode DEF Undoable
  <2>4. Covering(job) = Elements(job.applied)
    BY <1>3 DEF Covering
  <2>5. Performed(done, job.before, Elements(job.applied), s)
    <3> HIDE DEF step
    <3> QED
      BY <1>1, <2>3, <2>4, PerformCovers
  <2>6. done.ok \in BOOLEAN
    <3> HIDE DEF step
    <3> QED
      BY PerformOk
  <2> HIDE DEF done, s
  <2>7. /\ k.stage = "settle" /\ k.steps = Tail(job.steps) /\ k.applied = job.applied
        /\ k.snapshot = s /\ k.ok = done.ok /\ k.before = job.before
    BY DEF Shape
  <2> HIDE DEF k, step
  <2>8. Covered(done.machine, k.before, Covering(k))
    BY <2>5, <2>6, <2>7 DEF Performed, Covering
  <2>9. Undoable(k, done.machine)
    BY <2>3, <2>5, <2>6, <2>7, <2>8 DEF Performed, Undoable, Stages
  <2> QED
    BY <2>2, <2>9
<1> QED
  BY <1>2, <1>3 DEF Undoable

LEMMA ResumeUndoable ==
  ASSUME Whole(machine), Traceable(machine), NEW job, Shape(job), Undoable(job, machine),
         job.stage # "audit", NEW fields
  PROVE  Undoable(Resume(job, fields).job, Resume(job, fields).machine)
<1>1. job.stage \in {"settle", "step", "proceed", "result"}
  BY DEF Undoable, Stages
<1>2. CASE job.stage = "settle"
  BY <1>2, SettleUndoable DEF Resume
<1>3. CASE job.stage = "step"
  BY <1>3, StepUndoable DEF Resume
<1>4. CASE job.stage = "proceed"
  BY <1>4, ProceedUndoable DEF Resume
<1>5. CASE job.stage = "result"
  BY <1>5, SettleUndoable DEF Resume
<1> QED
  BY <1>1, <1>2, <1>3, <1>4, <1>5

LEMMA ResumeHarmless ==
  ASSUME NEW job, Shape(job), Harmless(job), job.stage # "audit", NEW fields
  PROVE  Harmless(Resume(job, fields).job)
<1>1. Resume(job, fields) = Settle(job, "audit")
  BY DEF Resume, Harmless
<1>2. Settle(job, "audit").job = [job EXCEPT !.stage = "audit"]
  BY DEF Settle
<1> QED
  BY <1>1, <1>2 DEF Harmless, Shape

-----------------------------------------------------------------------------
\* Every other job that is alone has succeeded; calls that wait to become jobs have too.
Waiting(s) == \A x \in Elements(s) : x.call = "await" => Shape(x.job) /\ Harmless(x.job)

Recoil ==
  /\ Whole(machine)
  /\ Waiting(todo)
  /\ \A job \in Elements(jobs) :
       /\ Shape(job)
       /\ job.alone => Harmless(job) \/ (Len(jobs) = 1 /\ Undoable(job, machine))

LEMMA RecoilIsUndone == Recoil => FailedActionUndone
<1> SUFFICES ASSUME Recoil, NEW i \in DOMAIN jobs,
                    jobs[i].stage = "audit", ~jobs[i].ok, jobs[i].alone
             PROVE  /\ machine.psi = jobs[i].before.psi
                    /\ \A c \in Cores :
                         machine.governor[c] \in {jobs[i].before.governor[c], machine.captured[c]}
  BY DEF FailedActionUndone
<1> DEFINE job == jobs[i]
<1>1. job \in Elements(jobs)
  BY DEF Elements
<1>2. Undoable(job, machine) /\ ~Harmless(job)
  BY <1>1 DEF Recoil, Harmless
<1>3. Covered(machine, job.before, {})
  BY <1>2 DEF Undoable, Covering
<1> QED
  BY <1>3 DEF Covered

\* The jobs when one more awaits.
LEMMA AwaitsListed ==
  ASSUME IsList(jobs), NEW job
  PROVE  /\ Len(Awaits(job)) = Len(jobs) + 1
         /\ Elements(Awaits(job)) = {[x EXCEPT !.alone = FALSE] : x \in Elements(jobs)} \cup {job}
<1> DEFINE others == [k \in DOMAIN jobs |-> [jobs[k] EXCEPT !.alone = FALSE]]
<1>1. Len(jobs) \in Nat /\ DOMAIN jobs = 1..Len(jobs)
  BY ListFacts
<1>2. others = [k \in 1..Len(jobs) |-> others[k]]
  BY <1>1
<1>3. IsList(others) /\ Len(others) = Len(jobs) /\ DOMAIN others = 1..Len(jobs)
  <2> HIDE DEF others
  <2> QED
    BY <1>1, <1>2, ListOf
<1>4. Elements(others) = {[x EXCEPT !.alone = FALSE] : x \in Elements(jobs)}
  BY <1>1 DEF Elements
<1>5. Awaits(job) = Append(others, job)
  BY DEF Awaits
<1> HIDE DEF others
<1> QED
  BY <1>3, <1>4, <1>5, LongerList, LongerElements

LEMMA WaitingJoined ==
  ASSUME NEW s, IsList(s), Waiting(s), NEW t, IsList(t), Waiting(t)
  PROVE  Waiting(s \o t)
BY JoinedElements DEF Waiting

LEMMA WaitingSingle ==
  ASSUME NEW x, x.call = "await" => Shape(x.job) /\ Harmless(x.job)
  PROVE  Waiting(<<x>>) /\ IsList(<<x>>)
BY SingleElement, SingleList DEF Waiting

LEMMA WaitingNone == Waiting(<<>>) /\ IsList(<<>>)
BY NoElements, EmptyList DEF Waiting

LEMMA WaitingCounted ==
  ASSUME NEW s, IsList(s), Count(s) = 0
  PROVE  Waiting(s)
<1>1. ToRun(s) = {}
  BY CountIsNumber, FS_EmptySet DEF Count
<1> QED
  BY <1>1 DEF Waiting, Elements, ToRun, RunCalls

LEMMA WaitingEmits ==
  ASSUME NEW events, IsList(events)
  PROVE  Waiting(Emits(events)) /\ IsList(Emits(events))
BY EmitsAreCalls, WaitingCounted DEF Calls

\* Calls that neither act nor start to await.
LEMMA CallRecoil ==
  ASSUME Ledger, Recoil, CallUpdate \/ CallStore \/ CallEmit \/ CallDelayed
  PROVE  Recoil'
<1> DEFINE head == Head(todo)
           rest == Tail(todo)
<1>1. /\ todo # <<>> /\ IsList(todo) /\ UNCHANGED <<machine, jobs>>
  BY DEF Ledger, Calls, CallUpdate, CallStore, CallEmit, CallDelayed
<1>2. IsList(rest) /\ Waiting(rest)
  BY <1>1, ShorterList, ShorterElements DEF Recoil, Waiting
<1>3. SUFFICES Waiting(todo')
  BY <1>1 DEF Recoil
<1>4. CASE CallUpdate
  <2> DEFINE u == Updated(head)
             stores == IF u.late = NoFields THEN <<>> ELSE <<[call |-> "store", fields |-> u.late]>>
  <2>1. head.call \in Updates /\ todo' = (Emits(u.events) \o stores) \o rest
    BY <1>4 DEF CallUpdate
  <2>2. head.call = "processes" => IsFiniteSet(head.arg)
    BY <1>1, FirstCall DEF Ledger
  <2>3. IsList(u.events)
    BY <2>1, <2>2, UpdatesAreListed DEF Ledger
  <2>4. Waiting(Emits(u.events)) /\ IsList(Emits(u.events))
    BY <2>3, WaitingEmits
  <2>5. Waiting(stores) /\ IsList(stores)
    <3>1. [call |-> "store", fields |-> u.late].call = "store"
      OBVIOUS
    <3> QED
      BY <3>1, WaitingNone, WaitingSingle
  <2> HIDE DEF u, stores, rest
  <2>6. Waiting(Emits(u.events) \o stores) /\ IsList(Emits(u.events) \o stores)
    BY <2>4, <2>5, WaitingJoined, JoinedList
  <2> QED
    BY <1>2, <2>1, <2>6, WaitingJoined
<1>5. CASE CallStore \/ CallDelayed
  BY <1>2, <1>5 DEF CallStore, CallDelayed
<1>6. CASE CallEmit
  <2> DEFINE matches == EvaluateEvent(head.event, store).matches
             ran == [k \in DOMAIN matches |-> [call |-> "match", rule |-> matches[k]]]
  <2>1. todo' = ran \o rest
    BY <1>6 DEF CallEmit
  <2>2. IsList(matches)
    BY MatchesAreListed DEF Ledger
  <2>3. Len(matches) \in Nat /\ DOMAIN matches = 1..Len(matches)
    BY <2>2, ListFacts
  <2> HIDE DEF matches
  <2>4. IsList(ran) /\ DOMAIN ran = 1..Len(matches)
    <3>1. ran = [k \in 1..Len(matches) |-> ran[k]]
      BY <2>3
    <3> HIDE DEF ran
    <3> QED
      BY <2>3, <3>1, ListOf
  <2>5. \A k \in DOMAIN ran : ran[k].call = "match"
    BY <2>3, <2>4
  <2> HIDE DEF ran
  <2>6. Waiting(ran)
    BY <2>5 DEF Waiting, Elements
  <2> QED
    BY <1>2, <2>1, <2>4, <2>6, WaitingJoined
<1> QED
  BY <1>4, <1>5, <1>6

\* A job joins those that await; unless it is the only one it is not alone, or no other is.
LEMMA AwaitRecoil ==
  ASSUME Ledger, Recoil, NEW job, Shape(job), jobs' = Awaits(job), Whole(machine'),
         Waiting(todo'),
         job.alone => Harmless(job) \/ (jobs = <<>> /\ Undoable(job, machine'))
  PROVE  Recoil'
<1>1. /\ Len(jobs') = Len(jobs) + 1
      /\ Elements(jobs') = {[x EXCEPT !.alone = FALSE] : x \in Elements(jobs)} \cup {job}
  BY AwaitsListed DEF Ledger
<1>2. ASSUME NEW x \in Elements(jobs)
      PROVE  LET y == [x EXCEPT !.alone = FALSE] IN Shape(y) /\ ~y.alone
  BY <1>2 DEF Recoil, Shape
<1>3. jobs = <<>> => Len(jobs') = 1
  BY <1>1, EmptyList
<1>4. ASSUME NEW k \in Elements(jobs')
      PROVE  /\ Shape(k)
             /\ k.alone => Harmless(k) \/ (Len(jobs') = 1 /\ Undoable(k, machine'))
  <2>1. CASE k = job
    BY <1>3, <2>1
  <2>2. CASE k # job
    <3>1. PICK x \in Elements(jobs) : k = [x EXCEPT !.alone = FALSE]
      BY <1>1, <1>4, <2>2
    <3> QED
      BY <1>2, <3>1
  <2> QED
    BY <2>1, <2>2
<1> QED
  BY <1>4 DEF Recoil

LEMMA RunRecoil ==
  ASSUME Ledger, Inv, Recoil, CallRunAction
  PROVE  Recoil'
<1> DEFINE rule == Head(todo).rule
           rest == Tail(todo)
           refreshes == rule.action.type = "refreshPalette"
           emitted == Emits(<<Event("onWallpaperChanged", NoFields)>>)
<1>1. todo # <<>> /\ IsList(todo)
  BY DEF Ledger, Calls, CallRunAction
<1>2. IsList(rest) /\ Waiting(rest)
  BY <1>1, ShorterList, ShorterElements DEF Recoil, Waiting
<1>3. PICK answer \in BOOLEAN :
        LET run == Execute(rule, profiles, store, answer, jobs = <<>>)
        IN /\ machine' = run.machine
           /\ jobs' = IF refreshes THEN jobs ELSE Awaits(run.job)
           /\ todo' = (IF refreshes THEN emitted \o <<[call |-> "await", job |-> run.job]>>
                       ELSE <<>>) \o rest
  BY DEF CallRunAction
<1> DEFINE run == Execute(rule, profiles, store, answer, jobs = <<>>)
<1>4. /\ Whole(run.machine) /\ Shape(run.job) /\ run.job.alone = (jobs = <<>>)
      /\ Undoable(run.job, run.machine)
      /\ refreshes => run.machine = machine /\ run.job.ok = TRUE /\ run.job.stage = "result"
  <2> DEFINE alone == jobs = <<>>
  <2>1. Whole(machine) /\ Traceable(machine)
    BY DEF Inv, Recoil
  <2> HIDE DEF alone, rule
  <2>2. Began(Execute(rule, profiles, store, answer, alone), rule, alone)
    BY <2>1, ExecuteUndoable
  <2>3. Began(run, rule, alone)
    BY <2>2 DEF alone
  <2> HIDE DEF run
  <2> QED
    BY <2>3 DEF Began, alone
<1> HIDE DEF run
<1>5. CASE refreshes
  <2> DEFINE x == [call |-> "await", job |-> run.job]
  <2>1. /\ machine' = machine /\ jobs' = jobs
        /\ todo' = (emitted \o <<x>>) \o rest
    BY <1>3, <1>4, <1>5 DEF run
  <2>2. Shape(x.job) /\ Harmless(x.job)
    BY <1>4, <1>5 DEF Harmless
  <2> HIDE DEF x, rest, emitted
  <2>3. Waiting(emitted) /\ IsList(emitted)
    BY SingleList, WaitingEmits DEF emitted
  <2>4. Waiting(<<x>>) /\ IsList(<<x>>)
    BY <2>2, WaitingSingle
  <2>5. Waiting(emitted \o <<x>>) /\ IsList(emitted \o <<x>>)
    BY <2>3, <2>4, WaitingJoined, JoinedList
  <2>6. Waiting(todo')
    BY <1>2, <2>1, <2>5, WaitingJoined
  <2> QED
    BY <2>1, <2>6 DEF Recoil
<1>6. CASE ~refreshes
  <2>1. machine' = run.machine /\ jobs' = Awaits(run.job) /\ todo' = <<>> \o rest
    BY <1>3, <1>6 DEF run
  <2> HIDE DEF rest, refreshes, rule
  <2>2. Waiting(todo')
    BY <1>2, <2>1, WaitingNone, WaitingJoined
  <2> QED
    BY <1>4, <2>1, <2>2, AwaitRecoil
<1> QED
  BY <1>5, <1>6

LEMMA CallAwaitRecoil ==
  ASSUME Ledger, Recoil, CallAwait
  PROVE  Recoil'
<1>1. /\ todo # <<>> /\ IsList(todo) /\ Head(todo).call = "await" /\ todo' = Tail(todo)
      /\ machine' = machine /\ jobs' = Awaits(Head(todo).job)
  BY DEF Ledger, Calls, CallAwait
<1>2. Head(todo) \in Elements(todo) /\ Elements(todo') \subseteq Elements(todo)
  BY <1>1, ShorterElements
<1>3. Waiting(todo') /\ Shape(Head(todo).job) /\ Harmless(Head(todo).job)
  BY <1>1, <1>2 DEF Recoil, Waiting
<1> QED
  BY <1>1, <1>3, AwaitRecoil DEF Recoil

LEMMA ResumeRecoil ==
  ASSUME Ledger, Inv, Recoil, ResumeJob
  PROVE  Recoil'
<1> DEFINE job == Head(jobs)
           next == Resume(job, store)
<1>1. /\ jobs # <<>> /\ IsList(jobs) /\ job.stage # "audit"
      /\ machine' = next.machine /\ jobs' = Append(Tail(jobs), next.job)
      /\ todo' = todo
  BY DEF Ledger, ResumeJob, Awaiting
<1>2. /\ IsList(Tail(jobs)) /\ Len(Tail(jobs)) \in Nat /\ Len(jobs) = Len(Tail(jobs)) + 1
      /\ job \in Elements(jobs) /\ Elements(Tail(jobs)) \subseteq Elements(jobs)
  BY <1>1, ShorterList, ShorterElements, ListFacts
<1>3. /\ Len(jobs') = Len(jobs)
      /\ Elements(jobs') = Elements(Tail(jobs)) \cup {next.job}
  BY <1>1, <1>2, LongerList, LongerElements
<1>4. Shape(job) /\ (job.alone => Harmless(job) \/ (Len(jobs) = 1 /\ Undoable(job, machine)))
  BY <1>2 DEF Recoil
<1>5. Whole(next.machine) /\ Shape(next.job) /\ next.job.alone = job.alone
  BY <1>4, ResumeShape DEF Inv, Recoil
<1>6. Harmless(job) => Harmless(next.job)
  BY <1>1, <1>4, ResumeHarmless
<1>7. Undoable(job, machine) => Undoable(next.job, next.machine)
  BY <1>1, <1>4, ResumeUndoable DEF Inv, Recoil
<1> HIDE DEF next
<1>8. ASSUME NEW k \in Elements(jobs')
      PROVE  /\ Shape(k)
             /\ k.alone => Harmless(k) \/ (Len(jobs') = 1 /\ Undoable(k, machine'))
  <2>1. CASE k = next.job
    BY <1>1, <1>3, <1>4, <1>5, <1>6, <1>7, <2>1
  <2>2. CASE k # next.job
    <3>1. k \in Elements(Tail(jobs)) /\ k \in Elements(jobs)
      BY <1>2, <1>3, <1>8, <2>2
    <3>2. Len(jobs) # 1
      BY <1>1, <3>1, OnlyElement
    <3> QED
      BY <3>1, <3>2 DEF Recoil
  <2> QED
    BY <2>1, <2>2
<1> QED
  BY <1>1, <1>5, <1>8 DEF Recoil

LEMMA AuditRecoil ==
  ASSUME Ledger, Recoil, Audit
  PROVE  Recoil'
<1>1. /\ jobs # <<>> /\ IsList(jobs) /\ jobs' = Tail(jobs) /\ UNCHANGED <<todo, machine>>
  BY DEF Ledger, Audit, Awaiting
<1>2. /\ IsList(Tail(jobs)) /\ Len(Tail(jobs)) \in Nat /\ Len(jobs) = Len(Tail(jobs)) + 1
      /\ Elements(Tail(jobs)) \subseteq Elements(jobs)
  BY <1>1, ShorterList, ShorterElements, ListFacts
<1>3. ASSUME NEW k \in Elements(jobs')
      PROVE  Shape(k) /\ (k.alone => Harmless(k))
  <2>1. k \in Elements(jobs) /\ k \in Elements(Tail(jobs))
    BY <1>1, <1>2, <1>3
  <2>2. Len(jobs) # 1
    BY <1>1, <2>1, OnlyElement
  <2> QED
    BY <2>1, <2>2 DEF Recoil
<1> QED
  BY <1>1, <1>3 DEF Recoil

\* Callbacks: a job awaits no other callback, and none puts a call on the stack that
\* waits to become a job.
LEMMA CallbackRecoil ==
  ASSUME Ledger, Ledger', Recoil, Callback \/ Input \/ Advance \/ UNCHANGED vars
  PROVE  Recoil'
<1>1. CASE UNCHANGED vars
  BY <1>1 DEF vars, engineVars, Recoil
<1>2. CASE TimerFires
  <2>1. PICK i \in DOMAIN timers : todo' = <<[call |-> "run", rule |-> timers[i].rule]>>
    BY <1>2 DEF TimerFires
  <2>2. [call |-> "run", rule |-> timers[i].rule].call = "run"
    OBVIOUS
  <2>3. Waiting(todo')
    BY <2>1, <2>2, WaitingSingle
  <2>4. UNCHANGED <<machine, jobs>>
    BY <1>2 DEF TimerFires
  <2> QED
    BY <2>3, <2>4 DEF Recoil
<1>3. CASE ConfigReload \/ Destroy
  <2>1. jobs = <<>> /\ jobs' = <<>> /\ todo' = todo
    BY <1>3 DEF ConfigReload, Destroy, Running, Idle
  <2>2. Whole(machine')
    BY <1>3 DEF ConfigReload, Destroy, RestoreGovernors, Recoil, Whole
  <2> QED
    BY <2>1, <2>2, NoElements DEF Recoil
<1>4. CASE \/ Start \/ Reload \/ RunImmediate \/ BaseStat \/ Notice
           \/ FastTick \/ Foreground \/ SlowTick \/ EditFile \/ Advance
  <2>1. todo = <<>> /\ UNCHANGED <<machine, jobs, owed>>
    BY <1>4 DEF Ledger, Start, Reload, RunImmediate, BaseStat, Notice, FastTick, Foreground,
                SlowTick, EditFile, Advance, Running, Idle
  <2>2. Len(timers') = Len(timers) /\ Len(timers) \in Nat /\ Len(jobs) \in Nat
    <3>1. Len(timers) \in Nat /\ DOMAIN timers = 1..Len(timers) /\ Len(jobs) \in Nat
      BY ListFacts DEF Ledger
    <3>2. CASE ~Advance
      BY <1>4, <3>1, <3>2 DEF Start, Reload, RunImmediate, BaseStat, Notice, FastTick,
                              Foreground, SlowTick, EditFile
    <3>3. CASE Advance
      <4>1. timers' = [i \in DOMAIN timers |-> [timers[i] EXCEPT !.wait = timers[i].wait - 1]]
        BY <3>3 DEF Advance
      <4>2. timers' = [i \in 1..Len(timers) |-> timers'[i]]
        BY <3>1, <4>1
      <4> QED
        BY <3>1, <4>2, ListOf
    <3> QED
      BY <3>2, <3>3
  <2>3. Count(todo) = 0 /\ Count(todo') \in Nat
    BY <2>1, NoCalls, CountIsNumber DEF Ledger, Calls
  <2>4. owed = Count(todo) + Len(timers) + Len(jobs)
    BY DEF Ledger
  <2>5. owed' = Count(todo') + Len(timers') + Len(jobs')
    BY DEF Ledger
  <2>6. Count(todo') = 0
    BY <2>1, <2>2, <2>3, <2>4, <2>5
  <2>7. Waiting(todo')
    BY <2>6, WaitingCounted DEF Ledger, Calls
  <2> QED
    BY <2>1, <2>7 DEF Recoil
<1> QED
  BY <1>1, <1>2, <1>3, <1>4 DEF Callback, Input

LEMMA InitRecoil == Init => Recoil
<1> SUFFICES ASSUME Init PROVE Recoil
  OBVIOUS
<1>1. machine = InitMachine /\ todo = <<>> /\ jobs = <<>>
  BY DEF Init
<1>2. Whole(machine)
  BY <1>1 DEF InitMachine, Whole
<1> QED
  BY <1>1, <1>2, WaitingNone, NoElements DEF Recoil

\* An action that failed with nothing else in between has left what it found.
THEOREM FailuresAreUndone == Spec => []FailedActionUndone
<1>1. Init => Inv /\ Ledger /\ Recoil
  BY InitInv, InitLedger, InitRecoil
<1>2. Inv /\ [Next]_vars => Inv'
  BY NextInv
<1>3. Ledger /\ [Next]_vars => Ledger'
  BY NextLedger
<1>4. Inv /\ Ledger /\ Ledger' /\ Recoil /\ [Next]_vars => Recoil'
  BY CallRecoil, RunRecoil, CallAwaitRecoil, ResumeRecoil, AuditRecoil, CallbackRecoil
     DEF Next, Call
<1>5. Recoil => FailedActionUndone
  BY RecoilIsUndone
<1> QED
  BY <1>1, <1>2, <1>3, <1>4, <1>5, PTL DEF Spec
=============================================================================
