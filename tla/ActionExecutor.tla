--------------------------- MODULE ActionExecutor ---------------------------
(***************************************************************************)
(* What the actions of rules do to the machine (policy-engine/             *)
(* action-executor.js and the governor manager, governor.js).              *)
(*                                                                         *)
(* execute() is asynchronous: it acts at once, and only later finds out    *)
(* whether it failed and takes back what it did.  A job is an action on    *)
(* its way; its stage names the await at which it waits:                   *)
(*   "settle"  execute() of one step of a profile                          *)
(*   "step"    tryStep() of applyProfile                                   *)
(*   "proceed" applyProfile between two steps                              *)
(*   "result"  execute() of the rule's action                              *)
(*   "audit"   _runAction of the engine                                    *)
(* An await resumes after everything queued before it.  Commands to the    *)
(* kernel succeed; what a resource controller answers is any choice.       *)
(***************************************************************************)
EXTENDS Naturals, Sequences

CONSTANTS Cores, ForegroundCores, Governors, InvalidGovernor,
          InitialGovernor,   \* what the cores have before the daemon starts
          Pids, None,
          DefaultPsi         \* DEFAULT_CONFIG's PSI_CPU_WARN and PSI_CPU_CRITICAL

ASSUME ExecutorAssumption ==
  /\ ForegroundCores \subseteq Cores
  /\ InitialGovernor \in Governors
  /\ InvalidGovernor \notin Governors
  /\ None \notin Governors /\ None \notin Pids
  /\ DefaultPsi.warn \in Nat /\ DefaultPsi.crit \in Nat

VARIABLE machine   \* what actions change: [psi, governor, captured, place]

Psi == [warn : Nat, crit : Nat]
MachineType ==
  [psi : Psi, governor : [Cores -> Governors], captured : [Cores -> Governors \cup {None}],
   place : [Pids -> {"own", "foreground", "background"}]]

InitMachine ==
  [psi      |-> DefaultPsi,
   governor |-> [c \in Cores |-> InitialGovernor],
   captured |-> [c \in Cores |-> None],
   place    |-> [p \in Pids |-> "own"]]

(* ------------------------- the governor manager ------------------------ *)

\* (Variant: once anything is captured, nothing more is.)
CaptureOnce(m, cores) ==
  IF \E c \in Cores : m.captured[c] # None THEN m
  ELSE [m EXCEPT !.captured = [c \in Cores |-> IF c \in cores THEN m.governor[c] ELSE None]]
CaptureOriginals(m, cores) ==
  [m EXCEPT !.captured =
     [c \in Cores |-> IF c \in cores /\ @[c] = None THEN m.governor[c] ELSE @[c]]]

SetGovernor(m, cores, governor) ==
  [CaptureOriginals(m, cores) EXCEPT !.governor =
     [c \in Cores |-> IF c \in cores THEN governor ELSE @[c]]]

RestoreGovernors(m) ==
  [m EXCEPT !.governor =
     [c \in Cores |-> IF m.captured[c] = None THEN @[c] ELSE m.captured[c]]]

\* What the cores of an action are: names of scheduler classes.
ResolveCores(which) ==
  CASE which = "all"        -> Cores
    [] which = "background" -> Cores \ ForegroundCores
    [] OTHER                -> ForegroundCores

(* ------------------------------ snapshots ------------------------------ *)

NoSnapshot == [kind |-> "none"]

\* Capturing the governors of the cores to come is a part of the snapshot.
Prepared(m, action) ==
  IF action.type = "setGovernor" THEN CaptureOriginals(m, ResolveCores(action.cores)) ELSE m

CaptureSnapshot(m, action) ==
  CASE action.type = "setGovernor"      -> [kind |-> "governor", cores |-> ResolveCores(action.cores)]
    [] action.type = "setSchedulerMode" -> [kind |-> "schedulerMode", psi |-> m.psi]
    [] OTHER                            -> NoSnapshot

\* The originals of a snapshot are those the daemon has captured, which never change.
Originals(m, cores) ==
  [c \in Cores |-> IF c \in cores /\ m.captured[c] # None THEN m.captured[c] ELSE m.governor[c]]

RestoreSnapshot(m, snapshot) ==
  CASE snapshot.kind = "governor"      -> [m EXCEPT !.governor = Originals(m, snapshot.cores)]
    [] snapshot.kind = "schedulerMode" -> [m EXCEPT !.psi = snapshot.psi]
    [] OTHER -> m

\* applyProfile takes its steps back in reverse order; there is at most one of a kind.
RestoreAll(m, snapshots) ==
  LET Of(kind) == {i \in DOMAIN snapshots : snapshots[i].kind = kind}
      first == CHOOSE i \in Of("schedulerMode") : TRUE
  IN [m EXCEPT
       !.governor = Originals(m, UNION {snapshots[i].cores : i \in Of("governor")}),
       !.psi = IF Of("schedulerMode") = {} THEN @ ELSE snapshots[first].psi]

(* ------------------------------- actions ------------------------------- *)

Preset(mode) ==
  CASE mode = "aggressive"   -> [warn |-> DefaultPsi.warn \div 2, crit |-> DefaultPsi.crit \div 2]
    [] mode = "conservative" -> [warn |-> (3 * DefaultPsi.warn) \div 2,
                                 crit |-> (3 * DefaultPsi.crit) \div 2]
    [] mode = "balanced"     -> DefaultPsi

\* _setSchedulerMode refuses a mode it does not know, and thresholds that are not in
\* order; the three presets scale both alike.
ValidMode(mode) ==
  /\ mode \in {"aggressive", "conservative", "balanced"}
  /\ DefaultPsi.warn < DefaultPsi.crit

\* pid "foreground" is the last one that was stored.
ResolvePid(pid, store) ==
  IF pid # "foreground" THEN pid
  ELSE IF "foreground.pid" \in DOMAIN store THEN store["foreground.pid"] ELSE None

Done(m) == [machine |-> m, ok |-> TRUE]
Failed(m) == [machine |-> m, ok |-> FALSE]

Place(m, pid, where) ==
  IF pid = None THEN Failed(m) ELSE Done([m EXCEPT !.place[pid] = where])

\* _setGovernor refuses what the kernel does not know.
ValidGovernor(action) == action.governor \in Governors /\ ResolveCores(action.cores) # {}

\* The part of execute() up to its first await.  "answer" is what a resource
\* controller returns.
Perform(m0, action, store, answer) ==
  LET m == Prepared(m0, action)
  IN CASE action.type = "setGovernor" ->
            IF ValidGovernor(action)
            THEN Done(SetGovernor(m, ResolveCores(action.cores), action.governor)) ELSE Failed(m)
       [] action.type = "setSchedulerMode" ->
            IF ValidMode(action.mode) THEN Done([m EXCEPT !.psi = Preset(action.mode)])
            ELSE Failed(m)
       [] action.type = "boostProcess" ->
            Place(m, ResolvePid(action.pid, store), "foreground")
       [] action.type = "throttleProcess" ->
            Place(m, ResolvePid(action.pid, store), "background")
       [] action.type = "restoreProcess" -> Place(m, ResolvePid(action.pid, store), "own")
       [] action.type = "setController" -> IF answer THEN Done(m) ELSE Failed(m)
       [] action.type = "emitEvent" -> IF action.event = None THEN Failed(m) ELSE Done(m)
       [] action.type \in {"refreshPalette", "notify", "log"} -> Done(m)
       [] OTHER -> Failed(m)   \* preAllocate, and a type it does not know

\* The steps of a profile, in the order applyProfile takes them.
Steps(profile) ==
  (IF profile.mode = None THEN <<>>
   ELSE <<[type |-> "setSchedulerMode", mode |-> profile.mode]>>)
  \o (IF profile.governor = None THEN <<>>
      ELSE <<[type |-> "setGovernor", governor |-> profile.governor, cores |-> profile.cores]>>)
  \o (IF profile.boost THEN <<[type |-> "boostProcess", pid |-> "foreground"]>> ELSE <<>>)

(* -------------------------------- jobs --------------------------------- *)

\* What a job was started on is kept to compare with what it leaves; "alone" says
\* that no other job has run since.
Job(rule, stage, steps, snapshot, ok, alone) ==
  [rule |-> rule, stage |-> stage, steps |-> steps, applied |-> <<>>,
   snapshot |-> snapshot, ok |-> ok, alone |-> alone, before |-> machine]

\* The first part of execute() for the action of a rule: [machine, job].
Execute(rule, profiles, store, answer, alone) ==
  LET a == rule.action
      steps == IF a.type = "applyProfile" /\ a.profile \in DOMAIN profiles
               THEN Steps(profiles[a.profile]) ELSE <<>>
      first == IF steps # <<>> THEN Head(steps) ELSE a
      done == Perform(machine, first, store, answer)
  IN CASE steps # <<>> ->
            [machine |-> done.machine,
             job |-> Job(rule, "settle", Tail(steps), CaptureSnapshot(machine, first),
                         done.ok, alone)]
       [] a.type = "applyProfile" /\ steps = <<>> ->
            [machine |-> machine,
             job |-> Job(rule, "result", <<>>, NoSnapshot, a.profile \in DOMAIN profiles, alone)]
       [] OTHER ->
            [machine |-> done.machine,
             job |-> Job(rule, "result", <<>>, CaptureSnapshot(machine, a), done.ok, alone)]

\* What one await leaves: [machine, job].  (Variant: a profile keeps the steps that
\* succeeded when a later one fails.)
StepKept(job) ==
  [machine |-> machine,
   job |-> [job EXCEPT !.stage = "proceed",
                       !.applied = IF job.ok THEN Append(@, job.snapshot) ELSE @]]
Step(job) ==
  [machine |-> IF job.ok THEN machine ELSE RestoreAll(machine, job.applied),
   job |-> [job EXCEPT !.stage = "proceed",
                       !.applied = IF job.ok THEN Append(@, job.snapshot) ELSE @]]

Settle(job, next) ==
  [machine |-> IF job.ok THEN machine ELSE RestoreSnapshot(machine, job.snapshot),
   job |-> [job EXCEPT !.stage = next]]

Proceed(job, store) ==
  IF ~job.ok \/ job.steps = <<>>
  THEN [machine |-> machine, job |-> [job EXCEPT !.stage = "result", !.snapshot = NoSnapshot]]
  ELSE LET step == Head(job.steps)
           done == Perform(machine, step, store, TRUE)
       IN [machine |-> done.machine,
           job |-> [job EXCEPT !.stage = "settle", !.steps = Tail(@),
                               !.snapshot = CaptureSnapshot(machine, step), !.ok = done.ok]]

Resume(job, store) ==
  CASE job.stage = "settle"  -> Settle(job, "step")
    [] job.stage = "step"    -> Step(job)
    [] job.stage = "proceed" -> Proceed(job, store)
    [] OTHER                 -> Settle(job, "audit")
=============================================================================
