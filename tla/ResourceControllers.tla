------------------------ MODULE ResourceControllers ------------------------
(***************************************************************************)
(* The resource controllers that change the machine behind the manager of  *)
(* lib/resource-controller-manager.js: the GPU's power limit               *)
(* (gpu-controller.js), the arbiter of the power budget, which lowers it   *)
(* (power-budget-arbiter.js), and the traffic control of the network       *)
(* interface (network-controller.js).  Which commands fail, the readings   *)
(* and whoever else applies a GPU profile are the environment's.           *)
(***************************************************************************)
EXTENDS Naturals, LayerConstants

\* None is not one of the words below.
ASSUME Words == None \notin {"fraction", "found", "low", "default", "max", "unknown",
                             "gpu_bound", "cpu_bound", "balanced"}

VARIABLES gpu,       \* the limit of the card and the _snapshot of GpuController
          cap,       \* the decision in the arbiter's _snapshot, None in state IDLE
          capTimer,  \* the arbiter's _tickTimer is set
          capOn,     \* ENABLE_POWER_BUDGET_ARBITER, ENABLE_GPU_CONTROL, RAPL readable
          qos,       \* what tc and nft have of the interface, and the controller's flags
          setups,    \* how often setup() has run
          rcm,       \* the manager's life
          foreign,   \* someone else applied a profile, or a restore failed
          loose      \* whether the last setup() or stop() of it met a command that failed
rcVars == <<gpu, cap, capTimer, capOn, qos, setups, rcm, foreign, loose>>

\* What giving a command comes to.  Its timeout may cut it off after it has had its
\* effect, and then it throws as one that failed.
GivenCommand == {"ok", "failed", "cut_off"}

RcInit ==
  /\ \E limit \in {"found", "fraction"} : gpu = [limit |-> limit, snapshot |-> None]
  /\ cap = None /\ capTimer = FALSE /\ capOn = TRUE
  /\ qos = [qdisc |-> "found", table |-> FALSE, installed |-> FALSE, created |-> FALSE]
  /\ setups = 0 /\ rcm = "created" /\ foreign = FALSE /\ loose = [qdisc |-> FALSE, table |-> FALSE]

-----------------------------------------------------------------------------
\* GpuController.applyProfile.  The limits may be unreadable, and nothing is
\* done; the command may fail, which loses the snapshot, or be cut off by its
\* timeout after it has set the limit; and on AMD the level that was there may
\* be unreadable, which leaves a snapshot of nothing.  The limit the card was found
\* with is "found" if it is a number of whole watts, else "fraction".
Limit(profile) == CASE profile = "balanced" -> "default"
                    [] profile = "power-saver" -> "low"
                    [] profile = "performance" -> "max"
ApplyOutcomes == {"ok", "unreadable", "failed", "cut_off", "blind"}
ApplyProfile(g, profile, outcome) ==
  CASE outcome = "ok"         -> [limit |-> Limit(profile), snapshot |-> g.limit]
    [] outcome = "blind"      -> [limit |-> Limit(profile), snapshot |-> "unknown"]
    [] outcome = "unreadable" -> g
    [] outcome = "failed"     -> [g EXCEPT !.snapshot = None]
    [] outcome = "cut_off"    -> [limit |-> Limit(profile), snapshot |-> None]

\* restoreSnapshot sets whole watts; a command that throws keeps the snapshot.
Rounded(limit) == IF limit = "fraction" THEN "found" ELSE limit
RestoreSnapshot(g, command) ==
  IF g.snapshot = None \/ command = "failed" THEN g
  ELSE [limit    |-> IF g.snapshot = "unknown" THEN g.limit ELSE Rounded(g.snapshot),
        snapshot |-> IF g.snapshot # "unknown" /\ command = "cut_off" THEN g.snapshot ELSE None]

\* What keeps a limit from being handed back: an apply whose snapshot is no
\* good, a restore that fails.
Spoils(outcome) == outcome \in {"cut_off", "blind"}

\* _engage and _applyCap: a load bound by the GPU only records a cap of the
\* CPU, any other lowers the GPU.
EngageOn(g, bound, outcome) ==
  IF bound = "gpu_bound" THEN g ELSE ApplyProfile(g, "power-saver", outcome)

\* _tick on readings that are there: the load against the budget (headroom is
\* 95..100% of it, gray 100..110%), the part the load is bound by; the
\* outcomes of the commands it gives.
EngageCap(load, bound, outcome) ==
  /\ cap = None /\ load # "low"
  /\ gpu' = EngageOn(gpu, bound, outcome)
  /\ cap' = bound
  /\ foreign' = (foreign \/ (bound # "gpu_bound" /\ Spoils(outcome)))

ReleaseCap(command) ==
  /\ gpu' = RestoreSnapshot(gpu, command)
  /\ cap' = None
  /\ foreign' = (foreign \/ command # "ok")

ReleaseInTick(load, bound, command) ==
  /\ cap # None
  /\ \/ load \in {"low", "headroom"}
     \/ load = "gray" /\ (cap = "gpu_bound") # (bound = "gpu_bound")
  /\ ReleaseCap(command)

\* _adjustCap releases and engages.  A mutant only engages.
AdjustOver(bound, outcome, command) == EngageOn(gpu, bound, outcome)
Adjusted(bound, outcome, command) ==
  EngageOn(RestoreSnapshot(gpu, command), bound, outcome)
AdjustCap(load, bound, outcome, command) ==
  /\ cap # None /\ load = "over" /\ bound # cap
  /\ gpu' = Adjusted(bound, outcome, command)
  /\ cap' = bound
  /\ foreign' = (foreign \/ command # "ok" \/ (bound # "gpu_bound" /\ Spoils(outcome)))

ArbiterTick ==
  /\ capTimer /\ capOn
  /\ \E load \in {"low", "headroom", "gray", "over"},
        bound \in {"gpu_bound", "cpu_bound", "balanced"},
        outcome \in ApplyOutcomes, command \in GivenCommand :
       \/ EngageCap(load, bound, outcome)
       \/ ReleaseInTick(load, bound, command)
       \/ AdjustCap(load, bound, outcome, command)
  /\ UNCHANGED <<capTimer, capOn, qos, setups, rcm, loose>>

\* IPC "powerbudget" with forceRelease.
ForceRelease ==
  /\ capTimer /\ cap # None /\ \E command \in GivenCommand : ReleaseCap(command)
  /\ UNCHANGED <<capTimer, capOn, qos, setups, rcm, loose>>

\* Actions of the policy engine, profiles, a pre-allocation: whoever else
\* calls applyGpuProfile of the manager.
ApplyGpuProfile ==
  /\ rcm = "started"
  /\ \E profile \in {"balanced", "power-saver", "performance"}, outcome \in ApplyOutcomes :
       gpu' = ApplyProfile(gpu, profile, outcome)
  /\ foreign' = TRUE
  /\ UNCHANGED <<cap, capTimer, capOn, qos, setups, rcm, loose>>

\* A reload, or RAPL that can no longer be read: the ticks return at once.
ReloadBudget ==
  /\ rcm = "started" /\ capOn' = ~capOn
  /\ UNCHANGED <<gpu, cap, capTimer, qos, setups, rcm, foreign, loose>>

-----------------------------------------------------------------------------
\* NetworkController.setup: it deletes the interface's root qdisc, whether that fails
\* or not, and adds its own, which the kernel refuses over one that is still there, with
\* classes and filters; then, where there are cgroups, the same with its table and the
\* rules in it.  The first command that throws ends its half, and the first half both.
SetupCommands ==
  {c \in [delete : BOOLEAN, add : GivenCommand, classes : BOOLEAN, cgroups : BOOLEAN,
          drop : BOOLEAN, create : GivenCommand, rules : BOOLEAN] :
     qos.qdisc = "dynalloc" /\ ~c.delete => c.add = "failed"}

QdiscUp(c) == c.add = "ok" /\ c.classes
Marking(c) == QdiscUp(c) /\ c.cgroups
TableUp(c) == Marking(c) /\ c.create = "ok" /\ c.rules

QdiscAfter(c) ==
  IF c.add # "failed" THEN "dynalloc" ELSE IF c.delete THEN "default" ELSE qos.qdisc
TableAfter(c) ==
  IF Marking(c) THEN c.create # "failed" \/ (qos.table /\ ~c.drop) ELSE qos.table

Setup(c) ==
  /\ qos' = [qdisc     |-> QdiscAfter(c),
             table     |-> TableAfter(c),
             installed |-> qos.installed \/ QdiscUp(c),
             created   |-> qos.created \/ TableUp(c)]
  /\ loose' = [qdisc |-> ~QdiscUp(c),
               table |-> IF Marking(c) THEN ~TableUp(c) ELSE loose.table]

\* networkSetup of the daemon's bootstrap, then setupAll and startAll of the
\* manager, which set the same controller up again; the arbiter is registered
\* and started last, when it is available.
SetupNetwork ==
  /\ rcm = "created"
  /\ \E c \in SetupCommands : Setup(c)
  /\ setups' = setups + 1
  /\ rcm' = IF setups' = 2 THEN "started" ELSE rcm
  /\ capTimer' = (setups' = 2 /\ capOn)
  /\ UNCHANGED <<gpu, cap, capOn, foreign>>

\* stop() of the network controller deletes what its flags say it has put up, and
\* clears the flags whether the commands work or not.
TearDown(drop, delete) ==
  /\ qos' = [qdisc     |-> IF qos.installed /\ delete THEN "default" ELSE qos.qdisc,
             table     |-> qos.table /\ ~(qos.created /\ drop),
             installed |-> FALSE,
             created   |-> FALSE]
  /\ loose' = [qdisc |-> IF qos.installed THEN ~delete ELSE loose.qdisc,
               table |-> IF qos.created THEN ~drop ELSE loose.table]

\* destroy() of the manager in the daemon's cleanup, which stops every
\* controller: the arbiter releases its cap.
DestroyManager ==
  /\ rcm = "started" /\ rcm' = "destroyed"
  /\ \E drop, delete \in BOOLEAN : TearDown(drop, delete)
  /\ capTimer' = FALSE
  /\ IF cap = None THEN UNCHANGED <<gpu, cap, foreign>>
     ELSE \E command \in GivenCommand : ReleaseCap(command)
  /\ UNCHANGED <<capOn, setups>>

RcNext ==
  \/ SetupNetwork
  \/ ArbiterTick
  \/ ForceRelease
  \/ ApplyGpuProfile
  \/ ReloadBudget
  \/ DestroyManager

-----------------------------------------------------------------------------
RcTypeOK ==
  /\ gpu \in [limit : {"fraction", "found", "low", "default", "max"},
              snapshot : {"fraction", "found", "low", "default", "max", "unknown", None}]
  /\ cap \in {None, "gpu_bound", "cpu_bound", "balanced"}
  /\ capTimer \in BOOLEAN /\ capOn \in BOOLEAN
  /\ qos \in [qdisc : {"found", "default", "dynalloc"}, table : BOOLEAN,
              installed : BOOLEAN, created : BOOLEAN]
  /\ setups \in 0..2 /\ rcm \in {"created", "started", "destroyed"}
  /\ foreign \in BOOLEAN /\ loose \in [qdisc : BOOLEAN, table : BOOLEAN]

\* As long as only the arbiter applies GPU profiles and no restore fails, the
\* card has the limit it was found with, up to whole watts, whenever no cap is
\* engaged, however the load moved between the kinds of cap.  A destroyed manager
\* leaves no cap behind, and its queueing and its table on the interface only where a
\* command failed the last time one was to put them up or to take them away; stop() does
\* not notice that one failed (network-controller.js:344, 351).
ControllersLetGo ==
  /\ cap = None /\ ~foreign => gpu.limit \in {"found", "fraction"}
  /\ rcm = "destroyed" => /\ cap = None
                          /\ qos.qdisc = "dynalloc" => loose.qdisc
                          /\ qos.table => loose.table
=============================================================================
