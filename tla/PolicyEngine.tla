---------------------------- MODULE PolicyEngine ----------------------------
(***************************************************************************)
(* The policy engine in the daemon's event loop (policy-engine/            *)
(* policy-engine.js, policy-loader.js, and the calls in daemon.js).        *)
(*                                                                         *)
(* A callback of the event loop calls the event sources, the bus and the   *)
(* engine synchronously; "todo" is the stack of these calls.  When it is   *)
(* empty the awaiting jobs go on, one microtask at a time, and when none   *)
(* is left the loop takes its next callback: a tick, a scan of processes,  *)
(* a timer, an emission that was put off, a change of a file, the end.     *)
(*                                                                         *)
(* The time unit is MIN_EMIT_EVENT_COOLDOWN, 100 ms.                       *)
(***************************************************************************)
EXTENDS RuleEngine, EventSources, ActionExecutor

CONSTANTS Documents,   \* what the policy file may hold
          Unreadable,  \* a document that does not parse
          Edits,       \* pairs of what it held and what it holds after an edit
          Readings,    \* what a fast tick may read
          ProcessLists,  \* the processes a slow tick may find
          FilePsi,     \* the PSI thresholds in the configuration file
          Debounce,    \* of a change of the policy file
          Late,        \* bound: by how much a timer may be late
          MaxWaiting   \* bound: timers and emissions waiting when a callback starts

ASSUME EngineAssumption ==
  /\ Unreadable \in Documents
  /\ \A doc \in Documents \ {Unreadable} : Len(doc.rules) \in Nat
  /\ Edits \subseteq Documents \X Documents
  /\ \A pids \in ProcessLists : IsFiniteSet(pids)
  /\ Debounce \in Nat /\ Late \in Nat /\ MaxWaiting \in Nat

VARIABLES status,      \* "new", "running" or "destroyed"
          todo,        \* calls to come of the callback that runs
          jobs,        \* actions awaiting, in the order they resume
          immediates,  \* emissions for the next turn of the loop (setImmediate)
          timers,      \* _pendingDelays: rules whose delay runs
          profiles,    \* _profiles of the executor
          file,        \* the policy file
          watch,       \* its watcher
          owed         \* matches the audit log does not have yet

engineVars == <<status, todo, jobs, immediates, timers, profiles, file, watch, owed>>
vars == <<rules, since, firedOnce, store, prev, machine, engineVars>>

NotWatching == [on |-> FALSE, based |-> FALSE, changed |-> FALSE, wait |-> None]

Init ==
  /\ status = "new" /\ todo = <<>> /\ jobs = <<>> /\ immediates = <<>> /\ timers = <<>>
  /\ file \in Documents
  /\ watch = NotWatching /\ owed = 0
  /\ profiles = <<>> /\ rules = <<>> /\ since = NoneFired /\ firedOnce = {}
  /\ store = NoFields /\ prev = NoPrevious /\ machine = InitMachine

(* --------------------------- synchronous calls ------------------------- *)

Emits(events) == [i \in DOMAIN events |-> [call |-> "emit", event |-> events[i]]]

\* A call of one of the update methods of the event sources.
Updated(item) ==
  CASE item.call = "battery"    -> UpdateBattery(item.arg)
    [] item.call = "thermal"    -> UpdateThermal(item.arg)
    [] item.call = "pressure"   -> UpdatePressure(item.arg.cpu, item.arg.stress, machine.psi.warn)
    [] item.call = "foreground" -> UpdateForeground(item.arg)
    [] item.call = "processes"  -> UpdateProcesses(item.arg)

Updates == {"battery", "thermal", "pressure", "foreground", "processes"}

CallUpdate ==
  /\ todo # <<>> /\ Head(todo).call \in Updates
  /\ LET u == Updated(Head(todo))
     IN /\ store' = u.store /\ prev' = u.prev
        /\ todo' = Emits(u.events)
                   \o (IF u.late = NoFields THEN <<>> ELSE <<[call |-> "store", fields |-> u.late]>>)
                   \o Tail(todo)
  /\ UNCHANGED <<ruleVars, machine, status, jobs, immediates, timers, profiles, file, watch, owed>>

CallStore ==
  /\ todo # <<>> /\ Head(todo).call = "store"
  /\ store' = Head(todo).fields @@ store
  /\ todo' = Tail(todo)
  /\ UNCHANGED <<ruleVars, prev, machine, status, jobs, immediates, timers, profiles, file,
                 watch, owed>>

\* bus.emit: the wildcard listener _onAnyEvent evaluates the rules and runs what
\* matches, before anything else of the callback.
CallEmit ==
  /\ todo # <<>> /\ Head(todo).call = "emit"
  /\ LET event == Head(todo).event
         e == EvaluateEvent(event, store)
     IN /\ since' = e.since /\ firedOnce' = e.once
        /\ todo' = [i \in DOMAIN e.matches |-> [call |-> "match", rule |-> e.matches[i]]]
                   \o Tail(todo)
        /\ owed' = owed + Len(e.matches)
  /\ UNCHANGED <<rules, store, prev, machine, status, jobs, immediates, timers, profiles,
                 file, watch>>

\* _executeMatch of a rule with a delay: markFired and a timer of its own.  (Variant:
\* one timer for each rule.)
DelayedOnce(rule) ==
  LET Other(t) == t.rule # rule
  IN Append(SelectSeq(timers, Other), [rule |-> rule, wait |-> rule.delay])
Delayed(rule) == Append(timers, [rule |-> rule, wait |-> rule.delay])
CallDelayed ==
  /\ todo # <<>> /\ Head(todo).call = "match" /\ Head(todo).rule.delay > 0
  /\ LET rule == Head(todo).rule
     IN /\ since' = [since EXCEPT ![rule.id] = 0]
        /\ timers' = Delayed(rule)
  /\ todo' = Tail(todo)
  /\ UNCHANGED <<rules, firedOnce, store, prev, machine, status, jobs, immediates, profiles,
                 file, watch, owed>>

\* _runAction up to its await.  refreshPalette emits in the middle of it, and what that
\* sets off awaits before it does; emitEvent puts its emission off.
Awaits(job) == Append([i \in DOMAIN jobs |-> [jobs[i] EXCEPT !.alone = FALSE]], job)
CallRunAction ==
  /\ todo # <<>>
  /\ \/ Head(todo).call = "match" /\ Head(todo).rule.delay = 0
     \/ Head(todo).call = "run"
  /\ \E answer \in BOOLEAN :
       LET rule == Head(todo).rule
           run == Execute(rule, profiles, store, answer, jobs = <<>>)
           refreshes == rule.action.type = "refreshPalette"
       IN /\ rule.action.type # "setController" => answer
          /\ machine' = run.machine
          /\ jobs' = IF refreshes THEN jobs ELSE Awaits(run.job)
          /\ todo' = (IF refreshes THEN Emits(<<Event("onWallpaperChanged", NoFields)>>)
                                        \o <<[call |-> "await", job |-> run.job]>>
                      ELSE <<>>) \o Tail(todo)
          /\ immediates' = immediates
               \o If(rule.action.type = "emitEvent" /\ run.job.ok,
                     <<Event(rule.action.event, NoFields)>>)
  /\ UNCHANGED <<ruleVars, store, prev, status, timers, profiles, file, watch, owed>>

CallAwait ==
  /\ todo # <<>> /\ Head(todo).call = "await"
  /\ jobs' = Awaits(Head(todo).job)
  /\ todo' = Tail(todo)
  /\ UNCHANGED <<ruleVars, store, prev, machine, status, immediates, timers, profiles, file,
                 watch, owed>>

Call == CallUpdate \/ CallStore \/ CallEmit \/ CallDelayed \/ CallRunAction \/ CallAwait

(* ------------------------------ microtasks ----------------------------- *)

Awaiting == todo = <<>> /\ jobs # <<>>

\* The first job goes on to its next await.  A profile that boosts announces itself
\* when its last step has succeeded.
ResumeJob ==
  /\ Awaiting /\ Head(jobs).stage # "audit"
  /\ LET job == Head(jobs)
         next == Resume(job, store)
         name == job.rule.action.profile
     IN /\ machine' = next.machine
        /\ jobs' = Append(Tail(jobs), next.job)
        /\ immediates' = immediates
             \o If(job.stage = "proceed" /\ next.job.stage = "result" /\ job.ok
                     /\ profiles[name].boost,
                   <<Event("onProfileChanged", "profile" :> name)>>)
  /\ UNCHANGED <<ruleVars, store, prev, status, todo, timers, profiles, file, watch, owed>>

\* _runAction writes its record, whether the action succeeded or not.
Audit ==
  /\ Awaiting /\ Head(jobs).stage = "audit"
  /\ jobs' = Tail(jobs)
  /\ owed' = owed - 1
  /\ UNCHANGED <<ruleVars, store, prev, machine, status, todo, immediates, timers, profiles,
                 file, watch>>

(* ------------------------------- callbacks ----------------------------- *)

Idle == todo = <<>> /\ jobs = <<>>
Running == status = "running" /\ Idle
Roomy == Len(immediates) + Len(timers) < MaxWaiting

\* _applyLoadedPolicy.  The delays of the rules it replaces run on.
Apply(doc) ==
  /\ SetRules(doc)
  /\ profiles' = doc.profiles
EmptyDocument == [rules |-> <<>>, profiles |-> <<>>]
Lifecycle(name) == [call |-> "emit", event |-> Event(name, NoFields)]

\* start(): an unreadable file leaves the engine without rules.  The sources exist
\* before anything can call them.
Start ==
  /\ status = "new"
  /\ status' = "running"
  /\ Apply(IF file = Unreadable THEN EmptyDocument ELSE file)
  /\ todo' = <<Lifecycle("onPolicyEngineReloaded"), Lifecycle("onPolicyEngineStarted")>>
  /\ watch' = [NotWatching EXCEPT !.on = TRUE]
  /\ UNCHANGED <<store, prev, machine, jobs, immediates, timers, file, owed>>

\* What the fast tick pushes; an absent reading of battery or heat is not pushed.
FastTick ==
  /\ Running /\ Roomy
  /\ \E r \in Readings :
       todo' = If(r.battery # Undefined, <<[call |-> "battery", arg |-> r.battery]>>)
               \o If(r.temp # Undefined, <<[call |-> "thermal", arg |-> r.temp]>>)
               \o <<[call |-> "pressure", arg |-> [cpu |-> r.cpu, stress |-> r.stress]]>>
  /\ UNCHANGED <<ruleVars, store, prev, machine, status, jobs, immediates, timers, profiles,
                 file, watch, owed>>

Foreground ==
  /\ Running /\ Roomy
  /\ \E pid \in Pids : todo' = <<[call |-> "foreground", arg |-> pid]>>
  /\ UNCHANGED <<ruleVars, store, prev, machine, status, jobs, immediates, timers, profiles,
                 file, watch, owed>>

SlowTick ==
  /\ Running /\ Roomy
  /\ \E pids \in ProcessLists : todo' = <<[call |-> "processes", arg |-> pids]>>
  /\ UNCHANGED <<ruleVars, store, prev, machine, status, jobs, immediates, timers, profiles,
                 file, watch, owed>>

RunImmediate ==
  /\ Idle /\ immediates # <<>>
  /\ immediates' = Tail(immediates)
  /\ todo' = IF status = "running" THEN Emits(<<Head(immediates)>>) ELSE <<>>
  /\ UNCHANGED <<ruleVars, store, prev, machine, status, jobs, timers, profiles, file, watch,
                 owed>>

\* Of the timers that are due, one of the earliest fires.
TimerFires ==
  /\ Idle
  /\ \E i \in DOMAIN timers :
       /\ timers[i].wait <= 0
       /\ \A j \in DOMAIN timers : timers[i].wait <= timers[j].wait
       /\ timers' = RemoveAt(timers, i)
       /\ todo' = <<[call |-> "run", rule |-> timers[i].rule]>>
  /\ UNCHANGED <<ruleVars, store, prev, machine, status, jobs, immediates, profiles, file,
                 watch, owed>>

(* ------------------------------ the files ------------------------------ *)

\* A user edits the policy file.
EditFile ==
  /\ Idle
  /\ \E doc \in Documents :
       /\ <<file, doc>> \in Edits
       /\ file' = doc
       /\ watch' = [watch EXCEPT !.changed = watch.based]
  /\ UNCHANGED <<ruleVars, store, prev, machine, status, todo, jobs, immediates, timers,
                 profiles, owed>>

\* The first stat of fs.watchFile is what later ones are compared with; it is taken
\* after start() has returned.
BaseStat ==
  /\ Idle /\ watch.on /\ ~watch.based
  /\ watch' = [watch EXCEPT !.based = TRUE]
  /\ UNCHANGED <<ruleVars, store, prev, machine, status, todo, jobs, immediates, timers,
                 profiles, file, owed>>

Notice ==
  /\ Idle /\ watch.on /\ watch.changed
  /\ watch' = [watch EXCEPT !.changed = FALSE, !.wait = Debounce]
  /\ UNCHANGED <<ruleVars, store, prev, machine, status, todo, jobs, immediates, timers,
                 profiles, file, owed>>

\* _reload keeps the old rules when the file does not parse.  (Variant: the watcher is
\* lost when the editor replaces the file.)
WatchLost == [watch EXCEPT !.wait = None, !.on = FALSE]
WatchKept == [watch EXCEPT !.wait = None]
Reload ==
  /\ Idle /\ watch.on /\ watch.wait # None /\ watch.wait <= 0
  /\ watch' = WatchKept
  /\ IF file = Unreadable THEN UNCHANGED <<ruleVars, profiles, todo>>
     ELSE Apply(file) /\ todo' = <<Lifecycle("onPolicyEngineReloaded")>>
  /\ UNCHANGED <<store, prev, machine, status, jobs, immediates, timers, file, owed>>

\* A reload of the daemon's configuration puts the thresholds of the file in force,
\* whatever mode a rule has set.
ConfigReload ==
  /\ Running
  /\ machine' = [machine EXCEPT !.psi = FilePsi]
  /\ UNCHANGED <<ruleVars, store, prev, status, todo, jobs, immediates, timers, profiles,
                 file, watch, owed>>

(* ------------------------- the end and the clock ----------------------- *)

\* cleanupAndExit: the governors are restored, then the engine is destroyed.  What
\* was put off by setImmediate still comes, to a destroyed bus.  (Variant: the delayed
\* actions are forgotten, but their timers run.)
TimersLeft == timers
TimersCleared == <<>>
Destroy ==
  /\ Running
  /\ status' = "destroyed"
  /\ machine' = RestoreGovernors(machine)
  /\ ClearRules
  /\ store' = NoFields
  /\ timers' = TimersCleared
  /\ owed' = owed - Len(timers)
  /\ watch' = NotWatching
  /\ UNCHANGED <<prev, todo, jobs, immediates, profiles, file>>

Advance ==
  /\ Running
  /\ \A i \in DOMAIN timers : timers[i].wait > -Late
  /\ watch.wait # None => watch.wait > -Late
  /\ immediates = <<>>
  /\ timers' = [i \in DOMAIN timers |-> [timers[i] EXCEPT !.wait = @ - 1]]
  /\ watch' = [watch EXCEPT !.wait = IF @ = None THEN None ELSE @ - 1]
  /\ since' = Age(since)
  /\ UNCHANGED <<rules, firedOnce, store, prev, machine, status, todo, jobs, immediates,
                 profiles, file, owed>>

Callback == Start \/ RunImmediate \/ TimerFires \/ BaseStat \/ Notice \/ Reload
Input == FastTick \/ Foreground \/ SlowTick \/ EditFile \/ ConfigReload \/ Destroy

Next == Call \/ ResumeJob \/ Audit \/ Callback \/ Input \/ Advance

\* The loop does not stop, and what waits in one of its queues is taken from it; nothing
\* is said of what users and sensors do.
Fairness ==
  /\ WF_vars(Call \/ ResumeJob \/ Audit)
  /\ SF_vars(RunImmediate) /\ SF_vars(TimerFires)
  /\ SF_vars(Notice) /\ SF_vars(Reload) /\ SF_vars(Advance)

Spec == Init /\ [][Next]_vars /\ Fairness
(* ------------------------------ properties ----------------------------- *)

Stages == {"settle", "step", "proceed", "result", "audit"}

\* The values stay in their types.
TypeOK ==
  /\ status \in {"new", "running", "destroyed"}
  /\ machine \in MachineType
  /\ since \in [RuleIds -> 0..LongAgo]
  /\ firedOnce \subseteq RuleIds
  /\ file \in Documents
  /\ watch.wait \in {None} \cup (-Late)..Debounce
  /\ \A i \in DOMAIN jobs : jobs[i].stage \in Stages /\ jobs[i].ok \in BOOLEAN
  /\ \A i \in DOMAIN timers : timers[i].wait >= -Late
  /\ owed \in Nat

\* "Records an audit entry regardless of outcome" (policy-engine.js:379): whatever
\* matched and is not in the audit log is still a call, a running delay or a job, and
\* only the end of the engine drops it.
AuditComplete ==
  LET ToRun == {i \in DOMAIN todo : todo[i].call \in {"match", "run", "await"}}
  IN owed = Cardinality(ToRun) + Len(timers) + Len(jobs)

\* When the daemon has cleaned up, and for ever after, every core has the governor it
\* had before, whichever cores rules and profiles had switched in between.
GovernorHandedBack ==
  status = "destroyed" => machine.governor = [c \in Cores |-> InitialGovernor]

\* An action that failed, with no other action in between, leaves the thresholds it
\* found, and on each core the governor it found or the one the daemon captured.
FailedActionUndone ==
  \A i \in DOMAIN jobs :
    LET job == jobs[i]
    IN job.stage = "audit" /\ ~job.ok /\ job.alone =>
         /\ machine.psi = job.before.psi
         /\ \A c \in Cores :
              machine.governor[c] \in {job.before.governor[c], machine.captured[c]}

\* Rules that emit events, their own included, do not keep the event loop busy: again
\* and again nothing is left to do before time passes.
LoopComesToRest == []<>(Idle /\ immediates = <<>>)

\* The file is obeyed: of its valid rules within MaxRules those that are the last of
\* their id are in force, and nothing is that it does not say, the most important first.
\* What an earlier rule of an id that is repeated does is left open: the documentation
\* (PolicyEngine.md:268) and the loader's warning (policy-loader.js:280) say that it gives
\* way to the last, while policy-loader.js:283 keeps it in force as well.
Obeyed(doc) ==
  LET Valid == {n \in DOMAIN doc.rules : doc.rules[n].valid}
      Taken == {n \in Valid : Cardinality({m \in Valid : m <= n}) <= MaxRules}
      LastOfId(n) == \A m \in Valid : m > n => doc.rules[m].id # doc.rules[n].id
  IN /\ \A n \in Taken : LastOfId(n) => NormalizeRule(doc.rules[n]) \in ToSet(rules)
     /\ ToSet(rules) \subseteq {NormalizeRule(doc.rules[n]) : n \in Taken}
     /\ \A i, j \in DOMAIN rules : i < j => rules[i].priority >= rules[j].priority

\* An edit of the policy file that the watcher can see comes into force unless it is
\* edited again, does not parse, or the engine ends.
EditsTakeEffect ==
  \A doc \in {edit[2] : edit \in Edits} \ {Unreadable} :
    (watch.changed /\ file = doc) ~> (Obeyed(doc) \/ file # doc \/ status = "destroyed")
=============================================================================
