---------------------------- MODULE VramReclaim ----------------------------
(***************************************************************************)
(* lib/controllers/vram-reclaim-controller.js: under pressure on the video *)
(* memory the controller stops (SIGSTOP) the largest users of it for a     *)
(* while and continues them (SIGCONT).  What the GPU driver lists, the     *)
(* readings and the deaths of processes are the environment's.  Times are  *)
(* countdowns, in units that Elapse counts down.                           *)
(***************************************************************************)
EXTENDS Naturals, FiniteSets, FiniteSetsExt, LayerConstants

CONSTANTS Pids,        \* pids that may use video memory
          Protected,   \* those whose name is in NEVER_SUSPEND
          NoPid,       \* no foreground
          Hold,        \* VRAM_RECLAIM_HOLD_MS
          Cooldown,    \* VRAM_RECLAIM_COOLDOWN_MS
          TickEvery,   \* VRAM_RECLAIM_TICK_MS
          MaxPerTick,  \* VRAM_RECLAIM_MAX_PER_TICK
          MaxReloads   \* bound: reloads of the configuration

\* config.js bounds each of the three times by itself: the defaults are a hold
\* of 3000 ms, a cooldown of 30000 ms and a tick every 5000 ms.
ASSUME VramAssumption ==
  /\ Protected \subseteq Pids /\ NoPid \notin Pids
  /\ Hold \in Nat \ {0} /\ Cooldown \in Nat \ {0}
  /\ TickEvery \in Nat \ {0} /\ MaxPerTick \in Nat \ {0}
  /\ MaxReloads \in Nat
  /\ None \notin Nat

VARIABLES held,       \* _suspendedPids: what is left of the hold of a pid
          cooling,    \* _cooldowns: what is left of the cooldown of a pid
          reclaim,    \* _state
          due,        \* what is left until the interval fires
          vramTimer,  \* _tickTimer is set
          vramOn,     \* ENABLE_VRAM_RECLAIM
          focused,    \* State.currentForegroundPid
          alive,      \* the processes there are
          stopped,    \* those among them that SIGSTOP stopped
          reloads     \* how often the configuration was reloaded
vramVars == <<held, cooling, reclaim, due, vramTimer, vramOn, focused, alive, stopped, reloads>>

VramInit ==
  /\ held = [p \in Pids |-> None] /\ cooling = [p \in Pids |-> 0]
  /\ reclaim = "idle" /\ due = TickEvery /\ vramTimer = TRUE /\ vramOn = TRUE
  /\ focused = NoPid /\ alive = Pids /\ stopped = {} /\ reloads = 0

-----------------------------------------------------------------------------
\* _resumeExpired and _resumeAll: SIGCONT may fail, the entry goes all the same.
Resumed(pids) == [p \in Pids |-> IF p \in pids THEN None ELSE held[p]]
Expired == {p \in Pids : held[p] = 0}
Holding == {p \in Pids : held[p] # None}

\* What a tick continues: _resumeExpired comes before the reading, which can
\* make the tick return.  A mutant has them the other way round.
DueIfRead(usage) == IF usage = None THEN {} ELSE Expired
DueInTick(usage) == Expired

\* A process on the driver's list that _attemptReclaim takes, h being the
\* entries there are.
Eligible(p, h) ==
  p # focused /\ p \notin Protected /\ cooling[p] = 0 /\ h[p] = None

\* _attemptReclaim: the first MaxPerTick that are eligible on a list in an
\* order the model leaves open.  A pid whose process died since the list was
\* made counts too, although SIGSTOP fails and nothing is recorded of it.
AttemptReclaim(listed, h, running) ==
  LET candidates == {p \in listed : Eligible(p, h)}
      takes == IF Cardinality(candidates) < MaxPerTick
                 THEN Cardinality(candidates) ELSE MaxPerTick
  IN \E S \in kSubset(takes, candidates) :
       /\ held' = [p \in Pids |-> IF p \in S \cap alive THEN Hold ELSE h[p]]
       /\ cooling' = [p \in Pids |-> IF p \in S \cap alive THEN Cooldown ELSE cooling[p]]
       /\ stopped' = running \cup (S \cap alive)
       /\ reclaim' = IF S # {} THEN "reclaiming" ELSE IF reclaim = "idle"
                       THEN "pressure_detected" ELSE reclaim

NoReclaim(h, running, state) ==
  held' = h /\ stopped' = running /\ reclaim' = state /\ UNCHANGED cooling

\* _tick, which does nothing while the feature is off.  usage is "high" from the high watermark on, "low"
\* below the low one, None when the driver does not answer; oom is what dmesg
\* says, looked at only when idle.
VramTick(usage, oom, listed) ==
  LET h == Resumed(DueInTick(usage))
      running == stopped \ DueInTick(usage)
  IN
  /\ vramTimer /\ due = 0 /\ due' = TickEvery
  /\ \/ ~vramOn /\ NoReclaim(held, stopped, reclaim)
     \/ vramOn /\ usage = None /\ NoReclaim(h, running, reclaim)
     \/ /\ vramOn /\ usage # None /\ reclaim = "idle"
        /\ IF usage = "high" \/ oom THEN AttemptReclaim(listed, h, running)
                                   ELSE NoReclaim(h, running, reclaim)
     \/ /\ vramOn /\ usage # None /\ reclaim # "idle"
        /\ IF usage = "low" THEN NoReclaim(h, running, "idle")
                            ELSE AttemptReclaim(listed, h, running)
  /\ UNCHANGED <<vramTimer, vramOn, focused, alive, reloads>>

\* IPC "vram" with forceRelease.
ForceResume ==
  /\ vramTimer
  /\ held' = Resumed(Holding) /\ stopped' = stopped \ Holding
  /\ UNCHANGED <<cooling, reclaim, due, vramTimer, vramOn, focused, alive, reloads>>

\* stop(), which destroy() and the daemon's cleanup call.
\* A mutant only clears the timer.
KeepOnStop   == UNCHANGED <<held, stopped>>
ResumeOnStop == held' = Resumed(Holding) /\ stopped' = stopped \ Holding
StopVram ==
  /\ vramTimer /\ vramTimer' = FALSE
  /\ ResumeOnStop
  /\ UNCHANGED <<cooling, reclaim, due, vramOn, focused, alive, reloads>>

-----------------------------------------------------------------------------
\* The environment: processes die (a stopped one by SIGKILL) and pids are used
\* again, the focus moves, the configuration is reloaded, time passes.
ProcessDies(p)   == /\ p \in alive /\ alive' = alive \ {p} /\ stopped' = stopped \ {p}
                    /\ UNCHANGED <<held, cooling, reclaim, due, vramTimer, vramOn, focused, reloads>>
ProcessStarts(p) == /\ p \notin alive /\ alive' = alive \cup {p}
                    /\ UNCHANGED <<held, cooling, reclaim, due, vramTimer, vramOn, focused, stopped, reloads>>
FocusMoves(p)    == /\ p \in alive \cup {NoPid} /\ p # focused /\ focused' = p
                    /\ UNCHANGED <<held, cooling, reclaim, due, vramTimer, vramOn, alive, stopped, reloads>>
\* setConfig starts the interval anew, also when another field changed.
ReloadVram(on)   == /\ vramTimer /\ vramOn' = on /\ due' = TickEvery
                    /\ reloads < MaxReloads /\ reloads' = reloads + 1
                    /\ UNCHANGED <<held, cooling, reclaim, vramTimer, focused, alive, stopped>>

LessOne(n) == IF n = 0 THEN 0 ELSE n - 1
\* The interval fires on time: no time passes while a tick is due.
Elapse ==
  /\ vramTimer => due > 0
  /\ due' = LessOne(due)
  /\ held' = [p \in Pids |-> IF held[p] = None THEN None ELSE LessOne(held[p])]
  /\ cooling' = [p \in Pids |-> LessOne(cooling[p])]
  /\ UNCHANGED <<reclaim, vramTimer, vramOn, focused, alive, stopped, reloads>>

VramTicks == \E usage \in {"high", "mid", "low", None}, oom \in BOOLEAN, listed \in SUBSET Pids :
               VramTick(usage, oom, listed)

VramNext ==
  \/ VramTicks
  \/ ForceResume
  \/ StopVram
  \/ \E p \in Pids : ProcessDies(p)
  \/ \E p \in Pids : ProcessStarts(p)
  \/ \E p \in Pids \cup {NoPid} : FocusMoves(p)
  \/ \E on \in BOOLEAN : ReloadVram(on)
  \/ Elapse

-----------------------------------------------------------------------------
VramTypeOK ==
  /\ held \in [Pids -> 0..Hold \cup {None}] /\ cooling \in [Pids -> 0..Cooldown]
  /\ reclaim \in {"idle", "pressure_detected", "reclaiming"}
  /\ due \in 0..TickEvery /\ vramTimer \in BOOLEAN /\ vramOn \in BOOLEAN
  /\ focused \in Pids \cup {NoPid} /\ alive \subseteq Pids /\ reloads \in 0..MaxReloads

\* Every process the controller stopped is one it still has an entry for, so
\* that something will continue it, whatever died, was listed or used a pid
\* again meanwhile; and once the controller has stopped, none is left stopped.
StoppedIsKnown == stopped \subseteq Holding /\ (~vramTimer => stopped = {})

\* A stopped process runs again, also when the driver stops answering and when
\* the pressure never ends, unless a reload switches the controller off or
\* reloads never end, which start the interval anew.  With a cooldown that a tick finds
\* over together with the hold it would be stopped again in the same tick.
SuspensionEnds ==
  \A p \in Pids : (p \in stopped) ~> (p \notin stopped \/ ~vramOn)
=============================================================================
