------------------------------ MODULE MCPolicy ------------------------------
(***************************************************************************)
(* A small instance of PolicyEngine: three policy files.                   *)
(***************************************************************************)
EXTENDS PolicyEngine

CONSTANTS unreadable

Leaf(field, op, value) ==
  [kind |-> "leaf", tests |-> {[field |-> field, op |-> op, value |-> value]}]
Compound(kind, args) == [kind |-> kind, args |-> args]
MCConditions ==
  [always    |-> [kind |-> "leaf", tests |-> {}],
   low       |-> Leaf("battery.capacity", "<=", 20),
   plugged   |-> Leaf("battery.plugged", "==", TRUE),
   busy      |-> Leaf("cpu.pressure", ">", 4),
   unplugged |-> Compound("NOT", {"plugged"}),
   weak      |-> Compound("AND", {"unplugged", "low"}),
   either    |-> Compound("OR", {"weak", "busy"})]

Rule(id, event, action) ==
  [valid |-> TRUE, id |-> id, event |-> event, cond |-> "always", action |-> action,
   priority |-> 0, cooldown |-> 0, delay |-> 0, once |-> FALSE, enabled |-> TRUE]

Profile(mode, governor, boost) ==
  [mode |-> mode, governor |-> governor, cores |-> "foreground", boost |-> boost]

\* A profile under load, a governor switched after a delay, a mode nobody knows.
Performance ==
  [rules |-> <<Rule(1, "onCpuHigh", [type |-> "applyProfile", profile |-> "fast"]),
               [Rule(2, "onCpuNormal", [type |-> "setGovernor", governor |-> "powersave",
                                        cores |-> "all"])
                EXCEPT !.delay = 1],
               Rule(3, "onForegroundChanged", [type |-> "setSchedulerMode", mode |-> "frugal"])>>,
   profiles |-> [fast |-> Profile("aggressive", "performance", TRUE)]]

\* A profile that fails half way, two rules of one event, a rule that feeds itself, an
\* emission of no event, a type of action nobody knows.
Broken ==
  [rules |-> <<Rule(1, "onCpuHigh", [type |-> "applyProfile", profile |-> "bad"]),
               [Rule(2, "onCpuHigh", [type |-> "setSchedulerMode", mode |-> "aggressive"])
                EXCEPT !.priority = 1, !.once = TRUE],
               [Rule(3, "onAcUnplugged", [type |-> "emitEvent", event |-> "onAcUnplugged"])
                EXCEPT !.cond = "weak"],
               Rule(2, "onForegroundChanged", [type |-> "emitEvent", event |-> None]),
               Rule(2, "onProcessExited", [type |-> "teleport"])>>,
   profiles |-> [bad |-> Profile("conservative", InvalidGovernor, FALSE)]]

\* A rule that is not valid, one that is off, an id used twice, the other actions, and
\* one rule more than MaxRules lets in.
Mixed ==
  [rules |-> <<[Rule(1, AnyEvent, [type |-> "log"]) EXCEPT !.valid = FALSE],
               [Rule(1, AnyEvent, [type |-> "log"]) EXCEPT !.enabled = FALSE],
               [Rule(1, AnyEvent, [type |-> "log"]) EXCEPT !.once = TRUE],
               [Rule(2, "onForegroundChanged", [type |-> "boostProcess", pid |-> "foreground"])
                EXCEPT !.cooldown = 1],
               [Rule(2, "onForegroundChanged", [type |-> "setController"])
                EXCEPT !.cond = "either"],
               [Rule(3, "onProcessExited", [type |-> "refreshPalette"]) EXCEPT !.cooldown = Undeclared],
               Rule(3, AnyEvent, [type |-> "throttleProcess", pid |-> "foreground"])>>,
   profiles |-> <<>>]

MCDocuments == {Performance, Broken, Mixed, unreadable}
\* A file that does not parse is mended, and breaks again.
MCEdits == {<<unreadable, Mixed>>, <<Mixed, unreadable>>}
MCProcessLists == {{}, {11}}

Battery(onBattery, capacity) == [onBattery |-> onBattery, capacity |-> capacity]
Reading(battery, temp, cpu, stress) ==
  [battery |-> battery, temp |-> temp, cpu |-> cpu, stress |-> stress]
MCReadings ==
  {Reading(Battery(FALSE, 50), Undefined, 2, "NORMAL"),
   Reading(Battery(TRUE, 10), 80, 9, "WARN")}

MCDefaultPsi == [warn |-> 8, crit |-> 20]
MCFilePsi == [warn |-> 6, crit |-> 20]
=============================================================================
