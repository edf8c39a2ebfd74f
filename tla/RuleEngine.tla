----------------------------- MODULE RuleEngine -----------------------------
(***************************************************************************)
(* Policy files and the rules in force (policy-engine/policy-loader.js,    *)
(* policy-engine/rule-engine.js): which rules of a file are taken, in what *)
(* order they are evaluated, and which of them an event lets fire.         *)
(*                                                                         *)
(* A document is what the policy file holds.  Its rules are records        *)
(*   [valid, id, event, cond, action, priority, cooldown, delay, once,     *)
(*    enabled]                                                             *)
(* where "valid" says that normalizeRule does not throw and "cond" stands  *)
(* for the short and the structured condition together.                    *)
(***************************************************************************)
EXTENDS Matcher, Sequences, SequencesExt

CONSTANTS RuleIds,
          AnyEvent,          \* a rule without "when"
          DefaultCooldown,   \* POLICY_DEFAULT_COOLDOWN_MS
          MinEmitCooldown,   \* MIN_EMIT_EVENT_COOLDOWN
          MaxRules,          \* POLICY_MAX_RULES
          LongAgo            \* bound: no cooldown is longer than this

ASSUME RuleAssumption ==
  /\ LongAgo \in Nat
  /\ DefaultCooldown \in 0..LongAgo
  /\ MinEmitCooldown \in 1..LongAgo
  /\ MaxRules \in Nat \ {0}

VARIABLES rules,      \* _rules, highest priority first
          since,      \* the time since the moment in _lastFired, up to LongAgo
          firedOnce   \* _firedOnce

ruleVars == <<rules, since, firedOnce>>

Undeclared == -1
NoneFired == [id \in RuleIds |-> LongAgo]

(* ------------------------------ the file ------------------------------ *)

\* _computeCooldown: a rule that emits an event rests for a moment, lest it
\* trigger itself for ever.  (Variant: it need not.)
DeclaredCooldown(raw) ==
  IF raw.cooldown = Undeclared THEN DefaultCooldown ELSE raw.cooldown
ComputeCooldownDeclared(raw) == DeclaredCooldown(raw)
ComputeCooldown(raw) ==
  IF raw.action.type = "emitEvent" /\ DeclaredCooldown(raw) < MinEmitCooldown
  THEN MinEmitCooldown ELSE DeclaredCooldown(raw)

NormalizeRule(raw) == [raw EXCEPT !.cooldown = ComputeCooldown(raw)]

\* validatePolicy drops the rules that normalizeRule rejects; of two rules with
\* one id it keeps both.
ValidRules(doc) ==
  LET taken[n \in 0..Len(doc.rules)] ==
        IF n = 0 THEN <<>>
        ELSE IF doc.rules[n].valid THEN Append(taken[n - 1], NormalizeRule(doc.rules[n]))
        ELSE taken[n - 1]
  IN taken[Len(doc.rules)]

\* setRules cuts the list where it is too long and then sorts it, keeping the
\* order of rules of one priority.
Sorted(list) ==
  LET Before(i, j) ==
        \/ list[i].priority > list[j].priority
        \/ list[i].priority = list[j].priority /\ i < j
      Ranked(k) == CHOOSE j \in DOMAIN list :
                     Cardinality({i \in DOMAIN list : Before(i, j)}) = k - 1
  IN [k \in DOMAIN list |-> list[Ranked(k)]]

InForce(doc) ==
  LET list == ValidRules(doc)
  IN Sorted(SubSeq(list, 1, IF Len(list) > MaxRules THEN MaxRules ELSE Len(list)))

SetRules(doc) ==
  /\ rules' = InForce(doc)
  /\ since' = NoneFired
  /\ firedOnce' = {}

ClearRules ==
  /\ rules' = <<>>
  /\ since' = NoneFired
  /\ firedOnce' = {}

(* ----------------------------- evaluation ----------------------------- *)

\* The state of one evaluation: what fired before it and in it, and the rules
\* that have matched so far.
Evaluation == [since |-> since, once |-> firedOnce, matches |-> <<>>]

CoolingDown(rule, e) == e.since[rule.id] < rule.cooldown

Matches(rule, event, e, store) ==
  /\ rule.enabled
  /\ rule.event \in {AnyEvent, event.name}
  /\ ~(rule.once /\ rule.id \in e.once)
  /\ ~CoolingDown(rule, e)
  /\ Evaluate(rule.cond, event.payload, store)

\* One turn of the loop of evaluateEvent.
EvaluateRule(rule, event, e, store) ==
  IF ~Matches(rule, event, e, store) THEN e
  ELSE [since   |-> [e.since EXCEPT ![rule.id] = 0],
        once    |-> IF rule.once THEN e.once \cup {rule.id} ELSE e.once,
        matches |-> Append(e.matches, rule)]

EvaluateEvent(event, store) ==
  LET turn[n \in 0..Len(rules)] ==
        IF n = 0 THEN Evaluation ELSE EvaluateRule(rules[n], event, turn[n - 1], store)
  IN turn[Len(rules)]

\* Time passes.
Age(since1) == [id \in RuleIds |-> IF since1[id] < LongAgo THEN since1[id] + 1 ELSE LongAgo]
=============================================================================
