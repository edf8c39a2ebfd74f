------------------------------- MODULE Matcher -------------------------------
(***************************************************************************)
(* The conditions of policy rules (policy-engine/matcher.js): tests of     *)
(* fields joined by AND, OR and NOT.  A field is looked up in the payload  *)
(* of the event first and in the state store otherwise.                    *)
(*                                                                         *)
(* A payload and a store are functions on the fields they have.  The short *)
(* and the explicit form of a test are one; the operators on strings and   *)
(* lists compare like "==" and are left out.                               *)
(***************************************************************************)
EXTENDS Naturals

CONSTANTS Conditions,  \* the conditions of the rules and their parts, by name
          Undefined    \* the value of a field that nobody has set

\* A leaf is a set of tests, an AND, OR or NOT has the names of its parts.
ASSUME ConditionAssumption ==
  \A c \in DOMAIN Conditions :
    Conditions[c].kind # "leaf" => Conditions[c].args \subseteq DOMAIN Conditions

ResolveField(field, payload, store) ==
  IF field \in DOMAIN payload THEN payload[field]
  ELSE IF field \in DOMAIN store THEN store[field]
  ELSE Undefined

\* A test of a field without value fails, whatever its operator.
ApplyOp(op, left, right) ==
  /\ left # Undefined
  /\ CASE op = "<"  -> left < right
       [] op = "<=" -> left <= right
       [] op = ">"  -> left > right
       [] op = ">=" -> left >= right
       [] op = "==" -> left = right
       [] op = "!=" -> left # right
       [] op = "exists" -> right

EvalLeaf(tests, payload, store) ==
  \A t \in tests : ApplyOp(t.op, ResolveField(t.field, payload, store), t.value)

Evaluate(cond, payload, store) ==
  LET holds[name \in DOMAIN Conditions] ==
        LET c == Conditions[name]
        IN CASE c.kind = "leaf" -> EvalLeaf(c.tests, payload, store)
             [] c.kind = "AND"  -> \A d \in c.args : holds[d]
             [] c.kind = "OR"   -> \E d \in c.args : holds[d]
             [] c.kind = "NOT"  -> \A d \in c.args : ~holds[d]
  IN holds[cond]
=============================================================================
