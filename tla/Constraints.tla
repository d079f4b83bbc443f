------------------------------ MODULE Constraints -----------------------------
(***************************************************************************)
(* Claims, and atomic constraints on them.                                 *)
(***************************************************************************)

CONSTANTS
  Key,          \* claim keys: what a constraint's leftOperand names
  Value,        \* claim values and right operands
  Earlier,      \* pairs <<u, v>> of values that parse to comparable values, u below v
  SameInstant   \* pairs of values that parse to equal comparable values

Operators == {"eq", "neq", "isAnyOf", "isAllOf", "isNoneOf", "isPartOf",
              "lt", "lteq", "gt", "gteq"}

(* rightOperand is the set of candidates a comma-separated operand lists.  *)
Constraint ==
  [leftOperand : Key, operator : Operators, rightOperand : (SUBSET Value) \ {{}}]

(* A claims map: the keys asserted, each with the values it holds.  A key  *)
(* that is present with no values differs from an absent one.              *)
Claims == UNION {[K -> SUBSET Value] : K \in SUBSET Key}

-------------------------------------------------------------------------------
(* Ordering operators hold if some value of the claim orders so against    *)
(* the operand; operands that do not parse alike never do.                 *)
ordering_matches(operator, u, v) ==
  \/ operator \in {"lt", "lteq"} /\ <<u, v>> \in Earlier
  \/ operator \in {"gt", "gteq"} /\ <<v, u>> \in Earlier
  \/ operator \in {"lteq", "gteq"} /\ <<u, v>> \in SameInstant

(* A constraint on an absent claim fails closed, except isNoneOf.          *)
evaluate(c, claims) ==
  IF c.leftOperand \notin DOMAIN claims
    THEN c.operator = "isNoneOf"
    ELSE LET held == claims[c.leftOperand] IN
      \/ c.operator \in {"eq", "isAnyOf", "isPartOf"} /\ held \cap c.rightOperand # {}
      \/ c.operator \in {"neq", "isNoneOf"} /\ held \cap c.rightOperand = {}
      \/ c.operator = "isAllOf" /\ c.rightOperand \subseteq held
      \/ \E u \in held, v \in c.rightOperand : ordering_matches(c.operator, u, v)

(* A logical list over its operands, of which held hold. *)
combine(field, operands, held) ==
  \/ field = "xone" /\ \E one \in held : held = {one}
  \/ field = "or" /\ held # {}
  \/ field \in {"and", "andSequence"} /\ held = operands

===============================================================================
