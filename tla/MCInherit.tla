------------------------------- MODULE MCInherit ------------------------------
(* Every list of up to two policies over three ids, each naming up to two  *)
(* parents, and of up to MaxPolicies policies whose parents differ:        *)
(* self-loops, cycles, diamonds, repeated parents, ids nobody has and ids  *)
(* two policies share; and diamonds of four policies.                      *)
EXTENDS Shadow

CONSTANTS MaxPolicies, a, b, c, d

Named(id, parents) == [id |-> id, inheritFrom |-> parents]

Shapes ==
  {Named(id, parents) : id \in {a, b, c},
                        parents \in UNION {[1..n -> {a, b, c}] : n \in 0..2}}

FourDiamonds ==
  {<<Named(a, <<b, c>>), Named(b, p), Named(c, q), Named(d, r)>> :
     p \in {<<d>>, <<c>>}, q \in {<<d>>, <<d, d>>}, r \in {<<>>, <<b>>}}

PlainShapes ==
  {s \in Shapes : Len(s.inheritFrom) = 2 => s.inheritFrom[1] # s.inheritFrom[2]}

MCRequests ==
  FourDiamonds
  \cup (UNION {[1..n -> Shapes] : n \in 0..2})
  \cup (UNION {[1..n -> PlainShapes] : n \in 3..MaxPolicies})
===============================================================================
