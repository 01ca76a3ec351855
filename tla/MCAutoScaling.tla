--------------------------- MODULE MCAutoScaling ---------------------------
(***************************************************************************)
(* Small instances of AutoScaling: a handful of specs that differ in one   *)
(* part each.                                                              *)
(***************************************************************************)
EXTENDS AutoScaling

CONSTANTS t1, t2, a, b, low, high, wrong, inner, outer, r1, r2

Q(n, s, d) == [name |-> n, setting |-> s, detail |-> d]
P(n, s) == Q(n, s, inner)
T(t, lo, hi, r, ps) ==
  [target |-> t, min |-> lo, max |-> hi, role |-> r, policies |-> ps, malformed |-> FALSE]
S(t, lo, hi, ps) == T(t, lo, hi, r1, ps)

\* No policy, one, two, another setting, one name twice, one without a name,
\* one that is rejected after a good one, another capacity, another target,
\* no target, no capacity, capacities in the wrong order, a malformed list; the
\* one policy again with another detail, another role, and no role.
AllSpecs ==
  {S(t1, 0, 1, << >>), S(t1, 0, 1, << P(a, low) >>), S(t1, 0, 1, << P(a, high), P(b, low) >>),
   S(t1, 0, 1, << P(a, high), P(a, low), P(NoName, low) >>),
   S(t1, 0, 1, << P(b, low), P(a, wrong) >>),
   S(t1, 1, 1, << P(a, low) >>), S(t2, 0, 1, << P(a, low) >>),
   S(NoTarget, 0, 1, << >>), S(t1, NoCapacity, 1, << P(a, low) >>), S(t1, 1, 0, << >>),
   [S(t1, 0, 1, << P(a, low) >>) EXCEPT !.malformed = TRUE],
   S(t1, 0, 1, << Q(a, low, outer) >>), T(t1, 0, 1, r2, << P(a, low) >>),
   T(t1, 0, 1, NoRole, << P(a, low) >>)}
=============================================================================
