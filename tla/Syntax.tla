------------------------------- MODULE Syntax -------------------------------
(* Expressions of the SQL syntax tree.                                     *)

Col(t, c) == [k |-> "col", tab |-> t, name |-> c]
Lit(v) == [k |-> "lit", val |-> v]
Fn(f, e) == [k |-> "fn", f |-> f, arg |-> e]
Op(o, l, r) == [k |-> "op", op |-> o, l |-> l, r |-> r]
Between(e, lo, hi) == [k |-> "between", arg |-> e, lo |-> lo, hi |-> hi]
In(e, vs) == [k |-> "in", arg |-> e, vals |-> vs]     \* a subquery has no list
Agg(f, e, as) == [k |-> "agg", f |-> f, arg |-> e, as |-> as]
Star == [k |-> "star"]

Literals(es) == [i \in DOMAIN es |-> es[i].val]
=============================================================================
