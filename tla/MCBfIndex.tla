----------------------------- MODULE MCBfIndex -----------------------------
(***************************************************************************)
(* Small instances of BfIndex.                                             *)
(***************************************************************************)
EXTENDS BfIndex

CONSTANTS t1, t2, A, B

Recs == [src: {A, B}, dst: {A, B}, port: BOOLEAN]

Leaf(field, oper, net) == <<[type |-> "addr", field |-> field, oper |-> oper, net |-> net]>>
Other(matches) == <<[type |-> "other", matches |-> matches]>>
Port == Other({r \in Recs : r.port})

\* The nodes of g behind n others.
Behind(n, g) ==
    [i \in DOMAIN g |-> IF IsOper(g[i]) THEN [g[i] EXCEPT !.left = @ + n, !.right = @ + n] ELSE g[i]]

Oper(type, f, g) ==
    f \o Behind(Len(f), g)
      \o <<[type |-> type, left |-> Len(f), right |-> Len(f) + Len(g)]>>

And(f, g) == Oper("and", f, g)
Or(f, g) == Oper("or", f, g)
Not(f) == Other({r \in Recs : ~Matches(f, r)})

\* How the filter language writes "ip a".
Ip(a) == Or(Leaf("src", "eq", {a}), Leaf("dst", "eq", {a}))

\* Filters in which no disjunction has an operand that is left out next to one that
\* is not.
PlainFilters ==
    {Port, Not(Ip(A)), Ip(A), Or(Ip(A), Ip(B)), And(Ip(A), Ip(B)), And(Ip(A), Port),
     And(Not(Ip(A)), Leaf("dst", "eq", {B})),
     And(And(Leaf("src", "eq", {A, B}), Port), Leaf("dst", "eq", {B})),
     And(Or(Leaf("src", "ne", {A}), Leaf("dst", "eq", {A})), Leaf("src", "eq", {B})),
     Or(And(Leaf("src", "eq", {A}), Port), Leaf("dst", "eq", {B})),
     And(Or(Port, Not(Port)), Leaf("src", "eq", {A}))}

ASSUME PlainFiltersIndexable == \A f \in PlainFilters : Indexable(f)

\* An operand of the disjunction is not an address.
MixedFilters == {Or(Ip(A), Port), And(Ip(B), Or(Leaf("src", "eq", {A}), Not(Ip(B))))}

ASSUME MixedFiltersNot == \A f \in MixedFilters : ~Indexable(f)

============================================================================
