----------------------------- MODULE QueryProofs -----------------------------
(***************************************************************************)
(* Theorems about queries, for every WHERE clause, store and limit: the    *)
(* type invariant, the isolation of tenants, the soundness of pushdown and  *)
(* the exactness of the answer.                                            *)
(***************************************************************************)
EXTENDS Query, WellFoundedInduction, TLAPS

-----------------------------------------------------------------------------
(* Lemmas about evaluation and planning *)

\* Evaluating a WHERE clause gives one of the three verdicts.
LEMMA EvalVerdict == ASSUME NEW w, NEW r PROVE Eval(w, r) \in Verdicts
  BY DEF Eval, Verdicts

\* A record that a single AND chain accepts satisfies each of its terms.
LEMMA SingleChain ==
  ASSUME NEW w, DOMAIN w = {1}, NEW r, Eval(w, r) = "true"
  PROVE  \A j \in DOMAIN w[1] : Verdict(w[1][j], r) = "true"
<1>1. Accepts(w, r) BY DEF Eval
<1>2. w # <<>> BY DOMAIN w = {1}
<1>3. QED BY <1>1, <1>2 DEF Accepts, AndAccepts

\* The filter's result is one AND chain that ends with the tenant's term.
LEMMA FilterShape ==
  ASSUME NEW w, NEW tenant
  PROVE  /\ DOMAIN TenantFilter(w, tenant) = {1}
         /\ \E j \in DOMAIN TenantFilter(w, tenant)[1] :
               TenantFilter(w, tenant)[1][j] = TenantTerm(tenant)
<1> DEFINE T == TenantTerm(tenant)
           P == Parenthesized(w)
<1> HIDE DEF T, P
<1>1. CASE w = <<>>
  <2>1. TenantFilter(w, tenant) = <<<<T>>>> BY <1>1 DEF TenantFilter, T
  <2>2. DOMAIN <<<<T>>>> = {1} /\ <<<<T>>>>[1][1] = T /\ 1 \in DOMAIN <<T>>
    OBVIOUS
  <2>3. QED BY <2>1, <2>2 DEF T
<1>2. CASE w # <<>>
  <2>1. TenantFilter(w, tenant) = <<<<P, T>>>> BY <1>2 DEF TenantFilter, T, P
  <2>2. /\ DOMAIN <<<<P, T>>>> = {1}
        /\ <<<<P, T>>>>[1][2] = T /\ 2 \in DOMAIN <<P, T>>
    OBVIOUS
  <2>3. QED BY <2>1, <2>2 DEF T
<1>3. QED BY <1>1, <1>2

\* The filter turns a WHERE clause into a WHERE clause.
LEMMA FilterType ==
  ASSUME NEW w, NEW tenant \in STRING
  PROVE  TenantFilter(w, tenant) \in Seq(Seq(Terms))
<1>1. TenantTerm(tenant) \in Terms
  <2>1. [kind |-> "text", num |-> 0, text |-> tenant] \in Literals
    BY DEF Literals
  <2>2. "=" \in Operators /\ "tenant_id" \in Fields BY DEF Operators, Fields
  <2> DEFINE lit == [kind |-> "text", num |-> 0, text |-> tenant]
  <2>3. lit \in Literals BY <2>1
  <2> HIDE DEF lit
  <2>4. [kind |-> "compare", field |-> "tenant_id", op |-> "=", lit |-> lit]
           \in Comparisons
    BY <2>2, <2>3 DEF Comparisons
  <2>5. QED BY <2>4 DEF TenantTerm, Terms, lit
<1>2. Parenthesized(w) \in Terms
  BY EvalVerdict DEF Parenthesized, Terms, Subs
<1>3. \A p, t \in Terms :
         <<<<t>>>> \in Seq(Seq(Terms)) /\ <<<<p, t>>>> \in Seq(Seq(Terms))
  <2> SUFFICES ASSUME NEW p \in Terms, NEW t \in Terms
               PROVE  /\ <<<<t>>>> \in Seq(Seq(Terms))
                      /\ <<<<p, t>>>> \in Seq(Seq(Terms))
    OBVIOUS
  <2> DEFINE S == Seq(Terms)
  <2>1. <<t>> \in S /\ <<p, t>> \in S OBVIOUS
  <2> HIDE DEF S
  <2>2. \A c \in S : <<c>> \in Seq(S) OBVIOUS
  <2>3. QED BY <2>1, <2>2 DEF S
<1>4. TenantFilter(w, tenant) \in
         {<<<<TenantTerm(tenant)>>>>,
          <<<<Parenthesized(w), TenantTerm(tenant)>>>>}
  BY Zenon DEF TenantFilter
<1>5. QED BY <1>1, <1>2, <1>3, <1>4, Zenon

\* A comparison among the terms has an integer in its literal.
LEMMA BoundType ==
  ASSUME NEW t \in Terms, IsTsBound(t)
  PROVE  t.lit.num \in Int /\ t.op \in Operators /\ t.kind = "compare"
<1>1. t \in Comparisons BY DEF IsTsBound, Terms, Subs
<1>2. QED BY <1>1 DEF Comparisons, Literals, IsTsBound

-----------------------------------------------------------------------------
(* The type invariant *)

\* Planning a term keeps the bounds integers.
LEMMA ApplyType ==
  ASSUME NEW o \in [min : Int, max : Int], NEW t \in Terms
  PROVE  ApplyTerm(o, t) \in [min : Int, max : Int]
<1>1. CASE ~IsTsBound(t) BY <1>1 DEF ApplyTerm
<1>2. CASE IsTsBound(t)
  <2>1. t.lit.num \in Int /\ t.op \in Operators BY <1>2, BoundType
  <2> DEFINE n == t.lit.num
  <2>2. \A b \in [min : Int, max : Int] :
           /\ NarrowMin(b, n) \in [min : Int, max : Int]
           /\ NarrowMax(b, n) \in [min : Int, max : Int]
    BY <2>1 DEF NarrowMin, NarrowMax
  <2>3. QED BY <1>2, <2>1, <2>2 DEF ApplyTerm, Operators
<1>3. QED BY <1>1, <1>2

\* Every variable keeps its type, for all clauses, limits and stores.
THEOREM TypeCorrect == Spec => []TypeOK
<1>1. Init => TypeOK
  BY WheresAssumption DEF Init, TypeOK, NoBounds
<1>2. TypeOK /\ [Next]_vars => TypeOK'
  <2> SUFFICES ASSUME TypeOK, [Next]_vars PROVE TypeOK' OBVIOUS
  <2>1. CASE Scope
    <3>1. caller # InProcess => TenantFilter(where, caller) \in Seq(Seq(Terms))
      BY CallersAssumption, ValuesAssumption, FilterType DEF TypeOK
    <3>2. where' \in Seq(Seq(Terms)) BY <2>1, <3>1 DEF Scope, TypeOK
    <3>3. QED BY <2>1, <3>2 DEF Scope, TypeOK, input
  <2>2. CASE PlanTerm
    <3>1. where[1][next] \in Terms
      <4> DEFINE S == Seq(Terms)
      <4>1. where \in Seq(S) /\ Len(where) = 1 BY <2>2 DEF PlanTerm, Planning, TypeOK
      <4> HIDE DEF S
      <4>2. where[1] \in S BY <4>1
      <4> USE DEF S
      <4>3. QED BY <2>2, <4>2 DEF PlanTerm, Planning, TypeOK
    <3>2. opts' \in [min : Int, max : Int]
      BY <2>2, <3>1, ApplyType DEF PlanTerm, TypeOK
    <3>3. QED BY <2>2, <3>2 DEF PlanTerm, TypeOK, input
  <2>3. CASE StartScan
    <3>1. Scanned \subseteq Records
      BY StoresAssumption DEF TypeOK, Scanned
    <3>2. QED BY <2>3, <3>1 DEF StartScan, TypeOK, input
  <2>4. ASSUME NEW r \in pending, Visit(r) PROVE TypeOK'
    <3>1. r \in Records BY DEF TypeOK
    <3>2. rows' \in Seq(Records)
      <4>1. rows' = rows \/ rows' = Append(rows, r)
        BY <2>4, EvalVerdict DEF Visit, Verdicts
      <4>2. rows \in Seq(Records) BY DEF TypeOK
      <4>3. QED BY <3>1, <4>1, <4>2
    <3>3. phase' \in {"scan", "done"} /\ result' \in {"none", "ok", "error"}
      BY <2>4, EvalVerdict DEF Visit, TypeOK, Return, Verdicts
    <3>4. QED BY <2>4, <3>2, <3>3 DEF Visit, TypeOK, input
  <2>5. CASE Finish BY <2>5 DEF Finish, Return, TypeOK, input
  <2>6. CASE UNCHANGED vars BY <2>6 DEF vars, input, TypeOK
  <2>7. QED BY <2>1, <2>2, <2>3, <2>4, <2>5, <2>6 DEF Next
<1>3. QED BY <1>1, <1>2, PTL DEF Spec

-----------------------------------------------------------------------------
(* Tenants *)

Scoped ==
    /\ DOMAIN where = {1}
    /\ \E j \in DOMAIN where[1] : where[1][j] = TenantTerm(caller)

\* Once the statement is rewritten its only chain demands the tenant.
TenantInv ==
    /\ phase \in {"plan", "scan", "done"} /\ caller # InProcess => Scoped
    /\ phase \in {"parsed", "plan"} => rows = <<>>
    /\ TenantOnly

\* A record that the tenant's term accepts is the tenant's.
LEMMA TenantTermMeans ==
  ASSUME NEW tenant, NEW r, Verdict(TenantTerm(tenant), r) = "true"
  PROVE  r.tenant = tenant
  BY DEF TenantTerm, Verdict, CompareVerdict, Text

\* Rows of other tenants are never returned, for every WHERE clause.
THEOREM TenantIsolation == Spec => []TenantOnly
<1>1. Init => TenantInv BY DEF Init, TenantInv, TenantOnly
<1>2. TypeOK /\ TenantInv /\ [Next]_vars => TenantInv'
  <2> SUFFICES ASSUME TypeOK, TenantInv, [Next]_vars PROVE TenantInv' OBVIOUS
  <2>1. CASE Scope
    <3>1. caller # InProcess => Scoped'
      BY <2>1, FilterShape DEF Scope, Scoped, input
    <3>2. QED BY <2>1, <3>1 DEF Scope, TenantInv, TenantOnly, InScope, input
  <2>2. CASE PlanTerm
    BY <2>2 DEF PlanTerm, Planning, TenantInv, Scoped, TenantOnly, InScope, input
  <2>3. CASE StartScan
    BY <2>3 DEF StartScan, TenantInv, Scoped, TenantOnly, InScope, input
  <2>4. ASSUME NEW r \in pending, Visit(r) PROVE TenantInv'
    <3>1. caller # InProcess => Scoped /\ Scoped'
      BY <2>4 DEF Visit, TenantInv, Scoped, input
    <3>2. phase' \in {"scan", "done"}
      BY <2>4, EvalVerdict DEF Visit, Return, Verdicts
    <3>3. CASE rows' = rows
      BY <2>4, <3>1, <3>2, <3>3 DEF Visit, TenantInv, TenantOnly, InScope, input
    <3>4. CASE rows' = Append(rows, r) /\ Eval(where, r) = "true"
      <4>1. InScope(r)
        <5>1. CASE caller = InProcess BY <5>1 DEF InScope
        <5>2. CASE caller # InProcess
          <6>1. PICK j \in DOMAIN where[1] : where[1][j] = TenantTerm(caller)
            BY <3>1, <5>2 DEF Scoped
          <6>2. Verdict(TenantTerm(caller), r) = "true"
            BY <3>1, <3>4, <5>2, <6>1, SingleChain DEF Scoped
          <6>3. QED BY <6>2, TenantTermMeans DEF InScope
        <5>3. QED BY <5>1, <5>2
      <4>2. TenantOnly'
        BY <2>4, <3>4, <4>1 DEF Visit, TenantInv, TenantOnly, InScope, TypeOK, input
      <4>3. QED BY <2>4, <3>1, <3>2, <4>2 DEF Visit, TenantInv, input
    <3>5. QED BY <2>4, <3>3, <3>4, EvalVerdict DEF Visit, Verdicts
  <2>5. CASE Finish
    BY <2>5 DEF Finish, Return, TenantInv, Scoped, TenantOnly, InScope, input
  <2>6. CASE UNCHANGED vars
    BY <2>6 DEF vars, input, TenantInv, Scoped, TenantOnly, InScope
  <2>7. QED BY <2>1, <2>2, <2>3, <2>4, <2>5, <2>6 DEF Next
<1>3. QED BY <1>1, <1>2, TypeCorrect, PTL DEF Spec, TenantInv

-----------------------------------------------------------------------------
(* Pushdown *)

\* Accepting t implies that the record's time is at least (at most) n.
Demands(t, n, ops) == IsTsBound(t) /\ t.op \in ops /\ t.lit.num = n
FromBelow == {"=", ">", ">="}
FromAbove == {"=", "<", "<="}

\* A bound that is set was taken from a term of the only AND chain.
PushdownInv ==
    /\ phase = "parsed" => opts = NoBounds
    /\ opts # NoBounds => DOMAIN where = {1}
    /\ opts.min # 0 =>
         \E j \in DOMAIN where[1] : Demands(where[1][j], opts.min, FromBelow)
    /\ opts.max # 0 =>
         \E j \in DOMAIN where[1] : Demands(where[1][j], opts.max, FromAbove)

\* Planning a term leaves each bound alone or takes it from that term.
LEMMA ApplySource ==
  ASSUME NEW o \in [min : Int, max : Int], NEW t \in Terms
  PROVE  /\ \/ ApplyTerm(o, t).min = o.min
            \/ Demands(t, ApplyTerm(o, t).min, FromBelow)
         /\ \/ ApplyTerm(o, t).max = o.max
            \/ Demands(t, ApplyTerm(o, t).max, FromAbove)
<1>1. CASE ~IsTsBound(t) BY <1>1 DEF ApplyTerm
<1>2. CASE IsTsBound(t)
  <2>1. t.lit.num \in Int /\ t.op \in Operators BY <1>2, BoundType
  <2> DEFINE n == t.lit.num
  <2>2. \A b \in [min : Int, max : Int] :
           /\ NarrowMin(b, n).min \in {b.min, n} /\ NarrowMin(b, n).max = b.max
           /\ NarrowMax(b, n).max \in {b.max, n} /\ NarrowMax(b, n).min = b.min
           /\ NarrowMin(b, n) \in [min : Int, max : Int]
    BY <2>1 DEF NarrowMin, NarrowMax
  <2>3. QED
    BY <1>2, <2>1, <2>2 DEF ApplyTerm, Operators, Demands, FromBelow, FromAbove
<1>3. QED BY <1>1, <1>2

\* A record outside a bound is not accepted by the term the bound is from.
LEMMA DemandRejects ==
  ASSUME NEW t \in Terms, NEW n \in Int, NEW r \in Records
  PROVE  /\ Demands(t, n, FromBelow) /\ r.ts < n => Verdict(t, r) # "true"
         /\ Demands(t, n, FromAbove) /\ r.ts > n => Verdict(t, r) # "true"
<1>1. r.ts \in Int BY ValuesAssumption DEF Records
<1>2. ASSUME IsTsBound(t), t.lit.num = n, t.op \in Operators
      PROVE  Verdict(t, r) = "true" => Ordered(t.op, r.ts, n)
  BY <1>2 DEF Verdict, IsTsBound, CompareVerdict, Comparable, Number
<1>3. t.op \in FromBelow /\ r.ts < n => ~Ordered(t.op, r.ts, n)
  <2>1. CASE t.op = "=" BY <1>1, <2>1 DEF Ordered
  <2>2. CASE t.op = ">" BY <1>1, <2>2 DEF Ordered
  <2>3. CASE t.op = ">=" BY <1>1, <2>3 DEF Ordered
  <2>4. QED BY <2>1, <2>2, <2>3 DEF FromBelow
<1>4. t.op \in FromAbove /\ r.ts > n => ~Ordered(t.op, r.ts, n)
  <2>1. CASE t.op = "=" BY <1>1, <2>1 DEF Ordered
  <2>2. CASE t.op = "<" BY <1>1, <2>2 DEF Ordered
  <2>3. CASE t.op = "<=" BY <1>1, <2>3 DEF Ordered
  <2>4. QED BY <2>1, <2>2, <2>3 DEF FromAbove
<1>5. QED
  BY <1>2, <1>3, <1>4 DEF Demands, FromBelow, FromAbove, Operators

\* Planning, the invariant: every bound is a demand of the only AND chain.
LEMMA BoundsAreDemands == Spec => []PushdownInv
<1>1. Init => PushdownInv BY DEF Init, PushdownInv, NoBounds
<1>2. TypeOK /\ PushdownInv /\ [Next]_vars => PushdownInv'
  <2> SUFFICES ASSUME TypeOK, PushdownInv, [Next]_vars PROVE PushdownInv'
    OBVIOUS
  <2>1. CASE Scope BY <2>1 DEF Scope, PushdownInv, NoBounds
  <2>2. CASE PlanTerm
    <3>1. /\ opts \in [min : Int, max : Int] /\ where' = where
          /\ next \in DOMAIN where[1] /\ where[1][next] \in Terms
          /\ DOMAIN where = {1} /\ phase' = "plan"
      <4> DEFINE S == Seq(Terms)
      <4>1. where \in Seq(S) /\ Len(where) = 1 /\ next \in Nat \ {0}
        BY <2>2 DEF PlanTerm, Planning, TypeOK
      <4> HIDE DEF S
      <4>2. where[1] \in S /\ DOMAIN where = {1} BY <4>1
      <4> USE DEF S
      <4>3. QED BY <2>2, <4>1, <4>2 DEF PlanTerm, Planning, TypeOK
    <3>2. opts' = ApplyTerm(opts, where[1][next]) BY <2>2 DEF PlanTerm
    <3> DEFINE t == where[1][next]
    <3>3. /\ opts'.min = opts.min \/ Demands(t, opts'.min, FromBelow)
          /\ opts'.max = opts.max \/ Demands(t, opts'.max, FromAbove)
      BY <3>1, <3>2, ApplySource
    <3>4. QED BY <3>1, <3>3 DEF PushdownInv
  <2>3. CASE StartScan BY <2>3 DEF StartScan, PushdownInv
  <2>4. ASSUME NEW r \in pending, Visit(r) PROVE PushdownInv'
    <3>1. phase' \in {"scan", "done"}
      BY <2>4, EvalVerdict DEF Visit, Return, Verdicts
    <3>2. QED BY <2>4, <3>1 DEF Visit, PushdownInv
  <2>5. CASE Finish BY <2>5 DEF Finish, Return, PushdownInv
  <2>6. CASE UNCHANGED vars BY <2>6 DEF vars, PushdownInv
  <2>7. QED BY <2>1, <2>2, <2>3, <2>4, <2>5, <2>6 DEF Next
<1>3. QED BY <1>1, <1>2, TypeCorrect, PTL DEF Spec

\* A record the engine may leave out is rejected by a timestamp bound that
\* is a term of the only AND chain.
LEMMA OutsideIsRejected ==
  ASSUME TypeOK, PushdownInv, NEW r \in Records, Outside(r)
  PROVE  /\ DOMAIN where = {1}
         /\ \E j \in DOMAIN where[1] :
               IsTsBound(where[1][j]) /\ Verdict(where[1][j], r) # "true"
<1>1. opts \in [min : Int, max : Int] BY DEF TypeOK
<1>2. PICK n \in Int, ops \in {FromBelow, FromAbove} :
        /\ DOMAIN where = {1}
        /\ \E j \in DOMAIN where[1] : Demands(where[1][j], n, ops)
        /\ ops = FromBelow => r.ts < n
        /\ ops = FromAbove => r.ts > n
  <2>1. FromBelow # FromAbove BY DEF FromBelow, FromAbove
  <2>2. CASE opts.min # 0 /\ r.ts < opts.min
    BY <1>1, <2>1, <2>2 DEF PushdownInv, NoBounds
  <2>3. CASE opts.max # 0 /\ r.ts > opts.max
    BY <1>1, <2>1, <2>3 DEF PushdownInv, NoBounds
  <2>4. QED BY <2>2, <2>3 DEF Outside
<1>3. PICK j \in DOMAIN where[1] : Demands(where[1][j], n, ops) BY <1>2
<1>4. where[1][j] \in Terms
  <2> DEFINE S == Seq(Terms)
  <2>1. where \in Seq(S) BY DEF TypeOK
  <2> HIDE DEF S
  <2>2. where[1] \in S
    <3>1. 1 \in DOMAIN where BY <1>2
    <3>2. QED BY <2>1, <3>1
  <2> USE DEF S
  <2>3. QED BY <1>3, <2>2
<1>5. Verdict(where[1][j], r) # "true"
  BY <1>2, <1>3, <1>4, DemandRejects
<1>6. QED BY <1>2, <1>3, <1>5 DEF Demands

\* No pruned record satisfies the WHERE clause: pushdown loses no answer.
THEOREM PushdownIsSafe == Spec => []PushdownSafe
<1>1. TypeOK /\ PushdownInv => PushdownSafe
  <2> SUFFICES ASSUME TypeOK, PushdownInv, NEW r \in Records, Outside(r)
               PROVE  Eval(where, r) # "true"
    BY DEF PushdownSafe
  <2>1. QED BY OutsideIsRejected, SingleChain
<1>2. QED BY <1>1, BoundsAreDemands, TypeCorrect, PTL

-----------------------------------------------------------------------------
(* What a verdict says of the plain meaning of the clause *)

\* The plain meaning of a WHERE clause: some AND chain accepts the record.
Plain(w, r) == w = <<>> \/ \E i \in DOMAIN w : AndAccepts(w[i], r)

\* Of a nonempty set of numbers, one is the least.
LEMMA LeastExists ==
  ASSUME NEW S \in SUBSET Nat, S # {}
  PROVE  \E m \in S : \A n \in S : m <= n
<1> DEFINE R == OpToRel(<, Nat)
<1>1. PICK m \in S : \A n \in S : ~(<<n, m>> \in R)
  <2>1. IsWellFoundedOn(R, Nat) BY NatLessThanWellFounded
  <2>2. S \subseteq Nat /\ S # {} OBVIOUS
  <2> HIDE DEF R
  <2>3. QED BY <2>1, <2>2, WFMin
<1>2. \A n \in S : ~(n < m) BY <1>1 DEF OpToRel
<1>3. QED BY <1>2

\* An accepted record satisfies some chain of the clause.
LEMMA TrueIsPlain ==
  ASSUME NEW w, NEW r, Eval(w, r) = "true" PROVE Plain(w, r)
  BY DEF Eval, Accepts, Plain

\* A rejected record satisfies none: the first chain that accepts it, or
\* that fails on it, would have decided otherwise.
LEMMA FalseIsNotPlain ==
  ASSUME NEW w \in Seq(Seq(Terms)), NEW r, Eval(w, r) = "false"
  PROVE  ~Plain(w, r)
<1>1. ~Fails(w, r) /\ ~Accepts(w, r) BY DEF Eval
<1> SUFFICES ASSUME NEW i \in DOMAIN w, AndAccepts(w[i], r) PROVE FALSE
  BY <1>1 DEF Plain, Accepts
<1> DEFINE D == {k \in DOMAIN w : AndAccepts(w[k], r) \/ AndFails(w[k], r)}
<1>2. DOMAIN w \subseteq Nat
  <2> DEFINE S == Seq(Terms)
  <2>1. w \in Seq(S) OBVIOUS
  <2> HIDE DEF S
  <2>2. QED BY <2>1
<1>3. PICK m \in D : \A n \in D : m <= n BY <1>2, LeastExists
<1>4. \A k \in DOMAIN w : k < m => ~AndAccepts(w[k], r) /\ ~AndFails(w[k], r)
  BY <1>2, <1>3
<1>5. QED BY <1>1, <1>3, <1>4 DEF Accepts, Fails

\* The tenant's term accepts the tenant's records and rejects the others.
LEMMA TenantVerdict ==
  ASSUME NEW tenant, NEW r
  PROVE  Verdict(TenantTerm(tenant), r) = IF r.tenant = tenant THEN "true" ELSE "false"
  BY DEF TenantTerm, Verdict, CompareVerdict, Text, Comparable

\* A rewritten clause means what the caller's clause means, of the tenant's
\* records: its verdict is never "false" for a record that should be a row.
LEMMA FilterMeans ==
  ASSUME NEW w \in Seq(Seq(Terms)), NEW tenant \in STRING, NEW r \in Records
  PROVE  LET f == TenantFilter(w, tenant)
         IN  /\ Eval(f, r) = "true" => Plain(w, r) /\ r.tenant = tenant
             /\ Eval(f, r) = "false" => ~(Plain(w, r) /\ r.tenant = tenant)
<1> DEFINE f == TenantFilter(w, tenant)
           T == TenantTerm(tenant)
           P == Parenthesized(w)
<1>1. Verdict(T, r) = IF r.tenant = tenant THEN "true" ELSE "false"
  BY TenantVerdict
<1>2. Verdict(P, r) = Eval(w, r) BY DEF Parenthesized, Verdict
<1>3. f \in Seq(Seq(Terms)) BY FilterType
<1>4. f = IF w = <<>> THEN <<<<T>>>> ELSE <<<<P, T>>>> BY Zenon DEF TenantFilter
<1> HIDE DEF f, T, P
<1>5. CASE w = <<>>
  <2>1. DOMAIN f = {1} /\ DOMAIN f[1] = {1} /\ f[1][1] = T
    BY <1>4, <1>5
  <2>2. Plain(w, r) BY <1>5 DEF Plain
  <2>3. Eval(f, r) = "true" => r.tenant = tenant
    BY <1>1, <2>1, SingleChain
  <2>4. Eval(f, r) = "false" => r.tenant # tenant
    BY <1>1, <1>3, <2>1, FalseIsNotPlain DEF Plain, AndAccepts
  <2>5. QED BY <2>2, <2>3, <2>4 DEF f
<1>6. CASE w # <<>>
  <2>1. /\ DOMAIN f = {1} /\ DOMAIN f[1] = {1, 2}
        /\ f[1][1] = P /\ f[1][2] = T
    BY <1>4, <1>6
  <2>2. ASSUME Eval(f, r) = "true" PROVE Plain(w, r) /\ r.tenant = tenant
    <3>1. Verdict(P, r) = "true" /\ Verdict(T, r) = "true"
      BY <2>1, <2>2, SingleChain
    <3>2. QED BY <1>1, <1>2, <3>1, TrueIsPlain
  <2>3. ASSUME Eval(f, r) = "false", Plain(w, r), r.tenant = tenant PROVE FALSE
    <3>1. ~Plain(f, r) BY <1>3, <2>3, FalseIsNotPlain
    <3>2. Verdict(T, r) = "true" BY <1>1, <2>3
    <3>3. Eval(w, r) # "true" BY <1>2, <2>1, <3>1, <3>2 DEF Plain, AndAccepts
    <3>4. Eval(w, r) # "false" BY <2>3, FalseIsNotPlain
    <3>5. Verdict(P, r) = "error" BY <1>2, <3>3, <3>4, EvalVerdict DEF Verdicts
    <3>6. AndFails(f[1], r) BY <2>1, <3>5 DEF AndFails
    <3>7. Fails(f, r) BY <2>1, <3>6 DEF Fails
    <3>8. QED BY <2>3, <3>7 DEF Eval
  <2>4. QED BY <2>2, <2>3 DEF f
<1>7. QED BY <1>5, <1>6

-----------------------------------------------------------------------------
(* The answer *)

\* The clause the executor evaluates: the caller's, or its rewritten form.
WhereIs ==
    where = IF phase = "parsed" \/ caller = InProcess THEN asked
            ELSE TenantFilter(asked, caller)

\* What the scan has made of the records it was given: rows hold, in DocID
\* order and before all that is pending, every accepted record it visited.
Answered ==
    /\ pending \subseteq Scanned
    /\ \A k \in DOMAIN rows : rows[k] \in Scanned /\ Eval(where, rows[k]) = "true"
    /\ \A j, k \in DOMAIN rows : j < k => rows[j].doc < rows[k].doc
    /\ \A k \in DOMAIN rows : \A r \in pending : rows[k].doc < r.doc
    /\ \A r \in Scanned \ pending :
          \/ Eval(where, r) = "false"
          \/ \E k \in DOMAIN rows : rows[k] = r

AnswerInv ==
    /\ WhereIs
    /\ phase \in {"parsed", "plan"} => rows = <<>> /\ result = "none"
    /\ phase = "scan" =>
          /\ result = "none" /\ Answered
          /\ limit = NoLimit \/ Len(rows) < limit
    /\ phase = "done" /\ result = "ok" =>
          /\ Answered /\ (pending = {} \/ Len(rows) = limit)
          /\ limit = NoLimit \/ Len(rows) <= limit

\* No term of a rewritten clause is a timestamp bound, so a query of a
\* tenant is never pushed down.
LEMMA FilterHasNoBound ==
  ASSUME NEW w, NEW tenant
  PROVE  \A j \in DOMAIN TenantFilter(w, tenant)[1] :
            ~IsTsBound(TenantFilter(w, tenant)[1][j])
<1> DEFINE T == TenantTerm(tenant)
           P == Parenthesized(w)
<1>1. ~IsTsBound(T) /\ ~IsTsBound(P)
  BY DEF IsTsBound, TenantTerm, Parenthesized
<1>2. TenantFilter(w, tenant) = IF w = <<>> THEN <<<<T>>>> ELSE <<<<P, T>>>>
  BY Zenon DEF TenantFilter
<1> HIDE DEF T, P
<1>3. /\ <<<<T>>>>[1] = <<T>> /\ DOMAIN <<T>> = {1} /\ <<T>>[1] = T
      /\ <<<<P, T>>>>[1] = <<P, T>> /\ DOMAIN <<P, T>> = {1, 2}
      /\ <<P, T>>[1] = P /\ <<P, T>>[2] = T
  OBVIOUS
<1>4. QED BY <1>1, <1>2, <1>3

\* The records of a scan are the store's, of which no two share a DocID.
LEMMA ScannedIsHeld ==
  ASSUME TypeOK
  PROVE  /\ Scanned \subseteq store.mem \cup UNION store.tables
         /\ store.mem \cup UNION store.tables \subseteq Records
         /\ \A r, q \in Scanned : r.doc = q.doc => r = q
<1>1. store \in Stores BY DEF TypeOK
<1>2. /\ store.mem \subseteq Records /\ \A T \in store.tables : T \subseteq Records
      /\ Scanned \subseteq store.mem \cup UNION store.tables
  BY <1>1, StoresAssumption DEF Scanned
<1>3. QED BY <1>1, <1>2, OneVersionAssumption

\* Nothing the scan or the executor does to one record disturbs what is
\* known of the others: the invariant holds.
LEMMA AnswersKept ==
  ASSUME 0 \notin Limits PROVE Spec => []AnswerInv
<1>1. Init => AnswerInv BY DEF Init, AnswerInv, WhereIs
<1>2. TypeOK /\ AnswerInv /\ [Next]_vars => AnswerInv'
  <2> SUFFICES ASSUME TypeOK, AnswerInv, [Next]_vars PROVE AnswerInv' OBVIOUS
  <2>1. CASE Scope BY <2>1 DEF Scope, AnswerInv, WhereIs, input
  <2>2. CASE PlanTerm BY <2>2 DEF PlanTerm, Planning, AnswerInv, WhereIs, input
  <2>3. CASE StartScan
    <3>1. Scanned' = Scanned /\ pending' = Scanned /\ rows' = <<>>
      BY <2>3 DEF StartScan, AnswerInv, Scanned, Pruned, Below, Above, input
    <3>2. Answered' BY <3>1 DEF Answered
    <3>3. limit' = NoLimit \/ Len(rows') < limit'
      BY <2>3, <3>1, LimitsAssumption DEF StartScan, TypeOK, input
    <3>4. QED BY <2>3, <3>2, <3>3 DEF StartScan, AnswerInv, WhereIs, input
  <2>4. ASSUME NEW r \in pending, Visit(r) PROVE AnswerInv'
    <3>1. Answered BY <2>4 DEF Visit, AnswerInv
    <3>2. /\ Scanned' = Scanned /\ where' = where /\ limit' = limit
          /\ pending' = pending \ {r} /\ WhereIs'
      BY <2>4, EvalVerdict
      DEF Visit, AnswerInv, WhereIs, Return, Verdicts, Scanned, Pruned, Below, Above, input
    <3>3. ASSUME NEW q \in pending' PROVE r.doc < q.doc
      <4>1. q \in pending /\ q # r BY <3>2
      <4>2. r \in Scanned /\ q \in Scanned BY <3>1, <4>1 DEF Answered
      <4>3. r.doc # q.doc BY <4>1, <4>2, ScannedIsHeld
      <4>4. r.doc \in Int /\ q.doc \in Int
        <5>1. r \in Records /\ q \in Records BY <4>2, ScannedIsHeld
        <5>2. r.doc \in DocIDs /\ q.doc \in DocIDs BY <5>1 DEF Records
        <5>3. \A d \in DocIDs : d \in Int BY ONLY ValuesAssumption
        <5>4. QED BY ONLY <5>2, <5>3
      <4>5. r.doc <= q.doc BY <2>4, <4>1 DEF Visit
      <4>6. QED BY <4>3, <4>4, <4>5
    <3>4. CASE Eval(where, r) = "error"
      BY <2>4, <3>2, <3>4 DEF Visit, Return, AnswerInv
    <3>5. CASE Eval(where, r) = "false"
      <4>1. Answered' BY <2>4, <3>1, <3>2, <3>5 DEF Visit, Answered
      <4>2. QED BY <2>4, <3>2, <3>5, <4>1 DEF Visit, AnswerInv
    <3>6. CASE Eval(where, r) = "true"
      <4>1. rows' = Append(rows, r) BY <2>4, <3>6 DEF Visit
      <4>2. Answered'
        <5>1. rows \in Seq(Records) /\ r \in Records BY DEF TypeOK
        <5>2. /\ DOMAIN rows = 1..Len(rows) /\ Len(rows) \in Nat
              /\ DOMAIN rows' = 1..(Len(rows) + 1)
              /\ rows'[Len(rows) + 1] = r
              /\ \A k \in DOMAIN rows : rows'[k] = rows[k]
          BY <4>1, <5>1
        <5>3. \A k \in DOMAIN rows' : rows'[k] \in Scanned' /\ Eval(where', rows'[k]) = "true"
          BY <3>1, <3>2, <3>6, <5>2 DEF Answered
        <5>4. \A j, k \in DOMAIN rows' : j < k => rows'[j].doc < rows'[k].doc
          BY <3>1, <5>2 DEF Answered
        <5>5. \A k \in DOMAIN rows' : \A q \in pending' : rows'[k].doc < q.doc
          BY <3>1, <3>2, <3>3, <5>2 DEF Answered
        <5>6. \A q \in Scanned' \ pending' :
                 Eval(where', q) = "false" \/ \E k \in DOMAIN rows' : rows'[k] = q
          BY <3>1, <3>2, <5>2 DEF Answered
        <5>7. QED BY <3>1, <3>2, <5>3, <5>4, <5>5, <5>6 DEF Answered
      <4>3. Len(rows') = Len(rows) + 1 /\ Len(rows) \in Nat
        BY <4>1 DEF TypeOK
      <4>4. limit \in Nat \cup {NoLimit} BY LimitsAssumption DEF TypeOK
      <4>5. limit = NoLimit \/ Len(rows) < limit BY <2>4 DEF Visit, AnswerInv
      <4>6. CASE limit >= 0 /\ Len(rows) + 1 >= limit
        <5>1. phase' = "done" /\ result' = "ok"
          BY <2>4, <3>6, <4>6 DEF Visit, Return
        <5>2. Len(rows') = limit' /\ Len(rows') <= limit'
          BY <3>2, <4>3, <4>4, <4>5, <4>6 DEF NoLimit
        <5>3. QED BY <3>2, <4>2, <5>1, <5>2 DEF AnswerInv
      <4>7. CASE ~(limit >= 0 /\ Len(rows) + 1 >= limit)
        <5>1. phase' = phase /\ result' = result BY <2>4, <3>6, <4>7 DEF Visit
        <5>2. limit' = NoLimit \/ Len(rows') < limit'
          BY <3>2, <4>3, <4>4, <4>7 DEF NoLimit
        <5>3. QED BY <2>4, <3>2, <4>2, <5>1, <5>2 DEF Visit, AnswerInv
      <4>8. QED BY <4>6, <4>7
    <3>7. QED BY <3>4, <3>5, <3>6, EvalVerdict DEF Verdicts
  <2>5. CASE Finish
    <3>1. Answered' = Answered
      BY <2>5 DEF Finish, Answered, Scanned, Pruned, Below, Above, input
    <3>2. limit = NoLimit \/ Len(rows) <= limit
      <4>1. Len(rows) \in Nat /\ limit \in Nat \cup {NoLimit}
        BY LimitsAssumption DEF TypeOK
      <4>2. QED BY <2>5, <4>1 DEF Finish, AnswerInv, NoLimit
    <3>3. QED
      BY <2>5, <3>1, <3>2 DEF Finish, Return, AnswerInv, WhereIs, input
  <2>6. CASE UNCHANGED vars
    <3>1. Answered' = Answered
      BY <2>6 DEF vars, Answered, Scanned, Pruned, Below, Above, input
    <3>2. QED BY <2>6, <3>1 DEF vars, AnswerInv, WhereIs, input
  <2>7. QED BY <2>1, <2>2, <2>3, <2>4, <2>5, <2>6 DEF Next
<1>3. QED BY <1>1, <1>2, TypeCorrect, PTL DEF Spec

\* A query that reports success returns the wanted records in DocID order,
\* all of them or the first LIMIT many, for every clause, store and LIMIT
\* but 0 (which returns one row): the tenant filter, pushdown, short-circuit
\* evaluation and the early stop together lose and add nothing.
THEOREM AnswerIsExact == ASSUME 0 \notin Limits PROVE Spec => []AnswerExact
<1>1. TypeOK /\ PushdownInv /\ AnswerInv => AnswerExact
  <2> SUFFICES ASSUME TypeOK, PushdownInv, AnswerInv, result = "ok"
               PROVE  AnswerExact
    BY DEF AnswerExact
  <2> DEFINE all == store.mem \cup UNION store.tables
  <2>1. phase = "done" BY DEF AnswerInv, TypeOK
  <2>2. /\ Answered /\ (pending = {} \/ Len(rows) = limit)
        /\ limit = NoLimit \/ Len(rows) <= limit
    BY <2>1 DEF AnswerInv
  <2>3. Scanned \subseteq all /\ all \subseteq Records BY ScannedIsHeld
  <2>4. ASSUME NEW r \in Records
        PROVE  /\ Eval(where, r) = "true" => Satisfies(r)
               /\ Eval(where, r) = "false" => ~Satisfies(r)
    <3>1. asked \in Seq(Seq(Terms)) BY WheresAssumption DEF TypeOK
    <3>2. Satisfies(r) <=> InScope(r) /\ Plain(asked, r)
      BY DEF Satisfies, Plain, AndAccepts
    <3>3. CASE caller = InProcess
      BY <2>1, <3>1, <3>2, <3>3, TrueIsPlain, FalseIsNotPlain
      DEF AnswerInv, WhereIs, InScope
    <3>4. CASE caller # InProcess
      <4>1. caller \in STRING BY <3>4, CallersAssumption, ValuesAssumption DEF TypeOK
      <4>2. where = TenantFilter(asked, caller)
        BY <2>1, <3>4 DEF AnswerInv, WhereIs
      <4>3. QED BY <3>1, <3>2, <3>4, <4>1, <4>2, FilterMeans DEF InScope
    <3>5. QED BY <3>3, <3>4
  <2>5. ASSUME NEW r \in all \ Scanned PROVE ~Satisfies(r)
    <3>1. Outside(r)
      BY DEF Scanned, Pruned, Below, Above, Outside
    <3>2. r \in Records BY <2>3
    <3>3. /\ DOMAIN where = {1}
          /\ \E j \in DOMAIN where[1] :
                IsTsBound(where[1][j]) /\ Verdict(where[1][j], r) # "true"
      BY <3>1, <3>2, OutsideIsRejected
    <3>4. caller = InProcess \/ where = TenantFilter(asked, caller)
      BY <2>1 DEF AnswerInv, WhereIs
    <3>5. \A j \in DOMAIN TenantFilter(asked, caller)[1] :
             ~IsTsBound(TenantFilter(asked, caller)[1][j])
      BY FilterHasNoBound
    <3>6. caller = InProcess /\ where = asked
      BY <2>1, <3>3, <3>4, <3>5 DEF AnswerInv, WhereIs
    <3>7. QED BY <3>3, <3>6 DEF Satisfies
  <2>6. \A k \in DOMAIN rows : rows[k] \in Wanted
    BY <2>2, <2>3, <2>4 DEF Answered, Wanted
  <2>7. ASSUME NEW r \in Wanted
        PROVE  \/ \E k \in DOMAIN rows : rows[k] = r
               \/ Len(rows) = limit /\ \A k \in DOMAIN rows : rows[k].doc < r.doc
    <3>1. r \in all /\ Satisfies(r) BY DEF Wanted
    <3>2. r \in Scanned BY <2>5, <3>1
    <3>3. CASE r \in pending BY <2>2, <3>3 DEF Answered
    <3>4. CASE r \notin pending
      BY <2>2, <2>3, <2>4, <3>1, <3>2, <3>4 DEF Answered
    <3>5. QED BY <3>3, <3>4
  <2>8. QED BY <2>2, <2>6, <2>7 DEF AnswerExact, Answered
<1>2. QED BY <1>1, AnswersKept, BoundsAreDemands, TypeCorrect, PTL
=============================================================================
