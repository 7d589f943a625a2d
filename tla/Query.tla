-------------------------------- MODULE Query --------------------------------
(***************************************************************************)
(* A query (internal/query): the tenant rewrite of the WHERE clause, the   *)
(* planner that turns timestamp comparisons into scan options, and the     *)
(* executor's scan with evaluation, LIMIT and errors.                      *)
(*                                                                         *)
(* A WHERE clause is an OR of AND chains: a sequence of sequences of       *)
(* terms, <<>> when there is none.  A term is a comparison or a            *)
(* parenthesized expression; no code looks inside the parentheses except   *)
(* to evaluate them, so such a term is its verdict on every record.        *)
(* The field `source` stands for message and fields.<key> too.             *)
(***************************************************************************)
EXTENDS Integers, Sequences

CONSTANTS
    DocIDs, Times, Tenants, Sources,   \* the values records are made of
    Wheres,      \* the WHERE clauses callers send
    Limits,      \* their LIMIT clauses, NoLimit for none
    Callers,     \* tenants, or InProcess for a direct call of Execute
    InProcess,
    Stores       \* what the engine holds: a MemTable and SSTables

Records == [doc : DocIDs, ts : Times, tenant : Tenants, source : Sources]
Verdicts == {"true", "false", "error"}

\* An integer, an RFC3339 string (num is its time), any other string.
Literals == [kind : {"int", "time", "text"}, num : Int, text : STRING]
Operators == {"=", "!=", "<", "<=", ">", ">="}
\* Any other name is "unknown": the parser takes it, loadField does not.
Fields == {"ts", "doc_id", "tenant_id", "source", "unknown"}
Comparisons ==
    [kind : {"compare"}, field : Fields, op : Operators, lit : Literals]
Subs == [kind : {"sub"}, eval : [Records -> Verdicts]]
Terms == Comparisons \cup Subs

NoLimit == -1

ASSUME ValuesAssumption ==
    /\ DocIDs \subseteq Nat /\ Times \subseteq Int
    /\ Tenants \subseteq STRING /\ Sources \subseteq STRING
ASSUME WheresAssumption == \A w \in Wheres : w \in Seq(Seq(Terms))
ASSUME LimitsAssumption == Limits \subseteq Nat \cup {NoLimit}
ASSUME CallersAssumption ==
    Callers \subseteq Tenants \cup {InProcess} /\ InProcess \notin Tenants
ASSUME StoresAssumption ==
    Stores \subseteq [mem : SUBSET Records, tables : SUBSET SUBSET Records]
\* The allocator gives no DocID to two records of a store.
ASSUME OneVersionAssumption ==
    \A s \in Stores : \A r, q \in s.mem \cup UNION s.tables :
        r.doc = q.doc => r = q

VARIABLES
    asked,     \* the WHERE clause the caller sent
    caller, limit, store,
    where,     \* stmt.Where
    phase,     \* "parsed", "plan", "scan", "done"
    next,      \* planner: the term of the AND chain it looks at
    opts,      \* engine.ScanOptions, 0 for unset
    pending,   \* records the scan has still to visit
    rows, result

input == <<asked, caller, limit, store>>
vars == <<input, where, phase, next, opts, pending, rows, result>>

-----------------------------------------------------------------------------
(* Evaluation *)

\* loadField and loadLiteral find values of one type that op can compare.
Comparable(c) ==
    \/ c.field = "ts" /\ c.lit.kind \in {"int", "time"}
    \/ c.field = "doc_id" /\ c.lit.kind = "int"
    \/ /\ c.field \in {"tenant_id", "source"}
       /\ c.lit.kind # "int" /\ c.op \in {"=", "!="}

Number(c, r) == IF c.field = "ts" THEN r.ts ELSE r.doc
Text(c, r) == IF c.field = "tenant_id" THEN r.tenant ELSE r.source

Ordered(op, x, y) ==
    CASE op = "=" -> x = y [] op = "!=" -> x # y [] op = "<" -> x < y
      [] op = "<=" -> x <= y [] op = ">" -> x > y [] op = ">=" -> x >= y

CompareVerdict(c, r) ==
    IF ~Comparable(c) THEN "error"
    ELSE IF IF c.field \in {"ts", "doc_id"}
              THEN Ordered(c.op, Number(c, r), c.lit.num)
              ELSE (c.op = "=") <=> (Text(c, r) = c.lit.text)
         THEN "true" ELSE "false"

Verdict(t, r) == IF t.kind = "sub" THEN t.eval[r] ELSE CompareVerdict(t, r)

\* Terms are evaluated from left to right until one is not true.
AndAccepts(chain, r) == \A j \in DOMAIN chain : Verdict(chain[j], r) = "true"
AndFails(chain, r) ==
    \E j \in DOMAIN chain :
        /\ Verdict(chain[j], r) = "error"
        /\ \A k \in DOMAIN chain : k < j => Verdict(chain[k], r) = "true"

\* Chains are evaluated from left to right until one is not false.
Accepts(w, r) ==
    \/ w = <<>>
    \/ \E i \in DOMAIN w :
          /\ AndAccepts(w[i], r)
          /\ \A k \in DOMAIN w : k < i => ~AndFails(w[k], r)
Fails(w, r) ==
    \E i \in DOMAIN w :
        /\ AndFails(w[i], r)
        /\ \A k \in DOMAIN w : k < i => ~AndAccepts(w[k], r)

Eval(w, r) ==
    IF Fails(w, r) THEN "error" ELSE IF Accepts(w, r) THEN "true" ELSE "false"

-----------------------------------------------------------------------------
(* AndTenantFilter *)

TenantTerm(tenant) ==
    [kind |-> "compare", field |-> "tenant_id", op |-> "=",
     lit |-> [kind |-> "text", num |-> 0, text |-> tenant]]

Parenthesized(w) == [kind |-> "sub", eval |-> [r \in Records |-> Eval(w, r)]]

\* Mutation: the tenant is added to the last AND chain of the caller's OR.
TenantFilterUnwrapped(w, tenant) ==
    IF w = <<>> THEN <<<<TenantTerm(tenant)>>>>
    ELSE [w EXCEPT ![Len(w)] = Append(@, TenantTerm(tenant))]

TenantFilter(w, tenant) ==
    IF w = <<>> THEN <<<<TenantTerm(tenant)>>>>
    ELSE <<<<Parenthesized(w), TenantTerm(tenant)>>>>

-----------------------------------------------------------------------------
(* Plan *)

NoBounds == [min |-> 0, max |-> 0]

NarrowMin(o, ts) == IF o.min = 0 \/ ts > o.min THEN [o EXCEPT !.min = ts] ELSE o

NarrowMax(o, ts) == IF o.max = 0 \/ ts < o.max THEN [o EXCEPT !.max = ts] ELSE o

IsTsBound(t) ==
    t.kind = "compare" /\ t.field = "ts" /\ t.lit.kind \in {"int", "time"}

\* Mutation: != narrows the range as = does.
ApplyTermUnequal(o, t) ==
    IF ~IsTsBound(t) THEN o
    ELSE CASE t.op \in {"=", "!="} -> NarrowMax(NarrowMin(o, t.lit.num), t.lit.num)
           [] t.op \in {">", ">="} -> NarrowMin(o, t.lit.num)
           [] t.op \in {"<", "<="} -> NarrowMax(o, t.lit.num)

ApplyTerm(o, t) ==
    IF ~IsTsBound(t) THEN o
    ELSE CASE t.op = "=" -> NarrowMax(NarrowMin(o, t.lit.num), t.lit.num)
           [] t.op \in {">", ">="} -> NarrowMin(o, t.lit.num)
           [] t.op \in {"<", "<="} -> NarrowMax(o, t.lit.num)
           [] t.op = "!=" -> o

\* The engine may leave out a table all of whose records are out of range.
Outside(r) ==
    \/ opts.min # 0 /\ r.ts < opts.min
    \/ opts.max # 0 /\ r.ts > opts.max
Below(T) == opts.min # 0 /\ \A r \in T : r.ts < opts.min
Above(T) == opts.max # 0 /\ \A r \in T : r.ts > opts.max
Pruned == {T \in store.tables : Below(T) \/ Above(T)}
Scanned == store.mem \cup UNION (store.tables \ Pruned)

-----------------------------------------------------------------------------
(* The query, step by step *)

Init ==
    /\ asked \in Wheres /\ caller \in Callers
    /\ limit \in Limits /\ store \in Stores
    /\ where = asked /\ phase = "parsed" /\ next = 1
    /\ opts = NoBounds /\ pending = {} /\ rows = <<>> /\ result = "none"

\* handleQuery rewrites every statement before it executes it.
Scope ==
    /\ phase = "parsed"
    /\ where' = IF caller = InProcess THEN where ELSE TenantFilter(where, caller)
    /\ phase' = "plan"
    /\ UNCHANGED <<input, next, opts, pending, rows, result>>

\* Without a WHERE clause, or with an OR at its top, nothing is extracted.
Planning == phase = "plan" /\ Len(where) = 1 /\ next <= Len(where[1])

PlanTerm ==
    /\ Planning
    /\ opts' = ApplyTerm(opts, where[1][next])
    /\ next' = next + 1
    /\ UNCHANGED <<input, where, phase, pending, rows, result>>

StartScan ==
    /\ phase = "plan" /\ ~Planning
    /\ pending' = Scanned
    /\ phase' = "scan"
    /\ UNCHANGED <<input, where, next, opts, rows, result>>

Return(outcome) == phase' = "done" /\ result' = outcome

\* Mutation: LIMIT counts the records visited, before they are filtered.
VisitLimitFirst(r) ==
    /\ phase = "scan"
    /\ r \in pending /\ \A q \in pending : r.doc <= q.doc
    /\ pending' = pending \ {r}
    /\ rows' = IF Eval(where, r) = "true" THEN Append(rows, r) ELSE rows
    /\ IF Eval(where, r) = "error" THEN Return("error")
       ELSE IF limit >= 0 /\ r.doc >= limit THEN Return("ok")
       ELSE UNCHANGED <<phase, result>>
    /\ UNCHANGED <<input, where, next, opts>>

\* The executor's callback, for the record with the smallest DocID.
Visit(r) ==
    /\ phase = "scan"
    /\ r \in pending /\ \A q \in pending : r.doc <= q.doc
    /\ pending' = pending \ {r}
    /\ CASE Eval(where, r) = "error" -> Return("error") /\ UNCHANGED rows
         [] Eval(where, r) = "false" -> UNCHANGED <<phase, result, rows>>
         [] Eval(where, r) = "true" ->
              /\ rows' = Append(rows, r)
              /\ IF limit >= 0 /\ Len(rows) + 1 >= limit
                   THEN Return("ok") ELSE UNCHANGED <<phase, result>>
    /\ UNCHANGED <<input, where, next, opts>>

Finish ==
    /\ phase = "scan" /\ pending = {}
    /\ Return("ok")
    /\ UNCHANGED <<input, where, next, opts, pending, rows>>

Next ==
    \/ Scope \/ PlanTerm \/ StartScan
    \/ \E r \in pending : Visit(r)
    \/ Finish

Spec == Init /\ [][Next]_vars

-----------------------------------------------------------------------------
TypeOK ==
    /\ asked \in Wheres /\ caller \in Callers
    /\ limit \in Limits /\ store \in Stores
    /\ where \in Seq(Seq(Terms))
    /\ phase \in {"parsed", "plan", "scan", "done"}
    /\ next \in Nat \ {0} /\ opts \in [min : Int, max : Int]
    /\ pending \subseteq Records /\ rows \in Seq(Records)
    /\ result \in {"none", "ok", "error"}

InScope(r) == caller = InProcess \/ r.tenant = caller

\* A caller of the HTTP server gets rows of its own tenant only, whatever
\* ORs and parentheses its WHERE clause has (ADR-010).
TenantOnly == \A k \in DOMAIN rows : InScope(rows[k])

\* "incorrect pushdown is a correctness bug": a record outside the planned
\* window does not satisfy the WHERE clause.
PushdownSafe ==
    phase \in {"scan", "done"} =>
        \A r \in Records : Outside(r) => Eval(where, r) # "true"

\* The plain meaning of the WHERE clause that was sent.
Satisfies(r) ==
    /\ InScope(r)
    /\ \/ asked = <<>>
       \/ \E i \in DOMAIN asked :
            \A j \in DOMAIN asked[i] : Verdict(asked[i][j], r) = "true"

Wanted ==
    {r \in store.mem \cup UNION store.tables : Satisfies(r)}

\* A query that reports success returns the wanted records in DocID order:
\* all of them, or the first LIMIT many.
AnswerExact ==
    result = "ok" =>
        /\ limit = NoLimit \/ Len(rows) <= limit
        /\ \A k \in DOMAIN rows : rows[k] \in Wanted
        /\ \A j, k \in DOMAIN rows : j < k => rows[j].doc < rows[k].doc
        /\ \A r \in Wanted :
              \/ \E k \in DOMAIN rows : rows[k] = r
              \/ Len(rows) = limit /\ \A k \in DOMAIN rows : rows[k].doc < r.doc
=============================================================================
