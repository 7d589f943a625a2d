------------------------------- MODULE MCQuery -------------------------------
(* Small instances of Query for TLC. *)
EXTENDS Query

IntLit(n) == [kind |-> "int", num |-> n, text |-> ""]
TextLit(s) == [kind |-> "text", num |-> 0, text |-> s]
Compare(f, op, lit) == [kind |-> "compare", field |-> f, op |-> op, lit |-> lit]
Paren(w) == Parenthesized(w)

Rec(d, ts, tenant, source) ==
    [doc |-> d, ts |-> ts, tenant |-> tenant, source |-> source]

TimesAroundZero == -1..1

-----------------------------------------------------------------------------
(* Pushdown: every chain of one or two timestamp bounds, alone, beside a    *)
(* term on the source or a term that fails, and in an OR.                   *)

TsTerms == {Compare("ts", op, IntLit(n)) : op \in Operators, n \in Times}
OtherTerms == {Compare("source", "=", TextLit("x")),
               Compare("source", "<", TextLit("x")),
               Paren(<<<<Compare("ts", ">", IntLit(0))>>>>)}
PlanWheres ==
    {<<>>} \cup {<<<<t>>>> : t \in TsTerms}
    \cup {<<<<t, u>>>> : t \in TsTerms, u \in TsTerms \cup OtherTerms}
    \cup {<<<<u, t>>>> : t \in TsTerms, u \in OtherTerms}
    \cup {<<<<t>>, <<u>>>> : t \in TsTerms, u \in TsTerms \cup OtherTerms}

\* Record 1 comes from x and record 2 from y: both in one table, each in its
\* own, or the younger one still in the MemTable.
PlanStores ==
    LET Pair == {<<Rec(1, t, "a", "x"), Rec(2, u, "a", "y")>> :
                    t \in Times, u \in Times}
    IN UNION {{[mem |-> {}, tables |-> {{p[1], p[2]}}],
               [mem |-> {}, tables |-> {{p[1]}, {p[2]}}],
               [mem |-> {p[2]}, tables |-> {{p[1]}}]} : p \in Pair}

-----------------------------------------------------------------------------
(* Scope: clauses that name tenants in ORs, chains and parentheses.         *)

TenantTerms == {Compare("tenant_id", op, TextLit(t)) :
                    op \in {"=", "!="}, t \in Tenants}
ScopeTerms == TenantTerms \cup {Compare("ts", "=", IntLit(1)),
                                Compare("source", "<", TextLit("x"))}
Simple == {<<<<t>>>> : t \in ScopeTerms}
    \cup {<<<<t, u>>>> : t, u \in ScopeTerms}
    \cup {<<<<t>>, <<u>>>> : t, u \in ScopeTerms}
ScopeWheres ==
    {<<>>} \cup Simple
    \cup {<<<<Paren(w), t>>>> : w \in Simple, t \in TenantTerms}
    \cup {<<<<t>>, <<Paren(w)>>>> : w \in Simple, t \in TenantTerms}

\* Three records of two tenants, the first flushed.
ScopeStores ==
    {[mem |-> {Rec(2, 1, t, "x"), Rec(3, u, v, "x")},
      tables |-> {{Rec(1, 1, "a", "x")}}] :
        t \in Tenants, u \in Times, v \in Tenants}

-----------------------------------------------------------------------------
(* A direct caller asks the first kind of query, a caller of the server the *)
(* second.                                                                  *)

SomeWheres == PlanWheres \cup ScopeWheres
SomeStores == PlanStores \cup ScopeStores
PositiveLimits == {NoLimit, 1, 2}

MCInit ==
    /\ Init
    /\ IF caller = InProcess THEN asked \in PlanWheres /\ store \in PlanStores
       ELSE asked \in ScopeWheres /\ store \in ScopeStores
MCSpec == MCInit /\ [][Next]_vars
=============================================================================
