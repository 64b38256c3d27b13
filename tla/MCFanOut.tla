------------------------------- MODULE MCFanOut -------------------------------
(***************************************************************************)
(* TLC instance of FanOut: a table with a group g, a number v and a name   *)
(* n; every shape of statement alone, tables whose types the local         *)
(* Postgres does not keep, and pairs of queries that compete for the       *)
(* caches and for the one client of the local pool.                        *)
(***************************************************************************)
EXTENDS FanOut

CONSTANTS q1, q2, h1, h2, c1

MCShards == <<h1, h2>>

\* The table, with the type of v.
TableOf(rows, type) ==
    [fields |-> <<Field("g", "known"), Field("v", type), Field("n", "known")>>, rows |-> rows]

Row(a, b, e) == [g |-> a, v |-> b, n |-> e]

\* A group on both shards and one on a single shard; an empty name; an empty shard.
Mixed == << <<Row(1, 1, 5), Row(2, 1, 6)>>, <<Row(2, 3, 5), Row(2, 1, 6)>> >>
Gaps == << <<Row(2, 1, 5)>>, <<Row(1, 1, Empty), Row(2, 3, 6)>> >>
Skewed == << <<Row(1, 1, 5), Row(1, 3, 6)>>, <<Row(2, 1, 5)>> >>
Small == << <<>>, <<Row(1, 3, 5)>> >>
\* Values of two characters, few and many; NULL.
Long == << <<Row(1, 10, 5)>>, <<Row(2, 9, 6)>> >>
Longer == << <<Row(1, 10, 5), Row(2, SqlNull, 5)>>, <<Row(2, 9, 6)>> >>
Short == << <<Row(1, 3, 5)>>, <<Row(2, 1, 6), Row(2, SqlNull, 6)>> >>
Lone == << <<>>, <<Row(1, 10, 5)>> >>

All == <<Item(Ref("*"), Nothing)>>
Cols(names) == [i \in DOMAIN names |-> Item(Ref(names[i]), Nothing)]
One(e) == <<Item(e, Nothing)>>

Count == Call("count", "*", "plain")
Sum == Call("sum", "v", "plain")

Select ==
    [type |-> "select", returning |-> FALSE, columns |-> All, from |-> "table",
     where |-> Nothing, distinct |-> FALSE, groupBy |-> <<>>, having |-> Nothing,
     orderBy |-> <<>>, limit |-> Nothing, offset |-> FALSE, param |-> "none"]

ByV == [Select EXCEPT !.orderBy = <<Ref("v")>>]
ByG == [Select EXCEPT !.columns = Cols(<<"g">>) \o One(Sum), !.groupBy = <<"g">>]
Total == [Select EXCEPT !.columns = One(Sum)]

Plain ==
    {Select,
     [Select EXCEPT !.where = "v"],
     [Select EXCEPT !.columns = Cols(<<"v", "v">>)],
     [Select EXCEPT !.where = "v", !.param = "where"],
     [Select EXCEPT !.limit = 1],
     [Select EXCEPT !.offset = TRUE],
     [Select EXCEPT !.distinct = TRUE, !.columns = Cols(<<"v">>)],
     [Select EXCEPT !.groupBy = <<"g">>, !.columns = Cols(<<"g">>)],
     [Select EXCEPT !.columns = Cols(<<"none">>)],
     [Select EXCEPT !.columns = One(Cast(Count))],
     [Select EXCEPT !.columns = Cols(<<"g">>) \o One(Cast(Sum)), !.groupBy = <<"g">>],
     [Select EXCEPT !.columns = One(Call("lower", "n", "plain"))]}

Ordered ==
    {ByV,
     [ByV EXCEPT !.limit = 1],
     [ByV EXCEPT !.orderBy = <<Ref("g"), Ref("v")>>, !.limit = 3, !.columns = Cols(<<"v", "g">>)],
     [ByV EXCEPT !.limit = 1, !.param = "limit"],
     [ByV EXCEPT !.where = "v", !.param = "where"],
     [ByV EXCEPT !.columns = Cols(<<"g">>)],
     [ByV EXCEPT !.columns = Cols(<<"v">>), !.where = "g"],
     [ByV EXCEPT !.columns = Cols(<<"v">>), !.distinct = TRUE],
     [ByV EXCEPT !.columns = <<Item(Ref("v"), "x")>>, !.orderBy = <<Ref("x")>>],
     [ByV EXCEPT !.columns = Cols(<<"v", "v">>)],
     [ByV EXCEPT !.columns = One(Call("lower", "n", "plain")) \o Cols(<<"v">>)],
     [ByV EXCEPT !.columns = <<Item(Cast(Call("max", "v", "plain")), "v")>>],
     [ByV EXCEPT !.columns = Cols(<<"g">>) \o <<Item(Cast(Call("count", "v", "plain")), "v")>>,
                 !.groupBy = <<"g">>],
     [ByV EXCEPT !.offset = TRUE],
     [ByV EXCEPT !.from = "join"],
     [ByV EXCEPT !.from = "schema"],
     [ByV EXCEPT !.from = "qualified"]}

Aggregated ==
    {Total,
     [Total EXCEPT !.columns = One(Count)],
     [Total EXCEPT !.columns = One(Count), !.limit = 1],
     [Total EXCEPT !.columns = One(Count) \o <<Item(Cast(Sum), "v")>>],
     [Total EXCEPT !.columns = One(Call("max", "v", "plain"))],
     [Total EXCEPT !.columns = One(Call("count", "n", "plain")) \o One(Count)],
     [Total EXCEPT !.columns = One(Call("max", "n", "plain"))],
     [Total EXCEPT !.columns = One(Count), !.where = "v"],
     [Total EXCEPT !.where = "v"],
     [Total EXCEPT !.distinct = TRUE],
     [Total EXCEPT !.columns = One(Call("string_agg", "v", "ordered"))],
     [Total EXCEPT !.columns = One(Call("percentile_disc", "v", "within"))],
     [Total EXCEPT !.columns = Cols(<<"v">>), !.having = Count, !.groupBy = <<"v">>]}

GroupedSelects ==
    {ByG,
     [ByG EXCEPT !.orderBy = <<Sum>>, !.limit = 1],
     [ByG EXCEPT !.orderBy = <<Ref("g")>>, !.having = Count],
     [ByG EXCEPT !.columns = <<Item(Ref("g"), "x"), Item(Sum, "v")>>, !.orderBy = <<Ref("v")>>],
     [ByG EXCEPT !.columns = <<Item(Ref("g"), "x"), Item(Sum, Nothing)>>, !.groupBy = <<"x">>],
     [ByG EXCEPT !.columns = <<Item(Ref("g"), "v"), Item(Sum, "x")>>],
     [ByG EXCEPT !.columns = One(Sum), !.having = Call("max", "v", "plain")],
     [ByG EXCEPT !.columns = Cols(<<"g">>), !.orderBy = <<Count>>]}

RefusedSelects ==
    {[Total EXCEPT !.columns = One(Call("sum", "v", "over"))],
     [Total EXCEPT !.columns = One(Call("rank", "v", "within"))],
     [Total EXCEPT !.columns = One(Call("string_agg", "v", "plain"))],
     [Total EXCEPT !.columns = One(Call("percentile_disc", "v", "plain"))],
     [Total EXCEPT !.columns = One(Call("my_agg", "v", "within"))],
     [Total EXCEPT !.columns = One(Call("sum", "v", "subquery"))],
     [ByG EXCEPT !.columns = Cols(<<"g">>) \o One(Call("my_agg", "g", "plain"))],
     [Select EXCEPT !.from = "call"],
     [Total EXCEPT !.columns = One(Call("now", "v", "plain")), !.from = "none"]}

Changes ==
    {[Select EXCEPT !.type = t, !.returning = r, !.where = "v"] :
        t \in {"update", "delete", "insert"}, r \in BOOLEAN}
    \cup {[Select EXCEPT !.type = "other"]}

Sql(s) == [word |-> "SQL", stmts |-> <<s>>]

Shapes ==
    {Sql(s) : s \in Plain \cup Ordered \cup Aggregated \cup GroupedSelects
                    \cup RefusedSelects \cup Changes}
    \cup {[word |-> w, stmts |-> <<>>] : w \in Words \ {"SQL"}}
    \cup {[word |-> "SQL", stmts |-> <<Select, Select>>], [word |-> "SQL", stmts |-> <<>>]}

\* What the types of the local table can change.
Typed ==
    {Sql(s) : s \in {Select, ByV, ByG, Total,
                     [ByV EXCEPT !.where = "v"],
                     [ByV EXCEPT !.where = "v", !.param = "where"],
                     [ByV EXCEPT !.columns = Cols(<<"v">>), !.distinct = TRUE],
                     [Total EXCEPT !.columns = One(Count)],
                     [Total EXCEPT !.columns = One(Call("max", "v", "plain"))],
                     [ByG EXCEPT !.columns = Cols(<<"g">>), !.having = Call("max", "v", "plain")]}}
    \cup {Sql([Select EXCEPT !.type = "delete", !.returning = TRUE])}

MCTexts == Shapes \cup Typed

\* One text of every class.
Classified ==
    {Sql(s) : s \in {Select, [Select EXCEPT !.from = "call"]} \cup Changes}
    \cup {t \in Shapes : t.stmts = <<>>}

\* Two queries at once: the same text, texts that evict each other, merges.
Update == Sql([Select EXCEPT !.type = "update", !.where = "v"])
Cached == {<<Sql(Select), Sql(Select)>>, <<Update, Sql([Select EXCEPT !.from = "call"])>>}
Merges == {<<Sql(Total), Sql(ByV)>>, <<Update, Sql(Total)>>}

Ask(s, t, rows, configured) ==
    [ask |-> [q \in {q1, q2} |-> IF q = q1 THEN s ELSE t], tables |-> rows,
     redis |-> configured]

OfNumbers(rows) == TableOf(rows, "known")

MCWorkloads ==
    {Ask(t, Null, OfNumbers(rows), FALSE) : t \in Shapes, rows \in {Mixed, Gaps, Skewed, Small}}
    \cup {Ask(t, Null, TableOf(rows, type), FALSE) :
             t \in Typed, rows \in {Long, Longer, Short, Lone}, type \in {"oid", "char", "bytes"}}
    \cup {Ask(t, Null, OfNumbers(Small), TRUE) : t \in Classified}
    \cup {Ask(x[1], x[2], OfNumbers(Small), TRUE) : x \in Cached}
    \cup {Ask(x[1], x[2], OfNumbers(Gaps), FALSE) : x \in Merges}
============================================================================
