----------------------------- MODULE SelectFanOut -----------------------------
(***************************************************************************)
(* What becomes of a statement that is sent to all shards: how             *)
(* splitSelectForLocalFanOut() takes a SELECT apart, how a shard's stream  *)
(* of chunks is read, how the shards' results are concatenated or loaded   *)
(* into a temporary table of a local Postgres for the SELECT to run again. *)
(* There is no state here; FanOut has the steps.                           *)
(*                                                                         *)
(* A statement is a record.  An expression is a column, one call with a    *)
(* column (or "*") as its argument, or such a call inside a cast or a CASE *)
(* (type "cast"); WHERE compares a column with the number 1, HAVING asks   *)
(* that a call be greater than 1, OFFSET skips a row.  Values are numbers  *)
(* below 100, those from 10 on of two characters: Empty is the empty text, *)
(* SqlNull is NULL, which Postgres sorts last.                             *)
(***************************************************************************)
EXTENDS Integers, SequencesExt

CONSTANTS
    Nothing,            \* no column, alias, limit
    CopyThreshold,      \* MTDD_LOCAL_MERGE_COPY_THRESHOLD
    UnnestThreshold     \* MTDD_LOCAL_MERGE_UNNEST_THRESHOLD

Empty == -1
SqlNull == 1000

Ref(c) == [type |-> "ref", name |-> c]
Call(f, c, style) == [type |-> "call", name |-> f, arg |-> c, style |-> style]
Cast(call) == [call EXCEPT !.type = "cast"]
Item(e, alias) == [expr |-> e, alias |-> alias]

NameOf(item) == IF item.alias # Nothing THEN item.alias ELSE item.expr.name

\* The type of a field is "char" for char(n), "bytes" for one whose values node-postgres
\* reads as objects (bytea), "oid" for one that OID_TO_PG_TYPE does not have, or "known".
Field(name, type) == [name |-> name, type |-> type]

Names(fields) == [i \in DOMAIN fields |-> fields[i].name]

TypeIn(fields, name) ==
    fields[CHOOSE i \in DOMAIN fields : fields[i].name = name].type

\* A result: fields, rows as objects, and the count of the command tag.
Result(fields, rows) == [fields |-> fields, rows |-> rows, rowCount |-> Len(rows)]
Error == [fields |-> <<>>, rows |-> <<>>, rowCount |-> -1]

ExprsOf(items) == {items[i].expr : i \in DOMAIN items}
Calls(E) == {e \in E : e.type = "call"}

\* The columns an expression reads: collectRefsFromExpr() finds none inside a cast.
ColumnsOf(e) ==
    (CASE e.type = "ref" -> {e.name} [] e.type = "call" -> {e.arg} [] OTHER -> {}) \ {"*"}

Having(s) == IF s.having = Nothing THEN {} ELSE {s.having}
---------------------------------------------------------------------------
(***************************************************************************)
(* postgres-aggregate-functions.ts.  One name stands for each list.        *)
(***************************************************************************)
RejectedAggregates == {"rank"}
OrderSensitive == {"string_agg"}
OrderedSet == {"percentile_disc"}
Associative == {"sum", "count", "max"}
Supported == Associative \cup OrderSensitive \cup OrderedSet

\* isScatterGatherAggregate()
IsAggregate(e) ==
    /\ e.type = "call"
    /\ e.style # "over"
    /\ e.name \notin RejectedAggregates
    /\ e.name \in Supported \/ e.style = "within"

\* validateScatterGatherAggregateCall() and the check for subqueries; windows.
RefusedCall(e) ==
    \/ e.style = "over"
    \/ e.name \in RejectedAggregates
    \/ /\ IsAggregate(e)
       /\ \/ e.name \in OrderSensitive /\ e.style \notin {"ordered", "within"}
          \/ e.name \in OrderedSet /\ e.style # "within"
          \/ e.name \notin Supported
          \/ e.style = "subquery"
---------------------------------------------------------------------------
(***************************************************************************)
(* select-local-fanout.ts.                                                 *)
(***************************************************************************)
\* selectHasSupportedAggregates() looks at the columns and HAVING, not at ORDER BY and
\* not inside a cast.
HasAggregates(s) == \E e \in ExprsOf(s.columns) \cup Having(s) : IsAggregate(e)

\* collectAllCallsFromSelect()
AllCalls(s) == Calls(ExprsOf(s.columns) \cup Having(s) \cup ToSet(s.orderBy))

\* selectRequiresFanOutValidation()
NeedsValidation(s) ==
    \/ s.orderBy # <<>>
    \/ HasAggregates(s)
    \/ s.groupBy # <<>> /\ Calls(ExprsOf(s.columns)) # {}
    \/ \E e \in AllCalls(s) :
         e.style = "over" \/ e.name \in RejectedAggregates \/ IsAggregate(e)

\* assertFanOutAggregateSupport() throws: also for a function that is no known
\* aggregate beside GROUP BY.
Unsupported(s) ==
    \/ \E e \in AllCalls(s) : RefusedCall(e)
    \/ /\ s.groupBy # <<>>
       /\ \E e \in Calls(ExprsOf(s.columns) \cup Having(s)) :
            e.name \notin Supported /\ e.style # "within"

\* The items of a sequence without those whose expression came before.
FirstOfEach(items) ==
    LET first == {i \in DOMAIN items :
                    \A j \in 1..i - 1 : items[j].expr # items[i].expr}
    IN [k \in 1..Cardinality(first) |->
          items[CHOOSE i \in first : Cardinality({j \in first : j < i}) = k - 1]]

RowMarker == Item([type |-> "const", name |-> "_mtdd_row"], "_mtdd_row")

\* buildRowLevelColumns(): what is grouped by, the columns that are not aggregates, and
\* what else the aggregates read.
RowLevelColumns(s) ==
    LET projected == FirstOfEach(
            [i \in DOMAIN s.groupBy |-> Item(Ref(s.groupBy[i]), Nothing)]
            \o SelectSeq(s.columns, LAMBDA item : ~IsAggregate(item.expr)))
        read == UNION {ColumnsOf(e) : e \in ExprsOf(s.columns)
                                          \cup {h \in Having(s) : IsAggregate(h)}}
        missing == SetToSeq(read \ {e.name : e \in {x \in ExprsOf(projected) : x.type = "ref"}})
        all == projected \o [i \in DOMAIN missing |-> Item(Ref(missing[i]), Nothing)]
    IN IF all = <<>> THEN <<RowMarker>> ELSE all

\* Mutant: the shards keep LIMIT.
Stripped_KeepsLimit(s) == [s EXCEPT !.orderBy = <<>>]

\* stripGlobalSortFromSelect(); a parameter of LIMIT goes with it.
Stripped(s) ==
    [s EXCEPT !.orderBy = <<>>, !.limit = Nothing,
              !.param = IF @ = "limit" THEN "none" ELSE @]

\* applyAggregateFanOutRewrite(); DISTINCT stays.
RowLevel(s) ==
    [s EXCEPT !.columns = RowLevelColumns(s), !.groupBy = <<>>, !.having = Nothing]

\* splitSelectForLocalFanOut(): the statement is refused, sent as it is, or split into
\* one for the shards and, the whole of it, one for the local Postgres.
Split(s) ==
    LET merge == s.orderBy # <<>> \/ HasAggregates(s)
        kind == IF NeedsValidation(s) /\ Unsupported(s) THEN "refused"
                ELSE IF ~merge THEN "plain"
                ELSE IF s.from \in {"join", "none", "call"} \/ s.offset THEN "refused"
                ELSE "merge"
    IN [kind |-> kind,
        shard |-> IF kind = "plain" THEN s
                  ELSE Stripped(IF HasAggregates(s) THEN RowLevel(s) ELSE s)]
---------------------------------------------------------------------------
(***************************************************************************)
(* External: Postgres.  A table has fields and rows, functions of the      *)
(* names.  The type "text" is that of numbers loaded as texts.             *)
(***************************************************************************)
Outputs(s, t) ==
    FlattenSeq([i \in DOMAIN s.columns |->
        IF s.columns[i].expr = Ref("*")
        THEN [j \in DOMAIN t.fields |-> Item(Ref(t.fields[j].name), Nothing)]
        ELSE <<s.columns[i]>>])

\* ORDER BY x means the output named x before the column, GROUP BY x the column before.
Output(items, name) ==
    items[CHOOSE i \in DOMAIN items : NameOf(items[i]) = name].expr

SortKeys(s, items) ==
    [k \in DOMAIN s.orderBy |->
        LET e == s.orderBy[k] IN
        IF e.type = "ref" /\ \E i \in DOMAIN items : NameOf(items[i]) = e.name
        THEN Output(items, e.name) ELSE e]

GroupKeys(s, t, items) ==
    {IF g \in ToSet(Names(t.fields)) \/ ~\E i \in DOMAIN items : NameOf(items[i]) = g
     THEN Ref(g) ELSE Output(items, g) : g \in ToSet(s.groupBy)}

Inner(e) == IF e.type = "cast" THEN [e EXCEPT !.type = "call"] ELSE e

Aggregates(e) == IsAggregate(Inner(e))

Grouped(s) ==
    \/ s.groupBy # <<>> \/ s.having # Nothing
    \/ \E e \in ExprsOf(s.columns) \cup ToSet(s.orderBy) : Aggregates(e)

TypeOf(e, t) ==
    IF e.type = "ref" THEN TypeIn(t.fields, e.name)
    ELSE IF e.type = "call" /\ e.name \in {"max", "percentile_disc"} THEN TypeIn(t.fields, e.arg)
    ELSE "known"

\* Postgres accepts the SELECT on the table; a text is not compared with a number.
Valid(s, t) ==
    LET items == Outputs(s, t)
        exprs == ExprsOf(items)
        keys == ToSet(SortKeys(s, items))
        groups == UNION {ColumnsOf(g) : g \in GroupKeys(s, t, items)}
        read == exprs \cup keys \cup Having(s) \cup GroupKeys(s, t, items)
        compared == Having(s) \cup (IF s.where = Nothing \/ s.param = "where" THEN {}
                                    ELSE {Ref(s.where)})
    IN /\ s.where \in ToSet(Names(t.fields)) \cup {Nothing}
       /\ \A e \in read : ColumnsOf(Inner(e)) \subseteq ToSet(Names(t.fields))
       /\ \A e \in compared : TypeOf(e, t) # "text"
       /\ \A e \in Calls({Inner(e) : e \in read}) :
            e.name = "sum" => TypeIn(t.fields, e.arg) = "known"
       /\ s.distinct => keys \subseteq exprs
       /\ Grouped(s) => \A e \in exprs \cup keys :
                          Aggregates(e) \/ ColumnsOf(Inner(e)) \subseteq groups

Summed(vs) == FoldSeq(LAMBDA x, y : x + y, 0, vs)

\* What a value is ordered by: a text character by character.
Rank(type, v) ==
    IF type # "text" \/ v \in {Empty, SqlNull} THEN v
    ELSE IF v < 10 THEN 11 * v ELSE 11 * (v \div 10) + (v % 10) + 1

\* A call of one of the other functions stands for something that depends on the
\* sorted values.
Aggregate(f, type, vs) ==
    CASE f = "count" -> Len(vs)
      [] vs = <<>> -> SqlNull
      [] f = "sum" -> Summed(vs)
      [] f = "max" -> CHOOSE x \in ToSet(vs) : \A y \in ToSet(vs) : Rank(type, y) <= Rank(type, x)
      [] OTHER -> SortSeq(vs, LAMBDA x, y : Rank(type, x) < Rank(type, y))

\* A function that is no aggregate: another value, but '' of '' and NULL of NULL.
Applied(v) == IF v \in {Empty, SqlNull} THEN v ELSE 100 + v

\* The value of an expression on a group of rows; a row by itself is a group of one.
Value(e, t, rows) ==
    IF Aggregates(e)
    THEN IF e.arg = "*" THEN Aggregate(e.name, "known", [i \in DOMAIN rows |-> 1])
         ELSE Aggregate(e.name, TypeIn(t.fields, e.arg),
                        SelectSeq([i \in DOMAIN rows |-> rows[i][e.arg]], LAMBDA x : x # SqlNull))
    ELSE CASE e.type = "const" -> 1
           [] e.type = "ref" -> rows[1][e.name]
           [] OTHER -> Applied(rows[1][e.arg])

Partition(s, t, rows) ==
    LET keys == GroupKeys(s, t, Outputs(s, t))
        Key(r) == [k \in keys |-> r[k.name]]
    IN IF ~Grouped(s) THEN [i \in DOMAIN rows |-> <<rows[i]>>]
       ELSE IF s.groupBy = <<>> THEN <<rows>>
       ELSE SetToSeq({SelectSeq(rows, LAMBDA r : Key(r) = k) : k \in {Key(r) : r \in ToSet(rows)}})

\* node-postgres makes a row an object: of two columns with one name the last is left.
Object(items, t, rows) ==
    [name \in {NameOf(items[i]) : i \in DOMAIN items} |->
        Value(items[CHOOSE i \in DOMAIN items :
                      /\ NameOf(items[i]) = name
                      /\ \A j \in i + 1..Len(items) : NameOf(items[j]) # name].expr, t, rows)]

Before(a, b) ==
    \E i \in DOMAIN a : a[i] < b[i] /\ \A j \in 1..i - 1 : a[j] = b[j]

\* The results Postgres may give: rows that compare equal come in any order.
Results(s, t) ==
    LET items == Outputs(s, t)
        keys == SortKeys(s, items)
        rows == SelectSeq(t.rows, LAMBDA r : s.where = Nothing \/ r[s.where] = 1)
        groups == SelectSeq(Partition(s, t, rows),
                            LAMBDA g : \A h \in Having(s) : Value(h, t, g) > 1)
        outs == [i \in DOMAIN groups |->
                    [out |-> Object(items, t, groups[i]),
                     key |-> [k \in DOMAIN keys |->
                                Rank(TypeOf(keys[k], t), Value(keys[k], t, groups[i]))]]]
        kept == IF s.distinct
                THEN {i \in DOMAIN outs : \A j \in 1..i - 1 : outs[j].out # outs[i].out}
                ELSE DOMAIN outs
        orders == {p \in SetToSeqs(kept) :
                     \A i, j \in DOMAIN p : i < j => ~Before(outs[p[j]].key, outs[p[i]].key)}
        first == IF s.offset THEN 2 ELSE 1
        last == IF s.limit = Nothing THEN Cardinality(kept)
                ELSE Min({Cardinality(kept), first + s.limit - 1})
    IN {Result([i \in DOMAIN items |-> Field(NameOf(items[i]), TypeOf(items[i].expr, t))],
               [i \in 1..last - first + 1 |-> outs[p[first + i - 1]].out]) : p \in orders}

\* UPDATE and DELETE of the rows of WHERE, with or without RETURNING *.
Changed(s, t) ==
    LET rows == SelectSeq(t.rows, LAMBDA r : s.where = Nothing \/ r[s.where] = 1)
    IN IF s.returning THEN Result(t.fields, rows)
       ELSE [fields |-> <<>>, rows |-> <<>>, rowCount |-> Len(rows)]

\* A statement with the given number of bound values.
Executed(s, values, t) ==
    IF (s.param # "none") # (values = 1) THEN {Error}
    ELSE IF s.type = "other" THEN {Result(<<>>, <<>>)}
    ELSE IF s.type # "select" THEN {Changed(s, t)}
    ELSE IF Valid(s, t) THEN Results(s, t) ELSE {Error}
---------------------------------------------------------------------------
(***************************************************************************)
(* grpc-query-codec.ts: the stream of chunks of a shard's agent.           *)
(***************************************************************************)
Chunk(kind, fields, rows, count) ==
    [kind |-> kind, fields |-> fields, rows |-> rows, count |-> count]

\* An ERROR chunk with the error in flatbuffer_meta, and one without.
Failed == Chunk("ERROR", <<>>, <<>>, 0)
FailedBare == Chunk("ERROR without meta", <<>>, <<>>, 0)

\* External: an agent sends SCHEMA first, rows with it or in batches, and ends with
\* TRAILER, or with the ERROR of a statement that Postgres refuses.
Streams(r) ==
    IF r = Error THEN {<<Failed>>}
    ELSE LET trailer == Chunk("TRAILER", <<>>, <<>>, r.rowCount) IN
         {<<Chunk("SCHEMA", r.fields, r.rows, 0), trailer>>,
          <<Chunk("SCHEMA", r.fields, <<>>, 0), Chunk("BATCH", <<>>, r.rows, 0), trailer>>}

\* External: the statement fails before, while or after its rows are sent.
BrokenStreams(r) ==
    {Append(sent, failure) :
        sent \in {<<>>} \cup {<<Chunk("SCHEMA", r.fields, SubSeq(r.rows, 1, n), 0)>> : n \in 0..Len(r.rows)},
        failure \in {Failed, FailedBare}}

FieldsIn(chunks) ==
    LET schemas == SelectSeq(chunks, LAMBDA x : x.kind = "SCHEMA")
    IN IF schemas = <<>> THEN <<>> ELSE schemas[Len(schemas)].fields

RowsIn(chunks) ==
    FlattenSeq([i \in DOMAIN chunks |->
        IF chunks[i].kind \in {"SCHEMA", "BATCH"} THEN chunks[i].rows ELSE <<>>])

Bare(chunks) == {i \in DOMAIN chunks : chunks[i] = FailedBare}

\* Mutant: any ERROR ends the stream as TRAILER does.
Decoded_Partial(chunks) == Result(FieldsIn(chunks), RowsIn(chunks))

\* decodeQueryStreamToPgResult(): an ERROR without meta ends the loop, and what came before
\* it is the result; a batch needs a schema before it; the count is the trailer's, or that
\* of the rows.
Decoded(chunks) ==
    LET looked == IF Bare(chunks) = {} THEN chunks ELSE SubSeq(chunks, 1, Min(Bare(chunks)) - 1)
        trailers == SelectSeq(looked, LAMBDA x : x.kind = "TRAILER")
        read == Result(FieldsIn(looked), RowsIn(looked))
        headless == \E i \in DOMAIN looked :
                      looked[i].kind = "BATCH" /\ \A j \in 1..i : looked[j].kind # "SCHEMA"
    IN IF headless \/ Failed \in ToSet(looked) THEN Error
       ELSE IF trailers = <<>> THEN read
       ELSE [read EXCEPT !.rowCount = trailers[Len(trailers)].count]
---------------------------------------------------------------------------
(***************************************************************************)
(* merge-results.ts: results is the sequence of the shards' results.       *)
(***************************************************************************)
AllRows(results) == FlattenSeq([i \in DOMAIN results |-> results[i].rows])

RowCounts(results) == Summed([i \in DOMAIN results |-> results[i].rowCount])

\* pickFieldsFromShards(), pickFieldsFromShardResults(): those of the first that has any.
FirstFields(results) ==
    LET some == SelectSeq(results, LAMBDA r : r.fields # <<>>)
    IN IF some = <<>> THEN <<>> ELSE some[1].fields

\* defaultMergeResults()
Concatenated(results) ==
    [fields |-> results[1].fields, rows |-> AllRows(results), rowCount |-> RowCounts(results)]

\* Mutant: the count of the first shard is given for all.
DmlMerged_First(results, returning) ==
    [fields |-> IF returning THEN FirstFields(results) ELSE <<>>,
     rows |-> IF returning THEN AllRows(results) ELSE <<>>,
     rowCount |-> results[1].rowCount]

\* mergeDmlResults()
DmlMerged(results, returning) ==
    [fields |-> IF returning THEN FirstFields(results) ELSE <<>>,
     rows |-> IF returning THEN AllRows(results) ELSE <<>>,
     rowCount |-> RowCounts(results)]

\* mergeFanOutResults(), for the types that get as far.
Merged(class, results) ==
    IF class.commandType \in {"UPDATE", "DELETE"} THEN DmlMerged(results, class.hasReturning)
    ELSE Concatenated(results)
---------------------------------------------------------------------------
(***************************************************************************)
(* postgres-select-merge.ts: the temporary table.                          *)
(***************************************************************************)
\* CREATE TEMP TABLE wants distinct names.
Distinct(names) == Cardinality(ToSet(names)) = Len(names)

LoadStrategy(rows) ==
    IF Len(rows) >= CopyThreshold THEN "copy"
    ELSE IF Len(rows) >= UnnestThreshold THEN "unnest" ELSE "batch"

\* pgTypeForField(): a type that is not listed becomes text, char(n) becomes char(1).
LoadedType(type) == IF type = "oid" THEN "text" ELSE type

TooLong(type, v) == type = "char" /\ v >= 10 /\ v # SqlNull

\* The value in the table.  formatCsvCell() writes NULL and the empty text alike, and COPY
\* reads NULL; of a Buffer it writes the JSON.  The cast to char[] of UNNEST truncates.
Cell(strategy, type, v) ==
    CASE strategy = "copy" /\ type = "bytes" /\ v # SqlNull -> 200 + v
      [] strategy = "copy" /\ v = Empty -> SqlNull
      [] strategy = "unnest" /\ TooLong(type, v) -> v \div 10
      [] OTHER -> v

\* Postgres refuses a value that is longer than char(1).
LoadRefused(results) ==
    /\ LoadStrategy(AllRows(results)) # "unnest"
    /\ \E r \in ToSet(AllRows(results)), f \in ToSet(FirstFields(results)) : TooLong(f.type, r[f.name])

\* insertRowsBatched(), insertRowsViaUnnest(), insertRowsViaCopy()
Loaded(results) ==
    LET fields == FirstFields(results)
        rows == AllRows(results)
    IN [fields |-> [i \in DOMAIN fields |-> Field(fields[i].name, LoadedType(fields[i].type))],
        rows |-> [i \in DOMAIN rows |->
                    [name \in DOMAIN rows[i] |->
                        Cell(LoadStrategy(rows), TypeIn(fields, name), rows[i][name])]]]

\* rewriteQueryTableNameAst() replaces the name in FROM and nothing else: a schema before
\* it, and columns written table.column without an alias, still mean the shards' table.
Rewritable(s) == s.from \notin {"schema", "qualified"}

\* The whole statement on the temporary table.
LocalResults(s, values, t) ==
    IF Rewritable(s) THEN Executed(s, values, t) ELSE {Error}
============================================================================
