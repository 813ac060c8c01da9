------------------------------- MODULE Queries --------------------------------
(***************************************************************************)
(* A query of one model: what its builders make of it, the statement each   *)
(* read and each bulk write runs, and what the database answers (BaseQuery  *)
(* in src/sqlakit/_query.py, Query in src/sqlakit/orm.py).                  *)
(*                                                                         *)
(* The model has a key, a value some of which __query_filter__ hides, a     *)
(* mark of a soft delete, and a foreign key to a table of teams that may be *)
(* NULL.  A criterion is the set of the rows it lets through.  A builder    *)
(* gives the set of the queries it can return, none where it raises; an     *)
(* answer of the database is one of a set, since SQL orders no more than it *)
(* was told to.                                                            *)
(***************************************************************************)
EXTENDS Integers, Sequences, FiniteSets, SequencesExt, FiniteSetsExt

CONSTANTS
    Id,          \* the keys rows may have
    Value,       \* what their column may hold
    TeamOf,      \* the team of the row with a key, 0 for NULL
    Admitted,    \* the values __query_filter__ lets through
    Lower(_),    \* the value a case-insensitive comparison takes one for
    Offered,     \* __orderable__: the field each name stands for
    Fold(_),     \* a name without its case and its separators
    Criteria,    \* what callers narrow by, a set of rows each
    Sorts,       \* what they order by: sequences of criteria
    Limits,      \* bound: the limits and offsets they ask for
    MaxCalls     \* bound: how many builders they chain

ASSUME IdAssumption == Id \subseteq Nat \ {0} /\ Value \subseteq Nat \ {0}
ASSUME CellAssumption == TeamOf \in [Id -> Nat] /\ \A v \in Value : Lower(v) \in Nat
ASSUME LimitsAssumption == Limits \subseteq Nat \ {0} /\ MaxCalls \in Nat

Row == [id : Id, value : Value, marked : BOOLEAN]
Tables == {t \in SUBSET Row : \A r, s \in t : r.id = s.id => r = s}

None == -1

(***************************************************************************)
(* The select built so far, and the switches beside it.                     *)
(***************************************************************************)
NewQuery == [where |-> {}, having |-> {}, joined |-> "", order |-> <<>>,
             limit |-> None, offset |-> None,
             raw |-> FALSE, filtered |-> TRUE, deleted |-> "hidden"]

RejectsStatement(q) == q.raw

WithSelect(q, select) == IF RejectsStatement(q) THEN {} ELSE {select}

Where(q, criterion) == WithSelect(q, [q EXCEPT !.where = @ \cup {criterion}])
FilterBy(q, v) == Where(q, {r \in Row : r.value = v})
Join(q, isouter) ==
    WithSelect(q, [q EXCEPT !.joined = IF isouter THEN "outer" ELSE "inner"])

(***************************************************************************)
(* Groups are those of group_by(the key), one row each; what a group is     *)
(* narrowed by is read off its row.                                        *)
(***************************************************************************)
GroupByAndHaving(q, criterion) ==
    WithSelect(q, [q EXCEPT !.having = @ \cup {criterion}])

Limit(q, n) == WithSelect(q, [q EXCEPT !.limit = n])
Offset(q, n) == WithSelect(q, [q EXCEPT !.offset = n])

(* Loader options and locks say how rows are read, not which. *)
Options(q) == WithSelect(q, q)
WithForUpdate(q) == WithSelect(q, q)

Unfiltered(q) == {[q EXCEPT !.filtered = FALSE]}
WithDeleted(q) == {[q EXCEPT !.deleted = "included"]}
OnlyDeleted(q) == {[q EXCEPT !.deleted = "only"]}
FromStatement(q) == {[q EXCEPT !.raw = TRUE]}

------------------------------------------------------------------------------
(***************************************************************************)
(* Orderings.  A field is a column, with the join it needs, on a condition  *)
(* of its own or (0) on the foreign key; a clause is a column with a        *)
(* direction, a place for its NULLs, and whether case counts.               *)
(***************************************************************************)
Key == <<"rows", "id">>
Text == <<"rows", "value">>
Foreign == <<"teams", "id">>

Placed == {"", "first", "last"}

(* The key is offered by its name, and its table needs no join.            *)
ASSUME OfferedAssumption ==
    /\ \A name \in DOMAIN Offered : Offered[name].column \in {Key, Text, Foreign}
    /\ "id" \in DOMAIN Offered /\ Offered["id"].column = Key /\ Offered["id"].join = ""
ASSUME SortsAssumption ==
    \A sort \in Sorts :
       sort.criteria \in Seq([asked : STRING, descending : BOOLEAN, nulls : Placed])

FieldsNamed(asked) ==
    IF asked \in DOMAIN Offered THEN {asked}
    ELSE {name \in DOMAIN Offered : Fold(name) = Fold(asked)}

Known(asked) == Cardinality(FieldsNamed(asked)) = 1
FieldNamed(asked) == CHOOSE name \in FieldsNamed(asked) : TRUE

Clause(criterion, ignored, nulls) ==
    LET name == FieldNamed(criterion.asked)
    IN [column     |-> Offered[name].column,
        folded     |-> name \in ignored /\ Offered[name].column = Text,
        descending |-> criterion.descending,
        nulls      |-> IF criterion.nulls = "" THEN nulls ELSE criterion.nulls]

JoinsFor(criteria) ==
    LET FieldOf(criterion) == Offered[FieldNamed(criterion.asked)]
        joining == {i \in DOMAIN criteria : FieldOf(criteria[i]).join # ""}
    IN [i \in joining |-> FieldOf(criteria[i])]

FirstJoin(joins) == joins[Min(DOMAIN joins)]

Conflicting(joins) ==
    /\ DOMAIN joins # {}
    /\ FirstJoin(joins).on # 0
    /\ \E i \in DOMAIN joins : joins[i].on \notin {0, FirstJoin(joins).on}

Ordered(q, criteria, ignoreCase, nulls) ==
    LET named == ToSet(criteria)
        joins == JoinsFor(criteria)
        clauses == [i \in DOMAIN criteria |->
                      Clause(criteria[i], {FieldNamed(one) : one \in ignoreCase}, nulls)]
        refused == \/ nulls \notin Placed
                   \/ \E one \in ignoreCase \cup {c.asked : c \in named} : ~Known(one)
    IN IF criteria = <<>> THEN WithSelect(q, q)
       ELSE IF refused \/ Conflicting(joins) THEN {}
       ELSE WithSelect(q, [q EXCEPT
              !.order = @ \o clauses,
              !.joined = IF @ # "" \/ DOMAIN joins = {} THEN @ ELSE FirstJoin(joins).join])

OrderBy(q, sort) == Ordered(q, sort.criteria, sort.ignore_case, sort.nulls)

Directed(asked, descending) ==
    [asked |-> asked, descending |-> descending, nulls |-> ""]

------------------------------------------------------------------------------
(* Every query of MaxCalls builders. *)

Built(q) ==
    (UNION {Unfiltered(q), WithDeleted(q), OnlyDeleted(q), FromStatement(q),
            Options(q), WithForUpdate(q)})
    \cup (UNION {Where(q, c) \cup GroupByAndHaving(q, c) : c \in Criteria})
    \cup (UNION {FilterBy(q, v) : v \in Value})
    \cup (UNION {Limit(q, n) \cup Offset(q, n) : n \in Limits})
    \cup (UNION {OrderBy(q, sort) : sort \in Sorts})
    \cup (IF q.joined = "" THEN Join(q, TRUE) \cup Join(q, FALSE) ELSE {})

BuiltBy[calls \in 0 .. MaxCalls] ==
    IF calls = 0 THEN {NewQuery}
    ELSE BuiltBy[calls - 1] \cup UNION {Built(q) : q \in BuiltBy[calls - 1]}

Queries == BuiltBy[MaxCalls]

------------------------------------------------------------------------------
(* What the database answers. *)

Marked == {r \in Row : r.marked}
Unmarked == Row \ Marked
AdmittedRows == {r \in Row : r.value \in Admitted}
HasTeam == {r \in Row : TeamOf[r.id] # 0}

(***************************************************************************)
(* The select with the two filters a model puts on a read.                  *)
(***************************************************************************)
Filtered(q) ==
    [q EXCEPT !.where = @ \cup (IF q.filtered THEN {AdmittedRows} ELSE {})
                          \cup (CASE q.deleted = "hidden" -> {Unmarked}
                                  [] q.deleted = "only" -> {Marked}
                                  [] q.deleted = "included" -> {})]

Admits(criteria, r) == \A criterion \in criteria : r \in criterion

Selected(select, table) ==
    {r \in table : /\ Admits(select.where \cup select.having, r)
                   /\ select.joined = "inner" => r \in HasTeam}

Lowered(clause, v) == IF clause.folded THEN Lower(v) ELSE v
Cell(clause, r) ==
    CASE clause.column = Key -> r.id
      [] clause.column = Text -> Lowered(clause, r.value)
      [] clause.column = Foreign -> TeamOf[r.id]

(* NULLs are the least of the values where a clause does not place them. *)
Precedes(clause, r, s) ==
    LET a == Cell(clause, r)  b == Cell(clause, s)
    IN CASE a = 0 /\ b # 0 ->
              clause.nulls = "first" \/ (clause.nulls = "" /\ ~clause.descending)
         [] a # 0 /\ b = 0 ->
              clause.nulls = "last" \/ (clause.nulls = "" /\ clause.descending)
         [] OTHER -> IF clause.descending THEN a > b ELSE a < b

Before(order, r, s) ==
    \E i \in DOMAIN order :
       /\ Precedes(order[i], r, s)
       /\ \A j \in 1 .. i - 1 : Cell(order[j], r) = Cell(order[j], s)

Sortings(order, rows) ==
    {s \in SetToSeqs(rows) :
       \A i, j \in DOMAIN s : i < j => ~Before(order, s[j], s[i])}

Cut(select, rows) ==
    LET from == IF select.offset = None THEN 0 ELSE select.offset
        to == IF select.limit = None THEN Len(rows)
              ELSE Min({Len(rows), from + select.limit})
    IN SubSeq(rows, from + 1, to)

Answers(select, table) ==
    {Cut(select, s) : s \in Sortings(select.order, Selected(select, table))}

------------------------------------------------------------------------------
(* The reads of a query.  A statement of the caller's own reads any row.    *)

All(q, table) ==
    IF q.raw THEN Sortings(<<>>, table) ELSE Answers(Filtered(q), table)

First(q, table) ==
    LET limited == IF q.raw THEN q ELSE [q EXCEPT !.limit = 1]
    IN {SubSeq(s, 1, Min({1, Len(s)})) : s \in All(limited, table)}

Latest(q, asked, table) ==
    UNION {First(l, table) : l \in Ordered(q, <<Directed(asked, TRUE)>>, {}, "")}
Earliest(q, asked, table) ==
    UNION {First(e, table) : e \in Ordered(q, <<Directed(asked, FALSE)>>, {}, "")}

(* only_columns(): the values of the rows, in their place. *)
Columns(q, table) ==
    IF RejectsStatement(q) THEN {}
    ELSE {[i \in DOMAIN s |-> s[i].value] : s \in Answers(Filtered(q), table)}

One(q, table) == {s \in All(q, table) : Len(s) = 1}

Counts(q, table) ==
    IF RejectsStatement(q) THEN {}
    ELSE {Len(s) : s \in Answers([Filtered(q) EXCEPT !.order = <<>>], table)}

Exists(q, table) ==
    IF RejectsStatement(q) THEN {}
    ELSE {s # <<>> : s \in Answers([Filtered(q) EXCEPT !.order = <<>>, !.limit = 1], table)}

Keyed(rows, field) == [k \in {r[field] : r \in ToSet(rows)} |->
                         CHOOSE r \in ToSet(rows) : r[field] = k]
DuplicateKey(rows, field) ==
    \E i, j \in DOMAIN rows : i # j /\ rows[i][field] = rows[j][field]
InBulk(q, table, field) ==
    UNION {{Keyed(s, field) : s \in {a \in All(o, table) : ~DuplicateKey(a, field)}} :
           o \in Options(q)}

(***************************************************************************)
(* A lookup by key.  Loader options, the lock and what lifts the filters    *)
(* carry over; any other builder is refused.  A model whose filters are     *)
(* both lifted is asked of the session, which reads the row and nothing     *)
(* beside it.                                                              *)
(***************************************************************************)
Carries(select) ==
    {part \in {"limit", "offset", "order_by", "join"} :
       \/ part = "limit" /\ select.limit # None
       \/ part = "offset" /\ select.offset # None
       \/ part = "order_by" /\ select.order # <<>>
       \/ part = "join" /\ select.joined # ""}

LookupRefused(q) ==
    RejectsStatement(q) \/ q.where # {} \/ Carries(q) # {}

LooksUpByKey(q) == ~q.filtered /\ q.deleted = "included"

WithKey(id) == {r \in Row : r.id = id}

\* Mutant: a lookup by key that asks no filter.
GetUnasked(q, id, table) == table \cap WithKey(id)

Get(q, id, table) ==
    IF LooksUpByKey(q) THEN table \cap WithKey(id)
    ELSE Selected([Filtered(q) EXCEPT !.where = @ \cup {WithKey(id)}], table)

------------------------------------------------------------------------------
(* Pages by offset. *)

\* Mutant: a column taken for its name, whatever its table.
ColumnName(clause) == IF clause.folded THEN <<"", "">> ELSE <<"rows", clause.column[2]>>

ColumnIdentity(clause) == IF clause.folded THEN <<"", "">> ELSE clause.column

Tiebroken(select) ==
    LET ordered == {ColumnIdentity(clause) : clause \in ToSet(select.order)}
        missing == [column |-> Key, folded |-> FALSE, nulls |-> "",
                    descending |-> Last(select.order).descending]
    IN IF Key \in ordered THEN select
       ELSE [select EXCEPT !.order = Append(@, missing)]

PageRefused(q) == RejectsStatement(q) \/ q.order = <<>>

PageRows(q, limit, offset, table) ==
    Answers([Tiebroken(Filtered(q)) EXCEPT !.limit = limit, !.offset = offset], table)

CountedPage(q, limit, offset, table) ==
    {LET items == IF counted <= offset THEN <<>> ELSE rows
     IN [items |-> items, has_next |-> offset + Len(items) < counted] :
       counted \in Counts(q, table), rows \in PageRows(q, limit, offset, table)}

UncountedPage(q, limit, offset, table) ==
    {[items    |-> SubSeq(rows, 1, Min({limit, Len(rows)})),
      has_next |-> Len(rows) > limit] :
       rows \in PageRows(q, limit + 1, offset, table)}

Page(q, limit, offset, total, table) ==
    IF total THEN CountedPage(q, limit, offset, table)
    ELSE UncountedPage(q, limit, offset, table)

------------------------------------------------------------------------------
(* What a bulk update or delete carries over: the narrowing, nothing else.  *)

\* Mutant: a join is not looked for.
BulkRefusedUnlessJoined(q) == RejectsStatement(q) \/ Carries(q) \ {"join"} # {}

BulkRefused(q) == RejectsStatement(q) \/ Carries(q) # {}
BulkCriteria(q) == Filtered(q).where
Touched(q, table) == {r \in table : Admits(BulkCriteria(q), r)}
==============================================================================
