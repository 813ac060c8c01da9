------------------------------ MODULE Rendering ------------------------------
(***************************************************************************)
(* One template, from its text to the statement that runs: it is cut into   *)
(* parts, its calls are checked and resolved to their macros, and each      *)
(* rendering expands the calls with the values of one call, binds what they *)
(* bind and gives what the SQL names to the statement (MacroTemplate,       *)
(* Context, the built-in macros, _as_bound and _statement in                *)
(* src/sqlakit/_sql.py).                                                    *)
(***************************************************************************)
EXTENDS Scanner, TLC

CONSTANTS
    Sources,     \* the texts that are read
    Conditions,  \* those of them that are conditions, of the words in Atoms
    Atoms,
    Passed(_),   \* the values calls of a text pass, a function on names each
    Dialects,    \* the databases they render for
    RootOf,      \* for the name a :path binds as, the parameter it starts from
    SqlMacros,   \* macros written in SQL: their parameters and body
    FileMacros   \* macros with their SQL in a file: the slots of the function,
                 \* the parameters and body of the SQL, what it reads

VARIABLES
    source,    \* the text, once it is read
    template,  \* what it was read as
    passed,    \* what the rendering was called with
    rendered   \* what came of it

vars == <<source, template, passed, rendered>>

(***************************************************************************)
(* Values: NULL, lists of none and of two, an object with one attribute,    *)
(* and any other, a string.                                                 *)
(***************************************************************************)
Null == "None"
Empty == "[]"
Two == "[1, 2]"
Object == "object"
Attribute == "attribute"
Pattern == "%pattern%"
Items(v) == IF v = Two THEN <<"1", "2">> ELSE <<>>
IsSet(v) == v \notin {Null, Empty}
Expands(v) == v \in {Empty, Two}
Followed(v) == IF v = Null THEN Null ELSE Attribute

------------------------------------------------------------------------------
(* The macros a call may name. *)

Macro(slots, required, variadic, optional, lazy) ==
    [slots |-> slots, required |-> required, variadic |-> variadic,
     optional |-> optional, lazy |-> lazy]

BuiltIn ==
    [if_set     |-> Macro(<<"Param", "Sql", "Sql">>, 2, FALSE, TRUE, TRUE),
     unless_set |-> Macro(<<"Param", "Sql", "Sql">>, 2, FALSE, TRUE, TRUE),
     on_dialect |-> Macro(<<"Sql">>, 1, TRUE, FALSE, TRUE),
     between    |-> Macro(<<"Sql", "Param", "Param">>, 3, FALSE, TRUE, FALSE),
     in_list    |-> Macro(<<"Sql", "Param", "Param">>, 3, FALSE, TRUE, FALSE),
     array      |-> Macro(<<"Param">>, 1, FALSE, TRUE, FALSE),
     icontains  |-> Macro(<<"Sql", "Sql">>, 2, FALSE, FALSE, FALSE),
     each       |-> Macro(<<"Param">>, 1, FALSE, FALSE, FALSE),
     values     |-> Macro(<<"Param">>, 1, FALSE, FALSE, FALSE),
     identifier |-> Macro(<<"Param">>, 1, TRUE, FALSE, FALSE),
     order_by   |-> Macro(<<"Param", "Sql">>, 2, TRUE, TRUE, FALSE)]

Macros == BuiltIn
          @@ [m \in DOMAIN SqlMacros |->
                LET n == Len(SqlMacros[m].params)
                IN Macro([i \in 1 .. n |-> "Sql"], n, FALSE, FALSE, FALSE)]
          @@ [m \in DOMAIN FileMacros |->
                LET slots == FileMacros[m].slots
                IN Macro(slots, Len(slots), FALSE, FALSE, FALSE)]

\* A lone :parameter, and the name it binds as.
IsParameter(parts) == Len(parts) = 1 /\ parts[1][1] \in {"param", "path"}
NameOf(parts) == parts[1][2]

RECURSIVE Checks(_)
Checks(parts) ==
    \A call \in {p \in ToSet(parts) : IsCall(p)} :
        /\ MacroOf(call) \in DOMAIN Macros
        /\ LET macro == Macros[MacroOf(call)]
               args == ArgsOf(call)
           IN /\ Len(args) >= macro.required
              /\ macro.variadic \/ Len(args) <= Len(macro.slots)
              /\ \A a \in DOMAIN args :
                    /\ (a <= Len(macro.slots) /\ macro.slots[a] = "Param") => IsParameter(args[a][1])
                    /\ Checks(args[a][1])

------------------------------------------------------------------------------
(* Reading: every call is resolved to its macro once. *)

Read(parts, paths, n) == [ok |-> TRUE, parts |-> parts, paths |-> paths, n |-> n]

\* A macro's SQL with the text of the arguments where it names them, in brackets.
Expanded(params, body, texts) ==
    LET Written(token) ==
            IF \E i \in DOMAIN params : token = Word(params[i])
            THEN texts[CHOOSE i \in DOMAIN params : token = Word(params[i])]
            ELSE <<token>>
    IN Bracketed(FlattenSeq([i \in DOMAIN body |-> Written(body[i])]))

\* Calls of file macros are numbered, so that their parameters have names apart.
Prefix(macro, n) == macro \o "_" \o ToString(n)
Own(prefix, name) == prefix \o "__" \o name

OwnNamed(body, prefix) ==
    [i \in DOMAIN body |-> IF body[i][1] = "param" THEN Param(Own(prefix, body[i][2])) ELSE body[i]]

RECURSIVE Compile(_, _, _, _), ReadText(_, _, _)

\* A call of a macro written in Python: each argument a name, or parts.
Expansion(src, call, expanding, n) ==
    LET slots == Macros[MacroOf(call)].slots
        IsParam(a) == a <= Len(slots) /\ slots[a] = "Param"
        Next(acc, arg) ==
            LET a == Len(acc.args) + 1
                inner == Compile(src, arg[1], expanding, acc.n)
            IN CASE ~acc.ok -> acc
                 [] acc.ok /\ IsParam(a) ->
                        [acc EXCEPT !.args = Append(@, <<"param", NameOf(arg[1])>>),
                                    !.paths = @ \cup {p[2] : p \in {q \in ToSet(arg[1]) : q[1] = "path"}}]
                 [] OTHER ->
                        [acc EXCEPT !.args = Append(@, <<"sql", inner.parts>>), !.ok = inner.ok,
                                    !.paths = @ \cup inner.paths, !.n = inner.n]
        all == FoldLeft(Next, [ok |-> TRUE, args |-> <<>>, paths |-> {}, n |-> n], ArgsOf(call))
    IN [Read(<< <<"call", MacroOf(call), all.args>> >>, all.paths, all.n) EXCEPT !.ok = all.ok]

\* A call of an SQL macro is its body; it may not expand itself.
Inline(src, call, expanding, n) ==
    LET macro == SqlMacros[MacroOf(call)]
        texts == [a \in DOMAIN ArgsOf(call) |-> Text(src, ArgsOf(call)[a])]
    IN IF MacroOf(call) \in expanding THEN Unreadable @@ Read(<<>>, {}, n)
       ELSE ReadText(Expanded(macro.params, macro.body, texts), expanding \cup {MacroOf(call)}, n)

\* A call of a file macro is the call for its values, and its SQL read in.
FromFile(src, call, expanding, n) ==
    LET macro == FileMacros[MacroOf(call)]
        prefix == Prefix(MacroOf(call), n)
        texts == [a \in DOMAIN macro.params |-> Text(src, ArgsOf(call)[a])]
        sql == ReadText(Expanded(macro.params, OwnNamed(macro.body, prefix), texts),
                        expanding \cup {MacroOf(call)}, n + 1)
        function == Expansion(src, call, expanding, sql.n)
    IN IF MacroOf(call) \in expanding THEN Unreadable @@ Read(<<>>, {}, n)
       ELSE [ok |-> sql.ok /\ function.ok, n |-> function.n, paths |-> sql.paths \cup function.paths,
             parts |-> << <<"file", MacroOf(call), function.parts[1][3], prefix, sql.parts>> >>]

Compile(src, parts, expanding, n) ==
    LET One(i, k) ==
            LET part == parts[i]
            IN CASE part[1] = "path" /\ ~InString(parts, i) -> Read(<<Param(part[2])>>, {part[2]}, k)
                 [] IsCall(part) /\ MacroOf(part) \in DOMAIN SqlMacros -> Inline(src, part, expanding, k)
                 [] IsCall(part) /\ MacroOf(part) \in DOMAIN FileMacros -> FromFile(src, part, expanding, k)
                 [] IsCall(part) /\ MacroOf(part) \in DOMAIN BuiltIn -> Expansion(src, part, expanding, k)
                 [] OTHER -> Read(<<part>>, {}, k)
        Next(acc, i) ==
            LET read == One(i, acc.n)
            IN IF ~acc.ok THEN acc
               ELSE [ok |-> read.ok, parts |-> acc.parts \o read.parts,
                     paths |-> acc.paths \cup read.paths, n |-> read.n]
    IN FoldLeftDomain(Next, Read(<<>>, {}, n), parts)

ReadText(src, expanding, n) ==
    LET scanned == Scanned(src)
    IN IF ~scanned.ok \/ (scanned.ok /\ ~Checks(scanned.parts)) THEN Unreadable @@ Read(<<>>, {}, n)
       ELSE Compile(src, scanned.parts, expanding, n)

\* Mutant: only the names of the text are asked for, and none of a macro's.
NamesInText(parts, own) == {parts[i][2] : i \in {k \in DOMAIN parts : parts[k][1] = "param" /\ ~InString(parts, k)}}

\* The names a call passes values under: those of the text, outside strings and
\* but those of the file that is read, and those of the arguments of its calls,
\* where the file's are not told apart; a path is its root.
RECURSIVE NamesIn(_, _)
NamesIn(parts, own) ==
    LET OfArgs(args) == UNION {IF a[1] = "param" THEN {a[2]} ELSE NamesIn(a[2], {}) : a \in ToSet(args)}
        Of(p) == CASE p[1] = "param" -> {p[2]} \ own
                   [] p[1] = "call" -> OfArgs(p[3])
                   [] p[1] = "file" -> OfArgs(p[3])
                        \cup NamesIn(p[5], {Own(p[4], name) : name \in FileMacros[p[2]].reads})
                   [] OTHER -> {}
    IN UNION {Of(parts[i]) : i \in {k \in DOMAIN parts : ~InString(parts, k)}}

Parameters(read) ==
    {IF name \in read.paths THEN RootOf[name] ELSE name : name \in NamesIn(read.parts, {})}

------------------------------------------------------------------------------
(* Rendering.  ctx is the Context, with the SQL written so far, the macros   *)
(* that ran and what stopped it.                                             *)

Wrote(ctx, sql) == [ctx EXCEPT !.sql = sql]
Fails(ctx, why) == [ctx EXCEPT !.failed = why]

\* Mutant: a name is free when no macro has bound it.
FreeAmongBound(ctx, name) == ctx.count + 1

\* The number of the first free name to bind a value under.
Free(ctx, name) ==
    LET candidates == (ctx.count + 1) .. (ctx.count + 1 + Cardinality(DOMAIN ctx.values))
        free == {k \in candidates : Own(name, ToString(k)) \notin DOMAIN ctx.values}
    IN CHOOSE k \in free : \A j \in free : k <= j

Bind(ctx, name, value) ==
    LET k == Free(ctx, name)
        key == Own(name, ToString(k))
    IN [ctx EXCEPT !.count = k, !.sql = Append(@, Param(key)), !.values = (key :> value) @@ @]

\* Each item of a list under a name of its own, separated by commas.
BindEach(ctx, name, items) ==
    FoldLeft(LAMBDA c, item : IF c.sql = <<>> THEN Bind(c, name, item)
                              ELSE Bind(Wrote(c, Append(c.sql, Comma)), name, item),
             Wrote(ctx, <<>>), items)

\* What each macro writes that is not lazy, from the SQL of its arguments: the
\* placeholder stands for a parameter, whose value is read from the context.
Name(args, a) == args[a][1][2]
Value(args, a, ctx) == ctx.values[Name(args, a)]
Around(before, c, after) == Wrote(c, before \o c.sql \o after)

WriteBetween(args, ctx) ==
    LET from == IsSet(Value(args, 2, ctx))
        to == IsSet(Value(args, 3, ctx))
    IN Wrote(ctx, CASE from /\ to -> args[1] \o <<Word("BETWEEN")>> \o args[2] \o <<Word("AND")>> \o args[3]
                    [] from /\ ~to -> args[1] \o <<Word(">=")>> \o args[2]
                    [] ~from /\ to -> args[1] \o <<Word("<=")>> \o args[3]
                    [] OTHER -> <<Word("TRUE")>>)

WriteInList(args, ctx) ==
    LET exclude == IF IsSet(Value(args, 3, ctx)) THEN <<Word("NOT")>> ELSE <<>>
    IN Wrote(ctx, IF ~IsSet(Value(args, 2, ctx)) THEN <<Word("TRUE")>>
                  ELSE args[1] \o exclude \o <<Word("IN"), LB>> \o args[2] \o <<RB>>)

WriteArray(args, ctx) ==
    LET items == Value(args, 1, ctx)
    IN CASE ctx.dialect # "postgresql" \/ items \notin {Null, Two} -> Fails(ctx, "refused")
         [] ctx.dialect = "postgresql" /\ items = Null -> Wrote(ctx, <<Word("NULL")>>)
         [] OTHER -> Around(<<Word("ARRAY"), Word("[")>>, BindEach(ctx, Name(args, 1), Items(items)), <<Word("]")>>)

WriteEach(args, ctx) ==
    IF Value(args, 1, ctx) # Two THEN Fails(ctx, "refused")
    ELSE BindEach(ctx, Name(args, 1), Items(Two))

WriteValues(args, ctx) ==
    IF Value(args, 1, ctx) # Two THEN Fails(ctx, "refused")
    ELSE Around(<<LB, Word("VALUES")>>, BindEach(ctx, Name(args, 1), Items(Two)), <<RB>>)

\* Whether the value of the first argument names one of the others.
Offers(args, ctx) == \E a \in 2 .. Len(args) : args[a] = <<Word(Value(args, 1, ctx))>>

WriteIdentifier(args, ctx) ==
    IF IsSet(Value(args, 1, ctx)) /\ (Offers(args, ctx) \/ Len(args) = 1)
    THEN Wrote(ctx, <<Word(Value(args, 1, ctx))>>)
    ELSE Fails(ctx, "refused")

WriteOrderBy(args, ctx) ==
    CASE ~IsSet(Value(args, 1, ctx)) -> Wrote(ctx, <<LB, Word("SELECT NULL"), RB>>)
      [] IsSet(Value(args, 1, ctx)) /\ Offers(args, ctx) ->
            Wrote(ctx, <<Word(Value(args, 1, ctx)), Word("ASC")>>)
      [] OTHER -> Fails(ctx, "refused")

\* A plain parameter is escaped here, and any other text by the database.
WriteIcontains(args, ctx) ==
    LET known == IsParameter(args[2]) /\ Name(args, 2) \in DOMAIN ctx.values
        Like(c) == Around(<<Word("lower"), LB>> \o args[1] \o <<RB, Word("LIKE"), Word("lower"), LB>>, c, <<RB>>)
    IN CASE known /\ Value(args, 2, ctx) = Null -> Wrote(ctx, <<Word("FALSE")>>)
         [] known /\ Value(args, 2, ctx) # Null ->
                Like(Bind(Wrote(ctx, <<>>), Own(Name(args, 2), "like"), Pattern))
         [] OTHER -> Like(Wrote(ctx, <<Word("escaped"), LB>> \o args[2] \o <<RB>>))

Written(macro, args, ctx) ==
    CASE macro = "between" -> WriteBetween(args, ctx)
      [] macro = "in_list" -> WriteInList(args, ctx)
      [] macro = "array" -> WriteArray(args, ctx)
      [] macro = "each" -> WriteEach(args, ctx)
      [] macro = "values" -> WriteValues(args, ctx)
      [] macro = "identifier" -> WriteIdentifier(args, ctx)
      [] macro = "order_by" -> WriteOrderBy(args, ctx)
      [] macro = "icontains" -> WriteIcontains(args, ctx)
      [] OTHER -> Wrote(ctx, <<>>)

RECURSIVE Render(_, _)

\* The branch a lazy macro picks, the only one that is rendered.
Branch(macro, args, ctx) ==
    LET set == IsSet(ctx.values[args[1][2]])
        Otherwise == IF Len(args) = 3 THEN args[3][2] ELSE <<Word("TRUE")>>
        For(dialect) == {a \in DOMAIN args : args[a][2] # <<>> /\ Head(args[a][2]) = Word(dialect \o " =")}
        Last1(S) == Tail(args[CHOOSE a \in S : \A b \in S : b <= a][2])
    IN CASE macro = "if_set" -> IF set THEN args[2][2] ELSE Otherwise
         [] macro = "unless_set" -> IF set THEN Otherwise ELSE args[2][2]
         [] macro = "on_dialect" /\ For(ctx.dialect) # {} -> Last1(For(ctx.dialect))
         [] macro = "on_dialect" /\ For(ctx.dialect) = {} /\ For("default") # {} -> Last1(For("default"))
         [] OTHER -> <<>>

\* Mutant: every argument is rendered before the macro runs.
NeverLazy(macro) == FALSE

IsLazy(macro) == Macros[macro].lazy

\* The arguments in order, each the SQL it renders to.
Arguments(args, ctx) ==
    LET With(acc, c) == [ctx |-> c, list |-> Append(acc.list, c.sql)]
        Next(acc, arg) ==
            CASE acc.ctx.failed # "no" -> acc
              [] acc.ctx.failed = "no" /\ arg[1] = "param" -> With(acc, Wrote(acc.ctx, <<Param(arg[2])>>))
              [] OTHER -> With(acc, Render(arg[2], Wrote(acc.ctx, <<>>)))
    IN FoldLeft(Next, [ctx |-> ctx, list |-> <<>>], args)

Branching == {"if_set", "unless_set", "on_dialect"}

\* macro.func, given the SQL of the arguments, or the arguments if it is lazy.
Runs(macro, args, given) ==
    LET ran == [given.ctx EXCEPT !.ran = Append(@, macro)]
        branch == Branch(macro, args, ran)
        Whole(c) == Wrote(c, Grouped(c.sql))
    IN CASE given.ctx.failed # "no" -> given.ctx
         [] given.ctx.failed = "no" /\ macro \notin Branching -> Written(macro, given.list, ran)
         [] given.ctx.failed = "no" /\ macro = "on_dialect" ->
                IF branch = <<>> THEN Fails(ran, "refused") ELSE Render(branch, Wrote(ran, <<>>))
         [] OTHER -> Whole(Render(branch, Wrote(ran, <<>>)))

Function(macro, args, ctx) ==
    Runs(macro, args, IF IsLazy(macro) THEN [ctx |-> ctx, list |-> <<>>] ELSE Arguments(args, ctx))

\* Values without what only read as None inside a call.
Without(values, missing) == [name \in DOMAIN values \ missing |-> values[name]]

\* A parameter an optional macro misses reads as None while it is called.
CallMacro(macro, args, ctx) ==
    LET params == SelectSeq(args, LAMBDA a : a[1] = "param")
        missed == SelectSeq(params, LAMBDA a : a[2] \notin DOMAIN ctx.values)
        missing == {a[2] : a \in ToSet(missed)}
        Back(called) == [called EXCEPT !.values = Without(@, missing),
                                       !.failed = IF Cardinality(missing) # Len(missed)
                                                  THEN "KeyError" ELSE @]
    IN IF missing # {} /\ ~Macros[macro].optional THEN Fails(ctx, "missing")
       ELSE Back(Function(macro, args, [ctx EXCEPT !.values = @ @@ [name \in missing |-> Null]]))

\* A file macro: its function gives the values, and its SQL reads them.
FromValues(part, ctx) ==
    LET Values(called) == [key \in {Own(part[4], name) : name \in FileMacros[part[2]].reads} |->
                            called.values[part[3][Len(part[3])][2]]]
        Body(called) ==
            IF called.failed # "no" THEN called
            ELSE Render(part[5], [called EXCEPT !.values = Values(called) @@ @, !.sql = <<>>])
    IN Body(CallMacro(part[2], part[3], ctx))

\* A call, or under calls_kept() one that fails as it is written.
RenderCall(part, ctx) ==
    LET AsWritten(given) ==
            Wrote(given.ctx, <<Open(part[2])>> \o FlattenSeq(given.list) \o <<RB>>)
        OrKept(c) ==
            IF c.failed # "no" /\ c.kept
            THEN AsWritten(Arguments(part[3], [c EXCEPT !.failed = "no"])) ELSE c
    IN OrKept(IF part[1] = "file" THEN FromValues(part, Wrote(ctx, <<>>))
              ELSE CallMacro(part[2], part[3], Wrote(ctx, <<>>)))

Render(parts, ctx) ==
    LET After(sql, c) == Wrote(c, sql \o c.sql)
        Next(c, part) ==
            CASE c.failed # "no" -> c
              [] c.failed = "no" /\ part[1] \in {"call", "file"} -> After(c.sql, RenderCall(part, c))
              [] OTHER -> Wrote(c, Append(c.sql, part))
    IN FoldLeft(Next, ctx, parts)

------------------------------------------------------------------------------
(* From the SQL to the statement.                                            *)

\* A path reads the attribute of what its root was passed, NULL all the way.
Follows(paths, values) ==
    [key \in {k \in paths : RootOf[k] \in DOMAIN values /\ k \notin DOMAIN values} |->
        Followed(values[RootOf[key]])]
PathFails(paths, values) ==
    \E k \in paths : /\ RootOf[k] \in DOMAIN values /\ k \notin DOMAIN values
                     /\ values[RootOf[k]] \notin {Null, Object}

\* A list in IN (:ids) writes the brackets itself, and a LIMIT without a value
\* takes every row, on the databases that have a way to say so.
RECURSIVE AsBound(_, _, _)
AsBound(sql, values, dialect) ==
    LET InOne == Len(sql) >= 4 /\ sql[1] = Word("IN") /\ sql[2] = LB /\ sql[4] = RB
                 /\ sql[3][1] = "param"
        Unlimited == /\ Len(sql) >= 2 /\ sql[1] = Word("LIMIT") /\ sql[2][1] = "param"
                     /\ dialect \in {"postgresql", "sqlite"}
                     /\ sql[2][2] \in DOMAIN values => values[sql[2][2]] = Null
    IN CASE sql = <<>> -> <<>>
         [] InOne /\ sql[3][2] \in DOMAIN values /\ Expands(values[sql[3][2]]) ->
                <<Word("IN"), sql[3]>> \o AsBound(SubSeq(sql, 5, Len(sql)), values, dialect)
         [] Unlimited -> <<Word("LIMIT"), Word("ALL")>> \o AsBound(SubSeq(sql, 3, Len(sql)), values, dialect)
         [] OTHER -> <<Head(sql)>> \o AsBound(Tail(sql), values, dialect)

Placeholders(sql) == {token[2] : token \in {t \in ToSet(sql) : t[1] = "param"}}

\* The statement: what the SQL names and nothing binds is refused.
Statement(ctx) ==
    LET sql == AsBound(ctx.sql, ctx.values, ctx.dialect)
        stray == Placeholders(sql) \ DOMAIN ctx.values
    IN [outcome |-> CASE ctx.failed # "no" -> ctx.failed
                      [] ctx.failed = "no" /\ stray # {} -> "stray"
                      [] OTHER -> "ok",
        sql |-> sql, values |-> ctx.values, ran |-> ctx.ran, kept |-> ctx.kept,
        dialect |-> ctx.dialect]

Rendered(read, values, dialect, kept) ==
    LET ctx == [sql |-> <<>>, values |-> values @@ Follows(read.paths, values), count |-> 0,
                ran |-> <<>>, failed |-> IF PathFails(read.paths, values) THEN "path" ELSE "no",
                dialect |-> dialect, kept |-> kept]
    IN Statement(Render(read.parts, ctx))

------------------------------------------------------------------------------
NotRead == [ok |-> FALSE, parts |-> <<>>, paths |-> {}, n |-> 0]
NotRendered == [outcome |-> "none", sql |-> <<>>, values |-> <<>>, ran |-> <<>>, kept |-> FALSE,
                dialect |-> "none"]

Init ==
    /\ source = <<>> /\ template = NotRead
    /\ passed = <<>> /\ rendered = NotRendered

\* A template is read, or refused; what it was read as never changes.
ReadTemplate ==
    /\ source = <<>>
    /\ source' \in Sources
    /\ template' = ReadText(source', {}, 1)
    /\ UNCHANGED <<passed, rendered>>

\* One call renders it.
RenderTemplate(values, dialect, kept) ==
    /\ template.ok /\ rendered = NotRendered
    /\ passed' = values
    /\ rendered' = Rendered(template, values, dialect, kept)
    /\ UNCHANGED <<source, template>>

Next == \/ ReadTemplate
        \/ \E values \in Passed(source), dialect \in Dialects, kept \in BOOLEAN :
                RenderTemplate(values, dialect, kept)

Spec == Init /\ [][Next]_vars

------------------------------------------------------------------------------
(* The reference: what a template says, read off its text and the values.    *)

\* A name, as what the call passed says; one it did not pass is not NULL.
ValueOf(token, values) ==
    LET root == IF token[1] = "path" THEN RootOf[token[2]] ELSE token[2]
    IN CASE root \notin DOMAIN values -> "not passed"
         [] root \in DOMAIN values /\ token[1] = "path" -> Followed(values[root])
         [] OTHER -> values[token[2]]

\* A call's parameter, which reads as None where it was not passed.
Given(call, a, values) ==
    LET value == ValueOf(ArgsOf(call)[a][1][1], values)
    IN IF value = "not passed" THEN Null ELSE value

\* The part of a branching call that is taken, after its name for on_dialect.
Taken(call, values, dialect) ==
    LET args == ArgsOf(call)
        Named(name) == {a \in DOMAIN args : Head(args[a][1]) = Word(name \o " =")}
        The(S) == Tail(args[CHOOSE a \in S : \A b \in S : b <= a][1])
        asked == IsSet(Given(call, 1, values)) <=> MacroOf(call) = "if_set"
    IN CASE MacroOf(call) = "on_dialect" ->
                The(IF Named(dialect) # {} THEN Named(dialect) ELSE Named("default"))
         [] MacroOf(call) # "on_dialect" /\ asked -> args[2][1]
         [] MacroOf(call) # "on_dialect" /\ ~asked /\ Len(args) = 3 -> args[3][1]
         [] OTHER -> <<Word("TRUE")>>

\* The body of a macro of SQL, as a call writes it.
BodyOf(src, call) ==
    LET macro == IF MacroOf(call) \in DOMAIN SqlMacros THEN SqlMacros[MacroOf(call)]
                 ELSE FileMacros[MacroOf(call)]
    IN Expanded(macro.params, macro.body,
                [a \in DOMAIN macro.params |-> Text(src, ArgsOf(call)[a])])

OfSql(call) == MacroOf(call) \in DOMAIN SqlMacros \cup DOMAIN FileMacros

\* The values its body reads: a file's own are what its function gives them.
BodyValues(call, values) ==
    LET own == IF MacroOf(call) \in DOMAIN FileMacros THEN FileMacros[MacroOf(call)].reads ELSE {}
    IN [name \in own |-> Given(call, Len(ArgsOf(call)), values)] @@ values

\* How deep in brackets and CASEs part i stands.
DepthAt(parts, i) ==
    LET Count(S) == Cardinality({k \in 1 .. i : parts[k] \in S /\ ~InString(parts, k)})
    IN Count({LB, Word("CASE")}) - Count({RB, Word("END")})

\* Where conditions are joined outside of all brackets; the AND of a BETWEEN is none.
JoinedAt(parts, join) ==
    {i \in DOMAIN parts : /\ parts[i] = join /\ ~InString(parts, i) /\ DepthAt(parts, i) = 0
                          /\ i > 2 => parts[i - 2] # Word("BETWEEN")}

\* Whether a condition holds where the atoms of A do: OR binds less than AND, and
\* a call is one operand.
RECURSIVE Holds(_, _, _, _, _), CallHolds(_, _, _, _, _)
Holds(src, parts, A, values, dialect) ==
    LET ors == JoinedAt(parts, Word("OR"))
        ands == JoinedAt(parts, Word("AND"))
        First(S) == CHOOSE i \in S : \A j \in S : i <= j
        Side(from, to) == Holds(src, SubSeq(parts, from, to), A, values, dialect)
    IN CASE ors # {} -> Side(1, First(ors) - 1) \/ Side(First(ors) + 1, Len(parts))
         [] ors = {} /\ ands # {} -> Side(1, First(ands) - 1) /\ Side(First(ands) + 1, Len(parts))
         [] ors \cup ands = {} /\ parts[1] = LB -> Side(2, Len(parts) - 1)
         [] ors \cup ands = {} /\ IsCall(parts[1]) -> CallHolds(src, parts[1], A, values, dialect)
         [] OTHER -> parts[1] = Word("TRUE") \/ parts[1] \in A

CallHolds(src, call, A, values, dialect) ==
    LET Has(a) == IsSet(Given(call, a, values))
        Atom(a) == Holds(src, ArgsOf(call)[a][1], A, values, dialect)
        body == BodyOf(src, call)
    IN CASE MacroOf(call) \in Branching -> Holds(src, Taken(call, values, dialect), A, values, dialect)
         [] MacroOf(call) = "between" -> ~(Has(2) \/ Has(3)) \/ Atom(1)
         [] MacroOf(call) = "in_list" -> ~Has(2) \/ Atom(1)
         [] OfSql(call) -> Holds(body, Scanned(body).parts, A, BodyValues(call, values), dialect)
         [] OTHER -> FALSE

\* The macros that run, in order: what an argument holds before the macro that is
\* given it, and of a branching one only what its branch holds, after it.
RECURSIVE Reached(_, _, _, _)
Reached(src, parts, values, dialect) ==
    LET Inside(some) == Reached(src, some, values, dialect)
        Of(part) ==
            LET args == ArgsOf(part)
                all == FlattenSeq([a \in DOMAIN args |-> Inside(args[a][1])])
                body == BodyOf(src, part)
                bodys == Reached(body, Scanned(body).parts, BodyValues(part, values), dialect)
            IN CASE ~IsCall(part) -> <<>>
                 [] IsCall(part) /\ MacroOf(part) \in Branching ->
                        <<MacroOf(part)>> \o Inside(Taken(part, values, dialect))
                 [] IsCall(part) /\ MacroOf(part) \in DOMAIN SqlMacros -> bodys
                 [] IsCall(part) /\ MacroOf(part) \in DOMAIN FileMacros ->
                        all \o <<MacroOf(part)>> \o bodys
                 [] OTHER -> all \o <<MacroOf(part)>>
    IN FlattenSeq([i \in DOMAIN parts |-> Of(parts[i])])

\* The values the SQL reads, from its first placeholder to its last.
RECURSIVE Reads(_, _, _, _)
Reads(src, parts, values, dialect) ==
    LET Inside(some) == Reads(src, some, values, dialect)
        Of(i) ==
            LET part == parts[i]
                args == ArgsOf(part)
                Is(a) == IF IsSet(Given(part, a, values)) THEN <<Given(part, a, values)>> ELSE <<>>
                body == BodyOf(src, part)
            IN CASE ~IsCall(part) /\ part[1] = "word" -> <<>>
                 [] ~IsCall(part) /\ part[1] = "open" -> <<>>
                 [] part[1] \in {"param", "path"} ->
                        IF i > 1 /\ parts[i - 1] = Word("LIMIT") /\ ValueOf(part, values) \in {Null, "not passed"}
                        THEN <<>> ELSE <<ValueOf(part, values)>>
                 [] IsCall(part) /\ MacroOf(part) \in Branching -> Inside(Taken(part, values, dialect))
                 [] IsCall(part) /\ MacroOf(part) = "between" -> Is(2) \o Is(3)
                 [] IsCall(part) /\ MacroOf(part) = "in_list" -> Is(2)
                 [] IsCall(part) /\ MacroOf(part) \in {"each", "array", "values"} -> Items(Given(part, 1, values))
                 [] IsCall(part) /\ MacroOf(part) = "icontains" ->
                        IF ValueOf(args[2][1][1], values) = Null THEN <<>> ELSE <<Pattern>>
                 [] IsCall(part) /\ OfSql(part) ->
                        Reads(body, Scanned(body).parts, BodyValues(part, values), dialect)
                 [] OTHER -> <<>>
    IN FlattenSeq([i \in DOMAIN parts |-> Of(i)])

------------------------------------------------------------------------------
(* Properties.                                                               *)

\* What came of a call, where it came to a statement.
Ran == rendered.outcome = "ok" /\ ~rendered.kept

Parts == Scanned(source).parts

\* A text is read exactly when its strings and calls are closed, and then its calls
\* and their arguments are those its brackets say, however they nest and whatever
\* its strings hold (_Scanner._scan, _args, past_literal).
CallsAreBalanced ==
    LET Starts == {i \in DOMAIN source : source[i][1] = "open" /\ ~InString(source, i)}
        Closed(i) == \E j \in i .. Len(source) : Nesting(source, i, j) = 0
        quotes == Cardinality({i \in DOMAIN source : source[i] = Quote})
    IN rendered = NotRendered =>
        /\ Scanned(source).ok <=> (quotes % 2 = 0 /\ \A i \in Starts : Closed(i))
        /\ Scanned(source).ok => CallsIn(Parts) = BalancedCalls(source)

\* The SQL of a condition holds exactly where the template's does, a call read as
\* one operand of the AND or the OR next to it: brackets are written where a
\* branch joins conditions and around the body of an SQL macro (_grouped,
\* SqlMacro.expanded).
CallsAreOneCondition ==
    (Ran /\ source \in Conditions) =>
        \A A \in SUBSET Atoms :
            Holds(<<>>, rendered.sql, A, passed, rendered.dialect)
                <=> Holds(source, Parts, A, passed, rendered.dialect)

\* A branch that is not taken never runs: the macros that run are those the branches
\* taken reach, once and in order, up to the one that fails (_Deferred).
OnlyTakenBranchesRun ==
    (rendered # NotRendered /\ ~rendered.kept) =>
        IsPrefix(rendered.ran, Reached(source, Parts, passed, rendered.dialect))

\* Each placeholder of a statement reads the value the template names there, one
\* the call passed: no name bound by a macro, or made for a file's macro, hides or
\* is hidden by another, and a parameter that read as None inside a call does not
\* after it (Context.bind, _from_file, _call).
StatementsReadTheirValues ==
    Ran => LET sql == rendered.sql
               names == SelectSeq(sql, LAMBDA token : token[1] = "param")
           IN [i \in DOMAIN names |-> rendered.values[names[i][2]]]
                = Reads(source, Parts, passed, rendered.dialect)

\* The names that the calls of file macros bind themselves.
OwnNames(read) ==
    UNION {{Own(Prefix(m, k), name) : name \in FileMacros[m].reads} :
            m \in DOMAIN FileMacros, k \in 1 .. read.n - 1}

\* A call that passes every parameter the template asks for, but those that file
\* macros bind themselves, fails on none of them, and its statement names no other,
\* but a colon inside a string, which is the error it is reported for
\* (MacroTemplate.parameters, _statement).
WhatIsAskedForIsEnough ==
    (/\ rendered # NotRendered
     /\ Parameters(template) \ OwnNames(template) \subseteq DOMAIN passed) =>
        LET sql == rendered.sql
            outside == {i \in DOMAIN sql : sql[i][1] = "param" /\ ~InString(sql, i)}
        IN /\ rendered.outcome # "missing"
           /\ {sql[i][2] : i \in outside} \subseteq DOMAIN rendered.values

==============================================================================
