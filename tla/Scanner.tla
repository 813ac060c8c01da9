------------------------------- MODULE Scanner -------------------------------
(***************************************************************************)
(* How a template is cut into SQL and tpl. calls, and how a piece of SQL is *)
(* found to be one condition or several (_Scanner, _grouped in              *)
(* src/sqlakit/_sql.py).                                                    *)
(*                                                                         *)
(* SQL is a sequence of tokens: a word, a :parameter, a :path.of.one by the *)
(* name it binds as, and the opening tpl.macro( of a call.  White space and *)
(* the letters of a word make no difference to what is modelled.            *)
(***************************************************************************)
EXTENDS Integers, Sequences, FiniteSets, SequencesExt

Word(w) == <<"word", w>>
Param(name) == <<"param", name>>
Path(key) == <<"path", key>>
Open(macro) == <<"open", macro>>

Quote == Word("'")
LB == Word("(")
RB == Word(")")
Comma == Word(",")

IsCall(part) == part[1] = "call"

\* A call, its arguments, and its place: from its opening to what follows it.
\* An argument is its parts and its place.
Call(macro, args, from, to) == <<"call", macro, args, from, to>>
MacroOf(call) == call[2]
ArgsOf(call) == call[3]
Text(src, arg) == SubSeq(src, arg[2], arg[3] - 1)

Unreadable == [ok |-> FALSE]

\* What follows the string that opens at i, 0 when it is never closed.
PastQuoted(src, i) ==
    LET closers == {j \in (i + 1) .. Len(src) : src[j] = Quote}
    IN IF closers = {} THEN 0 ELSE 1 + CHOOSE j \in closers : \A k \in closers : j <= k

\* Mutant: a bracket of the argument's own is not counted.
NoDeeper(depth) == depth

Deeper(depth) == depth + 1

\* Read from i up to the end, or to the comma or bracket that ends an argument.
RECURSIVE Scan(_, _, _, _, _), Args(_, _, _)

Scan(src, i, inArgs, depth, parts) ==
    LET Goes(j, d, more) == Scan(src, j, inArgs, d, parts \o more)
    IN CASE i > Len(src) ->
                [ok |-> TRUE, parts |-> parts, at |-> i, closer |-> "end"]
         [] i <= Len(src) /\ src[i] = Quote ->
                LET end == PastQuoted(src, i)
                IN IF end = 0 THEN Unreadable ELSE Goes(end, depth, SubSeq(src, i, end - 1))
         [] i <= Len(src) /\ src[i][1] = "open" ->
                LET read == Args(src, i + 1, <<>>)
                IN IF ~read.ok THEN Unreadable
                   ELSE Goes(read.at, depth, <<Call(src[i][2], read.args, i, read.at)>>)
         [] i <= Len(src) /\ inArgs /\ src[i] = LB -> Goes(i + 1, Deeper(depth), <<LB>>)
         [] i <= Len(src) /\ inArgs /\ src[i] = RB /\ depth > 0 -> Goes(i + 1, depth - 1, <<RB>>)
         [] i <= Len(src) /\ inArgs /\ depth = 0 /\ src[i] \in {RB, Comma} ->
                [ok |-> TRUE, parts |-> parts, at |-> i, closer |-> src[i][2]]
         [] OTHER -> Goes(i + 1, depth, <<src[i]>>)

\* The arguments of the call that opened just before i.
Args(src, i, args) ==
    LET read == Scan(src, i, TRUE, 0, <<>>)
        all == Append(args, <<read.parts, i, read.at>>)
    IN CASE ~read.ok \/ (read.ok /\ read.closer = "end") -> Unreadable
         [] read.ok /\ read.closer = "," -> Args(src, read.at + 1, all)
         [] OTHER -> [ok |-> TRUE, at |-> read.at + 1,
                      args |-> IF Len(all) = 1 /\ read.parts = <<>> THEN <<>> ELSE all]

Scanned(src) == Scan(src, 1, FALSE, 0, <<>>)

------------------------------------------------------------------------------
(* A branch that joins conditions goes in brackets. *)

Joins == {Word("AND"), Word("OR")}
Opens(token) == token \in {LB, Word("CASE")} \/ token[1] = "open"
Closes(token) == token \in {RB, Word("END")}

NamedOrSorted(sql) == sql # <<>> /\ Last(sql) \in {Word("ASC"), Word("DESC")}

\* Whether two conditions are joined outside every bracket, CASE and string.
RECURSIVE JoinsAt(_, _, _)
JoinsAt(sql, i, depth) ==
    CASE i > Len(sql) -> FALSE
      [] i <= Len(sql) /\ sql[i] = Quote -> JoinsAt(sql, PastQuoted(sql, i), depth)
      [] i <= Len(sql) /\ Opens(sql[i]) -> JoinsAt(sql, i + 1, depth + 1)
      [] i <= Len(sql) /\ Closes(sql[i]) -> JoinsAt(sql, i + 1, depth - 1)
      [] OTHER -> (depth = 0 /\ sql[i] \in Joins) \/ JoinsAt(sql, i + 1, depth)

Bracketed(sql) == <<LB>> \o sql \o <<RB>>

\* Mutant: SQL that begins with a bracket is taken to be one condition.
GroupedUnlessOpen(sql) ==
    IF JoinsAt(sql, 1, 0) /\ Head(sql) # LB THEN Bracketed(sql) ELSE sql

Grouped(sql) == IF NamedOrSorted(sql) \/ ~JoinsAt(sql, 1, 0) THEN sql ELSE Bracketed(sql)

------------------------------------------------------------------------------
(* The reference: what the brackets of a text say, counted. *)

InString(src, i) ==
    src[i] = Quote \/ Cardinality({j \in 1 .. (i - 1) : src[j] = Quote}) % 2 = 1

\* How far the brackets from i to j open: the call that opens at i is one.
Nesting(src, i, j) ==
    LET Count(S) == Cardinality({k \in i .. j : src[k] \in S /\ ~InString(src, k)})
    IN Count({LB} \cup {src[k] : k \in {k \in i .. j : src[k][1] = "open"}}) - Count({RB})

\* Where the calls of a text are, and how many arguments each has.
BalancedCalls(src) ==
    LET Starts == {i \in 1 .. Len(src) : src[i][1] = "open" /\ ~InString(src, i)}
        End(i) == CHOOSE j \in i .. Len(src) :
                    Nesting(src, i, j) = 0 /\ \A k \in i .. (j - 1) : Nesting(src, i, k) > 0
        Commas(i) == {k \in i .. End(i) : /\ src[k] = Comma /\ ~InString(src, k)
                                          /\ Nesting(src, i, k) = 1}
    IN {<<i, End(i) + 1, IF End(i) = i + 1 THEN 0 ELSE Cardinality(Commas(i)) + 1>> : i \in Starts}

\* The calls that were read, at every depth.
RECURSIVE CallsIn(_)
CallsIn(parts) ==
    UNION {{<<call[4], call[5], Len(ArgsOf(call))>>}
            \cup UNION {CallsIn(ArgsOf(call)[a][1]) : a \in DOMAIN ArgsOf(call)}
           : call \in {p \in ToSet(parts) : IsCall(p)}}
==============================================================================
