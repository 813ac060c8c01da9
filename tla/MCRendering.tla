----------------------------- MODULE MCRendering -----------------------------
(* Small instances of Rendering for TLC. *)
EXTENDS Rendering

a == Word("a")
b == Word("b")
c == Word("c")
AND == Word("AND")
OR == Word("OR")

MCAtoms == {a, b, c, Quote, Word("CASE")}

\* tenant(t) is t OR b = :id; owned(t, :by) is t OR c = :id, its function's, and
\* checked(t, :by) is t OR if_set(:id, c = :id).
MCSqlMacros == [tenant |-> [params |-> <<"t">>, body |-> <<Word("t"), OR, b, Word("="), Param("id")>>]]
MCFileMacros ==
    LET Reading(body) == [slots |-> <<"Sql", "Param">>, params |-> <<"t">>, reads |-> {"id"},
                          body |-> <<Word("t"), OR>> \o body]
        equal == <<c, Word("="), Param("id")>>
    IN [owned |-> Reading(equal),
        checked |-> Reading(<<Open("if_set"), Param("id"), Comma>> \o equal \o <<RB>>)]
MCRootOf == [u__name |-> "u"]

CallOf(macro, args) == <<Open(macro)>> \o args \o <<RB>>
And(x, y) == x \o <<AND>> \o y
Arg(x, y) == x \o <<Comma>> \o y

\* Branches: one condition, or two joined outside brackets, inside, in a CASE,
\* in a string, and both in and out.
Branches == {<<a>>, <<a, OR, b>>, <<LB, a, OR, b, RB>>, <<LB, a, RB, OR, LB, b, RB>>,
             <<Word("CASE"), a, OR, b, Word("END")>>, <<Quote, a, OR, b, Quote>>,
             <<b, Word("="), Param("id")>>}

Leaves == {CallOf("between", <<a, Comma, Param("p"), Comma, Param("q")>>),
           CallOf("in_list", <<a, Comma, Param("ids"), Comma, Param("q")>>),
           CallOf("tenant", <<a>>), CallOf("owned", <<a, Comma, Param("p")>>)}

\* What joins conditions, which a branch of on_dialect writes as it is.
Joined == {<<a, OR, b>>, <<LB, a, RB, OR, LB, b, RB>>, <<c, OR, b>>}

Branched(X, Y) ==
    {CallOf(m, Arg(<<Param("p")>>, x)) : m \in {"if_set", "unless_set"}, x \in X}
    \cup {CallOf("if_set", Arg(<<Param("q")>>, Arg(x, y))) : x \in X, y \in Y}
    \cup {CallOf("on_dialect", Arg(<<Word("sqlite =")>> \o x, <<Word("default =")>> \o y)) :
            x \in X \ Joined, y \in Y \ Joined}

Once == Leaves \cup Branched(Branches \cup Leaves, {<<c>>, <<c, OR, b>>, CallOf("owned", <<a, Comma, Param("q")>>)})
Twice == Branched({And(x, <<c>>) : x \in Leaves} \cup {And(<<c>>, x) : x \in Branched(Branches, {<<c>>})}, {<<b>>})

MCConditions ==
    LET calls == Once \cup Twice
    IN {And(<<c>>, x) : x \in calls} \cup {And(x, <<c>>) : x \in Once}
       \cup {And(CallOf("checked", <<a, Comma, Param("p")>>), x) : x \in Leaves \cup {<<b>>}}
       \cup {x \o <<OR, a>> : x \in Leaves} \cup {And(x, y) : x \in Leaves, y \in Leaves}

\* Statements that bind lists, limits, paths and patterns.
Statements ==
    LET each == CallOf("each", <<Param("ids")>>)
        pieces == {each, CallOf("array", <<Param("ids")>>), <<Word("LIMIT"), Param("n")>>,
                   <<a, Word("IN"), LB, Param("ids"), RB>>, <<Path("u__name")>>,
                   CallOf("icontains", <<a, Comma, Param("p")>>), CallOf("values", <<Param("ids")>>),
                   CallOf("order_by", <<Param("n"), Comma, a, Comma, b>>),
                   CallOf("identifier", <<Param("n")>>), CallOf("identifier", <<Param("n"), Comma, a>>),
                   CallOf("icontains", <<a, Comma, Path("u__name")>>),
                   CallOf("if_set", <<Path("u__name"), Comma, b>>),
                   CallOf("if_set", <<Param("ids"), Comma>> \o each), <<Param("p")>>,
                   CallOf("owned", <<b, Comma, Path("u__name")>>),
                   CallOf("checked", <<b, Comma, Param("p")>>)}
        taken == {<<Param("ids__1")>>, <<Param("p__like__1")>>}
    IN {x \o y : x \in pieces, y \in pieces \cup Leaves \cup taken}

\* Every text of up to five of a few tokens, read or not.
Texts == UNION {[1 .. n -> {a, Comma, LB, RB, Quote, Open("tenant"), Open("between"), Param("p")}] : n \in 1 .. 5}

MCSources == MCConditions \cup Statements \cup Texts

\* What is passed: each name of the text or not, some NULL, a list that holds none,
\* and the names that a macro would bind under.
Choice(name, values) == {<<>>} \cup {name :> v : v \in values}
MCPassed(src) ==
    LET Has(tokens) == \E i \in DOMAIN src : src[i] \in tokens
        If(tokens, choices) == IF Has(tokens) THEN choices ELSE {<<>>}
    IN {p @@ q @@ ids @@ taken @@ id @@ u @@ n :
            p \in If({Param("p")}, Choice("p", {Null, "the p"})),
            q \in If({Param("q")}, Choice("q", {"the q"})),
            ids \in If({Param("ids")}, Choice("ids", {Empty, Two, Null})),
            taken \in If({Param("ids__1"), Param("p__like__1")},
                         {("ids__1" :> "taken") @@ ("p__like__1" :> "taken")}),
            id \in If({Param("id"), Open("tenant"), Open("owned"), Open("checked")}, {"id" :> "the id"}),
            u \in If({Path("u__name")}, Choice("u", {Object, Null, "the u"})),
            n \in If({Param("n")}, Choice("n", {Null, "the n", "a"}))}
==============================================================================
