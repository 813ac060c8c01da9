------------------------------ MODULE MCModels --------------------------------
(* A small instance of Models for TLC: three rows, two of them of one team and *)
(* the third of none, two values, one of them hidden, that are the same text in *)
(* another case.                                                               *)
EXTENDS Models, TLC

MCTeamOf == 1 :> 1 @@ 2 :> 1 @@ 3 :> 0
MCLower(v) == IF v = 2 THEN 1 ELSE v

Field(column, join, on) == [column |-> column, join |-> join, on |-> on]
MCOffered ==
    [id        |-> Field(Key, "", 0),
     name      |-> Field(Text, "", 0),
     team_id   |-> Field(Foreign, "outer", 0),
     team_name |-> Field(Foreign, "inner", 1),
     teamName  |-> Field(Foreign, "outer", 2)]
MCFold(name) ==
    CASE name = "NAME" -> "name"
      [] name \in {"team_name", "teamName", "TeamName"} -> "teamname"
      [] OTHER -> name

Up(asked) == [asked |-> asked, descending |-> FALSE, nulls |-> ""]
Down(asked) == [Up(asked) EXCEPT !.descending = TRUE]
Sort(criteria, ignore_case, nulls) ==
    [criteria |-> criteria, ignore_case |-> ignore_case, nulls |-> nulls]
MCSorts ==
    {Sort(<<>>, {}, "first"), Sort(<<Up("NAME")>>, {}, ""),
     Sort(<<Down("name")>>, {"NAME"}, ""), Sort(<<Down("id")>>, {}, "last"),
     Sort(<<Up("team_id"), Down("name")>>, {}, "last"),
     Sort(<<Down("team_name")>>, {"team_name"}, ""),
     Sort(<<Up("team_name"), Up("teamName")>>, {}, ""),
     Sort(<<Up("TeamName")>>, {}, ""), Sort(<<Up("name")>>, {"none"}, ""),
     Sort(<<Up("name")>>, {}, "middle")}

MCCriteria == {{r \in Row : r.value = 2}}

Stored(id, value, marked) == [id |-> id, value |-> value, marked |-> marked]
MCInitial == {{}, {Stored(1, 1, FALSE), Stored(2, 2, TRUE)}}

MCBulkQueries ==
    {NewQuery} \cup Where(NewQuery, {r \in Row : r.value = 1}) \cup OnlyDeleted(NewQuery)
    \cup UNION {WithDeleted(q) : q \in Unfiltered(NewQuery)}
==============================================================================
