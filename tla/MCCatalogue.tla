----------------------------- MODULE MCCatalogue ----------------------------
(***************************************************************************)
(* Statements: two tables, one of them also written in upper case, with    *)
(* two columns.  Queries: three tables, with their foreign keys one after  *)
(* the other or in a cycle, under their own names, others, or none.        *)
(***************************************************************************)
EXTENDS TopoSort

MCLower == [n \in TableNames |-> IF n = "T" THEN "t" ELSE n]
MCCode == [a |-> 97, b |-> 98]

ColumnItem(name, constraints) ==
    [kind |-> "column", name |-> name, constraints |-> constraints]
KeyItem(list) == [kind |-> "key", list |-> list]

MCDefinitions ==
    {<<ColumnItem("a", <<"PRIMARY KEY">>), ColumnItem("b", <<"NOT NULL", "UNIQUE">>)>>,
     <<ColumnItem("a", <<>>), ColumnItem("b", <<"UNIQUE">>), KeyItem(<<"a", "b">>)>>,
     <<ColumnItem("a", <<"NOT NULL">>), KeyItem(<<"b">>), [kind |-> "check"],
       ColumnItem("b", <<>>)>>}

MCColumnLists == {<<"a">>, <<"b">>, <<"a", "b">>}

(* Catalogues to start with: none, and one of three tables.                *)
Stored(name, columns) ==
    TableJSON(Table(name, columns,
                    <<SetTable(Index("", TRUE, Asc(<<columns[1].name>>)), name)>>, 3))

Plain(name) == Column(name, FALSE)

StoredTables == [t |-> Stored("t", <<Plain("a"), Plain("b")>>),
                 u |-> Stored("u", <<Plain("b")>>),
                 T |-> Stored("T", <<Plain("a")>>)]

MCFiles == {[tables |-> [k \in {} |-> NoTable], keys |-> <<>>]}
           \cup {[tables |-> StoredTables, keys |-> keys] :
                    keys \in {<<ForeignKey("t", <<"a">>, "u", <<"b">>)>>,
                              <<ForeignKey("t", <<"a", Null>>, "u", <<"b", Null>>),
                                ForeignKey("u", <<"b">>, "t", <<"a">>)>>}}

Var(table, name) == [table |-> table, name |-> name]

MCQueries ==
    {[from |-> f, area |-> a] :
        f \in {<<TableName("t", "t"), TableName("u", "u")>>,
               <<TableName("u", "t"), TableName("t", "u")>>,
               <<TableName("t", "t"), TableName("v", "u"), TableName("w", "v")>>},
        a \in {<< <<Var("", "a"), Var("u", "b")>> >>,
               << <<Var("u", "b"), Var("t", "a")>>, <<Var("t", "a")>> >>,
               << <<Var("v", "b"), Var("t", "a")>> >>}}

MCNameOrder == <<"t", "u", "v">>
=============================================================================
