------------------------------ MODULE Catalogue -----------------------------
(***************************************************************************)
(* What a Database knows about tables, columns, indexes and foreign keys:  *)
(* how statements other than SELECT change it, how getJSON writes it and   *)
(* the constructor reads it back when the program is started again, and    *)
(* what the planner gets when it looks something up.                       *)
(***************************************************************************)
EXTENDS Integers, FiniteSets, Sequences, SequencesExt

CONSTANTS TableNames,   (* as statements and queries write them *)
          Lower,        (* tolower on them *)
          Definitions,  (* the bodies of CREATE TABLE *)
          ColumnLists,  (* columns an index or a key is made of *)
          Code,         (* a column's name as a number, for the hash *)
          Garbage,      (* what a numOfRows that is never set may be *)
          Files,        (* catalogues the program may start with *)
          MaxStatements, MaxRestarts

Keys == {Lower[n] : n \in TableNames}

Null == "null"

IsList(s) == s \in Seq({s[j] : j \in DOMAIN s})

(* A column, an index, a table and a foreign key as a file has them.  The  *)
(* hash of an index is not read, and its table's name is not used.         *)
IsColumnJSON(c) == c = [name |-> c.name, primary_key_or_unique |-> c.primary_key_or_unique]

IsIndexJSON(x) == /\ x = [name |-> x.name, table |-> x.table, unique |-> x.unique,
                          hash |-> x.hash, col_names |-> x.col_names,
                          col_types |-> x.col_types]
                  /\ IsList(x.col_names) /\ IsList(x.col_types)
                  /\ Len(x.col_names) = Len(x.col_types)

IsTableJSON(t) == /\ t = [name |-> t.name, columns |-> t.columns,
                          indexes |-> t.indexes, rows |-> t.rows]
                  /\ t.name \in TableNames
                  /\ IsList(t.columns) /\ \A j \in DOMAIN t.columns : IsColumnJSON(t.columns[j])
                  /\ IsList(t.indexes) /\ \A j \in DOMAIN t.indexes : IsIndexJSON(t.indexes[j])

IsKeyJSON(key) == /\ key = [table1 |-> key.table1, columns1 |-> key.columns1,
                            table2 |-> key.table2, columns2 |-> key.columns2]
                  /\ {key.table1, key.table2} \subseteq TableNames
                  /\ IsList(key.columns1) /\ IsList(key.columns2)
                  /\ Len(key.columns1) = Len(key.columns2)

(* What getJSON writes: a map is written in the order of its keys, and the *)
(* key of a table is its name, or that in lower case.                      *)
IsFile(f) == /\ f = [tables |-> f.tables, keys |-> f.keys]
             /\ f.tables = [k \in DOMAIN f.tables |-> f.tables[k]]
             /\ \A k \in DOMAIN f.tables : /\ IsTableJSON(f.tables[k])
                                           /\ k \in {f.tables[k].name, Lower[f.tables[k].name]}
             /\ IsList(f.keys) /\ \A j \in DOMAIN f.keys : IsKeyJSON(f.keys[j])

(* What may stand in a CREATE TABLE.                                       *)
IsItem(item) == /\ item.kind \in {"column", "key", "check"}
                /\ item.kind = "column" => IsList(item.constraints)
                /\ item.kind = "key"    => item.list \in ColumnLists

(* Identifiers are not empty, and none is null.                            *)
ASSUME CatalogueAssumption ==
    /\ Lower \in [TableNames -> TableNames]
    /\ \A n \in TableNames : Lower[Lower[n]] = Lower[n]
    /\ "" \notin TableNames
    /\ \A l \in ColumnLists : l # <<>> /\ IsList(l) /\ Null \notin {l[j] : j \in DOMAIN l}
    /\ \A d \in Definitions : IsList(d) /\ \A j \in DOMAIN d : IsItem(d[j])
    /\ Garbage \subseteq Int
    /\ \A f \in Files : IsFile(f)

VARIABLES tables,        (* Database::tables: a map from lower-case names *)
          foreign_keys,  (* Database::foreign_keys *)
          file,          (* the catalogue in program->data_location *)
          up,            (* whether the program runs *)
          declared,      (* history: <<table, columns>> an index was asked for *)
          made,          (* history: tables made since the program started *)
          done, restarts

catalogueVars == <<tables, foreign_keys, file, up, declared, made, done, restarts>>

NoTable == [name |-> ""]

(* Database::getTable and the lookups in a table. *)
GetTable(name) == IF Lower[name] \in DOMAIN tables THEN tables[Lower[name]] ELSE NoTable

ColumnNames(columns) == [i \in DOMAIN columns |-> columns[i].name]

Asc(list) == [i \in DOMAIN list |-> [name |-> list[i], type |-> "ASC_ORDER"]]

P == 103

HashOf(list) == FoldLeft(LAMBDA hash, c : hash * P + Code[c], 0, list)

(* Mutant: a prefix of the index's columns will do. *)
IndexByPrefix(table, list) ==
    {j \in DOMAIN table.indexes : IsPrefix(list, ColumnNames(table.indexes[j].columns))}

(* Where the indexes on exactly these columns are; getIndexByCol returns   *)
(* the first.                                                              *)
IndexByCol(table, list) ==
    {j \in DOMAIN table.indexes : ColumnNames(table.indexes[j].columns) = list}

(* Table::isIndex, which compares hashes first. *)
IsIndex(table, list) ==
    \E j \in DOMAIN table.indexes :
       /\ table.indexes[j].hash = HashOf(list)
       /\ ColumnNames(table.indexes[j].columns) = list

IsColumn(table, name) == \E j \in DOMAIN table.columns : table.columns[j].name = name

(* The structures a catalogue is made of. *)
Index(name, unique, columns) ==
    [name |-> name, table |-> "", unique |-> unique, columns |-> columns,
     hash |-> HashOf(ColumnNames(columns))]

Column(name, key) == [name |-> name, key |-> key]

Table(name, columns, indexes, rows) ==
    [name |-> name, columns |-> columns, indexes |-> indexes, rows |-> rows]

ForeignKey(table1, columns1, table2, columns2) ==
    [table1 |-> table1, columns1 |-> columns1, table2 |-> table2, columns2 |-> columns2]

(* A table of FROM: the name the query uses, and the one it stands for. *)
TableName(name, real) == [name |-> name, real |-> real]

SetTable(x, name) == [x EXCEPT !.table = name]

(* The setters of a key write its tables and columns in lower case; the    *)
(* columns here are.                                                       *)
LowerKey(key) == [key EXCEPT !.table1 = Lower[@], !.table2 = Lower[@]]
-----------------------------------------------------------------------------
(* Changing a table.                                                       *)

AddIndex(table, x) ==
    [table EXCEPT !.indexes = Append(@, SetTable(x, table.name))]

(* A column that is a key gets an index, named like the column and not     *)
(* marked as unique.                                                       *)
AddColumn(table, column) ==
    LET with == [table EXCEPT !.columns = Append(@, column)]
    IN  IF column.key
        THEN AddIndex(with, Index(column.name, FALSE, Asc(<<column.name>>)))
        ELSE with

(* Only the first of a column's constraints has a say, and Column's        *)
(* constructor leaves primary_key_or_unique as the memory was.             *)
IsKey(item) == item.constraints # <<>> /\ item.constraints[1] \in {"UNIQUE", "PRIMARY KEY"}

KeyFlags(items) ==
    {f \in [DOMAIN items -> BOOLEAN] :
        \A j \in DOMAIN items : IF items[j].kind = "column" THEN IsKey(items[j]) => f[j]
                                                            ELSE ~ f[j]}

(* One item of table_definition.  A table-level CHECK yields nothing. *)
WithItem(table, item, flag) ==
    CASE item.kind = "column" ->
            AddColumn(table, Column(item.name, flag))
      [] item.kind = "key"    -> AddIndex(table, Index("", TRUE, Asc(item.list)))
      [] item.kind = "check"  -> table

MergeTable(table, other) == [table EXCEPT !.columns = @ \o other.columns,
                                          !.indexes = @ \o other.indexes]

(* A table without a name of n of the items, from the first one on.        *)
Unnamed(items, flags, rows, first, n) ==
    LET of[m \in 0..n] ==
            IF m = 0 THEN Table("", <<>>, <<>>, rows)
            ELSE WithItem(of[m - 1], items[first + m - 1], flags[first + m - 1])
    IN  of[n]

(* Where the columns end. *)
Split(items) == LET con == {j \in DOMAIN items : items[j].kind # "column"}
                IN  IF con = {} THEN Len(items) + 1 ELSE Min(con)

(* The columns before the first constraint make one table, what follows    *)
(* another, which is merged into it; the indexes are added before the      *)
(* table has a name.                                                       *)
Defined(name, items, flags, rows) ==
    LET split == Split(items)
        first == Unnamed(items, flags, rows, 1, split - 1)
        rest  == Unnamed(items, flags, rows, split, Len(items) - split + 1)
    IN  [MergeTable(first, rest) EXCEPT !.name = name]
-----------------------------------------------------------------------------
(* The catalogue as JSON, and back.                                        *)

TypeJSON(type) == IF type = "ASC_ORDER" THEN 1 ELSE 2

(* getJSON of a key advances its index twice a turn: every other column    *)
(* stays null.                                                             *)
EveryOther(list) == [j \in DOMAIN list |-> IF j % 2 = 1 THEN list[j] ELSE Null]

(* The hash is written as well, and never read.  *)
IndexJSON(x) ==
    [name |-> x.name, table |-> x.table, unique |-> x.unique, hash |-> x.hash,
     col_names |-> ColumnNames(x.columns),
     col_types |-> [j \in DOMAIN x.columns |-> TypeJSON(x.columns[j].type)]]

ColumnJSON(column) == [name |-> column.name, primary_key_or_unique |-> column.key]

TableJSON(table) ==
    Table(table.name, [j \in DOMAIN table.columns |-> ColumnJSON(table.columns[j])],
          [j \in DOMAIN table.indexes |-> IndexJSON(table.indexes[j])], table.rows)

KeyJSON(key) == [key EXCEPT !.columns1 = EveryOther(@), !.columns2 = EveryOther(@)]

Saved == [tables |-> [k \in DOMAIN tables |-> TableJSON(tables[k])],
          keys   |-> [j \in DOMAIN foreign_keys |-> KeyJSON(foreign_keys[j])]]

(* The names and types are added column by column, which makes the hash.   *)
LoadedIndex(json) ==
    SetTable(Index(json.name, json.unique,
                   [j \in DOMAIN json.col_names |->
                       [name |-> json.col_names[j],
                        type |-> IF json.col_types[j] = 1 THEN "ASC_ORDER" ELSE "DESC_ORDER"]]),
             json.table)

LoadedColumn(json) == Column(json.name, json.primary_key_or_unique)

LoadedColumns(json) == [j \in DOMAIN json |-> LoadedColumn(json[j])]
LoadedIndexes(json) == [j \in DOMAIN json |-> LoadedIndex(json[j])]

(* Mutants: indexes are taken as they were saved; columns are loaded as    *)
(* they are declared.                                                      *)
LoadedAsSaved(json) ==
    Table(json.name, LoadedColumns(json.columns), LoadedIndexes(json.indexes), json.rows)
LoadedByAdding(json) ==
    FoldLeft(AddColumn,
             FoldLeft(AddIndex, Table(json.name, <<>>, <<>>, json.rows),
                      LoadedIndexes(json.indexes)),
             LoadedColumns(json.columns))

(* Table's constructor from JSON: indexes are added one by one, which      *)
(* names their table, columns only appended.                               *)
LoadedTable(json) ==
    LET indexes == LoadedIndexes(json.indexes)
    IN  Table(json.name, LoadedColumns(json.columns),
              [j \in DOMAIN indexes |-> SetTable(indexes[j], json.name)], json.rows)

(* The constructor of a key throws at a null, and the Database's gives up  *)
(* the rest of the file.                                                   *)
Readable(key) == Null \notin ToSet(key.columns1 \o key.columns2)

LoadedKeys(json) ==
    LET bad == {j \in DOMAIN json : ~ Readable(json[j])}
        good == IF bad = {} THEN json ELSE SubSeq(json, 1, Min(bad) - 1)
    IN  [j \in DOMAIN good |-> LowerKey(good[j])]

(* The map's keys are the names as they are in the file.  Of two tables    *)
(* with the same name the later counts: lower case sorts after upper case. *)
LoadedTables(json) ==
    [name \in {json[k].name : k \in DOMAIN json} |->
        LoadedTable(json[IF \E k \in DOMAIN json : k = Lower[name] /\ json[k].name = name
                         THEN Lower[name] ELSE name])]
-----------------------------------------------------------------------------
(* Statements.                                                             *)

Statement == up /\ done < MaxStatements /\ done' = done + 1
             /\ UNCHANGED <<file, restarts>>

(* The parser reports that there is no such table, and parse returns 0. *)
NoSuchTable == /\ Statement
               /\ \E n \in TableNames : GetTable(n) = NoTable
               /\ UNCHANGED <<tables, foreign_keys, up, declared, made>>

(* Indexes of a table asked for by its definition, as far as the code      *)
(* listens: by a table constraint or a column's first constraint.          *)
AskedFor(k, items) ==
    {<<k, items[j].list>> : j \in {j \in DOMAIN items : items[j].kind = "key"}}
    \cup {<<k, <<items[j].name>>>> :
             j \in {j \in DOMAIN items : items[j].kind = "column" /\ IsKey(items[j])}}

CreateTable(name, items) ==
    /\ Statement
    /\ IF Lower[name] \in DOMAIN tables
       THEN (* addTable throws, and nobody catches *)
            /\ up' = FALSE
            /\ UNCHANGED <<tables, declared, made>>
       ELSE \E flags \in KeyFlags(items), rows \in Garbage :
            /\ tables' = [k \in DOMAIN tables \cup {Lower[name]} |->
                             IF k = Lower[name] THEN Defined(name, items, flags, rows)
                             ELSE tables[k]]
            /\ declared' = declared \cup AskedFor(Lower[name], items)
            /\ made' = made \cup {Lower[name]}
            /\ UNCHANGED up
    /\ UNCHANGED foreign_keys

(* CREATE INDEX, or ALTER TABLE with a key constraint. *)
NewIndex(name, x) ==
    /\ Statement
    /\ GetTable(name) # NoTable
    /\ tables' = [tables EXCEPT ![Lower[name]] = AddIndex(@, x)]
    /\ declared' = declared \cup {<<Lower[name], ColumnNames(x.columns)>>}
    /\ UNCHANGED <<foreign_keys, up, made>>

Orders(list) == {[j \in DOMAIN list |-> [name |-> list[j], type |-> o[j]]] :
                    o \in [DOMAIN list -> {"ASC_ORDER", "DESC_ORDER"}]}

CreateIndex(name, list) ==
    \E unique \in BOOLEAN, columns \in Orders(list) :
        NewIndex(name, Index("named", unique, columns))

AlterAddKey(name, list) == NewIndex(name, Index("", TRUE, Asc(list)))

(* Whether the other table exists is not asked. *)
AlterAddForeignKey(name1, list1, name2, list2) ==
    /\ Statement
    /\ GetTable(name1) # NoTable
    /\ foreign_keys' = Append(foreign_keys, LowerKey(ForeignKey(name1, list1, name2, list2)))
    /\ UNCHANGED <<tables, up, declared, made>>

Insert(name) ==
    /\ Statement
    /\ GetTable(name) # NoTable
    /\ tables' = [tables EXCEPT ![Lower[name]].rows = @ + 1]
    /\ UNCHANGED <<foreign_keys, up, declared, made>>
-----------------------------------------------------------------------------
Save == /\ up
        /\ file' = Saved
        /\ UNCHANGED <<tables, foreign_keys, up, declared, made, done, restarts>>

(* The program ends, or has ended, and is started again. *)
Restart == /\ restarts < MaxRestarts
           /\ restarts' = restarts + 1
           /\ tables' = LoadedTables(file.tables)
           /\ foreign_keys' = LoadedKeys(file.keys)
           /\ up' = TRUE
           /\ declared' = {}
           /\ made' = {}
           /\ UNCHANGED <<file, done>>
-----------------------------------------------------------------------------
(* Foreign keys.                                                           *)

(* However long the key, a pair of columns counts if the first is any of   *)
(* the key's and the second is the first of the other table's: the loop    *)
(* over the key's columns does not advance its counter.  One pair will do. *)
KeyContains(key, list1, list2) ==
    \E j \in DOMAIN list1 : list1[j] \in ToSet(key.columns1) /\ list2[j] = key.columns2[1]

IsForeignKey(keys, table1, list1, table2, list2) ==
    \E j \in DOMAIN keys : /\ keys[j].table1 = table1
                           /\ keys[j].table2 = table2
                           /\ KeyContains(keys[j], list1, list2)
-----------------------------------------------------------------------------
(* Names in a query.  FROM is a list of tables with the names the query    *)
(* uses for them.                                                          *)

(* getTableNameByVar, for a column without a table: the first table of     *)
(* FROM that has it.  A table nobody knows is followed all the same.       *)
HomesOf(name, from) ==
    {j \in DOMAIN from : /\ GetTable(from[j].real) # NoTable
                         /\ IsColumn(GetTable(from[j].real), name)}

FromUnknownTable(from) == \E j \in DOMAIN from : GetTable(from[j].real) = NoTable

(* For a column with one: its name is replaced, and the result compared    *)
(* with the tables that follow.                                            *)
RealName(alias, from) ==
    LET name[n \in 0..Len(from)] == IF n = 0 THEN alias
                                    ELSE IF from[n].name = name[n - 1] THEN from[n].real
                                    ELSE name[n - 1]
    IN  name[Len(from)]

TableOf(v, from) == IF v.table = "" THEN from[Min(HomesOf(v.name, from))].real
                    ELSE RealName(v.table, from)

CanResolve(v, from) ==
    v.table = "" => HomesOf(v.name, from) # {} /\ ~ FromUnknownTable(from)
-----------------------------------------------------------------------------
CatalogueInit == /\ file \in Files
                 /\ tables = LoadedTables(file.tables)
                 /\ foreign_keys = LoadedKeys(file.keys)
                 /\ up = TRUE
                 /\ declared = {}
                 /\ made = {}
                 /\ done = 0
                 /\ restarts = 0

CatalogueNext ==
    \/ NoSuchTable
    \/ \E n \in TableNames :
          \/ \E d \in Definitions : CreateTable(n, d)
          \/ \E l \in ColumnLists : CreateIndex(n, l) \/ AlterAddKey(n, l)
          \/ \E m \in TableNames, l1, l2 \in ColumnLists :
                Len(l1) = Len(l2) /\ AlterAddForeignKey(n, l1, m, l2)
          \/ Insert(n)
    \/ Save \/ Restart
-----------------------------------------------------------------------------
(* What can be asked of a table, whatever its indexes' names. *)
Answers(t) == IF t = NoTable THEN t
              ELSE [columns |-> t.columns, rows |-> t.rows,
                    indexes |-> [j \in DOMAIN t.indexes |->
                                    [columns |-> t.indexes[j].columns,
                                     unique  |-> t.indexes[j].unique]]]

WhenLoaded(name) == LET db == LoadedTables(Saved.tables)
                    IN  IF Lower[name] \in DOMAIN db THEN db[Lower[name]] ELSE NoTable

(* A catalogue that is saved and loaded answers as before (getJSON and the *)
(* constructors): tables whose own name is in lower case are the same, the *)
(* others are lost, for the map is keyed by the name as it was written;    *)
(* and the foreign keys are the same up to the first of several columns.   *)
SurvivesRestart ==
    /\ \A k \in DOMAIN tables \cap Keys :
          Answers(WhenLoaded(k)) = IF tables[k].name = k THEN Answers(GetTable(k))
                                   ELSE NoTable
    /\ (\A j \in DOMAIN foreign_keys : Len(foreign_keys[j].columns1) = 1) =>
          \A n, m \in Keys : \A l1, l2 \in {l \in ColumnLists : Len(l) = 1} :
             IsForeignKey(LoadedKeys(Saved.keys), n, l1, m, l2)
                = IsForeignKey(foreign_keys, n, l1, m, l2)

(* An index leads back to its table by the table's name (indexcon.cpp 11   *)
(* follows it without asking), unless it came with a CREATE TABLE of this  *)
(* run and was made before the table had a name, or its table is one that  *)
(* cannot be found by its name any more.                                   *)
IndexesKnowTheirTable ==
    \A k \in DOMAIN tables : \A j \in DOMAIN tables[k].indexes :
       LET x == tables[k].indexes[j]
       IN  \/ x.table = "" /\ k \in made
           \/ Lower[k] # k
           \/ x.table # "" /\ GetTable(x.table) = tables[k]

(* An index that was asked for is found, by its very columns, however the  *)
(* table came by it; both lookups agree about every list of columns.       *)
IndexesAreFound ==
    \A k \in DOMAIN tables : \A l \in ColumnLists :
       /\ <<k, l>> \in declared => IndexByCol(tables[k], l) # {}
       /\ IsIndex(tables[k], l) <=> IndexByCol(tables[k], l) # {}
=============================================================================
