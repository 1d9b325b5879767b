------------------------- MODULE MCModelMigrations -------------------------
(* Structs, directories and calls for TLC.                                   *)
EXTENDS ModelMigrations

LowerLetters == [U |-> "u", S |-> "s", I |-> "i", D |-> "d", E |-> "e"] @@ ("Eacute" :> "eacute")
AsciiLetters == {"U", "u", "S", "s", "I", "i", "D", "d", "E", "e", "_"}
ByteOrder == [_ |-> 6, D |-> 1, E |-> 2, I |-> 3, S |-> 4, U |-> 5,
              d |-> 7, e |-> 8, i |-> 9, s |-> 10, u |-> 11]

Opt(k) == [key |-> k, value |-> <<>>]
Val(k, v) == [key |-> k, value |-> <<v>>]

F(name, kind, orm) ==
    [name |-> name, type |-> [kind |-> kind, named |-> FALSE], orm |-> orm, elgon |-> <<>>,
     exported |-> TRUE, embedded |-> FALSE]

Ent(name, fields) == [name |-> name, namer |-> <<>>, fields |-> fields, isStruct |-> TRUE]

ID == F(<<"I", "D">>, "int64", <<Opt("pk"), Opt("autoincrement")>>)
Us == <<"U", "s">>
TableTag(t) == [F(<<"E">>, "struct", <<Opt("-"), Val("table", t)>>) EXCEPT !.embedded = TRUE]

\* Columns of every kind; the table is <<"u", "s">>.
User == Ent(Us, <<ID, F(<<"S">>, "string", <<Val("size", 20), Opt("unique")>>),
                  F(<<"S", "I">>, "NullString", <<Val("type", "CITEXT")>>),
                  F(<<"D">>, "bytes", <<Opt("-")>>)>>)
\* The same table by a tag, for another struct; the elgon tag counts as well.
Sub == Ent(<<"S", "u">>, <<[TableTag(<<"u", "s">>) EXCEPT !.elgon = <<Val("table", <<"u", "s">>)>>, !.orm = <<>>], ID>>)
Ids == Ent(<<"I", "D", "s">>, <<F(<<"D", "e">>, "time", <<Opt("notnull"), Val("default", "now")>>)>>)
\* A TableName method, which only AutoMigrate calls.
Namer == [Ent(<<"D">>, <<F(<<"I">>, "int", <<Opt("text"), Val("column", <<"i", "d">>)>>)>>)
            EXCEPT !.namer = <<<<"i", "_", "d">>>>]
SelfNamed == [Namer EXCEPT !.namer = <<<<"s">>>>]
\* Two primary keys: no database takes it.
TwoKeys == Ent(<<"D">>, <<ID, F(<<"I">>, "int", <<Opt("primarykey")>>)>>)
\* Refused: conflicting tags; a table option on a column; autoincrement on text.
Conflict == Ent(<<"U">>, <<TableTag(<<"u">>), TableTag(<<"s">>), ID>>)
OnColumn == Ent(<<"U">>, <<[ID EXCEPT !.orm = <<Val("table", <<"u">>)>>]>>)
AutoText == Ent(<<"U">>, <<F(<<"I">>, "string", <<Opt("autoincrement")>>)>>)
Foreign == Ent(<<"Eacute">>, <<ID>>)
\* Refused only by the generator.
Defined == Ent(<<"E">>, <<[ID EXCEPT !.type.named = TRUE]>>)
Hidden == Ent(<<"E">>, <<ID, [F(<<"s">>, "struct", <<>>) EXCEPT !.exported = FALSE]>>)
Skipped == Ent(<<"E">>, <<ID, F(<<"S">>, "struct", <<Opt("-")>>)>>)
\* Slices: with a type or passed over they are columns or none for both, and for
\* neither without.
Sliced == Ent(<<"E">>, <<ID, F(<<"S">>, "slice", <<Val("type", "JSONB")>>), F(<<"D">>, "slice", <<Opt("-")>>)>>)
BareSlice == Ent(<<"E">>, <<ID, F(<<"S">>, "slice", <<>>)>>)
\* Passed over by it.
Empty == Ent(<<"E">>, <<[F(<<"s">>, "int", <<>>) EXCEPT !.exported = FALSE]>>)
Unexported == Ent(<<"e">>, <<ID>>)

Entities == {User, Sub, Ids, Namer, SelfNamed, TwoKeys, Conflict, OnColumn, AutoText, Foreign,
             Defined, Hidden, Skipped, Sliced, BareSlice, Empty, Unexported, [User EXCEPT !.isStruct = FALSE]}

----------------------------------------------------------------------------
(* Files in the byte order of their names                                    *)

File(version, name, rest) ==
    [version |-> version, name |-> name, rest |-> rest,
     sql |-> TRUE, numbered |-> TRUE, isDir |-> FALSE]

Written == <<
    File(1, <<"init">>, <<"down">>),                    \* 0001_init.down.sql
    File(1, <<"init">>, <<"mysql", "up">>),             \* 0001_init.mysql.up.sql
    File(1, <<"init">>, <<"pg", "down">>),              \* 0001_init.pg.down.sql
    File(1, <<"init">>, <<"pg", "up">>),                \* 0001_init.pg.up.sql
    File(1, <<"init">>, <<"up">>),                      \* 0001_init.up.sql
    File(10, <<"users">>, <<"pg", "up">>),              \* 10_users.pg.up.sql
    File(1, <<"again">>, <<"up">>),                     \* 1_again.up.sql, which is empty
    File(2, <<"late">>, <<"up">>),                      \* 2_late.up.sql
    [File(3, <<"x">>, <<"up">>) EXCEPT !.isDir = TRUE], \* 3_x.up.sql/
    [File(4, <<"y">>, <<"up">>) EXCEPT !.sql = FALSE],  \* 4_y.up.txt
    [File(0, <<"seed">>, <<"up">>) EXCEPT !.numbered = FALSE] \* seed.up.sql
    >>

Pair(v, name) == <<File(v, name, <<"down">>), File(v, name, <<"up">>)>>

Stamp == 21..22
TokenSet == {"a", "b"}
OfSecond(v) ==
    Pair(v, <<"autogen", "a">>) \o Pair(v, <<"autogen", "b">>)
    \o Pair(v, <<"v1", "2", "a">>) \o Pair(v, <<"v1", "2", "b">>)

Directory == Written \o OfSecond(21) \o OfSecond(22)

Call(name, d, decls) == [name |-> name, dialect |-> d, decls |-> decls]

\* Two calls that may meet in one file.
Together == {[g1 |-> Call(<<>>, "pg", <<Ids>>), g2 |-> Call(<<>>, "mysql", <<Ids>>)]}
\* One call, for every pair of structs and every dialect.
Alone == {[g1 |-> Call(<<"v1", "2">>, d, <<e1, e2>>)] :
             d \in {"pg", "mysql", "sqlite"}, e1 \in Entities, e2 \in {User, Namer}}
\* One call beside a file, and beside a migration of the same second, some of whose
\* files are there already.
Beside == {[g1 |-> Call(<<"v1", "2">>, "pg", <<User, Ids, Empty, Unexported>>)]}
Earlier == {i \in DOMAIN Directory : Directory[i].version = 21 /\ Directory[i].name = <<"autogen", "a">>}

Lists == {[a1 |-> <<User, Ids>>, a2 |-> <<Ids, Sub>>],
          [a1 |-> <<User, Namer, Ids>>, a2 |-> <<SelfNamed, TwoKeys>>],
          [a1 |-> <<Ids, Conflict>>, a2 |-> <<Ids, User>>],
          [a1 |-> <<>>, a2 |-> <<Ids, AutoText>>, a3 |-> <<User>>]}
         \cup {[a1 |-> <<Ids, e>>] : e \in Entities}

\* Dialects are varied where they matter.
Start(d, c, l, ds, sqls) == [disk |-> d, calls |-> c, lists |-> l, dialects |-> ds, sqls |-> sqls]
Situations ==
    {Start(d, <<>>, <<>>, {"", "pg", "mysql"}, {"pg"}) : d \in SUBSET (DOMAIN Written)}
    \cup {Start({}, c, <<>>, {"pg"}, {"pg"}) : c \in Together \cup Alone}
    \cup {Start({5} \cup d, c, <<>>, {"pg"}, {"pg"}) : d \in SUBSET Earlier, c \in Beside}
    \cup {Start({}, <<>>, l, {""}, SqlDialects) : l \in Lists}

=============================================================================
