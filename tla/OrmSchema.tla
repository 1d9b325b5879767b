----------------------------- MODULE OrmSchema -----------------------------
(***************************************************************************)
(* src/orm/schema.go: from a Go struct to a CREATE TABLE statement.        *)
(*                                                                         *)
(* A name is a sequence of letters.  A struct is its name (<<>> if it has  *)
(* none), what its TableName method returns and its fields; a field has a  *)
(* name, a type and two tags, `orm` and `elgon`, each a sequence of        *)
(* [key, value] tokens whose keys are normalised.  A value or a result is  *)
(* <<x>>, and <<>> if there is none: no value, an error.  A statement is   *)
(* the table and its column definitions; the layout of the text is left    *)
(* out.                                                                    *)
(***************************************************************************)
EXTENDS Naturals, Sequences, FiniteSets, SequencesExt

CONSTANTS
    LowerOf,        \* upper case letter -> lower case letter
    Ascii,          \* the letters of ASCII, with the underscore
    SqlDialects     \* dialects tables are created for

Letters == DOMAIN LowerOf \cup {LowerOf[r] : r \in DOMAIN LowerOf}

\* The elements of s at the positions I, in their order.
Picked(s, I) ==
    [k \in 1..Cardinality(I) |-> s[CHOOSE i \in I : Cardinality({j \in I : j < i}) = k - 1]]

----------------------------------------------------------------------------
(* Names                                                                    *)

\* A capital starts a word if a small letter stands before or after it.  The
\* letters are those the caller takes for letters.
toSnakeCase(s, letters) ==
    LET Upper(i) == s[i] \in letters \cap DOMAIN LowerOf
        Small(i) == /\ i \in DOMAIN s
                    /\ s[i] \in letters \cap (Letters \ DOMAIN LowerOf)
        Piece(i) == IF ~Upper(i) THEN <<s[i]>>
                    ELSE IF i > 1 /\ (Small(i-1) \/ Small(i+1)) THEN <<"_", LowerOf[s[i]]>>
                    ELSE <<LowerOf[s[i]]>>
    IN  FlattenSeq([i \in DOMAIN s |-> Piece(i)])

validIdentifier(s) == s # <<>> /\ \A i \in DOMAIN s : s[i] \in Ascii

----------------------------------------------------------------------------
(* Tags                                                                     *)

\* Type names that are options of their own.
Shorthand ==
    [bool |-> "BOOLEAN", boolean |-> "BOOLEAN", text |-> "TEXT", blob |-> "BLOB",
     int |-> "INTEGER", integer |-> "INTEGER", bigint |-> "BIGINT", real |-> "REAL",
     float |-> "REAL", timestamp |-> "TIMESTAMP", datetime |-> "TIMESTAMP"]

Options == {"-", "column", "type", "default", "size", "pk", "primarykey",
            "autoincrement", "notnull", "unique"} \cup DOMAIN Shorthand

BadOption(t) ==
    \/ t.key \notin Options
    \/ t.key \in {"column", "type", "default"} /\ t.value = <<>>
    \/ t.key = "size" /\ (t.value = <<>> \/ t.value[1] <= 0)

schemaFieldTagRaw(f) == IF f.orm # <<>> THEN f.orm ELSE f.elgon

schemaTagRaws(f) == {f.orm, f.elgon}

\* The last token with one of the keys wins.
LastOf(tag, keys) ==
    LET S == {i \in DOMAIN tag : tag[i].key \in keys}
    IN  IF S = {} THEN <<>> ELSE <<tag[Max(S)]>>

ValueOf(tag, key) ==
    LET t == LastOf(tag, {key}) IN IF t = <<>> THEN <<>> ELSE t[1].value

Has(tag, keys) == \E i \in DOMAIN tag : tag[i].key \in keys

TypeOption(tag) ==
    LET t == LastOf(tag, {"type"} \cup DOMAIN Shorthand)
    IN  IF t = <<>> THEN <<>>
        ELSE IF t[1].key = "type" THEN t[1].value ELSE <<Shorthand[t[1].key]>>

parseSchemaFieldTag(tag) ==
    IF \E i \in DOMAIN tag : BadOption(tag[i]) THEN <<>>
    ELSE <<[skip |-> Has(tag, {"-"}),
            column |-> ValueOf(tag, "column"),
            sqlType |-> TypeOption(tag),
            default |-> ValueOf(tag, "default"),
            size |-> ValueOf(tag, "size"),
            primaryKey |-> Has(tag, {"pk", "primarykey"}),
            autoIncrement |-> Has(tag, {"autoincrement"}),
            notNull |-> Has(tag, {"notnull"}),
            unique |-> Has(tag, {"unique"})]>>

\* The tokens up to the first "table", which is where the search for it ends.
UpToTable(raw) ==
    LET S == {i \in DOMAIN raw : raw[i].key = "table"}
    IN  IF S = {} THEN raw ELSE SubSeq(raw, 1, Min(S))

\* The table a tag names, as a set of at most one; badTableTag if it is an error.
parseSchemaTableTag(raw) ==
    {t.value[1] : t \in {u \in Range(UpToTable(raw)) : u.key = "table" /\ u.value # <<>>}}

badTableTag(raw) ==
    \E t \in Range(UpToTable(raw)) : t.key \in {"table", "alias"} /\ t.value = <<>>

----------------------------------------------------------------------------
(* Types                                                                    *)

sqlTypeForSQLNull ==
    [NullString |-> "TEXT", NullBool |-> "BOOLEAN", NullInt16 |-> "INTEGER",
     NullInt32 |-> "INTEGER", NullByte |-> "INTEGER", NullInt64 |-> "BIGINT",
     NullFloat64 |-> "REAL", NullTime |-> "TIMESTAMP"]

\* sql.Null[T] has a name that begins with Null, too.
isSQLNullType(kind) == kind \in DOMAIN sqlTypeForSQLNull \cup {"Null"}

isIntegerType(kind) == kind \in {"int", "int64"}

\* What a Go type becomes; int stands for the integers of up to 32 bits, bytes
\* for []byte, slice for one of these or of a Null type, which has no column type
\* of its own, struct for all others that have none.  Pointers are unwrapped; a
\* size makes a string a VARCHAR of it.
KindType == [bool |-> "BOOLEAN", int |-> "INTEGER", int64 |-> "BIGINT",
             float64 |-> "REAL", string |-> "TEXT", bytes |-> "BLOB", time |-> "TIMESTAMP"]

inferSQLType(type, opts) ==
    LET kind == type.kind IN
    IF isSQLNullType(kind)
    THEN IF kind \in DOMAIN sqlTypeForSQLNull THEN <<sqlTypeForSQLNull[kind]>> ELSE <<>>
    ELSE IF opts.sqlType # <<>> THEN opts.sqlType
    ELSE IF kind = "string" /\ opts.size # <<>> THEN <<"VARCHAR">>
    ELSE IF kind \in DOMAIN KindType THEN <<KindType[kind]>>
    ELSE <<>>

buildColumnDef(column, sqlType, kind, opts, dialect) ==
    LET auto == opts.autoIncrement
        pk == auto \/ opts.primaryKey
        def == [column |-> column, type |-> sqlType, default |-> opts.default,
                size |-> IF sqlType = "VARCHAR" THEN opts.size ELSE <<>>,
                pk |-> pk, notNull |-> pk \/ opts.notNull, unique |-> opts.unique /\ ~pk,
                auto |-> auto /\ dialect = "mysql"]
    IN  IF auto /\ ~isIntegerType(kind) THEN <<>>
        ELSE IF auto /\ dialect = "sqlite"
        THEN <<[def EXCEPT !.type = "INTEGER", !.notNull = FALSE,
                           !.unique = opts.unique, !.auto = TRUE]>>
        ELSE IF auto /\ dialect = "pg" THEN <<[def EXCEPT !.type = "BIGSERIAL"]>>
        ELSE <<def>>

----------------------------------------------------------------------------
(* Statements                                                               *)

\* Tags on any field, also those that are no columns; then TableName; then the
\* name of the type.
entityTableName(e) ==
    LET raws == UNION {schemaTagRaws(e.fields[i]) : i \in DOMAIN e.fields}
        tags == UNION {parseSchemaTableTag(raw) : raw \in raws}
        name == IF tags # {} THEN CHOOSE n \in tags : TRUE
                ELSE IF e.namer # <<>> THEN e.namer[1]
                ELSE toSnakeCase(e.name, Letters)
    IN  IF \/ \E raw \in raws : badTableTag(raw)
           \/ Cardinality(tags) > 1
           \/ ~validIdentifier(name)
        THEN <<>> ELSE <<name>>

\* One field to a column definition.
Column(f, opts, dialect) ==
    LET name == IF opts.column # <<>> THEN opts.column[1] ELSE toSnakeCase(f.name, Letters)
        type == inferSQLType(f.type, opts)
    IN  IF ~validIdentifier(name) \/ type = <<>> THEN <<>>
        ELSE buildColumnDef(name, type[1], f.type.kind, opts, dialect)

\* The fields the loop over a struct does not pass over at once.
schemaFields(e) ==
    Picked(e.fields, {i \in DOMAIN e.fields : e.fields[i].exported /\ ~e.fields[i].embedded})

createTable(fields, dialect, table) ==
    LET Opts(f) == parseSchemaFieldTag(schemaFieldTagRaw(f))
        kept == Picked(fields, {i \in DOMAIN fields : /\ Opts(fields[i]) # <<>>
                                                      /\ ~Opts(fields[i])[1].skip})
        cols == [i \in DOMAIN kept |-> Column(kept[i], Opts(kept[i])[1], dialect)]
    IN  IF \/ table = <<>> \/ ~validIdentifier(table[1])
           \/ \E i \in DOMAIN fields : Opts(fields[i]) = <<>>
           \/ kept = <<>>
           \/ \E i \in DOMAIN cols : cols[i] = <<>>
        THEN <<>>
        ELSE <<[table |-> table[1], cols |-> [i \in DOMAIN cols |-> cols[i][1]]]>>

buildCreateTableSQL(e, dialect, table) == createTable(schemaFields(e), dialect, table)

BuildCreateTableSQL(e, dialect) ==
    IF e.isStruct THEN buildCreateTableSQL(e, dialect, entityTableName(e)) ELSE <<>>

BuildCreateTableSQLForTable(table, e, dialect) == buildCreateTableSQL(e, dialect, <<table>>)

=============================================================================
