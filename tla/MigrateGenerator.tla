-------------------------- MODULE MigrateGenerator --------------------------
(***************************************************************************)
(* src/migrate/generate.go: GenerateFromModelFiles turns the structs of Go *)
(* files into an up and a down script and writes them under a name made of *)
(* the second, the given name and a random token, next to whatever else    *)
(* writes or loads that directory (MigrateLoader).  The statements are     *)
(* those of OrmSchema, but the structs are read from syntax trees.         *)
(***************************************************************************)
EXTENDS OrmSchema, MigrateLoader

CONSTANTS
    Seconds,        \* the versions the clock gives, as an interval
    Tokens,         \* results of randomToken
    Attempts,       \* bound: 16 in the code
    Rank,           \* the order of letters
    MaxGenFaults    \* bound: failed writes and crashes

ASSUME GenAssumption ==
    /\ Min(Seconds) \in Nat /\ Max(Seconds) \in Nat /\ Min(Seconds) <= Max(Seconds)
    /\ Seconds = Min(Seconds)..Max(Seconds)
    /\ "" \notin Tokens

\* No two letters of ASCII are one byte.
ASSUME RankAssumption ==
    /\ Rank \in [Ascii -> Nat]
    /\ \A a, b \in Ascii : Rank[a] = Rank[b] => a = b

VARIABLES
    calls,          \* calls[g]: name, dialect and the declarations of the model files
    now,            \* the version the clock gives
    gen,            \* gen[g]: the state of call g
    genFaults

genVars == <<calls, now, gen, genFaults>>

----------------------------------------------------------------------------
(* Parsing                                                                  *)

\* Types the syntax tree is understood for: predeclared ones, time.Time, the Null
\* types of database/sql by name, and slices of these; no defined types.
astExprToReflectType(type) ==
    ~type.named /\ type.kind \in DOMAIN KindType \cup DOMAIN sqlTypeForSQLNull \cup {"slice"}

\* Every named field must have such a type, also one that is not exported.
buildReflectFields(e) ==
    LET named == {i \in DOMAIN e.fields : ~e.fields[i].embedded}
    IN  IF \E i \in named : ~astExprToReflectType(e.fields[i].type) THEN <<>>
        ELSE <<Picked(e.fields, {i \in named : e.fields[i].exported})>>

\* A tag's first table; an alias before it must have a value.
parseTableNameFromTag(tag) ==
    LET S == {i \in DOMAIN tag : tag[i].key = "table"}
    IN  IF S = {} THEN {} ELSE Range(tag[Min(S)].value)

badTableName(tag) ==
    \E i \in DOMAIN tag : /\ tag[i].key \in {"table", "alias"} /\ tag[i].value = <<>>
                          /\ \A j \in 1..(i-1) : tag[j].key # "table"

\* Fault: only the orm tag is looked at.
parseStructTableNameOrm(e) ==
    LET tags == UNION {parseTableNameFromTag(f.orm) : f \in Range(e.fields)}
    IN  IF Cardinality(tags) > 1 THEN <<>>
        ELSE IF tags # {} THEN <<CHOOSE n \in tags : TRUE>>
        ELSE <<toSnakeCase(e.name, Ascii)>>

parseStructTableName(e) ==
    LET raws == UNION {{f.orm, f.elgon} : f \in Range(e.fields)}
        tags == UNION {parseTableNameFromTag(tag) : tag \in raws}
    IN  IF Cardinality(tags) > 1 \/ \E tag \in raws : badTableName(tag) THEN <<>>
        ELSE IF tags # {} THEN <<CHOOSE n \in tags : TRUE>>
        ELSE <<toSnakeCase(e.name, Ascii)>>

\* The exported structs of the files, by their positions.
Declared(call) ==
    {i \in DOMAIN call.decls : /\ call.decls[i].isStruct
                               /\ call.decls[i].name[1] \in DOMAIN LowerOf}

\* A struct none of whose fields are exported is passed over.
parseModelEntities(call) ==
    Picked(call.decls, {i \in Declared(call) : buildReflectFields(call.decls[i]) # <<<<>>>>})

Statement(e, sqlDialect) ==
    LET table == parseStructTableName(e)
        fields == buildReflectFields(e)
    IN  IF table = <<>> \/ fields = <<>> THEN <<>>
        ELSE BuildCreateTableSQLForTable(table[1], [e EXCEPT !.fields = fields[1]], sqlDialect)

\* Byte order of names.
Before(s, t) ==
    \E i \in DOMAIN t : /\ i <= Len(s) + 1 /\ \A h \in 1..i-1 : s[h] = t[h]
                        /\ i <= Len(s) => Rank[s[i]] < Rank[t[i]]

\* sort.SliceStable: by the tables' names, and as they were where these agree.
Precedes(stmts, i, j) ==
    LET s == stmts[i][1].table t == stmts[j][1].table
    IN  Before(s, t) \/ (s = t /\ i < j)

Place(stmts, i) == Cardinality({j \in DOMAIN stmts : Precedes(stmts, j, i)})

\* The up script, in the order of the tables' names; <<>> if some struct is refused.
UpScript(call) ==
    LET es == parseModelEntities(call)
        stmts == [i \in DOMAIN es |-> Statement(es[i], call.dialect)]
    IN  IF \/ \E i \in Declared(call) : parseStructTableName(call.decls[i]) = <<>>
           \/ \E i \in DOMAIN stmts : stmts[i] = <<>>
        THEN <<>>
        ELSE [k \in DOMAIN stmts |->
                stmts[CHOOSE i \in DOMAIN stmts : Place(stmts, i) = k - 1][1]]

----------------------------------------------------------------------------
(* Files                                                                    *)

\* The name's words, joined by underscores whatever stood between them.
normalizeName(words) == IF words = <<>> THEN <<"autogen">> ELSE words

\* <version>_<name>_<token>.<direction>.sql
FileName(version, words, token, direction) ==
    [version |-> version, name |-> Append(normalizeName(words), token),
     rest |-> <<direction>>, sql |-> TRUE, numbered |-> TRUE, isDir |-> FALSE]

\* The place in Files of a file that call g writes.
FileOf(g, token, direction) ==
    LET name == FileName(gen[g].ver, calls[g].name, token, direction)
    IN  CHOOSE i \in DOMAIN Files : Files[i] = name

UpFile(g) == FileOf(g, gen[g].token, "up")
DownFile(g) == FileOf(g, gen[g].token, "down")

GenInit(cs) ==
    /\ calls = cs
    /\ now = Min(Seconds)
    /\ gen = [g \in DOMAIN calls |->
                [pc |-> "idle", ver |-> 0, token |-> "", tries |-> 0,
                 up |-> <<>>, after |-> {}, kept |-> FALSE]]
    /\ genFaults = 0

GenFault == genFaults < MaxGenFaults /\ genFaults' = genFaults + 1

loadVars == <<dialect, present, todo, byVersion, result, out, cut, unreadable>>

\* Parsing and building, then the version from the clock.
GenBuild(g) ==
    /\ gen[g].pc = "idle"
    /\ LET script == UpScript(calls[g]) IN
       gen' = [gen EXCEPT ![g].pc = IF script = <<>> THEN "error" ELSE "stat",
                          ![g].ver = now,
                          ![g].up = script,
                          ![g].after = {h \in DOMAIN calls : gen[h].pc = "done"}]
    /\ UNCHANGED <<disk, unfilled, loadVars, calls, now, genFaults>>

\* A turn of the loop: a token, and no file may have either name; after the last
\* turn the call ends without a name.
GenStat(g, t) ==
    /\ gen[g].pc = "stat"
    /\ LET taken == {FileOf(g, t, "up"), FileOf(g, t, "down")} \cap disk # {}
           last == gen[g].tries + 1 = Attempts
       IN  gen' = [gen EXCEPT ![g].tries = @ + 1,
                              ![g].token = IF taken /\ last THEN "" ELSE t,
                              ![g].pc = IF ~taken THEN "writeUp"
                                        ELSE IF last THEN "error" ELSE "stat"]
    /\ UNCHANGED <<disk, unfilled, loadVars, calls, now, genFaults>>

\* Calls that ran together and settled on one name.
Settled(g) == gen[g].token # "" /\ gen[g].pc \notin {"idle", "stat"}

SameName(g, h) ==
    /\ gen[g].ver = gen[h].ver /\ gen[g].token = gen[h].token
    /\ normalizeName(calls[g].name) = normalizeName(calls[h].name)

Clash(g) == \E h \in DOMAIN calls \ {g} : Settled(g) /\ Settled(h) /\ SameName(g, h)

\* os.WriteFile creates or truncates the file, and then fills it.
Create(f) == disk' = disk \cup {f} /\ unfilled' = unfilled \cup {f}

\* Two calls that write one file may leave a mixture of both.
Fill(g, f) ==
    /\ unfilled' = unfilled \ {f} \/ (Clash(g) /\ unfilled' = unfilled)
    /\ disk' = disk

\* Either half of a write may fail.
WriteFails == GenFault /\ UNCHANGED <<disk, unfilled>>

GenWriteUp(g) ==
    /\ gen[g].pc = "writeUp"
    /\ \/ Create(UpFile(g)) /\ gen' = [gen EXCEPT ![g].pc = "fillUp"] /\ UNCHANGED genFaults
       \/ WriteFails /\ gen' = [gen EXCEPT ![g].pc = "error"]
    /\ UNCHANGED <<loadVars, calls, now>>

GenFillUp(g) ==
    /\ gen[g].pc = "fillUp"
    /\ \/ Fill(g, UpFile(g)) /\ gen' = [gen EXCEPT ![g].pc = "writeDown"] /\ UNCHANGED genFaults
       \/ WriteFails /\ gen' = [gen EXCEPT ![g].pc = "error"]
    /\ UNCHANGED <<loadVars, calls, now>>

GenWriteDown(g) ==
    /\ gen[g].pc = "writeDown"
    /\ \/ Create(DownFile(g)) /\ gen' = [gen EXCEPT ![g].pc = "fillDown"] /\ UNCHANGED genFaults
       \/ WriteFails /\ gen' = [gen EXCEPT ![g].pc = "remove"]
    /\ UNCHANGED <<loadVars, calls, now>>

GenFillDown(g) ==
    /\ gen[g].pc = "fillDown"
    /\ \/ Fill(g, DownFile(g)) /\ gen' = [gen EXCEPT ![g].pc = "done"] /\ UNCHANGED genFaults
       \/ WriteFails /\ gen' = [gen EXCEPT ![g].pc = "remove"]
    /\ UNCHANGED <<loadVars, calls, now>>

\* Fault: the error of the down file is returned at once.
GenRemoveForgotten(g) ==
    /\ gen[g].pc = "remove"
    /\ gen' = [gen EXCEPT ![g].pc = "error"]
    /\ UNCHANGED <<disk, unfilled, loadVars, calls, now, genFaults>>

\* The down file could not be written: os.Remove of the up file, whose own error
\* nobody looks at.
GenRemove(g) ==
    /\ gen[g].pc = "remove"
    /\ \/ /\ disk' = disk \ {UpFile(g)}
          /\ unfilled' = unfilled \ {UpFile(g)}
          /\ gen' = [gen EXCEPT ![g].pc = "error"]
       \/ /\ gen' = [gen EXCEPT ![g].pc = "error", ![g].kept = TRUE]
          /\ UNCHANGED <<disk, unfilled>>
    /\ UNCHANGED <<loadVars, calls, now, genFaults>>

\* The directory, a model file or the random source fails; or the process ends.
GenFails(g) ==
    /\ GenFault
    /\ \/ /\ gen[g].pc \in {"idle", "stat"}
          /\ gen' = [gen EXCEPT ![g].pc = "error", ![g].token = ""]
       \/ /\ gen[g].pc \in {"writeUp", "fillUp", "writeDown", "fillDown", "remove"}
          /\ gen' = [gen EXCEPT ![g].pc = "crashed"]
    /\ UNCHANGED <<disk, unfilled, loadVars, calls, now>>

\* The clock, for the calls that have not read it.
Second ==
    /\ \E g \in DOMAIN calls : gen[g].pc = "idle"
    /\ now + 1 \in Seconds
    /\ now' = now + 1
    /\ UNCHANGED <<disk, unfilled, loadVars, calls, gen, genFaults>>

GenNext ==
    \/ \E g \in DOMAIN calls : \/ GenBuild(g) \/ \E t \in Tokens : GenStat(g, t)
                              \/ GenWriteUp(g) \/ GenFillUp(g)
                              \/ GenWriteDown(g) \/ GenFillDown(g)
                              \/ GenRemove(g) \/ GenFails(g)
    \/ Second

----------------------------------------------------------------------------
(* Properties.                                                              *)

\* Of a call whose name no call beside it has settled on too, which takes the same
\* second and the same token: when it has returned without an error both files are
\* there and whole; after an error there is nothing of it but files it could not
\* fill and an up file it could not remove; and if its process has ended, there is
\* no down file without its up file.  And whoever ran beside it, whatever the clock
\* and the tokens were, a call never settles on the name of one that had returned
\* before it began.
GeneratorKeepsFiles ==
    \A g \in DOMAIN calls :
        /\ Settled(g) =>
              LET up == UpFile(g)
                  down == DownFile(g)
                  whole == disk \ unfilled
              IN  \/ Clash(g)
                  \/ /\ gen[g].pc = "done" => {up, down} \subseteq whole
                     /\ gen[g].pc = "error" =>
                           {up, down} \cap whole \subseteq IF gen[g].kept THEN {up} ELSE {}
                     /\ gen[g].pc = "crashed" /\ down \in disk => up \in whole
        /\ gen[g].pc = "done" => \A h \in gen[g].after : UpFile(g) # UpFile(h)

\* "using the same rules as orm.BuildCreateTableSQL" (generate.go): whatever is
\* generated is, struct by struct, the statement AutoMigrate would execute, for
\* structs without a TableName method, which a syntax tree does not evaluate.
GeneratedAgrees ==
    \A g \in {h \in DOMAIN calls : gen[h].pc = "stat"} :
        LET es == parseModelEntities(calls[g])
        IN  /\ Len(gen[g].up) = Len(es)
            /\ \A e \in {e \in Range(es) : e.namer = <<>>} :
                   LET stmt == BuildCreateTableSQL(e, calls[g].dialect)
                   IN  stmt # <<>> /\ stmt[1] \in Range(gen[g].up)

=============================================================================
