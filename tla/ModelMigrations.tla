-------------------------- MODULE ModelMigrations --------------------------
(***************************************************************************)
(* The two ways from structs to tables side by side: migrations that are   *)
(* generated into a directory and loaded from it, and AutoMigrate.         *)
(***************************************************************************)
EXTENDS AutoMigrate, MigrateGenerator

CONSTANT Setups     \* the directories, calls and entity lists to start from

ASSUME SetupsAssumption ==
    \A s \in Setups : /\ s.disk \subseteq DOMAIN Files
                      /\ s.dialects \subseteq Dialects /\ s.sqls \subseteq SqlDialects
                      /\ DOMAIN s.lists \subseteq Processes
                      /\ \A c \in DOMAIN s.lists : /\ Len(s.lists[c]) \in Nat
                                                   /\ DOMAIN s.lists[c] = 1..Len(s.lists[c])

\* Structs as OrmSchema describes them: lists of fields with two tags each, which
\* are lists of tokens, and a table's name is one of letters.
IsList(s) == s \in Seq(Range(s))

IsTag(tag) ==
    /\ IsList(tag)
    /\ \A t \in Range(tag) :
          t.key = "table" /\ t.value # <<>> =>
              t.value = <<t.value[1]>> /\ t.value[1] \in Seq(Letters \cup Ascii)

IsStruct(e) ==
    /\ e = [name |-> e.name, namer |-> e.namer, fields |-> e.fields, isStruct |-> e.isStruct]
    /\ e.name \in Seq(Letters \cup Ascii)
    /\ IsList(e.fields)
    /\ \A f \in Range(e.fields) : IsTag(f.orm) /\ IsTag(f.elgon)

ASSUME StructsAssumption ==
    \A s \in Setups : \A g \in DOMAIN s.calls :
        /\ IsList(s.calls[g].name) /\ IsList(s.calls[g].decls)
        /\ \A e \in Range(s.calls[g].decls) : IsStruct(e)

\* Files has the names that the calls of the generator can come to.
ASSUME NamesAssumption ==
    \A s \in Setups : \A g \in DOMAIN s.calls, v \in Seconds, t \in Tokens, d \in {"up", "down"} :
        \E i \in DOMAIN Files : Files[i] = FileName(v, s.calls[g].name, t, d)

ModelInit ==
    \E s \in Setups :
        Init(s.disk, s.dialects) /\ GenInit(s.calls) /\ AutoInit(s.lists, s.sqls)

ModelNext ==
    \/ Next /\ UNCHANGED <<genVars, autoVars>>
    \/ GenNext /\ UNCHANGED autoVars
    \/ AutoNext /\ UNCHANGED <<vars, genVars>>

ModelVars == <<vars, genVars, autoVars>>

ModelSpec == ModelInit /\ [][ModelNext]_ModelVars

\* A process that migrates goes on; the database aborts one of two transactions
\* that wait for each other.
FairModelSpec ==
    /\ ModelSpec
    /\ \A c \in Processes :
          WF_ModelVars(c \in DOMAIN mig /\ AutoStep(c) /\ UNCHANGED <<vars, genVars>>)

=============================================================================
