--------------------------- MODULE MigrateLoader ---------------------------
(***************************************************************************)
(* src/migrate/loader.go: Load reads a migrations directory entry by entry *)
(* in the order of os.ReadDir and collects one Migration per version.  A   *)
(* file name is its parts: what stands before the first dot (version and   *)
(* name), the parts after it, and whether it ends in .sql.  The SQL a      *)
(* migration gets is represented by the file it was read from.             *)
(***************************************************************************)
EXTENDS Naturals, Sequences, FiniteSets, SequencesExt

CONSTANTS
    Files,          \* the entries a directory may have, in the order ReadDir gives them
    EmptyFiles,     \* indices of those with no content
    Dialects        \* the dialects Load may be asked for, "" for none

ASSUME FilesAssumption ==
    /\ Len(Files) \in Nat /\ DOMAIN Files = 1..Len(Files)
    /\ \A i \in DOMAIN Files : Files[i].version \in Nat
    /\ EmptyFiles \subseteq DOMAIN Files

VARIABLES
    disk,           \* the entries that exist, as indices of Files
    unfilled,       \* those that a writer has created and not, or not all, written
    dialect,
    present,        \* the entries ReadDir returned
    todo,           \* those of them the loop has not reached
    byVersion,      \* version -> [name, up, down]; up and down are files, 0 for ""
    result,         \* "idle", "loading", "ok" or "error"
    out,            \* the migrations returned
    cut,            \* the files that were unfilled when the loop read them
    unreadable      \* a ReadFile failed

vars == <<disk, unfilled, dialect, present, todo, byVersion, result, out, cut, unreadable>>

----------------------------------------------------------------------------
(* ParseMigrationFileName                                                   *)

Direction(f) == Last(f.rest)

DialectMatches(f, d) == d = "" \/ f.rest[1] = d

\* ok of ParseMigrationFileName: <left>.up.sql or <left>.<dialect>.up.sql, where
\* left is <number>_<name>.
Parses(f, d) ==
    /\ f.sql
    /\ Len(f.rest) >= 1
    /\ Direction(f) \in {"up", "down"}
    /\ \/ Len(f.rest) = 1
       \/ Len(f.rest) = 2 /\ DialectMatches(f, d)
    /\ f.numbered

----------------------------------------------------------------------------

\* What ReadFile may give: nothing of an empty file; nothing or a part, for which
\* the file stands too, of one that is being written.
Content(i) ==
    IF i \in EmptyFiles THEN {0} ELSE IF i \in unfilled THEN {0, i} ELSE {i}

Init(directory, dialects) ==
    /\ disk = directory /\ unfilled = {}
    /\ dialect \in dialects
    /\ present = {} /\ todo = {}
    /\ byVersion = <<>>
    /\ result = "idle"
    /\ out = <<>>
    /\ cut = {}
    /\ unreadable = FALSE

\* os.ReadDir: the loop works on the entries there are now.
Load ==
    /\ result = "idle"
    /\ result' = "loading"
    /\ present' = disk
    /\ todo' = disk
    /\ UNCHANGED <<disk, unfilled, dialect, byVersion, out, cut, unreadable>>

LoadFails ==
    /\ result = "idle"
    /\ result' = "error"
    /\ unreadable' = TRUE
    /\ UNCHANGED <<disk, unfilled, dialect, present, todo, byVersion, out, cut>>

\* The loop passes over a directory and a name that does not parse.
Ignored(i) == Files[i].isDir \/ ~Parses(Files[i], dialect)

AtEntry(i) == result = "loading" /\ todo # {} /\ i = Min(todo)

Skip(i) ==
    /\ AtEntry(i)
    /\ Ignored(i)
    /\ todo' = todo \ {i}
    /\ UNCHANGED <<disk, unfilled, dialect, present, byVersion, result, out, cut, unreadable>>

\* The first file of a version creates the Migration and names it.
Entry(f) ==
    IF f.version \in DOMAIN byVersion THEN byVersion[f.version]
    ELSE [name |-> f.name, up |-> 0, down |-> 0]

\* Each file replaces what an earlier one gave for its direction.
Filled(f, content) ==
    IF Direction(f) = "up" THEN [Entry(f) EXCEPT !.up = content]
    ELSE [Entry(f) EXCEPT !.down = content]

Read(i) ==
    /\ AtEntry(i)
    /\ ~Ignored(i)
    /\ i \in disk
    /\ \E content \in Content(i) :
          byVersion' = [v \in DOMAIN byVersion \cup {Files[i].version} |->
                           IF v = Files[i].version THEN Filled(Files[i], content)
                           ELSE byVersion[v]]
    /\ cut' = cut \cup ({i} \cap unfilled)
    /\ todo' = todo \ {i}
    /\ UNCHANGED <<disk, unfilled, dialect, present, result, out, unreadable>>

\* The file cannot be read, or is gone since ReadDir.
ReadFails(i) ==
    /\ AtEntry(i)
    /\ ~Ignored(i)
    /\ result' = "error"
    /\ unreadable' = TRUE
    /\ UNCHANGED <<disk, unfilled, dialect, present, todo, byVersion, out, cut>>

\* sort.Ints: the k-th number has k-1 below it.
Ascending(S) ==
    [k \in 1..Cardinality(S) |-> CHOOSE v \in S : Cardinality({u \in S : u < v}) = k - 1]

\* The migrations of the versions, in order.
Sorted(versions) ==
    [k \in 1..Cardinality(versions) |->
        LET v == Ascending(versions)[k]
            m == byVersion[v]
        IN  [version |-> v, name |-> m.name, up |-> m.up, down |-> m.down]]

\* Fault: a version without up SQL is left out in silence.
FinishSkipsMissing ==
    /\ result = "loading"
    /\ todo = {}
    /\ result' = "ok"
    /\ out' = Sorted({v \in DOMAIN byVersion : byVersion[v].up # 0})
    /\ UNCHANGED <<disk, unfilled, dialect, present, todo, byVersion, cut, unreadable>>

\* The versions in order; one without up SQL fails the whole load.
Finish ==
    /\ result = "loading"
    /\ todo = {}
    /\ IF \E v \in DOMAIN byVersion : byVersion[v].up = 0
       THEN result' = "error" /\ UNCHANGED out
       ELSE result' = "ok" /\ out' = Sorted(DOMAIN byVersion)
    /\ UNCHANGED <<disk, unfilled, dialect, present, todo, byVersion, cut, unreadable>>

Next == \/ Load \/ LoadFails \/ Finish
        \/ \E i \in DOMAIN Files : Skip(i) \/ Read(i) \/ ReadFails(i)

----------------------------------------------------------------------------
(* Properties.                                                              *)

\* The files of the directory that belong to version v and direction d, written
\* for the requested dialect or for none in particular.
Usable(v, d) ==
    {i \in present : /\ ~Files[i].isDir
                     /\ Parses(Files[i], dialect)
                     /\ dialect # "" => Len(Files[i].rest) = 1 \/ Files[i].rest[1] = dialect
                     /\ Files[i].version = v
                     /\ Direction(Files[i]) = d}

\* A general file and one of the dialect's own for one version and direction.
Contended(v, d) ==
    /\ dialect # ""
    /\ {Len(Files[i].rest) : i \in Usable(v, d)} = {1, 2}

\* What the loop read last for them had, as it was read, no content.
ReadsBlank(v, d) ==
    Usable(v, d) # {} => Max(Usable(v, d)) \in EmptyFiles \cup cut

\* The load returns every version that has a usable file, once, in ascending
\* order, and none that has not, each with SQL of its own version, direction and
\* dialect; nothing is said of the SQL where a general file stands beside one of
\* the dialect's own.  It is short of a down script only for want of a file with
\* content, and fails only for want of up SQL or on a file it cannot read, which
\* may have been removed by a generator since the directory was listed.  A file a
\* generator is writing may count as empty, or give a part of its SQL.
LoadIsComplete ==
    LET found == {v \in {Files[i].version : i \in present} :
                     Usable(v, "up") \cup Usable(v, "down") # {}}
    IN  /\ result = "ok" =>
              /\ {out[k].version : k \in DOMAIN out} = found
              /\ \A k \in 2..Len(out) : out[k-1].version < out[k].version
              /\ \A k \in DOMAIN out :
                    LET m == out[k] IN
                    /\ m.up # 0
                    /\ m.up \in Usable(m.version, "up") \/ Contended(m.version, "up")
                    /\ m.down = 0 => ReadsBlank(m.version, "down")
                    /\ \/ m.down \in Usable(m.version, "down") \cup {0}
                       \/ Contended(m.version, "down")
        /\ result = "error" => unreadable \/ \E v \in found : ReadsBlank(v, "up")

=============================================================================
