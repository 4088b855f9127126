------------------------------- MODULE Schema -------------------------------
(***************************************************************************)
(* cool-next/db/schema: the difference between the table an entity          *)
(* descriptor asks for and the table the database has, and the statements   *)
(* that remove it.  Type, key and increment of a column are one value,      *)
(* shape, in the normalised spelling of its dialect.                        *)
(***************************************************************************)
EXTENDS SequencesExt

CONSTANT Absent  \* a table the database does not have

Difference(kind, subject, change) == [kind |-> kind, subject |-> subject, change |-> change]

\* compare's loops over the columns, and over the indexes, of both tables.
Differences(kind, expected, actual, Agree(_, _)) ==
  {Difference(kind, x, "missing") : x \in DOMAIN expected \ DOMAIN actual}
  \cup {Difference(kind, x, "changed") :
          x \in {y \in DOMAIN expected \cap DOMAIN actual : ~Agree(expected[y], actual[y])}}
  \cup {Difference(kind, x, "surplus") : x \in DOMAIN actual \ DOMAIN expected}

SameColumn(e, a) == e.shape = a.shape /\ e.nullable = a.nullable
SameIndex(e, a) == e = a

\* Mutant of Compare: indexes are not compared.
CompareColumns(expected, actual) ==
  IF actual = Absent THEN {Difference("table", "", "missing")}
  ELSE Differences("column", expected.columns, actual.columns, SameColumn)

Compare(expected, actual) ==
  IF actual = Absent THEN {Difference("table", "", "missing")}
  ELSE Differences("column", expected.columns, actual.columns, SameColumn)
       \cup Differences("index", expected.indexes, actual.indexes, SameIndex)

\* hasUnsafeDiff: only what can be added without touching rows is safe.
Safe(expected, difference) ==
  /\ difference.change = "missing"
  /\ \/ difference.kind \in {"table", "index"}
     \/ expected.columns[difference.subject].nullable
     \/ expected.columns[difference.subject].default

\* sync: CREATE TABLE and its indexes one by one, or what is missing, columns first.
Statements(expected, differences) ==
  IF Difference("table", "", "missing") \in differences
  THEN << Difference("table", "", "missing") >>
       \o SetToSeq({Difference("index", x, "missing") : x \in DOMAIN expected.indexes})
  ELSE SetToSeq({d \in differences : d.kind = "column"}) \o SetToSeq({d \in differences : d.kind = "index"})

\* A statement that creates what exists already is refused by the database.
Executable(statement, actual) ==
  CASE statement.kind = "table" -> actual = Absent
    [] statement.kind = "column" -> actual # Absent /\ statement.subject \notin DOMAIN actual.columns
    [] statement.kind = "index" -> actual # Absent /\ statement.subject \notin DOMAIN actual.indexes

Executed(expected, statement, actual) ==
  LET grown(part) == [x \in DOMAIN actual[part] \cup {statement.subject} |->
                        IF x = statement.subject THEN expected[part][x] ELSE actual[part][x]] IN
  CASE statement.kind = "table" -> [columns |-> expected.columns, indexes |-> [x \in {} |-> Absent]]
    [] statement.kind = "column" -> [actual EXCEPT !.columns = grown("columns")]
    [] statement.kind = "index" -> [actual EXCEPT !.indexes = grown("indexes")]
=============================================================================
