------------------------------ MODULE DictTables ------------------------------
(***************************************************************************)
(* The operations of SqlDBOperation on the dictionary database and on the  *)
(* two tables that manage dictionaries and strategies                      *)
(* (db/sql_db_operation.hpp:58-155 and 284-423).  Several admins, each a   *)
(* process like add_dict_table_from_file, execute one statement after      *)
(* another; no transaction holds the statements of an operation together,  *)
(* any of them may fail and an admin may die between two of them.          *)
(*                                                                         *)
(* The rows of dict_manager and strategy_manager have no key and no order: *)
(* such a table is a function that gives every row a place of its own.     *)
(***************************************************************************)
EXTENDS Integers, FiniteSets, FiniteSetsExt, SequencesExt, TLC

CONSTANTS
  Admin, Name, Word, Status,
  Books,           \* what is loaded: words with their numbers
  Batch,           \* how many words MAX_INSERT leaves room for
  MaxJobs,         \* bound: the operations of a behaviour
  StatementsFail

\* The overload with a file or a set of words leaves the numbers, here 0, to
\* the table.
ASSUME DictAssumption ==
  /\ Name # {}
  /\ \A book \in Books : /\ DOMAIN book \subseteq Word /\ Range(book) \subseteq Nat
                        /\ IsFiniteSet(DOMAIN book)
  /\ Batch \in Nat \ {0}
  /\ MaxJobs \in Nat
  /\ StatementsFail \in BOOLEAN

VARIABLES
  apc, job,
  unsent,     \* the words that are in no insert statement yet
  tables,     \* the tables of the database dictionary, each a set of entries
  manager,    \* the rows of dict_manager and of strategy_manager
  jobs,
  torn,       \* history: what two admins had in hand, or one left halfway
  unlisted,   \* history: dictionaries whose row was renamed, or deleted alone
  loaded,     \* history: the book last loaded into a table
  noted       \* history: the status last given to a strategy

history == <<torn, unlisted, loaded, noted>>
vars == <<apc, job, unsent, tables, manager, jobs, history>>

Default == "#default"
Kind == {"dict", "strategy"}
Row == [name : Name, status : Status \cup {Default}]
Entry == [no : Nat \ {0}, word : Word]

Jobs ==
  [op : {"add_dict_table"}, name : Name, book : Books]
  \cup [op : {"rm_dict_table", "rm_dict_manager", "rm_strategy_manger"}, name : Name]
  \cup [op : {"op_dict_manager", "op_strategy_manager"}, name : Name, status : Status]

FirstLabel(op) ==
  CASE op = "add_dict_table" -> "drop"
    [] op \in {"rm_dict_table", "rm_dict_manager", "rm_strategy_manger"} -> "look_rm"
    [] OTHER -> "look"

\* A process is at a label of the operation it was called with, and the tables
\* hold entries and rows with numbers counted from 1.
TypeOK ==
  /\ apc \in [Admin -> {"idle", "drop", "create", "look", "insert", "update", "fill",
                        "look_rm", "delete", "drop_rm"}]
  /\ job \in [Admin -> Jobs]
  /\ unsent \in [Admin -> SUBSET Word]
  /\ DOMAIN tables \subseteq Name
  /\ \A d \in DOMAIN tables : tables[d] \subseteq Entry
  /\ \A k \in Kind : DOMAIN manager[k] \subseteq Nat /\ Range(manager[k]) \subseteq Row
  /\ jobs \in 0 .. MaxJobs

Nothing == [d \in {} |-> 0]

Init ==
  /\ apc = [a \in Admin |-> "idle"]
  /\ job = [a \in Admin |-> CHOOSE j \in Jobs : TRUE]
  /\ unsent = [a \in Admin |-> {}]
  /\ tables = Nothing
  /\ manager = [k \in Kind |-> Nothing]
  /\ jobs = 0
  /\ torn = {} /\ unlisted = {} /\ loaded = Nothing /\ noted = Nothing

-----------------------------------------------------------------------------
Set(f, a, x) == [f EXCEPT ![a] = x]
Put(f, a, x) == [z \in DOMAIN f \cup {a} |-> IF z = a THEN x ELSE f[z]]
Goto(a, label) == apc' = Set(apc, a, label)
Without(f, name) == Restrict(f, DOMAIN f \ {name})

NameOf(a) == job[a].name
KindOf(op) == IF op \in {"op_strategy_manager", "rm_strategy_manger"} THEN "strategy"
              ELSE "dict"
Subject(j) == <<KindOf(j.op), j.name>>
InHand(s) == \E a \in Admin : apc[a] # "idle" /\ Subject(job[a]) = s

RowsOf(a) == manager[KindOf(job[a].op)]
Named(rows, name) == {i \in DOMAIN rows : rows[i].name = name}
HasRow(rows, name) == Named(rows, name) # {}
NewPlace(rows) == Max({0} \cup DOMAIN rows) + 1
NewRow(a) == [name |-> NameOf(a),
              status |-> IF job[a].op = "add_dict_table" THEN Default ELSE job[a].status]

\* add_dict_table goes on to insert the words, the others are done.
AfterRow(a) == IF job[a].op = "add_dict_table" THEN "fill" ELSE "idle"
AfterDelete(a) == IF job[a].op = "rm_dict_table" THEN "drop_rm" ELSE "idle"

Begin(a) ==
  /\ apc[a] = "idle"
  /\ jobs < MaxJobs
  /\ \E j \in Jobs :
       /\ job' = Set(job, a, j)
       /\ unsent' = Set(unsent, a, IF j.op = "add_dict_table" THEN DOMAIN j.book ELSE {})
       /\ Goto(a, FirstLabel(j.op))
       /\ torn' = IF InHand(Subject(j)) THEN torn \cup {Subject(j)} ELSE torn
  /\ jobs' = jobs + 1
  /\ UNCHANGED <<tables, manager, unlisted, loaded, noted>>

\* drop table if exists, the first statement of add_dict_table and the last
\* one of rm_dict_table.
DropTable(a) ==
  /\ apc[a] \in {"drop", "drop_rm"}
  /\ tables' = Without(tables, NameOf(a))
  /\ loaded' = Without(loaded, NameOf(a))
  /\ Goto(a, IF apc[a] = "drop" THEN "create" ELSE "idle")
  /\ UNCHANGED <<job, unsent, manager, jobs, torn, unlisted, noted>>

CreateTable(a) ==
  /\ apc[a] = "create"
  /\ NameOf(a) \notin DOMAIN tables
  /\ tables' = Put(tables, NameOf(a), {})
  /\ loaded' = Put(loaded, NameOf(a), job[a].book)
  /\ Goto(a, "look")
  /\ UNCHANGED <<job, unsent, manager, jobs, torn, unlisted, noted>>

\* Mutant: the answer of if_exist is not asked for before an update.
LookForRowUnasked(a) ==
  /\ apc[a] \in {"look", "look_rm"}
  /\ Goto(a, IF apc[a] = "look" THEN "update" ELSE "delete")
  /\ UNCHANGED <<job, unsent, tables, manager, jobs, history>>

\* if_exist in op_dict_manager, op_strategy_manager and the two rm operations.
LookForRow(a) ==
  /\ apc[a] \in {"look", "look_rm"}
  /\ LET there == HasRow(RowsOf(a), NameOf(a))
     IN  Goto(a, IF apc[a] = "look" THEN (IF there THEN "update" ELSE "insert")
                 ELSE IF there THEN "delete" ELSE AfterDelete(a))
  /\ UNCHANGED <<job, unsent, tables, manager, jobs, history>>

InsertRow(a) ==
  /\ apc[a] = "insert"
  /\ manager' = Set(manager, KindOf(job[a].op), Put(RowsOf(a), NewPlace(RowsOf(a)), NewRow(a)))
  /\ Goto(a, AfterRow(a))
  /\ IF KindOf(job[a].op) = "dict"
     THEN unlisted' = unlisted \ {NameOf(a)} /\ UNCHANGED noted
     ELSE noted' = Put(noted, NameOf(a), NewRow(a).status) /\ UNCHANGED unlisted
  /\ torn' = IF job[a].op = "op_dict_manager" /\ NameOf(a) \notin DOMAIN tables
             THEN torn \cup {Subject(job[a])} ELSE torn
  /\ UNCHANGED <<job, unsent, tables, jobs, loaded>>

\* The update of dict_manager has no where: every row gets the new name.
UpdateDictRows(a) ==
  /\ apc[a] = "update" /\ KindOf(job[a].op) = "dict"
  /\ manager' = Set(manager, "dict", [i \in DOMAIN RowsOf(a) |-> NewRow(a)])
  /\ unlisted' = LET named == {row.name : row \in Range(RowsOf(a))}
                IN  IF named = {} THEN unlisted ELSE (unlisted \cup named) \ {NameOf(a)}
  /\ Goto(a, AfterRow(a))
  /\ UNCHANGED <<job, unsent, tables, jobs, torn, loaded, noted>>

\* Mutant: this update has no where either.
UpdateEveryStrategyRow(a) ==
  /\ apc[a] = "update" /\ KindOf(job[a].op) = "strategy"
  /\ manager' = Set(manager, "strategy", [i \in DOMAIN RowsOf(a) |-> NewRow(a)])
  /\ noted' = Put(noted, NameOf(a), NewRow(a).status)
  /\ Goto(a, AfterRow(a))
  /\ UNCHANGED <<job, unsent, tables, jobs, torn, unlisted, loaded>>

UpdateStrategyRow(a) ==
  /\ apc[a] = "update" /\ KindOf(job[a].op) = "strategy"
  /\ manager' = Set(manager, "strategy",
                    [i \in DOMAIN RowsOf(a) |->
                       IF RowsOf(a)[i].name = NameOf(a) THEN NewRow(a) ELSE RowsOf(a)[i]])
  /\ noted' = Put(noted, NameOf(a), NewRow(a).status)
  /\ Goto(a, AfterRow(a))
  /\ UNCHANGED <<job, unsent, tables, jobs, torn, unlisted, loaded>>

DeleteRow(a) ==
  /\ apc[a] = "delete"
  /\ manager' = Set(manager, KindOf(job[a].op),
                    Restrict(RowsOf(a), DOMAIN RowsOf(a) \ Named(RowsOf(a), NameOf(a))))
  /\ noted' = IF KindOf(job[a].op) = "dict" THEN noted ELSE Without(noted, NameOf(a))
  /\ unlisted' = IF job[a].op = "rm_dict_manager" THEN unlisted \cup {NameOf(a)}
                 ELSE unlisted
  /\ Goto(a, AfterDelete(a))
  /\ UNCHANGED <<job, unsent, tables, jobs, torn, loaded>>

-----------------------------------------------------------------------------
\* Mutant: auto_increment is taken to begin with 0.
FirstFreeNoZero(entries) == Cardinality(entries)

FirstFreeNo(entries) == Max({0} \cup {e.no : e \in entries}) + 1

\* The entries of one insert statement, for words in the order of ws.
NewEntries(book, ws, entries) ==
  {[no |-> IF book[ws[i]] = 0 THEN FirstFreeNo(entries) + i - 1 ELSE book[ws[i]],
    word |-> ws[i]] : i \in DOMAIN ws}

\* no is the primary key.
Insertable(new, entries) ==
  /\ {e.no : e \in new} \cap {e.no : e \in entries} = {}
  /\ \A e, f \in new : e.no = f.no => e = f

\* Mutant: what is left over when the loop ends is not inserted.
FullBatches(words) == {S \in SUBSET words : Cardinality(S) = Batch}

\* A hash table gives the words in any order; all that fit go into one
\* statement, at last those that are left.
Batches(words) ==
  {S \in SUBSET words : Cardinality(S) = Batch \/ (S = words /\ Cardinality(S) < Batch)}

InsertWords(a) ==
  /\ apc[a] = "fill"
  /\ NameOf(a) \in DOMAIN tables
  /\ \E S \in Batches(unsent[a]) \ {{}} : \E ws \in SetToSeqs(S) :
       LET entries == tables[NameOf(a)]
           new == NewEntries(job[a].book, ws, entries)
       IN  /\ Insertable(new, entries)
           /\ tables' = Put(tables, NameOf(a), entries \cup new)
           /\ unsent' = Set(unsent, a, unsent[a] \ S)
  /\ UNCHANGED <<apc, job, manager, jobs, history>>

InsertWordsEnds(a) ==
  /\ apc[a] = "fill"
  /\ Batches(unsent[a]) \subseteq {{}}
  /\ Goto(a, "idle")
  /\ UNCHANGED <<job, unsent, tables, manager, jobs, history>>

\* Whether the next statement of a must fail.
Refused(a) ==
  \/ apc[a] = "create" /\ NameOf(a) \in DOMAIN tables
  \/ apc[a] = "fill" /\ NameOf(a) \notin DOMAIN tables
  \/ /\ apc[a] = "fill" /\ NameOf(a) \in DOMAIN tables
     /\ \E S \in Batches(unsent[a]) \ {{}} : \E ws \in SetToSeqs(S) :
          ~Insertable(NewEntries(job[a].book, ws, tables[NameOf(a)]), tables[NameOf(a)])

\* Mutant: add_dict_table goes on when the table was not created.
AfterFailureGoesOn(a) ==
  CASE apc[a] \in {"look", "create"} -> "insert"
    [] apc[a] \in {"insert", "update"} -> AfterRow(a)
    [] apc[a] \in {"look_rm", "delete"} -> AfterDelete(a)
    [] OTHER -> "idle"

\* if_exist answers false when its query fails.
AfterFailure(a) ==
  CASE apc[a] = "look" -> "insert"
    [] apc[a] \in {"insert", "update"} -> AfterRow(a)
    [] apc[a] \in {"look_rm", "delete"} -> AfterDelete(a)
    [] OTHER -> "idle"

\* A dictionary that was not registered stays so when its table is not made.
LeftHalfway(a) ==
  \/ apc[a] \notin {"drop", "create"}
  \/ apc[a] = "create" /\ HasRow(RowsOf(a), NameOf(a))

StatementFails(a) ==
  /\ apc[a] # "idle"
  /\ apc[a] = "fill" => unsent[a] # {}
  /\ StatementsFail \/ Refused(a)
  /\ Goto(a, AfterFailure(a))
  /\ torn' = IF LeftHalfway(a) THEN torn \cup {Subject(job[a])} ELSE torn
  /\ UNCHANGED <<job, unsent, tables, manager, jobs, unlisted, loaded, noted>>

\* The process is ended; another one may take its place.
Dies(a) ==
  /\ apc[a] # "idle"
  /\ Goto(a, "idle")
  /\ torn' = IF LeftHalfway(a) THEN torn \cup {Subject(job[a])} ELSE torn
  /\ UNCHANGED <<job, unsent, tables, manager, jobs, unlisted, loaded, noted>>

Step(a) ==
  \/ Begin(a) \/ DropTable(a) \/ CreateTable(a) \/ LookForRow(a)
  \/ InsertRow(a) \/ UpdateDictRows(a) \/ UpdateStrategyRow(a) \/ DeleteRow(a)
  \/ InsertWords(a) \/ InsertWordsEnds(a) \/ StatementFails(a) \/ Dies(a)

Next == \E a \in Admin : Step(a)

Spec == Init /\ [][Next]_vars

-----------------------------------------------------------------------------
\* A dictionary that dict_manager names has its table, unless an admin is
\* about to create it, or has let the two fall apart: by an operation on it
\* that failed or ended halfway, by two at the same time, or by
\* op_dict_manager alone.
RegisteredDictionariesExist ==
  \A d \in Name :
    HasRow(manager["dict"], d) /\ <<"dict", d>> \notin torn =>
      d \in DOMAIN tables \/ \E a \in Admin : NameOf(a) = d /\ apc[a] = "create"

\* A dictionary with a table stays registered, unless another one that is
\* registered already is added anew (the update without a where of
\* sql_db_operation.hpp:349-357 gives its row the other name), or
\* rm_dict_manager is called alone and leaves the table (lines 413-423; only
\* rm_dict_table drops it as well).  Either ends when it is registered again.
LoadedDictionariesAreRegistered ==
  \A d \in DOMAIN tables :
    <<"dict", d>> \notin torn /\ ~InHand(<<"dict", d>>) =>
      HasRow(manager["dict"], d) \/ d \in unlisted

\* Once add_dict_table is done the table has every word of the book it was
\* given last, each once, under its own number, whatever batches the words
\* went in and whatever happens to other tables meanwhile.
LoadedTablesAreComplete ==
  \A d \in DOMAIN tables :
    <<"dict", d>> \notin torn /\ ~InHand(<<"dict", d>>) =>
      /\ {e.word : e \in tables[d]} = DOMAIN loaded[d]
      /\ \A e, f \in tables[d] : e.word = f.word \/ e.no = f.no => e = f
      /\ \A e \in tables[d] : loaded[d][e.word] \in {0, e.no}

\* A strategy that one admin at a time changes has one row, with the status it
\* was given last, or none: no operation on one strategy touches another.
StrategiesAreApart ==
  \A s \in Name :
    <<"strategy", s>> \notin torn /\ ~InHand(<<"strategy", s>>) =>
      LET rows == manager["strategy"]
      IN  /\ Cardinality(Named(rows, s)) = IF s \in DOMAIN noted THEN 1 ELSE 0
          /\ \A i \in Named(rows, s) : rows[i].status = noted[s]
=============================================================================
