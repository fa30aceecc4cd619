----------------------------- MODULE TableProofs -----------------------------
(***************************************************************************)
(* What holds of the tables of the databases for any number of workers,    *)
(* admins, URLs, dictionaries and words, whatever statement fails and      *)
(* whoever is killed.                                                      *)
(*                                                                         *)
(* Both groups of tables have one argument: as long as nobody else has a   *)
(* row or a dictionary in hand and nobody has left it halfway, the process *)
(* that has it in hand knows what it found there, from the if_exist on to  *)
(* its last statement.  DictInv and PageInv say what is known at each      *)
(* label; the properties say it only of what nobody has in hand, which is  *)
(* too little to be kept by a step.                                        *)
(***************************************************************************)
EXTENDS DictTables, PageTables, FiniteSetTheorems, SequenceTheorems, TLAPS

(* Numbers and finite sets of them.                                        *)

LEMMA LessRelation ==
  ASSUME NEW x \in Nat, NEW y \in Nat
  PROVE  <<x, y>> \in OpToRel(<, Nat) <=> x < y
  BY DEF OpToRel

\* Of numbers there is a least one, which is what induction comes to here.
LEMMA LeastNumber ==
  ASSUME NEW S \in SUBSET Nat, S # {}
  PROVE  \E n \in S : \A m \in S : n <= m
<1>1. PICK n \in S : \A m \in S : ~(<<m, n>> \in OpToRel(<, Nat))
  BY WFMin, NatLessThanWellFounded
<1>2. \A m \in S : ~(m < n)
  BY <1>1, LessRelation
<1> QED BY <1>2

LEMMA FiniteHasMin ==
  ASSUME NEW S \in SUBSET Int, IsFiniteSet(S), S # {}
  PROVE  Min(S) \in S /\ \A y \in S : Min(S) <= y
<1> DEFINE Least(T) == \E x \in T : \A y \in T : x <= y
           Bad == {n \in Nat : \E T \in SUBSET Int : /\ IsFiniteSet(T) /\ T # {}
                                                   /\ Cardinality(T) = n /\ ~Least(T)}
<1>1. Bad = {}
  <2> SUFFICES ASSUME Bad # {} PROVE FALSE
    OBVIOUS
  <2>1. PICK n \in Bad : \A m \in Bad : n <= m
    BY LeastNumber
  <2>2. PICK T \in SUBSET Int : /\ IsFiniteSet(T) /\ T # {}
                                /\ Cardinality(T) = n /\ ~Least(T)
    BY <2>1
  <2>3. PICK x \in T : TRUE
    BY <2>2
  <2>4. /\ IsFiniteSet(T \ {x}) /\ Cardinality(T \ {x}) = n - 1
        /\ Cardinality(T \ {x}) \in Nat
    BY <2>2, <2>3, FS_RemoveElement, FS_CardinalityType
  <2>5. T \ {x} = {} \/ Least(T \ {x})
    <3>1. SUFFICES ASSUME T \ {x} # {}, ~Least(T \ {x}) PROVE FALSE
      OBVIOUS
    <3> HIDE DEF Least
    <3>2. n - 1 \in Nat /\ T \ {x} \in SUBSET Int
      BY <2>4
    <3>3. n - 1 \in Bad
      BY <2>4, <3>1, <3>2
    <3>4. n <= n - 1
      BY <2>1, <3>3
    <3> QED BY <2>1, <3>4
  <2>6. CASE T \ {x} = {}
    BY <2>2, <2>3, <2>6
  <2>7. CASE Least(T \ {x})
    <3>1. PICK z \in T \ {x} : \A y \in T \ {x} : z <= y
      BY <2>7
    <3>2. CASE x <= z
      BY <2>2, <2>3, <3>1, <3>2
    <3>3. CASE z < x
      BY <2>2, <2>3, <3>1, <3>3
    <3> QED BY <2>2, <3>1, <3>2, <3>3
  <2> QED BY <2>5, <2>6, <2>7
<1>2. Least(S)
  BY <1>1, FS_CardinalityType
<1>3. PICK x \in S : \A y \in S : x <= y
  BY <1>2
<1> QED BY <1>3 DEF Min

LEMMA FiniteHasMax ==
  ASSUME NEW S \in SUBSET Int, IsFiniteSet(S), S # {}
  PROVE  Max(S) \in S /\ \A y \in S : Max(S) >= y
<1> DEFINE Most(T) == \E x \in T : \A y \in T : x >= y
           Bad == {n \in Nat : \E T \in SUBSET Int : /\ IsFiniteSet(T) /\ T # {}
                                                   /\ Cardinality(T) = n /\ ~Most(T)}
<1>1. Bad = {}
  <2> SUFFICES ASSUME Bad # {} PROVE FALSE
    OBVIOUS
  <2>1. PICK n \in Bad : \A m \in Bad : n <= m
    BY LeastNumber
  <2>2. PICK T \in SUBSET Int : /\ IsFiniteSet(T) /\ T # {}
                                /\ Cardinality(T) = n /\ ~Most(T)
    BY <2>1
  <2>3. PICK x \in T : TRUE
    BY <2>2
  <2>4. /\ IsFiniteSet(T \ {x}) /\ Cardinality(T \ {x}) = n - 1
        /\ Cardinality(T \ {x}) \in Nat
    BY <2>2, <2>3, FS_RemoveElement, FS_CardinalityType
  <2>5. T \ {x} = {} \/ Most(T \ {x})
    <3>1. SUFFICES ASSUME T \ {x} # {}, ~Most(T \ {x}) PROVE FALSE
      OBVIOUS
    <3> HIDE DEF Most
    <3>2. n - 1 \in Nat /\ T \ {x} \in SUBSET Int
      BY <2>4
    <3>3. n - 1 \in Bad
      BY <2>4, <3>1, <3>2
    <3>4. n <= n - 1
      BY <2>1, <3>3
    <3> QED BY <2>1, <3>4
  <2>6. CASE T \ {x} = {}
    BY <2>2, <2>3, <2>6
  <2>7. CASE Most(T \ {x})
    <3>1. PICK z \in T \ {x} : \A y \in T \ {x} : z >= y
      BY <2>7
    <3>2. CASE x >= z
      BY <2>2, <2>3, <3>1, <3>2
    <3>3. CASE z > x
      BY <2>2, <2>3, <3>1, <3>3
    <3> QED BY <2>2, <3>1, <3>2, <3>3
  <2> QED BY <2>5, <2>6, <2>7
<1>2. Most(S)
  BY <1>1, FS_CardinalityType
<1>3. PICK x \in S : \A y \in S : x >= y
  BY <1>2
<1> QED BY <1>3 DEF Max

-----------------------------------------------------------------------------
(* The tables of the dictionaries and of the strategies.                   *)

AdminLabel == {"idle", "drop", "create", "look", "insert", "update", "fill",
               "look_rm", "delete", "drop_rm"}

\* The labels an operation has.
FitsJob(label, op) ==
  /\ label \in {"drop", "create", "fill"} => op = "add_dict_table"
  /\ label \in {"look", "insert", "update"} =>
       op \in {"add_dict_table", "op_dict_manager", "op_strategy_manager"}
  /\ label \in {"look_rm", "delete"} =>
       op \in {"rm_dict_table", "rm_dict_manager", "rm_strategy_manger"}
  /\ label = "drop_rm" => op = "rm_dict_table"

DictTypes ==
  /\ TypeOK
  /\ DOMAIN manager = Kind /\ \A k \in Kind : IsFiniteSet(DOMAIN manager[k])
  /\ \A d \in DOMAIN tables : IsFiniteSet(tables[d])
  /\ DOMAIN loaded = DOMAIN tables
  /\ \A a \in Admin : FitsJob(apc[a], job[a].op)

LEMMA JobIs ==
  ASSUME NEW j \in Jobs
  PROVE  /\ j.name \in Name
         /\ j.op \in {"add_dict_table", "rm_dict_table", "rm_dict_manager",
                      "rm_strategy_manger", "op_dict_manager", "op_strategy_manager"}
         /\ j.op = "add_dict_table" => j.book \in Books
         /\ j.op \in {"op_dict_manager", "op_strategy_manager"} => j.status \in Status
         /\ KindOf(j.op) \in Kind
  BY DEF Jobs, KindOf, Kind

\* Every step but the beginning of a job moves the admin to a label of the job.
LEMMA AdminMoves ==
  ASSUME DictTypes, NEW a \in Admin, Step(a), ~Begin(a)
  PROVE  /\ apc[a] # "idle" /\ job' = job
         /\ \E label \in AdminLabel : Goto(a, label) /\ FitsJob(label, job[a].op)
<1> USE DEF DictTypes, FitsJob, AdminLabel, Goto, Set
<1>0. apc[a] \in AdminLabel /\ apc \in [Admin -> AdminLabel]
  BY DEF TypeOK
<1>1. CASE DropTable(a) \/ CreateTable(a) \/ LookForRow(a) \/ DeleteRow(a)
  BY <1>1 DEF DropTable, CreateTable, LookForRow, DeleteRow, AfterDelete
<1>2. CASE InsertRow(a) \/ UpdateDictRows(a) \/ UpdateStrategyRow(a) \/ InsertWordsEnds(a)
  BY <1>2 DEF InsertRow, UpdateDictRows, UpdateStrategyRow, InsertWordsEnds, AfterRow
<1>3. CASE InsertWords(a)
  <2>1. apc' = apc /\ apc[a] = "fill" /\ job' = job
    BY <1>3 DEF InsertWords
  <2>2. apc' = [apc EXCEPT ![a] = "fill"]
    BY <1>0, <2>1
  <2> QED BY <2>1, <2>2
<1>4. CASE StatementFails(a) \/ Dies(a)
  <2>1. AfterFailure(a) \in AdminLabel /\ (apc[a] # "idle" => FitsJob(AfterFailure(a), job[a].op))
    BY DEF AfterFailure, AfterRow, AfterDelete
  <2> QED BY <1>4, <2>1 DEF StatementFails, Dies
<1> QED BY <1>1, <1>2, <1>3, <1>4 DEF Step

\* A step concerns what the admin has in hand, and no other admin.
LEMMA StepIsOfOneSubject ==
  ASSUME DictTypes, NEW a \in Admin, Step(a)
  PROVE  /\ apc' \in [Admin -> AdminLabel] /\ job' \in [Admin -> Jobs]
         /\ \A b \in Admin : FitsJob(apc'[b], job'[b].op)
         /\ \A b \in Admin \ {a} : apc'[b] = apc[b] /\ job'[b] = job[b]
         /\ torn \subseteq torn'
         /\ ~Begin(a) => apc[a] # "idle" /\ job' = job
         /\ Begin(a) => /\ apc[a] = "idle" /\ apc'[a] = FirstLabel(job'[a].op)
                        /\ InHand(Subject(job'[a])) => Subject(job'[a]) \in torn'
<1> USE DEF DictTypes
<1>1. CASE Begin(a)
  <2>1. PICK j \in Jobs :
          /\ job' = [job EXCEPT ![a] = j]
          /\ apc' = [apc EXCEPT ![a] = FirstLabel(j.op)]
          /\ torn' = IF InHand(Subject(j)) THEN torn \cup {Subject(j)} ELSE torn
    BY <1>1 DEF Begin, Set, Goto
  <2>2. FirstLabel(j.op) \in AdminLabel /\ FitsJob(FirstLabel(j.op), j.op)
    BY JobIs DEF FirstLabel, AdminLabel, FitsJob
  <2> QED BY <1>1, <2>1, <2>2 DEF Begin, TypeOK, AdminLabel
<1>2. CASE ~Begin(a)
  <2>1. torn \subseteq torn'
    BY <1>2 DEF Step, DropTable, CreateTable, LookForRow, InsertRow, UpdateDictRows,
       UpdateStrategyRow, DeleteRow, InsertWords, InsertWordsEnds, StatementFails, Dies, history
  <2> QED BY <1>2, <2>1, AdminMoves DEF TypeOK, AdminLabel, Goto, Set
<1> QED BY <1>1, <1>2

\* The rows of a manager's table, before and after an operation on one name.
IsRows(rows) ==
  DOMAIN rows \subseteq Nat /\ IsFiniteSet(DOMAIN rows) /\ Range(rows) \subseteq Row


LEMMA NewPlaceIsNew ==
  ASSUME NEW rows, IsRows(rows)
  PROVE  NewPlace(rows) \in Nat /\ NewPlace(rows) \notin DOMAIN rows
<1>1. /\ {0} \cup DOMAIN rows \in SUBSET Int /\ {0} \cup DOMAIN rows # {}
      /\ IsFiniteSet(DOMAIN rows \cup {0})
  BY FS_AddElement DEF IsRows
<1>2. DOMAIN rows \cup {0} = {0} \cup DOMAIN rows
  OBVIOUS
<1>3. /\ Max({0} \cup DOMAIN rows) \in {0} \cup DOMAIN rows
      /\ \A y \in {0} \cup DOMAIN rows : Max({0} \cup DOMAIN rows) >= y
  BY <1>1, <1>2, FiniteHasMax
<1>4. Max({0} \cup DOMAIN rows) \in Nat
  BY <1>3 DEF IsRows
<1> QED BY <1>3, <1>4 DEF NewPlace, IsRows

LEMMA RowAdded ==
  ASSUME NEW rows, IsRows(rows), NEW row \in Row,
         NEW new, new = Put(rows, NewPlace(rows), row)
  PROVE  /\ IsRows(new)
         /\ Named(new, row.name) = Named(rows, row.name) \cup {NewPlace(rows)}
         /\ new[NewPlace(rows)] = row
         /\ \A n \in Name \ {row.name} : Named(new, n) = Named(rows, n)
         /\ \A i \in DOMAIN rows : new[i] = rows[i]
<1> DEFINE place == NewPlace(rows)
<1>1. place \in Nat /\ place \notin DOMAIN rows
  BY NewPlaceIsNew
<1> HIDE DEF place
<1>2. /\ DOMAIN new = DOMAIN rows \cup {place}
      /\ new[place] = row /\ \A i \in DOMAIN rows : new[i] = rows[i]
  BY <1>1 DEF Put, place
<1>3. IsFiniteSet(DOMAIN new)
  BY <1>2, FS_AddElement DEF IsRows
<1>4. \A i \in DOMAIN new : new[i] \in Row
  BY <1>2 DEF IsRows, Range
<1>5. IsRows(new)
  BY <1>1, <1>2, <1>3, <1>4 DEF IsRows, Range
<1>6. \A n : Named(new, n) = IF n = row.name THEN Named(rows, n) \cup {place} ELSE Named(rows, n)
  BY <1>1, <1>2 DEF Named
<1> QED BY <1>2, <1>5, <1>6 DEF place

LEMMA RowsRenamed ==
  ASSUME NEW rows, IsRows(rows), NEW row \in Row, NEW new, new = [i \in DOMAIN rows |-> row]
  PROVE  /\ IsRows(new)
         /\ Named(new, row.name) = DOMAIN rows
         /\ \A n \in Name \ {row.name} : Named(new, n) = {}
  BY DEF IsRows, Range, Named

LEMMA RowsUpdated ==
  ASSUME NEW rows, IsRows(rows), NEW row \in Row,
         NEW new, new = [i \in DOMAIN rows |-> IF rows[i].name = row.name THEN row ELSE rows[i]]
  PROVE  /\ IsRows(new)
         /\ \A n \in Name : Named(new, n) = Named(rows, n)
         /\ \A i \in Named(rows, row.name) : new[i] = row
         /\ \A n \in Name \ {row.name} : \A i \in Named(rows, n) : new[i] = rows[i]
<1>1. \A i \in DOMAIN rows : rows[i] \in Row
  BY DEF IsRows, Range
<1> QED BY <1>1 DEF IsRows, Range, Named

LEMMA RowsDeleted ==
  ASSUME NEW rows, IsRows(rows), NEW name \in Name,
         NEW new, new = Restrict(rows, DOMAIN rows \ Named(rows, name))
  PROVE  /\ IsRows(new)
         /\ Named(new, name) = {}
         /\ \A n \in Name \ {name} : /\ Named(new, n) = Named(rows, n)
                                     /\ \A i \in Named(rows, n) : new[i] = rows[i]
<1>1. DOMAIN new \subseteq DOMAIN rows /\ \A i \in DOMAIN new : new[i] = rows[i]
  BY DEF Restrict
<1>2. IsFiniteSet(DOMAIN new)
  BY <1>1, FS_Subset DEF IsRows
<1>3. DOMAIN new = DOMAIN rows \ Named(rows, name)
  BY DEF Restrict
<1>4. IsRows(new)
  BY <1>1, <1>2 DEF IsRows, Range
<1> QED BY <1>1, <1>3, <1>4 DEF Named

-----------------------------------------------------------------------------
(* The entries of one insert statement.                                    *)

LEMMA FirstFreeNoIs ==
  ASSUME NEW entries \in SUBSET Entry, IsFiniteSet(entries)
  PROVE  FirstFreeNo(entries) \in Nat \ {0}
<1> DEFINE nos == {e.no : e \in entries}
           f == [e \in entries |-> e.no]
<1>1. f \in Surjection(entries, nos)
  BY DEF Surjection
<1>2. IsFiniteSet(nos) /\ nos \subseteq Nat
  BY <1>1, FS_Surjection DEF Entry
<1>3. IsFiniteSet(nos \cup {0}) /\ nos \cup {0} = {0} \cup nos
  BY <1>2, FS_AddElement
<1>4. {0} \cup nos \in SUBSET Int /\ {0} \cup nos # {}
  BY <1>2
<1>5. Max({0} \cup nos) \in {0} \cup nos
  BY <1>3, <1>4, FiniteHasMax
<1> QED BY <1>2, <1>5 DEF FirstFreeNo

LEMMA SequencesHaveAll ==
  ASSUME NEW S, IsFiniteSet(S), NEW ws \in SetToSeqs(S)
  PROVE  /\ DOMAIN ws = 1 .. Cardinality(S) /\ Cardinality(S) \in Nat
         /\ \A i, j \in DOMAIN ws : ws[i] = ws[j] => i = j
         /\ \A w \in S : \E i \in DOMAIN ws : ws[i] = w
         /\ \A i \in DOMAIN ws : ws[i] \in S
<1> DEFINE D == 1 .. Cardinality(S)
<1>1. Cardinality(S) \in Nat
  BY FS_CardinalityType
<1>2. ws \in [D -> S] /\ \A i, j \in D : i # j => ws[i] # ws[j]
  BY DEF SetToSeqs
<1>3. ws \in Injection(D, S)
  BY <1>2 DEF Injection, IsInjective
<1>4. IsFiniteSet(D) /\ Cardinality(D) = Cardinality(S)
  BY <1>1, FS_Interval
<1>5. ws \in Surjection(D, S)
  BY <1>3, <1>4, FS_Injection
<1> QED BY <1>1, <1>2, <1>5 DEF Surjection

LEMMA NewEntriesAre ==
  ASSUME NEW entries \in SUBSET Entry, IsFiniteSet(entries), NEW book \in Books,
         NEW S \in SUBSET DOMAIN book, NEW ws \in SetToSeqs(S),
         NEW new, new = NewEntries(book, ws, entries)
  PROVE  /\ new \subseteq Entry /\ IsFiniteSet(new)
         /\ {e.word : e \in new} = S
         /\ \A e, f \in new : e.word = f.word => e = f
         /\ \A e \in new : book[e.word] \in {0, e.no}
<1> DEFINE No(i) == IF book[ws[i]] = 0 THEN FirstFreeNo(entries) + i - 1 ELSE book[ws[i]]
           entry == [i \in DOMAIN ws |-> [no |-> No(i), word |-> ws[i]]]
<1>1. IsFiniteSet(S) /\ DOMAIN book \subseteq Word /\ \A w \in DOMAIN book : book[w] \in Nat
  BY DictAssumption, FS_Subset DEF Range
<1>2. /\ DOMAIN ws = 1 .. Cardinality(S) /\ Cardinality(S) \in Nat
      /\ \A i, j \in DOMAIN ws : ws[i] = ws[j] => i = j
      /\ \A w \in S : \E i \in DOMAIN ws : ws[i] = w
      /\ \A i \in DOMAIN ws : ws[i] \in S
  BY <1>1, SequencesHaveAll
<1>3. FirstFreeNo(entries) \in Nat \ {0}
  BY FirstFreeNoIs
<1>4. new = {entry[i] : i \in DOMAIN ws}
  BY DEF NewEntries
<1>5. \A i \in DOMAIN ws : No(i) \in Nat \ {0} /\ book[ws[i]] \in {0, No(i)}
  BY <1>1, <1>2, <1>3
<1>6. IsFiniteSet(new)
  <2>1. entry \in Surjection(DOMAIN ws, new)
    BY <1>4 DEF Surjection
  <2>2. IsFiniteSet(DOMAIN ws)
    BY <1>2, FS_Interval
  <2> QED BY <2>1, <2>2, FS_Surjection
<1>7. \A i \in DOMAIN ws : entry[i].no = No(i) /\ entry[i].word = ws[i] /\ entry[i] \in Entry
  BY <1>1, <1>2, <1>5 DEF Entry
<1> HIDE DEF entry, No
<1> QED BY <1>2, <1>4, <1>5, <1>6, <1>7

\* Words that are left go into some statement.
LEMMA BatchesAreLeft ==
  ASSUME NEW words, IsFiniteSet(words), Batches(words) \subseteq {{}}
  PROVE  words = {}
<1> SUFFICES ASSUME words # {} PROVE FALSE
  OBVIOUS
<1> DEFINE Large == {n \in Nat : n >= Batch /\ \E S \in SUBSET words : Cardinality(S) = n}
<1>1. Cardinality(words) \in Nat /\ Cardinality(words) >= Batch /\ Batch \in Nat \ {0}
  BY FS_CardinalityType, DictAssumption DEF Batches
<1>2. PICK n \in Large : \A m \in Large : n <= m
  BY <1>1, LeastNumber
<1>3. PICK S \in SUBSET words : Cardinality(S) = n
  BY <1>2
<1>4. IsFiniteSet(S) /\ n >= Batch /\ n \in Nat
  BY <1>2, <1>3, FS_Subset
<1>5. S # {}
  BY <1>1, <1>3, <1>4, FS_EmptySet
<1>6. PICK x \in S : TRUE
  BY <1>5
<1>7. Cardinality(S \ {x}) = n - 1
  BY <1>3, <1>4, FS_RemoveElement
<1>8. n - 1 \notin Large
  BY <1>1, <1>2, <1>4
<1>9. n = Batch
  BY <1>1, <1>4, <1>7, <1>8
<1> QED BY <1>3, <1>5, <1>9 DEF Batches

-----------------------------------------------------------------------------
(* Types.                                                                  *)

LEMMA BusyAdminIs ==
  ASSUME DictTypes, NEW a \in Admin
  PROVE  /\ job[a] \in Jobs /\ NameOf(a) \in Name
         /\ KindOf(job[a].op) \in Kind /\ IsRows(RowsOf(a))
         /\ job[a].op = "add_dict_table" => job[a].book \in Books
         /\ apc[a] \in {"insert", "update"} => NewRow(a) \in Row /\ NewRow(a).name = NameOf(a)
<1>1. job[a] \in Jobs
  BY DEF DictTypes, TypeOK
<1>2. \A k \in Kind : IsRows(manager[k])
  BY DEF DictTypes, TypeOK, IsRows
<1>3. apc[a] \in {"insert", "update"} => NewRow(a) \in Row /\ NewRow(a).name = NameOf(a)
  <2>1. apc[a] \in {"insert", "update"} =>
          job[a].op \in {"add_dict_table", "op_dict_manager", "op_strategy_manager"}
    BY DEF DictTypes, FitsJob
  <2> QED BY <1>1, <2>1, JobIs DEF NewRow, Row, NameOf
<1> QED BY <1>1, <1>2, <1>3, JobIs DEF NameOf, RowsOf

LEMMA RowsStayRows ==
  ASSUME DictTypes, NEW a \in Admin, Step(a)
  PROVE  DOMAIN manager' = Kind /\ \A k \in Kind : IsRows(manager'[k])
<1> DEFINE kind == KindOf(job[a].op)
<1>1. DOMAIN manager = Kind /\ \A k \in Kind : IsRows(manager[k])
  BY DEF DictTypes, TypeOK, IsRows
<1>2. kind \in Kind /\ RowsOf(a) = manager[kind] /\ IsRows(RowsOf(a)) /\ NameOf(a) \in Name
  BY BusyAdminIs DEF RowsOf
<1>3. CASE manager' = manager
  BY <1>1, <1>3
<1>4. CASE \E rows : IsRows(rows) /\ manager' = [manager EXCEPT ![kind] = rows]
  BY <1>1, <1>2, <1>4
<1>5. CASE InsertRow(a)
  <2>1. NewRow(a) \in Row
    BY <1>5, BusyAdminIs DEF InsertRow
  <2>2. IsRows(Put(RowsOf(a), NewPlace(RowsOf(a)), NewRow(a)))
    BY <1>2, <2>1, RowAdded
  <2> QED BY <1>4, <1>5, <2>2 DEF InsertRow, Set
<1>6. CASE UpdateDictRows(a)
  <2>1. NewRow(a) \in Row
    BY <1>6, BusyAdminIs DEF UpdateDictRows
  <2>2. IsRows([i \in DOMAIN RowsOf(a) |-> NewRow(a)])
    BY <1>2, <2>1, RowsRenamed
  <2> QED BY <1>4, <1>6, <2>2 DEF UpdateDictRows, Set
<1>7. CASE UpdateStrategyRow(a)
  <2>1. NewRow(a) \in Row /\ NewRow(a).name = NameOf(a)
    BY <1>7, BusyAdminIs DEF UpdateStrategyRow
  <2>2. IsRows([i \in DOMAIN RowsOf(a) |->
                  IF RowsOf(a)[i].name = NameOf(a) THEN NewRow(a) ELSE RowsOf(a)[i]])
    BY <1>2, <2>1, RowsUpdated
  <2> QED BY <1>4, <1>7, <2>2 DEF UpdateStrategyRow, Set
<1>8. CASE DeleteRow(a)
  <2>1. IsRows(Restrict(RowsOf(a), DOMAIN RowsOf(a) \ Named(RowsOf(a), NameOf(a))))
    BY <1>2, RowsDeleted
  <2> QED BY <1>4, <1>8, <2>1 DEF DeleteRow, Set
<1> QED BY <1>3, <1>5, <1>6, <1>7, <1>8 DEF Step, Begin, DropTable, CreateTable, LookForRow,
  InsertWords, InsertWordsEnds, StatementFails, Dies

\* The words of the job that no statement has had; other admins' stay.
WordsInHand(a) ==
  apc[a] # "idle" /\ job[a].op = "add_dict_table" =>
    /\ unsent[a] \subseteq DOMAIN job[a].book
    /\ apc[a] # "fill" => unsent[a] = DOMAIN job[a].book

LEMMA WordsStayInHand ==
  ASSUME DictTypes, \A b \in Admin : WordsInHand(b), NEW a \in Admin, Step(a)
  PROVE  /\ unsent' \in [Admin -> SUBSET Word]
         /\ \A b \in Admin \ {a} : unsent'[b] = unsent[b]
         /\ \A b \in Admin : WordsInHand(b)'
<1> USE DEF DictTypes, TypeOK
<1>1. CASE Begin(a)
  <2>1. PICK j \in Jobs :
          /\ job' = [job EXCEPT ![a] = j]
          /\ unsent' = [unsent EXCEPT ![a] = IF j.op = "add_dict_table" THEN DOMAIN j.book ELSE {}]
          /\ apc' = [apc EXCEPT ![a] = FirstLabel(j.op)]
    BY <1>1 DEF Begin, Set, Goto
  <2>2. j.op = "add_dict_table" => DOMAIN j.book \subseteq Word
    BY JobIs, DictAssumption
  <2> QED BY <2>1, <2>2 DEF WordsInHand
<1>2. CASE InsertWords(a)
  <2>1. PICK S : unsent' = [unsent EXCEPT ![a] = unsent[a] \ S]
    BY <1>2 DEF InsertWords, Set
  <2> QED BY <1>2, <2>1 DEF InsertWords, WordsInHand
<1>3. CASE ~Begin(a) /\ ~InsertWords(a)
  <2>1. unsent' = unsent
    BY <1>3 DEF Step, DropTable, CreateTable, LookForRow, InsertRow, UpdateDictRows,
       UpdateStrategyRow, DeleteRow, InsertWordsEnds, StatementFails, Dies, history
  <2>2. /\ apc[a] # "idle" /\ job' = job
        /\ \E label \in AdminLabel : Goto(a, label)
    BY <1>3, AdminMoves
  <2>3. apc[a] = "fill" => apc'[a] \in {"fill", "idle"}
    BY <1>3 DEF Step, DropTable, CreateTable, LookForRow, InsertRow, UpdateDictRows,
       UpdateStrategyRow, DeleteRow, InsertWordsEnds, StatementFails, Dies, Goto, Set,
       AfterFailure
  <2> QED BY <2>1, <2>2, <2>3 DEF WordsInHand, Goto, Set
<1> QED BY <1>1, <1>2, <1>3

\* The tables: what one has of a dictionary, a step of another admin leaves.
LEMMA TablesMove ==
  ASSUME DictTypes, \A b \in Admin : WordsInHand(b), NEW a \in Admin, Step(a)
  PROVE  /\ DOMAIN tables' \subseteq Name /\ DOMAIN loaded' = DOMAIN tables'
         /\ \A d \in DOMAIN tables' : tables'[d] \subseteq Entry /\ IsFiniteSet(tables'[d])
         /\ \A d \in Name : Subject(job[a]) # <<"dict", d>> \/ apc[a] = "idle" =>
              /\ d \in DOMAIN tables <=> d \in DOMAIN tables'
              /\ d \in DOMAIN tables => tables'[d] = tables[d] /\ loaded'[d] = loaded[d]
<1> USE DEF DictTypes, TypeOK
<1> DEFINE n == NameOf(a)
<1>1. CASE DropTable(a)
  <2>1. Subject(job[a]) = <<"dict", n>>
    BY <1>1 DEF DropTable, FitsJob, Subject, KindOf, NameOf
  <2>2. tables' = Without(tables, n) /\ loaded' = Without(loaded, n)
    BY <1>1 DEF DropTable
  <2> QED BY <1>1, <2>1, <2>2 DEF Without, Restrict, DropTable
<1>2. CASE CreateTable(a)
  <2>1. Subject(job[a]) = <<"dict", n>> /\ n \in Name
    BY <1>2, BusyAdminIs DEF CreateTable, FitsJob, Subject, KindOf, NameOf
  <2>2. tables' = Put(tables, n, {}) /\ loaded' = Put(loaded, n, job[a].book)
    BY <1>2 DEF CreateTable
  <2> QED BY <1>2, <2>1, <2>2, FS_EmptySet DEF Put, CreateTable
<1>3. CASE InsertWords(a)
  <2>1. Subject(job[a]) = <<"dict", n>> /\ n \in Name /\ job[a].book \in Books
    BY <1>3, BusyAdminIs DEF InsertWords, FitsJob, Subject, KindOf, NameOf
  <2>2. PICK S \in Batches(unsent[a]) : \E ws \in SetToSeqs(S) :
          tables' = Put(tables, n, tables[n] \cup NewEntries(job[a].book, ws, tables[n]))
    BY <1>3 DEF InsertWords
  <2>3. PICK ws \in SetToSeqs(S) :
          tables' = Put(tables, n, tables[n] \cup NewEntries(job[a].book, ws, tables[n]))
    BY <2>2
  <2>4. S \subseteq DOMAIN job[a].book
    BY <1>3, <2>2 DEF InsertWords, Batches, WordsInHand, FitsJob
  <2>5. n \in DOMAIN tables /\ loaded' = loaded /\ tables[n] \subseteq Entry
        /\ IsFiniteSet(tables[n])
    BY <1>3 DEF InsertWords, history
  <2> DEFINE new == NewEntries(job[a].book, ws, tables[n])
  <2>6. new \subseteq Entry /\ IsFiniteSet(new)
    BY <2>1, <2>3, <2>4, <2>5, NewEntriesAre
  <2>7. IsFiniteSet(tables[n] \cup new)
    BY <2>5, <2>6, FS_Union
  <2> HIDE DEF new
  <2>8. tables' = Put(tables, n, tables[n] \cup new)
    BY <2>3 DEF new
  <2> QED BY <1>3, <2>1, <2>5, <2>6, <2>7, <2>8 DEF Put, InsertWords
<1>4. CASE UNCHANGED <<tables, loaded>>
  BY <1>4
<1> QED BY <1>1, <1>2, <1>3, <1>4 DEF Step, Begin, LookForRow, InsertRow, UpdateDictRows,
  UpdateStrategyRow, DeleteRow, InsertWordsEnds, StatementFails, Dies, history

LEMMA DictTypesStay ==
  ASSUME DictTypes, \A b \in Admin : WordsInHand(b), NEW a \in Admin, Step(a)
  PROVE  DictTypes' /\ \A b \in Admin : WordsInHand(b)'
<1>1. jobs' \in 0 .. MaxJobs
  BY DictAssumption DEF DictTypes, TypeOK, Step, Begin, DropTable, CreateTable, LookForRow,
     InsertRow, UpdateDictRows, UpdateStrategyRow, DeleteRow, InsertWords, InsertWordsEnds,
     StatementFails, Dies
<1>2. TypeOK'
  BY <1>1, StepIsOfOneSubject, RowsStayRows, WordsStayInHand, TablesMove
     DEF TypeOK, AdminLabel, IsRows
<1> QED BY <1>2, StepIsOfOneSubject, RowsStayRows, WordsStayInHand, TablesMove
     DEF DictTypes, IsRows

-----------------------------------------------------------------------------
(* What an admin may rely on: as long as no two of them have one thing in  *)
(* hand and none leaves it halfway, the others let it alone.               *)

Busy(a, s) == apc[a] # "idle" /\ Subject(job[a]) = s

OneAdmin ==
  \A a, b \in Admin :
    a # b /\ apc[b] # "idle" /\ Busy(a, Subject(job[b])) => Subject(job[b]) \in torn

Registered(d) == HasRow(manager["dict"], d) \/ d \in unlisted

\* The table of d has the book loaded into it but for the missing words.
Whole(d, missing) ==
  /\ {e.word : e \in tables[d]} = DOMAIN loaded[d] \ missing
  /\ \A e, f \in tables[d] : e.word = f.word \/ e.no = f.no => e = f
  /\ \A e \in tables[d] : loaded[d][e.word] \in {0, e.no}

InOrder(d) ==
  /\ HasRow(manager["dict"], d) => d \in DOMAIN tables
  /\ d \in DOMAIN tables => Registered(d) /\ Whole(d, {})

Loading(a, d) ==
  /\ d \in DOMAIN tables
  /\ loaded[d] = job[a].book /\ Whole(d, unsent[a])
  /\ apc[a] \in {"update", "fill"} => Registered(d)

KnowsDict(a, d) ==
  /\ apc[a] = "create" => d \notin DOMAIN tables
  /\ apc[a] = "drop_rm" => ~HasRow(manager["dict"], d)
  /\ apc[a] \in {"look", "insert", "update", "fill"} /\ job[a].op = "add_dict_table" =>
       Loading(a, d)
  /\ apc[a] \in {"look", "insert", "update"} /\ job[a].op # "add_dict_table" =>
       InOrder(d) /\ (apc[a] = "update" => d \in DOMAIN tables)
  /\ apc[a] \in {"drop", "look_rm", "delete"} => InOrder(d)

DictHolds(d) ==
  <<"dict", d>> \notin torn =>
    /\ ~InHand(<<"dict", d>>) => InOrder(d)
    /\ \A a \in Admin : Busy(a, <<"dict", d>>) => KnowsDict(a, d)

OneRow(s) ==
  LET rows == manager["strategy"]
  IN  /\ Cardinality(Named(rows, s)) = IF s \in DOMAIN noted THEN 1 ELSE 0
      /\ \A i \in Named(rows, s) : rows[i].status = noted[s]

KnowsStrategy(a, s) ==
  /\ apc[a] = "insert" => ~HasRow(manager["strategy"], s)
  /\ apc[a] = "update" => HasRow(manager["strategy"], s)

StrategyHolds(s) ==
  <<"strategy", s>> \notin torn =>
    /\ OneRow(s)
    /\ \A a \in Admin : Busy(a, <<"strategy", s>>) => KnowsStrategy(a, s)

DictInv ==
  /\ DictTypes
  /\ \A a \in Admin : WordsInHand(a)
  /\ OneAdmin
  /\ \A d \in Name : DictHolds(d) /\ StrategyHolds(d)

LEMMA OneAdminStays ==
  ASSUME DictTypes, OneAdmin, NEW a \in Admin, Step(a)
  PROVE  OneAdmin'
  BY StepIsOfOneSubject DEF OneAdmin, Busy, InHand

\* An operation on something else leaves the row of d, or gives it another
\* name and notes it.
LEMMA OtherRowsStay ==
  ASSUME DictTypes, NEW a \in Admin, Step(a), NEW n \in Name
  PROVE  /\ ~Busy(a, <<"dict", n>>) =>
              /\ HasRow(manager'["dict"], n) => HasRow(manager["dict"], n)
              /\ Registered(n) => Registered(n)'
         /\ ~Busy(a, <<"strategy", n>>) =>
              /\ Named(manager'["strategy"], n) = Named(manager["strategy"], n)
              /\ \A i \in Named(manager["strategy"], n) :
                   manager'["strategy"][i] = manager["strategy"][i]
              /\ n \in DOMAIN noted <=> n \in DOMAIN noted'
              /\ n \in DOMAIN noted => noted'[n] = noted[n]
<1> DEFINE kind == KindOf(job[a].op)
           rows == RowsOf(a)
<1>1. DOMAIN manager = Kind /\ kind \in Kind /\ rows = manager[kind] /\ IsRows(rows)
      /\ NameOf(a) \in Name
  BY BusyAdminIs DEF RowsOf, DictTypes
<1>2. Subject(job[a]) = <<kind, NameOf(a)>>
  BY DEF Subject, NameOf
<1>3. "dict" \in Kind /\ "strategy" \in Kind /\ Kind = {"dict", "strategy"}
  BY DEF Kind
<1>4. CASE InsertRow(a)
  <2>1. NewRow(a) \in Row /\ NewRow(a).name = NameOf(a)
    BY <1>4, BusyAdminIs DEF InsertRow
  <2>2. PICK new : new = Put(rows, NewPlace(rows), NewRow(a))
    OBVIOUS
  <2>3. /\ \A m \in Name \ {NameOf(a)} : Named(new, m) = Named(rows, m)
        /\ \A i \in DOMAIN rows : new[i] = rows[i]
    BY <1>1, <2>1, <2>2, RowAdded
  <2>4. manager' = [manager EXCEPT ![kind] = new] /\ apc[a] # "idle"
    BY <1>4, <2>2 DEF InsertRow, Set
  <2>5. IF kind = "dict" THEN unlisted' = unlisted \ {NameOf(a)} /\ noted' = noted
        ELSE noted' = Put(noted, NameOf(a), NewRow(a).status) /\ unlisted' = unlisted
    BY <1>4 DEF InsertRow
  <2> HIDE DEF kind, rows
  <2> QED BY <1>1, <1>2, <1>3, <2>3, <2>4, <2>5 DEF Busy, Registered, HasRow, Put, Named
<1>5. CASE UpdateDictRows(a)
  <2>1. NewRow(a) \in Row /\ NewRow(a).name = NameOf(a) /\ kind = "dict" /\ apc[a] # "idle"
    BY <1>5, BusyAdminIs DEF UpdateDictRows
  <2>2. PICK new : new = [i \in DOMAIN rows |-> NewRow(a)]
    OBVIOUS
  <2>3. \A m \in Name \ {NameOf(a)} : Named(new, m) = {}
    BY <1>1, <2>1, <2>2, RowsRenamed
  <2>4. manager' = [manager EXCEPT !["dict"] = new] /\ noted' = noted
    BY <1>5, <2>2 DEF UpdateDictRows, Set
  <2>5. \A m \in Name \ {NameOf(a)} :
          HasRow(rows, m) \/ m \in unlisted => m \in unlisted'
    <3>1. \A m : HasRow(rows, m) => m \in {row.name : row \in Range(rows)}
      BY DEF HasRow, Named, Range
    <3>2. LET named == {row.name : row \in Range(rows)}
          IN  unlisted' = IF named = {} THEN unlisted ELSE (unlisted \cup named) \ {NameOf(a)}
      BY <1>5 DEF UpdateDictRows
    <3> QED BY <3>1, <3>2
  <2> HIDE DEF kind, rows
  <2> QED BY <1>1, <1>2, <1>3, <2>1, <2>3, <2>4, <2>5 DEF Busy, Registered, HasRow
<1>6. CASE UpdateStrategyRow(a)
  <2>1. NewRow(a) \in Row /\ NewRow(a).name = NameOf(a) /\ kind = "strategy" /\ apc[a] # "idle"
    BY <1>6, BusyAdminIs DEF UpdateStrategyRow
  <2>2. PICK new : new = [i \in DOMAIN rows |->
                            IF rows[i].name = NewRow(a).name THEN NewRow(a) ELSE rows[i]]
    OBVIOUS
  <2>3. /\ \A m \in Name : Named(new, m) = Named(rows, m)
        /\ \A m \in Name \ {NameOf(a)} : \A i \in Named(rows, m) : new[i] = rows[i]
    BY <1>1, <2>1, <2>2, RowsUpdated
  <2>4. /\ manager' = [manager EXCEPT !["strategy"] = new] /\ unlisted' = unlisted
        /\ noted' = Put(noted, NameOf(a), NewRow(a).status)
    BY <1>6, <2>1, <2>2 DEF UpdateStrategyRow, Set
  <2> HIDE DEF kind, rows
  <2> QED BY <1>1, <1>2, <1>3, <2>1, <2>3, <2>4 DEF Busy, Registered, HasRow, Put
<1>7. CASE DeleteRow(a)
  <2>1. PICK new : new = Restrict(rows, DOMAIN rows \ Named(rows, NameOf(a)))
    OBVIOUS
  <2>2. /\ Named(new, NameOf(a)) = {}
        /\ \A m \in Name \ {NameOf(a)} : /\ Named(new, m) = Named(rows, m)
                                         /\ \A i \in Named(rows, m) : new[i] = rows[i]
    <3>1. PICK n1 \in Name : n1 = NameOf(a)
      BY <1>1
    <3>2. PICK r1 : r1 = rows
      OBVIOUS
    <3>3. IsRows(r1) /\ new = Restrict(r1, DOMAIN r1 \ Named(r1, n1))
      BY <1>1, <2>1, <3>1, <3>2
    <3>4. /\ Named(new, n1) = {}
          /\ \A m \in Name \ {n1} : /\ Named(new, m) = Named(r1, m)
                                    /\ \A i \in Named(r1, m) : new[i] = r1[i]
      BY <3>3, RowsDeleted
    <3> QED BY <3>1, <3>2, <3>4
  <2>3. /\ manager' = [manager EXCEPT ![kind] = new] /\ apc[a] # "idle"
        /\ unlisted \subseteq unlisted'
        /\ noted' = IF kind = "dict" THEN noted ELSE Without(noted, NameOf(a))
    BY <1>7, <2>1 DEF DeleteRow, Set
  <2> HIDE DEF kind, rows
  <2> QED BY <1>1, <1>2, <1>3, <2>2, <2>3 DEF Busy, Registered, HasRow, Without, Restrict
<1>8. CASE UNCHANGED <<manager, unlisted, noted>>
  BY <1>8 DEF Registered
<1> QED BY <1>4, <1>5, <1>6, <1>7, <1>8 DEF Step, Begin, DropTable, CreateTable, LookForRow,
  InsertWords, InsertWordsEnds, StatementFails, Dies, history

LEMMA BusyIsOne ==
  ASSUME OneAdmin, NEW s, s \notin torn, NEW a \in Admin, NEW b \in Admin, Busy(a, s), Busy(b, s)
  PROVE  a = b
  BY DEF OneAdmin, Busy

\* What is known of d stays true when another admin does something else.
LEMMA DictStaysKnown ==
  ASSUME DictTypes, \A b \in Admin : WordsInHand(b), NEW a \in Admin, Step(a),
         NEW d \in Name, ~Busy(a, <<"dict", d>>)
  PROVE  /\ InOrder(d) => InOrder(d)'
         /\ \A b \in Admin \ {a} : KnowsDict(b, d) => KnowsDict(b, d)'
<1>1. /\ d \in DOMAIN tables <=> d \in DOMAIN tables'
      /\ d \in DOMAIN tables => tables'[d] = tables[d] /\ loaded'[d] = loaded[d]
  BY TablesMove DEF Busy
<1>2. /\ HasRow(manager["dict"], d)' => HasRow(manager["dict"], d)
      /\ Registered(d) => Registered(d)'
  BY OtherRowsStay
<1>3. \A missing : d \in DOMAIN tables /\ Whole(d, missing) => Whole(d, missing)'
  BY <1>1 DEF Whole
<1>4. InOrder(d) => InOrder(d)'
  BY <1>1, <1>2, <1>3 DEF InOrder
<1>5. \A b \in Admin \ {a} : apc'[b] = apc[b] /\ job'[b] = job[b] /\ unsent'[b] = unsent[b]
  BY StepIsOfOneSubject, WordsStayInHand
<1>6. \A b \in Admin \ {a} : Loading(b, d) => Loading(b, d)'
  BY <1>1, <1>2, <1>3, <1>5 DEF Loading
<1> QED BY <1>1, <1>2, <1>4, <1>5, <1>6 DEF KnowsDict

\* The steps of the only admin that has d in hand.
LEMMA DictStepsKnow ==
  ASSUME DictTypes, \A b \in Admin : WordsInHand(b), OneAdmin, NEW a \in Admin, Step(a), ~Begin(a),
         NEW d \in Name, Busy(a, <<"dict", d>>), <<"dict", d>> \notin torn', KnowsDict(a, d)
  PROVE  IF apc'[a] = "idle" THEN InOrder(d)' ELSE KnowsDict(a, d)'
<1> DEFINE label == apc[a]
           op == job[a].op
           rows == manager["dict"]
<1>1. /\ NameOf(a) = d /\ KindOf(op) = "dict" /\ RowsOf(a) = rows /\ IsRows(rows)
      /\ op # "op_strategy_manager" /\ op # "rm_strategy_manger"
      /\ Subject(job[a]) = <<"dict", d>> /\ job[a] \in Jobs
      /\ op = "add_dict_table" => job[a].book \in Books
  BY BusyAdminIs DEF Busy, Subject, NameOf, KindOf, RowsOf
<1>2. FitsJob(label, op) /\ label \in AdminLabel /\ label # "idle" /\ job' = job
  BY AdminMoves DEF DictTypes, TypeOK, AdminLabel, Busy
<1>3. /\ WordsInHand(a) /\ DOMAIN manager = Kind /\ "dict" \in Kind /\ apc \in [Admin -> AdminLabel]
      /\ DOMAIN loaded = DOMAIN tables
  BY DEF DictTypes, TypeOK, Kind, AdminLabel
<1>4. CASE DropTable(a)
  <2>1. d \notin DOMAIN tables'
    BY <1>1, <1>4 DEF DropTable, Without, Restrict
  <2>2. manager' = manager /\ apc' = [apc EXCEPT ![a] = IF label = "drop" THEN "create" ELSE "idle"]
        /\ label \in {"drop", "drop_rm"}
    BY <1>4 DEF DropTable, Goto, Set
  <2> QED BY <1>3, <2>1, <2>2 DEF KnowsDict, InOrder
<1>5. CASE CreateTable(a)
  <2>1. /\ apc' = [apc EXCEPT ![a] = "look"] /\ unsent' = unsent
        /\ tables' = Put(tables, d, {}) /\ loaded' = Put(loaded, d, job[a].book)
        /\ label = "create" /\ op = "add_dict_table"
    BY <1>1, <1>2, <1>5 DEF CreateTable, Goto, Set, FitsJob
  <2>2. /\ d \in DOMAIN tables' /\ tables'[d] = {} /\ loaded'[d] = job[a].book
        /\ apc'[a] = "look" /\ unsent[a] = DOMAIN job[a].book
    BY <1>3, <2>1 DEF Put, WordsInHand
  <2>3. Whole(d, unsent[a])'
    BY <2>1, <2>2 DEF Whole
  <2> QED BY <1>2, <2>1, <2>2, <2>3 DEF KnowsDict, Loading
<1>6. CASE LookForRow(a)
  <2> DEFINE there == HasRow(rows, d)
  <2>1. /\ label \in {"look", "look_rm"}
        /\ UNCHANGED <<tables, loaded, manager, unlisted, unsent>>
        /\ apc' = [apc EXCEPT ![a] =
             IF label = "look" THEN (IF there THEN "update" ELSE "insert")
             ELSE IF there THEN "delete" ELSE AfterDelete(a)]
    BY <1>1, <1>6 DEF LookForRow, Goto, Set, history
  <2>2. /\ InOrder(d) => InOrder(d)'
        /\ there => Registered(d)'
        /\ HasRow(manager["dict"], d)' <=> there
        /\ (d \in DOMAIN tables)' <=> d \in DOMAIN tables
    BY <2>1 DEF InOrder, Registered, Whole
  <2>3. CASE label = "look_rm"
    <3>1. op \in {"rm_dict_table", "rm_dict_manager"}
      BY <1>1, <1>2, <2>3 DEF FitsJob, KindOf
    <3>2. apc'[a] = IF there THEN "delete"
                    ELSE IF op = "rm_dict_table" THEN "drop_rm" ELSE "idle"
      BY <1>3, <2>1, <2>3, <3>1 DEF AfterDelete
    <3>3. InOrder(d)'
      BY <2>2, <2>3 DEF KnowsDict
    <3> QED BY <1>2, <2>2, <3>1, <3>2, <3>3 DEF KnowsDict
  <2>4. CASE label = "look"
    <3>1. apc'[a] = IF there THEN "update" ELSE "insert"
      BY <1>3, <2>1, <2>4
    <3>2. CASE op = "add_dict_table"
      <4>1. d \in DOMAIN tables /\ loaded[d] = job[a].book /\ Whole(d, unsent[a])
        BY <2>4, <3>2 DEF KnowsDict, Loading
      <4>2. Loading(a, d)'
        <5>1. Whole(d, unsent[a])'
          BY <2>1, <4>1 DEF Whole
        <5> QED BY <1>2, <2>1, <2>2, <3>1, <4>1, <5>1 DEF Loading
      <4> QED BY <1>2, <3>1, <3>2, <4>2 DEF KnowsDict
    <3>3. CASE op # "add_dict_table"
      <4>1. InOrder(d)
        BY <2>4, <3>3 DEF KnowsDict
      <4>2. there => d \in DOMAIN tables
        BY <4>1 DEF InOrder
      <4> QED BY <1>2, <2>2, <3>1, <3>3, <4>1, <4>2 DEF KnowsDict
    <3> QED BY <3>2, <3>3
  <2> QED BY <2>1, <2>3, <2>4
<1>7. CASE InsertRow(a)
  <2>1. NewRow(a) \in Row /\ NewRow(a).name = d /\ label = "insert"
    BY <1>1, <1>7, BusyAdminIs DEF InsertRow
  <2>2. PICK new : new = Put(rows, NewPlace(rows), NewRow(a))
    OBVIOUS
  <2>3. Named(new, d) # {}
    <3> HIDE DEF rows
    <3> DEFINE row == NewRow(a)
    <3>0. IsRows(rows) /\ row \in Row
      BY <1>1, <2>1
    <3>1. row.name = d
      BY <2>1
    <3>2. new = Put(rows, NewPlace(rows), row)
      BY <2>2
    <3> HIDE DEF row
    <3>3. Named(new, row.name) = Named(rows, row.name) \cup {NewPlace(rows)}
      BY <3>0, <3>2, RowAdded
    <3> QED BY <3>1, <3>3
  <2>4. /\ manager' = [manager EXCEPT !["dict"] = new]
        /\ apc' = [apc EXCEPT ![a] = AfterRow(a)]
        /\ UNCHANGED <<tables, loaded, unsent>>
        /\ op = "op_dict_manager" => d \in DOMAIN tables
    BY <1>1, <1>7, <2>2 DEF InsertRow, Set, Goto
  <2>5. HasRow(manager'["dict"], d) /\ Registered(d)'
    BY <1>3, <2>3, <2>4 DEF HasRow, Registered
  <2> QED BY <1>1, <1>2, <1>3, <2>1, <2>4, <2>5
      DEF AfterRow, KnowsDict, Loading, InOrder, FitsJob, Whole
<1>8. CASE UpdateDictRows(a)
  <2>1. NewRow(a) \in Row /\ NewRow(a).name = d /\ label = "update"
    BY <1>1, <1>8, BusyAdminIs DEF UpdateDictRows
  <2>2. PICK new : new = [i \in DOMAIN rows |-> NewRow(a)]
    OBVIOUS
  <2>3. Named(new, d) = DOMAIN rows
    BY <1>1, <2>1, <2>2, RowsRenamed
  <2>4. /\ manager' = [manager EXCEPT !["dict"] = new]
        /\ apc' = [apc EXCEPT ![a] = AfterRow(a)]
        /\ UNCHANGED <<tables, loaded, unsent>>
    BY <1>1, <1>8, <2>2 DEF UpdateDictRows, Set, Goto
  <2>5. DOMAIN rows = {} => unlisted' = unlisted
    <3>1. DOMAIN rows = {} => {row.name : row \in Range(rows)} = {}
      BY DEF Range
    <3> QED BY <1>1, <1>8, <3>1 DEF UpdateDictRows
  <2>6. d \in DOMAIN tables /\ Registered(d)
    BY <1>1, <1>2, <2>1 DEF KnowsDict, Loading, InOrder, FitsJob
  <2>7. Registered(d)'
    BY <1>3, <2>3, <2>4, <2>5, <2>6 DEF HasRow, Registered, Named
  <2> QED BY <1>1, <1>2, <1>3, <2>1, <2>4, <2>6, <2>7
      DEF AfterRow, KnowsDict, Loading, InOrder, FitsJob, Whole
<1>9. CASE DeleteRow(a)
  <2>1. label = "delete" /\ op \in {"rm_dict_table", "rm_dict_manager"} /\ InOrder(d)
    BY <1>1, <1>2, <1>9 DEF DeleteRow, FitsJob, KindOf, KnowsDict
  <2>2. PICK new : new = Restrict(rows, DOMAIN rows \ Named(rows, d))
    OBVIOUS
  <2>3. Named(new, d) = {}
    BY <1>1, <2>2, RowsDeleted
  <2>4. /\ manager' = [manager EXCEPT !["dict"] = new]
        /\ apc' = [apc EXCEPT ![a] = IF op = "rm_dict_table" THEN "drop_rm" ELSE "idle"]
        /\ UNCHANGED <<tables, loaded>>
        /\ op = "rm_dict_manager" => d \in unlisted'
    BY <1>1, <1>9, <2>1, <2>2 DEF DeleteRow, Set, Goto, AfterDelete
  <2>5. ~HasRow(manager'["dict"], d)
    BY <1>3, <2>3, <2>4 DEF HasRow
  <2>6. CASE op = "rm_dict_table"
    BY <1>2, <1>3, <2>4, <2>5, <2>6 DEF KnowsDict
  <2>7. CASE op = "rm_dict_manager"
    BY <1>2, <1>3, <2>1, <2>4, <2>5, <2>7 DEF InOrder, Registered, Whole
  <2> QED BY <2>1, <2>6, <2>7
<1>10. CASE InsertWords(a)
  <2>1. label = "fill" /\ op = "add_dict_table" /\ Loading(a, d)
    BY <1>2, <1>10 DEF InsertWords, FitsJob, KnowsDict
  <2>2. PICK S \in Batches(unsent[a]) : \E ws \in SetToSeqs(S) :
          LET new == NewEntries(job[a].book, ws, tables[d])
          IN  /\ Insertable(new, tables[d])
              /\ tables' = Put(tables, d, tables[d] \cup new)
              /\ unsent' = [unsent EXCEPT ![a] = unsent[a] \ S]
    BY <1>1, <1>10 DEF InsertWords, Set
  <2>3. PICK ws \in SetToSeqs(S) :
          LET new == NewEntries(job[a].book, ws, tables[d])
          IN  /\ Insertable(new, tables[d])
              /\ tables' = Put(tables, d, tables[d] \cup new)
              /\ unsent' = [unsent EXCEPT ![a] = unsent[a] \ S]
    BY <2>2
  <2>4. S \subseteq unsent[a] /\ unsent[a] \subseteq DOMAIN job[a].book
    BY <1>2, <1>3, <2>1 DEF Batches, WordsInHand
  <2>5. PICK new : new = NewEntries(job[a].book, ws, tables[d])
    OBVIOUS
  <2>6. tables[d] \in SUBSET Entry /\ IsFiniteSet(tables[d]) /\ job[a].book \in Books
    BY <1>1, <2>1 DEF DictTypes, TypeOK, Loading
  <2>7. /\ {e.word : e \in new} = S
        /\ \A e, f \in new : e.word = f.word => e = f
        /\ \A e \in new : job[a].book[e.word] \in {0, e.no}
    BY <2>3, <2>4, <2>5, <2>6, NewEntriesAre
  <2>8. /\ {e.no : e \in new} \cap {e.no : e \in tables[d]} = {}
        /\ \A e, f \in new : e.no = f.no => e = f
    BY <2>3, <2>5 DEF Insertable
  <2>9. /\ d \in DOMAIN tables' /\ tables'[d] = tables[d] \cup new
        /\ unsent'[a] = unsent[a] \ S
        /\ UNCHANGED <<manager, unlisted, loaded, apc>>
    BY <1>10, <2>3, <2>5 DEF InsertWords, history, Put, DictTypes, TypeOK
  <2>10. Whole(d, unsent[a])'
    <3>1. Whole(d, unsent[a]) /\ loaded[d] = job[a].book
      BY <2>1 DEF Loading
    <3>2. {e.word : e \in tables'[d]} = DOMAIN loaded[d] \ (unsent[a] \ S)
      <4>1. {e.word : e \in tables'[d]} = {e.word : e \in tables[d]} \cup {e.word : e \in new}
        BY <2>9
      <4> QED BY <2>4, <2>7, <3>1, <4>1 DEF Whole
    <3>3. \A e \in tables[d], f \in new : e.word # f.word /\ e.no # f.no
      <4>1. \A e \in tables[d] : e.word \notin S
        BY <2>4, <3>1 DEF Whole
      <4> QED BY <2>7, <2>8, <4>1
    <3>4. \A e, f \in tables'[d] : e.word = f.word \/ e.no = f.no => e = f
      BY <2>7, <2>8, <2>9, <3>1, <3>3 DEF Whole
    <3>5. \A e \in tables'[d] : loaded[d][e.word] \in {0, e.no}
      BY <2>7, <2>9, <3>1 DEF Whole
    <3> QED BY <2>9, <3>2, <3>4, <3>5 DEF Whole
  <2>11. Loading(a, d)'
    BY <1>2, <2>1, <2>9, <2>10 DEF Loading, Registered
  <2> QED BY <1>2, <2>1, <2>9, <2>11 DEF KnowsDict
<1>11. CASE InsertWordsEnds(a)
  <2>1. /\ label = "fill" /\ op = "add_dict_table" /\ Loading(a, d)
        /\ Batches(unsent[a]) \subseteq {{}}
        /\ UNCHANGED <<tables, loaded, manager, unlisted>>
        /\ apc' = [apc EXCEPT ![a] = "idle"]
    BY <1>2, <1>11 DEF InsertWordsEnds, FitsJob, KnowsDict, history, Goto, Set
  <2>2. IsFiniteSet(unsent[a])
    <3>1. unsent[a] \subseteq DOMAIN job[a].book /\ IsFiniteSet(DOMAIN job[a].book)
      BY <1>1, <1>2, <1>3, <2>1, DictAssumption DEF WordsInHand
    <3> QED BY <3>1, FS_Subset
  <2>3. unsent[a] = {}
    BY <2>1, <2>2, BatchesAreLeft
  <2> QED BY <1>3, <2>1, <2>3 DEF Loading, InOrder, Whole, Registered
<1>12. CASE StatementFails(a) \/ Dies(a)
  <2>1. ~LeftHalfway(a)
    BY <1>1, <1>12 DEF StatementFails, Dies
  <2>2. label \in {"drop", "create"} /\ (label = "create" => ~HasRow(rows, d))
    BY <1>1, <2>1 DEF LeftHalfway
  <2>3. apc'[a] = "idle" /\ UNCHANGED <<tables, manager, unlisted, loaded>>
    BY <1>3, <1>12, <2>2 DEF StatementFails, Dies, Goto, Set, AfterFailure
  <2> QED BY <2>2, <2>3 DEF KnowsDict, InOrder, Whole, Registered
<1>13. ~UpdateStrategyRow(a)
  BY <1>1 DEF UpdateStrategyRow
<1> QED BY <1>4, <1>5, <1>6, <1>7, <1>8, <1>9, <1>10, <1>11, <1>12, <1>13 DEF Step

LEMMA NamedIsFinite ==
  ASSUME NEW rows, IsRows(rows), NEW n
  PROVE  IsFiniteSet(Named(rows, n)) /\ (Cardinality(Named(rows, n)) = 0 <=> ~HasRow(rows, n))
<1>1. Named(rows, n) \subseteq DOMAIN rows /\ IsFiniteSet(DOMAIN rows)
  BY DEF Named, IsRows
<1>2. IsFiniteSet(Named(rows, n))
  BY <1>1, FS_Subset
<1> QED BY <1>2, FS_EmptySet DEF HasRow

\* The steps of the only admin that has s in hand.
LEMMA StrategyStepsKnow ==
  ASSUME DictTypes, NEW a \in Admin, Step(a), ~Begin(a), NEW s \in Name,
         Busy(a, <<"strategy", s>>), <<"strategy", s>> \notin torn',
         OneRow(s), KnowsStrategy(a, s)
  PROVE  OneRow(s)' /\ KnowsStrategy(a, s)'
<1> DEFINE label == apc[a]
           op == job[a].op
           rows == manager["strategy"]
<1>1. /\ NameOf(a) = s /\ KindOf(op) = "strategy" /\ RowsOf(a) = rows /\ IsRows(rows)
      /\ op \in {"op_strategy_manager", "rm_strategy_manger"}
      /\ Subject(job[a]) = <<"strategy", s>>
  BY BusyAdminIs DEF Busy, Subject, NameOf, KindOf, RowsOf
<1>2. FitsJob(label, op) /\ label # "idle" /\ job' = job /\ label \in AdminLabel
  BY AdminMoves DEF DictTypes, TypeOK, AdminLabel
<1>3. /\ DOMAIN manager = Kind /\ "strategy" \in Kind /\ apc \in [Admin -> AdminLabel]
  BY DEF DictTypes, TypeOK, Kind, AdminLabel
<1>4. CASE LookForRow(a)
  <2> DEFINE there == HasRow(rows, s)
  <2>1. /\ label \in {"look", "look_rm"}
        /\ UNCHANGED <<manager, noted>>
        /\ apc' = [apc EXCEPT ![a] =
             IF label = "look" THEN (IF there THEN "update" ELSE "insert")
             ELSE IF there THEN "delete" ELSE AfterDelete(a)]
    BY <1>1, <1>4 DEF LookForRow, Goto, Set, history
  <2>2. apc'[a] = IF label = "look" THEN (IF there THEN "update" ELSE "insert")
                  ELSE IF there THEN "delete" ELSE "idle"
    BY <1>1, <1>3, <2>1 DEF AfterDelete
  <2> QED BY <2>1, <2>2 DEF KnowsStrategy, OneRow, HasRow
<1>5. CASE InsertRow(a)
  <2>1. NewRow(a) \in Row /\ NewRow(a).name = s /\ label = "insert"
    BY <1>1, <1>5, BusyAdminIs DEF InsertRow
  <2>2. PICK new : new = Put(rows, NewPlace(rows), NewRow(a))
    OBVIOUS
  <2>3. /\ Named(new, s) = Named(rows, s) \cup {NewPlace(rows)}
        /\ new[NewPlace(rows)] = NewRow(a)
    <3> HIDE DEF rows
    <3>1. Named(new, NewRow(a).name) = Named(rows, NewRow(a).name) \cup {NewPlace(rows)}
      BY <1>1, <2>1, <2>2, RowAdded
    <3>2. new[NewPlace(rows)] = NewRow(a)
      BY <1>1, <2>1, <2>2, RowAdded
    <3> QED BY <2>1, <3>1, <3>2
  <2>4. /\ manager' = [manager EXCEPT !["strategy"] = new]
        /\ apc' = [apc EXCEPT ![a] = "idle"]
        /\ noted' = Put(noted, s, NewRow(a).status)
    BY <1>1, <1>5, <2>2 DEF InsertRow, Set, Goto, AfterRow
  <2>5. Named(rows, s) = {}
    BY <2>1 DEF KnowsStrategy, HasRow
  <2>6. Named(new, s) = {NewPlace(rows)} /\ Cardinality(Named(new, s)) = 1
    BY <2>3, <2>5, FS_Singleton
  <2>7. manager'["strategy"] = new /\ s \in DOMAIN noted' /\ noted'[s] = NewRow(a).status
    BY <1>3, <2>4 DEF Put
  <2> QED BY <1>3, <2>3, <2>4, <2>6, <2>7 DEF OneRow, KnowsStrategy
<1>6. CASE UpdateStrategyRow(a)
  <2>1. NewRow(a) \in Row /\ NewRow(a).name = s /\ label = "update"
    BY <1>1, <1>6, BusyAdminIs DEF UpdateStrategyRow
  <2>2. PICK new : new = [i \in DOMAIN rows |->
                            IF rows[i].name = NewRow(a).name THEN NewRow(a) ELSE rows[i]]
    OBVIOUS
  <2>3. Named(new, s) = Named(rows, s) /\ \A i \in Named(rows, s) : new[i] = NewRow(a)
    <3> HIDE DEF rows
    <3> QED BY <1>1, <2>1, <2>2, RowsUpdated
  <2>4. /\ manager' = [manager EXCEPT !["strategy"] = new]
        /\ apc' = [apc EXCEPT ![a] = "idle"]
        /\ noted' = Put(noted, s, NewRow(a).status)
    BY <1>1, <1>6, <2>1, <2>2 DEF UpdateStrategyRow, Set, Goto, AfterRow
  <2>5. HasRow(rows, s)
    BY <2>1 DEF KnowsStrategy
  <2>6. Cardinality(Named(rows, s)) = 1
    BY <1>1, <2>5, NamedIsFinite DEF OneRow
  <2>7. manager'["strategy"] = new /\ s \in DOMAIN noted' /\ noted'[s] = NewRow(a).status
    BY <1>3, <2>4 DEF Put
  <2> QED BY <1>3, <2>3, <2>4, <2>6, <2>7 DEF OneRow, KnowsStrategy
<1>7. CASE DeleteRow(a)
  <2>1. PICK new : new = Restrict(rows, DOMAIN rows \ Named(rows, s))
    OBVIOUS
  <2>2. Named(new, s) = {}
    <3> HIDE DEF rows
    <3> QED BY <1>1, <2>1, RowsDeleted
  <2>3. /\ manager' = [manager EXCEPT !["strategy"] = new]
        /\ apc' = [apc EXCEPT ![a] = "idle"]
        /\ noted' = Without(noted, s)
    BY <1>1, <1>7, <2>1 DEF DeleteRow, Set, Goto, AfterDelete
  <2>4. manager'["strategy"] = new /\ s \notin DOMAIN noted'
    BY <1>3, <2>3 DEF Without, Restrict
  <2> QED BY <1>3, <2>2, <2>3, <2>4, FS_EmptySet DEF OneRow, KnowsStrategy
<1>8. CASE StatementFails(a) \/ Dies(a)
  <2>1. ~LeftHalfway(a)
    BY <1>1, <1>8 DEF StatementFails, Dies
  <2> QED BY <1>1, <1>2, <2>1 DEF LeftHalfway, FitsJob
<1>9. ~(DropTable(a) \/ CreateTable(a) \/ UpdateDictRows(a) \/ InsertWords(a) \/ InsertWordsEnds(a))
  BY <1>1, <1>2 DEF DropTable, CreateTable, UpdateDictRows, InsertWords, InsertWordsEnds, FitsJob
<1> QED BY <1>4, <1>5, <1>6, <1>7, <1>8, <1>9 DEF Step

LEMMA StrategyStaysKnown ==
  ASSUME DictTypes, NEW a \in Admin, Step(a), NEW s \in Name, ~Busy(a, <<"strategy", s>>)
  PROVE  /\ OneRow(s) => OneRow(s)'
         /\ \A b \in Admin \ {a} : KnowsStrategy(b, s) => KnowsStrategy(b, s)'
<1>1. /\ Named(manager'["strategy"], s) = Named(manager["strategy"], s)
      /\ \A i \in Named(manager["strategy"], s) : manager'["strategy"][i] = manager["strategy"][i]
      /\ s \in DOMAIN noted <=> s \in DOMAIN noted'
      /\ s \in DOMAIN noted => noted'[s] = noted[s]
  BY OtherRowsStay
<1>2. OneRow(s) => OneRow(s)'
  <2>1. IsRows(manager["strategy"])
    BY DEF DictTypes, TypeOK, Kind, IsRows
  <2>2. OneRow(s) /\ Named(manager["strategy"], s) # {} => s \in DOMAIN noted
    BY <2>1, NamedIsFinite DEF OneRow, HasRow
  <2> QED BY <1>1, <2>2 DEF OneRow
<1>3. \A b \in Admin \ {a} : apc'[b] = apc[b]
  BY StepIsOfOneSubject
<1> QED BY <1>1, <1>2, <1>3 DEF KnowsStrategy, HasRow

-----------------------------------------------------------------------------
(* The invariant.                                                          *)

LEMMA BeginChangesNothing ==
  ASSUME NEW a \in Admin, Begin(a)
  PROVE  UNCHANGED <<tables, manager, unlisted, loaded, noted>>
  BY DEF Begin

LEMMA DictHoldsOn ==
  ASSUME DictInv, NEW a \in Admin, Step(a), NEW d \in Name
  PROVE  DictHolds(d)'
<1> DEFINE s == <<"dict", d>>
<1>1. /\ DictTypes /\ (\A b \in Admin : WordsInHand(b)) /\ OneAdmin /\ DictHolds(d) /\ OneAdmin'
      /\ torn \subseteq torn'
  BY OneAdminStays, StepIsOfOneSubject DEF DictInv
<1> SUFFICES ASSUME s \notin torn'
             PROVE  /\ ~InHand(s)' => InOrder(d)'
                    /\ \A b \in Admin : Busy(b, s)' => KnowsDict(b, d)'
  BY DEF DictHolds
<1>2. s \notin torn
  BY <1>1
<1>3. \A b \in Admin \ {a} : Busy(b, s)' <=> Busy(b, s)
  BY <1>1, StepIsOfOneSubject DEF Busy
<1>4. CASE Begin(a)
  <2>1. apc[a] = "idle" /\ apc'[a] = FirstLabel(job'[a].op) /\ job'[a] \in Jobs
        /\ (InHand(Subject(job'[a])) => Subject(job'[a]) \in torn')
    BY <1>1, <1>4, StepIsOfOneSubject
  <2>2. InOrder(d) => InOrder(d)'
    BY <1>4, BeginChangesNothing DEF InOrder, Registered, Whole
  <2>3. ASSUME Busy(a, s)'
        PROVE  KnowsDict(a, d)'
    <3>1. InOrder(d)'
      BY <1>1, <1>2, <2>1, <2>2, <2>3 DEF DictHolds, Busy
    <3>2. FirstLabel(job'[a].op) \in {"drop", "look_rm", "look"}
          /\ (FirstLabel(job'[a].op) = "look" => job'[a].op # "add_dict_table")
      BY <2>1, JobIs DEF FirstLabel
    <3> QED BY <2>1, <3>1, <3>2 DEF KnowsDict
  <2>4. \A b \in Admin \ {a} : KnowsDict(b, d) => KnowsDict(b, d)'
    BY <1>1, <2>1, DictStaysKnown DEF Busy
  <2>5. ~InHand(s)' => ~InHand(s)
    BY <1>3, <2>1 DEF InHand, Busy
  <2> QED BY <1>1, <1>2, <1>3, <2>2, <2>3, <2>4, <2>5 DEF DictHolds
<1>5. CASE ~Begin(a) /\ Busy(a, s)
  <2>1. KnowsDict(a, d)
    BY <1>1, <1>2, <1>5 DEF DictHolds
  <2>2. IF apc'[a] = "idle" THEN InOrder(d)' ELSE KnowsDict(a, d)'
    BY <1>1, <1>5, <2>1, DictStepsKnow
  <2>3. \A b \in Admin \ {a} : ~Busy(b, s)
    BY <1>1, <1>2, <1>5, BusyIsOne
  <2>4. job' = job
    BY <1>1, <1>5, AdminMoves
  <2> QED BY <1>3, <1>5, <2>2, <2>3, <2>4 DEF Busy, InHand
<1>6. CASE ~Begin(a) /\ ~Busy(a, s)
  <2>1. job' = job /\ apc[a] # "idle"
    BY <1>1, <1>6, AdminMoves
  <2>2. /\ InOrder(d) => InOrder(d)'
        /\ \A b \in Admin \ {a} : KnowsDict(b, d) => KnowsDict(b, d)'
    BY <1>1, <1>6, DictStaysKnown
  <2>3. ~Busy(a, s)'
    BY <1>6, <2>1 DEF Busy
  <2>4. InHand(s)' <=> InHand(s)
    BY <1>3, <1>6, <2>3 DEF InHand, Busy
  <2> QED BY <1>1, <1>2, <1>3, <2>2, <2>3, <2>4 DEF DictHolds
<1> QED BY <1>4, <1>5, <1>6

LEMMA StrategyHoldsOn ==
  ASSUME DictInv, NEW a \in Admin, Step(a), NEW n \in Name
  PROVE  StrategyHolds(n)'
<1> DEFINE s == <<"strategy", n>>
<1>1. /\ DictTypes /\ (\A b \in Admin : WordsInHand(b)) /\ OneAdmin /\ StrategyHolds(n)
      /\ torn \subseteq torn'
  BY StepIsOfOneSubject DEF DictInv
<1> SUFFICES ASSUME s \notin torn'
             PROVE  /\ OneRow(n)'
                    /\ \A b \in Admin : Busy(b, s)' => KnowsStrategy(b, n)'
  BY DEF StrategyHolds
<1>2. s \notin torn /\ OneRow(n)
  BY <1>1 DEF StrategyHolds
<1>3. \A b \in Admin \ {a} : Busy(b, s)' <=> Busy(b, s)
  BY <1>1, StepIsOfOneSubject DEF Busy
<1>4. CASE Begin(a)
  <2>1. apc[a] = "idle" /\ apc'[a] = FirstLabel(job'[a].op) /\ job'[a] \in Jobs
    BY <1>1, <1>4, StepIsOfOneSubject
  <2>2. FirstLabel(job'[a].op) \in {"drop", "look_rm", "look"}
    BY <2>1, JobIs DEF FirstLabel
  <2>3. ~Busy(a, s)
    BY <2>1 DEF Busy
  <2>4. OneRow(n)' /\ \A b \in Admin \ {a} : KnowsStrategy(b, n) => KnowsStrategy(b, n)'
    BY <1>1, <1>2, <2>3, StrategyStaysKnown
  <2>5. KnowsStrategy(a, n)'
    BY <2>1, <2>2 DEF KnowsStrategy
  <2> QED BY <1>1, <1>2, <1>3, <2>4, <2>5 DEF StrategyHolds
<1>5. CASE ~Begin(a) /\ Busy(a, s)
  <2>1. OneRow(n)' /\ KnowsStrategy(a, n)'
    BY <1>1, <1>2, <1>5, StrategyStepsKnow DEF StrategyHolds
  <2>2. \A b \in Admin \ {a} : ~Busy(b, s)
    BY <1>1, <1>2, <1>5, BusyIsOne
  <2> QED BY <1>3, <2>1, <2>2
<1>6. CASE ~Begin(a) /\ ~Busy(a, s)
  <2>1. job' = job /\ apc[a] # "idle"
    BY <1>1, <1>6, AdminMoves
  <2>2. OneRow(n)' /\ \A b \in Admin \ {a} : KnowsStrategy(b, n) => KnowsStrategy(b, n)'
    BY <1>1, <1>2, <1>6, StrategyStaysKnown
  <2>3. ~Busy(a, s)'
    BY <1>6, <2>1 DEF Busy
  <2> QED BY <1>1, <1>2, <1>3, <2>2, <2>3 DEF StrategyHolds
<1> QED BY <1>4, <1>5, <1>6

LEMMA DictInvInitially == Init => DictInv
<1> SUFFICES ASSUME Init PROVE DictInv
  OBVIOUS
<1>1. \E j : j \in Jobs
  <2>1. PICK n \in Name : TRUE
    BY DictAssumption
  <2>2. [op |-> "rm_dict_table", name |-> n] \in Jobs
    BY DEF Jobs
  <2> QED BY <2>2
<1>2. (CHOOSE j \in Jobs : TRUE) \in Jobs
  BY <1>1
<1>3. /\ \A a \in Admin : apc[a] = "idle"
      /\ DOMAIN tables = {} /\ DOMAIN loaded = {} /\ DOMAIN noted = {}
      /\ \A k \in Kind : manager[k] = Nothing
      /\ DOMAIN manager = Kind /\ DOMAIN Nothing = {}
  BY DEF Init, Nothing
<1>4. DictTypes
  BY <1>2, <1>3, FS_EmptySet, DictAssumption DEF Init, DictTypes, TypeOK, FitsJob, Range
<1>5. \A k \in Kind : \A n : Named(manager[k], n) = {}
  BY <1>3 DEF Named
<1>6. \A d \in Name : InOrder(d) /\ OneRow(d)
  BY <1>3, <1>5, FS_EmptySet DEF InOrder, OneRow, HasRow, Kind
<1> QED BY <1>3, <1>4, <1>6 DEF DictInv, WordsInHand, OneAdmin, DictHolds, StrategyHolds, Busy, InHand

LEMMA DictInvStays == DictInv /\ [Next]_vars => DictInv'
<1> SUFFICES ASSUME DictInv, [Next]_vars PROVE DictInv'
  OBVIOUS
<1>1. CASE Next
  <2>1. PICK a \in Admin : Step(a)
    BY <1>1 DEF Next
  <2>2. DictTypes' /\ (\A b \in Admin : WordsInHand(b)') /\ OneAdmin'
    BY <2>1, DictTypesStay, OneAdminStays DEF DictInv
  <2>3. \A d \in Name : DictHolds(d)' /\ StrategyHolds(d)'
    BY <2>1, DictHoldsOn, StrategyHoldsOn
  <2> QED BY <2>2, <2>3 DEF DictInv
<1>2. CASE UNCHANGED vars
  <2>1. DictTypes'
    BY <1>2 DEF vars, history, DictInv, DictTypes, TypeOK
  <2>2. (\A a \in Admin : WordsInHand(a)') /\ OneAdmin'
    BY <1>2 DEF vars, history, DictInv, WordsInHand, OneAdmin, Busy, Subject, NameOf
  <2>3. \A d \in Name : DictHolds(d)'
    BY <1>2 DEF vars, history, DictInv, DictHolds, InOrder, KnowsDict, Loading, Whole,
       Registered, Busy, InHand, Subject, NameOf
  <2>4. \A d \in Name : StrategyHolds(d)'
    BY <1>2 DEF vars, history, DictInv, StrategyHolds, OneRow, KnowsStrategy, Registered,
       HasRow, Busy, Subject, NameOf
  <2> QED BY <2>1, <2>2, <2>3, <2>4 DEF DictInv
<1> QED BY <1>1, <1>2

LEMMA DictInvariant == Spec => []DictInv
<1> QED BY DictInvInitially, DictInvStays, PTL DEF Spec

-----------------------------------------------------------------------------
(* The theorems.                                                           *)

\* Every process stays at a label of the operations, every table holds entries
\* with numbers from 1 on, and the managers' rows have a name and a status.
THEOREM DictTablesKeepTheirTypes == Spec => []TypeOK
<1>1. DictInv => TypeOK
  BY DEF DictInv, DictTypes
<1> QED BY <1>1, DictInvariant, PTL

\* However many admins there are and whatever statement fails, a dictionary in
\* dict_manager has its table, unless an operation on it was left halfway or
\* shared (SqlDBOperation::add_dict_table and rm_dict_table).
THEOREM RegisteredStayThere == Spec => []RegisteredDictionariesExist
<1>1. ASSUME DictInv, NEW d \in Name, HasRow(manager["dict"], d), <<"dict", d>> \notin torn
      PROVE  d \in DOMAIN tables \/ \E a \in Admin : NameOf(a) = d /\ apc[a] = "create"
  <2>1. DictTypes /\ DictHolds(d)
    BY <1>1 DEF DictInv
  <2>2. CASE InHand(<<"dict", d>>)
    <3>1. PICK a \in Admin : Busy(a, <<"dict", d>>)
      BY <2>2 DEF InHand, Busy
    <3>2. KnowsDict(a, d) /\ NameOf(a) = d
      BY <1>1, <2>1, <3>1 DEF DictHolds, Busy, Subject, NameOf
    <3>3. FitsJob(apc[a], job[a].op) /\ apc[a] \in AdminLabel /\ apc[a] # "idle"
      BY <2>1, <3>1 DEF DictTypes, TypeOK, AdminLabel, Busy
    <3> QED BY <1>1, <3>2, <3>3 DEF KnowsDict, InOrder, Loading, FitsJob, AdminLabel
  <2> QED BY <1>1, <2>1, <2>2 DEF DictHolds, InOrder
<1>2. DictInv => RegisteredDictionariesExist
  BY <1>1 DEF RegisteredDictionariesExist
<1> QED BY <1>2, DictInvariant, PTL

\* The other way round: what add_dict_table has loaded stays registered, but
\* for the names that the update without a where has overwritten or that
\* rm_dict_manager alone has deleted, the table being left.
THEOREM LoadedStayRegistered == Spec => []LoadedDictionariesAreRegistered
<1>1. DictInv => LoadedDictionariesAreRegistered
  BY DEF DictInv, DictTypes, TypeOK, DictHolds, InOrder, Registered,
     LoadedDictionariesAreRegistered
<1> QED BY <1>1, DictInvariant, PTL

\* For every book and every room in a statement, the loop over the insert
\* statements leaves no word out and enters none twice, in whatever order the
\* hash table gives the words.
THEOREM LoadedStayComplete == Spec => []LoadedTablesAreComplete
<1>1. ASSUME DictInv, NEW d \in DOMAIN tables, <<"dict", d>> \notin torn,
             ~InHand(<<"dict", d>>)
      PROVE  Whole(d, {})
  BY <1>1 DEF DictInv, DictTypes, TypeOK, DictHolds, InOrder
<1>2. DictInv => LoadedTablesAreComplete
  BY <1>1 DEF Whole, LoadedTablesAreComplete
<1> QED BY <1>2, DictInvariant, PTL

\* A strategy has one row with the status it was given last, or none, whatever
\* admins do with other strategies (op_strategy_manager, rm_strategy_manger).
THEOREM StrategiesStayApart == Spec => []StrategiesAreApart
<1>1. DictInv => StrategiesAreApart
  BY DEF DictInv, StrategyHolds, OneRow, StrategiesAreApart
<1> QED BY <1>1, DictInvariant, PTL

-----------------------------------------------------------------------------
(* The tables of the pages: visited_url and website_nice.                  *)

VisitedRow(u) == <<"visited_url", u>>
NiceRow(u) == <<"website_nice", u>>

WorkerLabel == {"idle", "look", "insert", "select"} \cup Column \cup {"update"}

\* The labels an operation has.
Fits(label, op) ==
  /\ label \in Column => op = "op_visited_url"
  /\ label = "update" => op = "op_website_nice"
  /\ label = "insert" => op # "get_website_nice"
  /\ label = "select" => op \in {"get_url_no", "get_website_nice"}

HistoryTypes ==
  /\ stored \in [Url -> [Column -> Version \cup {Empty}]]
  /\ told \in [Url -> [set : Nice \cup {NoNice}, got : SUBSET Int]]

PageTypes ==
  /\ PageTypeOK
  /\ HistoryTypes
  /\ \A w \in Worker : Fits(wpc[w], call[w].op)

LEMMA CallIs ==
  ASSUME NEW c \in Calls
  PROVE  /\ c # NoCall /\ c.url \in Url
         /\ c.op \in {"op_visited_url", "get_url_no", "get_website_nice", "op_website_nice"}
         /\ c.op = "op_visited_url" => /\ c.version \in Version
                                       /\ c.fits \in {Column, {"title"}}
         /\ c.op = "op_website_nice" => c.nice \in Nice
  BY DEF Calls, NoCall

LEMMA BusyIs ==
  ASSUME PageTypeOK, NEW w \in Worker, wpc[w] # "idle"
  PROVE  call[w] \in Calls /\ UrlOf(w) \in Url
  BY CallIs DEF PageTypeOK, UrlOf

\* Every step but a call moves the worker to a label of the operation it does.
LEMMA StepMoves ==
  ASSUME PageTypes, NEW w \in Worker, PageStep(w), ~Call(w)
  PROVE  /\ wpc[w] # "idle"
         /\ \E label \in WorkerLabel : To(w, label) /\ Fits(label, call[w].op)
<1> USE DEF PageTypes, Fits, WorkerLabel, Column
<1>1. wpc[w] # "idle"
  BY DEF PageStep, Look, InsertPage, UpdateColumn, SelectNumber, InsertNice, UpdateNice,
         SelectNice, QueryFails, Killed
<1>2. call[w] \in Calls
  BY <1>1, BusyIs
<1>3. call[w].op \in {"op_visited_url", "get_url_no", "get_website_nice", "op_website_nice"}
  BY <1>2, CallIs
<1>4. \A there \in BOOLEAN : /\ AfterLook(call[w].op, there) \in WorkerLabel
                              /\ Fits(AfterLook(call[w].op, there), call[w].op)
  BY <1>3 DEF AfterLook
<1>5. IsThere(w) \in BOOLEAN
  BY DEF IsThere
<1>6. CASE Look(w)
  BY <1>1, <1>4, <1>5, <1>6 DEF Look
<1>7. CASE InsertPage(w) \/ UpdateColumn(w)
  BY <1>1, <1>3, <1>7 DEF InsertPage, UpdateColumn, Following, TableOf, Does
<1>8. CASE SelectNumber(w) \/ InsertNice(w) \/ UpdateNice(w) \/ SelectNice(w) \/ Killed(w)
  BY <1>1, <1>8 DEF SelectNumber, InsertNice, UpdateNice, SelectNice, Killed
<1>9. CASE QueryFails(w)
  <2>1. AfterFailed(w) \in WorkerLabel /\ Fits(AfterFailed(w), call[w].op)
    BY <1>1, <1>3, <1>4 DEF AfterFailed, Following, Does, PageTypeOK
  <2> QED BY <1>1, <1>9, <2>1 DEF QueryFails
<1> QED BY <1>6, <1>7, <1>8, <1>9 DEF PageStep

LEMMA ToKeepsTypes ==
  ASSUME PageTypes, NEW w \in Worker, wpc[w] # "idle",
         NEW label \in WorkerLabel, To(w, label), Fits(label, call[w].op)
  PROVE  /\ wpc' \in [Worker -> WorkerLabel]
         /\ call' \in [Worker -> Calls \cup {NoCall}]
         /\ \A v \in Worker : call'[v] = NoCall <=> wpc'[v] = "idle"
         /\ \A v \in Worker : Fits(wpc[v], call[v].op)'
<1> USE DEF PageTypes, PageTypeOK, To, WorkerLabel
<1>1. CASE label = "idle"
  BY <1>1 DEF Fits, Column
<1>2. CASE label # "idle"
  BY <1>2
<1> QED BY <1>1, <1>2

\* A row inserted into visited_url gets the next number.
LEMMA PageInserted ==
  ASSUME PageTypeOK, NEW u \in Url
  PROVE  LET row == [url |-> u, title |-> Empty, contents |-> Empty, html |-> Empty]
         IN  /\ Append(pages, row) \in Seq(Page)
             /\ Len(pages) \in Nat /\ DOMAIN pages = 1 .. Len(pages)
             /\ DOMAIN Append(pages, row) = 1 .. Len(pages) + 1
             /\ \A no \in 1 .. Len(pages) : Append(pages, row)[no] = pages[no]
             /\ Append(pages, row)[Len(pages) + 1] = row
  BY DEF PageTypeOK, Page

\* A column stored in the rows of one URL.
Stored(u, column, version) ==
  [no \in DOMAIN pages |-> IF pages[no].url = u
                           THEN [pages[no] EXCEPT ![column] = version] ELSE pages[no]]

LEMMA PageStored ==
  ASSUME PageTypeOK, NEW u \in Url, NEW column \in Column, NEW version \in Version
  PROVE  /\ Stored(u, column, version) \in Seq(Page)
         /\ DOMAIN Stored(u, column, version) = DOMAIN pages
         /\ \A no \in DOMAIN pages :
              /\ Stored(u, column, version)[no].url = pages[no].url
              /\ pages[no].url # u => Stored(u, column, version)[no] = pages[no]
              /\ pages[no].url = u => \A c \in Column :
                   Stored(u, column, version)[no][c] = IF c = column THEN version
                                                       ELSE pages[no][c]
<1>1. \A no \in DOMAIN pages : pages[no] \in Page
  BY DEF PageTypeOK
<1>2. \A page \in Page : /\ [page EXCEPT ![column] = version] \in Page
                          /\ [page EXCEPT ![column] = version].url = page.url
                          /\ \A c \in Column : [page EXCEPT ![column] = version][c]
                                                 = IF c = column THEN version ELSE page[c]
  BY DEF Page, Column
<1>3. /\ DOMAIN pages = 1 .. Len(pages) /\ Len(pages) \in Nat
  BY DEF PageTypeOK
<1>4. \A no \in 1 .. Len(pages) : Stored(u, column, version)[no] \in Page
  BY <1>1, <1>2, <1>3 DEF Stored
<1>5. Stored(u, column, version) \in Seq(Page)
  BY <1>3, <1>4, IsASeq DEF Stored
<1> QED BY <1>1, <1>2, <1>3, <1>5 DEF Stored

LEMMA LowestIsANumber ==
  ASSUME PageTypeOK, NEW u \in Url
  PROVE  Lowest(NicesOf(u)) \in Int
<1> DEFINE I == {i \in DOMAIN nices : nices[i].url = u}
           f == [i \in I |-> nices[i].nice]
<1>1. /\ DOMAIN nices = 1 .. Len(nices) /\ Len(nices) \in Nat
      /\ \A i \in 1 .. Len(nices) : nices[i].nice \in Int
  <2>1. nices \in Seq([url : Url, nice : Nice])
    BY DEF PageTypeOK
  <2>2. \A i \in 1 .. Len(nices) : nices[i] \in [url : Url, nice : Nice]
    BY <2>1, ElementOfSeq
  <2> QED BY <2>1, <2>2, LenProperties, PageAssumption
<1>2. IsFiniteSet(I)
  <2>1. I \subseteq 1 .. Len(nices)
    BY <1>1
  <2>2. IsFiniteSet(1 .. Len(nices))
    BY <1>1, FS_Interval
  <2> QED BY <2>1, <2>2, FS_Subset
<1>3. f \in Surjection(I, NicesOf(u))
  BY DEF Surjection, NicesOf
<1>4. IsFiniteSet(NicesOf(u))
  BY <1>2, <1>3, FS_Surjection
<1>5. NicesOf(u) \cup {NoNice} \in SUBSET Int
  BY <1>1 DEF NicesOf, NoNice
<1>6. IsFiniteSet(NicesOf(u) \cup {NoNice})
  BY <1>4, FS_AddElement
<1> QED BY <1>5, <1>6, FiniteHasMin DEF Lowest

LEMMA PageStepKeepsTypes ==
  ASSUME PageTypes, NEW w \in Worker, PageStep(w)
  PROVE  PageTypes'
<1>1. CASE Call(w)
  <2> USE DEF PageTypes, PageTypeOK
  <2>1. PICK c \in Calls : call' = [call EXCEPT ![w] = c]
    BY <1>1 DEF Call
  <2>2. c # NoCall /\ wpc' = [wpc EXCEPT ![w] = "look"]
    BY <1>1, CallIs DEF Call
  <2>3. \A v \in Worker : Fits(wpc[v], call[v].op)'
    BY <2>1, <2>2 DEF Fits, Column
  <2>4. calls' \in 0 .. MaxCalls
    BY <1>1, PageAssumption DEF Call
  <2>5. \A v \in Worker : (call[v] = NoCall <=> wpc[v] = "idle")'
    BY <2>1, <2>2
  <2> QED BY <1>1, <2>1, <2>2, <2>3, <2>4, <2>5 DEF Call, HistoryTypes
<1>2. CASE ~Call(w)
  <2>1. /\ wpc[w] # "idle"
        /\ wpc' \in [Worker -> WorkerLabel]
        /\ call' \in [Worker -> Calls \cup {NoCall}]
        /\ \A v \in Worker : call'[v] = NoCall <=> wpc'[v] = "idle"
        /\ \A v \in Worker : Fits(wpc[v], call[v].op)'
    BY <1>2, StepMoves, ToKeepsTypes
  <2>2. call[w] \in Calls /\ UrlOf(w) \in Url
    BY <2>1, BusyIs DEF PageTypes
  <2>3. pages' \in Seq(Page) /\ DOMAIN pages \subseteq DOMAIN pages'
    <3>1. CASE InsertPage(w)
      BY <2>2, <3>1, PageInserted DEF InsertPage, PageTypes
    <3>2. CASE UpdateColumn(w)
      <4>1. CASE wpc[w] \in call[w].fits
        <5>1. call[w].version \in Version /\ wpc[w] \in Column
          BY <2>2, <3>2, CallIs DEF UpdateColumn, PageTypes, Fits
        <5>2. pages' = Stored(UrlOf(w), wpc[w], call[w].version)
          BY <3>2, <4>1 DEF UpdateColumn, Stored
        <5> QED BY <2>2, <5>1, <5>2, PageStored DEF PageTypes
      <4>2. CASE wpc[w] \notin call[w].fits
        BY <3>2, <4>2 DEF UpdateColumn, PageTypes, PageTypeOK
      <4> QED BY <4>1, <4>2
    <3>3. CASE UNCHANGED pages
      BY <3>3 DEF PageTypes, PageTypeOK
    <3> QED BY <1>2, <3>1, <3>2, <3>3
            DEF PageStep, Look, SelectNumber, InsertNice, UpdateNice, SelectNice, QueryFails,
                Killed
  <2>4. nices' \in Seq([url : Url, nice : Nice])
    <3>1. CASE InsertNice(w)
      <4>1. [url |-> UrlOf(w), nice |-> call[w].nice] \in [url : Url, nice : Nice]
        BY <2>2, <3>1, CallIs DEF InsertNice, Does
      <4> QED BY <3>1, <4>1 DEF InsertNice, PageTypes, PageTypeOK
    <3>2. CASE UpdateNice(w)
      <4>1. call[w].nice \in Nice
        BY <2>2, <3>2, CallIs DEF UpdateNice, PageTypes, Fits
      <4>2. /\ DOMAIN nices = 1 .. Len(nices) /\ Len(nices) \in Nat
            /\ \A i \in 1 .. Len(nices) : nices[i] \in [url : Url, nice : Nice]
        BY LenProperties, ElementOfSeq DEF PageTypes, PageTypeOK
      <4>3. \A i \in 1 .. Len(nices) : nices'[i] \in [url : Url, nice : Nice]
        BY <3>2, <4>1, <4>2 DEF UpdateNice
      <4> QED BY <3>2, <4>2, <4>3, IsASeq DEF UpdateNice
    <3>3. CASE UNCHANGED nices
      BY <3>3 DEF PageTypes, PageTypeOK
    <3> QED BY <1>2, <3>1, <3>2, <3>3
            DEF PageStep, Look, InsertPage, UpdateColumn, SelectNumber, SelectNice, QueryFails,
                Killed
  <2>5. given' \in [Url -> SUBSET DOMAIN pages']
    <3>1. given \in [Url -> SUBSET DOMAIN pages']
      BY <2>3 DEF PageTypes, PageTypeOK
    <3>2. CASE SelectNumber(w)
      <4>1. PICK no \in NumbersOf(UrlOf(w)) :
              given' = [given EXCEPT ![UrlOf(w)] = given[UrlOf(w)] \cup {no}]
        BY <3>2 DEF SelectNumber
      <4>2. no \in DOMAIN pages'
        BY <2>3 DEF NumbersOf
      <4> QED BY <3>1, <4>1, <4>2
    <3>3. CASE UNCHANGED given
      BY <3>1, <3>3
    <3> QED BY <1>2, <3>2, <3>3
            DEF PageStep, Look, InsertPage, UpdateColumn, InsertNice, UpdateNice, SelectNice,
                QueryFails, Killed, pageHistory
  <2>6. calls' \in 0 .. MaxCalls /\ failures' \in 0 .. MaxFailures
    BY <1>2, PageAssumption
       DEF PageTypes, PageTypeOK, PageStep, Look, InsertPage, UpdateColumn, SelectNumber,
           InsertNice, UpdateNice, SelectNice, QueryFails, Killed, counts
  <2>7. stored' \in [Url -> [Column -> Version \cup {Empty}]]
    <3>1. CASE UpdateColumn(w)
      <4>1. call[w].version \in Version /\ wpc[w] \in Column
        BY <2>2, <3>1, CallIs DEF UpdateColumn, PageTypes, Fits, Does
      <4>2. \/ UNCHANGED stored
            \/ stored' = [stored EXCEPT ![UrlOf(w)] =
                            [stored[UrlOf(w)] EXCEPT ![wpc[w]] = call[w].version]]
        BY <3>1 DEF UpdateColumn
      <4>3. [stored[UrlOf(w)] EXCEPT ![wpc[w]] = call[w].version]
              \in [Column -> Version \cup {Empty}]
        BY <2>2, <4>1 DEF PageTypes, HistoryTypes
      <4> QED BY <2>2, <4>2, <4>3 DEF PageTypes, HistoryTypes
    <3>2. CASE UNCHANGED stored
      BY <3>2 DEF PageTypes, HistoryTypes
    <3> QED BY <1>2, <3>1, <3>2
            DEF PageStep, Look, InsertPage, SelectNumber, InsertNice, UpdateNice, SelectNice,
                QueryFails, Killed, pageHistory
  <2>8. told' \in [Url -> [set : Nice \cup {NoNice}, got : SUBSET Int]]
    <3> USE DEF PageTypes, HistoryTypes
    <3>1. CASE UNCHANGED told
      BY <3>1
    <3>2. CASE InsertNice(w) \/ UpdateNice(w)
      <4>1. call[w].nice \in Nice
        BY <2>2, <3>2, CallIs DEF InsertNice, UpdateNice, Fits, Does
      <4> QED BY <2>2, <3>2, <4>1 DEF InsertNice, UpdateNice, Setting
    <3>3. ASSUME NEW x \in Int, Told(w, x)
          PROVE  told' \in [Url -> [set : Nice \cup {NoNice}, got : SUBSET Int]]
      BY <2>2, <3>3 DEF Told
    <3>4. CASE Look(w)
      BY <3>1, <3>3, <3>4 DEF Look, NoNice
    <3>5. CASE SelectNice(w)
      BY <2>2, <3>3, <3>5, LowestIsANumber DEF SelectNice
    <3> QED BY <1>2, <3>1, <3>2, <3>4, <3>5
            DEF PageStep, InsertPage, UpdateColumn, SelectNumber, QueryFails, Killed,
                pageHistory
  <2> QED BY <2>1, <2>3, <2>4, <2>5, <2>6, <2>7, <2>8
          DEF PageTypes, PageTypeOK, HistoryTypes, WorkerLabel
<1> QED BY <1>1, <1>2

\* Only one worker has a row in hand that is not in shared.
OneInHand ==
  \A v, w \in Worker :
    wpc[v] # "idle" /\ wpc[w] # "idle" /\ RowOf(call[v]) = RowOf(call[w]) =>
      v = w \/ RowOf(call[v]) \in shared

\* What if_exist answered is still so when the worker acts on it.
AnswerHolds(w) ==
  wpc[w] # "idle" /\ RowOf(call[w]) \notin shared =>
    /\ wpc[w] = "insert" => ~IsThere(w)
    /\ wpc[w] \in Column \cup {"select", "update"} => IsThere(w)

PageRowIsWhole(u) ==
  <<"visited_url", u>> \notin shared =>
    /\ \A m, n \in NumbersOf(u) : m = n
    /\ \A no \in NumbersOf(u) : \A column \in Column : pages[no][column] = stored[u][column]
    /\ NumbersOf(u) = {} => stored[u] = [c \in Column |-> Empty]

NiceRowIsTold(u) ==
  <<"website_nice", u>> \notin shared =>
    /\ NicesOf(u) = {} => told[u].set = NoNice
    /\ NicesOf(u) # {} => NicesOf(u) = {told[u].set}
    /\ told[u].got \subseteq {Min({told[u].set, NoNice})}

PageInv ==
  /\ PageTypes
  /\ OneInHand
  /\ \A w \in Worker : AnswerHolds(w)
  /\ \A u \in Url : given[u] \subseteq NumbersOf(u) /\ PageRowIsWhole(u) /\ NiceRowIsTold(u)

\* What a step does to the rows of a URL.
LEMMA PageRowsAfter ==
  ASSUME PageTypes, NEW w \in Worker, PageStep(w), NEW u \in Url
  PROVE  /\ InsertPage(w) =>
              /\ NumbersOf(u)' = IF u = UrlOf(w) THEN NumbersOf(u) \cup {Len(pages) + 1}
                                 ELSE NumbersOf(u)
              /\ \A no \in NumbersOf(u) : pages'[no] = pages[no]
              /\ \A column \in Column : pages'[Len(pages) + 1][column] = Empty
         /\ UpdateColumn(w) =>
              /\ NumbersOf(u)' = NumbersOf(u)
              /\ \A no \in NumbersOf(u) : \A c \in Column :
                   pages'[no][c] = IF u = UrlOf(w) /\ c = wpc[w] /\ wpc[w] \in call[w].fits
                                   THEN call[w].version ELSE pages[no][c]
              /\ stored'[u] = [c \in Column |->
                                IF u = UrlOf(w) /\ c = wpc[w] /\ wpc[w] \in call[w].fits
                                THEN call[w].version ELSE stored[u][c]]
         /\ ~InsertPage(w) /\ ~UpdateColumn(w) => NumbersOf(u)' = NumbersOf(u) /\ UNCHANGED pages
         /\ ~UpdateColumn(w) => UNCHANGED stored
<1> USE DEF PageTypes
<1>1. ASSUME InsertPage(w)
      PROVE  /\ NumbersOf(u)' = IF u = UrlOf(w) THEN NumbersOf(u) \cup {Len(pages) + 1}
                                ELSE NumbersOf(u)
             /\ \A no \in NumbersOf(u) : pages'[no] = pages[no]
             /\ \A column \in Column : pages'[Len(pages) + 1][column] = Empty
  <2>1. UrlOf(w) \in Url
    BY <1>1, BusyIs DEF InsertPage
  <2> DEFINE row == [url |-> UrlOf(w), title |-> Empty, contents |-> Empty, html |-> Empty]
  <2>2. /\ pages' = Append(pages, row)
        /\ Len(pages) \in Nat /\ DOMAIN pages = 1 .. Len(pages)
        /\ DOMAIN pages' = 1 .. Len(pages) + 1
        /\ \A no \in 1 .. Len(pages) : pages'[no] = pages[no]
        /\ pages'[Len(pages) + 1] = row
    BY <1>1, <2>1, PageInserted DEF InsertPage
  <2>3. row.url = UrlOf(w) /\ \A column \in Column : row[column] = Empty
    BY DEF Column
  <2> HIDE DEF row
  <2> QED BY <2>2, <2>3 DEF NumbersOf
<1>2. ASSUME UpdateColumn(w)
      PROVE  /\ NumbersOf(u)' = NumbersOf(u)
             /\ \A no \in NumbersOf(u) : \A c \in Column :
                  pages'[no][c] = IF u = UrlOf(w) /\ c = wpc[w] /\ wpc[w] \in call[w].fits
                                  THEN call[w].version ELSE pages[no][c]
             /\ stored'[u] = [c \in Column |->
                               IF u = UrlOf(w) /\ c = wpc[w] /\ wpc[w] \in call[w].fits
                               THEN call[w].version ELSE stored[u][c]]
  <2>1. wpc[w] # "idle" /\ wpc[w] \in Column
    BY <1>2 DEF UpdateColumn, Column
  <2>2. call[w] \in Calls /\ UrlOf(w) \in Url
    BY <2>1, BusyIs
  <2>3. call[w].version \in Version
    BY <2>1, <2>2, CallIs DEF Fits
  <2>4. stored[u] = [c \in Column |-> stored[u][c]]
    BY DEF HistoryTypes
  <2>5. CASE wpc[w] \in call[w].fits
    <3>1. pages' = Stored(UrlOf(w), wpc[w], call[w].version)
      BY <1>2, <2>5 DEF UpdateColumn, Stored
    <3>2. stored' = [stored EXCEPT ![UrlOf(w)] =
                       [stored[UrlOf(w)] EXCEPT ![wpc[w]] = call[w].version]]
      BY <1>2, <2>5 DEF UpdateColumn
    <3>3. stored'[u] = [c \in Column |-> IF u = UrlOf(w) /\ c = wpc[w]
                                         THEN call[w].version ELSE stored[u][c]]
      BY <2>1, <2>2, <2>4, <3>2 DEF HistoryTypes
    <3>4. /\ DOMAIN pages' = DOMAIN pages
          /\ \A no \in DOMAIN pages :
               /\ pages'[no].url = pages[no].url
               /\ pages[no].url # UrlOf(w) => pages'[no] = pages[no]
               /\ pages[no].url = UrlOf(w) => \A c \in Column :
                    pages'[no][c] = IF c = wpc[w] THEN call[w].version ELSE pages[no][c]
      BY <2>1, <2>2, <2>3, <3>1, PageStored
    <3> QED BY <2>5, <3>3, <3>4 DEF NumbersOf
  <2>6. CASE wpc[w] \notin call[w].fits
    BY <1>2, <2>4, <2>6 DEF UpdateColumn, NumbersOf
  <2> QED BY <2>5, <2>6
<1>3. ~InsertPage(w) /\ ~UpdateColumn(w) => UNCHANGED pages
  BY DEF PageStep, Call, Look, SelectNumber, InsertNice, UpdateNice, SelectNice, QueryFails,
         Killed
<1>4. ~UpdateColumn(w) => UNCHANGED stored
  BY DEF PageStep, Call, Look, InsertPage, SelectNumber, InsertNice, UpdateNice, SelectNice,
         QueryFails, Killed, pageHistory
<1>5. UNCHANGED pages => NumbersOf(u)' = NumbersOf(u)
  BY DEF NumbersOf
<1> QED BY <1>1, <1>2, <1>3, <1>4, <1>5

LEMMA NiceRowsAfter ==
  ASSUME PageTypes, NEW w \in Worker, PageStep(w), NEW u \in Url
  PROVE  /\ InsertNice(w) => NicesOf(u)' = IF u = UrlOf(w) THEN NicesOf(u) \cup {call[w].nice}
                                           ELSE NicesOf(u)
         /\ UpdateNice(w) => NicesOf(u)' = IF u = UrlOf(w) /\ NicesOf(u) # {}
                                           THEN {call[w].nice} ELSE NicesOf(u)
         /\ ~InsertNice(w) /\ ~UpdateNice(w) => NicesOf(u)' = NicesOf(u)
<1>0. /\ DOMAIN nices = 1 .. Len(nices) /\ Len(nices) \in Nat
      /\ \A i \in 1 .. Len(nices) : nices[i] \in [url : Url, nice : Nice]
  BY LenProperties, ElementOfSeq DEF PageTypes, PageTypeOK
<1>1. ASSUME InsertNice(w)
      PROVE  NicesOf(u)' = IF u = UrlOf(w) THEN NicesOf(u) \cup {call[w].nice} ELSE NicesOf(u)
  <2> DEFINE row == [url |-> UrlOf(w), nice |-> call[w].nice]
  <2>1. /\ nices' = Append(nices, row) /\ row \in [url : Url, nice : Nice]
    BY <1>1, BusyIs, CallIs DEF InsertNice, PageTypes, Does
  <2>2. /\ DOMAIN nices' = 1 .. Len(nices) + 1
        /\ \A i \in 1 .. Len(nices) : nices'[i] = nices[i]
        /\ nices'[Len(nices) + 1] = row
    BY <2>1, AppendProperties DEF PageTypes, PageTypeOK
  <2>3. row.url = UrlOf(w) /\ row.nice = call[w].nice
    OBVIOUS
  <2> HIDE DEF row
  <2> QED BY <1>0, <2>2, <2>3 DEF NicesOf
<1>2. ASSUME UpdateNice(w)
      PROVE  NicesOf(u)' = IF u = UrlOf(w) /\ NicesOf(u) # {} THEN {call[w].nice}
                           ELSE NicesOf(u)
  <2>1. /\ DOMAIN nices' = DOMAIN nices
        /\ \A i \in DOMAIN nices :
             /\ nices'[i].url = nices[i].url
             /\ nices'[i].nice = IF nices[i].url = UrlOf(w) THEN call[w].nice ELSE nices[i].nice
    BY <1>0, <1>2 DEF UpdateNice
  <2> QED BY <2>1 DEF NicesOf
<1>3. ~InsertNice(w) /\ ~UpdateNice(w) => UNCHANGED nices
  BY DEF PageStep, Call, Look, InsertPage, UpdateColumn, SelectNumber, SelectNice, QueryFails,
         Killed
<1>4. UNCHANGED nices => NicesOf(u)' = NicesOf(u)
  BY DEF NicesOf
<1> QED BY <1>1, <1>2, <1>3, <1>4

\* A step concerns the row the worker has in hand, and no other worker.
LEMMA StepIsOfOneRow ==
  ASSUME PageTypes, NEW w \in Worker, PageStep(w)
  PROVE  /\ \A v \in Worker \ {w} : wpc'[v] = wpc[v] /\ call'[v] = call[v]
         /\ shared \subseteq shared'
         /\ ~Call(w) => /\ wpc[w] # "idle"
                        /\ wpc'[w] # "idle" => call'[w] = call[w]
         /\ Call(w) => /\ wpc[w] = "idle" /\ wpc'[w] = "look" /\ call'[w] \in Calls
                       /\ RowInHand(RowOf(call'[w])) => RowOf(call'[w]) \in shared'
<1> USE DEF PageTypes, PageTypeOK
<1>1. CASE Call(w)
  <2>1. PICK c \in Calls :
          /\ call' = [call EXCEPT ![w] = c]
          /\ shared' = IF RowInHand(RowOf(c)) THEN shared \cup {RowOf(c)} ELSE shared
    BY <1>1 DEF Call
  <2> QED BY <1>1, <2>1 DEF Call
<1>2. CASE ~Call(w)
  <2>1. /\ wpc[w] # "idle"
        /\ \E label \in WorkerLabel : To(w, label) /\ Fits(label, call[w].op)
    BY <1>2, StepMoves
  <2>2. shared \subseteq shared'
    BY <1>2 DEF PageStep, Look, InsertPage, UpdateColumn, SelectNumber, InsertNice, UpdateNice,
         SelectNice, QueryFails, Killed, pageHistory
  <2> QED BY <1>2, <2>1, <2>2 DEF To
<1> QED BY <1>1, <1>2

LEMMA OneInHandStays ==
  ASSUME PageTypes, OneInHand, NEW w \in Worker, PageStep(w)
  PROVE  OneInHand'
<1> SUFFICES ASSUME NEW v \in Worker, NEW x \in Worker, wpc'[v] # "idle", wpc'[x] # "idle",
                    RowOf(call'[v]) = RowOf(call'[x]), v # x
             PROVE  RowOf(call'[v]) \in shared'
  BY DEF OneInHand, RowOf, TableOf
<1>1. CASE Call(w) /\ (v = w \/ x = w)
  BY <1>1, StepIsOfOneRow DEF RowInHand
<1>2. CASE ~(Call(w) /\ (v = w \/ x = w))
  <2>1. /\ wpc[v] # "idle" /\ call'[v] = call[v]
        /\ wpc[x] # "idle" /\ call'[x] = call[x]
    BY <1>2, StepIsOfOneRow
  <2> QED BY <2>1, StepIsOfOneRow DEF OneInHand
<1> QED BY <1>1, <1>2

\* Nobody else inserts the row of a worker that found none, and no row goes away.
LEMMA AnswersStay ==
  ASSUME PageInv, NEW w \in Worker, PageStep(w), NEW v \in Worker
  PROVE  AnswerHolds(v)'
<1> USE DEF PageInv
<1>1. SUFFICES ASSUME wpc'[v] # "idle", RowOf(call'[v]) \notin shared'
               PROVE  /\ wpc'[v] = "insert" => ~IsThere(v)'
                      /\ wpc'[v] \in Column \cup {"select", "update"} => IsThere(v)'
  BY DEF AnswerHolds, RowOf, TableOf
<1>2. CASE Call(w) /\ v = w
  BY <1>2, StepIsOfOneRow DEF Column
<1>3. CASE ~(Call(w) /\ v = w)
  <2>1. wpc[v] # "idle" /\ call'[v] = call[v] /\ RowOf(call[v]) \notin shared
    BY <1>1, <1>3, StepIsOfOneRow
  <2>2. call[v] \in Calls /\ UrlOf(v) \in Url /\ UrlOf(v)' = UrlOf(v)
    BY <2>1, BusyIs DEF PageTypes, UrlOf
  <2>3. call[v].op \in {"op_visited_url", "get_url_no", "get_website_nice", "op_website_nice"}
    BY <2>2, CallIs
  <2>4. IsThere(v) => IsThere(v)'
    <3> DEFINE x == UrlOf(v)
    <3>1. NumbersOf(x) # {} => NumbersOf(x)' # {}
      <4>1. x \in Url
        BY <2>2
      <4>2. \A y \in Url : \/ NumbersOf(y)' = NumbersOf(y)
                           \/ NumbersOf(y)' = NumbersOf(y) \cup {Len(pages) + 1}
        BY PageRowsAfter
      <4> QED BY <2>2, <4>1, <4>2
    <3>2. NicesOf(x) # {} => NicesOf(x)' # {}
      <4>1. x \in Url
        BY <2>2
      <4>2. \A y \in Url : \/ NicesOf(y)' = NicesOf(y)
                           \/ NicesOf(y)' = NicesOf(y) \cup {call[w].nice}
                           \/ NicesOf(y)' = {call[w].nice}
        BY NiceRowsAfter
      <4> QED BY <2>2, <4>1, <4>2
    <3> QED BY <2>1, <2>2, <3>1, <3>2 DEF IsThere
  <2>5. CASE v # w
    <3>1. wpc'[v] = wpc[v]
      BY <2>5, StepIsOfOneRow
    <3>2. ASSUME wpc[v] = "insert" PROVE ~IsThere(v)'
      <4>1. ~IsThere(v)
        BY <2>1, <3>2 DEF AnswerHolds
      <4>2. CASE RowOf(call[w]) = RowOf(call[v]) /\ wpc[w] # "idle"
        BY <2>1, <2>5, <4>2 DEF OneInHand
      <4>3. CASE wpc[w] = "idle"
        <5>1. ~InsertPage(w) /\ ~UpdateColumn(w) /\ ~InsertNice(w) /\ ~UpdateNice(w)
          BY <4>3 DEF InsertPage, UpdateColumn, InsertNice, UpdateNice, Column
        <5> QED BY <2>1, <2>2, <4>1, <5>1, PageRowsAfter, NiceRowsAfter DEF IsThere
      <4>4. CASE RowOf(call[w]) # RowOf(call[v]) /\ wpc[w] # "idle"
        <5>1. call[w].op \in {"op_visited_url", "get_url_no", "get_website_nice",
                              "op_website_nice"}
          BY <4>4, BusyIs, CallIs DEF PageTypes
        <5>2. TableOf(call[w].op) # TableOf(call[v].op) \/ UrlOf(w) # UrlOf(v)
          BY <4>4 DEF RowOf, UrlOf
        <5>3. CASE TableOf(call[v].op) = "visited_url"
          <6>1. UrlOf(w) # UrlOf(v) \/ ~InsertPage(w)
            BY <5>2, <5>3 DEF InsertPage
          <6>2. NumbersOf(UrlOf(v))' = NumbersOf(UrlOf(v))
            BY <2>1, <2>2, <6>1, PageRowsAfter
          <6> QED BY <2>1, <2>2, <4>1, <5>3, <6>2 DEF IsThere
        <5>4. CASE TableOf(call[v].op) # "visited_url"
          <6>1. InsertNice(w) \/ UpdateNice(w) => TableOf(call[w].op) = TableOf(call[v].op)
            BY <2>3, <5>4 DEF InsertNice, UpdateNice, TableOf, Does, PageTypes, Fits
          <6>2. UrlOf(w) # UrlOf(v) \/ (~InsertNice(w) /\ ~UpdateNice(w))
            BY <5>2, <6>1
          <6>3. NicesOf(UrlOf(v))' = NicesOf(UrlOf(v))
            BY <2>1, <2>2, <6>2, NiceRowsAfter
          <6> QED BY <2>1, <2>2, <4>1, <5>4, <6>3 DEF IsThere
        <5> QED BY <5>3, <5>4
      <4> QED BY <4>2, <4>3, <4>4
    <3> QED BY <2>1, <2>4, <3>1, <3>2 DEF AnswerHolds
  <2>6. CASE v = w
    <3> USE DEF Column, PageTypes
    <3>1. CASE Look(w)
      <4>1. wpc'[w] = AfterLook(call[w].op, IsThere(w))
        BY <3>1 DEF Look, To, PageTypeOK
      <4>2. ~InsertPage(w) /\ ~UpdateColumn(w) /\ ~InsertNice(w) /\ ~UpdateNice(w)
        BY <3>1 DEF Look, InsertPage, UpdateColumn, InsertNice, UpdateNice
      <4>3. IsThere(w)' = IsThere(w)
        BY <2>1, <2>2, <2>6, <4>2, PageRowsAfter, NiceRowsAfter DEF IsThere
      <4> QED BY <2>3, <2>6, <4>1, <4>3 DEF AfterLook
    <3>2. CASE InsertPage(w)
      <4>1. IsThere(w)'
        BY <2>1, <2>2, <2>6, <3>2, PageRowsAfter DEF InsertPage, IsThere
      <4>2. wpc'[w] \in {"look", "title"}
        BY <3>2 DEF InsertPage, To, PageTypeOK
      <4> QED BY <2>6, <4>1, <4>2
    <3>3. CASE UpdateColumn(w)
      <4>1. IsThere(w)
        BY <2>1, <2>6, <3>3 DEF AnswerHolds, UpdateColumn
      <4>2. wpc'[w] # "insert"
        BY <3>3 DEF UpdateColumn, To, PageTypeOK, Following
      <4> QED BY <2>4, <2>6, <4>1, <4>2
    <3>4. CASE SelectNumber(w) \/ InsertNice(w) \/ UpdateNice(w) \/ SelectNice(w) \/ Killed(w)
      BY <1>1, <2>6, <3>4 DEF SelectNumber, InsertNice, UpdateNice, SelectNice, Killed, To,
         PageTypeOK
    <3>5. CASE QueryFails(w)
      BY <1>1, <2>1, <2>6, <3>5 DEF QueryFails
    <3> QED BY <1>3, <2>6, <3>1, <3>2, <3>3, <3>4, <3>5 DEF PageStep
  <2> QED BY <2>5, <2>6
<1> QED BY <1>2, <1>3

LEMMA NumbersStayGiven ==
  ASSUME PageInv, NEW w \in Worker, PageStep(w), NEW u \in Url
  PROVE  given'[u] \subseteq NumbersOf(u)'
<1> USE DEF PageInv
<1>1. NumbersOf(u) \subseteq NumbersOf(u)'
  BY PageRowsAfter
<1>2. CASE SelectNumber(w)
  BY <1>1, <1>2, BusyIs DEF SelectNumber, PageTypes, PageTypeOK
<1>3. CASE ~SelectNumber(w)
  <2>1. UNCHANGED given
    BY <1>3 DEF PageStep, Call, Look, InsertPage, UpdateColumn, InsertNice, UpdateNice,
       SelectNice, QueryFails, Killed, pageHistory
  <2> QED BY <1>1, <2>1
<1> QED BY <1>2, <1>3

LEMMA PageRowStaysWhole ==
  ASSUME PageInv, NEW w \in Worker, PageStep(w), NEW u \in Url
  PROVE  PageRowIsWhole(u)'
<1> USE DEF PageInv
<1>1. SUFFICES ASSUME <<"visited_url", u>> \notin shared'
               PROVE  PageRowIsWhole(u)'
  BY DEF PageRowIsWhole
<1>2. <<"visited_url", u>> \notin shared
  BY <1>1, StepIsOfOneRow
<1>3. CASE InsertPage(w)
  <2>1. CASE u = UrlOf(w)
    <3>1. ~IsThere(w) /\ TableOf(call[w].op) = "visited_url"
      BY <1>2, <1>3, <2>1 DEF InsertPage, AnswerHolds, RowOf, UrlOf
    <3>2. NumbersOf(u) = {}
      BY <2>1, <3>1 DEF IsThere
    <3>3. NumbersOf(u)' = {Len(pages) + 1}
      BY <1>3, <2>1, <3>2, PageRowsAfter
    <3>4. \A column \in Column : pages'[Len(pages) + 1][column] = Empty
      BY <1>3, PageRowsAfter
    <3>5. stored'[u] = [c \in Column |-> Empty]
      BY <1>2, <1>3, <3>2, PageRowsAfter DEF PageRowIsWhole, InsertPage, UpdateColumn, Column
    <3> QED BY <3>3, <3>4, <3>5 DEF PageRowIsWhole
  <2>2. CASE u # UrlOf(w)
    <3>1. UNCHANGED stored
      BY <1>3, PageRowsAfter DEF InsertPage, UpdateColumn, Column
    <3>2. NumbersOf(u)' = NumbersOf(u) /\ \A no \in NumbersOf(u) : pages'[no] = pages[no]
      BY <1>3, <2>2, PageRowsAfter
    <3> QED BY <1>2, <3>1, <3>2 DEF PageRowIsWhole
  <2> QED BY <2>1, <2>2
<1>4. CASE UpdateColumn(w)
  <2>0. /\ NumbersOf(u)' = NumbersOf(u)
        /\ \A no \in NumbersOf(u) : \A c \in Column :
             pages'[no][c] = IF u = UrlOf(w) /\ c = wpc[w] /\ wpc[w] \in call[w].fits
                             THEN call[w].version ELSE pages[no][c]
        /\ stored'[u] = [c \in Column |->
                          IF u = UrlOf(w) /\ c = wpc[w] /\ wpc[w] \in call[w].fits
                          THEN call[w].version ELSE stored[u][c]]
    BY <1>4, PageRowsAfter
  <2>1. u = UrlOf(w) => NumbersOf(u) # {}
    BY <1>2, <1>4 DEF UpdateColumn, AnswerHolds, RowOf, UrlOf, IsThere, TableOf, Column,
       PageTypes, Fits
  <2>2. NumbersOf(u)' = NumbersOf(u)
    BY <2>0
  <2>3. /\ \A m, n \in NumbersOf(u) : m = n
        /\ \A no \in NumbersOf(u) : \A column \in Column :
             pages[no][column] = stored[u][column]
        /\ NumbersOf(u) = {} => stored[u] = [c \in Column |-> Empty]
    BY <1>2 DEF PageRowIsWhole
  <2>4. ASSUME NEW no \in NumbersOf(u), NEW c \in Column
        PROVE  pages'[no][c] = stored'[u][c]
    <3> DEFINE Updated == u = UrlOf(w) /\ c = wpc[w] /\ wpc[w] \in call[w].fits
    <3>1. pages'[no][c] = IF Updated THEN call[w].version ELSE pages[no][c]
      BY <2>0
    <3>2. stored'[u][c] = IF Updated THEN call[w].version ELSE stored[u][c]
      BY <2>0
    <3> HIDE DEF Updated
    <3> QED BY <2>3, <3>1, <3>2
  <2>5. NumbersOf(u) = {} => stored'[u] = [c \in Column |-> Empty]
    BY <2>0, <2>1, <2>3
  <2> QED BY <2>2, <2>3, <2>4, <2>5 DEF PageRowIsWhole
<1>5. CASE ~InsertPage(w) /\ ~UpdateColumn(w)
  <2>1. NumbersOf(u)' = NumbersOf(u) /\ UNCHANGED <<pages, stored>>
    BY <1>5, PageRowsAfter
  <2> QED BY <1>2, <2>1 DEF PageRowIsWhole
<1> QED BY <1>3, <1>4, <1>5

LEMMA NiceRowStaysTold ==
  ASSUME PageInv, NEW w \in Worker, PageStep(w), NEW u \in Url
  PROVE  NiceRowIsTold(u)'
<1> USE DEF PageInv
<1>1. SUFFICES ASSUME <<"website_nice", u>> \notin shared'
               PROVE  NiceRowIsTold(u)'
  BY DEF NiceRowIsTold
<1>2. /\ <<"website_nice", u>> \notin shared
      /\ NicesOf(u) = {} => told[u].set = NoNice
      /\ NicesOf(u) # {} => NicesOf(u) = {told[u].set}
      /\ told[u].got \subseteq {Min({told[u].set, NoNice})}
  BY <1>1, StepIsOfOneRow DEF NiceRowIsTold
<1>3. told \in [Url -> [set : Nice \cup {NoNice}, got : SUBSET Int]]
  BY DEF PageTypes, HistoryTypes
<1>4. u = UrlOf(w) /\ wpc[w] # "idle" /\ TableOf(call[w].op) # "visited_url" =>
        /\ wpc[w] = "insert" => NicesOf(u) = {}
        /\ wpc[w] \in {"select", "update"} => NicesOf(u) # {}
  BY <1>2 DEF AnswerHolds, RowOf, UrlOf, IsThere, TableOf
<1>5. CASE InsertNice(w)
  <2>1. u = UrlOf(w) => /\ NicesOf(u)' = {call[w].nice}
                       /\ told'[u] = [set |-> call[w].nice, got |-> {}]
    BY <1>3, <1>4, <1>5, NiceRowsAfter DEF InsertNice, Setting, Does, TableOf
  <2>2. u # UrlOf(w) => NicesOf(u)' = NicesOf(u) /\ told'[u] = told[u]
    BY <1>3, <1>5, NiceRowsAfter DEF InsertNice, Setting
  <2> QED BY <1>2, <2>1, <2>2 DEF NiceRowIsTold
<1>6. CASE UpdateNice(w)
  <2>0. TableOf(call[w].op) # "visited_url"
    BY <1>6 DEF UpdateNice, TableOf, PageTypes, Fits
  <2>1. u = UrlOf(w) => /\ NicesOf(u)' = {call[w].nice}
                       /\ told'[u] = [set |-> call[w].nice, got |-> {}]
    BY <1>3, <1>4, <1>6, <2>0, NiceRowsAfter DEF UpdateNice, Setting
  <2>2. u # UrlOf(w) => NicesOf(u)' = NicesOf(u) /\ told'[u] = told[u]
    BY <1>3, <1>6, NiceRowsAfter DEF UpdateNice, Setting
  <2> QED BY <1>2, <2>1, <2>2 DEF NiceRowIsTold
<1>7. CASE ~InsertNice(w) /\ ~UpdateNice(w)
  <2>1. NicesOf(u)' = NicesOf(u)
    BY <1>7, NiceRowsAfter
  <2>2. ASSUME NEW x, Told(w, x),
               u = UrlOf(w) /\ Does(w, "get_website_nice") => x = Min({told[u].set, NoNice})
        PROVE  NiceRowIsTold(u)'
    <3>1. told'[u].set = told[u].set /\ told'[u].got \subseteq {Min({told[u].set, NoNice})}
      BY <1>2, <1>3, <2>2 DEF Told
    <3> QED BY <1>2, <2>1, <3>1 DEF NiceRowIsTold
  <2>3. CASE UNCHANGED told
    BY <1>2, <2>1, <2>3 DEF NiceRowIsTold
  <2>4. CASE Look(w) /\ ~IsThere(w)
    <3>1. u = UrlOf(w) /\ Does(w, "get_website_nice") => told[u].set = NoNice
      BY <1>2, <2>4 DEF IsThere, Does, TableOf
    <3>2. Min({NoNice, NoNice}) = NoNice
      BY DEF Min, NoNice
    <3> QED BY <2>2, <2>4, <3>1, <3>2 DEF Look
  <2>5. CASE SelectNice(w)
    <3>1. u = UrlOf(w) => NicesOf(u) = {told[u].set}
      BY <1>2, <1>4, <2>5 DEF SelectNice, Does, TableOf
    <3>2. u = UrlOf(w) => Lowest(NicesOf(UrlOf(w))) = Min({told[u].set, NoNice})
      <4>1. {told[u].set} \cup {NoNice} = {told[u].set, NoNice}
        OBVIOUS
      <4> QED BY <3>1, <4>1 DEF Lowest
    <3> QED BY <2>2, <2>5, <3>2 DEF SelectNice
  <2> QED BY <1>7, <2>3, <2>4, <2>5
          DEF PageStep, Call, Look, InsertPage, UpdateColumn, SelectNumber, QueryFails, Killed,
              pageHistory
<1> QED BY <1>5, <1>6, <1>7

LEMMA PageInvariant == PageSpec => []PageInv
<1>1. PageInit => PageInv
  <2> SUFFICES ASSUME PageInit PROVE PageInv
    OBVIOUS
  <2> USE DEF PageInit
  <2>1. PageTypes
    BY PageAssumption DEF PageTypes, PageTypeOK, HistoryTypes, Fits, Column
  <2>2. OneInHand /\ \A w \in Worker : AnswerHolds(w)
    BY DEF OneInHand, AnswerHolds
  <2>3. \A u \in Url : NumbersOf(u) = {} /\ NicesOf(u) = {}
    BY DEF NumbersOf, NicesOf
  <2>4. \A u \in Url : given[u] \subseteq NumbersOf(u) /\ PageRowIsWhole(u) /\ NiceRowIsTold(u)
    BY <2>3 DEF PageRowIsWhole, NiceRowIsTold
  <2> QED BY <2>1, <2>2, <2>4 DEF PageInv
<1>2. PageInv /\ [PageNext]_pageVars => PageInv'
  <2>1. ASSUME PageInv, NEW w \in Worker, PageStep(w) PROVE PageInv'
    <3>1. PageTypes' /\ OneInHand'
      BY <2>1, PageStepKeepsTypes, OneInHandStays DEF PageInv
    <3>2. \A v \in Worker : AnswerHolds(v)'
      BY <2>1, AnswersStay
    <3>3. \A u \in Url : /\ given'[u] \subseteq NumbersOf(u)'
                         /\ PageRowIsWhole(u)' /\ NiceRowIsTold(u)'
      BY <2>1, NumbersStayGiven, PageRowStaysWhole, NiceRowStaysTold
    <3> QED BY <3>1, <3>2, <3>3 DEF PageInv
  <2>2. ASSUME PageInv, UNCHANGED pageVars PROVE PageInv'
    <3> USE <2>2 DEF pageVars, counts, pageHistory, PageInv
    <3>1. PageTypes'
      BY DEF PageTypes, PageTypeOK, HistoryTypes
    <3>2. OneInHand'
      BY DEF OneInHand
    <3>3. \A u \in Url : NumbersOf(u)' = NumbersOf(u) /\ NicesOf(u)' = NicesOf(u)
      BY DEF NumbersOf, NicesOf
    <3>4. ASSUME NEW w \in Worker PROVE AnswerHolds(w)'
      <4>1. AnswerHolds(w)
        OBVIOUS
      <4>2. IsThere(w)' = IsThere(w)
        BY DEF IsThere, UrlOf, NumbersOf, NicesOf
      <4> QED BY <4>1, <4>2 DEF AnswerHolds
    <3>5. ASSUME NEW u \in Url PROVE given'[u] \subseteq NumbersOf(u)' /\ PageRowIsWhole(u)'
      BY <3>3 DEF PageRowIsWhole
    <3>6. ASSUME NEW u \in Url PROVE NiceRowIsTold(u)'
      BY <3>3 DEF NiceRowIsTold
    <3> QED BY <3>1, <3>2, <3>4, <3>5, <3>6
  <2> QED BY <2>1, <2>2 DEF PageNext
<1> QED BY <1>1, <1>2, PTL DEF PageSpec

\* The tables of the pages keep their types.
THEOREM PageTablesKeepTheirTypes == PageSpec => []PageTypeOK
<1>1. PageInv => PageTypeOK
  BY DEF PageInv, PageTypes
<1> QED BY <1>1, PageInvariant, PTL

\* For any number of workers and URLs: a URL only one worker at a time works on
\* has one row in visited_url, and every column of it shows what was stored
\* there last, whatever fails and whatever was too long (op_visited_url).
THEOREM PagesStayWhole == PageSpec => []PagesAreWhole
<1>1. PageInv => PagesAreWhole
  <2> SUFFICES ASSUME PageInv, NEW u \in Url, <<"visited_url", u>> \notin shared
               PROVE  /\ Cardinality(NumbersOf(u)) <= 1
                      /\ \A no \in NumbersOf(u) : \A column \in Column :
                           pages[no][column] = stored[u][column]
                      /\ NumbersOf(u) = {} => stored[u] = [c \in Column |-> Empty]
    BY DEF PagesAreWhole
  <2>1. PageRowIsWhole(u)
    BY DEF PageInv
  <2>2. Cardinality(NumbersOf(u)) <= 1
    <3>1. CASE NumbersOf(u) = {}
      BY <3>1, FS_EmptySet
    <3>2. ASSUME NEW no \in NumbersOf(u) PROVE Cardinality(NumbersOf(u)) <= 1
      <4>1. NumbersOf(u) = {no}
        BY <2>1, <3>2 DEF PageRowIsWhole
      <4>2. Cardinality({no}) = 1
        BY FS_Singleton
      <4> QED BY <4>1, <4>2
    <3> QED BY <3>1, <3>2
  <2> QED BY <2>1, <2>2 DEF PageRowIsWhole
<1> QED BY <1>1, PageInvariant, PTL

\* get_url_no gives a page the number of one of its rows, and two numbers only
\* when two workers, or one that failed halfway, have inserted two rows.
THEOREM NumbersStayKept == PageSpec => []NumbersAreKept
<1>1. PageInv => NumbersAreKept
  <2> SUFFICES ASSUME PageInv, NEW u \in Url
               PROVE  /\ given[u] \subseteq NumbersOf(u)
                      /\ Cardinality(given[u]) > 1 =>
                           <<"visited_url", u>> \in shared /\ Cardinality(NumbersOf(u)) > 1
    BY DEF NumbersAreKept
  <2>1. given[u] \subseteq NumbersOf(u) /\ PageRowIsWhole(u)
    BY DEF PageInv
  <2>2. IsFiniteSet(NumbersOf(u))
    <3>1. NumbersOf(u) \subseteq 1 .. Len(pages) /\ Len(pages) \in Nat
      BY LenProperties DEF PageInv, PageTypes, PageTypeOK, NumbersOf
    <3>2. IsFiniteSet(1 .. Len(pages))
      BY <3>1, FS_Interval
    <3> QED BY <3>1, <3>2, FS_Subset
  <2>3. /\ IsFiniteSet(given[u]) /\ Cardinality(given[u]) <= Cardinality(NumbersOf(u))
        /\ Cardinality(NumbersOf(u)) \in Nat /\ Cardinality(given[u]) \in Nat
    BY <2>1, <2>2, FS_Subset, FS_CardinalityType
  <2>4. ASSUME <<"visited_url", u>> \notin shared PROVE Cardinality(NumbersOf(u)) <= 1
    <3>1. CASE NumbersOf(u) = {}
      BY <3>1, FS_EmptySet
    <3>2. ASSUME NEW no \in NumbersOf(u) PROVE Cardinality(NumbersOf(u)) <= 1
      <4>1. NumbersOf(u) = {no}
        BY <2>1, <2>4, <3>2 DEF PageRowIsWhole
      <4>2. Cardinality({no}) = 1
        BY FS_Singleton
      <4> QED BY <4>1, <4>2
    <3> QED BY <3>1, <3>2
  <2> QED BY <2>1, <2>3, <2>4
<1> QED BY <1>1, PageInvariant, PTL

\* get_website_nice answers the nice that op_website_nice set last, 10 at the
\* most and 10 before any was set, unless two workers had the website's row in
\* hand at once or one was stopped at it.
THEOREM NicesStayObeyed == PageSpec => []NicesAreObeyed
<1>1. PageInv => NicesAreObeyed
  BY DEF PageInv, NicesAreObeyed, NiceRowIsTold
<1> QED BY <1>1, PageInvariant, PTL
=============================================================================
