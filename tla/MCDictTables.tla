----------------------------- MODULE MCDictTables -----------------------------
(***************************************************************************)
(* The tables of the databases for TLC: two admins and two dictionaries,   *)
(* with a book without numbers that needs two insert statements and one    *)
(* with numbers, or two workers and two URLs.  The two groups of           *)
(* operations have no table in common, so nothing comes of a step of one   *)
(* between two steps of the other, and a behaviour here has steps of one   *)
(* group only.                                                             *)
(***************************************************************************)
EXTENDS DictTables, PageTables

CONSTANTS a1, a2, d1, d2, v1, v2, v3, busy, w1, w2, u1, u2, p1, p2

BooksOfTwo == {[w \in {v1, v2, v3} |-> 0],
               [w \in {v1, v2} |-> IF w = v1 THEN 2 ELSE 1]}

Alike == {a @@ n : a \in Permutations(Admin), n \in Permutations(Name)}
         \cup {w @@ u @@ v : w \in Permutations(Worker), u \in Permutations(Url),
                            v \in Permutations(Version)}

TablesInit == Init /\ PageInit

TablesNext == \/ calls = 0 /\ Next /\ UNCHANGED pageVars
              \/ jobs = 0 /\ PageNext /\ UNCHANGED vars

TablesSpec == TablesInit /\ [][TablesNext]_<<vars, pageVars>>
=============================================================================
