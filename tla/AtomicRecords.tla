---------------------------- MODULE AtomicRecords ----------------------------
(***************************************************************************)
(* What callers of the record store rely on: a table of versioned records  *)
(* of one owner, in which a transaction takes effect all at once, on the   *)
(* rows as they are at that moment, or not at all.                         *)
(***************************************************************************)
EXTENDS Naturals, Sequences

CONSTANTS
  Records,      \* keys: a collection and a record id
  Requests,
  Programs      \* what a request may do: sequences of store operations

VARIABLES
  db,           \* the table
  past          \* rows each record has ever had

\* `marks' stands for the data: the requests whose change it contains.
NoRow == [version |-> 0, marks |-> {}]

\* The table after one operation of request r; `restore' has what the record once was.
After(op, r, table) ==
  LET row    == table[op.on]
      exists == row.version > 0
      put(x) == {[table EXCEPT ![op.on] = x]}
  IN CASE op.do \in {"mutate", "save"} ->
            IF exists THEN put([version |-> row.version + 1, marks |-> row.marks \cup {r}])
                      ELSE {}
       [] op.do = "create" -> IF exists THEN {} ELSE put([version |-> 1, marks |-> {r}])
       [] op.do = "ensure" -> IF exists THEN {table} ELSE put([version |-> 1, marks |-> {r}])
       [] op.do = "delete" -> put(NoRow)
       [] op.do = "restore" ->
            IF exists THEN {table} ELSE UNION {put(x) : x \in past[op.on] \cup {NoRow}}
       [] OTHER -> {table}

\* The tables that operations first to last of p may end with, none of them refused.
Outcomes(p, first, last, r) ==
  LET tables[n \in 0 .. last] ==
        IF n < first THEN {db} ELSE UNION {After(p[n], r, t) : t \in tables[n - 1]}
  IN tables[last]

\* From the first scope to the end a program is one transaction; before it, each operation is.
Starts(p) == {i \in DOMAIN p : \A j \in 1 .. i - 1 : p[j].do # "enter"}

Transactions(p) == {<<i, IF p[i].do = "enter" THEN Len(p) ELSE i>> : i \in Starts(p)}

Commit(r, p, first, last) ==
  /\ db' \in Outcomes(p, first, last, r)
  /\ past' = [k \in Records |-> past[k] \cup ({db'[k]} \ {NoRow})]

Init ==
  /\ db \in [Records -> {NoRow, [version |-> 1, marks |-> {}]}]
  /\ past = [k \in Records |-> {db[k]} \ {NoRow}]

Next == \E r \in Requests, p \in Programs : \E t \in Transactions(p) : Commit(r, p, t[1], t[2])

Spec == Init /\ [][Next]_<<db, past>>
=============================================================================
