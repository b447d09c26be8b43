------------------------------- MODULE Tables -------------------------------
(***************************************************************************)
(* Database tables: a table is a function from the primary keys inserted   *)
(* so far to rows.                                                         *)
(***************************************************************************)

IsTable(table, keys, rows) ==
  /\ DOMAIN table \subseteq keys
  /\ table \in [DOMAIN table -> rows]

EmptyTable == [k \in {} |-> k]

\* db.add(row): the table with one more row.
Insert(table, key, row) ==
  [k \in DOMAIN table \cup {key} |-> IF k = key THEN row ELSE table[k]]

\* db.delete(row), or DELETE ... WHERE: the table without some rows.
Remove(table, keys) == [k \in DOMAIN table \ keys |-> table[k]]

=============================================================================
