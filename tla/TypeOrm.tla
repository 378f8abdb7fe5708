------------------------------ MODULE TypeOrm ------------------------------
(***************************************************************************)
(* repository.save(entity) of TypeORM, as the services of src/backend use  *)
(* it on an entity they found earlier.  save() runs two statements.  The   *)
(* first selects the row again and keeps the columns in which the entity   *)
(* differs from it; the second updates those columns and no others.  Rows  *)
(* carry no version column, so nothing notices that the row was changed    *)
(* after the handler read it: the entity's old values are written over the *)
(* newer ones.                                                             *)
(***************************************************************************)

\* The columns the UPDATE will set, from the SELECT that save() runs.
Changed(row, entity) == {c \in DOMAIN row : entity[c] # row[c]}

\* The row after the UPDATE of those columns.
Updated(row, entity, cols) ==
  [c \in DOMAIN row |-> IF c \in cols THEN entity[c] ELSE row[c]]
=============================================================================
