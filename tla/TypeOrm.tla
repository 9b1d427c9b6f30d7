------------------------------ MODULE TypeOrm ------------------------------
(***************************************************************************)
(* What TypeORM's Repository.save(entity) does to one column of a row that *)
(* exists already.  save is two statements: a SELECT that loads the row    *)
(* again, and an UPDATE of exactly the columns in which the entity differs *)
(* from what that SELECT loaded.  Any other commit may fall between the    *)
(* two, and between the query that first produced the entity and the       *)
(* SELECT.  The modules of this project model the two statements as two    *)
(* actions; the second one applies SavedColumn to each column.             *)
(***************************************************************************)

\* The value of a column after the UPDATE: `db` is the row's value when the
\* UPDATE runs, `loaded` the value the SELECT returned, `entity` the value of
\* the object handed to save.
SavedColumn(db, loaded, entity) == IF entity = loaded THEN db ELSE entity
=============================================================================
