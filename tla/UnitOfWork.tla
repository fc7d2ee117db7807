----------------------------- MODULE UnitOfWork -----------------------------
(***************************************************************************)
(* How a SQLAlchemy session (app/db/session.py: expire_on_commit=False, no *)
(* version column, no row lock, READ COMMITTED) writes a row back.  A      *)
(* handler loads a row, assigns attributes of the loaded object and        *)
(* commits; the UPDATE names only the attributes whose value differs from  *)
(* the one that was loaded.  Every other column keeps what the database    *)
(* holds at the commit, whoever wrote it.                                  *)
(***************************************************************************)

\* The value of one column after the commit.
Dirty(loaded, assigned, stored) ==
  IF assigned # loaded THEN assigned ELSE stored

=============================================================================
