------------------------------ MODULE MCSchema ------------------------------
(* Instances of Schema: two operators who may run alembic at the same      *)
(* time, interchangeable with each other.                                  *)
EXTENDS Schema, TLC

MigratorSymmetry == Permutations(Migrators)
=============================================================================
