------------------------------ MODULE MCSeeder ------------------------------
(* Seeder on the tables of MCDatabase.                                     *)
EXTENDS Seeder, MCDatabase
=============================================================================
