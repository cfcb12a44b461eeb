----------------------------- MODULE MCMigrations -----------------------------
(* Instances of Migrations for TLC.                                        *)
EXTENDS Migrations, TLC
===============================================================================
