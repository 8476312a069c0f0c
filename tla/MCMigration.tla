---------------------------- MODULE MCMigration ----------------------------
(***************************************************************************)
(* Every layout, fresh installations included.                             *)
(***************************************************************************)
EXTENDS Migration

AllLayouts == Layout
=============================================================================
