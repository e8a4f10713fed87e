---------------------------- MODULE ShopDatabase ----------------------------
(***************************************************************************)
(* The embedded PostgreSQL database as the recovery code of Stockiha sees  *)
(* it: which migrations its _sqlx_migrations table records, whether every  *)
(* schema those migrations created is still there, and which of the shop's *)
(* committed entries it holds.  Migration versions are numbered 1, 2, ...  *)
(* in file order; 0 stands for "no _sqlx_migrations table".                *)
(***************************************************************************)
EXTENDS Integers, FiniteSets

CONSTANTS
    Entries,    \* the pieces of business data a shop may commit
    MaxSchema   \* the latest migration any build of the application embeds

ASSUME MaxSchemaAssumption == MaxSchema \in Nat \ {0}

Contents == [applied: 0..MaxSchema, whole: BOOLEAN, data: SUBSET Entries]

\* What reset_all_schemas leaves when it has run to its end.
EmptyDatabase == [applied |-> 0, whole |-> TRUE, data |-> {}]

Verdicts == {"UpToDate", "OlderThanBinary", "NewerThanBinary"}

\* check_schema_compatibility on a connection whose query succeeded.
Compare(binary, database) ==
    CASE database.applied = binary -> "UpToDate"
      [] database.applied < binary -> "OlderThanBinary"
      [] OTHER                     -> "NewerThanBinary"

\* The verdicts a check may return: the comparison, or Unknown when the
\* query fails for any reason but a missing table.
CheckedVerdicts(binary, database) == {Compare(binary, database), "Unknown"}

\* Some schemas dropped, each in a statement of its own, public (which holds
\* _sqlx_migrations) not among them yet.
PartlyDropped(database) ==
    {[database EXCEPT !.whole = FALSE, !.data = d] : d \in SUBSET database.data}

\* One migration file applied, in one transaction with its version record.
MigratedOnce(database) == [database EXCEPT !.applied = @ + 1]

\* What a pg_restore that stops part way, or goes on past its errors, leaves of an
\* archive when nothing wraps the archive in one transaction.
PartlyRestored(content) ==
    {EmptyDatabase} \cup
    {[applied |-> v, whole |-> FALSE, data |-> d] :
        v \in {0, content.applied}, d \in SUBSET content.data}
=============================================================================
