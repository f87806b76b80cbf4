-------------------------------- MODULE Claims --------------------------------
(***************************************************************************)
(* What the README of srrdb says of recovery and indexes, stated of the   *)
(* model.  The code does otherwise: each of these is refuted.              *)
(***************************************************************************)
EXTENDS Recovery

\* A restart finds each table with as many rows as it had: the log recovers
\* the operations not yet in the files and no others (README.md:227).
RowCountSurvives ==
  AtRest => \A t \in DOMAIN contents(memory) :
              Cardinality(DOMAIN rows_of(recovered.storage, t))
                = Cardinality(DOMAIN rows_of(storage, t))

\* What has returned survives a crash (README.md:227).
AcknowledgedSurvives == AtRest => contents(recovered) = contents(memory)

\* When every statement has returned, each index that has data has every row
\* of its table (README.md:196).
IndexMaintained == AtRest => IndexComplete
===============================================================================
