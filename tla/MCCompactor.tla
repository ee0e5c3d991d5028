----------------------------- MODULE MCCompactor -----------------------------
(***************************************************************************)
(* Compactor for model checking: the values of its constants that are not  *)
(* plain numbers or model values.                                          *)
(***************************************************************************)
EXTENDS Compactor, TLC

CONSTANTS t1, t2

MCTableOrder == <<t1, t2>>

\* Durations for generations 2 and 3, in the unit of Times
MCGenerationDurations == (2 :> 2) @@ (3 :> 1)

\* A file whose rows span two time units, and a file of one row of another
\* series: before them, so that the compacted rows are out of time order,
\* or between them
MCFileRows     == {{<<1, 1>>, <<1, 3>>}, {<<2, 0>>}}
MCFileRowsIn   == {{<<1, 1>>, <<1, 3>>}, {<<2, 2>>}}

\* One kind of file, long enough to be compacted by itself, where the run
\* is about the jobs and not the rows
MCFileRowsOne  == {{<<1, 1>>, <<1, 3>>}}

=============================================================================
