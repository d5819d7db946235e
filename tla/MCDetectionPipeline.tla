------------------------- MODULE MCDetectionPipeline ------------------------
(***************************************************************************)
(* DetectionPipeline for TLC: two workers, alerts at two samples.          *)
(***************************************************************************)
EXTENDS DetectionPipeline, TLC

CONSTANTS w1, w2

MCWorkers == {w1, w2}
WorkerSymmetry == Permutations(MCWorkers)
From(src, kind) == [src |-> src, dst |-> "server", kind |-> kind]
MCSpared == {"local"}

\* One source thrice; a source cleaned up after by others; four sources for the one place
\* of an application engine.
Queries == {<<From("a", "counted"), From("a", "counted"), From("a", "counted")>>,
            <<From("a", "counted"), From("a", "counted"), From("b", "other"),
              From("local", "counted")>>,
            <<From("a", "counted"), From("b", "counted"), From("c", "counted"),
              From("d", "counted")>>}
\* Alerts of one source, and of two for one place among the tracked.
Alerts == {<<From("a", "alert"), From("a", "alert"), From("a", "alert")>>,
           <<From("a", "alert"), From("b", "alert"), From("a", "alert"),
             From("local", "alert")>>}
MCTraffics == Queries \cup Alerts
=============================================================================
