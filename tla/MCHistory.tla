------------------------------- MODULE MCHistory -------------------------------
(* History alone, for the retention.                                          *)
EXTENDS History, HistoryStories
=============================================================================
