----------------------------- MODULE MCFtsTouch -----------------------------
(* fts1ba90a on small instances: two fingers, three events in the FIFO.    *)
EXTENDS FtsTouch
=============================================================================
