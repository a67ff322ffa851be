--------------------------- MODULE MCConsoleBlank ---------------------------
(* console-blank on small instances: dark after two idle polls.            *)
EXTENDS ConsoleBlank
=============================================================================
