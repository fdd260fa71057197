--------------------------- MODULE MCErrorManager ---------------------------
(* Instances of ErrorManager for TLC. *)
EXTENDS ErrorManager

(* A handler for everything, one for trap errors and one for fatal errors. *)
MCEntries ==
  {[priority |-> 1, source |-> NoFilter, level |-> NoFilter],
   [priority |-> 2, source |-> TrapSource, level |-> NoFilter],
   [priority |-> 1, source |-> NoFilter, level |-> Fatal]}

(* An unhandled trap, a fatal error with the largest code, and a mere note *)
MCReports ==
  {[source |-> TrapSource, level |-> Critical, number |-> 13],
   [source |-> 8, level |-> Fatal, number |-> 65535],
   [source |-> UnknownSource, level |-> 4, number |-> 0]}
=============================================================================
