---------------------------- MODULE MCModelCache ----------------------------
(***************************************************************************)
(* The instance of ModelCache that TLC checks: a server with several       *)
(* handler threads and a command-line process of one share one cache.      *)
(***************************************************************************)
EXTENDS ModelCache

CONSTANTS Server, CommandLine,  \* the processes
          Single                \* the thread of the command line

MCProcessOf == [t \in Callers |-> IF t = Single THEN CommandLine ELSE Server]
=============================================================================
