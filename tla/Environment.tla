---------------------------- MODULE Environment -----------------------------
(***************************************************************************)
(* The services LevelDB takes from its environment, side by side: the lock *)
(* file and the background thread of the POSIX environment, the cache of   *)
(* tables over its files, and the files of the environment in memory.      *)
(***************************************************************************)
EXTENDS TableCache, MemEnv

allVars == <<vars, memVars>>

EnvironmentInit == Init /\ MemInit

EnvironmentNext ==
  \/ Next /\ UNCHANGED memVars
  \/ MemNext /\ UNCHANGED <<lockVars, workVars, tableVars>>

(* The background thread is a thread of the process: it is scheduled. *)
EnvironmentSpec ==
  /\ EnvironmentInit
  /\ [][EnvironmentNext]_allVars
  /\ WF_allVars(WorkStep /\ UNCHANGED <<lockVars, tableVars, memVars>>)
=============================================================================
