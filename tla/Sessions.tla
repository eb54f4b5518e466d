-------------------------------- MODULE Sessions --------------------------------
(***************************************************************************)
(* A session with each of the three things that may hold it: one visitor,   *)
(* the lease server, the browser pool.  Or no session: a journey that holds *)
(* the owned Indexes itself.                                                *)
(***************************************************************************)
EXTENDS SharedBrowsers, SessionServer, IndexProcesses

vars == <<sessionVars, poolVars, serverVars, indexVars>>

Init == SessionInit /\ PoolInit /\ ServerInit /\ IndexInit

\* The callback of withDemoSession ends after the server and the pool are closed.
Ending == RequestClose /\ (front = "pool" => poolClosed /\ line = <<>>)

OfSession ==
  \/ (Serve \/ Host \/ Visitor \/ Ending \/ Interrupt) /\ UNCHANGED <<poolVars, serverVars>>
  \/ front = "pool" /\ PoolNext /\ UNCHANGED serverVars
  \/ front = "lease" /\ ServerNext /\ UNCHANGED poolVars

Next ==
  \/ front # "journey" /\ OfSession /\ UNCHANGED indexVars
  \/ front = "journey" /\ IndexNext /\ UNCHANGED <<sessionVars, poolVars, serverVars>>

Spec == Init /\ [][Next]_vars
================================================================================
