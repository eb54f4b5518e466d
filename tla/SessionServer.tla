---------------------------- MODULE SessionServer ----------------------------
(***************************************************************************)
(* The HTTP server in front of one session, with leases: startSessionServer *)
(* of demo/sessionServer.ts for a single session.                           *)
(*                                                                         *)
(* One visitor at a time holds the lease.  When it expires the next request *)
(* resets the session, and nobody is served until that has ended.  A form   *)
(* is bound to a generation by its token; its body is read in between the   *)
(* check of the lease and the check of the token.  A token is identified    *)
(* with the generation it was made for.                                     *)
(***************************************************************************)
EXTENDS Session, FiniteSets

CONSTANTS Visitors, NoVisitor

ASSUME VisitorAssumption == NoVisitor \notin Visitors

None == -1

VARIABLES
  lease,      \* the visitor whose cookie matches, NoVisitor for none
  expired,    \* now >= lease.expiresAt
  leaseReset, \* leaseReset and leaseResetFailed
  rotated,     \* state.generation, and with it state.token
  page,       \* the generation of the page each visitor has
  posting,    \* the generation on the form whose body is being read
  actors      \* history: who had an operation accepted, by generation

serverVars == <<lease, expired, leaseReset, rotated, page, posting, actors>>

\* Every request rotates the token to the session's generation first.
Rotate == rotated' = generation

\* The lease has run out: this request starts the reset and is told to wait.
LeaseEnds ==
  /\ lease # NoVisitor /\ expired /\ leaseReset # "running"
  /\ lease' = NoVisitor /\ expired' = FALSE /\ Rotate
  /\ \/ closing # "no" /\ leaseReset' = "failed" /\ UNCHANGED sessionVars
     \/ closing = "no" /\ leaseReset' = "running" 
        /\ \/ resetting /\ UNCHANGED sessionVars
           \/ RequestReset
  /\ UNCHANGED <<page, posting, actors>>

LeaseResetSettles ==
  /\ leaseReset = "running" /\ ~resetting
  /\ leaseReset' = IF fixture = "broken" THEN "failed" ELSE "no"
  /\ UNCHANGED <<lease, expired, rotated, page, posting, actors, sessionVars>>

\* The lease does not stand in the way of v's request.
Leased(v) == lease = v /\ ~expired /\ leaseReset = "no"

\* GET / by someone while nobody holds the lease.
Grant(v) ==
  /\ lease = NoVisitor /\ leaseReset = "no"
  /\ lease' = v /\ page' = [page EXCEPT ![v] = generation] /\ Rotate
  /\ UNCHANGED <<expired, leaseReset, posting, actors, sessionVars>>

Get(v) ==
  /\ Leased(v)
  /\ page' = [page EXCEPT ![v] = generation] /\ Rotate
  /\ UNCHANGED <<lease, expired, leaseReset, posting, actors, sessionVars>>

Expire ==
  /\ lease # NoVisitor /\ ~expired
  /\ expired' = TRUE
  /\ UNCHANGED <<lease, leaseReset, rotated, page, posting, actors, sessionVars>>

\* POST /action up to the await of its body.
PostArrives(v) ==
  /\ Leased(v) /\ page[v] # None /\ posting[v] = None
  /\ posting' = [posting EXCEPT ![v] = page[v]] /\ Rotate
  /\ UNCHANGED <<lease, expired, leaseReset, page, actors, sessionVars>>

\* Mutant of PostRuns: the token is not rotated again after the body was read.
PostRunsUnrotated(v) ==
  /\ posting[v] # None
  /\ posting' = [posting EXCEPT ![v] = None]
  /\ UNCHANGED rotated
  /\ \/ /\ posting[v] = rotated
        /\ \/ /\ Len(queue) < MaxQueue /\ Accept("refresh")
              /\ actors' = [actors EXCEPT ![generation] = @ \cup {v}]
           \/ RequestReset /\ UNCHANGED actors
     \/ UNCHANGED <<actors, sessionVars>>
  /\ UNCHANGED <<lease, expired, leaseReset, page>>

\* The rest of it: rotate, the token and the generation of the form, and the action,
\* which the session may refuse.
PostRuns(v) ==
  /\ posting[v] # None
  /\ posting' = [posting EXCEPT ![v] = None]
  /\ Rotate
  /\ \/ /\ posting[v] = generation
        /\ \/ /\ Len(queue) < MaxQueue /\ Accept("refresh")
              /\ actors' = [actors EXCEPT ![generation] = @ \cup {v}]
           \/ RequestReset /\ UNCHANGED actors
     \/ UNCHANGED <<actors, sessionVars>>
  /\ UNCHANGED <<lease, expired, leaseReset, page>>

ServerNext ==
  \/ LeaseEnds \/ LeaseResetSettles \/ Expire
  \/ \E v \in Visitors : Grant(v) \/ Get(v) \/ PostArrives(v) \/ PostRuns(v)

ServerInit ==
  /\ lease = NoVisitor /\ expired = FALSE /\ leaseReset = "no" /\ rotated = 0
  /\ page = [v \in Visitors |-> None] /\ posting = [v \in Visitors |-> None]
  /\ actors = [g \in 0..MaxGeneration |-> {}]

--------------------------------------------------------------------------------

\* A generation of the session is one visitor's: no operation is accepted in it from
\* anyone else, although a form of the visitor before may still be on its way when
\* the lease expires and the session is reset (164-190, 204-206).
LeaseIsolation == \A g \in DOMAIN actors : Cardinality(actors[g]) <= 1
================================================================================
