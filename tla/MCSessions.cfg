\* Two operations of a visitor in the queue, two browsers, two visitors of the lease;
\* one reset of the session and of each browser.  Stopping the providers is left out:
\* it waits as a fresh consumer does and is never refused.
SPECIFICATION Spec
CONSTANTS
  VisitorActions = {"stop", "restart", "tamper", "refresh", "invoke", "retry", "feedback", "recover", "fresh-consumer"}
  MaxQueue = 2
  MaxGeneration = 1
  MaxInvocations = 1
  Retained = 1
  Browsers = {b1, b2}
  MaxPending = 2
  MaxJourney = 1
  PoolActions = {"refresh", "recover", "stop"}
  Visitors = {v1, v2}
  NoVisitor = NoVisitor
  MaxChildren = 2
SYMMETRY Interchangeable
INVARIANTS
  BasisSurvivesControls
  ContentFenced
  ControlsAreTrue
  FaultsContained
  JourneysSeparate
  LeaseIsolation
  NothingOutlives
CHECK_DEADLOCK FALSE
