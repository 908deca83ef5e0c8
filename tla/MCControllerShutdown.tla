------------------------ MODULE MCControllerShutdown ------------------------
(* Instances of ControllerShutdown for TLC.                                *)
EXTENDS ControllerShutdown

\* The signal arrives in a controller that was started while its containers
\* were running: repopulateState has listed all of them.
RepopulatedInit == ShutdownInit /\ docker = Everywhere("running")
RepopulatedSpec == RepopulatedInit /\ [][ShutdownNext]_shutdownVars

\* Or it has created and connected all of them; the goroutines that follow
\* their logs have not been scheduled yet.
ConnectedInit ==
  /\ docker = Everywhere("running") /\ reach = Container /\ running = <<>>
  /\ hs = Everywhere("done") /\ conns = Container /\ sock = Everywhere("open")
  /\ reader = Everywhere("reading")
  /\ streamers = {} /\ stopSig = {} /\ stream = Everywhere("spawned")
  /\ creating = {} /\ req = [h \in Handler |-> Idle]
  /\ boots = 1 /\ NotCleaning

FairManagedSpec ==
  /\ ConnectedInit \/ RepopulatedInit
  /\ [][ShutdownNext]_shutdownVars /\ WF_shutdownVars(Cleanup)
=============================================================================
