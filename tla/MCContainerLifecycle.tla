------------------------ MODULE MCContainerLifecycle ------------------------
(* Instances of ContainerLifecycle for TLC.                                *)
EXTENDS ContainerLifecycle
=============================================================================
