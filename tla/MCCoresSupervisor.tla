------------------------ MODULE MCCoresSupervisor ------------------------
(* CoresSupervisor on a small instance: both engines, both protocols, and  *)
(* for AnyTLS a second port that the host does not forward.                *)
EXTENDS CoresSupervisor
MCEngines == <<"singbox", "mihomo">>
MCDialable == {<<"anytls", 1>>, <<"tuic", 1>>}
=============================================================================
