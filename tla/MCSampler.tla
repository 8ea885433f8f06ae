----------------------------- MODULE MCSampler ------------------------------
(* Instances of Sampler for TLC.                                           *)
EXTENDS Sampler

ShortWaits == <<1, 2, 4>>

\* disconnect() needs a subscription (jikong, litime, sok, daly).
Strict == {d \in DriverKinds : d.strict /\ d.keepAlive}
=============================================================================
