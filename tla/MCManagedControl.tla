-------------------------- MODULE MCManagedControl --------------------------
(* Instances of ManagedSource for TLC: two configurations that differ in   *)
(* every register, a prompt network that may lose every attempt of a       *)
(* request, and one that delays messages past their exchange to a fixed    *)
(* local port.                                                             *)
EXTENDS ManagedSource

MCConfigs == {[port |-> 5000, ip |-> 1, size |-> 1200],
              [port |-> 6000, ip |-> 2, size |-> 1400]}

PromptNetwork(nLosses, nCalls) ==
  [fixedPort |-> FALSE, lifetime |-> 0, losses |-> nLosses, calls |-> nCalls]

MCChannels ==
  {PromptNetwork(2, 3),
   [fixedPort |-> TRUE, lifetime |-> 1, losses |-> 1, calls |-> 2]}

MCLossy == {PromptNetwork(2, 3)}

MCReliable == {PromptNetwork(0, 4)}
=============================================================================
