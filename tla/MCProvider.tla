----------------------------- MODULE MCProvider -----------------------------
(***************************************************************************)
(* The provider for TLC: one network, or two between which the application *)
(* switches.                                                               *)
(***************************************************************************)
EXTENDS Provider, TLC

CONSTANTS testnet, mainnet

OneNet == {testnet}
TwoNets == {testnet, mainnet}

(* A network is only a name. *)
NetSymmetry == Permutations(TwoNets)

CurlPort == {"curl"}
BothPorts == {"curl", "esp32"}

=============================================================================
