------------------------------ MODULE MCWifiLink ------------------------------
(***************************************************************************)
(* An instance of WifiLink for TLC: the network of the router and another  *)
(* one, and a short row of retries.                                        *)
(***************************************************************************)
EXTENDS WifiLink

TwoNetworks == {"home", "other"}
=============================================================================
