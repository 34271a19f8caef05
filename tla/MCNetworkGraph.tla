---------------------------- MODULE MCNetworkGraph ----------------------------
(***************************************************************************)
(* Model-checking instance of NetworkGraph: one network, up to two         *)
(* components with up to two ports each and up to two connections, so     *)
(* that two connections can contend for one port.                         *)
(***************************************************************************)
EXTENDS NetworkGraph

=============================================================================
