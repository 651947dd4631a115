---------------------------- MODULE MCPeerNetwork ----------------------------
(* One address to dial, one peer that dials, one transaction.               *)
EXTENDS PeerNetwork

CONSTANTS o, i, t

MCFeeRate == t :> 1
MCRelays == o :> {TRUE} @@ i :> {TRUE, FALSE}
MCLatencies == o :> {2} @@ i :> {1}
MCFilters == o :> {2} @@ i :> {}
MCAddrLists == {<<o>>}
=============================================================================
