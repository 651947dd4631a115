---------------------------- MODULE ImportPipeline ----------------------------
(***************************************************************************)
(* What block sync promises to the import queue: blocks are handed over     *)
(* with their parents imported, pending or handed over with them, and every *)
(* block handed over is imported, never refused for want of its parent.     *)
(***************************************************************************)
CONSTANTS Hash, Genesis, Parent

VARIABLES
    imported,   \* blocks imported
    pending     \* blocks handed over and not processed

ipVars == <<imported, pending>>

IPInit == imported = {Genesis} /\ pending = {}

HandOver(S) ==
    /\ \A b \in S : Parent[b] \in imported \cup pending \cup S
    /\ pending' = pending \cup S
    /\ UNCHANGED imported

\* A block may be pending twice, so that it can stay pending.
Process(b) ==
    /\ b \in pending
    /\ b \in imported \/ Parent[b] \in imported
    /\ imported' = imported \cup {b}
    /\ pending' \in {pending, pending \ {b}}

IPNext == (\E S \in SUBSET (Hash \ {Genesis}) : HandOver(S)) \/ (\E b \in pending : Process(b))

IPSpec == IPInit /\ [][IPNext]_ipVars
=============================================================================
