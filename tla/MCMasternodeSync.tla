-------------------------- MODULE MCMasternodeSync --------------------------
(* One peer, which comes and goes: every connection may be asked anew, so that it  *)
(* stands for as many peers as the attempts need.                                *)
EXTENDS MasternodeSync
=============================================================================
