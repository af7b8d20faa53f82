---------------------------- MODULE MCLifecycle ----------------------------
(***************************************************************************)
(* A batch and a single reading: either may be in the collector's hand     *)
(* while the other waits in DataCh, or not be in the channel in time.      *)
(***************************************************************************)
EXTENDS Lifecycle

OneSingle == {"s"}
OneBatch == {"b"}
=============================================================================
