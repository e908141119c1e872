---------------------------- MODULE MCRunLedger ----------------------------
(***************************************************************************)
(* Small instances of RunLedger for TLC, and a statement of the repository *)
(* about the worker that its code does not keep.                           *)
(***************************************************************************)
EXTENDS RunLedgerInv, TLC

(* Workers are interchangeable.                                            *)
WorkerSymmetry == Permutations(Workers)

(* README: "Recovery republishes the same staged bytes".  A marked run     *)
(* whose worker is gone, with nothing in the table or on its way there, is *)
(* published by the worker that recovers it.                               *)
RecoveryRepublishes ==
  \A r \in Runs :
    /\ row[r].pending /\ ~HolderAlive(r)
    /\ sink[r] = {} /\ inflight[r] = {}
    ~> inflight[r] # {} \/ sink[r] # {}
=============================================================================
