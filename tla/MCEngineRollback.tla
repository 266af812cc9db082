--------------------------- MODULE MCEngineRollback -------------------------
(***************************************************************************)
(* EngineRollback with two engines that SIGNAL ABORT pops and one that it  *)
(* does not.  The memory is cut down to the K/V layers (no block, no model *)
(* tensor): the other stores are the business of SnapshotStore.cfg.        *)
(***************************************************************************)
EXTENDS EngineRollback, TLC

CONSTANTS zero, data, ssm, snn, arena

MCVals          == {zero, data}
MCWindows       == {0, 2}
MCEngines       == {ssm, snn, arena}
MCSignalEngines == {ssm, snn}
MCWeights       == {}

\* The two engines that SIGNAL ABORT pops are interchangeable.
MCSymmetry      == Permutations(MCSignalEngines)
=============================================================================
