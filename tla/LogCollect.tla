----------------------------- MODULE LogCollect -----------------------------
(***************************************************************************)
(* A collect of a log source: a read, and the pipeline over what was read. *)
(* The pipeline sees nothing of the read but its entries, and a read is    *)
(* over before the pipeline starts, so a behaviour is that of one of the   *)
(* two: it begins with the read, or after one with any of the logs that    *)
(* may have been read.                                                     *)
(***************************************************************************)
EXTENDS PodLogs, LogPipe

PipeIdle ==
  /\ stage = "idle"
  /\ pipe = "none"
  /\ log = <<>>
  /\ joined = <<>>
  /\ tree = {}
  /\ clusters = <<>>
  /\ templates = <<>>
  /\ absorbed = {}
  /\ resolved = <<>>
  /\ forced = FALSE
  /\ twins = FALSE

(* The end of a read, of a source that need not be remembered any more.    *)
ReadOver ==
  /\ reader = "cloudwatch"
  /\ bound = 0
  /\ held = [g \in 1..Groups |-> 0]
  /\ keeps = {}
  /\ ctxDone = FALSE
  /\ pc = "returned"
  /\ group = Groups + 1
  /\ cursor = 0
  /\ remaining = 0
  /\ limit = PageLimit
  /\ empties = 0
  /\ entries = {}
  /\ verdict = "complete"
  /\ limitBytes = 0
  /\ garbled = {}
  /\ from = 0
  /\ incomplete = {}

CollectInit == (PodInit /\ PipeIdle) \/ (ReadOver /\ PipeInit)

CollectNext ==
  \/ PodNext /\ UNCHANGED pipeVars
  \/ PipeNext /\ UNCHANGED podAll

collectVars == <<podAll, pipeVars>>

CollectSpec == CollectInit /\ [][CollectNext]_collectVars /\ PodFairness
=============================================================================
