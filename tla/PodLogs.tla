------------------------------ MODULE PodLogs ------------------------------
(***************************************************************************)
(* The walk of k8s-logs beside those of BoundedRead: collector.go's        *)
(* readAll and completeness over podlog.go's ReadContainerLog and scanLog. *)
(*                                                                         *)
(* A group is a namespace with one container, its events the lines of the  *)
(* container's log.  The apiserver applies the bounds: of the lines it     *)
(* sends the last tailLines, and of those what fits in limitBytes.  What   *)
(* was cut away cannot be asked for, so a bound that was reached counts as *)
(* a truncation.  A namespace or container that cannot be read, and a line *)
(* without a timestamp, make the walk incomplete too.                      *)
(*                                                                         *)
(* Every line is one unit of limitBytes.  The apiserver sends slightly     *)
(* more or slightly less than the limit: up to ByteSlack lines.            *)
(***************************************************************************)
EXTENDS BoundedRead

CONSTANTS
  ByteLimits,  \* the values of limitBytes; 0 is none
  ByteSlack    \* how far from limitBytes a stream may be cut

ASSUME ByteLimitsAssumption == ByteLimits \subseteq Nat
ASSUME ByteSlackAssumption == ByteSlack \in Nat

VARIABLES
  limitBytes,  \* LimitBytes
  garbled,     \* the events without a timestamp that parses
  from,        \* how many lines the tail bound cut off the container's log
  incomplete   \* the groups readAll has a reason about

podVars == <<limitBytes, garbled, from, incomplete>>

Least(a, b) == IF a < b THEN a ELSE b

PodInit ==
  /\ Init
  /\ limitBytes \in ByteLimits
  /\ reader # "k8slogs" => limitBytes = 0
  /\ garbled \in {{}, {e \in Events : e[2] = 2 /\ e[2] <= held[e[1]]}}
  /\ reader # "k8slogs" => garbled = {}
  /\ from = 0
  /\ incomplete = {}
-----------------------------------------------------------------------------
(* Fault: BoundEngaged below with a mistake.                               *)

(* A bound has to be passed to count as reached.                           *)
BoundPassed ==
  LET lines == cursor - from IN
  \/ bound > 0 /\ lines > bound
  \/ limitBytes > 0 /\ lines > limitBytes
-----------------------------------------------------------------------------
(* The lines of the stream: the tail of the log, cut about limitBytes      *)
(* into it.                                                                *)
TailCut(g) == IF bound > 0 THEN held[g] - Least(bound, held[g]) ELSE 0

MoreComes ==
  /\ cursor < held[group]
  /\ limitBytes > 0 => cursor - from < limitBytes + ByteSlack

StreamMayEnd ==
  \/ cursor = held[group]
  \/ /\ limitBytes > 0
     /\ cursor - from \in (limitBytes - ByteSlack)..(limitBytes + ByteSlack)

(* boundEngaged: a bound that was reached may have cut something.          *)
BoundEngaged ==
  LET lines == cursor - from IN
  \/ bound > 0 /\ lines >= bound
  \/ limitBytes > 0 /\ lines >= limitBytes

Skipped == \E i \in (from + 1)..cursor : <<group, i>> \in garbled

(* The lines appendLine makes entries of: within the window, with a        *)
(* timestamp.                                                              *)
Lines(g) == {e \in keeps \ garbled : e[1] = g /\ e[2] \in (from + 1)..cursor}
-----------------------------------------------------------------------------
NextNamespace(failed) ==
  /\ incomplete' = IF failed THEN incomplete \cup {group} ELSE incomplete
  /\ group' = group + 1
  /\ pc' = "list"
  /\ UNCHANGED verdict

(* A failure under a context that is done is the caller's, and the walk's. *)
FailsNamespace ==
  \/ ctxDone /\ Answer("error") /\ UNCHANGED <<group, incomplete>>
  \/ ~ctxDone /\ NextNamespace(TRUE)

ListNamespace ==
  /\ pc = "list"
  /\ group <= Groups
  /\ \/ /\ ~ctxDone
        /\ pc' = "open"
        /\ UNCHANGED <<group, incomplete, verdict>>
     \/ FailsNamespace
  /\ UNCHANGED <<source, ctxDone, cursor, remaining, limit, empties, entries,
                 limitBytes, garbled, from>>

OpenStream ==
  /\ pc = "open"
  /\ \/ /\ ~ctxDone
        /\ pc' = "line"
        /\ from' = TailCut(group)
        /\ cursor' = TailCut(group)
        /\ UNCHANGED <<group, incomplete, verdict>>
     \/ /\ FailsNamespace
        /\ UNCHANGED <<from, cursor>>
  /\ UNCHANGED <<source, ctxDone, remaining, limit, empties, entries,
                 limitBytes, garbled>>

(* One line of scanLog, which looks at the context before each.            *)
ScanLine ==
  /\ pc = "line"
  /\ ~ctxDone
  /\ MoreComes
  /\ cursor' = cursor + 1
  /\ UNCHANGED <<source, ctxDone, pc, group, remaining, limit, empties,
                 entries, verdict, podVars>>

(* The end of the stream: what was read joins the result, with a reason    *)
(* when a bound engaged or a line was skipped.                             *)
StreamEnds ==
  /\ pc = "line"
  /\ StreamMayEnd
  /\ entries' = entries \cup Lines(group)
  /\ NextNamespace(BoundEngaged \/ Skipped)
  /\ UNCHANGED <<source, ctxDone, cursor, remaining, limit, empties,
                 limitBytes, garbled, from>>

(* A stream that fails takes what was read of the container with it.       *)
StreamFails ==
  /\ pc = "line"
  /\ FailsNamespace
  /\ UNCHANGED <<source, ctxDone, cursor, remaining, limit, empties, entries,
                 limitBytes, garbled, from>>

(* completeness: any reason is an incomplete walk.                         *)
Completeness ==
  /\ pc = "list"
  /\ group > Groups
  /\ Answer(IF incomplete = {} THEN "complete" ELSE "truncated")
  /\ UNCHANGED <<source, ctxDone, group, cursor, remaining, limit, empties,
                 entries, podVars>>

ReadPods ==
  ListNamespace \/ OpenStream \/ ScanLine \/ StreamEnds \/ StreamFails \/ Completeness

PodNext == (Next /\ UNCHANGED podVars) \/ ReadPods

podAll == <<vars, podVars>>

(* A listing, an open and a line of a stream each come or fail.            *)
PodFairness ==
  /\ WF_podAll(Answered /\ UNCHANGED podVars)
  /\ WF_podAll(ctxDone /\ Failed /\ UNCHANGED podVars)
  /\ WF_podAll(ReadPods)

PodSpec == PodInit /\ [][PodNext]_podAll /\ PodFairness
-----------------------------------------------------------------------------
(* The stream of g was cut after line k, short of the byte limit.          *)
ShortCut(g, k) ==
  /\ limitBytes > 0
  /\ k - TailCut(g) \in (limitBytes - ByteSlack)..(limitBytes - 1)

(* A complete walk of k8s-logs carries of each container every line of its *)
(* window, whichever bound, failure or line without a timestamp another    *)
(* container met.  The exception is a stream the apiserver cut short of    *)
(* limitBytes: boundEngaged compares what came with the limit, so it takes *)
(* that stream for a whole log, and what the cut left out, and a tail      *)
(* bound that the cut kept from being reached, go untold.  Even then what  *)
(* is carried has no gap.                                                  *)
CompleteButForShortCuts ==
  verdict = "complete" /\ reader = "k8slogs" =>
    \A g \in 1..Groups :
      LET wanted == {e \in Wanted : e[1] = g}
          carried == {e \in entries : e[1] = g} IN
      \/ carried = wanted
      \/ \E k \in 0..held[g] :
           /\ ShortCut(g, k)
           /\ carried = {e \in wanted : TailCut(g) < e[2] /\ e[2] <= k}
=============================================================================
