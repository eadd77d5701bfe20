---------------------------- MODULE ClusterWalk ----------------------------
(***************************************************************************)
(* The k8s walk beside those of ServiceWalk: walkCluster over              *)
(* enumerateTyped, enumerateDynamic and enumerateCustomResources.          *)
(*                                                                         *)
(* A service is a kind, listed by the walk's own goroutine one after the   *)
(* other.  The fixed kinds come first and are asked for in one request: a  *)
(* continuation token then means that the apiserver cut the list.  The     *)
(* custom resources are discovered, and paged up to a bound.  A kind that  *)
(* is not served, a cut list and a bound that was reached are reasons the  *)
(* walk is incomplete; any other failure, and a cancellation wherever it   *)
(* lands, fails it.                                                        *)
(*                                                                         *)
(* MaxPages stands for maxInstancesPerCRD / crdPageSize: the apiserver is  *)
(* taken to fill the pages it is asked for.                                *)
(***************************************************************************)
EXTENDS ServiceWalk

VARIABLES
  fixed,       \* the kinds up to this one are fixed, the others custom
  discovered,  \* the definitions of the custom resources were listed
  known        \* the kinds the walk knows of

kinds == <<fixed, discovered, known>>
clusterVars == <<vars, kinds>>

(* The reason that is about the definitions rather than about a kind.      *)
DiscoveryMark == 0

ClusterInit ==
  /\ Init
  /\ fixed \in 0..N
  /\ provider # "k8s" => fixed = N
  /\ discovered = FALSE
  /\ known = fixed
-----------------------------------------------------------------------------
(* Fault: NoteRest below with a mistake.                                   *)

(* A list that came back with a token is taken for the whole list.         *)
NoteRestNever == failures
-----------------------------------------------------------------------------
Kind == next
Custom == Kind > fixed

Listing ==
  /\ provider = "k8s"
  /\ phase = "launching"

(* The walk goes on to the next kind.                                      *)
PassKind(reasons) ==
  /\ failures' = reasons
  /\ job' = [job EXCEPT ![Kind] = "ended"]
  /\ next' = next + 1

(* noteContinue, and the bound of walkCustomResource: more was left.       *)
NoteRest == failures \cup {Kind}

(* This page reaches maxInstancesPerCRD.                                   *)
AtBound == page[Kind] + 1 = MaxPages

(* A list came back.  Every request carries the context.                   *)
ListKind ==
  /\ Listing
  /\ Kind <= known
  /\ ~ctxDone
  /\ page' = [page EXCEPT ![Kind] = @ + 1]
  /\ \/ LastPage(Kind) /\ PassKind(failures)
     \/ ~LastPage(Kind) /\ (Custom => AtBound) /\ PassKind(NoteRest)
     \/ ~LastPage(Kind) /\ Custom /\ ~AtBound /\ UNCHANGED <<failures, job, next>>
  /\ UNCHANGED <<source, ctxDone, phase, held, failed, subreads, carried, verdict, kinds>>

(* listErr: nothing serves the kind, not even for the pages still to come, *)
(* or its definition has no version that is served.                        *)
KindNotServed ==
  /\ Listing
  /\ Kind <= known
  /\ ~ctxDone
  /\ PassKind(failures \cup {Kind})
  /\ UNCHANGED <<source, ctxDone, phase, held, found, carried, verdict, kinds>>

(* The list of the definitions, whole, cut by the apiserver or not served: *)
(* the kinds that are not in it are not listed.                            *)
Discover ==
  /\ Listing
  /\ Kind > known
  /\ ~discovered
  /\ ~ctxDone
  /\ discovered' = TRUE
  /\ \/ known' = N /\ UNCHANGED failures
     \/ known' \in fixed..N /\ failures' = failures \cup {DiscoveryMark}
  /\ UNCHANGED <<source, ctxDone, phase, next, job, held, found, carried, verdict, fixed>>

(* A list fails or is cancelled, or an object cannot be rendered: nothing  *)
(* of the walk is returned.                                                *)
ClusterFails ==
  /\ Listing
  /\ phase' = "returned"
  /\ verdict' = "error"
  /\ UNCHANGED <<source, ctxDone, next, job, held, found, failures, carried, kinds>>

(* The derivations over what was listed, a last look at the context and    *)
(* the verdict.                                                            *)
ClusterEnds ==
  /\ Listing
  /\ Kind > known
  /\ discovered
  /\ ~ctxDone
  /\ phase' = "returned"
  /\ carried' = Carried
  /\ verdict' = IF failures = {} THEN "complete" ELSE "incomplete"
  /\ UNCHANGED <<source, ctxDone, next, job, held, found, failures, kinds>>

ListCluster ==
  ListKind \/ KindNotServed \/ Discover \/ ClusterFails \/ ClusterEnds

(* The steps of ServiceWalk.  The k8s walk starts like the others do.      *)
ServiceStep ==
  /\ \/ provider # "k8s" /\ Next
     \/ provider = "k8s" /\ (CancelContext \/ RefuseToStart \/ Start \/ Done)
  /\ UNCHANGED kinds

ClusterNext == ServiceStep \/ ListCluster

(* A list returns: client-go bounds its attempts, or the context ends it.  *)
ClusterFairness ==
  /\ WF_clusterVars((RefuseToStart \/ Start) /\ UNCHANGED kinds)
  /\ WF_clusterVars((Launch \/ EndLaunch) /\ provider # "k8s" /\ UNCHANGED kinds)
  /\ WF_clusterVars((Join \/ Return) /\ UNCHANGED kinds)
  /\ \A s \in Services :
       /\ WF_clusterVars((Take(s) \/ GiveUp(s)) /\ UNCHANGED kinds)
       /\ WF_clusterVars((CheckContext(s) \/ Call(s) \/ CallFails(s) \/ VisitPage(s))
                            /\ UNCHANGED kinds)
  /\ WF_clusterVars(ListCluster)

ClusterSpec == ClusterInit /\ [][ClusterNext]_clusterVars /\ ClusterFairness
=============================================================================
