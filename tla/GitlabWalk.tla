----------------------------- MODULE GitlabWalk -----------------------------
(***************************************************************************)
(* The gitlab-ci walk: the fan-out of FanOut over enumerations that all    *)
(* ask one shared projectLister for the projects of the group              *)
(* (collect/project_lister.go).                                            *)
(*                                                                         *)
(* The first enumeration to ask runs the discovery inside a sync.Once and  *)
(* the others wait for it, whatever happens to the context meanwhile.  The *)
(* discovery reads the group's own projects, then walks the subgroups      *)
(* depth first.  A failure at the group itself fails every enumeration; a  *)
(* failure below it, or the depth limit, is a gap the walk reports once,   *)
(* after the join.                                                         *)
(*                                                                         *)
(* A group's projects are abstracted to the group whose projects they are, *)
(* and a listing to its last page: it returns them all or fails.  The      *)
(* other collectors of FanOut are walks of this module in which nothing    *)
(* is shared.                                                              *)
(***************************************************************************)
EXTENDS FanOut, Sequences

CONSTANTS
  Group,        \* the groups of the instance
  SubgroupsOf,  \* the immediate subgroups of each, in the provider's order
  MaxDepth      \* maxRecursionDepth

ASSUME GroupAssumption == SubgroupsOf \in [Group -> Seq(Group)]
ASSUME DepthAssumption == MaxDepth \in Nat \ {0}
ASSUME PlanAssumption == N # 0    \* collect.All plans seven enumerations

VARIABLES
  group,     \* the group the collect names
  lister,    \* the sync.Once: "unasked", "running" or "done"
  todo,      \* the listings the discovery has still to make, depth first
  projects,  \* the groups whose projects were listed
  partial,   \* the listings the discovery had to leave out
  listErr,   \* the discovery failed at the group itself
  handed     \* what the list gave each enumeration

discovery == <<lister, todo, projects, partial, listErr>>
gvars == <<vars, group, discovery, handed>>

(* One listing call.  The depth is the one walkSubgroups is at for of.     *)
Listing == [call : {"projects", "subgroups"}, of : Group, depth : Nat]
Projects(g, d) == [call |-> "projects", of |-> g, depth |-> d]
Subgroups(g, d) == [call |-> "subgroups", of |-> g, depth |-> d]

(* A group and everything below it.                                        *)
Closed(S) == \A g \in S : \A k \in DOMAIN SubgroupsOf[g] : SubgroupsOf[g][k] \in S
TreeOf(root) == {g \in Group : \A S \in SUBSET Group : root \in S /\ Closed(S) => g \in S}

ListerOK ==
  /\ group \in Group
  /\ lister \in {"unasked", "running", "done"}
  /\ todo \in Seq(Listing)
  /\ projects \in SUBSET Group
  /\ partial \in SUBSET Listing
  /\ listErr \in BOOLEAN
  /\ handed \in [Subs -> SUBSET Group]

WalkInit ==
  /\ Init
  /\ group \in Group
  /\ lister = "unasked"
  /\ todo = <<>>
  /\ projects = {}
  /\ partial = {}
  /\ listErr = FALSE
  /\ handed = [i \in Subs |-> {}]
-----------------------------------------------------------------------------
(* Faults: SkipSubtree and Handover below with one mistake each.           *)

(* A subtree that could not be listed is skipped in silence.               *)
SkipSubtreeSilently(it) ==
  /\ todo' = Tail(todo)
  /\ UNCHANGED <<lister, projects, partial, listErr>>

(* A flag tested before the discovery instead of a sync.Once around it:    *)
(* whoever comes second takes what there is.                               *)
HandoverUnjoined(i) ==
  /\ lister # "unasked"
  /\ handed' = [handed EXCEPT ![i] = projects]
-----------------------------------------------------------------------------
Undisturbed == UNCHANGED <<group, discovery, handed>>

(* list: an enumeration some worker runs is the first to ask.              *)
AskLister(w) ==
  /\ provider = "gitlab"
  /\ worker[w] \in Subs
  /\ lister = "unasked"
  /\ lister' = "running"
  /\ todo' = <<Projects(group, 0)>>
  /\ UNCHANGED <<vars, group, projects, partial, listErr, handed>>

(* The listing of the group itself failed: nothing the discovery found is  *)
(* kept.                                                                   *)
ListFailed ==
  /\ listErr' = TRUE
  /\ lister' = "done"
  /\ todo' = <<>>
  /\ projects' = {}
  /\ partial' = {}

(* A listing below the group failed, or lies too deep: the listing is      *)
(* recorded, and what it would have led to is left out.                    *)
SkipSubtree(it) ==
  /\ partial' = partial \cup {it}
  /\ todo' = Tail(todo)
  /\ UNCHANGED <<lister, projects, listErr>>

Listed(it) ==
  /\ ~ctxDone
  /\ IF it.call = "projects"
     THEN /\ projects' = projects \cup {it.of}
          /\ todo' = <<Subgroups(it.of, it.depth)>> \o Tail(todo)
     ELSE /\ projects' = projects
          /\ todo' = [k \in DOMAIN SubgroupsOf[it.of] |->
                        Projects(SubgroupsOf[it.of][k], it.depth + 1)] \o Tail(todo)
  /\ UNCHANGED <<lister, partial, listErr>>

TooDeep(it) == it.call = "subgroups" /\ it.depth >= MaxDepth

(* The asker's worker makes the next listing.  Every call carries the      *)
(* collect's context, so none succeeds once it is done.                    *)
DiscoverNext ==
  /\ lister = "running"
  /\ todo # <<>>
  /\ LET it == Head(todo) IN
     \/ ~TooDeep(it) /\ Listed(it)
     \/ it.depth = 0 /\ ListFailed
     \/ it.depth > 0 /\ SkipSubtree(it)
  /\ UNCHANGED <<vars, group, handed>>

(* fetchAll returned, the projects are sorted and the Once is done.        *)
DiscoverEnd ==
  /\ lister = "running"
  /\ todo = <<>>
  /\ lister' = "done"
  /\ UNCHANGED <<vars, group, todo, projects, partial, listErr, handed>>

(* list returns to enumeration i.                                          *)
Handover(i) ==
  /\ lister = "done"
  /\ handed' = [handed EXCEPT ![i] = projects]

(* An enumeration comes back.  Without a list it fails outright, whatever  *)
(* it had read at the level of the group.                                  *)
FinishEnumeration(w) ==
  /\ FinishSub(w)
  /\ IF provider = "gitlab"
     THEN /\ Handover(worker[w])
          /\ listErr => outcome'[worker[w]].err = "failed"
     ELSE UNCHANGED handed
  /\ UNCHANGED <<group, discovery>>

(* Walk appends what the discovery could not see to the incompletenesses.  *)
FoldDiscovery ==
  /\ Fold
  /\ provider = "gitlab" => phaseOne' = IF partial = {} THEN "nil" ELSE "marked"
  /\ Undisturbed

WalkNext ==
  \/ /\ \/ CancelContext
        \/ RefuseToStart
        \/ Start
        \/ \E w \in Workers : Feed(w) \/ ExitWorker(w)
        \/ StopFeeding
        \/ CloseWork
        \/ Return
        \/ Done
     /\ Undisturbed
  \/ \E w \in Workers : AskLister(w) \/ FinishEnumeration(w)
  \/ DiscoverNext
  \/ DiscoverEnd
  \/ FoldDiscovery

(* As in FanOut; the discovery runs in the worker that asked, and every    *)
(* listing returns.                                                        *)
WalkFairness ==
  /\ WF_gvars(Undisturbed /\ (RefuseToStart \/ Start))
  /\ WF_gvars(FoldDiscovery \/ (Undisturbed /\ (StopFeeding \/ CloseWork \/ Return)))
  /\ WF_gvars(Undisturbed /\ \E w \in Workers : Feed(w))
  /\ WF_gvars(DiscoverNext \/ DiscoverEnd)
  /\ \A w \in Workers :
       WF_gvars(AskLister(w) \/ FinishEnumeration(w) \/ (Undisturbed /\ ExitWorker(w)))

WalkSpec == WalkInit /\ [][WalkNext]_gvars /\ WalkFairness
-----------------------------------------------------------------------------
(* A gitlab walk that asserts COMPLETE discovered the projects of every    *)
(* group below the one the collect names, and every enumeration was given  *)
(* all of them: no subtree was lost to a failed listing, to the depth      *)
(* limit or to a cancellation while some worker ran the discovery.         *)
CompleteReadsTree ==
  provider = "gitlab" /\ verdict = "complete" =>
    /\ projects = TreeOf(group)
    /\ \A i \in Subs : handed[i] = TreeOf(group)

(* "Two collects of an unchanged group see the same project set, because   *)
(* they read it once": all the enumerations of one walk that came back     *)
(* with findings were given the same projects, whoever ran the discovery   *)
(* and whenever they asked.                                                *)
EnumerationsAgree ==
  provider = "gitlab" =>
    \A i, j \in Subs :
      outcome[i].err \in {"nil", "marked"} /\ outcome[j].err \in {"nil", "marked"}
        => handed[i] = handed[j]
=============================================================================
