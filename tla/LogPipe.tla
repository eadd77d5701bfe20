------------------------------ MODULE LogPipe ------------------------------
(***************************************************************************)
(* The log pipeline of loki, cloudwatch, stackdriver and k8s-logs: Drain   *)
(* clusters the entries into templates, two consolidators merge what a Go  *)
(* crash or a Python traceback shattered, and every entry is resolved to   *)
(* the template it ends in.  The four Drain engines are the same; the      *)
(* consolidators' composition, the folding of equal ids and the resolving  *)
(* differ, and are modelled for each.                                      *)
(*                                                                         *)
(* A template's id is a hash of its pattern, so the pattern stands for it. *)
(* A text is a sequence of tokens, as Tokenize(PreProcess(message)) leaves *)
(* it, and what the consolidators' expressions look for is what a text     *)
(* begins with.  An entry is its text and its time.                        *)
(***************************************************************************)
EXTENDS Integers, FiniteSets, Sequences, TLC
LOCAL INSTANCE SequencesExt

CONSTANTS
  Pipes,        \* the collectors to model
  Wildcard,     \* Wildcard
  Logs,         \* what may be read: sequences of entries
  Numbered,     \* the tokens with a digit in them
  GoFrames,     \* what a line of a goroutine dump begins with
  GoHeaders,    \* what a line that names a crash begins with
  PyFrames,     \* what a line of a Python traceback begins with
  PyHeaders,    \* what a traceback begins with
  Exceptions,   \* what a line that names a Python exception begins with
  MaxDepth, MaxChildren, MaxClusters,  \* DrainConfig
  GoWindow, PyWindow,                  \* how far apart two fragments may be
  MinGroup      \* how many fragments make a crash

ASSUME PipesAssumption ==
  Pipes \subseteq {"loki", "cloudwatch", "stackdriver", "k8slogs"}
ASSUME DrainAssumption ==
  MaxDepth \in Nat \ {0} /\ MaxChildren \in Nat \ {0} /\ MaxClusters \in Nat \ {0}
ASSUME LogsAssumption ==
  /\ Logs \subseteq Seq([text : Seq(STRING), time : Nat \ {0}])
  /\ Wildcard \in STRING

VARIABLES
  stage,      \* where processEntries is
  pipe,       \* whose pipeline it is
  log,        \* the entries that were read
  joined,     \* entryTemplates: the clusters the first of them joined, or 0
  tree,       \* the nodes of the prefix tree, each the path to it
  clusters,   \* the clusters, in creation order
  templates,  \* the templates the consolidators have left
  absorbed,   \* <<fragment, survivor>>: absorbedBy
  resolved,   \* entryTemplateIDs: the id each entry ends with
  forced,     \* an entry was merged because of MaxClusters
  twins       \* a pass minted one id twice

pipeVars ==
  <<stage, pipe, log, joined, tree, clusters, templates, absorbed, resolved,
    forced, twins>>

Min2(a, b) == IF a < b THEN a ELSE b
Max2(a, b) == IF a > b THEN a ELSE b

LeastOf(S) == CHOOSE x \in S : \A y \in S : x <= y
GreatestOf(S) == CHOOSE x \in S : \A y \in S : x >= y

(* The elements of s at the positions K, in their order.                   *)
InOrder(s, K) ==
  [r \in 1..Cardinality(K) |->
     s[CHOOSE k \in K : Cardinality({j \in K : j <= k}) = r]]

PipeInit ==
  /\ stage = "cluster"
  /\ pipe \in Pipes
  /\ log \in Logs
  /\ joined = <<>>
  /\ tree = {}
  /\ clusters = <<>>
  /\ templates = <<>>
  /\ absorbed = {}
  /\ resolved = <<>>
  /\ forced = FALSE
  /\ twins = FALSE
-----------------------------------------------------------------------------
(* Faults: what the definitions below would be with one plausible mistake  *)
(* each; put in the place of what they vary, each breaks one property.     *)

(* The cap is looked at before the child that is there.                    *)
EnsureChildCapFirst(node, key) ==
  Append(node, IF Cardinality({p \in tree : p # <<>> /\ Front(p) = node}) < MaxChildren
               THEN key ELSE Wildcard)

(* What an earlier pass absorbed does not follow its absorber.             *)
ConcatenateAbsorbed(old, new) == old \cup new

(* Templates of one id are left as they are.                               *)
FoldNone(ts) == ts
-----------------------------------------------------------------------------
(* The engine's prefix tree: tokenCountBucket, then the first tokens.      *)
Bucket(n) == CASE n <= 3 -> "short"
               [] n > 3 /\ n <= 8 -> "medium"
               [] n > 8 /\ n <= 15 -> "long"
               [] n > 15 -> "vlong"

BranchKey(token) ==
  IF token = Wildcard \/ token \in Numbered THEN Wildcard ELSE token

Children(node) == {p \in tree : p # <<>> /\ Front(p) = node}

(* ensureChild: past the cap a new branch collapses onto the wildcard.     *)
EnsureChild(node, key) ==
  Append(node, IF \/ Append(node, key) \in tree
                  \/ Cardinality(Children(node)) < MaxChildren
               THEN key ELSE Wildcard)

WalkKeys(text) ==
  [k \in 1..(1 + Min2(MaxDepth - 1, Len(text))) |->
     IF k = 1 THEN Bucket(Len(text)) ELSE BranchKey(text[k - 1])]

(* walkTree: the nodes the walk comes to, the last of them the text's own. *)
(* A node it adds is no child of one it has still to come to.              *)
WalkTree(text) ==
  LET keys == WalkKeys(text)
      walk[k \in 0..Len(keys)] ==
        IF k = 0 THEN <<>> ELSE EnsureChild(walk[k - 1], keys[k])
  IN [k \in 1..Len(keys) |-> walk[k]]

(* similarity, over a common length: the positions that agree.             *)
Agreeing(a, b) ==
  {i \in 1..Len(a) : a[i] = b[i] \/ a[i] = Wildcard \/ b[i] = Wildcard}

(* Strictly more than two fifths.                                          *)
Similar(a, b) == Len(a) = Len(b) /\ 5 * Cardinality(Agreeing(a, b)) > 2 * Len(a)

(* The clusters of node, or of the whole tree, that match text best; the   *)
(* first of them is taken.                                                 *)
BestMatches(candidates, text) ==
  LET matches == {i \in candidates : Similar(clusters[i].pattern, text)}
      agreement(i) == Cardinality(Agreeing(clusters[i].pattern, text))
  IN {i \in matches : \A j \in matches : agreement(j) <= agreement(i)}

(* mergeTokens: a position the message disagrees at is widened.            *)
MergeTokens(pattern, text) ==
  IF Len(pattern) # Len(text) THEN pattern
  ELSE [i \in 1..Len(text) |->
          IF pattern[i] = text[i] \/ text[i] = Wildcard THEN pattern[i] ELSE Wildcard]

(* extractVars: the message's tokens at the wildcards.                     *)
ExtractVars(pattern, text) ==
  IF Len(pattern) # Len(text) THEN <<>>
  ELSE InOrder(text, {i \in 1..Len(text) : pattern[i] = Wildcard /\ text[i] # Wildcard})

(* createCluster and updateCluster.                                        *)
NewCluster(node, e) ==
  [node |-> node, pattern |-> e.text, rows |-> <<>>, count |-> 1,
   first |-> e.time, last |-> e.time]

Updated(c, e) ==
  LET vars == ExtractVars(c.pattern, e.text) IN
  [c EXCEPT !.pattern = MergeTokens(@, e.text),
            !.rows = IF vars # <<>> /\ Len(@) < 3 THEN Append(@, vars) ELSE @,
            !.count = @ + 1,
            !.first = Min2(@, e.time),
            !.last = Max2(@, e.time)]

Join(i, e) ==
  /\ clusters' = [clusters EXCEPT ![i] = Updated(@, e)]
  /\ joined' = Append(joined, i)

(* AddMessage, of the next entry.  The walk grows the tree whatever        *)
(* becomes of the entry; one without tokens joins nothing.                 *)
AddMessage ==
  LET e == log[Len(joined) + 1]
      walk == WalkTree(e.text)
      node == walk[Len(walk)]
      grown == tree \cup {walk[k] : k \in 1..Len(walk)}
      here == {i \in 1..Len(clusters) : clusters[i].node = node}
      best == BestMatches(here, e.text)
      global == BestMatches(1..Len(clusters), e.text)
  IN /\ stage = "cluster"
     /\ Len(joined) < Len(log)
     /\ \/ /\ e.text = <<>>
           /\ joined' = Append(joined, 0)
           /\ UNCHANGED <<tree, clusters, forced>>
        \/ /\ e.text # <<>>
           /\ best # {}
           /\ tree' = grown
           /\ Join(LeastOf(best), e)
           /\ UNCHANGED forced
        \/ /\ e.text # <<>>
           /\ best = {}
           /\ Len(clusters) < MaxClusters
           /\ tree' = grown
           /\ clusters' = Append(clusters, NewCluster(node, e))
           /\ joined' = Append(joined, Len(clusters'))
           /\ UNCHANGED forced
        \/ /\ e.text # <<>>
           /\ best = {}
           /\ Len(clusters) >= MaxClusters
           /\ tree' = grown
           /\ Join(IF global # {} THEN LeastOf(global) ELSE Len(clusters), e)
           /\ forced' = TRUE
     /\ UNCHANGED <<stage, pipe, log, templates, absorbed, resolved, twins>>

(* Past the last entry the consolidators are given the clusters' templates. *)
Clustered ==
  /\ stage = "cluster"
  /\ Len(joined) = Len(log)
  /\ stage' = "gostack"
  /\ templates' = [i \in 1..Len(clusters) |->
       [id |-> clusters[i].pattern, rows |-> clusters[i].rows,
        count |-> clusters[i].count, first |-> clusters[i].first,
        last |-> clusters[i].last]]
  /\ UNCHANGED <<pipe, log, joined, tree, clusters, absorbed, resolved, forced,
                 twins>>
-----------------------------------------------------------------------------
(* What the consolidators look for: in the pattern, or a row of variables. *)
BeginsWith(text, tokens) == text # <<>> /\ Head(text) \in tokens

Shows(t, tokens) ==
  BeginsWith(t.id, tokens) \/ \E k \in 1..Len(t.rows) : BeginsWith(t.rows[k], tokens)

EffectiveText(t) == IF t.rows # <<>> THEN t.rows[1] ELSE t.id

IsGoStackFragment(t) == Shows(t, GoFrames)
IsPythonHeader(t) == BeginsWith(EffectiveText(t), PyHeaders)
IsPythonFragment(t) == ~IsPythonHeader(t) /\ Shows(t, PyFrames)

(* How a pass orders the templates: those it has nothing to do with as     *)
(* they were, and behind them its fragments by LastSeen.  The order of     *)
(* those last seen at one time is kept by cloudwatch, the headers first;   *)
(* otherwise it is the sort's, or the hashes'.                             *)
Before(i, j, fragments, headers) ==
  \/ i \notin fragments /\ j \in fragments
  \/ i \notin fragments /\ j \notin fragments /\ i < j
  \/ /\ i \in fragments /\ j \in fragments
     /\ \/ templates[i].last < templates[j].last
        \/ /\ templates[i].last = templates[j].last
           /\ pipe = "cloudwatch"
           /\ \/ i \in headers /\ j \notin headers
              \/ (i \in headers <=> j \in headers) /\ i < j

PassOrders(fragments, headers) ==
  LET n == Len(templates) IN
  {q \in Permutations(1..n) \cap [1..n -> 1..n] :
     \A j, k \in 1..n :
       j < k => q[j] # q[k] /\ ~Before(q[k], q[j], fragments, headers)}

(* groupByTime, of the fragments of ts: a group ends where the next begins *)
(* more than the window after the last one's end.                          *)
GroupOf(k, ts, fragments, window) ==
  {j \in fragments : \A m \in (Min2(j, k) + 1)..Max2(j, k) :
                       ts[m].first - ts[m - 1].last <= window}

(* absorbInto: one template with the counts and the range of a group.      *)
CountOf(ts, group) ==
  LET count[k \in 0..Len(ts)] ==
        IF k = 0 THEN 0
        ELSE count[k - 1] + (IF k \in group THEN ts[k].count ELSE 0)
  IN count[Len(ts)]

Merged(id, rows, ts, group) ==
  [id |-> id, rows |-> rows, count |-> CountOf(ts, group),
   first |-> LeastOf({ts[k].first : k \in group}),
   last |-> GreatestOf({ts[k].last : k \in group})]

(* Up to three of its headers are the crash's examples.                    *)
MergeGoStackGroup(ts, group) ==
  LET headers == {k \in group : BeginsWith(ts[k].id, GoHeaders)}
      shown == {k \in headers : Cardinality({j \in headers : j < k}) < 3}
      rows == [k \in 1..Len(ts) |-> EffectiveText(ts[k])]
  IN Merged(<<"Go runtime crash">>,
            InOrder(rows, IF shown # {} THEN shown ELSE {LeastOf(group)}), ts, group)

(* A traceback is named by its first header, or by its exception.          *)
MergePythonGroup(ts, group) ==
  LET Showing(tokens) == {k \in group : BeginsWith(EffectiveText(ts[k]), tokens)}
      names == IF Showing(PyHeaders) # {} THEN Showing(PyHeaders) ELSE Showing(Exceptions)
  IN Merged(<<"Python traceback">> \o
              (IF names # {} THEN EffectiveText(ts[LeastOf(names)]) ELSE <<>>),
            <<>>, ts, group)

(* Templates of one id become the first of them.                           *)
FoldTwins(ts) ==
  LET Twins(k) == {j \in 1..Len(ts) : ts[j].id = ts[k].id} IN
  InOrder([k \in 1..Len(ts) |-> Merged(ts[k].id, ts[k].rows, ts, Twins(k))],
          {k \in 1..Len(ts) : k = LeastOf(Twins(k))})

(* runConsolidators' composition: what a pass absorbs takes with it what   *)
(* it had absorbed itself.                                                 *)
ComposeAbsorbed(old, new) ==
  LET gone == {r[1] : r \in new} IN
  new \cup {r \in old : r[1] \notin gone /\ r[2] \notin gone}
      \cup {<<p[1][1], p[2][2]>> : p \in {p \in old \X new : p[1][2] = p[2][1]}}

MergeGroup(ts, group) ==
  IF stage = "gostack" THEN MergeGoStackGroup(ts, group) ELSE MergePythonGroup(ts, group)

(* A pass over its fragments: a group large enough becomes one template,   *)
(* where the first of it was.                                              *)
Consolidate(fragments, headers, window) ==
  \E q \in PassOrders(fragments, headers) :
    LET ts == [k \in 1..Len(templates) |-> templates[q[k]]]
        placed == {k \in 1..Len(ts) : q[k] \in fragments}
        Group(k) == GroupOf(k, ts, placed, window)
        crashed == {k \in placed : Cardinality(Group(k)) >= MinGroup}
        left == InOrder([k \in 1..Len(ts) |->
                           IF k \in crashed THEN MergeGroup(ts, Group(k)) ELSE ts[k]],
                        {k \in 1..Len(ts) : k \in crashed => k = LeastOf(Group(k))})
    IN /\ templates' = IF pipe = "cloudwatch" THEN FoldTwins(left) ELSE left
       /\ absorbed' = ComposeAbsorbed(absorbed,
            {<<ts[k].id, MergeGroup(ts, Group(k)).id>> : k \in crashed})
       /\ twins' = (twins \/ \E j, k \in crashed :
                               /\ j \notin Group(k)
                               /\ MergeGroup(ts, Group(j)).id = MergeGroup(ts, Group(k)).id)

ConsolidateGoStack ==
  LET fragments == {k \in 1..Len(templates) : IsGoStackFragment(templates[k])} IN
  /\ stage = "gostack"
  /\ stage' = "python"
  /\ \/ /\ Cardinality(fragments) < MinGroup
        /\ UNCHANGED <<templates, absorbed, twins>>
     \/ /\ Cardinality(fragments) >= MinGroup
        /\ Consolidate(fragments, {}, GoWindow)
  /\ UNCHANGED <<pipe, log, joined, tree, clusters, resolved, forced>>

(* A header is admitted however few the fragments are.                     *)
ConsolidatePython ==
  LET headers == {k \in 1..Len(templates) : IsPythonHeader(templates[k])}
      fragments == {k \in 1..Len(templates) : IsPythonFragment(templates[k])}
  IN /\ stage = "python"
     /\ stage' = "resolve"
     /\ \/ /\ Cardinality(fragments) < MinGroup /\ headers = {}
           /\ UNCHANGED <<templates, absorbed, twins>>
        \/ /\ Cardinality(fragments) >= MinGroup \/ headers # {}
           /\ Consolidate(headers \cup fragments, headers, PyWindow)
     /\ UNCHANGED <<pipe, log, joined, tree, clusters, resolved, forced>>
-----------------------------------------------------------------------------
Ids(ts) == {ts[k].id : k \in 1..Len(ts)}

(* The templates by id: of two with one id cloudwatch's slice has both,    *)
(* the others' map the last.                                               *)
Survivors(ts) ==
  {ts[k] : k \in {k \in 1..Len(ts) :
     pipe = "cloudwatch" \/ \A j \in (k + 1)..Len(ts) : ts[j].id # ts[k].id}}

(* greatestSurvivor: last seen, then first seen; the hashes decide between *)
(* what is left.                                                           *)
GreatestSurvivors(after) ==
  LET T == Survivors(after) IN
  {t.id : t \in {t \in T : \A u \in T :
     \/ t.last > u.last
     \/ t.last = u.last /\ t.first >= u.first}}

(* buildTemplateRemap: an id that is gone becomes its absorber's, and with *)
(* none the greatest survivor's.                                           *)
AbsorberTargets(id, after) ==
  LET absorbers == {r[2] : r \in {r \in absorbed : r[1] = id}} \cap Ids(after) IN
  IF absorbers # {} THEN absorbers ELSE GreatestSurvivors(after)

(* k8s-logs keeps no such record.  It takes the survivor that shares the   *)
(* most time with what is gone, and of several the one first seen; where   *)
(* none does, the id stays.                                                *)
Overlap(t, u) == Min2(t.last, u.last) - Max2(t.first, u.first)

OverlapTargets(id, after) ==
  LET dropped == clusters[CHOOSE i \in 1..Len(clusters) :
                   /\ clusters[i].pattern = id
                   /\ \A j \in (i + 1)..Len(clusters) : clusters[j].pattern # id]
      T == {u \in Survivors(after) : Overlap(dropped, u) >= 0}
      Better(v, u) == \/ Overlap(dropped, v) > Overlap(dropped, u)
                      \/ Overlap(dropped, v) = Overlap(dropped, u) /\ v.first < u.first
      best == {u \in T : ~\E v \in T : Better(v, u)}
  IN IF T = {} THEN {id} ELSE {u.id : u \in best}

Targets(id, after) ==
  IF pipe = "k8slogs" THEN OverlapTargets(id, after) ELSE AbsorberTargets(id, after)

Remaps(gone, after) ==
  {m \in [gone -> UNION {Targets(id, after) : id \in gone}] :
     \A id \in gone : m[id] \in Targets(id, after)}

(* The end of processEntries: an entry is resolved by the id its cluster's *)
(* template has by now.  stackdriver folds equal ids first, and at the end *)
(* takes an id without a template back.                                    *)
ResolveEntries ==
  LET after == IF pipe = "stackdriver" THEN FoldTwins(templates) ELSE templates
      gone == {clusters[i].pattern : i \in 1..Len(clusters)} \ Ids(after)
  IN /\ stage = "resolve"
     /\ stage' = "emitted"
     /\ templates' = after
     /\ \E remap \in Remaps(gone, after) :
          resolved' = [i \in 1..Len(log) |->
            IF joined[i] = 0 THEN <<>>
            ELSE LET id == clusters[joined[i]].pattern
                     mapped == IF id \in DOMAIN remap THEN remap[id] ELSE id
                 IN IF pipe = "stackdriver" /\ mapped \notin Ids(after) THEN <<>>
                    ELSE mapped]
     /\ UNCHANGED <<pipe, log, joined, tree, clusters, absorbed, forced, twins>>
-----------------------------------------------------------------------------
PipeNext ==
  \/ AddMessage
  \/ Clustered
  \/ ConsolidateGoStack
  \/ ConsolidatePython
  \/ ResolveEntries
-----------------------------------------------------------------------------
(* Drain walks a changing tree and widens patterns under its feet, but two *)
(* clusters never come to share a pattern, and with it an id, as long as   *)
(* MaxClusters has not put an entry where the tree would not: a message    *)
(* takes the same branch every time, and a widening that would make two    *)
(* clusters equal goes to the wider one, which matches better.             *)
PatternsDistinct ==
  ~forced =>
    \A i, j \in 1..Len(clusters) :
      i # j => clusters[i].pattern # clusters[j].pattern

(* What the properties of the result except: entries the cap has merged; a *)
(* line of the log that reads as the name of a crash; and where equal ids  *)
(* are not folded pass by pass, two crashes of one name of which the       *)
(* Python pass takes one, or for k8s-logs two at all.                      *)
Regular ==
  /\ stage = "emitted"
  /\ ~forced
  /\ \A i \in 1..Len(clusters) :
       clusters[i].pattern \notin {<<"Go runtime crash">>} \cup {r[2] : r \in absorbed}
  /\ pipe \in {"loki", "stackdriver"} =>
       ~(twins /\ \E r \in absorbed : r[1] = <<"Go runtime crash">>)
  /\ pipe = "k8slogs" => ~twins

(* No entry is orphaned: where it was resolved to there is a template in   *)
(* the result, and one that was seen when the entry was, through patterns  *)
(* that moved and a crash that was merged and merged again.                *)
EntriesLand ==
  Regular =>
    \A i \in 1..Len(log) :
      joined[i] # 0 =>
        \E k \in 1..Len(templates) :
          /\ templates[k].id = resolved[i]
          /\ templates[k].first <= log[i].time
          /\ log[i].time <= templates[k].last

(* The counts of the emitted templates are of the entries that were        *)
(* resolved to them, and cloudwatch and stackdriver emit an id once.       *)
CountsAddUp ==
  Regular /\ pipe # "k8slogs" =>
    /\ \A id \in Ids(templates) :
         CountOf(templates, {k \in 1..Len(templates) : templates[k].id = id}) =
           Cardinality({i \in 1..Len(log) : resolved[i] = id})
    /\ pipe \in {"cloudwatch", "stackdriver"} =>
         Cardinality(Ids(templates)) = Len(templates)
=============================================================================
