------------------------------ MODULE Appraisal ------------------------------
(***************************************************************************)
(* backend/services/appraisal_service.py: appraisals of the source tree,   *)
(* run by the hourly task of main.py and by POST /run, each with an engine *)
(* of its own, and the snapshot files they leave.  A run takes its id, the *)
(* second it starts in, long before it looks for the previous snapshot and *)
(* saves its own; the hourly run keeps the event loop, so that no request  *)
(* starts a run meanwhile, but it may start beside a requested one.        *)
(***************************************************************************)
EXTENDS MerkleTree, FiniteSets

CONSTANTS
  Trees,     \* what a scan can find: for each path, in sorted order, its content
  Values,    \* cents the LLM can put on a content
  LastSecond, \* last second a run can start in (bound)
  MaxRuns     \* runs started (bound)

ASSUME AppraisalAssumption ==
  /\ \A tree \in Trees : Len(tree) \in Nat /\ DOMAIN tree = 1..Len(tree)
  /\ Values \subseteq Nat /\ LastSecond \in Nat /\ MaxRuns \in Nat

Engines == {"hourly", "requested"}

VARIABLES
  snapshots,  \* files of SNAPSHOT_DIR, by run id
  runs,       \* the runs under way, by engine
  caches,     \* _value_cache of each engine
  second,     \* the clock
  begun,      \* runs started
  disturbed   \* history: ids of runs that went on beside another, or shared its second

appraisalVars == <<snapshots, runs, caches, second, begun, disturbed>>

\* A file that was being written when the process stopped.
Torn == [root |-> <<"torn">>, total |-> 0, files |-> <<>>, previous |-> {}, delta |-> 0]

Seconds == 0..LastSecond

AppraisalTypeOK ==
  /\ DOMAIN snapshots \subseteq Seconds
  /\ \A id \in DOMAIN snapshots :
       /\ snapshots[id].total \in Nat /\ snapshots[id].delta \in Int
       /\ Cardinality(snapshots[id].previous) <= 1
  /\ DOMAIN runs \subseteq Engines
  /\ \A e \in DOMAIN runs : runs[e].id \in Seconds
  /\ \A e \in Engines : \A c \in DOMAIN caches[e] : caches[e][c] \in Values
  /\ second \in Seconds /\ begun \in Nat
  /\ disturbed \subseteq Seconds

AppraisalInit ==
  /\ snapshots = [id \in {} |-> id]
  /\ runs = [e \in {} |-> e]
  /\ caches = [e \in Engines |-> [c \in {} |-> c]]
  /\ second = 0 /\ begun = 0
  /\ disturbed = {}

-----------------------------------------------------------------------------
AsOf(f, x, y) == [z \in DOMAIN f \cup {x} |-> IF z = x THEN y ELSE f[z]]

Begin(engine) ==
  /\ begun < MaxRuns /\ begun' = begun + 1
  /\ engine \notin DOMAIN runs
  /\ engine = "requested" => "hourly" \notin DOMAIN runs
  /\ runs' = AsOf(runs, engine, [id |-> second, files |-> <<>>, done |-> FALSE])
  /\ disturbed' = IF runs = <<>> /\ second \notin DOMAIN snapshots THEN disturbed
                  ELSE disturbed \cup {second} \cup {runs[e].id : e \in DOMAIN runs}
  /\ UNCHANGED <<snapshots, caches, second>>

\* scan_files and appraise_all: a content the engine has met keeps its value.
Appraise(engine, tree) ==
  LET met == DOMAIN caches[engine]
      contents == {tree[i].content : i \in DOMAIN tree}
  IN /\ ~runs[engine].done
     /\ \E fresh \in [contents \ met -> Values] :
          LET value == [c \in met \cup contents |->
                          IF c \in met THEN caches[engine][c] ELSE fresh[c]]
          IN /\ caches' = [caches EXCEPT ![engine] = value]
             /\ runs' = [runs EXCEPT ![engine].done = TRUE, ![engine].files =
                  [i \in DOMAIN tree |-> [path |-> tree[i].path, content |-> tree[i].content,
                                          value |-> value[tree[i].content]]]]
     /\ UNCHANGED <<snapshots, second, begun, disturbed>>

Ended(engine) == [e \in DOMAIN runs \ {engine} |-> runs[e]]

Leaves(files_) == [i \in DOMAIN files_ |->
                    LeafHash(files_[i].path, files_[i].content, files_[i].value)]

Worth(files_) == SumFunction([i \in DOMAIN files_ |-> files_[i].value])

\* latest_snapshot, by the sorted ids.
Latest == {id \in DOMAIN snapshots : \A other \in DOMAIN snapshots : other <= id}

Snapshot(run) ==
  [root |-> MerkleRoot(Leaves(run.files)), total |-> Worth(run.files), files |-> run.files,
   previous |-> {snapshots[id].root : id \in Latest},
   delta |-> IF Latest = {} THEN 0
             ELSE Worth(run.files) - snapshots[CHOOSE id \in Latest : TRUE].total]

\* A run of the same second is overwritten.
Save(engine) ==
  /\ runs[engine].done
  /\ Torn \notin {snapshots[id] : id \in Latest}
  /\ snapshots' = AsOf(snapshots, runs[engine].id, Snapshot(runs[engine]))
  /\ runs' = Ended(engine)
  /\ UNCHANGED <<caches, second, begun, disturbed>>

\* A torn file is read by no later run: each one fails where it looks for it.
Fail(engine) ==
  /\ runs[engine].done
  /\ Torn \in {snapshots[id] : id \in Latest}
  /\ runs' = Ended(engine)
  /\ UNCHANGED <<snapshots, caches, second, begun, disturbed>>

\* The process stops, perhaps while a run writes its file.
Stop ==
  /\ \/ UNCHANGED snapshots
     \/ \E e \in DOMAIN runs : runs[e].done /\ snapshots' = AsOf(snapshots, runs[e].id, Torn)
  /\ runs' = [e \in {} |-> e]
  /\ caches' = [e \in Engines |-> [c \in {} |-> c]]
  /\ UNCHANGED <<second, begun, disturbed>>

AppraisalTick ==
  /\ second < LastSecond
  /\ second' = second + 1
  /\ UNCHANGED <<snapshots, runs, caches, begun, disturbed>>

AppraisalNext ==
  \/ \E engine \in Engines \ DOMAIN runs : Begin(engine)
  \/ \E engine \in DOMAIN runs :
       \/ \E tree \in Trees : Appraise(engine, tree)
       \/ Save(engine)
       \/ Fail(engine)
  \/ Stop
  \/ AppraisalTick

-----------------------------------------------------------------------------
Readable == {id \in DOMAIN snapshots : snapshots[id] # Torn}

\* The proof of any file leads to the root of its snapshot, whatever the
\* number of files (get_proof, appraisal_routes.py:166).
ProofsLeadToRoots ==
  \A id \in Readable :
    LET leaves == Leaves(snapshots[id].files)
    IN \A i \in DOMAIN leaves :
         Climb(leaves[i], MerkleProof(leaves, i - 1)) = snapshots[id].root

\* A snapshot says of the one before it what that one says of itself (run,
\* appraisal_service.py:374), so that delta_cents is the difference /delta
\* shows, unless its run went on beside another one or began in the second of
\* an earlier one.
SnapshotsChain ==
  \A id \in Readable \ disturbed :
    \A before \in DOMAIN snapshots :
      before < id /\ (\A other \in DOMAIN snapshots : other <= before \/ other >= id) =>
        /\ before \in Readable
        /\ snapshots[id].previous = {snapshots[before].root}
        /\ snapshots[id].delta = snapshots[id].total - snapshots[before].total

\* What the appraisal endpoints show of the snapshots holds together, each of
\* them in itself and with the one before it.
SnapshotsHoldTogether == ProofsLeadToRoots /\ SnapshotsChain
=============================================================================
