------------------------------ MODULE FileLife ------------------------------
(***************************************************************************)
(* backend/filelife: the registry of files, whose SKU spells out a file's  *)
(* stage, version, commit, anchor and score and therefore changes, while   *)
(* commits, anchors, appraisals, verifications, collateral and liens are   *)
(* found by the SKU they were filed under.  One process serves requests on *)
(* an event loop: a handler runs without interruption up to an await, and  *)
(* only the handlers that call GitHub or Solana have one.  Nothing keeps   *)
(* requests on one file apart, identical ones included.                    *)
(* All files here have one category, kind and jurisdiction; what is priced *)
(* enters as whether the value is positive.                                *)
(***************************************************************************)
EXTENDS Integers, FiniteSets, Sequences, SequencesExt

CONSTANTS
  Contents,    \* raw hashes of files
  Commits,     \* commits GitHub makes, in this order; also bounds them
  Txs,         \* signatures of Solana transactions
  None,        \* eight zeros: no commit, no transaction
  Worths,      \* whether what is priced is worth anything
  Budgets      \* bounds of a behaviour: requests answered, file records, handlers
               \*   awaiting an answer at once, lien records, and whether the process
               \*   may crash, once, between two transactions of a request

ASSUME FileLifeAssumption ==
  /\ Worths \subseteq BOOLEAN
  /\ Commits \in Seq(ToSet(Commits)) /\ IsInjective(Commits)
  /\ None \notin ToSet(Commits) \cup Txs
  /\ Budgets \subseteq [requests : Nat, files : Nat, inFlight : Nat, liens : Nat, crash : BOOLEAN]

VARIABLES
  files,       \* FileRecord rows: content, sku, stage, version
  gitCommits,  \* GitHubCommit rows: the SKU of each commit, and of which file (history)
  anchors,     \* ChainAnchor rows, in order: SKU, signature and memo
  appraised,   \* SKUs with an AppraisalRecord
  scores,      \* of each SKU the latest VerificationRecord: failed checks of three
  collateral,  \* CollateralRecord rows by SKU
  liens,       \* LienRecord rows, in order; of which file each is (history)
  inFlight,    \* handlers awaiting GitHub or Solana, each under a number of its own
  events,      \* LifecycleEvent rows: file and stage
  evaluated,   \* history: files that were evaluated
  pledgedOver, \* history: SKUs pledged while a lien on them stood
  reissued,    \* history: SKUs evaluated again since the lien they show
  crashed,     \* history: the process crashed between two transactions
  untold,      \* history: file and stage of an event a crash lost
  budget       \* what is left of the bounds

lienVars == <<collateral, liens, evaluated, pledgedOver, reissued>>

crashVars == <<inFlight, crashed, untold>>

fileVars == <<files, gitCommits, anchors, appraised, scores, lienVars, events, crashVars, budget>>

Stages == 1..9

Sku == [stage : Stages, version : Nat \ {0}, commit : ToSet(Commits) \cup {None},
        tx : Txs \cup {None}, kpi : 0..9, col : BOOLEAN]

FileRecord == [content : Contents, sku : Sku, stage : Stages, version : Nat \ {0}]

\* What the memo of a transaction names: the hashes of a file and of its SKU,
\* and a commit; not the event or the appraisal the transaction is made for.
Memo == [file : Nat, sku : Sku, commit : ToSet(Commits) \cup {None}]

Handler == [kind : {"commit", "anchor", "anchor_appraisal"}, stage : Stages, memo : Memo]

FileTypeOK ==
  /\ files \in Seq(FileRecord)
  /\ \A i, j \in DOMAIN files : files[i].sku = files[j].sku => i = j
  /\ DOMAIN gitCommits \subseteq ToSet(Commits)
  /\ \A c \in DOMAIN gitCommits : gitCommits[c] \in [sku : Sku, file : DOMAIN files]
  /\ anchors \in Seq([sku : Sku, tx : Txs, memo : Memo])
  /\ appraised \subseteq Sku
  /\ \A s \in DOMAIN scores : s \in Sku /\ scores[s] \in 0..3
  /\ \A s \in DOMAIN collateral :
       s \in Sku /\ collateral[s] \in [shown : {"none", "pledged"}, cert : Nat]
  /\ liens \in Seq([sku : Sku, status : {"pledged", "released"}, cert : Nat, file : DOMAIN files])
  /\ \A n \in DOMAIN inFlight : inFlight[n] \in Handler
  /\ events \subseteq (DOMAIN files) \X Stages /\ untold \subseteq (DOMAIN files) \X Stages
  /\ evaluated \subseteq DOMAIN files /\ pledgedOver \subseteq Sku /\ reissued \subseteq Sku
  /\ crashed \in BOOLEAN
  /\ budget \in [requests : Nat, files : Nat, inFlight : Nat, liens : Nat, crash : BOOLEAN]

FileInit ==
  /\ files = <<>> /\ anchors = <<>> /\ liens = <<>>
  /\ gitCommits = [c \in {} |-> c] /\ scores = [s \in {} |-> s] /\ collateral = [s \in {} |-> s]
  /\ inFlight = [n \in {} |-> n]
  /\ appraised = {} /\ events = {} /\ untold = {}
  /\ evaluated = {} /\ pledgedOver = {} /\ reissued = {}
  /\ crashed = FALSE /\ budget \in Budgets

-----------------------------------------------------------------------------
\* generate_sku without a score; the raw hash is no part of it.
NewSku(stage, version, commit, tx) ==
  [stage |-> stage, version |-> version, commit |-> commit, tx |-> tx, kpi |-> 0, col |-> FALSE]

\* Mutant of Taken: the column is not unique.
NeverTaken(sku) == FALSE

\* The unique column a second row would violate.
Taken(sku) == \E i \in DOMAIN files : files[i].sku = sku

Filed(f, sku, record) == [s \in DOMAIN f \cup {sku} |-> IF s = sku THEN record ELSE f[s]]

\* Every handler stops.
Crash == budget.crash /\ ~crashed /\ crashed' = TRUE /\ inFlight' = [n \in {} |-> n]

\* record_event is a transaction of its own, after the one that changed the
\* file: a crash between the two loses the event.
TellEvent(i, stage, remaining) ==
  \/ /\ events' = events \cup {<<i, stage>>}
     /\ inFlight' = remaining
     /\ UNCHANGED <<crashed, untold>>
  \/ Crash /\ untold' = untold \cup {<<i, stage>>} /\ UNCHANGED events

Answer == budget.requests > 0 /\ budget' = [budget EXCEPT !.requests = @ - 1]

RegisterFile(content) ==
  LET earlier == {i \in DOMAIN files : files[i].content = content}
      version == IF earlier = {} THEN 1 ELSE files[Min(earlier)].version + 1
      sku == NewSku(1, version, None, None)
  IN /\ Answer
     /\ Len(files) < budget.files
     /\ ~Taken(sku)
     /\ files' = Append(files, [content |-> content, sku |-> sku, stage |-> 1, version |-> version])
     /\ TellEvent(Len(files'), 1, inFlight)
     /\ UNCHANGED <<gitCommits, anchors, appraised, scores, lienVars>>

\* Mutant of AdvanceToStage: the stage is committed before its event.
AdvanceThenTell(i, stage) ==
  /\ files' = [files EXCEPT ![i].stage = stage]
  /\ \/ events' = events \cup {<<i, stage>>} /\ UNCHANGED crashVars
     \/ Crash /\ UNCHANGED <<events, untold>>

\* advance_to_stage: here the event comes first; a crash loses the stage, or both.
AdvanceToStage(i, stage) ==
  /\ \/ /\ files' = [files EXCEPT ![i].stage = stage]
        /\ events' = events \cup {<<i, stage>>}
        /\ UNCHANGED crashVars
     \/ /\ Crash
        /\ events' \in {events, events \cup {<<i, stage>>}}
        /\ UNCHANGED <<files, untold>>

RunAppraisal(i) ==
  /\ Answer
  /\ appraised' = appraised \cup {files[i].sku}
  /\ AdvanceToStage(i, 6)
  /\ UNCHANGED <<gitCommits, anchors, scores, lienVars>>

\* A changed file fails two of the three checks; the third compares the hash
\* of the SKU, which is renewed with it.
Verify(i, intact) ==
  /\ Answer
  /\ scores' = Filed(scores, files[i].sku, IF intact THEN 0 ELSE 2)
  /\ IF intact THEN AdvanceToStage(i, 7) ELSE UNCHANGED <<files, events, crashVars>>
  /\ UNCHANGED <<gitCommits, anchors, appraised, lienVars>>

-----------------------------------------------------------------------------
\* The last commit filed under a SKU, as of a request for it.
CommitUnder(sku) ==
  LET found == {k \in DOMAIN Commits :
                  Commits[k] \in DOMAIN gitCommits /\ gitCommits[Commits[k]].sku = sku}
  IN IF found = {} THEN None ELSE Commits[Max(found)]

\* The first anchor filed under it.
AnchorUnder(sku) ==
  LET found == {k \in DOMAIN anchors : anchors[k].sku = sku}
  IN IF found = {} THEN None ELSE anchors[Min(found)].tx

\* The three handlers up to their await, in the first free place: what they
\* read is kept meanwhile.
Start(i, kind) ==
  /\ kind = "anchor_appraisal" => files[i].sku \in appraised
  /\ \E n \in 1..budget.inFlight :
       /\ n \notin DOMAIN inFlight /\ 1..(n - 1) \subseteq DOMAIN inFlight
       /\ inFlight' = Filed(inFlight, n,
            [kind |-> kind, stage |-> files[i].stage,
             memo |-> [file |-> i, sku |-> files[i].sku,
                       commit |-> IF kind = "anchor" THEN CommitUnder(files[i].sku) ELSE None]])
  /\ UNCHANGED <<files, gitCommits, anchors, appraised, scores, lienVars, events, crashed, untold,
                 budget>>

Remaining(n) == Restrict(inFlight, DOMAIN inFlight \ {n})

\* The row's session writes only what differs from what it read before the
\* await: a stage that was read as the new one keeps what others made of it.
Rename(h, sku) ==
  files' = [files EXCEPT ![h.memo.file].sku = sku,
                         ![h.memo.file].stage = IF h.stage = sku.stage THEN @ ELSE sku.stage]

\* commit_to_github after its await: the row read before it is overwritten,
\* whatever another handler made of it since.
FinishCommit(n) ==
  LET h == inFlight[n]
      commit == Commits[Cardinality(DOMAIN gitCommits) + 1]
      sku == NewSku(4, files[h.memo.file].version, commit, None)
  IN /\ Answer
     /\ h.kind = "commit"
     /\ Cardinality(DOMAIN gitCommits) < Len(Commits)
     /\ gitCommits' = Filed(gitCommits, commit, [sku |-> sku, file |-> h.memo.file])
     /\ Rename(h, sku)
     /\ TellEvent(h.memo.file, 4, Remaining(n))
     /\ UNCHANGED <<anchors, appraised, scores, lienVars>>

\* A signature is one of its memo.  The same memo gets the same signature again
\* while the blockhash is the same, and another one later.
SignedFor(memo) ==
  {tx \in Txs : \A k \in DOMAIN anchors : anchors[k].tx = tx => anchors[k].memo = memo}

FinishAnchor(n, tx) ==
  LET h == inFlight[n]
      sku == NewSku(5, files[h.memo.file].version, h.memo.commit, tx)
  IN /\ Answer
     /\ h.kind = "anchor"
     /\ tx \in SignedFor(h.memo)
     /\ anchors' = Append(anchors, [sku |-> sku, tx |-> tx, memo |-> h.memo])
     /\ Rename(h, sku)
     /\ TellEvent(h.memo.file, 5, Remaining(n))
     /\ UNCHANGED <<gitCommits, appraised, scores, lienVars>>

\* anchor_appraisal files its transaction under the SKU of the request.
FinishAnchorAppraisal(n, tx) ==
  LET h == inFlight[n]
  IN /\ Answer
     /\ h.kind = "anchor_appraisal"
     /\ tx \in SignedFor(h.memo)
     /\ anchors' = Append(anchors, [sku |-> h.memo.sku, tx |-> tx, memo |-> h.memo])
     /\ inFlight' = Remaining(n)
     /\ UNCHANGED <<files, gitCommits, appraised, scores, lienVars, events, crashed, untold>>

\* GitHub or Solana answers with an error, or the request is given up.
Abandon(n) ==
  /\ Answer
  /\ inFlight' = Remaining(n)
  /\ UNCHANGED <<files, gitCommits, anchors, appraised, scores, lienVars, events, crashed, untold>>

-----------------------------------------------------------------------------
\* get_verification_score in thirds; no verification scores like three failures.
Score(sku) == IF sku \in DOMAIN scores THEN 3 - scores[sku] ELSE 0

\* kpi of calculate_collateral, summed in sixths.
Kpi(stage, score, anchored, committed) ==
  LET records == (IF anchored THEN 1 ELSE 0) + (IF committed THEN 1 ELSE 0)
  IN (9 + 3 * score + 2 * stage + 9 * records) \div 6

\* Mutant of LienStatus: the rows come in no descending order.
FirstLienStatus(sku) ==
  LET filed == {n \in DOMAIN liens : liens[n].sku = sku}
  IN IF filed = {} THEN [status |-> "none", cert |-> 0]
     ELSE [status |-> liens[Min(filed)].status, cert |-> liens[Min(filed)].cert]

\* get_lien_status: the newest lien of the SKU, whatever its status.
LienStatus(sku) ==
  LET filed == {n \in DOMAIN liens : liens[n].sku = sku}
  IN IF filed = {} THEN [status |-> "none", cert |-> 0]
     ELSE [status |-> liens[Max(filed)].status, cert |-> liens[Max(filed)].cert]

Standing(sku) == {n \in DOMAIN liens : liens[n].sku = sku /\ liens[n].status = "pledged"}

\* The collateral is filed under the SKU of the request, and an evaluation
\* made before is overwritten, lien_status included.  The file then gets the SKU
\* of the commit and the anchor filed under the old one; if another file has
\* that SKU, the second transaction fails and the first one stays.
Evaluate(i, worth) ==
  LET sku == files[i].sku
      commit == CommitUnder(sku)
      tx == AnchorUnder(sku)
      renamed == [stage |-> files[i].stage, version |-> files[i].version, commit |-> commit,
                  tx |-> tx, kpi |-> Kpi(files[i].stage, Score(sku), tx # None, commit # None),
                  col |-> worth]
  IN /\ Answer
     /\ collateral' = Filed(collateral, sku, [shown |-> "none", cert |-> budget.requests])
     /\ evaluated' = evaluated \cup {i}
     /\ reissued' = IF LienStatus(sku).status = "pledged" THEN reissued \cup {sku} ELSE reissued
     /\ IF Taken(renamed) THEN UNCHANGED files ELSE files' = [files EXCEPT ![i].sku = renamed]
     /\ UNCHANGED <<gitCommits, anchors, appraised, scores, liens, pledgedOver, events, crashVars>>

Pledge(i) ==
  LET sku == files[i].sku IN
  /\ Answer
  /\ Len(liens) < budget.liens
  /\ sku \in DOMAIN collateral
  /\ liens' = Append(liens, [sku |-> sku, status |-> "pledged", cert |-> collateral[sku].cert,
                             file |-> i])
  /\ collateral' = [collateral EXCEPT ![sku].shown = "pledged"]
  /\ pledgedOver' = IF Standing(sku) = {} THEN pledgedOver ELSE pledgedOver \cup {sku}
  /\ reissued' = reissued \ {sku}
  /\ UNCHANGED <<files, gitCommits, anchors, appraised, scores, events, evaluated, crashVars>>

ShowRelease(sku) ==
  IF sku \in DOMAIN collateral THEN [collateral EXCEPT ![sku].shown = "none"] ELSE collateral

\* release_lien: the newest pledged lien of the SKU, whoever holds the others.
Release(i) ==
  LET sku == files[i].sku IN
  /\ Answer
  /\ \E n \in Standing(sku) : /\ \A m \in Standing(sku) : m <= n
                              /\ liens' = [liens EXCEPT ![n].status = "released"]
  /\ collateral' = ShowRelease(sku)
  /\ UNCHANGED <<files, gitCommits, anchors, appraised, scores, evaluated, pledgedOver, reissued,
                 events, crashVars>>

FileNext ==
  \/ \E content \in Contents : RegisterFile(content)
  \/ \E i \in DOMAIN files :
       \/ RunAppraisal(i)
       \/ \E intact \in BOOLEAN : Verify(i, intact)
       \/ \E worth \in Worths : Evaluate(i, worth)
       \/ \E kind \in {"commit", "anchor", "anchor_appraisal"} : Start(i, kind)
       \/ Pledge(i)
       \/ Release(i)
  \/ \E n \in DOMAIN inFlight :
       \/ FinishCommit(n)
       \/ \E tx \in Txs : FinishAnchor(n, tx) \/ FinishAnchorAppraisal(n, tx)
       \/ Abandon(n)

-----------------------------------------------------------------------------
\* What the API shows of a SKU's collateral and of its liens.  GET /certificate
\* (routes.py:392) puts the newest lien beside the certificate: while it is
\* pledged, it was made on that very certificate, unless the SKU was evaluated
\* again since; once it is released, or if there is none, no lien on the SKU is
\* still pledged, unless it was pledged twice at a time.  The metadata behind
\* /ask (llm_qa.py:42) names the status of the collateral beside that of the
\* newest lien: if the former is pledged, the latter is, on that certificate.
ShownLiensAreReal ==
  \A sku \in DOMAIN collateral :
    LET lien == LienStatus(sku)
        cert == collateral[sku].cert
    IN /\ lien.status = "pledged" => lien.cert = cert \/ sku \in reissued
       /\ lien.status # "pledged" => Standing(sku) = {} \/ sku \in pledgedOver
       /\ collateral[sku].shown = "pledged" => lien = [status |-> "pledged", cert |-> cert]

\* However the handlers of one file overtake each other across their awaits,
\* two identical requests included (commit_to_github, routes.py:246), the
\* commit a SKU spells is recorded and was made for the file that bears the
\* SKU, and the transaction it spells is recorded; and a file reached its stage
\* with an event to tell of it, unless the process stopped between that stage
\* of that file and its event, which is so only after a registration, a commit
\* or an anchor (routes.py:265) and never after advance_to_stage.
RecordsBackSku ==
  \A i \in DOMAIN files :
    /\ files[i].sku.commit # None =>
         files[i].sku.commit \in DOMAIN gitCommits /\ gitCommits[files[i].sku.commit].file = i
    /\ files[i].sku.tx # None => \E k \in DOMAIN anchors : anchors[k].tx = files[i].sku.tx
    /\ <<i, files[i].stage>> \in events \cup untold

\* Violated: routes.py:373 refuses a pledge with "Run /collateral/evaluate first
\* before pledging.", but looks for collateral by SKU: an evaluated file leaves
\* its SKU and its collateral to the next file of its kind, which is then
\* pledged without an evaluation.
PledgedWasEvaluated == \A n \in DOMAIN liens : liens[n].file \in evaluated
=============================================================================
