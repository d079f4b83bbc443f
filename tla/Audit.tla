---------------------------------- MODULE Audit ---------------------------------
(***************************************************************************)
(* The coverage page and the full-compliance page, each replaying the      *)
(* catalog of probes against the one engine the site has cached, and each  *)
(* judging what came back on its own axis: whether the engine answers as   *)
(* the repository documents, whether it answers as ODRL 2.2 requires       *)
(* (site/src/coverage_run.rs, full_compliance_run.rs, coverage_state.rs,   *)
(* full_compliance_state.rs, and the catalogs they judge by).              *)
(*                                                                         *)
(* An answer is what the bridge to the engine gives back: a response, text *)
(* that is not one ("garbled"), or a call that failed ("trapped").         *)
(*                                                                         *)
(* A step is what a run does between two suspensions.  The engine is       *)
(* deterministic: what it answers a probe is fixed for a behaviour.        *)
(***************************************************************************)
EXTENDS Naturals, Sequences, FiniteSets, Functions

Statuses == {"Implemented", "Partial", "NotImplemented", "OutOfScope"}
ProbeStatus == {"Agreed", "Disagreed", "Errored"}
RowVerdict == {"Verified", "Contradicted", "Inconclusive", "Documented"}
SpecOutcome == {"MeetsFullSpec", "FallsShort", "Undetermined"}
RowSpecVerdict == SpecOutcome \cup {"StructuralGap"}

is_known_decision(decision) == decision \in {"allow", "deny", "error"}

-------------------------------------------------------------------------------
(* Every rejection is total: a catalog that half-parsed is no catalog.     *)
ProbeIds(catalog) == {catalog.probes[i].id : i \in DOMAIN catalog.probes}

parse_coverage_catalog(catalog) ==
  /\ catalog.probes # <<>> /\ catalog.rows # <<>>
  /\ \A r \in DOMAIN catalog.rows :
       /\ (catalog.rows[r].probe_ids = <<>>) = catalog.rows[r].documented_because
       /\ Range(catalog.rows[r].probe_ids) \subseteq ProbeIds(catalog)

-------------------------------------------------------------------------------
(* One probe.  A decision out of the contract is nobody's agreement and    *)
(* nobody's contradiction.                                                 *)
classify_probe(expect, response) ==
  IF ~is_known_decision(response.decision) THEN "Errored"
  ELSE IF /\ response.decision = expect.decision
          /\ expect.contains \subseteq response.reason
          /\ expect.excludes \cap response.reason = {}
          /\ expect.duties \subseteq {response.duties}
          /\ expect.dataset \subseteq {response.dataset}
         THEN "Agreed" ELSE "Disagreed"

(* A slip: text that is no response reads as one that disagrees.           *)
outcome_Garbled(probe, answer) ==
  IF answer.kind = "answered" THEN classify_probe(probe.expect, answer.response)
  ELSE IF answer.kind = "garbled" THEN "Disagreed" ELSE "Errored"

(* evaluated_probe_outcome and errored_probe_outcome. *)
outcome(probe, answer) ==
  IF answer.kind = "answered" THEN classify_probe(probe.expect, answer.response) ELSE "Errored"

(* The presence of an ideal is the judgment, not a comparison of           *)
(* decisions; and it says nothing of an engine that left its documentation. *)
judge_probe(probe, status) ==
  IF status # "Agreed" THEN "Undetermined"
  ELSE IF probe.ideal # "none" THEN "FallsShort" ELSE "MeetsFullSpec"

-------------------------------------------------------------------------------
(* One row, from the outcomes of its probes.                               *)
derive_verdict(row, outcomes) ==
  IF row.probe_ids = <<>> THEN "Documented"
  ELSE IF outcomes = {} THEN "Inconclusive"
  ELSE IF "Disagreed" \in outcomes THEN "Contradicted"
  ELSE IF "Errored" \in outcomes THEN "Inconclusive"
  ELSE "Verified"

derive_row_verdict(row, judgments) ==
  IF row.full_compliance_gap THEN "StructuralGap"
  ELSE IF judgments = {} THEN "Undetermined"
  ELSE IF "FallsShort" \in judgments THEN "FallsShort"
  ELSE IF "Undetermined" \in judgments THEN "Undetermined"
  ELSE "MeetsFullSpec"

is_in_scope(row) == row.status # "OutOfScope"

(* A slip: every row in scope counts as one with a gap to demonstrate.     *)
is_implementable_InScope(row) == row.status # "OutOfScope"

is_implementable(row) == row.status \in {"Partial", "NotImplemented"}

InScope(catalog) == {r \in DOMAIN catalog.rows : is_in_scope(catalog.rows[r])}

(* The distinct probes the full-compliance page judges: those a row in     *)
(* scope names.                                                            *)
judged_ids(catalog) == UNION {Range(catalog.rows[r].probe_ids) : r \in InScope(catalog)}

-------------------------------------------------------------------------------
(* The judgments of which the specification admits another reading: the    *)
(* row and the probe, what ODRL would require of the probe under the       *)
(* reading rejected, and what the entry says becomes of the row then.      *)
ContestedReading(row_id, probe, alternative, becomes) ==
  [row |-> row_id, probe |-> probe, alternative |-> alternative, becomes |-> becomes]

CONTESTED_READINGS ==
  {ContestedReading("actions.included-in-transitive", "act-includedin-undeclared-gap", "none", "MeetsFullSpec"),
   ContestedReading("left-operands.spatial", "lo-spatial-no-containment", "allow", "FallsShort"),
   ContestedReading("left-operands.opaque", "lo-language-no-bcp47", "allow", "unsaid"),
   ContestedReading("left-operands.coordinates", "lo-absoluteposition-no-ordering", "allow", "unsaid"),
   ContestedReading("operators.ordering", "op-lt-mixed-type-miss", "error", "unsaid"),
   ContestedReading("operators.isa-haspart", "op-haspart-unparseable", "allow", "FallsShort"),
   ContestedReading("policy-classes.discrimination", "pc-kind-offer-assignee-inert-even-on-a-match", "deny", "unsaid"),
   ContestedReading("policy-classes.discrimination", "pc-kind-offer-assignee-inert-even-on-a-mismatch", "deny", "unsaid"),
   ContestedReading("policy-classes.discrimination", "pc-kind-ticket-with-assignee", "error", "unsaid"),
   ContestedReading("policy-classes.discrimination", "pc-kind-nonsense", "none", "unsaid"),
   ContestedReading("policy-classes.set-default", "pc-kind-nonsense", "none", "MeetsFullSpec"),
   ContestedReading("party.assigner-assignee", "pf-assignee-scoped-miss", "none", "MeetsFullSpec"),
   ContestedReading("other.uid", "uid-rule-index-not-uid", "allow", "FallsShort"),
   ContestedReading("other.uid", "uid-constraint-no-uid", "none", "unsaid"),
   ContestedReading("other.right-operand-reference", "ror-reference-key-ignored", "none", "unsaid")}

contested_readings_for(row) == {entry \in CONTESTED_READINGS : entry.row = row.id}

(* The rows noted as meeting the specification on the probes they carry,   *)
(* while what their documented status names is reached by none of them.    *)
UNREACHED_NARROWING ==
  {"actions.implies", "actions.spec-taxonomy", "left-operands.numeric", "left-operands.spatial",
   "left-operands.opaque", "left-operands.durations", "left-operands.coordinates",
   "left-operands.unit-of-count", "operators.neq", "operators.ordering", "logical.and-sequence",
   "party.inverse-properties", "party.common-functions", "duty.obligation", "duty.remedy",
   "assets.collections", "assets.target", "assets.output", "other.uid", "other.inherit-from"}

unreached_narrowing(row) == row.id \in UNREACHED_NARROWING

(* What the cell of a row says of its target.  Where the decision is what  *)
(* ODRL requires, the evidence is the prose of the ideal.                  *)
shortfall_headline(observed, ideal) ==
  IF observed = ideal THEN "the decision is not what falls short" ELSE "the decisions differ"

target_html(row, verdict) ==
  IF verdict # "MeetsFullSpec" THEN verdict
  ELSE IF is_implementable(row) /\ unreached_narrowing(row) THEN "narrowing unreached" ELSE "met"

-------------------------------------------------------------------------------
(* The reports.  statuses holds what became of each probe, in the order of *)
(* the catalog; a row is looked up by the ids it names.                    *)
Tally(f, kinds) == [k \in kinds |-> Cardinality({x \in DOMAIN f : f[x] = k})]

With(catalog, ids) == {i \in DOMAIN catalog.probes : catalog.probes[i].id \in ids}

Named(catalog, row) == LET ids == Range(row.probe_ids) IN With(catalog, ids)

StatusTally(catalog, scope) ==
  Tally([r \in scope |-> catalog.rows[r].status], Statuses)

compile_coverage_report(catalog, statuses) ==
  LET verdict == [r \in DOMAIN catalog.rows |->
                    derive_verdict(catalog.rows[r],
                                   {statuses[i] : i \in Named(catalog, catalog.rows[r])})]
  IN  [probes |-> Tally(statuses, ProbeStatus), total |-> Len(statuses), verdict |-> verdict,
       rows |-> Tally(verdict, RowVerdict), documented |-> StatusTally(catalog, DOMAIN catalog.rows)]

compile_full_compliance_report(catalog, statuses) ==
  LET ids      == judged_ids(catalog)
      judged   == With(catalog, ids)
      judgment == [i \in DOMAIN catalog.probes |-> judge_probe(catalog.probes[i], statuses[i])]
      verdict  == [r \in InScope(catalog) |->
                     derive_row_verdict(catalog.rows[r],
                       {judgment[i] : i \in Named(catalog, catalog.rows[r])})]
  IN  [probes |-> Tally([i \in judged |-> judgment[i]], SpecOutcome),
       total |-> Cardinality(judged), verdict |-> verdict,
       rows |-> Tally(verdict, RowSpecVerdict), documented |-> StatusTally(catalog, InScope(catalog))]

-------------------------------------------------------------------------------
(* A scene: the catalog served, what the engine answers each probe of it,  *)
(* how often a page is run, and whether catalog and engine are the         *)
(* repository's own.                                                       *)
CONSTANT Scenes

ASSUME AuditAssumption ==
  \A i \in DOMAIN Scenes :
    LET s == Scenes[i] IN
    /\ s.catalog.probes \in Seq({s.catalog.probes[j] : j \in DOMAIN s.catalog.probes})
    /\ DOMAIN s.answers = DOMAIN s.catalog.probes
    /\ s.visits \in Nat /\ s.shipped \in BOOLEAN
    /\ \A j, k \in DOMAIN s.catalog.probes : s.catalog.probes[j].id = s.catalog.probes[k].id => j = k

VARIABLES
  scene,        \* what is served and answered, for good
  ENGINE,       \* is an instance cached
  runs          \* page -> its run

auditVars == <<scene, ENGINE, runs>>

Pages == {"coverage", "full-compliance"}

catalog == scene.catalog

answers == scene.answers

(* The states of a run.  Probing and Replaying, Compiling and Judging are  *)
(* the pages' two names for one stage.                                     *)
Stages == {"LoadingWasm", "LoadingCatalog", "Probing", "Compiling"}

Kinds(p) == IF p = "coverage" THEN ProbeStatus ELSE SpecOutcome

(* A slip: the total is that of the catalog on either page.                *)
total_Catalog(p) == Len(catalog.probes)

total(p) == IF p = "coverage" THEN Len(catalog.probes) ELSE Cardinality(judged_ids(catalog))

progress_default(p, n) == [done |-> 0, total |-> n, counts |-> [k \in Kinds(p) |-> 0]]

record(progress, kind) ==
  [done |-> progress.done + 1, total |-> progress.total,
   counts |-> [progress.counts EXCEPT ![kind] = @ + 1]]

-------------------------------------------------------------------------------
AuditInit ==
  /\ scene \in Range(Scenes)
  /\ ENGINE = FALSE
  /\ runs = [p \in Pages |->
       [state |-> "Unopened", failed_at |-> "none", visits |-> 0, outcomes |-> <<>>,
        progress |-> progress_default(p, 0)]]

Becomes(p, run) == runs' = [runs EXCEPT ![p] = run] /\ UNCHANGED scene

(* The page is opened, or its Re-run button pressed, which shows only when *)
(* a run is over.                                                          *)
Start(p) ==
  /\ runs[p].state \in {"Unopened", "Done", "Failed"}
  /\ runs[p].visits < scene.visits
  /\ Becomes(p, [state |-> "LoadingWasm", failed_at |-> "none", visits |-> runs[p].visits + 1,
                 outcomes |-> <<>>, progress |-> progress_default(p, 0)])
  /\ UNCHANGED ENGINE

(* ensure_loaded: the cached instance, or one that arrives now. *)
Load(p) ==
  /\ runs[p].state = "LoadingWasm"
  /\ Becomes(p, [runs[p] EXCEPT !.state = "LoadingCatalog"])
  /\ ENGINE' = TRUE

Fail(p) == Becomes(p, [runs[p] EXCEPT !.state = "Failed", !.failed_at = runs[p].state])

LoadFails(p) ==
  /\ runs[p].state = "LoadingWasm" /\ ~ENGINE
  /\ Fail(p)
  /\ UNCHANGED ENGINE

Fetch(p) ==
  /\ runs[p].state = "LoadingCatalog"
  /\ parse_coverage_catalog(catalog)
  /\ Becomes(p, [runs[p] EXCEPT !.state = "Probing", !.progress = progress_default(p, total(p))])
  /\ UNCHANGED ENGINE

(* The file does not arrive, or is not a catalog. *)
FetchFails(p) ==
  /\ runs[p].state = "LoadingCatalog"
  /\ Fail(p)
  /\ UNCHANGED ENGINE

(* The callback of the page after each probe: it counts what it judges, as *)
(* it judges it.                                                           *)
Counted(p, progress, i, status) ==
  LET probe == catalog.probes[i] IN
    IF p = "coverage" THEN record(progress, status)
    ELSE IF probe.id \in judged_ids(catalog) THEN record(progress, judge_probe(probe, status))
    ELSE progress

(* A probe that fails is recorded like any other, and the loop goes on.    *)
Probe(p) ==
  LET i == Len(runs[p].outcomes) + 1
      status == outcome(catalog.probes[i], answers[i])
  IN  /\ runs[p].state = "Probing" /\ i <= Len(catalog.probes)
      /\ Becomes(p, [runs[p] EXCEPT !.outcomes = Append(@, status),
                                    !.progress = Counted(p, @, i, status)])
      /\ UNCHANGED ENGINE

ReplayEnds(p) ==
  /\ runs[p].state = "Probing" /\ Len(runs[p].outcomes) = Len(catalog.probes)
  /\ Becomes(p, [runs[p] EXCEPT !.state = "Compiling"])
  /\ UNCHANGED ENGINE

Compile(p) ==
  /\ runs[p].state = "Compiling"
  /\ Becomes(p, [runs[p] EXCEPT !.state = "Done"])
  /\ UNCHANGED ENGINE

(* The report a run that is Done carries: a pure function of what it heard. *)
report(p) ==
  IF p = "coverage" THEN compile_coverage_report(catalog, runs[p].outcomes)
  ELSE compile_full_compliance_report(catalog, runs[p].outcomes)

Continue(p) ==
  Load(p) \/ LoadFails(p) \/ Fetch(p) \/ FetchFails(p) \/ Probe(p) \/ ReplayEnds(p) \/ Compile(p)

AuditNext == \E p \in Pages : Start(p) \/ Continue(p)

(* A suspended run is resumed: fetches settle, frames come.  Nobody has to *)
(* open a page.                                                            *)
AuditSpec == AuditInit /\ [][AuditNext]_auditVars /\ \A p \in Pages : WF_auditVars(Continue(p))

-------------------------------------------------------------------------------
Done(p) == runs[p].state = "Done"

(* The numbers a visitor watches climb are those the finished report       *)
(* prints, over one denominator, and never overtake it.                    *)
CountersForetell ==
  \A p \in Pages :
    LET progress == runs[p].progress
        finished == report(p)
    IN  /\ progress.done <= progress.total
        /\ Done(p) => /\ progress.done = finished.total /\ progress.total = finished.total
                      /\ progress.counts = finished.probes

(* What the engine was really heard to decide about a probe. *)
Heard(i) ==
  answers[i].kind = "answered" /\ is_known_decision(answers[i].response.decision)

(* A probe the browser could not judge turns no row green on either page,  *)
(* and no row red: whoever is contradicted or vouched for was heard.       *)
UnheardNeverScores ==
  \A p \in Pages : Done(p) =>
    LET verdict == report(p).verdict IN
      \A r \in DOMAIN verdict :
        LET probes_of == Named(catalog, catalog.rows[r]) IN
          /\ verdict[r] \in {"Verified", "MeetsFullSpec"}
               => probes_of # {} /\ \A i \in probes_of : Heard(i)
          /\ verdict[r] = "Contradicted" => \E i \in probes_of : Heard(i)
          /\ verdict[r] = "FallsShort"
               => \E i \in probes_of : Heard(i) /\ catalog.probes[i].ideal # "none"

(* The engine answers every probe of its own catalog as documented: no row *)
(* is contradicted and none inconclusive.                                  *)
EngineKeepsItsWord ==
  scene.shipped /\ Done("coverage") =>
    LET ours == report("coverage") IN
      /\ ours.probes = [Agreed |-> 139, Disagreed |-> 0, Errored |-> 0]
      /\ ours.rows = [Verified |-> 50, Documented |-> 2, Contradicted |-> 0, Inconclusive |-> 0]

(* The catalog, had the reading an entry rejects been shipped.             *)
Reread(entry) ==
  [catalog EXCEPT !.probes =
     [i \in DOMAIN @ |->
        IF @[i].id = entry.probe THEN [@[i] EXCEPT !.ideal = entry.alternative] ELSE @[i]]]

(* What the page says beside its verdicts is true of them: of the rows     *)
(* with a documented gap, those that meet the specification are those      *)
(* noted as unreached; a contested reading stands at a row that names its  *)
(* probe, six of the fifteen fall short (five probes of fourteen), and     *)
(* shipping the reading it rejects turns the row as it says; and only of   *)
(* one probe that falls short is the decision itself right.                *)
JudgmentsExplained ==
  scene.shipped /\ Done("full-compliance") =>
    LET ours    == report("full-compliance").verdict
        judged  == With(catalog, judged_ids(catalog))
        Of(e)   == CHOOSE i \in judged : catalog.probes[i].id = e.probe
        RowOf(e)  == CHOOSE r \in InScope(catalog) : catalog.rows[r].id = e.row
        Falls(i) == judge_probe(catalog.probes[i], runs["full-compliance"].outcomes[i]) = "FallsShort"
        short   == {e \in CONTESTED_READINGS : Falls(Of(e))}
    IN  /\ \A r \in InScope(catalog) :
             (is_implementable(catalog.rows[r]) /\ ours[r] = "MeetsFullSpec")
               <=> target_html(catalog.rows[r], ours[r]) = "narrowing unreached"
        /\ UNREACHED_NARROWING \subseteq {catalog.rows[r].id : r \in InScope(catalog)}
        /\ CONTESTED_READINGS =
             UNION {contested_readings_for(catalog.rows[r]) : r \in InScope(catalog)}
        /\ \A e \in CONTESTED_READINGS :
             /\ Of(e) \in Named(catalog, catalog.rows[RowOf(e)])
             /\ compile_full_compliance_report(Reread(e), runs["full-compliance"].outcomes)
                  .verdict[RowOf(e)] \in (IF e.becomes = "unsaid" THEN RowSpecVerdict ELSE {e.becomes})
        /\ Cardinality(short) = 6 /\ Cardinality({e.probe : e \in short}) = 5
        /\ Cardinality({e.probe : e \in CONTESTED_READINGS}) = 14
        /\ {catalog.probes[i].id : i \in {i \in judged :
              Falls(i) /\ shortfall_headline(answers[i].response.decision, catalog.probes[i].ideal)
                          # "the decisions differ"}}
             = {"duty-consequence-itself-unresolved"}

===============================================================================
