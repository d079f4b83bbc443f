----------------------------------- MODULE Site -----------------------------------
(* The web site as one single-threaded program of many tasks: a visitor moves   *)
(* between pages, the Demonstrator asks the engine one request a click, the     *)
(* Compliance page runs a whole corpus, and both share one engine, fetched when *)
(* it is first needed (site/src/engine_bridge.rs, demo_page.rs,                 *)
(* compliance_run.rs, compliance_cases.rs, compliance_page.rs, run_support.rs). *)
(* Texts, titles and reasons are left out; a request is a value the engine has  *)
(* an answer to.                                                                *)
(*                                                                              *)
(* A step is what happens between two suspensions of a task, or an event and    *)
(* everything that runs before the browser is given back control; the screen    *)
(* after a step is what is painted. coverage_run.rs and full_compliance_run.rs  *)
(* follow the same sequence; what they count and show is module Audit's.        *)
EXTENDS Integers, FiniteSets, SequencesExt

CONSTANTS
  Slugs,         \* names of cases
  Requests,      \* requests a case may carry
  NoRequest,     \* a case without one
  NoDecision,    \* a case that states no expected decision
  NoBaseline,    \* latest.json could not be fetched or parsed
  Response,      \* what the engine in this browser makes of each request
  CaseFiles,     \* case artifacts the server may hold
  Baselines,     \* native verdicts the server may hold
  MaxTasks,      \* bound on the tasks ever spawned
  MaxMounts      \* bound on the pages ever opened

-------------------------------------------------------------------------------
(* What the compliance page makes of the corpus it fetches: the verdict on one  *)
(* case, the live counters, the finished report and its comparison with the     *)
(* native run.                                                                  *)
Decisions == {"Allow", "Deny", "Error"}

(* "other" is a decision the contract does not define, "garbled" a response    *)
(* that is not the documented envelope, "trapped" a call that failed.          *)
Responses == Decisions \cup {"other", "garbled", "trapped"}

ASSUME CorpusAssumption ==
  /\ Response \in [Requests -> Responses]
  /\ NoRequest \notin Requests
  /\ NoDecision \notin Decisions \cup {"other"}

CaseFixture ==
  [slug : Slugs, request : Requests \cup {NoRequest},
   expected_decision : Decisions \cup {"other", NoDecision}, skip_reason : BOOLEAN]

Statuses == {"passed", "failed", "skipped", "errored"}

CaseOutcome == [slug : Slugs, status : Statuses]

-------------------------------------------------------------------------------
classify(expected, actual) ==
  IF ~({expected, actual} \subseteq Decisions) THEN "errored"
  ELSE IF expected = actual THEN "passed" ELSE "failed"

evaluated_outcome(fixture, response) ==
  [slug |-> fixture.slug,
   status |-> IF fixture.expected_decision = NoDecision \/ response = "garbled"
              THEN "errored"
              ELSE classify(fixture.expected_decision, response)]

non_evaluated_outcome(fixture) ==
  [slug |-> fixture.slug,
   status |-> IF fixture.skip_reason THEN "skipped" ELSE "errored"]

errored_outcome(fixture) == [slug |-> fixture.slug, status |-> "errored"]

(* One turn of the evaluation loop. A call that fails is an errored case, and  *)
(* the loop goes on.                                                           *)
outcome(fixture) ==
  IF fixture.request = NoRequest THEN non_evaluated_outcome(fixture)
  ELSE IF Response[fixture.request] = "trapped" THEN errored_outcome(fixture)
  ELSE evaluated_outcome(fixture, Response[fixture.request])

-------------------------------------------------------------------------------
NoProgress(total) ==
  [done |-> 0, total |-> total, tally |-> [s \in Statuses |-> 0]]

record(progress, status) ==
  [progress EXCEPT !.done = @ + 1, !.tally[status] = @ + 1]

(* The file is one of the current schema, and a run of no cases at all must    *)
(* not be able to report no failures.                                          *)
parse_case_file(file) == file.current /\ file.cases # << >>

-------------------------------------------------------------------------------
find(baseline, slug) == SelectInSeq(baseline, LAMBDA c : c.slug = slug)

Native(baseline, slug) ==
  IF find(baseline, slug) = 0 THEN "absent" ELSE baseline[find(baseline, slug)].status

Live(outcomes, slug) ==
  IF find(outcomes, slug) = 0 THEN "absent" ELSE outcomes[find(outcomes, slug)].status

compare_to_baseline(outcomes, baseline) ==
  {[slug |-> o.slug, native |-> Native(baseline, o.slug), live |-> o.status] :
     o \in {p \in Range(outcomes) : Native(baseline, p.slug) # p.status}}
  \cup
  {[slug |-> c.slug, native |-> c.status, live |-> "absent"] :
     c \in {d \in Range(baseline) : Live(outcomes, d.slug) = "absent"}}

compile_report(outcomes, baseline) ==
  [total |-> Len(outcomes),
   tally |-> [s \in Statuses |->
                Cardinality({k \in DOMAIN outcomes : outcomes[k].status = s})],
   baseline |-> IF baseline = NoBaseline THEN NoBaseline
                ELSE compare_to_baseline(outcomes, baseline)]

-------------------------------------------------------------------------------
ASSUME SiteAssumption ==
  /\ MaxTasks \in Nat /\ MaxMounts \in Nat \ {0}
  /\ \A f \in CaseFiles : f.current \in BOOLEAN /\ f.cases \in Seq(CaseFixture)
  /\ \A b \in Baselines : b \in Seq(CaseOutcome)
  /\ NoBaseline \notin Baselines

VARIABLES
  ENGINE,        \* is an instance cached in the thread-local
  page,          \* the page shown
  mount,         \* how many pages were opened: the page shown is the last of them
  screen,        \* the state the page shows, and the task that set it
  tasks,         \* every task spawned, in order
  resetAt        \* history: tasks spawned when the form was last reset or opened

siteVars == <<ENGINE, page, mount, screen, tasks, resetAt>>

Pages == {"demo", "compliance"}

Stages == {"LoadingWasm", "LoadingCases", "Evaluating", "Compiling"}

(* A run waits to be repainted, for a fetch, or for the next frame; an         *)
(* evaluation waits for the engine only.                                       *)
stage == [paint |-> "LoadingWasm", load |-> "LoadingWasm", cases |-> "LoadingCases",
          baseline |-> "LoadingCases", frame |-> "Evaluating", compile |-> "Compiling"]

NewTask(kind, at) ==
  [kind |-> kind, mount |-> mount', at |-> at, waited |-> at # "ended",
   cases |-> << >>, baseline |-> NoBaseline, outcomes |-> << >>,
   progress |-> NoProgress(0), report |-> NoBaseline, painted |-> {}]

Ended(i) == tasks[i].at = "ended"

Show(kind, i) == [kind |-> kind, by |-> i]

-------------------------------------------------------------------------------
(* Setting the state of a page that is gone has no effect.                     *)
set(t, kind, i) == IF t.mount = mount THEN Show(kind, i) ELSE screen

Await(i, t, at) ==
  /\ tasks' = [tasks EXCEPT ![i] =
       [t EXCEPT !.at = at, !.painted = @ \cup {stage[at]}]]
  /\ screen' = set(t, stage[at], i)
  /\ UNCHANGED <<page, mount, resetAt>>

End(i, t, kind) ==
  /\ tasks' = [tasks EXCEPT ![i] = [t EXCEPT !.at = "ended"]]
  /\ screen' = set(t, kind, i)
  /\ UNCHANGED <<page, mount, resetAt>>

SiteInit ==
  /\ ENGINE = FALSE
  /\ page = "demo" /\ mount = 1 /\ screen = Show("Idle", 0)
  /\ tasks = << >> /\ resetAt = 0

-------------------------------------------------------------------------------
(* A run that relies on ensure_loaded to suspend: with the engine cached it is *)
(* loading cases by the time anything is painted.                              *)
SpawnRun_Unyielding ==
  /\ Len(tasks) < MaxTasks
  /\ LET at == IF ENGINE THEN "cases" ELSE "load"
     IN  /\ tasks' = Append(tasks, [NewTask("run", at) EXCEPT !.painted = {stage[at]}])
         /\ screen' = Show(stage[at], Len(tasks) + 1)

(* A run that has set its first state and is waiting to see it painted.        *)
SpawnRun ==
  /\ Len(tasks) < MaxTasks
  /\ tasks' = Append(tasks,
       [NewTask("run", "paint") EXCEPT !.painted = {"LoadingWasm"}])
  /\ screen' = Show("LoadingWasm", Len(tasks) + 1)

(* The page shown is dropped with its state; the tasks it spawned go on.       *)
Navigate(p) ==
  /\ p # page /\ mount < MaxMounts
  /\ page' = p /\ mount' = mount + 1 /\ resetAt' = Len(tasks)
  /\ CASE p = "compliance" -> SpawnRun
       [] p = "demo" -> screen' = Show("Idle", 0) /\ UNCHANGED tasks
  /\ UNCHANGED ENGINE

(* The button is there once the run is over, well or badly.                    *)
Rerun ==
  /\ page = "compliance" /\ screen.kind \in {"Done", "Failed"}
  /\ mount' = mount /\ SpawnRun
  /\ UNCHANGED <<ENGINE, page, resetAt>>

(* An evaluation that suspends before it asks the cached engine.               *)
Evaluate_Deferred ==
  /\ page = "demo" /\ Len(tasks) < MaxTasks
  /\ mount' = mount
  /\ tasks' = Append(tasks, [NewTask("evaluate", "load") EXCEPT !.waited = ~ENGINE])
  /\ screen' = Show("Running", Len(tasks) + 1)
  /\ UNCHANGED <<ENGINE, page, resetAt>>

(* A click on Evaluate. With an engine cached nothing suspends, and the answer *)
(* is there when the page is next painted. The button is never disabled.       *)
Evaluate ==
  /\ page = "demo" /\ Len(tasks) < MaxTasks
  /\ mount' = mount
  /\ tasks' = Append(tasks, NewTask("evaluate", IF ENGINE THEN "ended" ELSE "load"))
  /\ screen' = Show(IF ENGINE THEN "Done" ELSE "Running", Len(tasks) + 1)
  /\ UNCHANGED <<ENGINE, page, resetAt>>

(* Load example, or Clear.                                                     *)
Reset ==
  /\ page = "demo"
  /\ screen' = Show("Idle", 0) /\ resetAt' = Len(tasks)
  /\ UNCHANGED <<ENGINE, page, mount, tasks>>

-------------------------------------------------------------------------------
(* The rest of a task once ensure_loaded has returned.                         *)
Loaded(i, t) ==
  \/ t.kind = "evaluate" /\ End(i, t, "Done")
  \/ t.kind = "run" /\ Await(i, t, "cases")

Painted(i) ==
  LET t == tasks[i] IN
  /\ t.at = "paint"
  /\ IF ENGINE THEN Loaded(i, t) ELSE Await(i, t, "load")
  /\ UNCHANGED ENGINE

(* Each task that found no engine fetches one; the last to arrive stays.       *)
EngineArrives(i) ==
  /\ tasks[i].at = "load" /\ ENGINE' = TRUE
  /\ Loaded(i, tasks[i])

(* A run that tries again as long as the engine does not come.                 *)
EngineLost_Retried(i) ==
  LET t == tasks[i] IN
  /\ t.at = "load" /\ UNCHANGED ENGINE
  /\ IF t.kind = "run" THEN Await(i, t, "paint") ELSE End(i, t, "Done")

EngineLost(i) ==
  LET t == tasks[i] IN
  /\ t.at = "load" /\ UNCHANGED ENGINE
  /\ End(i, t, IF t.kind = "run" THEN "Failed" ELSE "Done")

CasesArrive(i) ==
  /\ tasks[i].at = "cases" /\ UNCHANGED ENGINE
  /\ \E f \in CaseFiles :
       IF parse_case_file(f)
       THEN Await(i, [tasks[i] EXCEPT !.cases = f.cases,
                                      !.progress = NoProgress(Len(f.cases))], "baseline")
       ELSE End(i, tasks[i], "Failed")

CasesLost(i) ==
  /\ tasks[i].at = "cases" /\ UNCHANGED ENGINE
  /\ End(i, tasks[i], "Failed")

-------------------------------------------------------------------------------
(* The task after the cases up to n, each recorded when it is evaluated.       *)
Upto(t, n) ==
  LET fresh == [k \in 1..(n - Len(t.outcomes)) |-> outcome(t.cases[Len(t.outcomes) + k])]
  IN  [t EXCEPT !.outcomes = @ \o fresh,
                !.progress = FoldLeft(LAMBDA p, o : record(p, o.status), @, fresh)]

(* As many cases as a frame has time for, then on in the next one, or to the   *)
(* end. The evaluations do not suspend: the engine is there.                   *)
Perform(i, t) ==
  \/ \E n \in (Len(t.outcomes) + 1)..Len(t.cases) : Await(i, Upto(t, n), "frame")
  \/ Await(i, Upto(t, Len(t.cases)), "compile")

(* The baseline is only compared against: without it the run goes on.          *)
BaselineSettles(i) ==
  /\ tasks[i].at = "baseline" /\ UNCHANGED ENGINE
  /\ \E b \in Baselines \cup {NoBaseline} : Perform(i, [tasks[i] EXCEPT !.baseline = b])

NextFrame(i) ==
  /\ tasks[i].at = "frame" /\ UNCHANGED ENGINE
  /\ Perform(i, tasks[i])

Compiled(i) ==
  LET t == tasks[i] IN
  /\ t.at = "compile" /\ UNCHANGED ENGINE
  /\ End(i, [t EXCEPT !.report = compile_report(t.outcomes, t.baseline)], "Done")

Settle(i) ==
  \/ Painted(i) \/ EngineArrives(i) \/ EngineLost(i) \/ CasesArrive(i) \/ CasesLost(i)
  \/ BaselineSettles(i) \/ NextFrame(i) \/ Compiled(i)

Visitor == (\E p \in Pages : Navigate(p)) \/ Rerun \/ Evaluate \/ Reset

SiteNext == Visitor \/ \E i \in DOMAIN tasks : Settle(i)

(* Each timer fires and each fetch settles, well or badly; a visitor need do   *)
(* nothing.                                                                    *)
SiteSpec ==
  /\ SiteInit /\ [][SiteNext]_siteVars
  /\ \A i \in 1..MaxTasks : WF_siteVars(i \in DOMAIN tasks /\ Settle(i))

-------------------------------------------------------------------------------
(* The Demonstrator shows an answer to the request submitted last, and none    *)
(* from before the form was reset - unless that answer had to wait for the     *)
(* engine to load, which is the one thing that lets evaluations overtake each  *)
(* other. Even then it answers a request of this visit.                        *)
ShownAnswersThisForm ==
  page = "demo" /\ screen.kind = "Done" =>
    LET t == tasks[screen.by] IN
    /\ t.kind = "evaluate" /\ t.mount = mount
    /\ ~t.waited => screen.by = Len(tasks) /\ screen.by > resetAt

(* In a run that came to its end, re-runs with a cached engine included, the   *)
(* stages before and after the evaluation were all on screen. A corpus         *)
(* evaluated within one frame never shows "Performing tests".                  *)
StagesPainted ==
  page = "compliance" /\ screen.kind = "Done" =>
    Stages \ {"Evaluating"} \subseteq tasks[screen.by].painted

(* "no stage can stay active forever": every task comes to an end.             *)
TasksEnd ==
  \A i \in 1..MaxTasks : (i \in DOMAIN tasks) ~> (i \in DOMAIN tasks /\ Ended(i))
=============================================================================
