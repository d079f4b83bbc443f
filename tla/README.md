# TLA+ models of ds-odrl-engine-rs

The repository holds a policy engine for ODRL, the hosts that call it and the
tools around it. This directory holds its formal models: TLA+ modules, the TLC
configurations that check them on small instances, and proofs, checked by
TLAPS, of the properties that matter most. `PROJECT.json` lists the components,
the runs, the source lines each definition models, the hazards each property is
aimed at, and the one place where a run refutes the documentation.

## 1. Inventory

The engine is a pure function of a request: it keeps nothing between two calls.
Its difficulty is not concurrency but agreement - one fact is derived in several
places and by several walks - and termination on graphs an author may have drawn
in a circle. State that lives across calls belongs to its hosts.

| Component | State it keeps | Operations | What makes it correct |
|---|---|---|---|
| Vocabulary, `engine/src/profile.rs` | a list of action declarations | `recognizes`, `declared_actions`, the `covers` loop, `resolve` | the loop ends on every graph and answers ancestry exactly; the load order of profiles does not show |
| Claims and constraints, `claims.rs`, `constraint.rs` | a claims map | `evaluate_atomic`, `evaluate`, `collect_left_operands` | absent claims fail closed except `isNoneOf`; every claim read is reported |
| `temporal.rs` | none | parsing of instants and durations | the order of what parses is the order in time |
| `decision.rs` | none; a policy, a config, a claims map in | `decide`, `outstanding_duty`, `unresolved_*`, `performable_actions` | error before deny before allow; duty chains credited to a bound |
| Detailed report, `decision.rs`, `report.rs` | none | `derive_detailed_rule_reports`, `duty_chain_reports` | agrees with `decide` |
| Reason trace, `wire.rs` | none | `describe_reason` | names what decided |
| Inheritance, `wire.rs` | a memo and a recursion path, for one request | `ancestor_order`, `resolve_inherit_from` | rejects exactly the bad graphs; each ancestor once, in order |
| Request evaluation, `wire.rs` | evaluations and skipped policies, for one request | `build_scaffolding`, `response_from_scaffolding`, the introspection calls | one answer, independent of how it is computed |
| Request context, `wire.rs` | none | `check_context_bounds`, `effective_context` | bounded, never overwrites the host's data |
| ABI, `abi.rs` | guest memory | `alloc`, `evaluate`, `dealloc` | every buffer freed once |
| `release-history` | one guest instance, fuel per call | `GuestEngine::evaluate` | a failed probe does not spoil the next |
| `site` | cached instance, form, status, run token | evaluate, clear, load example, run | what is shown answers what was asked and is explained truly |
| `profile-interpreter` | an RDF graph | action extraction | nothing declared is dropped |
| `dsp-odrl-adapter` | a JSON-LD document | expand, three rewriting passes, ingest, detect inconsistencies | keeps the meaning of a document or says what it drops |
| `n3-enforcer` | a rule set and facts | reduce, reason | agrees with the engine |
| `compliance-*`, `coverage-probes` | test catalogues | translate, merge ids, infer, compare | what is measured is the engine and not the translator |

Calls go one way: hosts (site, release-history, runners) -> ABI ->
`evaluate_request` -> inheritance, then addressee and profile checks, then
`decide` per policy, which asks rules, which ask the vocabulary and the
constraints. The detailed report and the trace start from what `decide` was
given and come to their own conclusions. Profiles and the adapter feed the
request; the runners and the probes feed it too and judge the answer.

Hard behaviours: cyclic declarations (`covers`, `ancestor_order`), a memo next to
a recursion path, duplicate identifiers, a bound on consequence chains read by
three walks, three accounts of one decision, a second implementation of the
merge in a runner, rewriting passes whose order matters, contexts that are
undone on the way down, answers cached by a host while claims change, hand-written
notes beside computed verdicts, and - outside the engine - asynchronous
evaluations and traps.

## 2. Modules

| Module | Models | State and actions |
|---|---|---|
| `Taxonomy` | the declaration list and what coverage means | no state |
| `CoverWalk` | the loop of `ResolvedConfig::covers` | `current`, the actions visited, answer; one action per way an iteration ends |
| `Vocabulary` | profile documents, `interpret`, `resolve`; profiles loaded one by one, then a covers walk of what they resolve to, composing `CoverWalk` | profiles pending and loaded, and the walk; load, then ask |
| `Constraints` | claims and atomic constraints, the ten operators | no state |
| `Temporal` | `temporal.rs` from fields to instants | no state |
| `Clocks` | the reference for it: calendar clocks in two zones and a stopwatch, started together | what they show; tick |
| `ConstraintTree` | `and`, `or`, `xone` and `andSequence` trees under the depth bound: verdict, report, wording, keys reported | one tree being built and the claims; nest a node, supply and withdraw a claim |
| `Dnf` | compliance-runner's translation of a fixture to plain rules | that of `ConstraintTree` |
| `Rules` | one rule, one duty chain | no state |
| `Decision` | `decide` on one policy, its duties, introspection | no state |
| `Report` | detailed reports and `describe_reason` | no state |
| `Compare` | compliance-rdf-runner's inference of a decision and of duties from reports | no state |
| `Session` | one policy put together and questioned by a host | policy, ancestors merged, question; merge, supply and withdraw a claim, ask, join a collection |
| `Lineage` | the inheritance graph, declaratively | no state |
| `Inherit` | `ancestor_order` and the loop around it | memo, call stack, finished orders, status; one call or return a step |
| `Shadow` | compliance-rdf-runner's own merge order | that of `Inherit` |
| `PolicySet` | merge, addressee and profile checks, combining rule, introspection, and the answer a request calls for, as a function | no state |
| `Pdp` | abstract specification: one request, one answer | request, response; `Answer` |
| `Evaluate` | `evaluate_request` and its detailed twin in full, composing `Inherit`, `PolicySet`, `Report` | the walk, then skip or decide per policy, then respond |
| `Wire` | the engine as a host meets it: what deserializes, the answer, the phrases of its reason | no state |
| `RuleProbes`, `Probes` | the catalog: 139 probes, 52 rows | no state |
| `Audit` | the two judgments of a catalog (agreement with the documentation, agreement with ODRL 2.2), contested and unreached notes; the two run pages replaying the catalog over one engine | per page stage, outcomes, counters; one action per suspension and per failure |
| `HistoryHost` | `GuestEngine::evaluate` over the guest's `alloc`, `evaluate`, `dealloc`, for a replay of probes | guest buffers, fuel, the place in the round trip; one action per call and per way it fails |
| `Site` | the shared engine instance, the Demonstrator, the Compliance run, navigation; verdict on a case, report and comparison with the native run | cached instance, the page and what it shows, the tasks in flight; one action per resumption and per event |
| `Contexts` | JSON-LD contexts: term definition, prefix chains, imports, type-scoped contexts, IRI expansion | the context in force, the path of nodes, contexts pending; apply, enter, nest, and the two ways an unreadable context fails the document |
| `Ingest` | the expanded node tree, its three rewriting passes, and reading it into a policy, with warnings | no state |
| `Adapter` | an author adds statements; the document is rewritten, read, looked over, offered | document, tree, phase, policy, warnings; one action per statement and per pass |
| `ReadingProofs`, `DecisionProofs`, `SessionProofs`, `EvaluateProofs`, `ConstraintTreeProofs`, `ReplayProofs`, `SiteProofs`, `ContextsProofs` | proofs | |
| `MC*` | instances for TLC | |

`Evaluate` EXTENDS `Inherit`: while `status` is `"resolving"` its only step is one of
the walk. It implements `Pdp` (`ImplementsPdp`), whose `AnswerTo` is defined in
`PolicySet` from `Lineage`: there ancestors are a least closed set, rejected
graphs are those with an id among its own ancestors, and the order of replication
is the order of all upward paths written out, with repetitions removed. No walk,
memo or stack appears in it. `Vocabulary` EXTENDS `CoverWalk` in the same way: its walk is that
module's, on the configuration everything loaded was merged into.

Operators whose names end in `_Something` next to an operator of the plain name
are slips: what a plausible mistake in that code would be. They are used by
nothing; `PROJECT.json` pairs each with a property that tells it from the code.

### What is abstracted

* Identifiers, claim values and assets are model values or strings compared as a
  whole. A comma-separated right operand is the set of its candidates; in `Wire` a
  string the engine splits at commas is the sequence of its pieces.
* Constraint lists of rules are sets of atoms; logical constraints are modelled
  apart, in `ConstraintTree`, with the same atoms as leaves.
* What two ordered values compare as is given by the constants `Earlier` and
  `SameInstant`; `MCAudit` lists them for the values the probes use and asserts that
  `Temporal`, reading those values, orders them so.
  A temporal value is the record of its fields: cutting a string into them is left out.
* Reasons are clauses and rule indices, in `Wire` sets of phrases, not sentences.
* `assigner` is read by `Ingest` and nowhere decided by: the engine copies it.
* The engine is stateless; `Session` gives it a host. Its steps are what a host may
  change between two calls, so an action property of `Session` compares the
  answers to two requests.
* `HistoryHost` knows buffers by the probe they serve and what they hold, not by
  address. What a guest does with a probe - answer, panic, run away, return a
  pointer out of range - is a free choice; fuel counts calls and loop turns. A pointer that is in range but not the
  response's is not modelled: `dealloc` (`host.rs:142`) is then handed a buffer that was never given out, which is taken to do no harm.
  Exhaustion of the guest's memory is not modelled.
* A step of `Site` or `Audit` is what runs between two suspensions of a task, or one
  browser event with all that follows before control returns to the browser; what is
  on screen afterwards is painted. The fetch, the body and the instantiation of the
  engine are one suspension: nothing shared changes between them. Form fields and
  profiles are left out: a click submits the request of that click. Evaluations that wait for the engine end in the order of
  their fetches, and the code keeps no token of the last question (`demo_page.rs:157`): an overtaken answer may be the one on screen, and
  `ShownAnswersThisForm` sets apart the tasks that `waited`.
* `Ingest` starts from an expanded tree, `Contexts` ends at the IRI of a term: the
  two halves of the adapter meet in names, and are checked apart. In `Contexts` a
  string is one of a keyword, a compact IRI, an absolute IRI or a bare word, of any of which a context may make
  a term but the first, and an IRI is the sequence of the pieces it was put together from. A context is one that can
  be read or one that cannot; where in it the malformed part stands does not matter, since reading stops there and
  nothing of the document is kept. A type's own context is one object, which is what the bundled documents have there.
* `taxonomy_config` in `RuleProbes` keeps, of the 51 shipped terms, those a probe names.

## 3. Runs

| Run | Instance | Shows |
|---|---|---|
| `vocabulary` | every written list of up to `MaxDeclarations = 3` declarations over three actions, cycles, duplicates and undeclared parents included; lists of interpreted documents in which two IRIs read alike and subjects are declared twice or never | the covers loop returns and is right on every graph; no order of loading shows where it should not |
| `session` | written policies, ancestors, up to `MaxMerges = 2` merges, three claim keys (absent, empty, held), both behaviours and duty modes, chains one hop longer than the bound reads | decision, report, trace and what the RDF runner infers from a report agree, down to the hop a duty is listed at; host steps keep what they must |
| `inherit` | all lists of two policies over three ids with up to two parents, lists of `MaxPolicies = 3` whose parents differ, four-policy diamonds | the memoised walk never calls itself for a policy it is within, rejects exactly, and the runner's own recursive merge gives the same order |
| `evaluate` | lists of up to two out of eight policies, and seven triples that chain, loop and collide; 192 callers | `evaluate_request` implements `Pdp`; Allow is unanimous; reports foretell the answer; introspection foretells what matters |
| `constraint_tree` | every tree of up to `MaxNodes = 4` nodes, cut below the second level, every claims map; 160 fixtures | a claim that turns the verdict is among the reported keys and in the trace; what is cut never credits under `and` and `or`; the flattened rules decide as the tree does |
| `history_host` | three probes on one instance, each handled soundly, panicking, running away or answering out of range | failures stay with their probe and only failures leak |
| `site` | three tasks on three visits; corpora of judged and of unjudgeable cases, one empty, one of an older schema; three baselines, one missing | answers on screen are those of this form, stages are painted, every task ends |
| `temporal` | daily steps over the turns of nine centuries and years, half hours over leap days and year turns in five zones, thirds of a second over a midnight with more digits than are read; every midnight also written as hour 24 and as a bare date | what the engine reads from two clocks and a stopwatch is the time that passed |
| `adapter` | policies bare, in an offer beside an asset, or constrained, with up to `MaxFacts = 4` statements added anywhere | no pass changes what a document means; what is read is what it says; reported collisions and contradictions are real and complete, shortened chains are warned about |
| `contexts` | two nested nodes, each under every list of up to two different contexts: imports, resets, removals, scoped contexts that propagate or not, a compact IRI that is a term, prefix chains past the bound and in a circle, contexts that cannot be read | a term means what the last context in force says, in whatever order its keys are met; an unreadable context, and nothing else, fails the document |
| `audit` | the repository's 139 probes and 52 rows against the modelled engine; three-probe catalogs under every combination of six answers, replayed twice | every probe is answered as documented, counters foretell the report, no failure scores a row, the notes are true of the verdicts |
| `contexts_vocab` | as `contexts` | a statement of the adapter's README that the code does not keep (`findings`) |

`MaxConsequenceDepth` is 1 in `session` and `evaluate` instead of 4: chains of length three
reach one hop past it, which is where an off-by-one would show, and no code distinguishes
the hops before the last. `MAX_CONSTRAINT_DEPTH = 1` in `constraint_tree` and
`MAX_PREFIX_CHAIN = 2` in `contexts` are small for the same reason; four nodes give a cut branch a
sibling. `MAX_WALK_DEPTH = 8` in `adapter` is the code's own; no document reaches it,
so it is deep enough for the passes and the bound itself is not exercised. In `audit`
the consequence bound is the code's own, 4, past every chain the catalog writes. Three declarations or policies suffice for a
cycle entered from outside and for a duplicate next to a chain; the fourth policy is
there for the diamond. `MaxMerges = 2` lets two ancestors disagree with each other
while the child is silent. Vocabularies in `session` and `evaluate` are small because
`vocabulary` and its proof settle coverage apart. `MaxFacts = 4` is what it takes to state two targets for a
policy and have two of its rules split. In `history_host` `FUEL_PER_CALL = 6` is two more than the calls
of a whole round trip need, so that only a runaway spends it, at either pace, and three
probes let a failure precede and follow a sound one. In `site`, `MaxTasks = 3` is two
evaluations overtaking each other and a third that finds the engine cached, or a run
left, resumed in the background and started afresh; `MaxMounts = 3` lets a visitor return
to a page. `MaxTicks = 450` carries the daily clocks over a whole leap year; `Precision = 2`
makes a fraction longer than is read with three digits. `visits` lets a page of `audit` be
re-run with the engine cached.

Fairness. `CoverWalk`, `Vocabulary`, `Inherit` and `Evaluate` are sequential code inside one
call: weak fairness of the whole next-state relation says only that the call goes on
running. `Pdp` states its progress as `<>(response # NoResponse)`. In `Site` and `Audit` each
task has weak fairness of being resumed: timers fire and a browser settles every fetch,
with an answer or an error; the visitor has none. `HistoryHost` is sequential as well, its fuel metered by the
interpreter. `Session`, `ConstraintTree`, `Adapter`, `Contexts` and `Clocks` have none: a host,
an author and a visitor need not do anything. Deadlock is not checked in `vocabulary`,
`inherit`, `evaluate` and `contexts`, which end when the call returns, in `temporal`, whose clocks
are stopped, nor in `site` and `audit`, where the visitor may leave it at that; it is in `session`,
`constraint_tree`, `adapter` and `history_host`.

## 4. Where code and documents part

One divergence is a run. `contexts_vocab`: under a `@vocab` set by an earlier context, a
prefix defined by an absolute IRI becomes vocabulary and IRI run together, though
`dsp-odrl-adapter/README.md:364-371` says an absolute IRI is taken as it stands.

The others were met while modelling. They are stated here and have no run of their own;
the models follow the code in each.

* `ingest.rs:128-136`, on `UnsatisfiableConstraint`, says that only a rule's top-level constraints are compared,
  without descending into a nested `and`; the code descends (`ingest.rs:281-304`), as its own comment at
  `:245-250` says.
* The same text says that such a rule can never be satisfied. A claim may have several values, and `Eq` is then
  membership (`constraint.rs:803-811`): with both values among them the rule holds. What is true of the code is
  `ReportedNeedsSeveralValues`: a rule reported holds for no claims of one value each, only for several
  values under an operand that two of its equalities disagree on; and a rule that asks for equalities joined by
  conjunctions alone and is not reported holds for some claims of one value each.
* `engine_bridge.rs:65-66` says that the engine is fetched on the first call only; calls made while the
  first waits for its fetch find no instance yet (`:52`) and fetch again.
* Of two policies with one id the earlier does not get the parents it names, because
  `by_id` keeps the last (`wire.rs:1319`, against `docs/conflict-and-inheritance.md:163-166`).
* `decision.rs:265-268` says of the constraint depth bound that it refuses to credit what was not
  read; a branch cut at `constraint.rs:596` counts as false, which under `xone` credits its
  one true sibling. `CutNeverCredits` is what holds, of trees without `xone`.
* `docs/detailed-evaluation.md:96` calls it a hard rule that no permission is reported Active
  beside a Violated duty of its own; `decision.rs:1718` gates on outstanding chains, so a duty
  whose consequence made up for it is Violated below an Active permission.
* `docs/introspection.md:168` says that under duty mode deny an unresolved duty leaves no
  action performable; it takes away those of the permission it hangs from (`decision.rs:2143`).
* `docs/introspection.md:32`: the claims that identify the caller decide who a policy is
  addressed to, but are not among the keys reported (`wire.rs:1993`); `IntrospectionHolds` exempts them by name.
* `host.rs:40-43` counts on `dealloc` for every buffer; a trapped probe leaves the request
  and perhaps the response behind (`OnlyFailuresLeak` bounds it to one pair each).
* A second profile can make `covers` answer false where the first alone answered true: of two
  declarations of one action the first wins, whichever parent it names (`profile.rs:349`).
* The adapter keeps chains of consequences one hop shorter than the engine walks them
  (`ingest.rs:988-1011` against `decision.rs:240-270`).
* A target described in place is dropped without a warning (`ingest.rs:642-653`, against the
  promise at `ingest.rs:53-58`); `ReadsWhatIsMeant` is about documents that name their targets.
* `compare.rs:155-206` counts only the terminal node of a chain, which is not where the
  engine stops on a chain past the bound; `EveryChainWalked` sets those chains apart.
  `compare_case` also infers Allow of an evaluation without policies.
* A collision that `perm` settles and an obligation then denies is traced as a prohibition
  match (`wire.rs:866`); `TraceMatchesReport` allows that clause and no other like it.
* A catalogue evaluated within one frame never shows its middle stage
  (`coverage_run.rs:86` says that every stage boundary is a real await).
* Counts in comments of the site lag behind the catalog (`full_compliance_page.rs:919` and
  `:988-993`, `coverage_page.rs:831`, `coverage_run.rs:4` and `:162`).

## 5. Proofs

* `ReadingProofs` - `WalkCorrect`: the loop decides coverage for every list of
  declarations. The invariant `WalkInv` says that what has been passed is not the
  rule's action, that coverage of the start is coverage of the current action, and that
  the parent of a visited action is visited or is the current one, so that coming back to one means a cycle
  was closed. `WalkVariant` is what termination rests on: a step of the walk that does not return visits a declared action
  it had not visited, and there are never more of those than declarations. The declarative `covers` (in every upward-closed set that holds the
  requested action) makes an induction over the chain unnecessary; `LeastNat`, a least
  element of a set of numbers, replaces it where one is needed. `VocabularyInvCorrect`
  carries that invariant through the composition: before the question nothing is walked, and
  from then on the configuration is fixed. `WalkDecidesCoverageCorrect` and `LoadOrderImmaterialCorrect` (what is
  declared, and by whom, is a union over the documents; the first declaration is the only one where none
  contradicts another) follow.
* `ZonesAgreeCorrect` and `StopwatchAgreesCorrect`, in the same module - neither property is
  inductive: that the clock in another zone is read as the same instant says nothing of where it
  goes at the end of a month. `ClocksInv` says that both clocks show a real day, that the second
  is `offset` minutes ahead of the first, and the first what the stopwatch counts ahead of the start,
  all in minutes since 1970 (`Reads`). A step keeps it because the engine's closed formula
  counts one for every step of the calendar: `NextDay`, `NextMonth` (a leap February by
  `MonthsAgree`, though the clock and the engine tell leap years by different rules) and `NextYear`,
  put together in `TomorrowIsNext` and `AdvanceCounts`. What is read is what is shown by lemmas on
  the readers: `Fraction` and `Minutes` are recursive functions over bounded indices, so their
  values on the digits and components that are written unfold step by step. Years are any natural
  numbers; the code reads four digits of them and counts in `i128`, where none of this overflows.
* `EvaluateProofs` begins with the walk over `inheritFrom` - `RejectsExactly` says nothing before it ends. Inductive is
  `WalkIsSound` in `Inherit`: the stack is a path upward, no id twice on it, each call for the parent
  the one below has come to; the memo is closed under parents, holds no id that is among its own
  ancestors, and lists the ancestors of each id once; the order under construction on every frame is
  what the parents before its current one bring in. The reference is `Lineage`, where
  ancestors are a least closed set: that an id on the stack called again is on a circle follows
  from the path, that a memoised one is on none from closure. `InheritsEachOnceCorrect`
  comes with it, and so does `NoCallWithinItselfCorrect`, which is why the recursion ends: the ids on the stack are
  distinct ids of the request, so there are no more of them than policies (`PathIsShort`). The same lemmas serve for the walk inside a call
  (`InheritanceInCallCorrect`, `MalformedIsRefusedCorrect`).
* `DecisionProofs` - facts about `decide` and about reports for two policies or two questions,
  without state; `SessionProofs` lifts them. `TypeCorrect` is needed because forcing a
  conflict strategy is an EXCEPT on the policy record: that it leaves the rules
  alone is a fact about a typed record (`ForcingKeepsRules`). `NeverBothActive` and
  `CoarseMatchesDetailed` follow from it state by state.
* `TraceMatchesReportCorrect` compares two accounts that share no step: the trace takes
  the first rule of its kind, a CHOOSE over indices, which exists by the well-founded
  order on the naturals (`FirstIsOne`); the report speaks of premises, which hold exactly
  if the rule fires (`PremisesHoldIffFires`), and of the deontic state of every hop, of
  which none is fulfilled exactly if the chain is outstanding (`UnfulfilledIsOutstanding`,
  under any bound). `AllowCreditsWhatIsShown` and `DenyBlamesWhatIsShown` then go through
  the clauses one by one.
* `ErrorIsFinal` and `BansOnlyRestrict` use `StepExtends`: a step keeps every rule at its
  index. `BansOnlyRestrict` also needs that forced strategies stay forced
  (`ForcedStaysForced`, on cardinalities). `DischargeKeepsAllow` rests on `DischargeResolves`:
  a hop inside the bound that becomes satisfied only resolves its chain.
* `EvaluateProofs`, of the call - `Bookkeeping` is inductive (together with `policies \in Requests`).
  `AllowIsUnanimous` is not: it says nothing before the response. `Bookkeeping` adds that
  the index of the loop is one past what was skipped and decided, that nothing precedes
  the merge, that each decision on record is that of the merged policy at that index,
  and that an Allow was only given with all of them looked at. `AllowListsEveryDutyCorrect`
  follows from it: what is filtered out of an Allow is empty.
* `ReportForetellsCorrect` - the runner sees only reports, the engine only rules. `DutiesForetold`
  counts both over one index set, the places of the chains that are open (`OpenChains`): each open
  chain of the reports stands at one place (`OneChainPerPlace`), each unresolved duty of the
  decision is the entry of one (`EntryOf`, `UnresolvedAreOpen`), and images under injections have the
  cardinality of their domain. `ListedWhereReportedCorrect` is about the hops themselves: the hop `decide` lists for a chain is
  the deepest one the report shows in force (`DeepestInForce`, `ListedIsDeepest`), at whatever
  bound the two are read. `VerdictForetells` reads the reports clause by clause, as the
  runner does, and shows that what it settles on is what was decided.
* `RequestForetoldCorrect` lifts both to a request. `RequestForetold` relates an answer to evaluations
  that are gone from it; `AnswerInv` keeps which of them it was made from, on every way a call can
  end. That what is decided is a policy rests on `MergedPolicyType`: the merge is a fold over
  the ancestors, and each replica keeps the type. `VerdictsCombine` is the step from policies to request.
* `InheritsInOrderCorrect` - the order of the reference, `Preorder`, is written over all paths upward,
  each of which the memo cuts short. `FirstOccurrencesStep` takes the first occurrences of a list entry by
  entry, so that `TakeOverJoins` and `JoinFirsts` can say what the loop of the code adds: of a list that has
  been reduced already, no more is lost. `PathsOfSettled` says when paths stop growing: below an id without
  a circle they are as long as its ancestors are many, so unfolding them as often as there are policies
  is enough. `OrdersAreRight` is then inductive: what is memoised is the preorder of its id, what a call has
  gathered is that of the parents before its current one.
* `ShadowAgreesCorrect` - the runner recurses with the ids it is below, the engine remembers. `TableExists` and
  `AncestorOrderIs` give the recursion its equation (the ids left above shrink at each call).
  `FoundIsSound` then takes what the runner finds apart: everything above it is of the request and not below it, so
  that a request it finds all of has neither circle nor gap. `SettledIsFound` goes the other way: an id without
  circle is found, with `Preorder`, because joining what each parent brings in is what the
  engine has gathered (`JoinIsGathered`).
* `ImplementsPdpSteps` - every way `evaluate_request` can end gives `AnswerTo`, a function of the request
  that knows no walk, memo, loop or order of checks. The refusals come from `RejectsExactly`; `Respond`
  from `AllApplicableDecided`: once the loop has passed the last policy, those decided are those addressed
  to the caller, each merged with what `Preorder` owes it (`MergedWithTheirOwn`).
* `IntrospectionHoldsCorrect` stands on that. `PolicyReads`: a policy tells two claims maps apart only by the
  keys it refers to; `MergedStaysIn` carries this through the fold of the merge, so that keys of the policies as
  they came cover the policies as they are decided (`DecidedReads`), and `AnswerTurnsOnKeys` to the
  answer. `HowItEnded` says what kind of end each answered call had, which is what the
  performable actions are compared with.
* `ReplayProofs` - of the history host: `FailureIsContainedCorrect`, `OnlyFailuresLeakCorrect` and
  `FreesWhatItOwnsCorrect` all follow from one invariant, `HostInv`: besides the three it says
  which buffers of the probe under way exist at each point of the round trip, that
  probes to come own none, and that a sound probe under way has fuel for the calls it
  still has to make. The steps that stay inside a round trip and those that leave it are
  two lemmas, used by every action.
* `ReplayProofs` - of the audit pages: `AuditInv` says that a run counts nothing before its catalog has
  parsed, and that from then on its counters are `Counters`, the tally of the first n probes (`CountsOneMore`, one
  probe at a time). That live total and printed total agree is `CountedAreJudged`: the page counts
  distinct ids beforehand and probes afterwards, which are as many because ids are distinct and every id
  a row names is a probe's. `CountersForetellCorrect` and `UnheardNeverScoresCorrect` follow; the latter takes the verdicts
  apart clause by clause.
* `SiteProofs` - `SiteInv` says of each task what it has painted by the stage it is at, of an
  evaluation that did not wait that it is over before anything else starts, and of an end on
  screen what the task that ended owes it (`DoneIsSound`). `ShownAnswersThisForm` alone is not
  inductive: a task resumed later must be known to be stale.
* `ConstraintTreeProofs` - the walks are recursive functions over a tree. Parents precede their
  children (`TreeInv`), so every node has a rank; `RecursionBy` gives the value of a function defined
  by recursion on the rank its equation, and `InductBy` carries a fact from the nodes of higher rank to
  all. Both rest on `WFMin` of the library's theorems and are stated of sets and functions, which
  makes them usable: the library's induction rules take operators. `CutNeverCreditsCorrect` compares two bounds
  by induction over the tree; `VerdictTurnsOnReportedClaimsCorrect` compares two claims maps.
* `TranslationAgreesCorrect`, in the same module - `DnfIs` gives the expansion its equation, and with
  it that every node has finitely many disjuncts, which is what lists them (`SetToSeqIs`). `ExpansionHolds` is
  the induction over the operands of an `and` that the loop of `to_dnf` multiplies in one by one; `DnfHolds`
  the one over the tree: some disjunct holds if and only if the tree does. The rest follows a rule into its copies:
  flattened lists lose nothing (`FlattenLists`), a copy fires when the rule is active
  (`CopyFires`: who asks is not a claim of the world's), and over copies that bear no duties, under an `invalid`
  conflict and the closed default, `decide` is prohibition before permission.

* `ContextsProofs` - `LastDefinitionWins` and `SpellingsAgree` speak only of where properties are read; what has to
  be carried there is that the active context `Knows` the last word on every term: it defines what the last context to
  name it defined, and where one object defined a term and its prefix the term stands for the prefix and the rest.
  `ContextsInv` says so of the contexts of the node applied so far, on top of what comes down from the nodes
  above, and of the context that nested nodes start from. Four facts carry it. `SameIris`: the recursion on prefixes, which
  meets keys in map order and resolves each in a context that other keys are already in, gives the same IRI whatever
  is in there of the object's own terms, and with whatever is left of the bound beyond the hops of the term; `DefineStep` goes
  through the keys with it, and `PutOnSays` is what `ContextMeansWhatItSays` needs. `ProcessKnows` goes down
  the imports, by induction on their depth; `PutOnScopedKnows` through the types of a node, where the scope of a type is
  read in the context before any of them applied; `ComingDownFrom` from a node to those nested in it.

Assumptions are the named ASSUMEs: vocabularies, policies and requests have their
types, `NoAction` and `NoTarget` are not actions or assets, the bounds are numbers, and a
probe's fuel covers the four calls of a round trip. Context objects are finitely many and import none in a circle (only bundled
documents are imported, and the code has no guard against one), terms are distinct strings and none starts with `@`, and a sorted map visits every term (`ContextsAssumption`). Clocks
start on a real day with a whole minute, in a zone up to fourteen hours from UTC that has the same date then, and a step is at most a day
(`StartsAssumption`): they cross into different days, months and years while they run. A fixture's actions are ones its vocabulary
declares (`FixturesAssumption`): without that the engine answers Error where the suite expects a verdict, and
`base_action_vocabulary` was made to declare all its corpus uses (`compliance-runner/src/translate.rs:156-164`). The probes of a catalog have distinct
ids (`AuditAssumption`), which `parse_coverage_catalog` does not enforce; `MCAudit` holds the repository's own, which are distinct. TLC evaluates them in every run.

Theorems whose property no run checks, since it is of a plainer kind or a conjunct of an invariant: `NeverBothActive`,
`ErrorIsFinal`, `InheritsEachOnce`, `InheritsInOrder`, `AllowListsEveryDuty`, `FreesWhatItOwns` (no buffer is freed twice) and
`ReportAgrees` (the detailed report of a constraint tells the verdict and accounts for it node by node).

Only model-checked:

* Liveness (`TasksEnd`, `WalkEnds`, the progress part of `ImplementsPdp`): TLAPS has no
  rules for fairness here. Of `WalkEnds` the variant is proved (`WalkVariant`).
* `FailsOnUnreadable` and `MidnightsAgree`.
* `adapter`: its walks are recursive operators over documents.
* `audit`: the two properties about the catalog of the repository, which is one given value.

## 6. Plan

Done, in this order: the core of the engine (`Taxonomy`, `CoverWalk`, `Rules`, `Decision`, `Report`,
`Session`, `Lineage`, `Inherit`, `PolicySet`, `Pdp`, `Evaluate`) and its proofs; `ConstraintTree`, `HistoryHost`,
`Site`; `Vocabulary`; `Temporal`; the adapter; the runners (`Dnf`, `Shadow`, `Compare`);
the wire form, the catalog and the pages that judge it; the proofs about `Inherit`, `Vocabulary`, `ConstraintTree`, `Dnf`, `Audit`, `Site`, `Clocks` and `Contexts`.

Left: the composition of `Contexts` with `Ingest`, so that one document is followed from its text to the engine; the
request context.

## 7. Not modelled, and why

* The request context (`check_context_bounds`, `effective_context`) never reaches `decide`;
  its bound has the shape of the one in `ConstraintTree`.
* `n3-enforcer`: its rules are run by an external reasoner, whose semantics would have to be
  modelled first for their agreement with `Decision` to mean anything.
* Rendering, wording, widgets and page content (`site/src/content.rs`, `pages.rs`,
  `demo_widgets.rs`, `coverage-probes/src/render.rs`, `release-history/src/render.rs`) have
  no state a property could be about. The demonstrator's form and profile panel fill in a
  request; a click is modelled from the request on.
* The command lines of the tools read files, call what is modelled and print. Parsing of
  RDF and JSON is library work; its results enter the models as typed values.
* `bench`, `scripts` and CI measure, build and release.
