------------------------------- MODULE SiteProofs -----------------------------
(***************************************************************************)
(* What the site shows is about this visit, for any number of tasks and    *)
(* pages and any order in which timers fire and fetches settle.            *)
(***************************************************************************)
EXTENDS Site, TLAPS

Fields == {"kind", "mount", "at", "waited", "cases", "baseline", "outcomes", "progress",
           "report", "painted"}

(* The stages a run standing at some point has had painted.                *)
Seen(at) ==
  CASE at \in {"paint", "load"} -> {"LoadingWasm"}
    [] at \in {"cases", "baseline", "frame"} -> {"LoadingWasm", "LoadingCases"}
    [] at = "compile" -> Stages \ {"Evaluating"}
    [] OTHER -> {}

(* A task is of the page it was spawned on; an evaluation suspends only    *)
(* for the engine; a run has had painted what is behind it.                *)
TaskIsSound(t) ==
  /\ DOMAIN t = Fields
  /\ t.kind \in {"run", "evaluate"}
  /\ t.mount \in Nat /\ t.mount <= mount
  /\ t.mount = mount => page = IF t.kind = "run" THEN "compliance" ELSE "demo"
  /\ t.kind = "evaluate" => t.at \in {"load", "ended"} /\ (t.at = "load" => t.waited)
  /\ t.kind = "run" => Seen(t.at) \subseteq t.painted

(* What a page that shows an end owes to the task that ended.              *)
DoneIsSound(t, by) ==
  /\ by \in DOMAIN tasks /\ t.mount = mount
  /\ page = "demo" /\ ~t.waited => by = Len(tasks) /\ by > resetAt
  /\ page = "compliance" => Stages \ {"Evaluating"} \subseteq t.painted

SiteInv ==
  /\ mount \in Nat /\ page \in Pages
  /\ tasks \in Seq(Range(tasks))
  /\ resetAt \in 0..Len(tasks)
  /\ \A i \in DOMAIN tasks : TaskIsSound(tasks[i])
  /\ screen.kind = "Done" => DoneIsSound(tasks[screen.by], screen.by)

-------------------------------------------------------------------------------
(* t is task i with what a run gathers changed, and nothing else.          *)
Continues(t, i) ==
  /\ DOMAIN t = Fields
  /\ t.kind = tasks[i].kind /\ t.mount = tasks[i].mount /\ t.at = tasks[i].at
  /\ t.waited = tasks[i].waited /\ t.painted = tasks[i].painted

LEMMA OwnEntries ==
  ASSUME NEW S, NEW s \in Seq(S)
  PROVE  s \in Seq(Range(s))
<1>1. Len(s) \in Nat /\ s = [k \in 1..Len(s) |-> s[k]]
  OBVIOUS
<1>2. \A k \in 1..Len(s) : s[k] \in Range(s)
  BY DEF Range
<1> QED
  BY <1>1, <1>2

LEMMA Updated ==
  ASSUME SiteInv, NEW i \in DOMAIN tasks, NEW t, tasks' = [tasks EXCEPT ![i] = t]
  PROVE  /\ tasks' \in Seq(Range(tasks')) /\ Len(tasks') = Len(tasks)
         /\ DOMAIN tasks' = DOMAIN tasks
         /\ tasks'[i] = t
         /\ \A k \in DOMAIN tasks : k # i => tasks'[k] = tasks[k]
<1>1. tasks \in Seq(Range(tasks))
  BY DEF SiteInv
<1> DEFINE S == Range(tasks) \cup {t}
<1>2. tasks \in Seq(S) /\ t \in S
  BY <1>1
<1>3. /\ tasks' \in Seq(S) /\ Len(tasks') = Len(tasks) /\ DOMAIN tasks' = DOMAIN tasks
      /\ tasks'[i] = t /\ \A k \in DOMAIN tasks : k # i => tasks'[k] = tasks[k]
  BY <1>2
<1>4. tasks' \in Seq(Range(tasks'))
  BY <1>3, OwnEntries
<1> QED
  BY <1>3, <1>4

LEMMA Appended ==
  ASSUME SiteInv, NEW t, tasks' = Append(tasks, t)
  PROVE  /\ tasks' \in Seq(Range(tasks')) /\ Len(tasks') = Len(tasks) + 1 /\ Len(tasks) \in Nat
         /\ DOMAIN tasks = 1..Len(tasks) /\ DOMAIN tasks' = 1..(Len(tasks) + 1)
         /\ tasks'[Len(tasks) + 1] = t
         /\ \A k \in DOMAIN tasks : tasks'[k] = tasks[k]
<1>1. tasks \in Seq(Range(tasks))
  BY DEF SiteInv
<1> DEFINE S == Range(tasks) \cup {t}
<1>2. tasks \in Seq(S) /\ t \in S
  BY <1>1
<1>3. /\ tasks' \in Seq(S) /\ Len(tasks') = Len(tasks) + 1 /\ Len(tasks) \in Nat
      /\ DOMAIN tasks = 1..Len(tasks) /\ DOMAIN tasks' = 1..(Len(tasks) + 1)
      /\ tasks'[Len(tasks) + 1] = t /\ \A k \in DOMAIN tasks : tasks'[k] = tasks[k]
  BY <1>2
<1>4. tasks' \in Seq(Range(tasks'))
  BY <1>3, OwnEntries
<1> QED
  BY <1>3, <1>4

(* A task goes on, on the page it is of or behind the scenes.              *)
LEMMA TaskMovesOn ==
  ASSUME SiteInv, NEW i \in DOMAIN tasks, NEW t,
         UNCHANGED <<page, mount, resetAt>>, tasks' = [tasks EXCEPT ![i] = t],
         TaskIsSound(t), t.mount = tasks[i].mount, t.waited = tasks[i].waited,
         tasks[i].painted \subseteq t.painted,
         \/ screen' = screen
         \/ screen'.kind # "Done"
         \/ /\ screen' = Show("Done", i) /\ t.mount = mount
            /\ page = "demo" => t.waited
            /\ page = "compliance" => Stages \ {"Evaluating"} \subseteq t.painted
  PROVE  SiteInv'
<1>1. /\ tasks' \in Seq(Range(tasks'))  /\ Len(tasks') = Len(tasks)
      /\ DOMAIN tasks' = DOMAIN tasks /\ tasks'[i] = t
      /\ \A k \in DOMAIN tasks : k # i => tasks'[k] = tasks[k]
  BY Updated
<1>2. page' = page /\ mount' = mount /\ resetAt' = resetAt
  OBVIOUS
<1>3. \A k \in DOMAIN tasks : TaskIsSound(tasks[k])
  BY DEF SiteInv
<1>4. ASSUME NEW k \in DOMAIN tasks'
      PROVE  TaskIsSound(tasks'[k])
  BY <1>1, <1>3, <1>4
<1>5. (\A k \in DOMAIN tasks : TaskIsSound(tasks[k]))'
  BY <1>2, <1>4 DEF TaskIsSound
<1>6. ASSUME screen'.kind = "Done"
      PROVE  DoneIsSound(tasks[screen.by], screen.by)'
  <2>1. CASE screen' = screen
    <3> DEFINE by == screen.by
    <3>1. DoneIsSound(tasks[by], by)
      BY <1>6, <2>1 DEF SiteInv
    <3>2. by \in DOMAIN tasks /\ by' = by
      BY <2>1, <3>1 DEF DoneIsSound
    <3>3. /\ tasks'[by].mount = tasks[by].mount /\ tasks'[by].waited = tasks[by].waited
          /\ tasks[by].painted \subseteq tasks'[by].painted
      BY <1>1, <3>2
    <3> HIDE DEF by
    <3>4. DoneIsSound(tasks[by], by)'
      BY <1>1, <1>2, <3>1, <3>2, <3>3 DEF DoneIsSound
    <3> QED
      BY <3>4 DEF by
  <2>2. CASE screen' # screen
    <3>1. /\ screen'.by = i /\ t.mount = mount
          /\ page = "demo" => t.waited
          /\ page = "compliance" => Stages \ {"Evaluating"} \subseteq t.painted
      BY <1>6, <2>2 DEF Show
    <3> QED
      BY <1>1, <1>2, <3>1 DEF DoneIsSound
  <2> QED
    BY <2>1, <2>2
<1> QED
  BY <1>1, <1>2, <1>5, <1>6 DEF SiteInv

LEMMA AwaitKeeps ==
  ASSUME SiteInv, NEW i \in DOMAIN tasks, NEW t, Continues(t, i), t.kind = "run",
         NEW at \in DOMAIN stage, Seen(at) \subseteq t.painted \cup {stage[at]},
         Await(i, t, at)
  PROVE  SiteInv'
<1> DEFINE new == [t EXCEPT !.at = at, !.painted = @ \cup {stage[at]}]
<1>1. tasks' = [tasks EXCEPT ![i] = new] /\ screen' = set(t, stage[at], i)
      /\ UNCHANGED <<page, mount, resetAt>>
  BY DEF Await
<1>2. /\ DOMAIN new = Fields /\ new.kind = t.kind /\ new.mount = t.mount
      /\ new.waited = t.waited /\ new.at = at /\ new.painted = t.painted \cup {stage[at]}
  BY DEF Continues, Fields
<1> HIDE DEF new
<1>3. TaskIsSound(tasks[i])
  BY DEF SiteInv
<1>4. TaskIsSound(new)
  BY <1>2, <1>3 DEF TaskIsSound, Continues
<1>5. stage[at] # "Done"
  BY DEF stage
<1>6. screen' = screen \/ screen'.kind # "Done"
  BY <1>1, <1>5 DEF set, Show
<1> QED
  BY <1>1, <1>2, <1>4, <1>6, TaskMovesOn DEF Continues

LEMMA EndKeeps ==
  ASSUME SiteInv, NEW i \in DOMAIN tasks, NEW t, Continues(t, i), NEW kind,
         t.kind = "evaluate" => t.waited,
         t.kind = "run" /\ kind = "Done" => Stages \ {"Evaluating"} \subseteq t.painted,
         End(i, t, kind)
  PROVE  SiteInv'
<1> DEFINE new == [t EXCEPT !.at = "ended"]
<1>1. tasks' = [tasks EXCEPT ![i] = new] /\ screen' = set(t, kind, i)
      /\ UNCHANGED <<page, mount, resetAt>>
  BY DEF End
<1>2. /\ DOMAIN new = Fields /\ new.kind = t.kind /\ new.mount = t.mount
      /\ new.waited = t.waited /\ new.at = "ended" /\ new.painted = t.painted
  BY DEF Continues, Fields
<1> HIDE DEF new
<1>3. TaskIsSound(tasks[i])
  BY DEF SiteInv
<1>4. TaskIsSound(new)
  <2>1. Seen("ended") = {}
    BY DEF Seen
  <2> QED
    BY <1>2, <1>3, <2>1 DEF TaskIsSound, Continues
<1>5. new.mount = mount => page = IF new.kind = "run" THEN "compliance" ELSE "demo"
  BY <1>4 DEF TaskIsSound
<1>6. new.kind \in {"run", "evaluate"}
  BY <1>4 DEF TaskIsSound
<1>7. \/ screen' = screen
      \/ screen'.kind # "Done"
      \/ /\ screen' = Show("Done", i) /\ new.mount = mount
         /\ page = "demo" => new.waited
         /\ page = "compliance" => Stages \ {"Evaluating"} \subseteq new.painted
  BY <1>1, <1>2, <1>5, <1>6 DEF set, Show
<1> QED
  BY <1>1, <1>2, <1>4, <1>7, TaskMovesOn DEF Continues

(* A task is spawned, the page the same or a new one.                      *)
LEMMA SpawnKeeps ==
  ASSUME SiteInv, NEW t, tasks' = Append(tasks, t),
         page' \in Pages, (mount' = mount /\ page' = page) \/ mount' = mount + 1,
         resetAt' \in 0..Len(tasks), TaskIsSound(t)',
         screen'.kind = "Done" => DoneIsSound(t, Len(tasks))' /\ screen'.by = Len(tasks')
  PROVE  SiteInv'
<1>1. /\ tasks' \in Seq(Range(tasks')) /\ Len(tasks') = Len(tasks) + 1 /\ Len(tasks) \in Nat
      /\ DOMAIN tasks = 1..Len(tasks) /\ DOMAIN tasks' = 1..(Len(tasks) + 1)
      /\ tasks'[Len(tasks) + 1] = t /\ \A k \in DOMAIN tasks : tasks'[k] = tasks[k]
  BY Appended
<1>2. mount \in Nat /\ mount' \in Nat
  BY DEF SiteInv
<1>3. ASSUME NEW k \in DOMAIN tasks'
      PROVE  TaskIsSound(tasks[k])'
  <2>1. CASE k = Len(tasks) + 1
    BY <1>1, <2>1 DEF TaskIsSound
  <2>2. CASE k # Len(tasks) + 1
    <3>1. k \in DOMAIN tasks /\ tasks'[k] = tasks[k]
      BY <1>1, <2>2
    <3>2. TaskIsSound(tasks[k])
      BY <3>1 DEF SiteInv
    <3>3. tasks[k].mount <= mount' /\ (tasks[k].mount = mount' => mount' = mount /\ page' = page)
      BY <1>2, <3>2 DEF TaskIsSound
    <3> QED
      BY <3>1, <3>2, <3>3 DEF TaskIsSound
  <2> QED
    BY <2>1, <2>2
<1>4. screen'.kind = "Done" => DoneIsSound(tasks[screen.by], screen.by)'
  BY <1>1 DEF DoneIsSound
<1>6. (\A k \in DOMAIN tasks : TaskIsSound(tasks[k]))'
  BY <1>3
<1>5. resetAt' \in 0..Len(tasks')
  BY <1>1
<1> QED
  BY <1>1, <1>2, <1>4, <1>5, <1>6 DEF SiteInv

-------------------------------------------------------------------------------
(* The visitor.                                                            *)
LEMMA RunSpawned ==
  ASSUME SiteInv, SpawnRun, page' = "compliance",
         (mount' = mount /\ page' = page) \/ mount' = mount + 1,
         resetAt' \in 0..Len(tasks)
  PROVE  SiteInv'
<1>1. PICK t : t = [NewTask("run", "paint") EXCEPT !.painted = {"LoadingWasm"}]
  OBVIOUS
<1>2. /\ DOMAIN t = Fields /\ t.kind = "run" /\ t.mount = mount' /\ t.at = "paint"
      /\ t.painted = {"LoadingWasm"}
  BY <1>1 DEF NewTask, Fields
<1>3. tasks' = Append(tasks, t) /\ screen' = Show("LoadingWasm", Len(tasks) + 1)
  BY <1>1 DEF SpawnRun
<1>4. mount \in Nat /\ mount' \in Nat
  BY DEF SiteInv
<1>5. TaskIsSound(t)'
  BY <1>2, <1>4 DEF TaskIsSound, Seen
<1>6. screen'.kind # "Done"
  BY <1>3 DEF Show
<1> QED
  BY <1>3, <1>5, <1>6, SpawnKeeps DEF Pages

LEMMA NavigateKeeps ==
  ASSUME SiteInv, NEW p \in Pages, Navigate(p)
  PROVE  SiteInv'
<1>1. page' = p /\ mount' = mount + 1 /\ resetAt' = Len(tasks) /\ p # page
  BY DEF Navigate
<1>2. Len(tasks) \in Nat
  BY DEF SiteInv
<1>3. CASE p = "compliance"
  <2>1. SpawnRun
    BY <1>3 DEF Navigate
  <2> QED
    BY <1>1, <1>2, <1>3, <2>1, RunSpawned
<1>4. CASE p = "demo"
  <2>1. screen' = Show("Idle", 0) /\ tasks' = tasks
    BY <1>4 DEF Navigate
  <2>2. ASSUME NEW k \in DOMAIN tasks
        PROVE  TaskIsSound(tasks[k])'
    <3>1. TaskIsSound(tasks[k]) /\ mount \in Nat
      BY DEF SiteInv
    <3>2. tasks[k].mount <= mount' /\ tasks[k].mount # mount'
      BY <1>1, <3>1 DEF TaskIsSound
    <3> QED
      BY <2>1, <3>1, <3>2 DEF TaskIsSound
  <2>3. (\A k \in DOMAIN tasks : TaskIsSound(tasks[k]))'
    BY <2>1, <2>2
  <2> QED
    BY <1>1, <1>2, <1>4, <2>1, <2>3 DEF SiteInv, Show, Pages
<1> QED
  BY <1>3, <1>4 DEF Pages

LEMMA EvaluateKeeps ==
  ASSUME SiteInv, Evaluate
  PROVE  SiteInv'
<1>1. PICK t : t = NewTask("evaluate", IF ENGINE THEN "ended" ELSE "load")
  OBVIOUS
<1>2. /\ DOMAIN t = Fields /\ t.kind = "evaluate" /\ t.mount = mount'
      /\ t.at \in {"load", "ended"} /\ (t.at = "load" => t.waited)
  BY <1>1 DEF NewTask, Fields
<1>3. /\ tasks' = Append(tasks, t) /\ page' = page /\ page = "demo"
      /\ mount' = mount /\ resetAt' = resetAt
      /\ screen' = Show(IF ENGINE THEN "Done" ELSE "Running", Len(tasks) + 1)
  BY <1>1 DEF Evaluate
<1>4. mount \in Nat /\ resetAt \in 0..Len(tasks) /\ page \in Pages
  BY DEF SiteInv
<1>5. TaskIsSound(t)'
  BY <1>2, <1>3, <1>4 DEF TaskIsSound
<1>6. /\ Len(tasks) \in Nat /\ Len(tasks') = Len(tasks) + 1
      /\ DOMAIN tasks' = 1..(Len(tasks) + 1)
  BY <1>3, Appended
<1>7. screen'.by = Len(tasks')
  BY <1>3, <1>6 DEF Show
<1>8. DoneIsSound(t, Len(tasks))'
  BY <1>2, <1>3, <1>4, <1>6 DEF DoneIsSound
<1> QED
  BY <1>3, <1>4, <1>5, <1>7, <1>8, SpawnKeeps

LEMMA ResetKeeps ==
  ASSUME SiteInv, Reset
  PROVE  SiteInv'
<1>1. /\ screen' = Show("Idle", 0) /\ resetAt' = Len(tasks)
      /\ page' = page /\ mount' = mount /\ tasks' = tasks
  BY DEF Reset
<1>2. (\A k \in DOMAIN tasks : TaskIsSound(tasks[k]))'
  BY <1>1 DEF SiteInv, TaskIsSound
<1>3. resetAt' \in 0..Len(tasks')
  BY <1>1 DEF SiteInv
<1> QED
  BY <1>1, <1>2, <1>3 DEF SiteInv, Show

LEMMA VisitorKeeps ==
  ASSUME SiteInv, Visitor
  PROVE  SiteInv'
<1>1. CASE \E p \in Pages : Navigate(p)
  BY <1>1, NavigateKeeps
<1>2. CASE Rerun
  <2>1. SpawnRun /\ page' = page /\ page = "compliance" /\ mount' = mount /\ resetAt' = resetAt
    BY <1>2 DEF Rerun
  <2>2. resetAt \in 0..Len(tasks)
    BY DEF SiteInv
  <2> QED
    BY <2>1, <2>2, RunSpawned
<1>3. CASE Evaluate
  BY <1>3, EvaluateKeeps
<1>4. CASE Reset
  BY <1>4, ResetKeeps
<1> QED
  BY <1>1, <1>2, <1>3, <1>4 DEF Visitor

-------------------------------------------------------------------------------
(* A timer, or a fetch.                                                    *)
LEMMA Itself ==
  ASSUME SiteInv, NEW i \in DOMAIN tasks
  PROVE  TaskIsSound(tasks[i]) /\ Continues(tasks[i], i)
BY DEF SiteInv, TaskIsSound, Continues

LEMMA LoadedKeeps ==
  ASSUME SiteInv, NEW i \in DOMAIN tasks, tasks[i].at \in {"paint", "load"},
         Loaded(i, tasks[i])
  PROVE  SiteInv'
<1>1. TaskIsSound(tasks[i]) /\ Continues(tasks[i], i)
  BY Itself
<1>2. CASE tasks[i].kind = "evaluate" /\ End(i, tasks[i], "Done")
  <2>1. tasks[i].waited
    BY <1>1, <1>2 DEF TaskIsSound
  <2> QED
    BY <1>1, <1>2, <2>1, EndKeeps
<1>3. CASE tasks[i].kind = "run" /\ Await(i, tasks[i], "cases")
  <2>1. "cases" \in DOMAIN stage /\ stage["cases"] = "LoadingCases"
    BY DEF stage
  <2>2. Seen("cases") \subseteq tasks[i].painted \cup {stage["cases"]}
    BY <1>1, <1>3, <2>1 DEF TaskIsSound, Seen
  <2> QED
    BY <1>1, <1>3, <2>1, <2>2, AwaitKeeps
<1> QED
  BY <1>2, <1>3 DEF Loaded

LEMMA PaintedKeeps ==
  ASSUME SiteInv, NEW i \in DOMAIN tasks, Painted(i)
  PROVE  SiteInv'
<1>1. TaskIsSound(tasks[i]) /\ Continues(tasks[i], i) /\ tasks[i].at = "paint"
  BY Itself DEF Painted
<1>2. tasks[i].kind = "run"
  BY <1>1 DEF TaskIsSound
<1>3. CASE ENGINE
  BY <1>1, <1>3, LoadedKeeps DEF Painted
<1>4. CASE ~ENGINE
  <2>1. Await(i, tasks[i], "load")
    BY <1>4 DEF Painted
  <2>2. "load" \in DOMAIN stage /\ stage["load"] = "LoadingWasm"
    BY DEF stage
  <2>3. Seen("load") \subseteq tasks[i].painted \cup {stage["load"]}
    BY <2>2 DEF Seen
  <2> QED
    BY <1>1, <1>2, <2>1, <2>2, <2>3, AwaitKeeps
<1> QED
  BY <1>3, <1>4

LEMMA EngineLostKeeps ==
  ASSUME SiteInv, NEW i \in DOMAIN tasks, EngineLost(i)
  PROVE  SiteInv'
<1>1. TaskIsSound(tasks[i]) /\ Continues(tasks[i], i) /\ tasks[i].at = "load"
  BY Itself DEF EngineLost
<1>2. PICK kind : kind = IF tasks[i].kind = "run" THEN "Failed" ELSE "Done"
  OBVIOUS
<1>3. End(i, tasks[i], kind)
  BY <1>2 DEF EngineLost
<1>4. tasks[i].kind = "evaluate" => tasks[i].waited
  BY <1>1 DEF TaskIsSound
<1>5. ~(tasks[i].kind = "run" /\ kind = "Done")
  BY <1>2
<1> QED
  BY <1>1, <1>3, <1>4, <1>5, EndKeeps

LEMMA CasesKeep ==
  ASSUME SiteInv, NEW i \in DOMAIN tasks, CasesArrive(i) \/ CasesLost(i)
  PROVE  SiteInv'
<1>1. TaskIsSound(tasks[i]) /\ Continues(tasks[i], i) /\ tasks[i].at = "cases"
  BY Itself DEF CasesArrive, CasesLost
<1>2. tasks[i].kind = "run"
  BY <1>1 DEF TaskIsSound
<1>3. CASE End(i, tasks[i], "Failed")
  BY <1>1, <1>2, <1>3, EndKeeps
<1>4. ASSUME NEW f,
             Await(i, [tasks[i] EXCEPT !.cases = f.cases,
                                       !.progress = NoProgress(Len(f.cases))], "baseline")
      PROVE  SiteInv'
  <2>1. PICK t : t = [tasks[i] EXCEPT !.cases = f.cases, !.progress = NoProgress(Len(f.cases))]
    OBVIOUS
  <2>2. Continues(t, i) /\ t.kind = "run" /\ t.painted = tasks[i].painted
    BY <1>1, <1>2, <2>1 DEF Continues, Fields
  <2>3. Await(i, t, "baseline")
    BY <1>4, <2>1
  <2>4. "baseline" \in DOMAIN stage
    BY DEF stage
  <2>5. Seen("baseline") \subseteq t.painted \cup {stage["baseline"]}
    BY <1>1, <1>2, <2>2 DEF TaskIsSound, Seen
  <2> QED
    BY <2>2, <2>3, <2>4, <2>5, AwaitKeeps
<1> QED
  BY <1>3, <1>4 DEF CasesArrive, CasesLost

LEMMA PerformKeeps ==
  ASSUME SiteInv, NEW i \in DOMAIN tasks, tasks[i].at \in {"baseline", "frame"},
         NEW t, Continues(t, i), Perform(i, t)
  PROVE  SiteInv'
<1>1. TaskIsSound(tasks[i])
  BY Itself
<1>2. tasks[i].kind = "run"
  BY <1>1 DEF TaskIsSound
<1>3. {"LoadingWasm", "LoadingCases"} \subseteq tasks[i].painted
  BY <1>1, <1>2 DEF TaskIsSound, Seen
<1>4. ASSUME NEW n, NEW at \in {"frame", "compile"}, Await(i, Upto(t, n), at)
      PROVE  SiteInv'
  <2>1. PICK u : u = Upto(t, n)
    OBVIOUS
  <2>2. Continues(u, i) /\ u.painted = t.painted /\ u.kind = "run"
    <3>1. /\ DOMAIN u = DOMAIN t /\ u.kind = t.kind /\ u.mount = t.mount /\ u.at = t.at
          /\ u.waited = t.waited /\ u.painted = t.painted
      BY <2>1 DEF Upto, Continues, Fields
    <3> QED
      BY <1>2, <3>1 DEF Continues
  <2>3. at \in DOMAIN stage /\ (at = "compile" => stage[at] = "Compiling")
    BY DEF stage
  <2>4. Seen(at) \subseteq u.painted \cup {stage[at]}
    <3>1. u.painted = tasks[i].painted
      BY <2>2 DEF Continues
    <3> QED
      BY <1>3, <2>3, <3>1 DEF Seen, Stages
  <2> QED
    BY <1>4, <2>1, <2>2, <2>3, <2>4, AwaitKeeps
<1> QED
  BY <1>4 DEF Perform

LEMMA CompiledKeeps ==
  ASSUME SiteInv, NEW i \in DOMAIN tasks, Compiled(i)
  PROVE  SiteInv'
<1>1. TaskIsSound(tasks[i]) /\ Continues(tasks[i], i) /\ tasks[i].at = "compile"
  BY Itself DEF Compiled
<1>2. PICK t : t = [tasks[i] EXCEPT !.report = compile_report(tasks[i].outcomes, tasks[i].baseline)]
  OBVIOUS
<1>3. End(i, t, "Done")
  BY <1>2 DEF Compiled
<1>4. tasks[i].kind = "run" /\ Stages \ {"Evaluating"} \subseteq tasks[i].painted
  BY <1>1 DEF TaskIsSound, Seen
<1>5. Continues(t, i) /\ t.kind = "run" /\ t.painted = tasks[i].painted
  BY <1>1, <1>2, <1>4 DEF Continues, Fields
<1> QED
  BY <1>3, <1>4, <1>5, EndKeeps

LEMMA SettleKeeps ==
  ASSUME SiteInv, NEW i \in DOMAIN tasks, Settle(i)
  PROVE  SiteInv'
<1>1. Continues(tasks[i], i)
  BY Itself
<1>2. CASE Painted(i)
  BY <1>2, PaintedKeeps
<1>3. CASE EngineArrives(i)
  BY <1>3, LoadedKeeps DEF EngineArrives
<1>4. CASE EngineLost(i)
  BY <1>4, EngineLostKeeps
<1>5. CASE CasesArrive(i) \/ CasesLost(i)
  BY <1>5, CasesKeep
<1>6. CASE BaselineSettles(i)
  <2>1. PICK b : Perform(i, [tasks[i] EXCEPT !.baseline = b]) /\ tasks[i].at = "baseline"
    BY <1>6 DEF BaselineSettles
  <2>2. PICK t : t = [tasks[i] EXCEPT !.baseline = b]
    OBVIOUS
  <2>3. Continues(t, i)
    BY <1>1, <2>2 DEF Continues, Fields
  <2> QED
    BY <2>1, <2>2, <2>3, PerformKeeps
<1>7. CASE NextFrame(i)
  BY <1>1, <1>7, PerformKeeps DEF NextFrame
<1>8. CASE Compiled(i)
  BY <1>8, CompiledKeeps
<1> QED
  BY <1>2, <1>3, <1>4, <1>5, <1>6, <1>7, <1>8 DEF Settle

-------------------------------------------------------------------------------
LEMMA SiteStarts ==
  ASSUME SiteInit
  PROVE  SiteInv
BY DEF SiteInit, SiteInv, Show, Pages, Range

LEMMA SiteStep ==
  ASSUME SiteInv, [SiteNext]_siteVars
  PROVE  SiteInv'
<1>1. CASE Visitor
  BY <1>1, VisitorKeeps
<1>2. CASE \E i \in DOMAIN tasks : Settle(i)
  BY <1>2, SettleKeeps
<1>3. CASE UNCHANGED siteVars
  <2>1. /\ page' = page /\ mount' = mount /\ screen' = screen /\ tasks' = tasks
        /\ resetAt' = resetAt
    BY <1>3 DEF siteVars
  <2> QED
    BY <2>1 DEF SiteInv, TaskIsSound, DoneIsSound
<1> QED
  BY <1>1, <1>2, <1>3 DEF SiteNext

(* Every task is of the visit it was spawned on, and a page that shows an  *)
(* end shows the end of one of its own (run_support.rs, demo_page.rs).     *)
THEOREM SiteInvCorrect ==
  SiteSpec => []SiteInv
<1>1. SiteInit => SiteInv
  BY SiteStarts
<1>2. SiteInv /\ [SiteNext]_siteVars => SiteInv'
  BY SiteStep
<1> QED
  BY <1>1, <1>2, PTL DEF SiteSpec

(* The Demonstrator shows an answer to the request submitted last, unless  *)
(* it had to wait for the engine, and then one to a request of this visit  *)
(* (demo_page.rs).                                                         *)
THEOREM ShownAnswersThisFormCorrect ==
  SiteSpec => []ShownAnswersThisForm
<1>1. SiteInv => ShownAnswersThisForm
  BY DEF SiteInv, DoneIsSound, TaskIsSound, ShownAnswersThisForm
<1> QED
  BY <1>1, SiteInvCorrect, PTL

(* A run that came to its end had every stage but the evaluation painted,  *)
(* with a cached engine too (run_support.rs, compliance_run.rs).           *)
THEOREM StagesPaintedCorrect ==
  SiteSpec => []StagesPainted
<1>1. SiteInv => StagesPainted
  BY DEF SiteInv, DoneIsSound, StagesPainted
<1> QED
  BY <1>1, SiteInvCorrect, PTL
===============================================================================
