------------------------------ MODULE ReplayProofs ----------------------------
(***************************************************************************)
(* The two that replay a catalog, for one of any length: the release-      *)
(* history host, with its buffers and its fuel, for any budget that covers *)
(* a round trip; and the pages that audit the engine, whatever it answers. *)
(***************************************************************************)
EXTENDS HistoryHost, Audit, FiniteSetTheorems, TLAPS

(* The buffers of the round trip under way, by where it stands; what older *)
(* round trips left behind; and the fuel an orderly one needs.             *)
HoldsRequest ==
  at \in {"write", "evaluate", "handBack", "read", "freeRequest"} => Request(probe) \in live

HoldsResponse == at \in {"read", "freeRequest", "freeResponse"} => Response(probe) \in live

HoldsNothingYet ==
  /\ at \in {"idle", "alloc"} => \A b \in live : b.probe < probe
  /\ \A b \in live : b.probe <= probe
  /\ at \in {"write", "evaluate"} => Response(probe) \notin live
  /\ at = "freeResponse" => Request(probe) \notin live

MeteredHasFuel ==
  conduct[probe] \in {"sound", "misreports"} =>
    /\ at = "alloc" => fuel >= 4
    /\ at \in {"write", "evaluate"} => fuel >= 3
    /\ at \in {"read", "freeRequest"} => fuel >= 2
    /\ at = "freeResponse" => fuel >= 1
    /\ at # "handBack"

UnderWay == at # "idle" => probe \in 1..Probes

ReadableUnlessMisreported == conduct[probe] # "misreports" => readable

TrapsAreNotSound == at = "handBack" => conduct[probe] \in {"panics", "runaway"}

HostInv ==
  /\ HostTypeOK
  /\ UnderWay
  /\ HoldsRequest
  /\ HoldsResponse
  /\ HoldsNothingYet
  /\ (at # "idle" => MeteredHasFuel /\ ReadableUnlessMisreported /\ TrapsAreNotSound)
  /\ FailureIsContained
  /\ OnlyFailuresLeak

LEMMA BufferOfProbe ==
  ASSUME NEW b \in Buffer, NEW p
  PROVE  /\ b.probe = p => b = Request(p) \/ b = Response(p)
         /\ Request(p).probe = p /\ Response(p).probe = p
         /\ Request(p).holds = "request" /\ Response(p).holds = "response"
         /\ Request(p) # Response(p)
BY DEF Buffer, Request, Response

(* At the start nothing is allocated and no probe has an outcome. *)
LEMMA HostInitEstablishes == HostInit => HostInv
BY HostAssumption
DEF HostInit, HostInv, HostTypeOK, UnderWay, HoldsRequest, HoldsResponse, HoldsNothingYet,
    MeteredHasFuel, ReadableUnlessMisreported, TrapsAreNotSound, FailureIsContained,
    OnlyFailuresLeak

(* A step inside a round trip: the probe stays, and so do older buffers.   *)
LEMMA StepInside ==
  ASSUME HostInv, UNCHANGED <<conduct, probe, outcomes>>,
         at \in {"alloc", "write", "evaluate", "read", "freeRequest"},
         at' \in {"write", "evaluate", "handBack", "read", "freeRequest", "freeResponse"},
         fuel' \in 0..FUEL_PER_CALL, readable' \in BOOLEAN,
         live' \subseteq live \cup {Request(probe), Response(probe)},
         HoldsRequest', HoldsResponse', 
         at' \in {"write", "evaluate"} => Response(probe) \notin live',
         at' = "freeResponse" => Request(probe) \notin live',
         MeteredHasFuel', ReadableUnlessMisreported', TrapsAreNotSound'
  PROVE  HostInv'
<1>1. probe \in 1..Probes
  BY DEF HostInv, UnderWay
<1>2. Request(probe) \in Buffer /\ Response(probe) \in Buffer
  BY <1>1 DEF Request, Response, Buffer
<1>3. HostTypeOK'
  BY <1>2 DEF HostInv, HostTypeOK
<1>4. \A b \in live' : b \in live \/ b.probe = probe
  BY BufferOfProbe DEF HostInv, HostTypeOK, Request, Response
<1>5. probe \in Nat
  BY <1>1, HostAssumption
<1>6. HoldsNothingYet'
  BY <1>4, <1>5 DEF HostInv, HoldsNothingYet, Request, Response
<1>7. FailureIsContained'
  BY DEF HostInv, FailureIsContained
<1>8. OnlyFailuresLeak'
  BY <1>4, <1>5 DEF HostInv, OnlyFailuresLeak
<1>. QED
  BY <1>1, <1>3, <1>6, <1>7, <1>8 DEF HostInv, UnderWay

(* The last step of a round trip.                                          *)
LEMMA StepOut ==
  ASSUME HostInv, NEW result \in {"ok", "err"}, at # "idle", Answer(result),
         UNCHANGED conduct, fuel' \in 0..FUEL_PER_CALL, readable' \in BOOLEAN,
         live' \subseteq live,
         conduct[probe] = "sound" => result = "ok",
         \A b \in live' : b.probe = probe =>
           /\ result = "err"
           /\ conduct[probe] # "sound"
           /\ b.holds = "response" => conduct[probe] \in {"panics", "runaway"}
  PROVE  HostInv'
<1>1. probe \in 1..Probes /\ probe \in Nat /\ Probes \in Nat
  BY HostAssumption DEF HostInv, UnderWay
<1>2. /\ probe' = probe + 1 /\ at' = "idle"
      /\ outcomes' = [p \in 1..probe |-> IF p = probe THEN result ELSE outcomes[p]]
  BY DEF Answer
<1>3. /\ outcomes'[probe] = result
      /\ \A p \in 1..(probe - 1) : outcomes'[p] = outcomes[p]
  BY <1>1, <1>2
<1>4. HostTypeOK'
  <2>1. outcomes' \in [1..probe -> {"ok", "err"}]
    BY <1>1, <1>2 DEF HostInv, HostTypeOK
  <2>. QED
    BY <1>1, <1>2, <2>1 DEF HostInv, HostTypeOK
<1>5. \A b \in live : b \in Buffer /\ b.probe \in 1..Probes /\ b.probe <= probe
  BY DEF HostInv, HostTypeOK, HoldsNothingYet, Buffer
<1>6. HoldsNothingYet'
  BY <1>1, <1>2, <1>5 DEF HoldsNothingYet
<1>7. FailureIsContained'
  <2>. SUFFICES ASSUME NEW p \in 1..probe, conduct[p] = "sound"
                PROVE  outcomes'[p] = "ok"
    BY <1>1, <1>2 DEF FailureIsContained
  <2>1. CASE p = probe
    BY <2>1, <1>3
  <2>2. CASE p # probe
    BY <2>2, <1>1, <1>3 DEF HostInv, FailureIsContained
  <2>. QED
    BY <2>1, <2>2
<1>8. OnlyFailuresLeak'
  <2>. SUFFICES ASSUME NEW b \in live'
                PROVE  /\ outcomes'[b.probe] = "err"
                       /\ b.holds = "response" => conduct[b.probe] \in {"panics", "runaway"}
                       /\ conduct[b.probe] # "sound"
    BY DEF OnlyFailuresLeak
  <2>1. CASE b.probe = probe
    BY <2>1, <1>3
  <2>2. CASE b.probe # probe
    BY <2>2, <1>1, <1>3, <1>5 DEF HostInv, OnlyFailuresLeak
  <2>. QED
    BY <2>1, <2>2
<1>. QED
  BY <1>2, <1>4, <1>6, <1>7, <1>8 DEF HostInv, UnderWay, HoldsRequest, HoldsResponse

(* Every step of the replay keeps the invariant. *)
LEMMA HostStepKeeps == HostInv /\ [HostNext]_hostVars => HostInv'
<1>. SUFFICES ASSUME HostInv, [HostNext]_hostVars
              PROVE  HostInv'
  OBVIOUS
<1>. USE HostAssumption
<1>0. /\ at # "idle" => probe \in 1..Probes
      /\ conduct[probe] \in Conduct \/ at = "idle"
      /\ fuel \in 0..FUEL_PER_CALL /\ readable \in BOOLEAN
  BY DEF HostInv, HostTypeOK, UnderWay
<1>r. \A p : Request(p) # Response(p) /\ Request(p).probe = p /\ Response(p).probe = p
  BY DEF Request, Response
<1>b. \A b \in live : b.probe = probe => b \in {Request(probe), Response(probe)}
  BY BufferOfProbe DEF HostInv, HostTypeOK
<1>h. Request(probe).holds = "request" /\ Response(probe).holds = "response"
  BY DEF Request, Response
<1>1. CASE Begin
  <2>1. probe \in 1..Probes
    BY <1>1 DEF Begin, HostInv, HostTypeOK
  <2>2. HostTypeOK'
    BY <1>1 DEF Begin, HostInv, HostTypeOK
  <2>3. HoldsRequest' /\ HoldsResponse' /\ HoldsNothingYet' /\ UnderWay'
    BY <1>1, <2>1 DEF Begin, HostInv, HoldsRequest, HoldsResponse, HoldsNothingYet, UnderWay
  <2>4. MeteredHasFuel' /\ ReadableUnlessMisreported' /\ TrapsAreNotSound'
    BY <1>1 DEF Begin, MeteredHasFuel, ReadableUnlessMisreported, TrapsAreNotSound
  <2>5. FailureIsContained' /\ OnlyFailuresLeak'
    BY <1>1 DEF Begin, HostInv, FailureIsContained, OnlyFailuresLeak
  <2>. QED
    BY <2>2, <2>3, <2>4, <2>5 DEF HostInv
<1>2. CASE Alloc
  <2>1. CASE at' = "write"
    <3>1. /\ at = "alloc" /\ Spend /\ live' = live \cup {Request(probe)}
          /\ UNCHANGED <<conduct, probe, outcomes, readable>>
      BY <1>2, <2>1 DEF Alloc, Answer
    <3>2. Response(probe) \notin live'
      BY <3>1, <1>0, <1>r DEF HostInv, HoldsNothingYet
    <3>3. HoldsRequest' /\ HoldsResponse' /\ TrapsAreNotSound'
      BY <2>1, <3>1 DEF HoldsRequest, HoldsResponse, TrapsAreNotSound
    <3>4. MeteredHasFuel' /\ ReadableUnlessMisreported' /\ fuel' \in 0..FUEL_PER_CALL
      BY <2>1, <3>1, <1>0 DEF Spend, HostInv, MeteredHasFuel, ReadableUnlessMisreported
    <3>. QED
      BY <2>1, <3>1, <3>2, <3>3, <3>4, <1>0, StepInside
  <2>2. CASE at' # "write"
    <3>1. /\ at = "alloc" /\ MayTrap /\ Answer("err")
          /\ UNCHANGED <<conduct, fuel, live, readable>>
      BY <1>2, <2>2 DEF Alloc
    <3>2. conduct[probe] # "sound"
      BY <3>1 DEF MayTrap, HostInv, MeteredHasFuel
    <3>3. \A b \in live : b.probe # probe
      BY <3>1, <1>0 DEF HostInv, HoldsNothingYet
    <3>. QED
      BY <3>1, <3>2, <3>3, <1>0, StepOut
  <2>. QED
    BY <2>1, <2>2
<1>3. CASE Write
  <2>1. CASE at' = "evaluate"
    <3>1. at = "write" /\ UNCHANGED <<conduct, probe, outcomes, fuel, live, readable>>
      BY <1>3, <2>1 DEF Write, Answer
    <3>2. HoldsRequest' /\ HoldsResponse' /\ TrapsAreNotSound' /\ Response(probe) \notin live'
      BY <2>1, <3>1 DEF HostInv, HoldsRequest, HoldsResponse, HoldsNothingYet, TrapsAreNotSound,
                        Request
    <3>3. MeteredHasFuel' /\ ReadableUnlessMisreported'
      BY <2>1, <3>1 DEF HostInv, MeteredHasFuel, ReadableUnlessMisreported
    <3>. QED
      BY <2>1, <3>1, <3>2, <3>3, <1>0, StepInside
  <2>2. CASE at' # "evaluate"
    <3>1. /\ at = "write" /\ conduct[probe] = "misreports" /\ Answer("err")
          /\ UNCHANGED <<conduct, fuel, live, readable>>
      BY <1>3, <2>2 DEF Write
    <3>2. \A b \in live : b.probe = probe => b.holds = "request"
      BY <3>1, <1>b, <1>h DEF HostInv, HoldsNothingYet
    <3>. QED
      BY <3>1, <3>2, <1>0, StepOut
  <2>. QED
    BY <2>1, <2>2
<1>4. CASE RunOn
  <2>1. /\ at = "evaluate" /\ at' = at /\ conduct[probe] = "runaway"
        /\ fuel' \in 0..FUEL_PER_CALL
        /\ UNCHANGED <<conduct, probe, live, readable, outcomes>>
    BY <1>4, <1>0 DEF RunOn
  <2>2. HoldsRequest' /\ HoldsResponse' /\ TrapsAreNotSound' /\ Response(probe) \notin live'
    BY <2>1 DEF HostInv, HoldsRequest, HoldsResponse, HoldsNothingYet, TrapsAreNotSound, Request
  <2>3. MeteredHasFuel' /\ ReadableUnlessMisreported'
    BY <2>1 DEF HostInv, MeteredHasFuel, ReadableUnlessMisreported
  <2>. QED
    BY <2>1, <2>2, <2>3, <1>0, StepInside
<1>5. CASE Return
  <2>1. /\ at = "evaluate" /\ at' = "read" /\ Spend
        /\ live' = live \cup {Response(probe)}
        /\ UNCHANGED <<conduct, probe, readable, outcomes>>
    BY <1>5 DEF Return
  <2>2. HoldsRequest' /\ HoldsResponse' /\ TrapsAreNotSound'
    BY <2>1 DEF HostInv, HoldsRequest, HoldsResponse, TrapsAreNotSound, Request, Response
  <2>3. MeteredHasFuel' /\ ReadableUnlessMisreported' /\ fuel' \in 0..FUEL_PER_CALL
    BY <2>1, <1>0 DEF Spend, HostInv, MeteredHasFuel, ReadableUnlessMisreported
  <2>. QED
    BY <2>1, <2>2, <2>3, <1>0, StepInside
<1>6. CASE Trap
  <2>1. /\ at = "evaluate" /\ at' = "handBack" /\ MayTrap
        /\ live' \in {live, live \cup {Response(probe)}}
        /\ UNCHANGED <<conduct, probe, fuel, readable, outcomes>>
    BY <1>6 DEF Trap
  <2>2. HoldsRequest' /\ HoldsResponse'
    BY <2>1 DEF HostInv, HoldsRequest, HoldsResponse, Request
  <2>3. conduct[probe] \in {"panics", "runaway"}
    BY <2>1, <1>0 DEF MayTrap, HostInv, MeteredHasFuel, Conduct
  <2>4. MeteredHasFuel' /\ ReadableUnlessMisreported' /\ TrapsAreNotSound'
    BY <2>1, <2>3 DEF HostInv, MeteredHasFuel, ReadableUnlessMisreported, TrapsAreNotSound
  <2>. QED
    BY <2>1, <2>2, <2>4, <1>0, StepInside
<1>7. CASE HandBack
  <2>1. /\ at = "handBack" /\ Answer("err") /\ UNCHANGED <<conduct, readable>>
        /\ live' \subseteq live /\ fuel' \in 0..FUEL_PER_CALL
    BY <1>7, <1>0 DEF HandBack, Spend
  <2>2. conduct[probe] \in {"panics", "runaway"}
    BY <2>1 DEF HostInv, TrapsAreNotSound
  <2>. QED
    BY <2>1, <2>2, <1>0, StepOut
<1>8. CASE Read
  <2>1. /\ at = "read" /\ at' = "freeRequest" /\ readable' \in {TRUE, conduct[probe] # "misreports"}
        /\ UNCHANGED <<conduct, probe, fuel, live, outcomes>>
    BY <1>8 DEF Read
  <2>2. HoldsRequest' /\ HoldsResponse' /\ TrapsAreNotSound'
    BY <2>1 DEF HostInv, HoldsRequest, HoldsResponse, TrapsAreNotSound, Request, Response
  <2>3. MeteredHasFuel' /\ ReadableUnlessMisreported' /\ readable' \in BOOLEAN
    BY <2>1 DEF HostInv, MeteredHasFuel, ReadableUnlessMisreported
  <2>. QED
    BY <2>1, <2>2, <2>3, <1>0, StepInside
<1>9. CASE FreeRequest
  <2>1. CASE at' = "freeResponse"
    <3>1. /\ at = "freeRequest" /\ Spend /\ live' = live \ {Request(probe)}
          /\ UNCHANGED <<conduct, probe, outcomes, readable>>
      BY <1>9, <2>1 DEF FreeRequest, Answer
    <3>2. HoldsRequest' /\ HoldsResponse' /\ TrapsAreNotSound' /\ Request(probe) \notin live'
      BY <2>1, <3>1, <1>r DEF HostInv, HoldsRequest, HoldsResponse, TrapsAreNotSound, Response
    <3>3. MeteredHasFuel' /\ ReadableUnlessMisreported' /\ fuel' \in 0..FUEL_PER_CALL
      BY <2>1, <3>1, <1>0 DEF Spend, HostInv, MeteredHasFuel, ReadableUnlessMisreported
    <3>. QED
      BY <2>1, <3>1, <3>2, <3>3, <1>0, StepInside
  <2>2. CASE at' # "freeResponse"
    <3>1. /\ at = "freeRequest" /\ MayTrap /\ Answer("err")
          /\ UNCHANGED <<conduct, fuel, live, readable>>
      BY <1>9, <2>2 DEF FreeRequest
    <3>2. conduct[probe] \in {"panics", "runaway"}
      BY <3>1, <1>0 DEF MayTrap, HostInv, MeteredHasFuel, Conduct
    <3>. QED
      BY <3>1, <3>2, <1>0, StepOut
  <2>. QED
    BY <2>1, <2>2
<1>10. CASE FreeResponse
  <2>1. CASE Spend /\ live' = live \ {Response(probe)}
                  /\ Answer(IF readable THEN "ok" ELSE "err")
    <3>1. at = "freeResponse" /\ UNCHANGED <<conduct, readable>> /\ fuel' \in 0..FUEL_PER_CALL
      BY <1>10, <2>1, <1>0 DEF FreeResponse, Spend
    <3>2. \A b \in live' : b.probe # probe
      BY <3>1, <2>1, <1>b DEF HostInv, HoldsNothingYet
    <3>3. conduct[probe] = "sound" => readable
      BY <3>1 DEF HostInv, ReadableUnlessMisreported
    <3>. QED
      BY <2>1, <3>1, <3>2, <3>3, <1>0, StepOut
  <2>2. CASE MayTrap /\ Answer("err") /\ UNCHANGED <<fuel, live>>
    <3>1. at = "freeResponse" /\ UNCHANGED <<conduct, readable>>
      BY <1>10 DEF FreeResponse
    <3>2. conduct[probe] \in {"panics", "runaway"}
      BY <3>1, <2>2, <1>0 DEF MayTrap, HostInv, MeteredHasFuel, Conduct
    <3>. QED
      BY <2>2, <3>1, <3>2, <1>0, StepOut
  <2>. QED
    BY <1>10, <2>1, <2>2 DEF FreeResponse
<1>11. CASE UNCHANGED hostVars
  BY <1>11 DEF hostVars, HostInv, HostTypeOK, UnderWay, HoldsRequest, HoldsResponse,
               HoldsNothingYet, MeteredHasFuel, ReadableUnlessMisreported, TrapsAreNotSound,
               FailureIsContained, OnlyFailuresLeak
<1>. QED
  BY <1>1, <1>2, <1>3, <1>4, <1>5, <1>6, <1>7, <1>8, <1>9, <1>10, <1>11
  DEF HostNext, Replayed

LEMMA HostInvariant == HostSpec => []HostInv
<1>. QED
  BY HostInitEstablishes, HostStepKeeps, PTL DEF HostSpec

(* For any catalog and budget: a failure is recorded against its own probe *)
(* only, and a probe the guest handles soundly is always answered.         *)
THEOREM FailureIsContainedCorrect == HostSpec => []FailureIsContained
<1>1. HostInv => FailureIsContained
  BY DEF HostInv
<1>. QED
  BY <1>1, HostInvariant, PTL

(* For any catalog and budget: what is left allocated when a round trip is *)
(* over was left by a failure, a response buffer by a trap.                *)
THEOREM OnlyFailuresLeakCorrect == HostSpec => []OnlyFailuresLeak
<1>1. HostInv => OnlyFailuresLeak
  BY DEF HostInv
<1>. QED
  BY <1>1, HostInvariant, PTL

(* For any catalog and budget: the host frees only what is allocated.      *)
THEOREM FreesWhatItOwnsCorrect == HostSpec => []FreesWhatItOwns
<1>1. HostInv => FreesWhatItOwns
  BY DEF HostInv, HoldsRequest, HoldsResponse, FreesWhatItOwns
<1>. QED
  BY <1>1, HostInvariant, PTL

-------------------------------------------------------------------------------
(* The pages that audit the engine: their counters.                        *)

(* What a page makes of probe i, and which probes it counts.               *)
KindOf(p, i) ==
  LET status == outcome(catalog.probes[i], answers[i]) IN
    IF p = "coverage" THEN status ELSE judge_probe(catalog.probes[i], status)

JudgedOn(p) == IF p = "coverage" THEN DOMAIN catalog.probes ELSE With(catalog, judged_ids(catalog))

CountedBy(p, n) == {i \in JudgedOn(p) : i <= n}

OfKind(p, n, k) == {i \in CountedBy(p, n) : KindOf(p, i) = k}

(* What the counters say after the first n probes. *)
Counters(p, n) ==
  [done |-> Cardinality(CountedBy(p, n)), total |-> total(p),
   counts |-> [k \in Kinds(p) |-> Cardinality(OfKind(p, n, k))]]

IsRun(run) ==
  run = [state |-> run.state, failed_at |-> run.failed_at, visits |-> run.visits,
         outcomes |-> run.outcomes, progress |-> run.progress]

HeardSoFar(said) ==
  /\ said \in Seq(ProbeStatus)
  /\ Len(said) <= Len(catalog.probes)
  /\ \A i \in 1..Len(said) : said[i] = outcome(catalog.probes[i], answers[i])

(* Nothing is counted before a catalog has come, and one that has parsed;  *)
(* from then on the counters are those of the probes heard so far, of      *)
(* which none is missing once the replay is over.                          *)
Counting(run) == run.state \in {"Probing", "Compiling", "Done"}

RunIsInOrder(p) ==
  /\ IsRun(runs[p])
  /\ HeardSoFar(runs[p].outcomes)
  /\ IF Counting(runs[p])
       THEN /\ parse_coverage_catalog(catalog)
            /\ runs[p].progress = Counters(p, Len(runs[p].outcomes))
       ELSE /\ runs[p].outcomes = <<>>
            /\ runs[p].progress = progress_default(p, 0)
  /\ runs[p].state \in {"Compiling", "Done"} => Len(runs[p].outcomes) = Len(catalog.probes)

AuditInv ==
  /\ \E i \in DOMAIN Scenes : scene = Scenes[i]
  /\ DOMAIN runs = Pages
  /\ \A p \in Pages : RunIsInOrder(p)

LEMMA ProbesAreListed ==
  ASSUME \E i \in DOMAIN Scenes : scene = Scenes[i]
  PROVE  /\ Len(catalog.probes) \in Nat
         /\ DOMAIN catalog.probes = 1..Len(catalog.probes)
         /\ \A j, k \in DOMAIN catalog.probes :
              catalog.probes[j].id = catalog.probes[k].id => j = k
<1>1. PICK i \in DOMAIN Scenes : scene = Scenes[i]
  OBVIOUS
<1>2. /\ scene.catalog.probes \in Seq({scene.catalog.probes[j] : j \in DOMAIN scene.catalog.probes})
      /\ \A j, k \in DOMAIN scene.catalog.probes :
           scene.catalog.probes[j].id = scene.catalog.probes[k].id => j = k
  BY <1>1, AuditAssumption
<1> DEFINE all == scene.catalog.probes
<1>3. all \in Seq({all[j] : j \in DOMAIN all}) /\ \A j, k \in DOMAIN all : all[j].id = all[k].id => j = k
  BY <1>2
<1> HIDE DEF all
<1>4. Len(all) \in Nat /\ DOMAIN all = 1..Len(all)
  BY <1>3
<1> QED
  BY <1>3, <1>4 DEF all, catalog

(* What a page counts is of the catalog, and as much as it says it will.   *)
LEMMA CountedAreJudged ==
  ASSUME \E i \in DOMAIN Scenes : scene = Scenes[i], NEW p \in Pages
  PROVE  /\ JudgedOn(p) \subseteq 1..Len(catalog.probes)
         /\ CountedBy(p, Len(catalog.probes)) = JudgedOn(p)
         /\ \A n \in Nat : /\ IsFiniteSet(CountedBy(p, n))
                           /\ Cardinality(CountedBy(p, n)) \in Nat
                           /\ Cardinality(CountedBy(p, n)) <= Cardinality(JudgedOn(p))
                           /\ \A k : IsFiniteSet(OfKind(p, n, k))
         /\ parse_coverage_catalog(catalog) => Cardinality(JudgedOn(p)) = total(p)
<1> DEFINE N == Len(catalog.probes)
           all == catalog.probes
<1>1. /\ N \in Nat /\ DOMAIN all = 1..N
      /\ \A j, k \in DOMAIN all : all[j].id = all[k].id => j = k
  BY ProbesAreListed
<1>2. IsFiniteSet(1..N) /\ Cardinality(1..N) = N
  <2> HIDE DEF N
  <2>1. 1 \in Int /\ N \in Int
    BY <1>1
  <2>2. IsFiniteSet(1..N) /\ Cardinality(1..N) = IF 1 > N THEN 0 ELSE N - 1 + 1
    BY <2>1, FS_Interval
  <2> QED
    BY <1>1, <2>2
<1>3. JudgedOn(p) \subseteq 1..N
  BY <1>1 DEF JudgedOn, With
<1>4. IsFiniteSet(JudgedOn(p))
  BY <1>2, <1>3, FS_Subset
<1>5. CountedBy(p, N) = JudgedOn(p)
  BY <1>3 DEF CountedBy
<1>6. ASSUME NEW n \in Nat
      PROVE  /\ IsFiniteSet(CountedBy(p, n))
             /\ Cardinality(CountedBy(p, n)) \in Nat
             /\ Cardinality(CountedBy(p, n)) <= Cardinality(JudgedOn(p))
             /\ \A k : IsFiniteSet(OfKind(p, n, k))
  <2>1. CountedBy(p, n) \in SUBSET JudgedOn(p) /\ \A k : OfKind(p, n, k) \in SUBSET JudgedOn(p)
    BY DEF CountedBy, OfKind
  <2> QED
    BY <1>4, <2>1, FS_Subset, FS_CardinalityType
<1>7. ASSUME parse_coverage_catalog(catalog)
      PROVE  Cardinality(JudgedOn(p)) = total(p)
  <2>1. CASE p = "coverage"
    BY <1>1, <1>2, <2>1 DEF JudgedOn, total
  <2>2. CASE p # "coverage"
    <3> DEFINE S == JudgedOn(p)
               ids == judged_ids(catalog)
               id == [i \in S |-> all[i].id]
    <3>1. S = {i \in DOMAIN all : all[i].id \in ids} /\ total(p) = Cardinality(ids)
      BY <2>2 DEF JudgedOn, With, total
    <3>2. \A x \in ids : \E i \in DOMAIN all : all[i].id = x
      <4>1. ids \subseteq ProbeIds(catalog)
        BY <1>7 DEF parse_coverage_catalog, judged_ids, InScope
      <4> HIDE DEF ids
      <4> QED
        BY <4>1 DEF ProbeIds
    <3> HIDE DEF S, ids
    <3>3. id \in [S -> ids] /\ \A a, b \in S : id[a] = id[b] => a = b
      BY <1>1, <3>1
    <3>4. \A x \in ids : \E i \in S : id[i] = x
      BY <3>1, <3>2
    <3> HIDE DEF id
    <3>5. id \in Injection(S, ids) /\ id \in Surjection(S, ids)
      BY <3>3, <3>4 DEF Injection, IsInjective, Surjection
    <3>6. ExistsBijection(S, ids)
      BY <3>5 DEF ExistsBijection, Bijection
    <3>7. IsFiniteSet(S)
      BY <1>4 DEF S
    <3>8. Cardinality(ids) = Cardinality(S)
      BY <3>6, <3>7, FS_Bijection
    <3> QED
      BY <3>1, <3>8 DEF S
  <2> QED
    BY <2>1, <2>2
<1> QED
  BY <1>3, <1>5, <1>6, <1>7

LEMMA KindsAreKnown ==
  ASSUME NEW p \in Pages, NEW i
  PROVE  /\ outcome(catalog.probes[i], answers[i]) \in ProbeStatus
         /\ KindOf(p, i) \in Kinds(p)
<1>1. outcome(catalog.probes[i], answers[i]) \in ProbeStatus
  BY DEF outcome, classify_probe, ProbeStatus
<1>2. \A status : judge_probe(catalog.probes[i], status) \in SpecOutcome
  BY DEF judge_probe, SpecOutcome
<1> QED
  BY <1>1, <1>2 DEF KindOf, Kinds

(* One more probe: the callback counts what the page judges of it.         *)
LEMMA CountsOneMore ==
  ASSUME \E i \in DOMAIN Scenes : scene = Scenes[i], NEW p \in Pages,
         NEW i \in 1..Len(catalog.probes)
  PROVE  Counted(p, Counters(p, i - 1), i, outcome(catalog.probes[i], answers[i])) = Counters(p, i)
<1> DEFINE before == CountedBy(p, i - 1)
           kind == KindOf(p, i)
           Ks == Kinds(p)
<1>1. /\ Len(catalog.probes) \in Nat /\ JudgedOn(p) \subseteq 1..Len(catalog.probes)
      /\ DOMAIN catalog.probes = 1..Len(catalog.probes)
  BY ProbesAreListed, CountedAreJudged
<1>2. i \in Nat /\ i - 1 \in Nat
  BY <1>1
<1>3. IsFiniteSet(before) /\ \A k : IsFiniteSet(OfKind(p, i - 1, k))
  BY <1>2, CountedAreJudged
<1>4. i \notin before /\ kind \in Ks
  BY <1>2, KindsAreKnown DEF CountedBy
<1>5. CountedBy(p, i) = IF i \in JudgedOn(p) THEN before \cup {i} ELSE before
  BY <1>1, <1>2 DEF CountedBy
<1>6. Counted(p, Counters(p, i - 1), i, outcome(catalog.probes[i], answers[i]))
        = IF i \in JudgedOn(p) THEN record(Counters(p, i - 1), kind) ELSE Counters(p, i - 1)
  BY <1>1 DEF Counted, JudgedOn, With, KindOf
<1>7. CASE i \notin JudgedOn(p)
  <2>1. \A k : OfKind(p, i, k) = OfKind(p, i - 1, k)
    BY <1>5, <1>7 DEF OfKind
  <2> QED
    BY <1>5, <1>6, <1>7, <2>1 DEF Counters
<1>8. CASE i \in JudgedOn(p)
  <2>1. Cardinality(CountedBy(p, i)) = Cardinality(before) + 1
    BY <1>3, <1>4, <1>5, <1>8, FS_AddElement
  <2>2. ASSUME NEW k
        PROVE  Cardinality(OfKind(p, i, k))
                 = IF k = kind THEN Cardinality(OfKind(p, i - 1, k)) + 1
                   ELSE Cardinality(OfKind(p, i - 1, k))
    <3>1. i \notin OfKind(p, i - 1, k)
      BY <1>4 DEF OfKind
    <3>2. OfKind(p, i, k) = IF k = kind THEN OfKind(p, i - 1, k) \cup {i} ELSE OfKind(p, i - 1, k)
      BY <1>5, <1>8 DEF OfKind
    <3> QED
      BY <1>3, <3>1, <3>2, FS_AddElement
  <2> DEFINE old == [k \in Ks |-> Cardinality(OfKind(p, i - 1, k))]
             new == [k \in Ks |-> Cardinality(OfKind(p, i, k))]
  <2>3. new = [old EXCEPT ![kind] = @ + 1]
    <3>1. \A k \in Ks : new[k] = IF k = kind THEN old[k] + 1 ELSE old[k]
      BY <2>2
    <3>2. new = [k \in Ks |-> new[k]] /\ DOMAIN old = Ks
      OBVIOUS
    <3> HIDE DEF new, old, kind
    <3> QED
      BY <1>4, <3>1, <3>2
  <2>4. Counters(p, i - 1) = [done |-> Cardinality(before), total |-> total(p), counts |-> old]
    BY DEF Counters
  <2>5. Counters(p, i) = [done |-> Cardinality(before) + 1, total |-> total(p), counts |-> new]
    BY <2>1 DEF Counters
  <2> HIDE DEF new, old, kind, before, Ks
  <2>6. record(Counters(p, i - 1), kind) = Counters(p, i)
    BY <2>3, <2>4, <2>5 DEF record
  <2> QED
    BY <1>6, <1>8, <2>6
<1> QED
  BY <1>7, <1>8

-------------------------------------------------------------------------------
(* A run that is in order and goes on stays in order; the other page's run *)
(* is not touched.                                                         *)
LEMMA SceneStays ==
  ASSUME scene' = scene
  PROVE  /\ catalog' = catalog /\ answers' = answers
         /\ \A p, n : Counters(p, n)' = Counters(p, n)
         /\ \A said : HeardSoFar(said)' = HeardSoFar(said)
<1>1. catalog' = catalog /\ answers' = answers
  BY DEF catalog, answers
<1>2. \A p : JudgedOn(p)' = JudgedOn(p) /\ total(p)' = total(p)
  BY <1>1 DEF JudgedOn, total
<1>3. \A p, i : KindOf(p, i)' = KindOf(p, i)
  BY <1>1 DEF KindOf
<1>4. \A p, n : CountedBy(p, n)' = CountedBy(p, n)
  BY <1>2 DEF CountedBy
<1>5. \A p, n, k : OfKind(p, n, k)' = OfKind(p, n, k)
  BY <1>3, <1>4 DEF OfKind
<1>6. \A p, n : Counters(p, n)' = Counters(p, n)
  BY <1>2, <1>4, <1>5 DEF Counters
<1>7. \A said : HeardSoFar(said)' = HeardSoFar(said)
  BY <1>1 DEF HeardSoFar
<1> QED
  BY <1>1, <1>6, <1>7

LEMMA BecomesInOrder ==
  ASSUME AuditInv, NEW p \in Pages, NEW run, Becomes(p, run), IsRun(run), HeardSoFar(run.outcomes),
         IF Counting(run)
           THEN parse_coverage_catalog(catalog) /\ run.progress = Counters(p, Len(run.outcomes))
           ELSE run.outcomes = <<>> /\ run.progress = progress_default(p, 0),
         run.state \in {"Compiling", "Done"} => Len(run.outcomes) = Len(catalog.probes)
  PROVE  AuditInv'
<1>1. scene' = scene /\ runs' = [runs EXCEPT ![p] = run] /\ DOMAIN runs = Pages
  BY DEF Becomes, AuditInv
<1>2. DOMAIN runs' = Pages /\ \A q \in Pages : runs'[q] = IF q = p THEN run ELSE runs[q]
  BY <1>1
<1>3. ASSUME NEW q \in Pages
      PROVE  RunIsInOrder(q)'
  <2>1. CASE q = p
    <3>1. runs'[q] = run
      BY <1>2, <2>1
    <3> QED
      BY <1>1, <2>1, <3>1, SceneStays DEF RunIsInOrder
  <2>2. CASE q # p
    <3>1. runs'[q] = runs[q] /\ RunIsInOrder(q)
      BY <1>2, <2>2 DEF AuditInv
    <3> QED
      BY <1>1, <3>1, SceneStays DEF RunIsInOrder
  <2> QED
    BY <2>1, <2>2
<1> QED
  BY <1>1, <1>2, <1>3 DEF AuditInv

LEMMA AuditInvInit == AuditInit => AuditInv
<1> SUFFICES ASSUME AuditInit
             PROVE  AuditInv
  OBVIOUS
<1>1. \E i \in DOMAIN Scenes : scene = Scenes[i]
  BY DEF AuditInit, Range
<1>2. Len(catalog.probes) \in Nat
  BY <1>1, ProbesAreListed
<1>3. HeardSoFar(<<>>)
  BY <1>2 DEF HeardSoFar
<1>4. DOMAIN runs = Pages
  BY DEF AuditInit
<1>5. ASSUME NEW p \in Pages
      PROVE  RunIsInOrder(p)
  <2>1. runs[p] = [state |-> "Unopened", failed_at |-> "none", visits |-> 0, outcomes |-> <<>>,
                   progress |-> progress_default(p, 0)]
    BY DEF AuditInit
  <2> QED
    BY <1>3, <2>1 DEF RunIsInOrder, IsRun, Counting
<1> QED
  BY <1>1, <1>4, <1>5 DEF AuditInv

(* What changes of a run, written out. *)
LEMMA RunFails ==
  ASSUME NEW run, IsRun(run), NEW stage
  PROVE  [run EXCEPT !.state = "Failed", !.failed_at = stage]
           = [state |-> "Failed", failed_at |-> stage, visits |-> run.visits,
              outcomes |-> run.outcomes, progress |-> run.progress]
<1> DEFINE S == run.state
           F == run.failed_at
           V == run.visits
           O == run.outcomes
           P == run.progress
           once == [run EXCEPT !.state = "Failed"]
<1>1. run = [state |-> S, failed_at |-> F, visits |-> V, outcomes |-> O, progress |-> P]
  BY DEF IsRun
<1> HIDE DEF S, F, V, O, P
<1>2. once = [state |-> "Failed", failed_at |-> F, visits |-> V, outcomes |-> O, progress |-> P]
  BY <1>1
<1>3. [run EXCEPT !.state = "Failed", !.failed_at = stage] = [once EXCEPT !.failed_at = stage]
  OBVIOUS
<1> HIDE DEF once
<1> QED
  BY <1>2, <1>3 DEF S, F, V, O, P

LEMMA RunProbes ==
  ASSUME NEW run, IsRun(run), NEW progress
  PROVE  [run EXCEPT !.state = "Probing", !.progress = progress]
           = [state |-> "Probing", failed_at |-> run.failed_at, visits |-> run.visits,
              outcomes |-> run.outcomes, progress |-> progress]
<1> DEFINE S == run.state
           F == run.failed_at
           V == run.visits
           O == run.outcomes
           P == run.progress
           once == [run EXCEPT !.state = "Probing"]
<1>1. run = [state |-> S, failed_at |-> F, visits |-> V, outcomes |-> O, progress |-> P]
  BY DEF IsRun
<1> HIDE DEF S, F, V, O, P
<1>2. once = [state |-> "Probing", failed_at |-> F, visits |-> V, outcomes |-> O, progress |-> P]
  BY <1>1
<1>3. [run EXCEPT !.state = "Probing", !.progress = progress] = [once EXCEPT !.progress = progress]
  OBVIOUS
<1> HIDE DEF once
<1> QED
  BY <1>2, <1>3 DEF S, F, V, O, P

LEMMA RunHears ==
  ASSUME NEW run, IsRun(run), NEW said, NEW progress
  PROVE  [run EXCEPT !.outcomes = said, !.progress = progress]
           = [state |-> run.state, failed_at |-> run.failed_at, visits |-> run.visits,
              outcomes |-> said, progress |-> progress]
<1> DEFINE S == run.state
           F == run.failed_at
           V == run.visits
           O == run.outcomes
           P == run.progress
           once == [run EXCEPT !.outcomes = said]
<1>1. run = [state |-> S, failed_at |-> F, visits |-> V, outcomes |-> O, progress |-> P]
  BY DEF IsRun
<1> HIDE DEF S, F, V, O, P
<1>2. once = [state |-> S, failed_at |-> F, visits |-> V, outcomes |-> said, progress |-> P]
  BY <1>1
<1>3. [run EXCEPT !.outcomes = said, !.progress = progress] = [once EXCEPT !.progress = progress]
  OBVIOUS
<1> HIDE DEF once
<1> QED
  BY <1>2, <1>3 DEF S, F, V, O, P

LEMMA ContinueInOrder ==
  ASSUME AuditInv, NEW p \in Pages, Start(p) \/ Continue(p)
  PROVE  AuditInv'
<1> DEFINE run == runs[p]
<1>1. /\ \E i \in DOMAIN Scenes : scene = Scenes[i]
      /\ IsRun(run) /\ HeardSoFar(run.outcomes)
      /\ IF Counting(run)
           THEN parse_coverage_catalog(catalog) /\ run.progress = Counters(p, Len(run.outcomes))
           ELSE run.outcomes = <<>> /\ run.progress = progress_default(p, 0)
      /\ run.state \in {"Compiling", "Done"} => Len(run.outcomes) = Len(catalog.probes)
  BY DEF AuditInv, RunIsInOrder
<1>2. Len(catalog.probes) \in Nat
  BY <1>1, ProbesAreListed
<1>3. HeardSoFar(<<>>)
  BY <1>2 DEF HeardSoFar
<1>4. CASE Start(p)
  <2> DEFINE next == [state |-> "LoadingWasm", failed_at |-> "none", visits |-> run.visits + 1,
                      outcomes |-> <<>>, progress |-> progress_default(p, 0)]
  <2>1. Becomes(p, next)
    BY <1>4 DEF Start
  <2>2. IsRun(next) /\ next.outcomes = <<>> /\ next.progress = progress_default(p, 0)
        /\ ~Counting(next) /\ next.state \notin {"Compiling", "Done"}
    BY DEF IsRun, Counting
  <2> HIDE DEF next
  <2> QED
    BY <1>3, <2>1, <2>2, BecomesInOrder
<1>5. ASSUME NEW next, Becomes(p, next), ~Counting(run), ~Counting(next), IsRun(next),
             next.outcomes = run.outcomes, next.progress = run.progress
      PROVE  AuditInv'
  <2>1. next.state \notin {"Compiling", "Done"}
    BY <1>5 DEF Counting
  <2> QED
    BY <1>1, <1>5, <2>1, BecomesInOrder
<1>6. CASE Load(p)
  <2> DEFINE next == [run EXCEPT !.state = "LoadingCatalog"]
  <2>1. Becomes(p, next) /\ ~Counting(run)
    BY <1>6 DEF Load, Counting
  <2>2. ~Counting(next) /\ IsRun(next) /\ next.outcomes = run.outcomes /\ next.progress = run.progress
    BY <1>1 DEF IsRun, Counting
  <2> HIDE DEF next, run
  <2> QED
    BY <1>5, <2>1, <2>2
<1>7. CASE LoadFails(p) \/ FetchFails(p)
  <2> DEFINE next == [run EXCEPT !.state = "Failed", !.failed_at = run.state]
  <2>1. Becomes(p, next) /\ ~Counting(run)
    BY <1>7 DEF LoadFails, FetchFails, Fail, Counting
  <2>2. next = [state |-> "Failed", failed_at |-> run.state, visits |-> run.visits,
                outcomes |-> run.outcomes, progress |-> run.progress]
    <3> HIDE DEF run
    <3> QED
      BY <1>1, RunFails, Zenon
  <2> HIDE DEF next, run
  <2>3. ~Counting(next) /\ IsRun(next) /\ next.outcomes = run.outcomes /\ next.progress = run.progress
    BY <2>2 DEF IsRun, Counting
  <2> QED
    BY <1>5, <2>1, <2>3
<1>8. CASE Fetch(p)
  <2> DEFINE next == [run EXCEPT !.state = "Probing", !.progress = progress_default(p, total(p))]
  <2>1. Becomes(p, next) /\ parse_coverage_catalog(catalog) /\ ~Counting(run)
    BY <1>8 DEF Fetch, Counting
  <2>2. IsRun(next) /\ next.outcomes = run.outcomes /\ next.state = "Probing"
        /\ next.progress = progress_default(p, total(p))
    <3>1. next = [state |-> "Probing", failed_at |-> run.failed_at, visits |-> run.visits,
                  outcomes |-> run.outcomes, progress |-> progress_default(p, total(p))]
      <4> HIDE DEF run
      <4> QED
        BY <1>1, RunProbes, Zenon
    <3> HIDE DEF next, run
    <3> QED
      BY <3>1 DEF IsRun
  <2>3. next.outcomes = <<>>
    BY <1>1, <2>1, <2>2
  <2>4. progress_default(p, total(p)) = Counters(p, 0)
    <3>1. JudgedOn(p) \subseteq 1..Len(catalog.probes)
      BY <1>1, CountedAreJudged
    <3>2. CountedBy(p, 0) = {} /\ \A k : OfKind(p, 0, k) = {}
      BY <1>2, <3>1 DEF CountedBy, OfKind
    <3>3. Cardinality({}) = 0
      BY FS_EmptySet
    <3> QED
      BY <3>2, <3>3 DEF Counters, progress_default
  <2> HIDE DEF next, run
  <2>5. next.progress = Counters(p, Len(next.outcomes)) /\ HeardSoFar(next.outcomes)
    BY <1>3, <2>2, <2>3, <2>4
  <2>6. Counting(next) /\ next.state \notin {"Compiling", "Done"}
    BY <2>2 DEF Counting
  <2> QED
    BY <2>1, <2>2, <2>5, <2>6, BecomesInOrder
<1>9. CASE Probe(p)
  <2> DEFINE said == run.outcomes
             i == Len(said) + 1
             status == outcome(catalog.probes[i], answers[i])
             next == [run EXCEPT !.outcomes = Append(said, status),
                                 !.progress = Counted(p, run.progress, i, status)]
  <2>1. run.state = "Probing" /\ i <= Len(catalog.probes) /\ Becomes(p, next)
    BY <1>9 DEF Probe
  <2>2. said \in Seq(ProbeStatus) /\ \A j \in 1..Len(said) : said[j] = outcome(catalog.probes[j], answers[j])
    BY <1>1 DEF HeardSoFar
  <2>3. i \in 1..Len(catalog.probes) /\ i - 1 = Len(said) /\ status \in ProbeStatus
    BY <1>2, <2>1, <2>2, KindsAreKnown
  <2>4. Counting(run)
    BY <2>1 DEF Counting
  <2>5. parse_coverage_catalog(catalog) /\ run.progress = Counters(p, i - 1)
    BY <1>1, <2>3, <2>4
  <2>6. /\ IsRun(next) /\ next.state = "Probing" /\ next.outcomes = Append(said, status)
        /\ next.progress = Counted(p, run.progress, i, status)
    <3>1. next = [state |-> run.state, failed_at |-> run.failed_at, visits |-> run.visits,
                  outcomes |-> Append(said, status),
                  progress |-> Counted(p, run.progress, i, status)]
      <4> DEFINE more == Append(said, status)
                 counted == Counted(p, run.progress, i, status)
      <4>1. next = [run EXCEPT !.outcomes = more, !.progress = counted]
        OBVIOUS
      <4> HIDE DEF next, run, more, counted
      <4>2. [run EXCEPT !.outcomes = more, !.progress = counted]
              = [state |-> run.state, failed_at |-> run.failed_at, visits |-> run.visits,
                 outcomes |-> more, progress |-> counted]
        BY <1>1, RunHears, Zenon
      <4> QED
        BY <4>1, <4>2 DEF more, counted
    <3> HIDE DEF next, run, said, status, i
    <3> QED
      BY <2>1, <3>1 DEF IsRun
  <2> HIDE DEF next, run, said
  <2>7. HeardSoFar(Append(said, status)) /\ Len(Append(said, status)) = i
    <3> DEFINE now == Append(said, status)
    <3>1. now \in Seq(ProbeStatus) /\ Len(now) = i
          /\ \A j \in 1..i : now[j] = IF j = i THEN status ELSE said[j]
      <4> HIDE DEF status
      <4> QED
        BY <2>2, <2>3
    <3>2. \A j \in 1..i : j # i => j \in 1..Len(said)
      BY <2>2
    <3> HIDE DEF now
    <3>3. \A j \in 1..i : now[j] = outcome(catalog.probes[j], answers[j])
      BY <2>2, <3>1, <3>2
    <3>4. HeardSoFar(now)
      BY <2>1, <3>1, <3>3 DEF HeardSoFar
    <3> QED
      BY <3>1, <3>4 DEF now
  <2>8. Counted(p, Counters(p, i - 1), i, status) = Counters(p, i)
    BY <1>1, <2>3, CountsOneMore
  <2> HIDE DEF status, i
  <2>9. next.progress = Counters(p, Len(next.outcomes)) /\ HeardSoFar(next.outcomes)
    BY <2>5, <2>6, <2>7, <2>8
  <2>10. Counting(next) /\ next.state \notin {"Compiling", "Done"}
    BY <2>6 DEF Counting
  <2> QED
    BY <2>1, <2>5, <2>6, <2>9, <2>10, BecomesInOrder
<1>10. ASSUME NEW to, to \in {"Compiling", "Done"}, Becomes(p, [run EXCEPT !.state = to]),
              Counting(run), Len(run.outcomes) = Len(catalog.probes)
       PROVE  AuditInv'
  <2> DEFINE next == [run EXCEPT !.state = to]
  <2>1. IsRun(next) /\ Counting(next) /\ next.outcomes = run.outcomes /\ next.progress = run.progress
    BY <1>1, <1>10 DEF IsRun, Counting
  <2>2. Becomes(p, next)
    BY <1>10
  <2> HIDE DEF next, run
  <2> QED
    BY <1>1, <1>10, <2>1, <2>2, BecomesInOrder
<1>11. CASE ReplayEnds(p)
  BY <1>10, <1>11 DEF ReplayEnds, Counting
<1>12. CASE Compile(p)
  <2>1. run.state = "Compiling" /\ Becomes(p, [run EXCEPT !.state = "Done"])
    BY <1>12 DEF Compile
  <2>2. Counting(run) /\ Len(run.outcomes) = Len(catalog.probes)
    BY <1>1, <2>1 DEF Counting
  <2> QED
    BY <1>10, <2>1, <2>2
<1> QED
  BY <1>4, <1>6, <1>7, <1>8, <1>9, <1>11, <1>12 DEF Continue

LEMMA AuditInvStep == AuditInv /\ [AuditNext]_auditVars => AuditInv'
<1> SUFFICES ASSUME AuditInv, [AuditNext]_auditVars
             PROVE  AuditInv'
  OBVIOUS
<1>1. CASE AuditNext
  BY <1>1, ContinueInOrder DEF AuditNext
<1>2. CASE UNCHANGED auditVars
  <2>1. scene' = scene /\ runs' = runs
    BY <1>2 DEF auditVars
  <2> QED
    BY <2>1, SceneStays DEF AuditInv, RunIsInOrder
<1> QED
  BY <1>1, <1>2

(* The counters are never ahead of what was heard: for any catalog, any    *)
(* number of visits and any answers, a run is in order.                    *)
THEOREM AuditInvCorrect == AuditSpec => []AuditInv
BY AuditInvInit, AuditInvStep, PTL DEF AuditSpec

(* The counters of a run that is done are the tally of its report. *)
LEMMA DoneHeardAll ==
  ASSUME AuditInv, NEW p \in Pages, Done(p)
  PROVE  /\ parse_coverage_catalog(catalog)
         /\ Len(runs[p].outcomes) = Len(catalog.probes)
         /\ DOMAIN runs[p].outcomes = DOMAIN catalog.probes
         /\ \A i \in DOMAIN catalog.probes :
              runs[p].outcomes[i] = outcome(catalog.probes[i], answers[i])
         /\ runs[p].progress = Counters(p, Len(catalog.probes))
<1>1. RunIsInOrder(p) /\ runs[p].state = "Done" /\ \E i \in DOMAIN Scenes : scene = Scenes[i]
  BY DEF AuditInv, Done
<1>2. Counting(runs[p])
  BY <1>1 DEF Counting
<1>3. /\ parse_coverage_catalog(catalog) /\ HeardSoFar(runs[p].outcomes)
      /\ Len(runs[p].outcomes) = Len(catalog.probes)
      /\ runs[p].progress = Counters(p, Len(catalog.probes))
  BY <1>1, <1>2 DEF RunIsInOrder
<1>4. DOMAIN catalog.probes = 1..Len(catalog.probes)
  BY <1>1, ProbesAreListed
<1>5. DOMAIN runs[p].outcomes = 1..Len(catalog.probes)
  BY <1>3 DEF HeardSoFar
<1>6. \A i \in 1..Len(catalog.probes) : runs[p].outcomes[i] = outcome(catalog.probes[i], answers[i])
  BY <1>3 DEF HeardSoFar
<1> QED
  BY <1>3, <1>4, <1>5, <1>6

LEMMA FinishedTallies ==
  ASSUME AuditInv, NEW p \in Pages, Done(p)
  PROVE  report(p).probes = runs[p].progress.counts /\ report(p).total = runs[p].progress.total
<1> DEFINE said == runs[p].outcomes
           all == catalog.probes
           N == Len(all)
           Ks == Kinds(p)
<1>1. /\ parse_coverage_catalog(catalog) /\ Len(said) = N /\ DOMAIN said = DOMAIN all
      /\ \A i \in DOMAIN all : said[i] = outcome(all[i], answers[i])
      /\ runs[p].progress = Counters(p, N)
  BY DoneHeardAll
<1>2. \E i \in DOMAIN Scenes : scene = Scenes[i]
  BY DEF AuditInv
<1>3. DOMAIN all = 1..N /\ CountedBy(p, N) = JudgedOn(p)
      /\ Cardinality(JudgedOn(p)) = total(p)
  BY <1>1, <1>2, ProbesAreListed, CountedAreJudged
<1>4. runs[p].progress.total = total(p)
      /\ runs[p].progress.counts = [k \in Ks |-> Cardinality({i \in JudgedOn(p) : KindOf(p, i) = k})]
  BY <1>1, <1>3 DEF Counters, OfKind
<1>5. CASE p = "coverage"
  <2>1. report(p).probes = Tally(said, ProbeStatus) /\ report(p).total = N
    BY <1>1, <1>5 DEF report, compile_coverage_report
  <2>2. \A i \in DOMAIN all : said[i] = KindOf(p, i)
    BY <1>1, <1>5 DEF KindOf
  <2>3. \A k : {i \in JudgedOn(p) : KindOf(p, i) = k} = {i \in DOMAIN said : said[i] = k}
    BY <1>1, <1>5, <2>2 DEF JudgedOn
  <2>4. Tally(said, ProbeStatus) = [k \in Ks |-> Cardinality({i \in JudgedOn(p) : KindOf(p, i) = k})]
    BY <1>5, <2>3 DEF Tally, Kinds
  <2>5. total(p) = N
    BY <1>5 DEF total
  <2> QED
    BY <1>4, <2>1, <2>4, <2>5
<1>6. CASE p # "coverage"
  <2> DEFINE judged == With(catalog, judged_ids(catalog))
             judgment == [i \in DOMAIN all |-> judge_probe(all[i], said[i])]
             ours == [i \in judged |-> judgment[i]]
  <2>1. report(p).probes = Tally(ours, SpecOutcome) /\ report(p).total = Cardinality(judged)
    BY <1>6 DEF report, compile_full_compliance_report
  <2>2. judged = JudgedOn(p) /\ judged \subseteq DOMAIN all
    BY <1>6 DEF JudgedOn, With
  <2>3. \A i \in judged : ours[i] = KindOf(p, i)
    <3> TAKE i \in judged
    <3>1. i \in DOMAIN all /\ ours[i] = judgment[i]
      BY <2>2
    <3>2. judgment[i] = judge_probe(all[i], said[i]) /\ said[i] = outcome(all[i], answers[i])
      BY <1>1, <3>1
    <3> QED
      BY <1>6, <3>1, <3>2 DEF KindOf
  <2>4. DOMAIN ours = judged
    OBVIOUS
  <2> HIDE DEF ours, judged
  <2>5. \A k : {i \in JudgedOn(p) : KindOf(p, i) = k} = {i \in DOMAIN ours : ours[i] = k}
    BY <2>2, <2>3, <2>4
  <2>6. Tally(ours, SpecOutcome) = [k \in Ks |-> Cardinality({i \in JudgedOn(p) : KindOf(p, i) = k})]
    BY <1>6, <2>5 DEF Tally, Kinds
  <2> QED
    BY <1>3, <1>4, <2>1, <2>2, <2>6
<1> QED
  BY <1>5, <1>6

LEMMA InOrderForetells == AuditInv => CountersForetell
<1> SUFFICES ASSUME AuditInv, NEW p \in Pages
             PROVE  /\ runs[p].progress.done <= runs[p].progress.total
                    /\ Done(p) => /\ runs[p].progress.done = report(p).total
                                  /\ runs[p].progress.total = report(p).total
                                  /\ runs[p].progress.counts = report(p).probes
  BY DEF CountersForetell
<1>1. RunIsInOrder(p) /\ \E i \in DOMAIN Scenes : scene = Scenes[i]
  BY DEF AuditInv
<1>2. runs[p].progress.done <= runs[p].progress.total
  <2>1. CASE Counting(runs[p])
    <3> DEFINE n == Len(runs[p].outcomes)
    <3>1. parse_coverage_catalog(catalog) /\ runs[p].progress = Counters(p, n) /\ n \in Nat
      BY <1>1, <2>1 DEF RunIsInOrder, HeardSoFar
    <3> HIDE DEF n
    <3>2. Cardinality(CountedBy(p, n)) <= total(p)
      BY <1>1, <3>1, CountedAreJudged
    <3> QED
      BY <3>1, <3>2 DEF Counters
  <2>2. CASE ~Counting(runs[p])
    BY <1>1, <2>2 DEF RunIsInOrder, progress_default
  <2> QED
    BY <2>1, <2>2
<1>3. ASSUME Done(p)
      PROVE  /\ runs[p].progress.done = report(p).total
             /\ runs[p].progress.total = report(p).total
             /\ runs[p].progress.counts = report(p).probes
  <2>1. runs[p].progress = Counters(p, Len(catalog.probes)) /\ parse_coverage_catalog(catalog)
    BY <1>3, DoneHeardAll
  <2>2. Cardinality(CountedBy(p, Len(catalog.probes))) = total(p)
    BY <1>1, <2>1, CountedAreJudged
  <2>3. runs[p].progress.done = runs[p].progress.total
    BY <2>1, <2>2 DEF Counters
  <2> QED
    BY <1>3, <2>3, FinishedTallies
<1> QED
  BY <1>2, <1>3

(* The numbers a visitor watches climb on either page never overtake their *)
(* total, and are in the end those of the report, however many probes the  *)
(* catalog has and whatever the engine answers.                            *)
THEOREM CountersForetellCorrect == AuditSpec => []CountersForetell
BY AuditInvInit, AuditInvStep, InOrderForetells, PTL DEF AuditSpec

-------------------------------------------------------------------------------
(* What turns a row green or red.                                          *)
LEMMA AgreedWasHeard ==
  ASSUME NEW i, outcome(catalog.probes[i], answers[i]) # "Errored"
  PROVE  Heard(i)
BY DEF outcome, classify_probe, Heard

LEMMA MetWasHeard ==
  ASSUME NEW i, NEW status, judge_probe(catalog.probes[i], status) # "Undetermined"
  PROVE  /\ status = "Agreed"
         /\ judge_probe(catalog.probes[i], status) = "FallsShort" => catalog.probes[i].ideal # "none"
BY DEF judge_probe

(* The row verdicts on the left, and what the probes of the row gave.      *)
UnheardOf(r, verdict) ==
  LET probes_of == Named(catalog, catalog.rows[r]) IN
    /\ verdict \in {"Verified", "MeetsFullSpec"} => probes_of # {} /\ \A i \in probes_of : Heard(i)
    /\ verdict = "Contradicted" => \E i \in probes_of : Heard(i)
    /\ verdict = "FallsShort"
         => \E i \in probes_of : Heard(i) /\ catalog.probes[i].ideal # "none"

LEMMA CoverageUnheard ==
  ASSUME AuditInv, Done("coverage"), NEW r \in DOMAIN report("coverage").verdict
  PROVE  UnheardOf(r, report("coverage").verdict[r])
<1> DEFINE said == runs["coverage"].outcomes
           row == catalog.rows[r]
           probes_of == Named(catalog, row)
           given == {said[i] : i \in probes_of}
           verdict == report("coverage").verdict[r]
<1>1. /\ \A i \in DOMAIN catalog.probes : said[i] = outcome(catalog.probes[i], answers[i])
      /\ probes_of \subseteq DOMAIN catalog.probes
  <2>1. "coverage" \in Pages
    BY DEF Pages
  <2>2. probes_of \subseteq DOMAIN catalog.probes
    BY DEF Named, With
  <2> QED
    BY <2>1, <2>2, DoneHeardAll
<1>2. verdict = derive_verdict(row, given)
  BY DEF report, compile_coverage_report
<1>3. \A i \in probes_of : said[i] \in ProbeStatus /\ (said[i] # "Errored" => Heard(i))
  <2> TAKE i \in probes_of
  <2>1. said[i] = outcome(catalog.probes[i], answers[i])
    BY <1>1
  <2>2. outcome(catalog.probes[i], answers[i]) \in ProbeStatus
    BY DEF outcome, classify_probe, ProbeStatus
  <2> QED
    BY <2>1, <2>2, AgreedWasHeard
<1> HIDE DEF verdict, probes_of, said
<1>4. ASSUME verdict \in {"Verified", "MeetsFullSpec"}
      PROVE  probes_of # {} /\ \A i \in probes_of : Heard(i)
  <2>1. given # {} /\ "Errored" \notin given
    BY <1>2, <1>4 DEF derive_verdict
  <2>2. \A i \in probes_of : said[i] # "Errored"
    BY <2>1
  <2> QED
    BY <1>3, <2>1, <2>2
<1>5. ASSUME verdict = "Contradicted"
      PROVE  \E i \in probes_of : Heard(i)
  <2>1. "Disagreed" \in given
    BY <1>2, <1>5 DEF derive_verdict
  <2> QED
    BY <1>3, <2>1
<1>6. verdict # "FallsShort"
  BY <1>2 DEF derive_verdict
<1> QED
  BY <1>4, <1>5, <1>6 DEF UnheardOf, verdict, probes_of

LEMMA ComplianceUnheard ==
  ASSUME AuditInv, Done("full-compliance"), NEW r \in DOMAIN report("full-compliance").verdict
  PROVE  UnheardOf(r, report("full-compliance").verdict[r])
<1> DEFINE said == runs["full-compliance"].outcomes
           all == catalog.probes
           row == catalog.rows[r]
           probes_of == Named(catalog, row)
           judgment == [i \in DOMAIN all |-> judge_probe(all[i], said[i])]
           given == {judgment[i] : i \in probes_of}
           verdict == report("full-compliance").verdict[r]
<1>1. /\ \A i \in DOMAIN all : said[i] = outcome(all[i], answers[i])
      /\ probes_of \subseteq DOMAIN all
  <2>1. "full-compliance" \in Pages
    BY DEF Pages
  <2>2. probes_of \subseteq DOMAIN all
    BY DEF Named, With
  <2> QED
    BY <2>1, <2>2, DoneHeardAll
<1>2. verdict = derive_row_verdict(row, given)
  BY DEF report, compile_full_compliance_report
<1>3. \A i \in probes_of :
        /\ judgment[i] # "Undetermined" => Heard(i)
        /\ judgment[i] = "FallsShort" => Heard(i) /\ all[i].ideal # "none"
  <2> TAKE i \in probes_of
  <2>1. judgment[i] = judge_probe(all[i], said[i]) /\ said[i] = outcome(all[i], answers[i])
    BY <1>1
  <2> HIDE DEF judgment, said
  <2>2. said[i] = "Agreed" => Heard(i)
    BY <2>1, AgreedWasHeard
  <2> QED
    BY <2>1, <2>2, MetWasHeard
<1> HIDE DEF verdict, probes_of, judgment
<1>4. ASSUME verdict \in {"Verified", "MeetsFullSpec"}
      PROVE  probes_of # {} /\ \A i \in probes_of : Heard(i)
  <2>1. given # {} /\ "Undetermined" \notin given
    BY <1>2, <1>4 DEF derive_row_verdict
  <2>2. \A i \in probes_of : judgment[i] # "Undetermined"
    BY <2>1
  <2> QED
    BY <1>3, <2>1, <2>2
<1>5. verdict # "Contradicted"
  BY <1>2 DEF derive_row_verdict
<1>6. ASSUME verdict = "FallsShort"
      PROVE  \E i \in probes_of : Heard(i) /\ all[i].ideal # "none"
  <2>1. "FallsShort" \in given
    BY <1>2, <1>6 DEF derive_row_verdict
  <2> QED
    BY <1>3, <2>1
<1> QED
  BY <1>4, <1>5, <1>6 DEF UnheardOf, verdict, probes_of

LEMMA InOrderScoresHeard == AuditInv => UnheardNeverScores
<1> SUFFICES ASSUME AuditInv, NEW p \in Pages, Done(p), NEW r \in DOMAIN report(p).verdict
             PROVE  UnheardOf(r, report(p).verdict[r])
  BY DEF UnheardNeverScores, UnheardOf
<1>1. p = "coverage" \/ p = "full-compliance"
  BY DEF Pages
<1> QED
  BY <1>1, CoverageUnheard, ComplianceUnheard

(* A probe that trapped, or whose answer was no answer, turns no row of    *)
(* either page green or red, for any catalog and any engine.               *)
THEOREM UnheardNeverScoresCorrect == AuditSpec => []UnheardNeverScores
BY AuditInvInit, AuditInvStep, InOrderScoresHeard, PTL DEF AuditSpec
===============================================================================
