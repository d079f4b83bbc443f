------------------------------ MODULE HistoryHost -----------------------------
(***************************************************************************)
(* The release-history host: it replays the probes of a catalog, one round *)
(* trip each, against one engine.wasm instance it keeps alive.  A round    *)
(* trip allocates a request buffer in the guest, writes it, calls          *)
(* evaluate, which allocates the response, reads that and frees both.      *)
(*                                                                         *)
(* The guest is a historical binary nobody vouches for: it may answer,     *)
(* trap in any call, run until its fuel is spent, or hand out pointers and *)
(* bytes the host cannot use.  Guest memory does not run out.              *)
(***************************************************************************)
EXTENDS Naturals

CONSTANTS
  Probes,         \* the number of probes in the catalog
  FUEL_PER_CALL   \* what one round trip may spend, in blocks of guest code

ASSUME HostAssumption == Probes \in Nat /\ FUEL_PER_CALL \in Nat /\ FUEL_PER_CALL >= 4

VARIABLES
  conduct,        \* what the guest makes of each probe
  probe,          \* the probe under way, or the next one
  at,             \* where the round trip stands
  fuel,
  live,           \* guest buffers allocated and not freed
  readable,       \* the response could be read and is UTF-8
  outcomes        \* of each probe, once it has one

hostVars == <<conduct, probe, at, fuel, live, readable, outcomes>>

Conduct == {"sound", "panics", "runaway", "misreports"}
Request(p) == [probe |-> p, holds |-> "request"]
Response(p) == [probe |-> p, holds |-> "response"]
Buffer == [probe : 1..Probes, holds : {"request", "response"}]

HostTypeOK ==
  /\ conduct \in [1..Probes -> Conduct]
  /\ probe \in 1..(Probes + 1)
  /\ at \in {"idle", "alloc", "write", "evaluate", "handBack", "read",
             "freeRequest", "freeResponse"}
  /\ fuel \in 0..FUEL_PER_CALL
  /\ live \subseteq Buffer
  /\ readable \in BOOLEAN
  /\ outcomes \in [1..(probe - 1) -> {"ok", "err"}]

HostInit ==
  /\ conduct \in [1..Probes -> Conduct]
  /\ probe = 1
  /\ at = "idle"
  /\ fuel = 0
  /\ live = {}
  /\ readable = TRUE
  /\ outcomes = <<>>

(* The guest gets through the next call, or stops in it: of its own accord *)
(* or because the next block costs more than the fuel left.                *)
Spend == fuel >= 1 /\ fuel' = fuel - 1
MayTrap ==
  \/ conduct[probe] = "panics"
  \/ conduct[probe] = "runaway" /\ fuel < 2
  \/ fuel = 0

(* The round trip ends, and the replay records it and moves on.            *)
Answer(outcome) ==
  /\ outcomes' = [p \in 1..probe |-> IF p = probe THEN outcome ELSE outcomes[p]]
  /\ probe' = probe + 1
  /\ at' = "idle"

(* A slip: the budget is set once, for the instance. *)
Begin_SharedFuel ==
  /\ at = "idle" /\ probe <= Probes
  /\ fuel' = IF probe = 1 THEN FUEL_PER_CALL ELSE fuel
  /\ at' = "alloc"
  /\ readable' = TRUE
  /\ UNCHANGED <<conduct, probe, live, outcomes>>

Begin ==
  /\ at = "idle" /\ probe <= Probes
  /\ fuel' = FUEL_PER_CALL
  /\ at' = "alloc"
  /\ readable' = TRUE
  /\ UNCHANGED <<conduct, probe, live, outcomes>>

Alloc ==
  /\ at = "alloc"
  /\ \/ Spend /\ live' = live \cup {Request(probe)} /\ at' = "write"
        /\ UNCHANGED <<probe, outcomes>>
     \/ MayTrap /\ Answer("err") /\ UNCHANGED <<fuel, live>>
  /\ UNCHANGED <<conduct, readable>>

(* A pointer outside guest memory ends the round trip where it stands.     *)
Write ==
  /\ at = "write"
  /\ \/ at' = "evaluate" /\ UNCHANGED <<probe, outcomes>>
     \/ conduct[probe] = "misreports" /\ Answer("err")
  /\ UNCHANGED <<conduct, fuel, live, readable>>

(* One more block of an evaluation that never returns. *)
RunOn ==
  /\ at = "evaluate" /\ conduct[probe] = "runaway"
  /\ \E cost \in {1, 2} : cost <= fuel /\ fuel' = fuel - cost
  /\ UNCHANGED <<conduct, probe, at, live, readable, outcomes>>

Return ==
  /\ at = "evaluate" /\ conduct[probe] # "runaway"
  /\ Spend
  /\ live' = live \cup {Response(probe)}
  /\ at' = "read"
  /\ UNCHANGED <<conduct, probe, readable, outcomes>>

(* A trap may come after the guest has allocated the response. *)
Trap ==
  /\ at = "evaluate" /\ MayTrap
  /\ live' \in {live, live \cup {Response(probe)}}
  /\ at' = "handBack"
  /\ UNCHANGED <<conduct, probe, fuel, readable, outcomes>>

(* The result of this dealloc is dropped: it may trap in turn. *)
HandBack ==
  /\ at = "handBack"
  /\ \/ Spend /\ live' = live \ {Request(probe)}
     \/ MayTrap /\ UNCHANGED <<fuel, live>>
  /\ Answer("err")
  /\ UNCHANGED <<conduct, readable>>

(* A slip: an unreadable response ends the round trip at once. *)
Read_Early ==
  /\ at = "read"
  /\ \/ at' = "freeRequest" /\ UNCHANGED <<probe, outcomes>>
     \/ conduct[probe] = "misreports" /\ Answer("err")
  /\ UNCHANGED <<conduct, fuel, live, readable>>

(* A failed read is kept until both buffers are free. *)
Read ==
  /\ at = "read"
  /\ readable' \in {TRUE, conduct[probe] # "misreports"}
  /\ at' = "freeRequest"
  /\ UNCHANGED <<conduct, probe, fuel, live, outcomes>>

FreeRequest ==
  /\ at = "freeRequest"
  /\ \/ Spend /\ live' = live \ {Request(probe)} /\ at' = "freeResponse"
        /\ UNCHANGED <<probe, outcomes>>
     \/ MayTrap /\ Answer("err") /\ UNCHANGED <<fuel, live>>
  /\ UNCHANGED <<conduct, readable>>

FreeResponse ==
  /\ at = "freeResponse"
  /\ \/ Spend /\ live' = live \ {Response(probe)} /\ Answer(IF readable THEN "ok" ELSE "err")
     \/ MayTrap /\ Answer("err") /\ UNCHANGED <<fuel, live>>
  /\ UNCHANGED <<conduct, readable>>

(* The whole catalog is replayed. *)
Replayed == at = "idle" /\ probe > Probes /\ UNCHANGED hostVars

HostNext ==
  \/ Begin \/ Alloc \/ Write \/ RunOn \/ Return \/ Trap \/ HandBack
  \/ Read \/ FreeRequest \/ FreeResponse \/ Replayed

(* A sequential program: it takes its next step if it has one. *)
HostSpec == HostInit /\ [][HostNext]_hostVars /\ WF_hostVars(HostNext)

-------------------------------------------------------------------------------
(* A probe the guest handles soundly is answered, whatever the probes      *)
(* before it did to the instance: a failure is recorded against its own    *)
(* probe only.                                                             *)
FailureIsContained ==
  \A p \in 1..(probe - 1) : conduct[p] = "sound" => outcomes[p] = "ok"

(* Nothing leaks from a round trip that ran to its end, an unreadable      *)
(* response included; what leaks was left by a trap or by a pointer the    *)
(* host could not write to.                                                *)
OnlyFailuresLeak ==
  \A b \in live : b.probe < probe =>
    /\ outcomes[b.probe] = "err"
    /\ b.holds = "response" => conduct[b.probe] \in {"panics", "runaway"}
    /\ conduct[b.probe] # "sound"

(* Each dealloc frees a buffer that is still allocated, the request before *)
(* the response.                                                           *)
FreesWhatItOwns ==
  /\ at \in {"handBack", "freeRequest"} => Request(probe) \in live
  /\ at \in {"freeRequest", "freeResponse"} => Response(probe) \in live

===============================================================================
