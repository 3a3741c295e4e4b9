---------------------------- MODULE CircuitBreaker ----------------------------
(***************************************************************************)
(* The circuit breaker of one device                                       *)
(* (src/src/reliability/circuit-breaker.ts) with its two kinds of callers: *)
(* the batch executor (src/src/simulator/batch.ts) and the Flutter VM      *)
(* service client (src/src/flutter/vm-service-client.ts).  Breakers of     *)
(* different devices share nothing.                                        *)
(*                                                                         *)
(* A caller asks isAvailable() before its operation and reports the        *)
(* outcome after it; operations overlap, so an outcome may be reported in  *)
(* another state of the breaker than the one that let the operation start. *)
(***************************************************************************)
EXTENDS Naturals, FiniteSets

CONSTANTS
  Ops,          \* operations in flight at a time; each may be made again
  Threshold,    \* failureThreshold
  Cooldown,     \* cooldownMs, in ticks of the model's clock
  MaxAttempts   \* halfOpenMaxAttempts

ASSUME BreakerConstants ==
  /\ IsFiniteSet(Ops)
  /\ Threshold \in Nat \ {0}
  /\ Cooldown \in Nat
  /\ MaxAttempts \in Nat \ {0}

VARIABLES
  state,         \* closed, open or half-open
  failureCount,  \* saturates at Threshold: it is only compared with it
  age,           \* ticks since lastFailureTime; saturates at Cooldown
  attempts,      \* halfOpenAttempts
  op             \* operation -> is it running, and did it start as a probe

vars == <<state, failureCount, age, attempts, op>>

-----------------------------------------------------------------------------
Init ==
  /\ state = "closed" /\ failureCount = 0 /\ age = Cooldown /\ attempts = 0
  /\ op = [o \in Ops |-> "idle"]

\* No running operation counts as a probe of the half-open episode any more.
Demoted(f) == [o \in Ops |-> IF f[o] = "probe" THEN "running" ELSE f[o]]

\* recordSuccess(), with f the operations afterwards: ignored while open.
RecordSuccess(f) ==
  \/ /\ state = "open"
     /\ op' = f
     /\ UNCHANGED <<state, failureCount, age, attempts>>
  \/ /\ state # "open"
     /\ state' = "closed" /\ failureCount' = 0 /\ attempts' = 0
     /\ op' = Demoted(f)
     /\ UNCHANGED age

\* failureCount after one more failure.
Counted(n) == IF n < Threshold THEN n + 1 ELSE n

\* recordFailure(): counted in every state, and every one restarts the cooldown.
RecordFailure(f) ==
  /\ failureCount' = Counted(failureCount)
  /\ age' = 0
  /\ \/ /\ state = "half-open"
        /\ state' = "open" /\ attempts' = 0
        /\ op' = Demoted(f)
     \/ /\ state # "half-open"
        /\ state' = IF Counted(failureCount) >= Threshold THEN "open" ELSE state
        /\ op' = f
        /\ UNCHANGED attempts

\* isAvailable() lets the caller through, as an ordinary call or as a probe.
AvailableClosed == state = "closed"
AvailableCooled == state = "open" /\ age >= Cooldown

AvailableProbe == state = "half-open" /\ attempts < MaxAttempts

\* The caller goes on with its operation, which starts.
BeginClosed(o) ==
  /\ op[o] = "idle" /\ AvailableClosed
  /\ op' = [op EXCEPT ![o] = "running"]
  /\ UNCHANGED <<state, failureCount, age, attempts>>

BeginCooled(o) ==
  /\ op[o] = "idle" /\ AvailableCooled
  /\ state' = "half-open" /\ attempts' = 1
  /\ op' = [op EXCEPT ![o] = "probe"]
  /\ UNCHANGED <<failureCount, age>>

BeginProbe(o) ==
  /\ op[o] = "idle" /\ AvailableProbe
  /\ attempts' = attempts + 1
  /\ op' = [op EXCEPT ![o] = "probe"]
  /\ UNCHANGED <<state, failureCount, age>>

\* The batch executor finds the device available but its WebKit client not
\* connected: a failure in the same turn, and no operation.
BeginUnconnected ==
  \/ /\ AvailableClosed \/ AvailableProbe
     /\ RecordFailure(op)
  \/ /\ AvailableCooled
     /\ failureCount' = Counted(failureCount)
     /\ age' = 0 /\ attempts' = 0
     /\ UNCHANGED <<state, op>>

Settled(o) == [op EXCEPT ![o] = "idle"]

Succeed(o) == op[o] # "idle" /\ RecordSuccess(Settled(o))
Fail(o)    == op[o] # "idle" /\ RecordFailure(Settled(o))

\* A crash report or a memory alarm opens the breaker whatever its counts say.
Trip ==
  /\ state' = "open" /\ age' = 0
  /\ op' = Demoted(op)
  /\ UNCHANGED <<failureCount, attempts>>

Reset ==
  /\ state' = "closed" /\ failureCount' = 0 /\ attempts' = 0
  /\ age' = Cooldown
  /\ op' = Demoted(op)

\* The clock.
Tick ==
  /\ age < Cooldown
  /\ age' = age + 1
  /\ UNCHANGED <<state, failureCount, attempts, op>>

Next ==
  \/ \E o \in Ops : \/ BeginClosed(o) \/ BeginCooled(o) \/ BeginProbe(o)
                    \/ Succeed(o) \/ Fail(o)
  \/ BeginUnconnected
  \/ Trip
  \/ Reset
  \/ Tick

Spec == Init /\ [][Next]_vars

-----------------------------------------------------------------------------
(* Properties *)

Probes == {o \in Ops : op[o] = "probe"}

\* The breaker's state keeps its shape.
TypeOK ==
  /\ state \in {"closed", "open", "half-open"}
  /\ failureCount \in 0..Threshold
  /\ age \in 0..Cooldown
  /\ attempts \in Nat
  /\ op \in [Ops -> {"idle", "running", "probe"}]

\* A closed breaker never holds a full count: no path into "closed", a stale
\* success included, leaves failures behind that would open it on the next one.
ClosedBelowThreshold == state = "closed" => failureCount < Threshold

\* In a half-open episode at most halfOpenMaxAttempts probes were let through,
\* counting only those of this episode (circuit-breaker.ts:73-90).
ProbesBounded ==
  /\ Cardinality(Probes) <= attempts
  /\ state = "half-open" => attempts \in 1..MaxAttempts

\* An open breaker stays open through its cooldown: no outcome of an operation
\* that began before it opened lets callers through again; only reset() does.
OpenThroughCooldown ==
  [][state = "open" /\ age < Cooldown => state' = "open" \/ Reset]_vars

\* A half-open breaker is decided: the probe it waits for is always under way.
HalfOpenIsDecided == state = "half-open" ~> state # "half-open"

=============================================================================
