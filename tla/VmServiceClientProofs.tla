------------------------ MODULE VmServiceClientProofs ------------------------
(***************************************************************************)
(* Proofs about CircuitBreaker for any operations, threshold, cooldown and *)
(* number of attempts; and about VmServiceClient for any callers, runs of  *)
(* attemptReconnect, sockets and attempts: that it uses its breaker as     *)
(* CircuitBreaker says, and that no request and no session is left to      *)
(* itself.                                                                 *)
(***************************************************************************)
EXTENDS VmServiceClient, FiniteSetTheorems, TLAPS

-----------------------------------------------------------------------------
(* The circuit breaker. *)

\* A failure count stays below the threshold or reaches it.
LEMMA CountedType == \A n \in 0..Threshold : Counted(n) \in 0..Threshold
BY BreakerConstants DEF Counted

\* Demoted operations are none but idle or running.
LEMMA DemotedType ==
  ASSUME NEW f \in [Ops -> {"idle", "running", "probe"}]
  PROVE  /\ Demoted(f) \in [Ops -> {"idle", "running"}]
         /\ Demoted(f) \in [Ops -> {"idle", "running", "probe"}]
BY DEF Demoted

\* Settling an operation keeps the types.
LEMMA SettledType ==
  ASSUME TypeOK, NEW o \in Ops
  PROVE  Settled(o) \in [Ops -> {"idle", "running", "probe"}]
BY DEF TypeOK, Settled

\* What a failure makes of the breaker has its type.
LEMMA FailureType ==
  ASSUME TypeOK, NEW f \in [Ops -> {"idle", "running", "probe"}], RecordFailure(f)
  PROVE  TypeOK'
BY BreakerConstants, CountedType, DemotedType DEF TypeOK, RecordFailure

\* Every step of the breaker keeps its types.
LEMMA StepType == TypeOK /\ [Next]_vars => TypeOK'
<1> SUFFICES ASSUME TypeOK, [Next]_vars PROVE TypeOK'
  OBVIOUS
<1>1. ASSUME NEW o \in Ops, BeginClosed(o) \/ BeginCooled(o) \/ BeginProbe(o)
      PROVE  TypeOK'
  BY <1>1 DEF BeginClosed, BeginCooled, BeginProbe, TypeOK
<1>2. ASSUME NEW o \in Ops, Succeed(o) PROVE TypeOK'
  BY <1>2, SettledType, DemotedType, BreakerConstants DEF Succeed, RecordSuccess, TypeOK
<1>3. ASSUME NEW o \in Ops, Fail(o) PROVE TypeOK'
  BY <1>3, SettledType, FailureType DEF Fail
<1>4. CASE BeginUnconnected
  <2>1. op \in [Ops -> {"idle", "running", "probe"}]
    BY DEF TypeOK
  <2>2. CASE RecordFailure(op)
    BY <2>1, <2>2, FailureType
  <2>3. CASE /\ failureCount' = Counted(failureCount)
             /\ age' = 0 /\ attempts' = 0
             /\ UNCHANGED <<state, op>>
    BY <2>3, CountedType, BreakerConstants DEF TypeOK
  <2> QED BY <1>4, <2>2, <2>3 DEF BeginUnconnected
<1>5. CASE Trip \/ Reset
  BY <1>5, DemotedType, BreakerConstants DEF Trip, Reset, TypeOK
<1>6. CASE Tick
  BY <1>6, BreakerConstants DEF Tick, TypeOK
<1>7. CASE UNCHANGED vars
  BY <1>7 DEF vars, TypeOK
<1> QED BY <1>1, <1>2, <1>3, <1>4, <1>5, <1>6, <1>7 DEF Next

\* It starts with them.
LEMMA InitType == Init => TypeOK
BY BreakerConstants DEF Init, TypeOK

\* The breaker's state keeps its shape.
THEOREM TypeCorrect == Spec => []TypeOK
BY InitType, StepType, PTL DEF Spec

\* No path into "closed" leaves a full count behind.
THEOREM ClosedIsBelow == Spec => []ClosedBelowThreshold
<1>1. Init => ClosedBelowThreshold
  BY BreakerConstants DEF Init, ClosedBelowThreshold
<1>2. ASSUME TypeOK, ClosedBelowThreshold, [Next]_vars PROVE ClosedBelowThreshold'
  <2>1. ASSUME NEW f, RecordFailure(f) PROVE ClosedBelowThreshold'
    BY <1>2, <2>1, BreakerConstants, CountedType
       DEF RecordFailure, ClosedBelowThreshold, TypeOK
  <2>2. ASSUME NEW o \in Ops, Fail(o) PROVE ClosedBelowThreshold'
    BY <2>1, <2>2 DEF Fail
  <2>3. CASE BeginUnconnected
    BY <2>1, <2>3 DEF BeginUnconnected, ClosedBelowThreshold, AvailableCooled
  <2>4. ASSUME NEW o \in Ops,
               BeginClosed(o) \/ BeginCooled(o) \/ BeginProbe(o) \/ Succeed(o)
        PROVE  ClosedBelowThreshold'
    BY <1>2, <2>4, BreakerConstants
       DEF BeginClosed, BeginCooled, BeginProbe, Succeed, RecordSuccess,
           ClosedBelowThreshold
  <2>5. CASE Trip \/ Reset \/ Tick \/ UNCHANGED vars
    BY <1>2, <2>5, BreakerConstants DEF Trip, Reset, Tick, vars, ClosedBelowThreshold
  <2> QED BY <1>2, <2>2, <2>3, <2>4, <2>5 DEF Next
<1> QED BY <1>1, <1>2, TypeCorrect, PTL DEF Spec

\* Nothing but reset() takes an open breaker out of its cooldown.
THEOREM CooldownIsKept == Spec => OpenThroughCooldown
<1>1. ASSUME TypeOK, [Next]_vars, state = "open", age < Cooldown
      PROVE  state' = "open" \/ Reset
  <2>1. ~ AvailableClosed /\ ~ AvailableCooled /\ ~ AvailableProbe
    BY <1>1, BreakerConstants DEF AvailableClosed, AvailableCooled, AvailableProbe, TypeOK
  <2>2. ASSUME NEW o \in Ops, Succeed(o) \/ Fail(o) PROVE state' = "open"
    BY <1>1, <2>2 DEF Succeed, Fail, RecordSuccess, RecordFailure
  <2> QED
    BY <1>1, <2>1, <2>2
       DEF Next, BeginClosed, BeginCooled, BeginProbe, BeginUnconnected, Trip, Tick, vars
<1>2. TypeOK /\ [Next]_vars
        => [state = "open" /\ age < Cooldown => state' = "open" \/ Reset]_vars
  BY <1>1
<1> QED BY <1>2, TypeCorrect, PTL DEF Spec, OpenThroughCooldown

-----------------------------------------------------------------------------
(* Probes. *)

\* Probes exist only while the breaker is half-open; that is what ties them to
\* the episode the attempts are counted for.
ProbeInv ==
  /\ ProbesBounded
  /\ state # "half-open" => Probes = {}

\* No probes are at most as many as the attempts there were.
LEMMA NoProbes ==
  ASSUME Probes = {}, attempts \in Nat
  PROVE  Cardinality(Probes) <= attempts
BY FS_EmptySet

\* What is among at most n is at most n.
LEMMA FewerProbes ==
  ASSUME NEW S, NEW T, IsFiniteSet(S), T \subseteq S, NEW n \in Nat, Cardinality(S) <= n
  PROVE  Cardinality(T) <= n
<1>1. IsFiniteSet(T) /\ Cardinality(T) <= Cardinality(S)
  BY FS_Subset
<1>2. Cardinality(S) \in Nat /\ Cardinality(T) \in Nat
  BY <1>1, FS_CardinalityType
<1> QED BY <1>1, <1>2

\* The probes can be counted.
LEMMA ProbesFinite == IsFiniteSet(Probes)
BY BreakerConstants, FS_Subset DEF Probes

\* When the running ones are demoted there is no probe.
LEMMA DemotedNoProbe ==
  ASSUME NEW f \in [Ops -> {"idle", "running", "probe"}], op' = Demoted(f)
  PROVE  Probes' = {}
BY DEF Demoted, Probes

\* Settling an operation makes no probe.
LEMMA SettledProbes ==
  ASSUME TypeOK, NEW o \in Ops, op' = Settled(o)
  PROVE  Probes' \subseteq Probes
BY DEF TypeOK, Settled, Probes

\* A step that leaves no probe behind keeps the invariant, whatever it counts.
LEMMA NoProbesInv ==
  ASSUME TypeOK', Probes' = {}, state' = "half-open" => attempts' \in 1..MaxAttempts
  PROVE  ProbeInv'
<1>1. Cardinality(Probes') <= attempts'
  BY NoProbes, FS_EmptySet DEF TypeOK
<1> QED BY <1>1 DEF ProbeInv, ProbesBounded

\* Every step keeps the count of the probes.
LEMMA ProbeStep == TypeOK /\ TypeOK' /\ ProbeInv /\ [Next]_vars => ProbeInv'
<1> SUFFICES ASSUME TypeOK, TypeOK', ProbeInv, [Next]_vars PROVE ProbeInv'
  OBVIOUS
<1>1. ASSUME NEW o \in Ops, BeginClosed(o) PROVE ProbeInv'
  <2>1. Probes = {} /\ state' = "closed"
    BY <1>1 DEF BeginClosed, AvailableClosed, ProbeInv
  <2>2. Probes' = {}
    BY <1>1, <2>1 DEF BeginClosed, Probes, TypeOK
  <2> QED BY <2>1, <2>2, NoProbesInv
<1>2. ASSUME NEW o \in Ops, BeginCooled(o) PROVE ProbeInv'
  <2>1. Probes = {}
    BY <1>2 DEF BeginCooled, AvailableCooled, ProbeInv
  <2>2. Probes' = {o}
    BY <1>2, <2>1 DEF BeginCooled, Probes, TypeOK
  <2>3. Cardinality(Probes') = 1
    BY <2>2, FS_Singleton
  <2> QED BY <1>2, <2>3, BreakerConstants DEF BeginCooled, ProbeInv, ProbesBounded
<1>3. ASSUME NEW o \in Ops, BeginProbe(o) PROVE ProbeInv'
  <2>1. Probes' = Probes \cup {o} /\ o \notin Probes
    BY <1>3 DEF BeginProbe, Probes, TypeOK
  <2>2. Cardinality(Probes') = Cardinality(Probes) + 1
    BY <2>1, ProbesFinite, FS_AddElement
  <2>3. Cardinality(Probes) \in Nat
    BY ProbesFinite, FS_CardinalityType
  <2> QED BY <1>3, <2>2, <2>3, BreakerConstants
          DEF BeginProbe, AvailableProbe, ProbeInv, ProbesBounded, TypeOK
<1>4. ASSUME NEW f \in [Ops -> {"idle", "running", "probe"}],
             {o \in Ops : f[o] = "probe"} \subseteq Probes, RecordFailure(f)
      PROVE  ProbeInv'
  <2>1. CASE state = "half-open"
    BY <1>4, <2>1, DemotedNoProbe, NoProbesInv DEF RecordFailure
  <2>2. CASE state # "half-open"
    <3>1. Probes' = {} /\ state' # "half-open"
      BY <1>4, <2>2 DEF RecordFailure, ProbeInv, Probes
    <3> QED BY <3>1, NoProbesInv
  <2> QED BY <2>1, <2>2
<1>5. ASSUME NEW o \in Ops, Fail(o) PROVE ProbeInv'
  <2>1. {p \in Ops : Settled(o)[p] = "probe"} \subseteq Probes
    BY DEF TypeOK, Settled, Probes
  <2> QED BY <1>4, <1>5, <2>1, SettledType DEF Fail
<1>6. ASSUME NEW o \in Ops, Succeed(o) PROVE ProbeInv'
  <2>1. CASE state = "open"
    <3>1. Probes = {} /\ op' = Settled(o) /\ state' = "open"
      BY <1>6, <2>1 DEF Succeed, RecordSuccess, ProbeInv
    <3> QED BY <3>1, SettledProbes, NoProbesInv
  <2>2. CASE state # "open"
    <3>1. op' = Demoted(Settled(o)) /\ state' = "closed"
      BY <1>6, <2>2 DEF Succeed, RecordSuccess
    <3> QED BY <3>1, SettledType, DemotedNoProbe, NoProbesInv
  <2> QED BY <2>1, <2>2
<1>7. CASE BeginUnconnected
  <2>1. op \in [Ops -> {"idle", "running", "probe"}]
    BY DEF TypeOK
  <2>2. CASE RecordFailure(op)
    BY <1>4, <2>1, <2>2 DEF Probes
  <2>3. CASE AvailableCooled /\ UNCHANGED <<state, op>>
    <3>1. Probes' = {} /\ state' = "open"
      BY <2>3 DEF AvailableCooled, ProbeInv, Probes
    <3> QED BY <3>1, NoProbesInv
  <2> QED BY <1>7, <2>2, <2>3 DEF BeginUnconnected
<1>8. CASE Trip \/ Reset
  <2>1. op \in [Ops -> {"idle", "running", "probe"}] /\ op' = Demoted(op)
    BY <1>8 DEF TypeOK, Trip, Reset
  <2>2. state' # "half-open"
    BY <1>8 DEF Trip, Reset
  <2> QED BY <2>1, <2>2, DemotedNoProbe, NoProbesInv
<1>9. CASE Tick \/ UNCHANGED vars
  BY <1>9 DEF Tick, vars, ProbeInv, ProbesBounded, Probes
<1> QED BY <1>1, <1>2, <1>3, <1>5, <1>6, <1>7, <1>8, <1>9 DEF Next

\* No half-open episode lets more probes through than halfOpenMaxAttempts.
THEOREM ProbesAreBounded == Spec => []ProbesBounded
<1>1. Init => ProbeInv
  <2>1. ASSUME Init PROVE Probes = {}
    BY <2>1 DEF Init, Probes
  <2> QED BY <2>1, FS_EmptySet DEF Init, ProbeInv, ProbesBounded
<1>2. ProbeInv => ProbesBounded
  BY DEF ProbeInv
<1> QED BY <1>1, <1>2, ProbeStep, TypeCorrect, PTL DEF Spec

-----------------------------------------------------------------------------
(* The client and its breaker. *)

\* What a request's outcome does to the breaker, CircuitBreaker allows.
LEMMA ReportStep ==
  ASSUME NEW j \in Ops, NEW outcome, Report(j, outcome)
  PROVE  [Next]_vars
BY DEF Report, Next, breakerVars

\* A request of the client is a call of the breaker,
LEMMA SendStep ==
  ASSUME NEW j \in Ops, NEW place, Send(j, place)
  PROVE  [Next]_vars
BY DEF Send, Next, breakerVars

\* its failure a failure,
LEMMA FailsStep ==
  ASSUME NEW q \in Requests, Fails(q)
  PROVE  [Next]_vars
<1>1. CASE q = Beat /\ BeatFails
  BY <1>1 DEF BeatFails, breakerVars
<1>2. CASE q \in Ops /\ (CallSettles(q, "failed") \/ NoVM(q))
  BY <1>2, ReportStep DEF CallSettles, NoVM
<1>3. CASE q \in Ops /\ Listened(q)
  BY <1>3 DEF Listened, breakerVars
<1> QED BY <1>1, <1>2, <1>3 DEF Fails

\* and its answer a success.
LEMMA SucceedsStep ==
  ASSUME NEW q \in Requests, Succeeds(q)
  PROVE  [Next]_vars
<1>1. CASE q = Beat /\ UNCHANGED breakerVars
  BY <1>1 DEF breakerVars
<1>2. CASE q \in Ops /\ (CallSettles(q, "ok") \/ GotVM(q))
  BY <1>2, ReportStep DEF CallSettles, GotVM
<1>3. CASE q \in Ops /\ Listened(q)
  BY <1>3 DEF Listened, breakerVars
<1> QED BY <1>1, <1>2, <1>3 DEF Succeeds

\* Every step of the client is a step of the breaker, or leaves it alone.
LEMMA BreakerStep == [ClientNext]_allVars => [Next]_vars
<1> SUFFICES ASSUME [ClientNext]_allVars PROVE [Next]_vars
  OBVIOUS
<1>1. CASE UNCHANGED allVars
  BY <1>1 DEF allVars, breakerVars
<1>2. ASSUME NEW u \in Users, Connect(u) \/ Call(u)  PROVE [Next]_vars
  BY <1>2, SendStep, ClientConstants DEF Connect, Call, breakerVars
<1>3. ASSUME NEW l \in Loops, Wake(l)  PROVE [Next]_vars
  BY <1>3 DEF Wake, breakerVars
<1>4. ASSUME NEW j \in Ops, JobStep(j)  PROVE [Next]_vars
  BY <1>4, SendStep DEF JobStep, Discover, DialTimeOut, NotOpened, GetVM, breakerVars
<1>5. ASSUME NEW q \in Requests, Answer(q) \/ TimeOut(q) \/ Resume(q)  PROVE [Next]_vars
  BY <1>5, SucceedsStep, FailsStep DEF Answer, TimeOut, Resume
<1>6. ASSUME NEW s \in Sockets, Open(s) \/ Close(s)  PROVE [Next]_vars
  BY <1>6 DEF Open, Close, breakerVars
<1>7. CASE Heartbeat \/ Disconnect
  BY <1>7 DEF Heartbeat, Disconnect, breakerVars
<1>8. CASE Crash \/ Recovered \/ Time
  BY <1>8 DEF Crash, Recovered, Time, Next
<1> QED BY <1>1, <1>2, <1>3, <1>4, <1>5, <1>6, <1>7, <1>8 DEF ClientNext

\* So the breaker under the client is CircuitBreaker's, whose calls the client's actions
\* make (vm-service-client.ts:299-345).
LEMMA BreakerRuns == ClientSpec => Spec
<1>1. ClientInit => Init
  BY DEF ClientInit
<1> QED BY <1>1, BreakerStep, PTL DEF ClientSpec, Spec

\* So what is proved of the breaker holds under the client: a half-open episode lets no
\* more probes through than it may.
THEOREM ClientProbesBounded == ClientSpec => []ProbesBounded
BY BreakerRuns, ProbesAreBounded, PTL

\* ... and only the crash watcher's reset() ends a cooldown early.
THEOREM ClientCooldownKept == ClientSpec => OpenThroughCooldown
BY BreakerRuns, CooldownIsKept, PTL

-----------------------------------------------------------------------------
(* Types. *)

JobType == [at : Places, socket : 0..MaxSockets, try : 0..ReconnectAttempts]
JobsType == [Ops -> JobType]
SocksType == [Sockets -> {"new", "opening", "open", "closing", "gone"}]
RepliesType == [Requests -> {"idle", "waiting", "failed"}]

\* The client's own part of ClientTypeOK.
FieldsOK ==
  /\ sock \in SocksType
  /\ ws \in 0..MaxSockets
  /\ session \in {"none", "up", "down"}
  /\ wantOpen \in BOOLEAN /\ reconnecting \in BOOLEAN /\ beating \in BOOLEAN
  /\ reply \in RepliesType
  /\ job \in JobsType

\* A job that idles is a job.
LEMMA IdleType == Idle \in JobType
BY ClientConstants DEF Idle, JobType, Places

\* A job whose label changes is a job.
LEMMA ExceptJob ==
  ASSUME NEW f \in JobsType, NEW j \in Ops, NEW r \in JobType
  PROVE  [f EXCEPT ![j] = r] \in JobsType
BY DEF JobsType

\* A job that goes on is one.
LEMMA AtType ==
  ASSUME FieldsOK, NEW j \in Ops, NEW place \in Places
  PROVE  At(j, place) \in JobsType
<1>1. job[j].try \in 0..ReconnectAttempts
  BY DEF FieldsOK, JobsType, JobType
<1>2. [at |-> place, socket |-> 0, try |-> job[j].try] \in JobType
  BY <1>1, ClientConstants DEF JobType
<1> QED BY <1>2, ExceptJob DEF At, FieldsOK

\* A job that dialled is one.
LEMMA DialledType ==
  ASSUME FieldsOK, NEW s, NEW place \in Places
  PROVE  Dialled(s, place) \in JobsType
<1>1. ASSUME NEW j \in Ops
      PROVE  /\ job[j] \in JobType
             /\ [at |-> place, socket |-> 0, try |-> job[j].try] \in JobType
  <2>1. job[j] \in JobType
    BY DEF FieldsOK, JobsType
  <2> QED BY <2>1, ClientConstants DEF JobType
<1> QED BY <1>1 DEF Dialled, JobsType

\* An answer has its type.
LEMMA ReplyType ==
  ASSUME FieldsOK, NEW q \in Requests
  PROVE  /\ Dropped(q) \in RepliesType
         /\ [reply EXCEPT ![q] = "waiting"] \in RepliesType
BY DEF FieldsOK, RepliesType, Dropped

\* So have the requests a closed socket rejects.
LEMMA RejectedType == FieldsOK => Rejected \in RepliesType
BY DEF FieldsOK, RepliesType, Rejected

\* So has a socket that hangs.
LEMMA HungType == FieldsOK => Hung \in SocksType
BY DEF FieldsOK, SocksType, Hung, Sockets

\* Callers' operations and the heartbeat's are requests.
LEMMA OpsAreRequests == Ops \subseteq Requests /\ Beat \in Requests
BY DEF Requests

\* What a reconnect makes of the client has its type.
LEMMA ReconnectType ==
  ASSUME FieldsOK, NEW jobs \in JobsType, AttemptReconnect(jobs)
  PROVE  job' \in JobsType /\ reconnecting' \in BOOLEAN /\ beating' \in BOOLEAN
<1>1. CASE job' = jobs /\ UNCHANGED <<reconnecting, beating>>
  BY <1>1 DEF FieldsOK
<1>2. CASE /\ reconnecting' = TRUE /\ beating' = FALSE
           /\ \E l \in Loops :
                job' = [jobs EXCEPT ![l] = [at |-> "sleep", socket |-> 0, try |-> 1]]
  <2>1. [at |-> "sleep", socket |-> 0, try |-> 1] \in JobType
    BY ClientConstants DEF JobType, Places
  <2>2. Loops \subseteq Ops
    BY ClientConstants
  <2>3. PICK l \in Loops :
          job' = [jobs EXCEPT ![l] = [at |-> "sleep", socket |-> 0, try |-> 1]]
    BY <1>2
  <2> QED BY <1>2, <2>1, <2>2, <2>3, ExceptJob
<1> QED BY <1>1, <1>2 DEF AttemptReconnect

\* So has what a failed request makes of it,
LEMMA FailsType ==
  ASSUME FieldsOK, NEW j \in Ops, ConnectFails(j)
  PROVE  job' \in JobsType /\ reconnecting' \in BOOLEAN
<1>1. CASE job' = [job EXCEPT ![j] = Idle]
  BY <1>1, IdleType, ExceptJob DEF ConnectFails, FieldsOK
<1>2. CASE /\ job[j].try < ReconnectAttempts
           /\ job' = [job EXCEPT ![j] =
                        [at |-> "sleep", socket |-> 0, try |-> job[j].try + 1]]
           /\ UNCHANGED reconnecting
  <2>1. job[j].try \in 0..ReconnectAttempts
    BY DEF FieldsOK, JobsType, JobType
  <2>2. [at |-> "sleep", socket |-> 0, try |-> job[j].try + 1] \in JobType
    BY <1>2, <2>1, ClientConstants DEF JobType, Places
  <2> QED BY <1>2, <2>2, ExceptJob DEF FieldsOK
<1> QED BY <1>1, <1>2 DEF ConnectFails

\* and a connect that ends.
LEMMA EndsType ==
  ASSUME FieldsOK, NEW j \in Ops, ConnectEnds(j)
  PROVE  job' \in JobsType /\ reconnecting' \in BOOLEAN /\ beating' \in BOOLEAN
BY IdleType, ExceptJob DEF ConnectEnds, FieldsOK

\* A subscription keeps the types,
LEMMA ListenType ==
  ASSUME FieldsOK, NEW j \in Ops, Listen(j)
  PROVE  /\ reply' \in RepliesType /\ job' \in JobsType
         /\ reconnecting' \in BOOLEAN /\ beating' \in BOOLEAN
<1>1. j \in Requests
  BY OpsAreRequests
<1>2. At(j, "listen") \in JobsType
  BY AtType DEF Places
<1>3. CASE job' = At(j, "listen") /\ UNCHANGED <<reconnecting, beating>>
             /\ reply' = [reply EXCEPT ![j] = "waiting"]
  BY <1>1, <1>2, <1>3, ReplyType DEF FieldsOK
<1>4. CASE reply' = Dropped(j) /\ ConnectEnds(j)
  BY <1>1, <1>4, ReplyType, EndsType
<1> QED BY <1>3, <1>4 DEF Listen

\* and so does its answer.
LEMMA ListenedType ==
  ASSUME FieldsOK, NEW j \in Ops, Listened(j)
  PROVE  FieldsOK'
<1>1. j \in Requests /\ At(j, "replay") \in JobsType
  BY OpsAreRequests, AtType DEF Places
<1>2. CASE job' = At(j, "replay") /\ UNCHANGED <<reconnecting, beating>>
             /\ reply' = [reply EXCEPT ![j] = "waiting"]
             /\ UNCHANGED <<sock, ws, session, wantOpen>>
  BY <1>1, <1>2, ReplyType DEF FieldsOK
<1>3. CASE reply' = Dropped(j) /\ ConnectEnds(j) /\ UNCHANGED <<sock, ws, session, wantOpen>>
  BY <1>1, <1>3, ReplyType, EndsType DEF FieldsOK
<1> QED BY <1>2, <1>3 DEF Listened

\* A caller that is answered keeps them.
LEMMA CallSettlesType ==
  ASSUME FieldsOK, NEW j \in Ops, NEW outcome, CallSettles(j, outcome)
  PROVE  FieldsOK'
<1>1. Dropped(j) \in RepliesType /\ [job EXCEPT ![j] = Idle] \in JobsType
  BY OpsAreRequests, ReplyType, IdleType, ExceptJob DEF FieldsOK
<1> QED BY <1>1 DEF CallSettles, FieldsOK

\* A client without a VM has its types.
LEMMA NoVMType ==
  ASSUME FieldsOK, NEW j \in Ops, NoVM(j)
  PROVE  FieldsOK'
<1>1. Dropped(j) \in RepliesType
  BY OpsAreRequests, ReplyType
<1>2. ConnectFails(j) /\ reply' = Dropped(j)
        /\ UNCHANGED <<sock, ws, session, wantOpen, beating>>
  BY DEF NoVM
<1> QED BY <1>1, <1>2, FailsType DEF FieldsOK

\* A heartbeat that fails keeps them.
LEMMA BeatFailsType ==
  ASSUME FieldsOK, BeatFails
  PROVE  FieldsOK'
<1>1. Dropped(Beat) \in RepliesType /\ job \in JobsType
  BY OpsAreRequests, ReplyType DEF FieldsOK
<1>2. reply' = Dropped(Beat) /\ UNCHANGED <<ws, session, wantOpen>>
  BY DEF BeatFails
<1>3. CASE sock' = Hung /\ AttemptReconnect(job)
  BY <1>1, <1>2, <1>3, HungType, ReconnectType DEF FieldsOK
<1>4. CASE UNCHANGED <<sock, reconnecting, beating, job>>
  BY <1>1, <1>2, <1>4 DEF FieldsOK
<1> QED BY <1>3, <1>4 DEF BeatFails

\* So does a request that fails,
LEMMA RequestFailsType ==
  ASSUME FieldsOK, NEW q \in Requests, Fails(q)
  PROVE  FieldsOK'
BY BeatFailsType, CallSettlesType, NoVMType, ListenedType DEF Fails

\* one that succeeds,
LEMMA RequestSucceedsType ==
  ASSUME FieldsOK, NEW q \in Requests, Succeeds(q)
  PROVE  FieldsOK'
<1>1. CASE reply' = Dropped(Beat)
             /\ UNCHANGED <<sock, ws, session, wantOpen, reconnecting, beating, job>>
  BY <1>1, OpsAreRequests, ReplyType DEF FieldsOK
<1>2. CASE q \in Ops /\ GotVM(q)
  <2>1. Listen(q) /\ session' = "up" /\ UNCHANGED <<sock, ws, wantOpen>>
    BY <1>2 DEF GotVM
  <2> QED BY <1>2, <2>1, ListenType DEF FieldsOK
<1>3. CASE q \in Ops /\ (CallSettles(q, "ok") \/ Listened(q))
  BY <1>3, CallSettlesType, ListenedType
<1> QED BY <1>1, <1>2, <1>3 DEF Succeeds

\* and one that is sent.
LEMMA SendType ==
  ASSUME FieldsOK, NEW j \in Ops, NEW place \in Places, Send(j, place)
  PROVE  reply' \in RepliesType /\ job' \in JobsType
BY OpsAreRequests, ReplyType, AtType DEF Send

\* A client that disconnects keeps its types,
LEMMA DisconnectedType ==
  ASSUME FieldsOK, Disconnected
  PROVE  FieldsOK'
<1>1. reply' \in RepliesType
  BY RejectedType DEF Disconnected, FieldsOK
<1>2. sock' \in SocksType
  BY HungType DEF Disconnected
<1>3. ws' \in 0..MaxSockets /\ UNCHANGED job
  BY ClientConstants DEF Disconnected
<1>4. wantOpen' = FALSE /\ reconnecting' = FALSE /\ beating' = FALSE
  BY DEF Disconnected
<1>5. session' \in {"none", "up", "down"}
  BY DEF Disconnected, FieldsOK
<1> QED BY <1>1, <1>2, <1>3, <1>4, <1>5 DEF FieldsOK

\* and so does a socket that closes.
LEMMA CloseType ==
  ASSUME FieldsOK, NEW s \in Sockets, Close(s)
  PROVE  FieldsOK'
<1>1. Dialled(s, "refused") \in JobsType /\ AttemptReconnect(Dialled(s, "refused"))
  BY DialledType DEF Close, Places
<1>2. job' \in JobsType /\ reconnecting' \in BOOLEAN /\ beating' \in BOOLEAN
  BY <1>1, ReconnectType
<1>3. sock' \in SocksType /\ reply' \in RepliesType /\ session' \in {"none", "up", "down"}
  BY RejectedType DEF Close, FieldsOK, SocksType
<1>4. UNCHANGED <<ws, wantOpen>>
  BY DEF Close
<1> QED BY <1>2, <1>3, <1>4 DEF FieldsOK

\* Looking for the VM keeps them.
LEMMA DiscoverType ==
  ASSUME FieldsOK, NEW j \in Ops, Discover(j)
  PROVE  FieldsOK'
<1>1. UNCHANGED <<session, wantOpen, beating, reply>>
  BY DEF Discover
<1>2. CASE ConnectFails(j) /\ UNCHANGED <<sock, ws>>
  BY <1>1, <1>2, FailsType DEF FieldsOK
<1>3. CASE \E s \in Sockets :
             /\ sock' = [sock EXCEPT ![s] = "opening"] /\ ws' = s
             /\ job' = [job EXCEPT ![j] = [at |-> "dial", socket |-> s, try |-> job[j].try]]
             /\ UNCHANGED reconnecting
  <2>1. PICK s \in Sockets :
             /\ sock' = [sock EXCEPT ![s] = "opening"] /\ ws' = s
             /\ job' = [job EXCEPT ![j] = [at |-> "dial", socket |-> s, try |-> job[j].try]]
             /\ UNCHANGED reconnecting
    BY <1>3
  <2>2. job[j].try \in 0..ReconnectAttempts /\ s \in 0..MaxSockets
    BY DEF FieldsOK, JobsType, JobType, Sockets
  <2>3. [at |-> "dial", socket |-> s, try |-> job[j].try] \in JobType
    BY <2>2 DEF JobType, Places
  <2>4. job' \in JobsType
    BY <2>1, <2>3, ExceptJob DEF FieldsOK
  <2>5. sock' \in SocksType
    BY <2>1 DEF FieldsOK, SocksType
  <2>6. ws' \in 0..MaxSockets /\ reconnecting' \in BOOLEAN
    BY <2>1, <2>2 DEF FieldsOK
  <2> QED BY <1>1, <2>4, <2>5, <2>6 DEF FieldsOK
<1> QED BY <1>2, <1>3 DEF Discover

\* Every step of the client keeps its types.
LEMMA FieldsStep == FieldsOK /\ [ClientNext]_allVars => FieldsOK'
<1> SUFFICES ASSUME FieldsOK, [ClientNext]_allVars PROVE FieldsOK'
  OBVIOUS
<1>1. CASE UNCHANGED clientVars
  BY <1>1 DEF clientVars, FieldsOK
<1>2. ASSUME NEW u \in Users, Connect(u)  PROVE FieldsOK'
  <2>1. At(u, "discover") \in JobsType
    BY AtType, ClientConstants DEF Places
  <2> QED BY <1>2, <2>1 DEF Connect, FieldsOK
<1>3. ASSUME NEW u \in Users, Call(u)  PROVE FieldsOK'
  <2>1. Send(u, "call") /\ u \in Ops
          /\ UNCHANGED <<sock, ws, session, wantOpen, reconnecting, beating>>
    BY <1>3, ClientConstants DEF Call
  <2> QED BY <2>1, SendType DEF FieldsOK, Places
<1>4. ASSUME NEW l \in Loops, Wake(l)  PROVE FieldsOK'
  <2>1. At(l, "discover") \in JobsType /\ [job EXCEPT ![l] = Idle] \in JobsType
    BY AtType, IdleType, ExceptJob, ClientConstants DEF Places, FieldsOK
  <2> QED BY <1>4, <2>1 DEF Wake, FieldsOK
<1>5. ASSUME NEW j \in Ops, Discover(j)  PROVE FieldsOK'
  BY <1>5, DiscoverType
<1>6. ASSUME NEW j \in Ops, DialTimeOut(j)  PROVE FieldsOK'
  <2>1. At(j, "refused") \in JobsType
    BY AtType DEF Places
  <2> QED BY <1>6, <2>1 DEF DialTimeOut, FieldsOK
<1>7. ASSUME NEW j \in Ops, NotOpened(j)  PROVE FieldsOK'
  <2>1. ConnectFails(j) /\ UNCHANGED <<sock, ws, session, wantOpen, beating, reply>>
    BY <1>7 DEF NotOpened
  <2> QED BY <2>1, FailsType DEF FieldsOK
<1>8. ASSUME NEW j \in Ops, GetVM(j)  PROVE FieldsOK'
  <2>1. UNCHANGED <<sock, ws, session, wantOpen, beating>>
    BY <1>8 DEF GetVM
  <2>2. CASE Send(j, "vm") /\ UNCHANGED reconnecting
    BY <2>1, <2>2, SendType DEF FieldsOK, Places
  <2>3. CASE ConnectFails(j) /\ UNCHANGED reply
    BY <2>1, <2>3, FailsType DEF FieldsOK
  <2> QED BY <1>8, <2>2, <2>3 DEF GetVM
<1>9. ASSUME NEW q \in Requests, Answer(q) \/ TimeOut(q) \/ Resume(q)  PROVE FieldsOK'
  BY <1>9, RequestFailsType, RequestSucceedsType DEF Answer, TimeOut, Resume
<1>10. ASSUME NEW s \in Sockets, Open(s)  PROVE FieldsOK'
  <2>1. Dialled(s, "opened") \in JobsType
    BY DialledType DEF Places
  <2> QED BY <1>10, <2>1 DEF Open, FieldsOK, SocksType
<1>11. ASSUME NEW s \in Sockets, Close(s)  PROVE FieldsOK'
  BY <1>11, CloseType
<1>12. CASE Heartbeat
  BY <1>12, OpsAreRequests, ReplyType DEF Heartbeat, FieldsOK
<1>13. CASE Disconnected
  BY <1>13, DisconnectedType
<1> QED
  BY <1>1, <1>2, <1>3, <1>4, <1>5, <1>6, <1>7, <1>8, <1>9, <1>10, <1>11, <1>12, <1>13
     DEF ClientNext, JobStep, Disconnect, Crash, Recovered, Time, allVars

\* It starts with them.
LEMMA FieldsInit == ClientInit => FieldsOK
<1> SUFFICES ASSUME ClientInit PROVE FieldsOK
  OBVIOUS
<1>1. job \in JobsType
  BY IdleType DEF ClientInit, JobsType
<1>2. sock \in SocksType /\ reply \in RepliesType
  BY DEF ClientInit, SocksType, RepliesType
<1>3. ws = 0 /\ 0 \in 0..MaxSockets
  BY ClientConstants DEF ClientInit
<1>4. session = "none" /\ wantOpen = FALSE /\ reconnecting = FALSE /\ beating = FALSE
  BY DEF ClientInit
<1> QED BY <1>1, <1>2, <1>3, <1>4 DEF FieldsOK

\* So it has them throughout.
LEMMA FieldsCorrect == ClientSpec => []FieldsOK
BY FieldsInit, FieldsStep, PTL DEF ClientSpec

\* The client's variables and its breaker's keep their shape.
THEOREM ClientTypeCorrect == ClientSpec => []ClientTypeOK
<1>1. TypeOK /\ FieldsOK => ClientTypeOK
  BY DEF FieldsOK, ClientTypeOK, JobsType, JobType, SocksType, RepliesType
<1> QED BY <1>1, FieldsCorrect, BreakerRuns, TypeCorrect, PTL

-----------------------------------------------------------------------------
(* What the breaker waits for. *)

\* A report ends what the breaker waited for of its job, and begins nothing.
LEMMA ReportOps ==
  ASSUME TypeOK, NEW j \in Ops, NEW outcome, Report(j, outcome)
  PROVE  \A i \in Ops : op'[i] # "idle" => op[i] # "idle" /\ i # j
BY DEF TypeOK, Report, Succeed, Fail, RecordSuccess, RecordFailure, Settled, Demoted, breakerVars,
       vars

\* A request that is sent is the only one that may begin.
LEMMA SendOps ==
  ASSUME TypeOK, NEW j \in Ops, NEW place, Send(j, place)
  PROVE  \A i \in Ops : i # j => op'[i] = op[i]
BY DEF TypeOK, Send, BeginClosed, BeginCooled, BeginProbe, breakerVars, vars

\* Jobs that the breaker waits for, left where they are, are owed as before.
LEMMA OwedKept ==
  ASSUME ReportsAreOwed,
         \A i \in Ops : op'[i] # "idle" =>
           op[i] # "idle" /\ job'[i].at = job[i].at /\ (reply[i] # "idle" => reply'[i] # "idle")
  PROVE  ReportsAreOwed'
BY DEF ReportsAreOwed

\* A connection attempt that fails ends no job but its own.
LEMMA FailsOwed ==
  ASSUME FieldsOK, NEW j \in Ops, ConnectFails(j)
  PROVE  \A i \in Ops : i # j => job'[i] = job[i]
BY DEF ConnectFails, FieldsOK, JobsType

\* The end of one, and a subscription, likewise.
LEMMA ListenOwed ==
  ASSUME FieldsOK, NEW j \in Ops, Listen(j) \/ Listened(j)
  PROVE  \A i \in Ops : i # j => job'[i] = job[i] /\ reply'[i] = reply[i]
BY OpsAreRequests DEF Listen, Listened, ConnectEnds, At, Dropped, FieldsOK, JobsType, RepliesType

\* A reconnect takes a job that was idle.
LEMMA ReconnectOwed ==
  ASSUME NEW jobs \in JobsType, AttemptReconnect(jobs)
  PROVE  \A i \in Ops : jobs[i] # Idle => job'[i] = jobs[i]
BY DEF AttemptReconnect, JobsType

\* A request that fails is reported, if it was one of the breaker's.
LEMMA RequestFailsOwed ==
  ASSUME TypeOK, FieldsOK, ReportsAreOwed, NEW q \in Requests, Fails(q)
  PROVE  ReportsAreOwed'
<1>1. CASE q = Beat /\ BeatFails
  <2>1. \A i \in Ops : reply'[i] = reply[i] /\ op'[i] = op[i]
    BY <1>1, ClientConstants, OpsAreRequests
       DEF BeatFails, Dropped, FieldsOK, RepliesType, breakerVars, vars
  <2>2. \A i \in Ops : job[i].at \in {"vm", "call"} => job'[i] = job[i]
    BY <1>1, ReconnectOwed DEF BeatFails, FieldsOK, Idle
  <2> QED  BY <2>1, <2>2 DEF ReportsAreOwed
<1>2. CASE q \in Ops /\ CallSettles(q, "failed")
  <2>1. \A i \in Ops : i # q => job'[i] = job[i] /\ reply'[i] = reply[i]
    BY <1>2, OpsAreRequests DEF CallSettles, Dropped, FieldsOK, JobsType, RepliesType
  <2>2. \A i \in Ops : op'[i] # "idle" => op[i] # "idle" /\ i # q
    BY <1>2, ReportOps DEF CallSettles
  <2> QED  BY <2>1, <2>2, OwedKept
<1>3. CASE q \in Ops /\ NoVM(q)
  <2>1. \A i \in Ops : i # q => job'[i] = job[i] /\ reply'[i] = reply[i]
    BY <1>3, FailsOwed, OpsAreRequests DEF NoVM, Dropped, FieldsOK, RepliesType
  <2>2. \A i \in Ops : op'[i] # "idle" => op[i] # "idle" /\ i # q
    BY <1>3, ReportOps DEF NoVM
  <2> QED  BY <2>1, <2>2, OwedKept
<1>4. CASE q \in Ops /\ Listened(q)
  <2>1. \A i \in Ops : i # q => job'[i] = job[i] /\ reply'[i] = reply[i]
    BY <1>4, ListenOwed
  <2>2. op' = op /\ job[q].at \notin {"vm", "call"}
    BY <1>4 DEF Listened, breakerVars, vars
  <2> QED  BY <2>1, <2>2, OwedKept DEF ReportsAreOwed
<1> QED  BY <1>1, <1>2, <1>3, <1>4 DEF Fails

\* So is one that succeeds.
LEMMA RequestSucceedsOwed ==
  ASSUME TypeOK, FieldsOK, ReportsAreOwed, NEW q \in Requests, Succeeds(q)
  PROVE  ReportsAreOwed'
<1>1. CASE q = Beat /\ reply' = Dropped(Beat) /\ UNCHANGED <<breakerVars, job>>
  <2>1. \A i \in Ops : reply'[i] = reply[i] /\ op'[i] = op[i]
    BY <1>1, ClientConstants, OpsAreRequests DEF Dropped, FieldsOK, RepliesType, breakerVars, vars
  <2> QED  BY <1>1, <2>1 DEF ReportsAreOwed
<1>2. CASE q \in Ops /\ CallSettles(q, "ok")
  <2>1. \A i \in Ops : i # q => job'[i] = job[i] /\ reply'[i] = reply[i]
    BY <1>2, OpsAreRequests DEF CallSettles, Dropped, FieldsOK, JobsType, RepliesType
  <2>2. \A i \in Ops : op'[i] # "idle" => op[i] # "idle" /\ i # q
    BY <1>2, ReportOps DEF CallSettles
  <2> QED  BY <2>1, <2>2, OwedKept
<1>3. CASE q \in Ops /\ GotVM(q)
  <2>1. \A i \in Ops : i # q => job'[i] = job[i] /\ reply'[i] = reply[i]
    BY <1>3, ListenOwed DEF GotVM
  <2>2. \A i \in Ops : op'[i] # "idle" => op[i] # "idle" /\ i # q
    BY <1>3, ReportOps DEF GotVM
  <2> QED  BY <2>1, <2>2, OwedKept
<1>4. CASE q \in Ops /\ Listened(q)
  <2>1. \A i \in Ops : i # q => job'[i] = job[i] /\ reply'[i] = reply[i]
    BY <1>4, ListenOwed
  <2>2. op' = op /\ job[q].at \notin {"vm", "call"}
    BY <1>4 DEF Listened, breakerVars, vars
  <2> QED  BY <2>1, <2>2, OwedKept DEF ReportsAreOwed
<1> QED  BY <1>1, <1>2, <1>3, <1>4 DEF Succeeds

\* A request that is sent waits.
LEMMA SendOwed ==
  ASSUME TypeOK, FieldsOK, ReportsAreOwed, NEW j \in Ops, NEW place \in {"vm", "call"},
         Send(j, place)
  PROVE  ReportsAreOwed'
<1>1. \A i \in Ops : i # j => job'[i] = job[i] /\ reply'[i] = reply[i] /\ op'[i] = op[i]
  BY SendOps, OpsAreRequests DEF Send, At, FieldsOK, JobsType, RepliesType
<1>2. job'[j].at = place /\ reply'[j] = "waiting"
  BY OpsAreRequests DEF Send, At, FieldsOK, JobsType, RepliesType
<1> QED  BY <1>1, <1>2 DEF ReportsAreOwed

\* What is pending is rejected, not forgotten.
LEMMA RejectedOwed ==
  ASSUME FieldsOK, NEW i \in Ops, reply[i] # "idle"  PROVE Rejected[i] # "idle"
BY OpsAreRequests DEF Rejected, FieldsOK, RepliesType

\* A step that sends, settles and moves none of the breaker's requests.
LEMMA BreakerIdleOwed ==
  ASSUME ReportsAreOwed, NEW j \in Ops, job[j].at \notin {"vm", "call"},
         \A i \in Ops : i # j => job'[i] = job[i],
         UNCHANGED <<op, reply>>
  PROVE  ReportsAreOwed'
<1>1. op[j] = "idle"
  BY DEF ReportsAreOwed
<1> QED  BY <1>1, OwedKept

\* Trip and reset end no operation, and begin none.
LEMMA DemotedOwed ==
  ASSUME TypeOK, op' = Demoted(op)
  PROVE  \A i \in Ops : op'[i] # "idle" => op[i] # "idle"
BY DEF TypeOK, Demoted

\* Every step keeps what is owed.
LEMMA OwedStep == TypeOK /\ FieldsOK /\ ReportsAreOwed /\ [ClientNext]_allVars => ReportsAreOwed'
<1> SUFFICES ASSUME TypeOK, FieldsOK, ReportsAreOwed, [ClientNext]_allVars PROVE ReportsAreOwed'
  OBVIOUS
<1>1. CASE UNCHANGED <<breakerVars, clientVars>>
  BY <1>1 DEF breakerVars, vars, clientVars, ReportsAreOwed
<1>2. ASSUME NEW u \in Users, Connect(u)  PROVE ReportsAreOwed'
  <2>1. u \in Ops /\ job[u].at = "idle"
    BY <1>2, ClientConstants DEF Connect, Idle
  <2>2. \A i \in Ops : i # u => job'[i] = job[i]
    BY <1>2 DEF Connect, At, FieldsOK, JobsType
  <2> QED  BY <1>2, <2>1, <2>2, BreakerIdleOwed DEF Connect, breakerVars, vars
<1>3. ASSUME NEW u \in Users, Call(u)  PROVE ReportsAreOwed'
  BY <1>3, SendOwed, ClientConstants DEF Call
<1>4. ASSUME NEW l \in Loops, Wake(l)  PROVE ReportsAreOwed'
  <2>1. l \in Ops /\ job[l].at = "sleep"
    BY <1>4, ClientConstants DEF Wake
  <2>2. \A i \in Ops : i # l => job'[i] = job[i]
    BY <1>4 DEF Wake, At, FieldsOK, JobsType
  <2> QED  BY <1>4, <2>1, <2>2, BreakerIdleOwed DEF Wake, breakerVars, vars
<1>5. ASSUME NEW j \in Ops, Discover(j) \/ DialTimeOut(j) \/ NotOpened(j)  PROVE ReportsAreOwed'
  <2>1. job[j].at \in {"discover", "dial", "refused"} /\ UNCHANGED <<op, reply>>
    BY <1>5 DEF Discover, DialTimeOut, NotOpened, breakerVars, vars
  <2>2. \A i \in Ops : i # j => job'[i] = job[i]
    BY <1>5, FailsOwed DEF Discover, DialTimeOut, NotOpened, At, FieldsOK, JobsType
  <2> QED  BY <2>1, <2>2, BreakerIdleOwed
<1>6. ASSUME NEW j \in Ops, GetVM(j)  PROVE ReportsAreOwed'
  <2>1. CASE Send(j, "vm")
    BY <2>1, SendOwed
  <2>2. CASE ConnectFails(j) /\ UNCHANGED <<breakerVars, reply>>
    <3>1. \A i \in Ops : i # j => job'[i] = job[i]
      BY <2>2, FailsOwed
    <3> QED  BY <1>6, <2>2, <3>1, BreakerIdleOwed DEF GetVM, breakerVars, vars
  <2> QED  BY <1>6, <2>1, <2>2 DEF GetVM
<1>7. ASSUME NEW q \in Requests, Answer(q) \/ TimeOut(q) \/ Resume(q)  PROVE ReportsAreOwed'
  BY <1>7, RequestFailsOwed, RequestSucceedsOwed DEF Answer, TimeOut, Resume
<1>8. ASSUME NEW s \in Sockets, Open(s)  PROVE ReportsAreOwed'
  <2>1. \A i \in Ops : job[i].at \in {"vm", "call"} => job'[i] = job[i]
    BY <1>8 DEF Open, Dialled
  <2> QED  BY <1>8, <2>1 DEF Open, breakerVars, vars, ReportsAreOwed
<1>9. ASSUME NEW s \in Sockets, Close(s)  PROVE ReportsAreOwed'
  <2>1. /\ Dialled(s, "refused") \in JobsType /\ AttemptReconnect(Dialled(s, "refused"))
        /\ reply' = Rejected /\ op' = op
    BY <1>9, DialledType DEF Close, Places, breakerVars, vars
  <2>2. \A i \in Ops : job[i].at \in {"vm", "call"} => Dialled(s, "refused")[i] = job[i]
    BY DEF Dialled
  <2>3. \A i \in Ops : job[i].at \in {"vm", "call"} => job'[i] = job[i]
    BY <2>1, <2>2, ReconnectOwed DEF Idle
  <2> QED  BY <2>1, <2>3, RejectedOwed DEF ReportsAreOwed
<1>10. CASE Heartbeat
  <2>1. \A i \in Ops : reply'[i] = reply[i]
    BY <1>10, ClientConstants, OpsAreRequests DEF Heartbeat, FieldsOK, RepliesType
  <2> QED  BY <1>10, <2>1 DEF Heartbeat, breakerVars, vars, ReportsAreOwed
<1>11. CASE Disconnected /\ (UNCHANGED breakerVars \/ Trip)
  <2>1. \A i \in Ops : op'[i] # "idle" => op[i] # "idle"
    BY <1>11, DemotedOwed DEF Trip, breakerVars, vars
  <2>2. \A i \in Ops : job'[i] = job[i] /\ (reply[i] # "idle" => reply'[i] # "idle")
    BY <1>11, RejectedOwed DEF Disconnected
  <2> QED  BY <2>1, <2>2, OwedKept
<1>12. CASE (Trip \/ Reset \/ Tick) /\ UNCHANGED clientVars
  <2>1. \A i \in Ops : op'[i] # "idle" => op[i] # "idle"
    BY <1>12, DemotedOwed DEF Trip, Reset, Tick
  <2> QED  BY <1>12, <2>1, OwedKept DEF clientVars
<1> QED
  BY <1>1, <1>2, <1>3, <1>4, <1>5, <1>6, <1>7, <1>8, <1>9, <1>10, <1>11, <1>12
     DEF ClientNext, JobStep, Disconnect, Crash, Recovered, Time, allVars

\* The breaker hears of every request it has let through: none is dropped by an answer, a
\* time limit, a closed socket, disconnect() or a crash (vm-service-client.ts:310-345, 781-788).
THEOREM ReportsOwed == ClientSpec => []ReportsAreOwed
<1>1. ClientInit => ReportsAreOwed
  BY DEF ClientInit, Init, ReportsAreOwed
<1> QED  BY <1>1, OwedStep, FieldsCorrect, BreakerRuns, TypeCorrect, PTL DEF ClientSpec

-----------------------------------------------------------------------------
(* Requests and sessions. *)

\* The current socket has not closed yet.
Alive == ws # 0 /\ sock[ws] \in {"opening", "open", "closing"}

Waiting == \E q \in Requests : reply[q] = "waiting"
Subscribing == \E j \in Ops : job[j].at \in {"listen", "replay"}
Closing == \E s \in Sockets : sock[s] = "closing"

\* What keeps a request and a session from being left to themselves: as long as one is
\* waiting or up there is a current socket, whose close event will be told to it, and
\* only connect()'s subscriptions stand between the session and its heartbeat.
ClientInv ==
  /\ WaitsAreHeard
  /\ Waiting => Alive
  /\ session = "up" => Alive
  /\ session = "up" /\ ~ beating => Subscribing \/ Closing

\* A step that neither touches the sockets nor makes a request keeps the first three.
LEMMA SocketsKept ==
  ASSUME FieldsOK, ClientInv, UNCHANGED <<sock, ws>>, Waiting' => Waiting,
         session' = "up" => session = "up" \/ Waiting
  PROVE  WaitsAreHeard' /\ (Waiting' => Alive') /\ (session' = "up" => Alive')
BY DEF ClientInv, WaitsAreHeard, Waiting, Alive

\* Jobs that subscribe go on doing so when no job leaves that await.
LEMMA SubscribingKept ==
  ASSUME Subscribing,
         \A j \in Ops : job[j].at \in {"listen", "replay"} => job'[j] = job[j]
  PROVE  Subscribing'
BY DEF Subscribing

\* Dropping an answer makes nobody wait.
LEMMA DroppedWaits ==
  ASSUME FieldsOK, NEW q \in Requests, reply' = Dropped(q)
  PROVE  Waiting' => Waiting
BY DEF FieldsOK, RepliesType, Dropped, Waiting

\* connect() fails at an await that is not a subscription.
LEMMA FailsInv ==
  ASSUME FieldsOK, ClientInv, NEW j \in Ops, ConnectFails(j),
         job[j].at \notin {"listen", "replay"},
         UNCHANGED <<sock, ws, session, beating>>, Waiting' => Waiting
  PROVE  ClientInv'
<1>1. \A k \in Ops : k # j => job'[k] = job[k]
  BY DEF ConnectFails, FieldsOK, JobsType
<1>2. Subscribing => Subscribing'
  BY <1>1, SubscribingKept
<1>3. Closing => Closing'
  BY DEF Closing
<1> QED BY <1>2, <1>3, SocketsKept DEF ClientInv

\* A subscription keeps the client's invariant,
LEMMA ListenInv ==
  ASSUME FieldsOK, ClientInv, NEW j \in Ops, Listen(j), reply[j] = "waiting",
         UNCHANGED <<sock, ws>>
  PROVE  ClientInv'
<1>1. Waiting /\ j \in Requests
  BY OpsAreRequests DEF Waiting
<1>2. WaitsAreHeard' /\ (Waiting' => Alive') /\ (session' = "up" => Alive')
  BY <1>1, SocketsKept
<1>3. CASE job' = At(j, "listen")
  <2>1. Subscribing'
    BY <1>3 DEF At, Subscribing, FieldsOK, JobsType
  <2> QED BY <1>2, <2>1 DEF ClientInv
<1>4. CASE ConnectEnds(j)
  BY <1>2, <1>4 DEF ConnectEnds, ClientInv
<1> QED BY <1>3, <1>4 DEF Listen

\* and so does its answer.
LEMMA ListenedInv ==
  ASSUME FieldsOK, ClientInv, NEW j \in Ops, Listened(j)
  PROVE  ClientInv'
<1>1. UNCHANGED <<sock, ws, session>> /\ j \in Requests
  BY OpsAreRequests DEF Listened
<1>2. CASE IsConnected /\ job' = At(j, "replay") /\ reply' = [reply EXCEPT ![j] = "waiting"]
  <2>1. Subscribing'
    BY <1>2 DEF At, Subscribing, FieldsOK, JobsType
  <2>2. ws \in Sockets
    BY <1>2, ClientConstants DEF IsConnected, FieldsOK, Sockets
  <2>3. WaitsAreHeard' /\ Alive'
    BY <1>1, <1>2, <2>2 DEF IsConnected, WaitsAreHeard, Alive
  <2> QED BY <2>1, <2>3 DEF ClientInv
<1>3. CASE reply' = Dropped(j) /\ ConnectEnds(j)
  <2>1. WaitsAreHeard' /\ (Waiting' => Alive') /\ (session' = "up" => Alive')
    BY <1>1, <1>3, DroppedWaits, SocketsKept
  <2> QED BY <1>3, <2>1 DEF ConnectEnds, ClientInv
<1> QED BY <1>2, <1>3 DEF Listened

\* A caller that is answered keeps it.
LEMMA SettlesInv ==
  ASSUME FieldsOK, ClientInv, NEW j \in Ops, NEW outcome, CallSettles(j, outcome)
  PROVE  ClientInv'
<1>1. /\ UNCHANGED <<sock, ws, session, beating>> /\ j \in Requests
      /\ job[j].at = "call" /\ job' = [job EXCEPT ![j] = Idle]
      /\ reply' = Dropped(j)
  BY OpsAreRequests DEF CallSettles
<1>2. Subscribing => Subscribing'
  BY <1>1, SubscribingKept DEF FieldsOK, JobsType
<1>3. Closing => Closing'
  BY <1>1 DEF Closing
<1> QED BY <1>1, <1>2, <1>3, DroppedWaits, SocketsKept DEF ClientInv

\* A client that finds no VM keeps it.
LEMMA NoVMInv ==
  ASSUME FieldsOK, ClientInv, NEW j \in Ops, NoVM(j)
  PROVE  ClientInv'
<1>1. /\ UNCHANGED <<sock, ws, session, beating>> /\ j \in Requests
      /\ job[j].at = "vm" /\ ConnectFails(j) /\ reply' = Dropped(j)
  BY OpsAreRequests DEF NoVM
<1> QED BY <1>1, DroppedWaits, FailsInv

\* A heartbeat that fails keeps it.
LEMMA BeatFailsInv ==
  ASSUME FieldsOK, ClientInv, BeatFails
  PROVE  ClientInv'
<1>1. UNCHANGED <<ws, session>> /\ (Waiting' => Waiting)
  BY OpsAreRequests, DroppedWaits DEF BeatFails
<1>2. CASE sock' = Hung
  <2>1. Alive => Alive' /\ Closing'
    BY <1>1, <1>2, ClientConstants DEF Hung, Alive, Closing, FieldsOK, SocksType, Sockets
  <2>2. WaitsAreHeard'
    BY <1>1, <1>2, <2>1 DEF ClientInv, WaitsAreHeard, Waiting, Closing
  <2> QED BY <1>1, <2>1, <2>2 DEF ClientInv
<1>3. CASE UNCHANGED <<sock, reconnecting, beating, job>>
  <2>1. WaitsAreHeard' /\ (Waiting' => Alive') /\ (session' = "up" => Alive')
    BY <1>1, <1>3, SocketsKept
  <2> QED BY <1>1, <1>3, <2>1 DEF ClientInv, Subscribing, Closing
<1> QED BY <1>2, <1>3 DEF BeatFails

\* A close rejects what waits and marks the session.
LEMMA CloseInv ==
  ASSUME FieldsOK, NEW s \in Sockets, Close(s)
  PROVE  ClientInv'
<1>1. ~ Waiting' /\ session' # "up"
  BY DEF Close, Rejected, Waiting
<1> QED BY <1>1 DEF ClientInv, WaitsAreHeard, Waiting

\* So does disconnect(), unless there is no socket and so nothing waits.
LEMMA DisconnectedInv ==
  ASSUME FieldsOK, ClientInv, Disconnected
  PROVE  ClientInv'
<1>1. session' # "up"
  BY DEF Disconnected
<1>2. ~ Waiting'
  BY DEF Disconnected, Rejected, Waiting, ClientInv, Alive
<1> QED BY <1>1, <1>2 DEF ClientInv, WaitsAreHeard, Waiting

\* A new socket is not one that anything waits for.
LEMMA DialInv ==
  ASSUME FieldsOK, ClientInv, NEW j \in Ops, NEW s \in Sockets, NEW r,
         job[j].at = "discover", sock[s] = "new",
         sock' = [sock EXCEPT ![s] = "opening"], ws' = s,
         job' = [job EXCEPT ![j] = r], UNCHANGED <<session, beating, reply>>
  PROVE  ClientInv'
<1>1. Alive'
  BY ClientConstants DEF Alive, FieldsOK, SocksType, Sockets
<1>2. WaitsAreHeard' /\ (Closing => Closing')
  BY DEF ClientInv, WaitsAreHeard, Closing, FieldsOK, SocksType
<1>3. Subscribing => Subscribing'
  BY SubscribingKept DEF FieldsOK, JobsType
<1> QED BY <1>1, <1>2, <1>3 DEF ClientInv

\* A socket that opens keeps it.
LEMMA OpenInv ==
  ASSUME FieldsOK, ClientInv, NEW s \in Sockets, Open(s)
  PROVE  ClientInv'
<1>1. UNCHANGED <<ws, session, beating, reply>> /\ sock[s] = "opening"
        /\ sock' = [sock EXCEPT ![s] = "open"] /\ job' = Dialled(s, "opened")
  BY DEF Open
<1>2. Alive => Alive'
  BY <1>1 DEF Alive, FieldsOK, SocksType
<1>3. WaitsAreHeard' /\ (Closing => Closing')
  BY <1>1 DEF ClientInv, WaitsAreHeard, Closing, FieldsOK, SocksType
<1>4. Subscribing => Subscribing'
  BY <1>1, SubscribingKept DEF Dialled
<1> QED BY <1>1, <1>2, <1>3, <1>4 DEF ClientInv, Waiting

\* A request is made on the current socket, by a job that does not subscribe.
LEMMA SendInv ==
  ASSUME FieldsOK, ClientInv, IsConnected, NEW q \in Requests,
         reply' = [reply EXCEPT ![q] = "waiting"],
         \A j \in Ops : job[j].at \in {"listen", "replay"} => job'[j] = job[j],
         UNCHANGED <<sock, ws, session, beating>>
  PROVE  ClientInv'
<1>1. ws \in Sockets
  BY ClientConstants DEF IsConnected, FieldsOK, Sockets
<1>2. WaitsAreHeard' /\ Alive'
  BY <1>1 DEF IsConnected, WaitsAreHeard, Alive
<1>3. (Subscribing => Subscribing') /\ (Closing => Closing')
  BY SubscribingKept DEF Closing
<1> QED BY <1>2, <1>3 DEF ClientInv

\* A job that goes on keeps it.
LEMMA JobMovesInv ==
  ASSUME FieldsOK, ClientInv, UNCHANGED <<sock, ws, session, beating, reply>>,
         \A j \in Ops : job[j].at \in {"listen", "replay"} => job'[j] = job[j]
  PROVE  ClientInv'
<1>1. WaitsAreHeard' /\ (Waiting' => Alive') /\ (session' = "up" => Alive')
  BY SocketsKept DEF Waiting
<1>2. (Subscribing => Subscribing') /\ (Closing => Closing')
  BY SubscribingKept DEF Closing
<1> QED BY <1>1, <1>2 DEF ClientInv

\* Every step of the client keeps it.
LEMMA ClientInvStep == FieldsOK /\ ClientInv /\ [ClientNext]_allVars => ClientInv'
<1> SUFFICES ASSUME FieldsOK, ClientInv, [ClientNext]_allVars PROVE ClientInv'
  OBVIOUS
<1>1. CASE UNCHANGED clientVars
  BY <1>1, JobMovesInv DEF clientVars
<1>2. ASSUME NEW u \in Users, Connect(u)  PROVE ClientInv'
  BY <1>2, JobMovesInv, ClientConstants DEF Connect, At, Idle, FieldsOK, JobsType
<1>3. ASSUME NEW u \in Users, Call(u)  PROVE ClientInv'
  <2>1. u \in Requests /\ u \in Ops
    BY ClientConstants DEF Requests
  <2>2. \A j \in Ops : job[j].at \in {"listen", "replay"} => job'[j] = job[j]
    BY <1>3, <2>1 DEF Call, Send, At, Idle, FieldsOK, JobsType
  <2> QED BY <1>3, <2>1, <2>2, SendInv DEF Call, Send
<1>4. ASSUME NEW l \in Loops, Wake(l)  PROVE ClientInv'
  BY <1>4, JobMovesInv, ClientConstants DEF Wake, At, FieldsOK, JobsType
<1>5. ASSUME NEW j \in Ops, Discover(j)  PROVE ClientInv'
  <2>1. job[j].at = "discover" /\ UNCHANGED <<session, beating, reply>>
    BY <1>5 DEF Discover
  <2>2. CASE ConnectFails(j) /\ UNCHANGED <<sock, ws>>
    BY <2>1, <2>2, FailsInv DEF Waiting
  <2>3. CASE ~ (ConnectFails(j) /\ UNCHANGED <<sock, ws>>)
    BY <1>5, <2>1, <2>3, DialInv DEF Discover
  <2> QED BY <2>2, <2>3
<1>6. ASSUME NEW j \in Ops, DialTimeOut(j)  PROVE ClientInv'
  BY <1>6, JobMovesInv DEF DialTimeOut, At, FieldsOK, JobsType
<1>7. ASSUME NEW j \in Ops, NotOpened(j)  PROVE ClientInv'
  BY <1>7, FailsInv DEF NotOpened, Waiting
<1>8. ASSUME NEW j \in Ops, GetVM(j)  PROVE ClientInv'
  <2>1. job[j].at = "opened" /\ UNCHANGED <<sock, ws, session, beating>> /\ j \in Requests
    BY <1>8, OpsAreRequests DEF GetVM
  <2>2. CASE Send(j, "vm")
    BY <2>1, <2>2, SendInv DEF Send, At, FieldsOK, JobsType
  <2>3. CASE ConnectFails(j) /\ UNCHANGED reply
    BY <2>1, <2>3, FailsInv DEF Waiting
  <2> QED BY <1>8, <2>2, <2>3 DEF GetVM
<1>9. ASSUME NEW q \in Requests, Fails(q)  PROVE ClientInv'
  BY <1>9, BeatFailsInv, SettlesInv, NoVMInv, ListenedInv DEF Fails
<1>10. ASSUME NEW q \in Requests, Answer(q)  PROVE ClientInv'
  <2>1. CASE reply' = Dropped(Beat)
               /\ UNCHANGED <<sock, ws, session, wantOpen, reconnecting, beating, job>>
    <3>1. WaitsAreHeard' /\ (Waiting' => Alive') /\ (session' = "up" => Alive')
      BY <2>1, OpsAreRequests, DroppedWaits, SocketsKept
    <3> QED BY <2>1, <3>1 DEF ClientInv, Subscribing, Closing
  <2>2. CASE q \in Ops /\ GotVM(q)
    BY <1>10, <2>2, ListenInv DEF Answer, GotVM
  <2>3. CASE q \in Ops /\ (CallSettles(q, "ok") \/ Listened(q))
    BY <2>3, SettlesInv, ListenedInv
  <2> QED BY <1>9, <1>10, <2>1, <2>2, <2>3 DEF Answer, Succeeds
<1>11. ASSUME NEW s \in Sockets, Open(s) \/ Close(s)  PROVE ClientInv'
  BY <1>11, OpenInv, CloseInv
<1>12. CASE Heartbeat
  BY <1>12, SendInv, OpsAreRequests DEF Heartbeat
<1>13. CASE Disconnected
  BY <1>13, DisconnectedInv
<1> QED
  BY <1>1, <1>2, <1>3, <1>4, <1>5, <1>6, <1>7, <1>8, <1>9, <1>10, <1>11, <1>12, <1>13
     DEF ClientNext, JobStep, TimeOut, Resume, Disconnect, Crash, Recovered, Time, allVars

\* So it holds throughout.
LEMMA ClientInvCorrect == ClientSpec => []ClientInv
<1>1. ClientInit => ClientInv
  BY DEF ClientInit, ClientInv, WaitsAreHeard, Waiting
<1> QED BY <1>1, ClientInvStep, FieldsCorrect, PTL DEF ClientSpec

\* No request waits for its timer alone when every socket has closed
\* (vm-service-client.ts:257-261, 784-788).
THEOREM WaitsCorrect == ClientSpec => []WaitsAreHeard
BY ClientInvCorrect, PTL DEF ClientInv

\* A session that says it is connected is watched (vm-service-client.ts:777-799,
\* 819-829): however its socket ends, the client finds out.
THEOREM WatchedCorrect == ClientSpec => []Watched
<1>1. FieldsOK /\ ClientInv => Watched
  BY DEF ClientInv, Watched, Subscribing, Closing
<1> QED BY <1>1, ClientInvCorrect, FieldsCorrect, PTL

=============================================================================
