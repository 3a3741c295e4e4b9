-------------------------- MODULE WebKitClientProofs --------------------------
(***************************************************************************)
(* The safety properties of the WebKit client, for any number of callers,  *)
(* sockets, pages and domains.                                             *)
(***************************************************************************)
EXTENDS WebKitClient, TLAPS

-----------------------------------------------------------------------------
(* Type correctness.  Every way to lose a connection and every failed      *)
(* attempt is a lemma, for the steps that share it.                        *)

LEMMA IdleType == Idle \in JobType
BY DEF Idle, JobType, Places

\* Jobs keep their shape when one field changes.
LEMMA FieldTypes ==
  ASSUME NEW r \in JobType
  PROVE  /\ \A a \in Places : [r EXCEPT !.at = a] \in JobType
         /\ \A n \in Nat : [r EXCEPT !.left = n] \in JobType
         /\ \A s \in Sockets \cup {0} : [r EXCEPT !.sock = s] \in JobType
         /\ \A D \in SUBSET Domains : [r EXCEPT !.todo = D] \in JobType
         /\ \A d \in Domains \cup {None} : [r EXCEPT !.domain = d] \in JobType
         /\ \A t \in Targets \cup {None} : [r EXCEPT !.page = t] \in JobType
BY DEF JobType

LEMMA FailType ==
  ASSUME TypeOK, NEW j \in Jobs, Fail(j)
  PROVE  /\ job' \in [Jobs -> JobType] /\ reconnecting' \in BOOLEAN
         /\ waiter' \in Jobs \cup {None} /\ ready' \in BOOLEAN
<1>1. job[j] \in JobType /\ job[j].left \in Nat  BY DEF TypeOK, JobType
<1>2. job[j].left > 0 =>
        [Idle EXCEPT !.at = "pause", !.left = job[j].left - 1] \in JobType
  <2>1. [Idle EXCEPT !.at = "pause"] \in JobType  BY IdleType, FieldTypes DEF Places
  <2>2. job[j].left > 0 => job[j].left - 1 \in Nat  BY <1>1
  <2> QED  BY <2>1, <2>2, FieldTypes
<1>3. job' \in [Jobs -> JobType]
  BY <1>1, <1>2, IdleType DEF TypeOK, Fail, Failed
<1> QED  BY <1>3 DEF TypeOK, Fail, Unheeded

LEMMA StartType ==
  ASSUME TypeOK,
         NEW socks \in [Sockets -> {"new", "opening", "open", "gone"}],
         NEW jobs \in [Jobs -> JobType], StartReconnect(socks, jobs)
  PROVE  /\ sock' \in [Sockets -> {"new", "opening", "open", "gone"}]
         /\ ws' \in Sockets \cup {0} /\ up' \in BOOLEAN
         /\ known' \subseteq Targets /\ active' \in Targets \cup {None}
         /\ connected' \in BOOLEAN
         /\ intervals' \subseteq Sockets /\ timer' \in Sockets \cup {0}
         /\ reconnecting' \in BOOLEAN /\ job' \in [Jobs -> JobType]
         /\ UNCHANGED <<announced, domainVars, readyVars>>
<1>1. LoopBegun \in JobType
  <2>1. [Idle EXCEPT !.at = "pause"] \in JobType  BY IdleType, FieldTypes DEF Places
  <2>2. MaxAttempts - 1 \in Nat  BY ClientAssumption
  <2> QED  BY <2>1, <2>2, FieldTypes DEF LoopBegun
<1>2. job' \in [Jobs -> JobType]  BY <1>1 DEF StartReconnect
<1>3. sock' \in [Sockets -> {"new", "opening", "open", "gone"}]
  BY DEF StartReconnect, Shut
<1> QED  BY <1>2, <1>3 DEF TypeOK, StartReconnect

LEMMA RejectedType ==
  ASSUME NEW r \in [Requests -> {"idle", "waiting", "ok", "failed"}]
  PROVE  Rejected(r) \in [Requests -> {"idle", "waiting", "ok", "failed"}]
BY DEF Rejected

LEMMA CloseType ==
  ASSUME TypeOK, NEW s \in Sockets, NEW jobs \in [Jobs -> JobType], CloseEvent(s, jobs)
  PROVE  TypeOK'
<1> DEFINE socks == [sock EXCEPT ![s] = "gone"]
<1>1. socks \in [Sockets -> {"new", "opening", "open", "gone"}]  BY DEF TypeOK
<1>2. reply' \in [Requests -> {"idle", "waiting", "ok", "failed"}]
  BY RejectedType DEF TypeOK, CloseEvent
<1>3. CASE connected /\ ~ reconnecting
  <2>1. StartReconnect(socks, jobs) /\ UNCHANGED fails  BY <1>3 DEF CloseEvent
  <2> HIDE DEF socks
  <2> QED  BY <1>1, <1>2, <2>1, StartType DEF TypeOK, domainVars, readyVars
<1>4. CASE ~ (connected /\ ~ reconnecting)
  BY <1>1, <1>2, <1>4
  DEF TypeOK, CloseEvent, sessionVars, pageVars, domainVars, readyVars, beatVars
<1> QED  BY <1>3, <1>4

\* The groups of variables a step leaves alone.
LEMMA Groups ==
  /\ UNCHANGED transportVars <=> UNCHANGED <<sock, ws, up, reply>>
  /\ UNCHANGED sessionVars <=>
       UNCHANGED <<known, active, announced, globalDomains, pageDomains, waiter, ready>>
  /\ UNCHANGED pageVars <=> UNCHANGED <<known, active, announced>>
  /\ UNCHANGED domainVars <=> UNCHANGED <<globalDomains, pageDomains>>
  /\ UNCHANGED readyVars <=> UNCHANGED <<waiter, ready>>
  /\ UNCHANGED beatVars <=> UNCHANGED <<connected, intervals, timer, fails>>
  /\ UNCHANGED clientVars <=>
       UNCHANGED <<connected, intervals, timer, fails, reconnecting, job>>
BY DEF transportVars, sessionVars, pageVars, domainVars, readyVars, beatVars, clientVars

USE DEF transportVars, sessionVars, pageVars, domainVars, readyVars, beatVars, clientVars

LEMMA ZeroFails == 0 \in 0..Threshold - 1
BY ClientAssumption

LEMMA TypeStep ==
  ASSUME TypeOK, Next
  PROVE  TypeOK'
<1>1. ASSUME NEW j \in Jobs, Resume(j)  PROVE TypeOK'
  <2>1. [job[j] EXCEPT !.at = "list"] \in JobType  BY FieldTypes DEF TypeOK, Places
  <2> QED  BY <1>1, <2>1 DEF TypeOK, Resume
<1>2. ASSUME NEW j \in Jobs, DialError(j)  PROVE TypeOK'
  BY <1>2, FailType DEF TypeOK, DialError
<1>3. ASSUME NEW j \in Jobs, DialTimeOut(j)  PROVE TypeOK'
  BY <1>3, FailType DEF TypeOK, DialTimeOut
<1>4. ASSUME NEW j \in Jobs, TargetFound(j)  PROVE TypeOK'
  <2>1. [job[j] EXCEPT !.at = "enable"] \in JobType  BY FieldTypes DEF TypeOK, Places
  <2>2. [job[j] EXCEPT !.at = "enable", !.todo = globalDomains] \in JobType
    BY <2>1, FieldTypes DEF TypeOK
  <2> QED  BY <1>4, <2>2, IdleType DEF TypeOK, TargetFound, Unheeded
<1>5. ASSUME NEW j \in Jobs, TargetTimeOut(j)  PROVE TypeOK'
  BY <1>5, FailType DEF TypeOK, TargetTimeOut
<1>6. ASSUME NEW j \in Jobs, Enabled(j)  PROVE TypeOK'
  <2>1. job[j] \in JobType  BY DEF TypeOK
  <2> DEFINE new == {job[j].domain} \ {None}
             next == [job[j] EXCEPT !.at = "enable", !.domain = None, !.todo = @ \ new]
  <2>2. next \in JobType
    <3>1. [job[j] EXCEPT !.at = "enable"] \in JobType  BY <2>1, FieldTypes DEF Places
    <3>2. [job[j] EXCEPT !.at = "enable", !.domain = None] \in JobType
      BY <3>1, FieldTypes
    <3>3. job[j].todo \ new \in SUBSET Domains  BY <2>1 DEF JobType
    <3> QED  BY <3>2, <3>3, FieldTypes
  <2>3. job' \in [Jobs -> JobType]
    <3>1. job' = [job EXCEPT ![j] = IF j \in Users THEN Idle ELSE next]
      BY <1>6 DEF Enabled
    <3> HIDE DEF next
    <3> QED  BY <2>2, <3>1, IdleType DEF TypeOK
  <2>4. globalDomains' \subseteq Domains /\ pageDomains' \in [Targets -> SUBSET Domains]
    <3>1. new \subseteq Domains /\ job[j].page \in Targets \cup {None}
      BY <2>1 DEF JobType
    <3>2. /\ globalDomains' = IF job[j].page = None THEN globalDomains \cup new
                              ELSE globalDomains
          /\ pageDomains' = IF job[j].page = None THEN pageDomains
                            ELSE [pageDomains EXCEPT ![job[j].page] = @ \cup new]
      BY <1>6 DEF Enabled
    <3> HIDE DEF new
    <3> QED  BY <3>1, <3>2 DEF TypeOK
  <2> QED  BY <1>6, <2>3, <2>4 DEF TypeOK, Enabled
<1>7. ASSUME NEW j \in Jobs, NotEnabled(j)  PROVE TypeOK'
  BY <1>7, FailType DEF TypeOK, NotEnabled
<1>8. ASSUME NEW j \in Jobs, NoTargets(j)  PROVE TypeOK'
  BY <1>8, FailType DEF TypeOK, NoTargets
<1>9. ASSUME NEW j \in Jobs, NEW s \in Sockets, Dial(j, s)  PROVE TypeOK'
  <2>1. [job[j] EXCEPT !.at = "dial"] \in JobType  BY FieldTypes DEF TypeOK, Places
  <2>2. [job[j] EXCEPT !.at = "dial", !.sock = s] \in JobType  BY <2>1, FieldTypes
  <2> QED  BY <1>9, <2>2 DEF TypeOK, Dial
<1>10. ASSUME NEW j \in Jobs, NEW d \in Domains \cup {None}, NEW t \in Targets \cup {None},
              NEW to \in Targets \cup {None}, Ask(j, d, t, to)
       PROVE  TypeOK'
  <2>1. [job[j] EXCEPT !.at = "wait"] \in JobType  BY FieldTypes DEF TypeOK, Places
  <2>2. [job[j] EXCEPT !.at = "wait", !.domain = d] \in JobType  BY <2>1, FieldTypes
  <2>3. [job[j] EXCEPT !.at = "wait", !.domain = d, !.page = t] \in JobType
    BY <2>2, FieldTypes
  <2> QED  BY <1>10, <2>3 DEF TypeOK, Ask, Sent
<1>11. ASSUME NEW l \in Loops, NEW d \in Domains, EnableAgain(l, d)  PROVE TypeOK'
  <2>1. CASE d \in globalDomains
    <3>1. l \in Jobs /\ job[l] \in JobType  BY DEF TypeOK, Jobs
    <3>2. [job[l] EXCEPT !.todo = @ \ {d}] \in JobType
      <4>1. job[l].todo \ {d} \in SUBSET Domains  BY <3>1 DEF JobType
      <4> QED  BY <3>1, <4>1, FieldTypes
    <3> QED  BY <1>11, <2>1, <3>2 DEF TypeOK, EnableAgain
  <2>2. CASE d \notin globalDomains
    <3>1. Ask(l, d, None, active)  BY <1>11, <2>2 DEF EnableAgain
    <3> QED  BY <1>10, <3>1 DEF TypeOK, Jobs
  <2> QED  BY <2>1, <2>2
<1>12. ASSUME NEW l \in Loops, Reconnected(l)  PROVE TypeOK'
  BY <1>12, IdleType DEF TypeOK, Reconnected
<1>13. ASSUME NEW u \in Users, Connect(u)  PROVE TypeOK'
  <2>1. [job[u] EXCEPT !.at = "list"] \in JobType  BY FieldTypes DEF TypeOK, Jobs, Places
  <2>2. [job[u] EXCEPT !.at = "list", !.left = Retries] \in JobType
    BY <2>1, ClientAssumption, FieldTypes
  <2> QED  BY <1>13, <2>2 DEF TypeOK, Connect
<1>14. ASSUME NEW u \in Users, Send(u)  PROVE TypeOK'
  BY <1>10, <1>14 DEF TypeOK, Send, Jobs
<1>15. ASSUME NEW u \in Users, NEW d \in Domains, EnableDomain(u, d)  PROVE TypeOK'
  BY <1>10, <1>15 DEF TypeOK, EnableDomain, Jobs
<1>16. ASSUME NEW u \in Users, NEW d \in Domains, NEW t \in Targets,
              EnableDomainForTarget(u, d, t)
       PROVE  TypeOK'
  BY <1>10, <1>16 DEF TypeOK, EnableDomainForTarget, Jobs
<1>17. ASSUME NEW s \in Sockets, SocketClosed(s)  PROVE TypeOK'
  <2>1. job \in [Jobs -> JobType]  BY DEF TypeOK
  <2>2. CloseEvent(s, job)  BY <1>17 DEF SocketClosed
  <2> QED  BY <2>1, <2>2, CloseType
<1>18. ASSUME NEW s \in Sockets, Opened(s)  PROVE TypeOK'
  <2>1. job' \in [Jobs -> JobType]
    <3>1. \A j \in Jobs : [job[j] EXCEPT !.at = "target"] \in JobType
      BY FieldTypes DEF TypeOK, Places
    <3>2. \A j \in Jobs : [job[j] EXCEPT !.at = "target", !.sock = 0] \in JobType
      BY <3>1, FieldTypes
    <3> QED  BY <1>18, <3>2 DEF TypeOK, Opened
  <2>2. fails' \in 0..Threshold - 1  BY <1>18, ZeroFails DEF TypeOK, Opened
  <2> QED  BY <1>18, <2>1, <2>2 DEF TypeOK, Opened
<1>19. ASSUME NEW s \in Sockets, Refused(s)  PROVE TypeOK'
  <2> DEFINE jobs == [j \in Jobs |-> IF j \notin Dialers(s) THEN job[j]
                                     ELSE [job[j] EXCEPT !.at = IF up THEN "hung" ELSE "error",
                                                         !.sock = 0]]
  <2>1. jobs \in [Jobs -> JobType]
    <3>1. \A j \in Jobs : [job[j] EXCEPT !.at = IF up THEN "hung" ELSE "error"] \in JobType
      BY FieldTypes DEF TypeOK, Places
    <3>2. \A j \in Jobs :
            [job[j] EXCEPT !.at = IF up THEN "hung" ELSE "error", !.sock = 0] \in JobType
      BY <3>1, FieldTypes
    <3> QED  BY <3>2 DEF TypeOK
  <2>2. CloseEvent(s, jobs)  BY <1>19 DEF Refused
  <2> QED  BY <2>1, <2>2, CloseType
<1>20. ASSUME NEW s \in Sockets, Beat(s)  PROVE TypeOK'
  BY <1>20 DEF TypeOK, Beat, Sent
<1>21. ASSUME NEW s \in Sockets, Alive(s)  PROVE TypeOK'
  BY <1>21, ZeroFails DEF TypeOK, Alive
<1>22. ASSUME NEW s \in Sockets, Missed(s)  PROVE TypeOK'
  <2> DEFINE replies == [reply EXCEPT ![Probe(s)] = "idle"]
  <2>1. replies \in [Requests -> {"idle", "waiting", "ok", "failed"}]  BY DEF TypeOK
  <2>2. fails' \in 0..Threshold - 1  BY <1>22, ClientAssumption DEF TypeOK, Missed
  <2>3. CASE fails + 1 < Threshold \/ reconnecting
    BY <1>22, <2>1, <2>2, <2>3 DEF TypeOK, Missed
  <2>4. CASE ~ (fails + 1 < Threshold \/ reconnecting)
    <3>1. reply' = Rejected(replies) /\ StartReconnect(sock, job)
      BY <1>22, <2>4 DEF Missed
    <3>2. reply' \in [Requests -> {"idle", "waiting", "ok", "failed"}]
      BY <2>1, <3>1, RejectedType
    <3> QED  BY <2>2, <3>1, <3>2, StartType DEF TypeOK
  <2> QED  BY <2>3, <2>4
<1>23. ASSUME NEW t \in Targets, TargetCreated(t)  PROVE TypeOK'
  BY <1>23 DEF TypeOK, TargetCreated
<1>24. ASSUME NEW t \in Targets, TargetDestroyed(t)  PROVE TypeOK'
  BY <1>24 DEF TypeOK, TargetDestroyed
<1>25. ASSUME NEW t \in Targets, SetActive(t)  PROVE TypeOK'
  BY <1>25 DEF TypeOK, SetActive
<1>26. ASSUME NEW t \in Targets, PageReady(t)  PROVE TypeOK'
  BY <1>26 DEF TypeOK, PageReady
<1>27. ASSUME NEW q \in Requests, Answer(q)  PROVE TypeOK'
  BY <1>27 DEF TypeOK, Answer
<1>28. ASSUME NEW q \in Requests, TimeOut(q)  PROVE TypeOK'
  BY <1>28 DEF TypeOK, TimeOut
<1>29. CASE Disconnect
  <2>1. sock' \in [Sockets -> {"new", "opening", "open", "gone"}]
    BY <1>29 DEF TypeOK, Disconnect, Shut
  <2>2. reply' \in [Requests -> {"idle", "waiting", "ok", "failed"}]
    BY <1>29, RejectedType DEF TypeOK, Disconnect
  <2> QED  BY <1>29, <2>1, <2>2 DEF TypeOK, Disconnect
<1> QED
  BY <1>1, <1>2, <1>3, <1>4, <1>5, <1>6, <1>7, <1>8, <1>9, <1>11, <1>12, <1>13, <1>14,
     <1>15, <1>16, <1>17, <1>18, <1>19, <1>20, <1>21, <1>22, <1>23, <1>24, <1>25, <1>26,
     <1>27, <1>28, <1>29
  DEF Next, JobStep, ListStep, LoopStep, UserStep, SocketStep, BeatStep, PageStep

-----------------------------------------------------------------------------
(* One reconnect loop at a time.                                           *)

LEMMA IdleAt == Idle.at = "idle"
BY DEF Idle

\* A loop that fails is idle or pauses, and it is the loop that reconnecting is about.
LEMMA FailLoop ==
  ASSUME TypeOK, OneLoop, NEW j \in Jobs, job[j] # Idle, Fail(j)
  PROVE  OneLoop'
<1>1. CASE j \in Users
  <2>1. \A l \in Loops : job'[l] = job[l]
    BY <1>1, ClientAssumption DEF TypeOK, Fail, Failed, Jobs
  <2>2. reconnecting' = reconnecting
    BY <1>1, ClientAssumption DEF TypeOK, Fail, GivesUp
  <2> QED  BY <2>1, <2>2 DEF OneLoop
<1>2. CASE j \in Loops
  <2>1. reconnecting /\ \A l \in Loops : l # j => job[l] = Idle  BY <1>2 DEF OneLoop
  <2>2. \A l \in Loops : l # j => job'[l] = Idle
    BY <2>1 DEF TypeOK, Fail, Failed, Jobs
  <2>3. job[j].left \in Nat  BY DEF TypeOK, JobType
  <2>4. CASE job[j].left = 0
    <3>1. job'[j] = Idle  BY <2>4 DEF TypeOK, Fail, Failed
    <3>2. ~ reconnecting'  BY <1>2, <2>4 DEF Fail, GivesUp
    <3> QED  BY <2>2, <3>1, <3>2 DEF OneLoop
  <2>5. CASE job[j].left > 0
    <3>1. job'[j] = [Idle EXCEPT !.at = "pause", !.left = job[j].left - 1]
      BY <2>5 DEF TypeOK, Fail, Failed
    <3>2. [Idle EXCEPT !.at = "pause", !.left = job[j].left - 1].at = "pause"  BY DEF Idle
    <3>3. job'[j] # Idle  BY <3>1, <3>2, IdleAt
    <3>4. ~ GivesUp(j)  BY <2>5 DEF GivesUp
    <3>5. reconnecting'  BY <2>1, <3>4 DEF Fail
    <3> QED  BY <1>2, <2>2, <3>3, <3>5 DEF OneLoop
  <2> QED  BY <2>3, <2>4, <2>5
<1> QED  BY <1>1, <1>2 DEF Jobs

\* handleDisconnect() finds every loop idle and takes one.
LEMMA StartLoop ==
  ASSUME TypeOK, OneLoop, ~ reconnecting,
         NEW jobs \in [Jobs -> JobType], \A l \in Loops : jobs[l] = job[l],
         NEW socks, StartReconnect(socks, jobs)
  PROVE  OneLoop'
<1>1. \A l \in Loops : job[l] = Idle  BY DEF OneLoop
<1>2. NewLoop \in Loops  BY <1>1, ClientAssumption DEF NewLoop
<1>3. LoopBegun # Idle  BY DEF LoopBegun, Idle
<1>4. job' = [jobs EXCEPT ![NewLoop] = LoopBegun] /\ reconnecting' = TRUE
  BY DEF StartReconnect
<1> HIDE DEF NewLoop, LoopBegun
<1>5. job'[NewLoop] # Idle /\ \A l \in Loops : l # NewLoop => job'[l] = Idle
  BY <1>1, <1>2, <1>3, <1>4 DEF Jobs
<1> QED  BY <1>2, <1>4, <1>5 DEF OneLoop

\* A step of one job that leaves a busy loop busy.
LEMMA OneJob ==
  ASSUME TypeOK, OneLoop, NEW j \in Jobs, NEW r,
         job' = [job EXCEPT ![j] = r], reconnecting' = reconnecting,
         j \in Users \/ (job[j] # Idle /\ r # Idle)
  PROVE  OneLoop'
<1>1. \A l \in Loops : (job'[l] = Idle) <=> (job[l] = Idle)
  BY ClientAssumption DEF TypeOK, Jobs
<1> QED  BY <1>1 DEF OneLoop

\* Jobs that stay idle or busy.
LEMMA SameLoops ==
  ASSUME OneLoop, reconnecting' = reconnecting,
         \A l \in Loops : (job'[l] = Idle) <=> (job[l] = Idle)
  PROVE  OneLoop'
BY DEF OneLoop

\* A step that leaves all jobs alone.
LEMMA NoJob ==
  ASSUME OneLoop, UNCHANGED <<reconnecting, job>>
  PROVE  OneLoop'
BY DEF OneLoop

LEMMA CloseLoop ==
  ASSUME TypeOK, OneLoop, NEW s \in Sockets, NEW jobs \in [Jobs -> JobType],
         \A l \in Loops : (jobs[l] = Idle) <=> (job[l] = Idle), CloseEvent(s, jobs)
  PROVE  OneLoop'
<1>1. CASE connected /\ ~ reconnecting
  <2>1. \A l \in Loops : jobs[l] = job[l]  BY <1>1 DEF OneLoop
  <2>2. StartReconnect([sock EXCEPT ![s] = "gone"], jobs)  BY <1>1 DEF CloseEvent
  <2> QED  BY <1>1, <2>1, <2>2, StartLoop
<1>2. CASE ~ (connected /\ ~ reconnecting)
  BY <1>2, SameLoops DEF CloseEvent
<1> QED  BY <1>1, <1>2

LEMMA LoopPreserved ==
  ASSUME TypeOK, OneLoop, Next
  PROVE  OneLoop'
<1>1. ASSUME NEW j \in Jobs,
             DialError(j) \/ DialTimeOut(j) \/ TargetTimeOut(j) \/ NotEnabled(j) \/ NoTargets(j)
      PROVE  OneLoop'
  <2>1. Fail(j) /\ job[j].at # "idle"
    BY <1>1 DEF DialError, DialTimeOut, TargetTimeOut, NotEnabled, NoTargets
  <2> QED  BY <2>1, FailLoop, IdleAt
<1>2. ASSUME NEW j \in Jobs, Resume(j)  PROVE OneLoop'
  <2> DEFINE r == [job[j] EXCEPT !.at = "list"]
  <2>1. job' = [job EXCEPT ![j] = r] /\ reconnecting' = reconnecting  BY <1>2 DEF Resume
  <2>2. job[j] # Idle /\ r # Idle  BY <1>2, IdleAt DEF Resume, TypeOK, JobType
  <2> HIDE DEF r
  <2> QED  BY <2>1, <2>2, OneJob
<1>3. ASSUME NEW j \in Jobs, TargetFound(j)  PROVE OneLoop'
  <2> DEFINE r == IF j \in Users THEN Idle
                  ELSE [job[j] EXCEPT !.at = "enable", !.todo = globalDomains]
  <2>1. job' = [job EXCEPT ![j] = r] /\ reconnecting' = reconnecting
    BY <1>3 DEF TargetFound
  <2>2. j \in Users \/ (job[j] # Idle /\ r # Idle)
    BY <1>3, IdleAt DEF TargetFound, TypeOK, JobType
  <2> HIDE DEF r
  <2> QED  BY <2>1, <2>2, OneJob
<1>4. ASSUME NEW j \in Jobs, Enabled(j)  PROVE OneLoop'
  <2> DEFINE new == {job[j].domain} \ {None}
             next == [job[j] EXCEPT !.at = "enable", !.domain = None, !.todo = @ \ new]
             r == IF j \in Users THEN Idle ELSE next
  <2>1. job' = [job EXCEPT ![j] = r] /\ reconnecting' = reconnecting
    BY <1>4 DEF Enabled
  <2>2. job[j] # Idle  BY <1>4, IdleAt DEF Enabled
  <2>3. next # Idle
    <3>1. next.at = "enable"  BY DEF TypeOK, JobType
    <3> HIDE DEF next
    <3> QED  BY <3>1, IdleAt
  <2> HIDE DEF next
  <2>4. j \in Users \/ (job[j] # Idle /\ r # Idle)  BY <2>2, <2>3
  <2> HIDE DEF r
  <2> QED  BY <2>1, <2>4, OneJob
<1>5. ASSUME NEW j \in Jobs, NEW s \in Sockets, Dial(j, s)  PROVE OneLoop'
  <2> DEFINE r == [job[j] EXCEPT !.at = "dial", !.sock = s]
  <2>1. job' = [job EXCEPT ![j] = r] /\ reconnecting' = reconnecting  BY <1>5 DEF Dial
  <2>2. job[j] # Idle  BY <1>5, IdleAt DEF Dial
  <2>3. r.at = "dial"  BY DEF TypeOK, JobType
  <2> HIDE DEF r
  <2> QED  BY <2>1, <2>2, <2>3, OneJob, IdleAt
<1>6. ASSUME NEW j \in Jobs, NEW d, NEW t, NEW to, Ask(j, d, t, to),
             j \in Users \/ job[j] # Idle
      PROVE  OneLoop'
  <2> DEFINE r == [job[j] EXCEPT !.at = "wait", !.domain = d, !.page = t]
  <2>1. job' = [job EXCEPT ![j] = r] /\ reconnecting' = reconnecting  BY <1>6 DEF Ask
  <2>2. r.at = "wait"  BY DEF TypeOK, JobType
  <2> HIDE DEF r
  <2> QED  BY <1>6, <2>1, <2>2, OneJob, IdleAt
<1>7. ASSUME NEW l \in Loops, NEW d \in Domains, EnableAgain(l, d)  PROVE OneLoop'
  <2>1. l \in Jobs /\ job[l] # Idle /\ job[l].at = "enable"
    BY <1>7, IdleAt DEF EnableAgain, Jobs
  <2>2. CASE d \in globalDomains
    <3> DEFINE r == [job[l] EXCEPT !.todo = @ \ {d}]
    <3>1. job' = [job EXCEPT ![l] = r] /\ reconnecting' = reconnecting
      BY <1>7, <2>2 DEF EnableAgain
    <3>2. r.at = "enable"  BY <2>1 DEF TypeOK, JobType
    <3> HIDE DEF r
    <3> QED  BY <2>1, <3>1, <3>2, OneJob, IdleAt
  <2>3. CASE d \notin globalDomains
    BY <1>6, <1>7, <2>1, <2>3 DEF EnableAgain
  <2> QED  BY <2>2, <2>3
<1>8. ASSUME NEW l \in Loops, Reconnected(l)  PROVE OneLoop'
  <2>1. job[l] # Idle /\ l \in Jobs  BY <1>8, IdleAt DEF Reconnected, Jobs
  <2>2. \A k \in Loops : job'[k] = Idle
    BY <1>8, <2>1 DEF Reconnected, OneLoop, TypeOK, Jobs
  <2>3. ~ reconnecting'  BY <1>8 DEF Reconnected
  <2> QED  BY <2>2, <2>3 DEF OneLoop
<1>9. ASSUME NEW u \in Users, UserStep(u)  PROVE OneLoop'
  <2>1. u \in Jobs  BY DEF Jobs
  <2>2. CASE Connect(u)  BY <2>1, <2>2, OneJob DEF Connect
  <2>3. CASE Send(u)  BY <1>6, <2>1, <2>3 DEF Send
  <2>4. ASSUME NEW d \in Domains, EnableDomain(u, d)  PROVE OneLoop'
    BY <1>6, <2>1, <2>4 DEF EnableDomain
  <2>5. ASSUME NEW d \in Domains, NEW t \in Targets, EnableDomainForTarget(u, d, t)
        PROVE  OneLoop'
    BY <1>6, <2>1, <2>5 DEF EnableDomainForTarget
  <2> QED  BY <1>9, <2>2, <2>3, <2>4, <2>5 DEF UserStep
<1>10. ASSUME NEW s \in Sockets, SocketClosed(s)  PROVE OneLoop'
  <2>1. job \in [Jobs -> JobType] /\ CloseEvent(s, job)
    BY <1>10 DEF SocketClosed, TypeOK
  <2> QED  BY <2>1, CloseLoop
<1>11. ASSUME NEW s \in Sockets, Opened(s)  PROVE OneLoop'
  <2>1. CASE Dialers(s) = {}  BY <1>11, <2>1, NoJob DEF Opened
  <2>2. CASE Dialers(s) # {}
    <3>1. \A j \in Jobs : job'[j] = IF j \in Dialers(s)
                                    THEN [job[j] EXCEPT !.at = "target", !.sock = 0]
                                    ELSE job[j]
      BY <1>11, <2>2 DEF Opened
    <3>2. \A j \in Dialers(s) : j \in Jobs /\ job[j] # Idle  BY IdleAt DEF Dialers
    <3>3. \A j \in Jobs : [job[j] EXCEPT !.at = "target", !.sock = 0] # Idle
      BY DEF TypeOK, JobType, Idle
    <3>4. \A l \in Loops : (job'[l] = Idle) <=> (job[l] = Idle)
      BY <3>1, <3>2, <3>3 DEF Jobs
    <3> QED  BY <1>11, <3>4, SameLoops DEF Opened
  <2> QED  BY <2>1, <2>2
<1>12. ASSUME NEW s \in Sockets, Refused(s)  PROVE OneLoop'
  <2> DEFINE r(j) == [job[j] EXCEPT !.at = IF up THEN "hung" ELSE "error", !.sock = 0]
             jobs == [j \in Jobs |-> IF j \notin Dialers(s) THEN job[j] ELSE r(j)]
  <2>1. \A j \in Jobs : r(j) \in JobType /\ r(j).at # "idle"
    <3>1. \A j \in Jobs : [job[j] EXCEPT !.at = IF up THEN "hung" ELSE "error"] \in JobType
      BY FieldTypes DEF TypeOK, Places
    <3>2. \A j \in Jobs : r(j) \in JobType  BY <3>1, FieldTypes
    <3>3. \A j \in Jobs : r(j).at # "idle"  BY DEF TypeOK, JobType
    <3> QED  BY <3>2, <3>3
  <2>2. CloseEvent(s, jobs)  BY <1>12 DEF Refused
  <2> HIDE DEF r
  <2>3. jobs \in [Jobs -> JobType]  BY <2>1 DEF TypeOK
  <2>4. \A l \in Loops : (jobs[l] = Idle) <=> (job[l] = Idle)
    BY <2>1, IdleAt DEF Dialers, Jobs
  <2> HIDE DEF jobs
  <2> QED  BY <2>2, <2>3, <2>4, CloseLoop
<1>13. ASSUME NEW s \in Sockets, BeatStep(s)  PROVE OneLoop'
  <2>1. CASE Beat(s) \/ Alive(s)  BY <2>1, NoJob DEF Beat, Alive
  <2>2. CASE Missed(s)
    <3>1. CASE fails + 1 < Threshold \/ reconnecting  BY <2>2, <3>1, NoJob DEF Missed
    <3>2. CASE ~ (fails + 1 < Threshold \/ reconnecting)
      <4>1. StartReconnect(sock, job) /\ ~ reconnecting  BY <2>2, <3>2 DEF Missed
      <4>2. job \in [Jobs -> JobType]  BY DEF TypeOK
      <4> QED  BY <4>1, <4>2, StartLoop
    <3> QED  BY <3>1, <3>2
  <2> QED  BY <1>13, <2>1, <2>2 DEF BeatStep
<1>14. ASSUME NEW t \in Targets, PageStep(t) \/ PageReady(t)  PROVE OneLoop'
  BY <1>14, NoJob DEF PageStep, TargetCreated, TargetDestroyed, SetActive, PageReady
<1>15. ASSUME NEW q \in Requests, Answer(q) \/ TimeOut(q)  PROVE OneLoop'
  BY <1>15, NoJob DEF Answer, TimeOut
<1>16. CASE Disconnect  BY <1>16, NoJob DEF Disconnect
<1> QED
  BY <1>1, <1>2, <1>3, <1>4, <1>5, <1>7, <1>8, <1>9, <1>10, <1>11, <1>12, <1>13, <1>14,
     <1>15, <1>16
  DEF Next, JobStep, ListStep, LoopStep, SocketStep

-----------------------------------------------------------------------------
(* Pages, requests and the heartbeat.                                      *)

LEMMA ActivePreserved ==
  ASSUME TypeOK, ActiveIsKnown, Next
  PROVE  ActiveIsKnown'
<1> USE ClientAssumption DEF ActiveIsKnown
<1>1. CASE UNCHANGED <<known, active>>  BY <1>1
<1>2. ASSUME NEW s \in Sockets, NEW jobs, CloseEvent(s, jobs)  PROVE ActiveIsKnown'
  BY <1>1, <1>2 DEF CloseEvent, StartReconnect
<1>3. ASSUME NEW j \in Jobs, JobStep(j) \/ NoTargets(j)  PROVE ActiveIsKnown'
  BY <1>1, <1>3
  DEF JobStep, NoTargets, Resume, DialError, DialTimeOut, TargetFound, TargetTimeOut,
      Enabled, NotEnabled
<1>4. ASSUME NEW j \in Jobs, NEW s \in Sockets, Dial(j, s)  PROVE ActiveIsKnown'
  BY <1>4 DEF Dial
<1>5. ASSUME NEW l \in Loops, LoopStep(l)  PROVE ActiveIsKnown'
  BY <1>1, <1>5 DEF LoopStep, EnableAgain, Reconnected, Ask
<1>6. ASSUME NEW u \in Users, UserStep(u)  PROVE ActiveIsKnown'
  BY <1>1, <1>6 DEF UserStep, Connect, Send, EnableDomain, EnableDomainForTarget, Ask
<1>7. ASSUME NEW s \in Sockets, SocketStep(s)  PROVE ActiveIsKnown'
  BY <1>1, <1>2, <1>7 DEF SocketStep, SocketClosed, Opened, Refused
<1>8. ASSUME NEW s \in Sockets, BeatStep(s)  PROVE ActiveIsKnown'
  BY <1>1, <1>8 DEF BeatStep, Beat, Alive, Missed, StartReconnect
<1>9. ASSUME NEW t \in Targets, PageStep(t) \/ PageReady(t)  PROVE ActiveIsKnown'
  BY <1>1, <1>9 DEF PageStep, TargetCreated, TargetDestroyed, SetActive, PageReady
<1>10. ASSUME NEW q \in Requests, Answer(q) \/ TimeOut(q)  PROVE ActiveIsKnown'
  BY <1>1, <1>10 DEF Answer, TimeOut
<1>11. CASE Disconnect  BY <1>11 DEF Disconnect
<1> QED
  BY <1>3, <1>4, <1>5, <1>6, <1>7, <1>8, <1>9, <1>10, <1>11 DEF Next, ListStep

\* Nobody waits after clearPendingRequests().
LEMMA RejectedWait ==
  \A r, q : q \in Requests => Rejected(r)[q] # "waiting"
BY DEF Rejected

\* A request that is sent has an open socket to be answered on.
LEMMA SentHeard ==
  ASSUME TypeOK, NobodyWaitsInVain, UNCHANGED sock, NEW q, NEW to, reply' = Sent(q, to)
  PROVE  NobodyWaitsInVain'
<1>1. CASE IsOpen
  BY <1>1 DEF NobodyWaitsInVain, Heard, IsOpen, TypeOK
<1>2. CASE ~ IsOpen
  <2>1. \A r \in Requests : reply'[r] = "waiting" => reply[r] = "waiting"
    BY <1>2 DEF TypeOK, Sent
  <2> QED  BY <2>1 DEF NobodyWaitsInVain, Heard
<1> QED  BY <1>1, <1>2

LEMMA WaitPreserved ==
  ASSUME TypeOK, NobodyWaitsInVain, Next
  PROVE  NobodyWaitsInVain'
<1>1. ASSUME UNCHANGED sock,
             \A q \in Requests : reply'[q] = "waiting" => reply[q] = "waiting"
      PROVE  NobodyWaitsInVain'
  BY <1>1 DEF NobodyWaitsInVain, Heard
<1>2. ASSUME NEW r, reply' = Rejected(r)  PROVE NobodyWaitsInVain'
  BY <1>2, RejectedWait DEF NobodyWaitsInVain
<1>3. ASSUME NEW j \in Jobs, JobStep(j) \/ NoTargets(j)  PROVE NobodyWaitsInVain'
  BY <1>1, <1>3
  DEF TypeOK, JobStep, NoTargets, Resume, DialError, DialTimeOut, TargetFound,
      TargetTimeOut, Enabled, NotEnabled
<1>4. ASSUME NEW j \in Jobs, NEW s \in Sockets, Dial(j, s)  PROVE NobodyWaitsInVain'
  <2>1. \A r \in Sockets : sock[r] = "open" => sock'[r] = "open"
    BY <1>4 DEF Dial, TypeOK
  <2> QED  BY <1>4, <2>1 DEF Dial, NobodyWaitsInVain, Heard
<1>5. ASSUME NEW j, NEW d, NEW t, NEW to, Ask(j, d, t, to)  PROVE NobodyWaitsInVain'
  BY <1>5, SentHeard DEF Ask
<1>6. ASSUME NEW l \in Loops, LoopStep(l)  PROVE NobodyWaitsInVain'
  BY <1>1, <1>5, <1>6 DEF LoopStep, EnableAgain, Reconnected
<1>7. ASSUME NEW u \in Users, UserStep(u)  PROVE NobodyWaitsInVain'
  BY <1>1, <1>5, <1>7 DEF UserStep, Connect, Send, EnableDomain, EnableDomainForTarget
<1>8. ASSUME NEW s \in Sockets, SocketStep(s)  PROVE NobodyWaitsInVain'
  <2>1. CASE Opened(s)  BY <2>1 DEF Opened, TypeOK, NobodyWaitsInVain, Heard
  <2>2. CASE SocketClosed(s) \/ Refused(s)
    BY <1>2, <2>2 DEF SocketClosed, Refused, CloseEvent
  <2> QED  BY <1>8, <2>1, <2>2 DEF SocketStep
<1>9. ASSUME NEW s \in Sockets, BeatStep(s)  PROVE NobodyWaitsInVain'
  <2>1. CASE Beat(s)  BY <2>1, SentHeard DEF Beat
  <2>2. CASE Alive(s)  BY <1>1, <2>2 DEF Alive, TypeOK
  <2>3. CASE Missed(s)
    <3> DEFINE replies == [reply EXCEPT ![Probe(s)] = "idle"]
    <3>1. CASE reply' = replies /\ UNCHANGED sock  BY <1>1, <3>1 DEF TypeOK
    <3>2. CASE reply' = Rejected(replies)  BY <1>2, <3>2
    <3> QED  BY <2>3, <3>1, <3>2 DEF Missed
  <2> QED  BY <1>9, <2>1, <2>2, <2>3 DEF BeatStep
<1>10. ASSUME NEW t \in Targets, PageStep(t) \/ PageReady(t)  PROVE NobodyWaitsInVain'
  <2>1. CASE TargetCreated(t)
    BY <2>1 DEF TargetCreated, NobodyWaitsInVain, Heard
  <2>2. CASE PageReady(t)  BY <1>1, <2>2 DEF PageReady
  <2>3. CASE TargetDestroyed(t) \/ SetActive(t)
    BY <1>1, <2>3 DEF TargetDestroyed, SetActive
  <2> QED  BY <1>10, <2>1, <2>2, <2>3 DEF PageStep
<1>11. ASSUME NEW q \in Requests, Answer(q) \/ TimeOut(q)  PROVE NobodyWaitsInVain'
  BY <1>1, <1>11 DEF Answer, TimeOut, TypeOK
<1>12. CASE Disconnect  BY <1>2, <1>12 DEF Disconnect
<1> QED
  BY <1>3, <1>4, <1>6, <1>7, <1>8, <1>9, <1>10, <1>11, <1>12 DEF Next, ListStep

LEMMA WatchPreserved ==
  ASSUME TypeOK, WatchedWhileConnected, Next
  PROVE  WatchedWhileConnected'
<1>1. CASE UNCHANGED <<connected, intervals, timer>>  BY <1>1 DEF WatchedWhileConnected
<1> USE DEF WatchedWhileConnected
<1>2. ASSUME NEW s \in Sockets, NEW jobs, CloseEvent(s, jobs)
      PROVE  WatchedWhileConnected'
  BY <1>1, <1>2 DEF CloseEvent, StartReconnect
<1>3. ASSUME NEW j \in Jobs, JobStep(j) \/ ListStep(j)  PROVE WatchedWhileConnected'
  BY <1>1, <1>3
  DEF JobStep, ListStep, NoTargets, Dial, Resume, DialError, DialTimeOut, TargetFound,
      TargetTimeOut, Enabled, NotEnabled
<1>4. ASSUME NEW l \in Loops, LoopStep(l)  PROVE WatchedWhileConnected'
  BY <1>1, <1>4 DEF LoopStep, EnableAgain, Reconnected, Ask
<1>5. ASSUME NEW u \in Users, UserStep(u)  PROVE WatchedWhileConnected'
  BY <1>1, <1>5 DEF UserStep, Connect, Send, EnableDomain, EnableDomainForTarget, Ask
<1>6. ASSUME NEW s \in Sockets, Opened(s)  PROVE WatchedWhileConnected'
  <2>1. s # 0  BY ClientAssumption DEF Sockets
  <2> HIDE DEF WatchedWhileConnected
  <2>2. CASE UNCHANGED beatVars  BY <1>1, <2>2
  <2>3. CASE timer' = s /\ intervals' = intervals \cup {s}
    BY <2>1, <2>3 DEF WatchedWhileConnected
  <2> QED  BY <1>6, <2>2, <2>3 DEF Opened
<1>7. ASSUME NEW s \in Sockets, SocketStep(s)  PROVE WatchedWhileConnected'
  BY <1>2, <1>6, <1>7 DEF SocketStep, SocketClosed, Refused
<1>8. ASSUME NEW s \in Sockets, BeatStep(s)  PROVE WatchedWhileConnected'
  BY <1>1, <1>8 DEF BeatStep, Beat, Alive, Missed, StartReconnect
<1>9. ASSUME NEW t \in Targets, PageStep(t) \/ PageReady(t)  PROVE WatchedWhileConnected'
  BY <1>1, <1>9 DEF PageStep, TargetCreated, TargetDestroyed, SetActive, PageReady
<1>10. ASSUME NEW q \in Requests, Answer(q) \/ TimeOut(q)  PROVE WatchedWhileConnected'
  BY <1>1, <1>10 DEF Answer, TimeOut
<1>11. CASE Disconnect  BY <1>11 DEF Disconnect
<1> QED
  BY <1>3, <1>4, <1>5, <1>7, <1>8, <1>9, <1>10, <1>11 DEF Next

-----------------------------------------------------------------------------
(* The theorems.                                                           *)

LEMMA TypeInit == Init => TypeOK
<1> SUFFICES ASSUME Init PROVE TypeOK  OBVIOUS
<1>1. job \in [Jobs -> JobType]  BY IdleType DEF Init
<1>2. fails \in 0..Threshold - 1  BY ZeroFails DEF Init
<1>3. waiter \in Jobs \cup {None} /\ active \in Targets \cup {None}  BY DEF Init
<1>4. reply \in [Requests -> {"idle", "waiting", "ok", "failed"}]  BY DEF Init
<1>5. sock \in [Sockets -> {"new", "opening", "open", "gone"}]  BY DEF Init
<1>6. pageDomains \in [Targets -> SUBSET Domains]  BY DEF Init
<1> QED  BY <1>1, <1>2, <1>3, <1>4, <1>5, <1>6 DEF Init, TypeOK

Inv == TypeOK /\ OneLoop /\ ActiveIsKnown /\ NobodyWaitsInVain /\ WatchedWhileConnected

LEMMA Invariance == Spec => []Inv
<1>1. Init => Inv
  <2> SUFFICES ASSUME Init PROVE Inv  OBVIOUS
  <2>1. OneLoop  BY DEF Init, OneLoop, Jobs
  <2>2. ActiveIsKnown /\ WatchedWhileConnected
    BY DEF Init, ActiveIsKnown, WatchedWhileConnected
  <2>3. NobodyWaitsInVain  BY DEF Init, NobodyWaitsInVain
  <2> QED  BY <2>1, <2>2, <2>3, TypeInit DEF Inv
<1>2. Inv /\ [Next]_vars => Inv'
  <2> SUFFICES ASSUME Inv, [Next]_vars PROVE Inv'  OBVIOUS
  <2>1. CASE Next
    BY <2>1, TypeStep, LoopPreserved, ActivePreserved, WaitPreserved, WatchPreserved DEF Inv
  <2>2. CASE UNCHANGED vars
    BY <2>2
    DEF vars, Inv, TypeOK, OneLoop, ActiveIsKnown, NobodyWaitsInVain, Heard,
        WatchedWhileConnected
  <2> QED  BY <2>1, <2>2
<1> QED  BY <1>1, <1>2, PTL DEF Spec

\* The client's state keeps its shape.
THEOREM TypeCorrect == Spec => []TypeOK
<1>1. Inv => TypeOK  BY DEF Inv
<1> QED  BY <1>1, Invariance, PTL

\* Reconnecting is one loop, and reconnecting says so.
THEOREM ReconnectsOnce == Spec => []OneLoop
<1>1. Inv => OneLoop  BY DEF Inv
<1> QED  BY <1>1, Invariance, PTL

\* Commands go to a page that is known.
THEOREM ActiveKnown == Spec => []ActiveIsKnown
<1>1. Inv => ActiveIsKnown  BY DEF Inv
<1> QED  BY <1>1, Invariance, PTL

\* A request waits only as long as a socket could answer it.
THEOREM WaitsEnd == Spec => []NobodyWaitsInVain
<1>1. Inv => NobodyWaitsInVain  BY DEF Inv
<1> QED  BY <1>1, Invariance, PTL

\* A connected client has its heartbeat.
THEOREM Watched == Spec => []WatchedWhileConnected
<1>1. Inv => WatchedWhileConnected  BY DEF Inv
<1> QED  BY <1>1, Invariance, PTL
=============================================================================
