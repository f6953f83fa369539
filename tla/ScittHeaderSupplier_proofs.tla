--------------------- MODULE ScittHeaderSupplier_proofs ---------------------
(***************************************************************************)
(* Proofs about ScittHeaderSupplier, for any number of calls, any lifetime *)
(* and intervals, and every interleaving of callers, manual refreshes and  *)
(* the refresh loop.                                                       *)
(***************************************************************************)
EXTENDS ScittHeaderSupplier, TLAPS

LEMMA Distinct == /\ Loop \in Tasks /\ Loop \notin Callers /\ Loop \notin Manual
                  /\ Callers \subseteq Tasks /\ Manual \subseteq Tasks
                  /\ \A t \in Callers : t \notin Manual
                  /\ Free \notin Tasks
  BY TaskAssumption DEF Tasks

LEMMA Numbers == /\ Time \subseteq Int /\ Missing \notin Time /\ 0 \in Time
                 /\ \A x \in Time : x \in Nat
                 /\ Ttl \in Int /\ MinRefresh \in Int /\ HttpTimeout \in Int
                 /\ MinRefresh > 0 /\ HttpTimeout >= 0 /\ Ttl >= 0
                 /\ InitTimeout \in Nat
  BY TaskAssumption, TimeAssumption DEF Time

\* compute_refresh_interval: at least the minimum, and no longer than half of a
\* lifetime beyond it.
LEMMA IntervalBounds ==
    ASSUME now \in Time, NEW k \in Tokens
    PROVE  /\ RefreshInterval(k) \in Nat
           /\ k # Missing /\ k <= now => RefreshInterval(k) <= LongestSleep
<1>1. CASE k = Missing
  BY <1>1, Numbers DEF RefreshInterval
<1>2. CASE k # Missing
  <2>1. k \in Int /\ now \in Int
    BY <1>2, Numbers DEF Tokens
  <2> DEFINE left == Exp(k) - now
  <2>2. left \in Int /\ (k <= now => left <= Ttl)
    BY <2>1, Numbers DEF Exp
  <2>3. /\ left \div 2 \in Int /\ Ttl \div 2 \in Int
        /\ (left <= Ttl => left \div 2 <= Ttl \div 2)
    <3> HIDE DEF left
    <3> QED
      BY <2>2, Numbers
  <2> QED
    BY <1>2, <2>1, <2>2, <2>3, Numbers DEF RefreshInterval, LongestSleep
<1> QED
  BY <1>1, <1>2

LEMMA SleepIsJob ==
    ASSUME now \in Time, NEW k \in Tokens
    PROVE  Sleep(k) \in Job
<1>1. now + RefreshInterval(k) \in Nat
  BY IntervalBounds, Numbers
<1> QED
  BY <1>1, Numbers DEF Sleep, Idle, Job, PCs, Tokens

LEMMA IdleIsJob == /\ Idle \in Job
                   /\ \A pc \in PCs : [Idle EXCEPT !.pc = pc] \in Job
  BY Numbers DEF Idle, Job, PCs, Tokens, InFlight

\* Only the task that ends its refresh changes, and how.
LEMMA FinishKeeps ==
    ASSUME IndInv, NEW t \in Tasks, NEW k \in Tokens, NEW ok \in BOOLEAN, Finish(t, k, ok)
    PROVE  /\ gate' \in Callers \cup {Free} /\ job' \in [Tasks -> Job] /\ healthy' \in BOOLEAN
           /\ GateHeldByFetcher'
           /\ \A u \in Tasks \ {t} : job'[u] = job[u]
           /\ job'[t].since = 0 /\ job'[t].pc \notin InFlight
           /\ t = Loop => job'[t] = Sleep(k) /\ healthy' = ok
           /\ t # Loop => healthy' = healthy /\ job'[Loop] = job[Loop]
<1>1. job' \in [Tasks -> Job]
  BY SleepIsJob, IdleIsJob DEF Finish, IndInv, TypeOK, PCs
<1>2. /\ \A u \in Tasks \ {t} : job'[u] = job[u]
      /\ job'[t].since = 0 /\ job'[t].pc \notin InFlight
      /\ t = Loop => job'[t] = Sleep(k)
      /\ t # Loop => job'[Loop] = job[Loop]
  BY Distinct DEF Finish, IndInv, TypeOK, Sleep, Idle, InFlight
<1>3. gate' \in Callers \cup {Free} /\ healthy' \in BOOLEAN
  BY DEF Finish, IndInv, TypeOK
<1>4. GateHeldByFetcher'
  <2> SUFFICES ASSUME NEW c \in Callers
               PROVE  gate' = c <=> job'[c].pc \in InFlight
    BY DEF GateHeldByFetcher
  <2>1. CASE c = t
    BY <2>1, <1>2, Distinct DEF Finish
  <2>2. CASE c # t
    <3>1. job'[c] = job[c]
      BY <2>2, <1>2, Distinct
    <3>2. gate' = c <=> gate = c
      BY <2>2, Distinct DEF Finish
    <3> QED
      BY <3>1, <3>2 DEF IndInv, GateHeldByFetcher
  <2> QED
    BY <2>1, <2>2
<1> QED
  BY <1>1, <1>2, <1>3, <1>4 DEF Finish

LEMMA InitInv == Init => IndInv
<1> SUFFICES ASSUME Init PROVE IndInv
  OBVIOUS
<1>1. TypeOK
  BY IdleIsJob, Numbers DEF Init, TypeOK, Tokens
<1>2. job[Loop] = Idle /\ \A t \in Tasks : job[t] = Idle
  BY Distinct DEF Init
<1>3. GateHeldByFetcher /\ LoopInTime
  BY <1>2, Distinct DEF Init, GateHeldByFetcher, LoopInTime, Idle, InFlight
<1>4. InOrder /\ StoredFresh
  BY <1>2, Numbers DEF Init, InOrder, StoredFresh, NoToken, Idle
<1> QED
  BY <1>1, <1>3, <1>4 DEF IndInv

-----------------------------------------------------------------------------
(* One lemma per action *)

\* A refresh that ends without storing anything.
LEMMA FailureKeeps ==
    ASSUME IndInv, NEW t \in Tasks, UNCHANGED <<now, artifacts>>,
           Finish(t, artifacts.token, FALSE)
    PROVE  IndInv'
<1>1. artifacts.token \in Tokens
  BY DEF IndInv, TypeOK
<1>2. TypeOK' /\ GateHeldByFetcher'
  BY <1>1, FinishKeeps DEF IndInv, TypeOK
<1>3. InOrder' /\ StoredFresh'
  <2>1. \A u \in Tasks : job'[u] = job[u] \/ (job'[u].since = 0 /\ job'[u].pc # "store")
    BY <1>1, FinishKeeps DEF InFlight
  <2>2. 0 <= now
    BY Numbers DEF IndInv, TypeOK
  <2> QED
    BY <2>1, <2>2 DEF IndInv, InOrder, StoredFresh, NoToken
<1>4. LoopInTime'
  <2>1. CASE t = Loop
    <3>1. job'[Loop] = Sleep(artifacts.token) /\ healthy' = FALSE
      BY <2>1, <1>1, FinishKeeps
    <3>2. now \in Nat /\ RefreshInterval(artifacts.token) \in Nat
      BY <1>1, IntervalBounds, Numbers DEF IndInv, TypeOK
    <3> QED
      BY <3>1, <3>2 DEF LoopInTime, Sleep, Idle
  <2>2. CASE t # Loop
    BY <2>2, <1>1, FinishKeeps DEF IndInv, LoopInTime, NoToken
  <2> QED
    BY <2>1, <2>2
<1> QED
  BY <1>2, <1>3, <1>4 DEF IndInv

LEMMA ReceiptReplyKeeps ==
    ASSUME IndInv, NEW t \in Tasks, ReceiptReply(t)
    PROVE  IndInv'
<1>1. CASE t \in Manual /\ UNCHANGED artifacts /\ Finish(t, artifacts.token, FALSE)
  BY <1>1, FailureKeeps DEF ReceiptReply
<1>2. CASE /\ job' = [job EXCEPT ![t].pc = "token", ![t].since = now]
           /\ UNCHANGED gate
           /\ artifacts' \in {artifacts, [artifacts EXCEPT !.receipt = TRUE]}
           /\ healthy' \in BOOLEAN /\ (t # Loop => healthy' = healthy)
  <2> USE <1>2 DEF ReceiptReply
  <2>1. job'[t].pc = "token" /\ job'[t].since = now /\ \A u \in Tasks \ {t} : job'[u] = job[u]
    BY DEF IndInv, TypeOK
  <2>2. /\ artifacts'.token = artifacts.token /\ artifacts'.stored = artifacts.stored
        /\ artifacts' \in [receipt : BOOLEAN, token : Tokens, stored : Time]
    BY DEF IndInv, TypeOK
  <2>3. TypeOK'
    <3>1. now \in Time /\ job[t] \in Job
      BY DEF IndInv, TypeOK
    <3>2. [job[t] EXCEPT !.pc = "token", !.since = now] \in Job
      BY <3>1 DEF Job, PCs, InFlight
    <3>3. job' \in [Tasks -> Job]
      BY <3>2 DEF IndInv, TypeOK
    <3> QED
      BY <2>2, <3>3 DEF IndInv, TypeOK
  <2>4. GateHeldByFetcher'
    BY <2>1, Distinct DEF IndInv, GateHeldByFetcher, InFlight
  <2>5. InOrder' /\ StoredFresh'
    <3>1. now <= now
      BY Numbers DEF IndInv, TypeOK
    <3>2. StoredFresh'
      BY <2>2 DEF IndInv, StoredFresh, NoToken
    <3>3. artifacts'.stored <= now' /\ (~NoToken' => artifacts'.token <= artifacts'.stored)
      BY <2>2 DEF IndInv, InOrder, NoToken
    <3>4. ASSUME NEW u \in Tasks
          PROVE  /\ job'[u].since <= now'
                 /\ job'[u].pc = "store" => /\ job'[u].got # Missing
                                            /\ job'[u].since <= job'[u].got
                                            /\ job'[u].got <= now'
      BY <2>1, <3>1 DEF IndInv, InOrder
    <3> QED
      BY <3>2, <3>3, <3>4 DEF InOrder
  <2>6. LoopInTime'
    BY <2>1, <2>2, Distinct DEF IndInv, LoopInTime, NoToken
  <2> QED
    BY <2>3, <2>4, <2>5, <2>6 DEF IndInv
<1> QED
  BY <1>1, <1>2 DEF ReceiptReply, IndInv, TypeOK

LEMMA TokenReplyKeeps ==
    ASSUME IndInv, NEW t \in Tasks, TokenReply(t)
    PROVE  IndInv'
<1>1. CASE Finish(t, artifacts.token, FALSE)
  BY <1>1, FailureKeeps DEF TokenReply
<1>2. CASE \E k \in Time : /\ job[t].since <= k /\ k <= now
                           /\ job' = [job EXCEPT ![t].pc = "store", ![t].got = k]
                           /\ UNCHANGED <<gate, healthy>>
  <2>1. PICK k \in Time : /\ job[t].since <= k /\ k <= now
                          /\ job' = [job EXCEPT ![t].pc = "store", ![t].got = k]
                          /\ UNCHANGED <<gate, healthy>>
    BY <1>2
  <2> USE <2>1 DEF TokenReply
  <2>2. /\ job'[t].pc = "store" /\ job'[t].since = job[t].since /\ job'[t].got = k
        /\ \A u \in Tasks \ {t} : job'[u] = job[u]
    BY DEF IndInv, TypeOK, Job
  <2>3. TypeOK'
    <3>1. job[t] \in Job /\ k \in Tokens
      BY DEF IndInv, TypeOK, Tokens
    <3>2. [job[t] EXCEPT !.pc = "store", !.got = k] \in Job
      BY <3>1 DEF Job, PCs, InFlight
    <3>3. job' \in [Tasks -> Job]
      BY <3>2 DEF IndInv, TypeOK
    <3> QED
      BY <3>3 DEF IndInv, TypeOK
  <2>4. GateHeldByFetcher'
    BY <2>2, Distinct DEF IndInv, GateHeldByFetcher, InFlight
  <2>5. InOrder' /\ StoredFresh'
    BY <2>2, Numbers DEF IndInv, InOrder, StoredFresh, NoToken
  <2>6. LoopInTime'
    BY <2>2, Distinct DEF IndInv, LoopInTime, NoToken
  <2> QED
    BY <2>3, <2>4, <2>5, <2>6 DEF IndInv
<1> QED
  BY <1>1, <1>2 DEF TokenReply

\* What is stored was issued while its request was under way, hence is as fresh
\* as the timeout of a request promises.
LEMMA StoreTokenKeeps ==
    ASSUME IndInv, NEW t \in Tasks, StoreToken(t)
    PROVE  IndInv'
<1>1. CASE UNCHANGED artifacts /\ Finish(t, artifacts.token, FALSE)
  BY <1>1, FailureKeeps DEF StoreToken
<1>2. CASE /\ InTime(t)
           /\ artifacts' = [artifacts EXCEPT !.token = job[t].got, !.stored = now]
           /\ Finish(t, job[t].got, healthy)
  <2> DEFINE k == job[t].got
  <2> USE <1>2 DEF StoreToken
  <2>1. /\ k \in Time /\ job[t].since \in Time /\ now \in Time
        /\ job[t].since <= k /\ k <= now /\ k # Missing
    BY Numbers DEF IndInv, TypeOK, InOrder, Job, Tokens
  <2>2. /\ artifacts'.token = k /\ artifacts'.stored = now
        /\ artifacts' \in [receipt : BOOLEAN, token : Tokens, stored : Time]
    BY <2>1 DEF IndInv, TypeOK, Tokens
  <2>3. k \in Tokens /\ healthy \in BOOLEAN
    BY <2>1 DEF Tokens, IndInv, TypeOK
  <2>4. TypeOK' /\ GateHeldByFetcher'
    BY <2>2, <2>3, FinishKeeps DEF IndInv, TypeOK
  <2>5. InOrder' /\ StoredFresh'
    <3>1. \A u \in Tasks : job'[u] = job[u] \/ (job'[u].since = 0 /\ job'[u].pc # "store")
      BY <2>3, FinishKeeps DEF InFlight
    <3>2. now \in Int /\ 0 <= now /\ k \in Int /\ now <= k + HttpTimeout
      BY <2>1, Numbers DEF InTime
    <3> QED
      BY <2>1, <2>2, <3>1, <3>2 DEF IndInv, InOrder, StoredFresh, NoToken
  <2>6. LoopInTime'
    <3>1. CASE t = Loop
      <4>1. job'[Loop] = Sleep(k)
        BY <3>1, <2>3, FinishKeeps
      <4>2. /\ now \in Nat /\ RefreshInterval(k) \in Nat /\ LongestSleep \in Int
            /\ RefreshInterval(k) <= LongestSleep
        BY <2>1, <2>3, IntervalBounds, Numbers DEF LongestSleep
      <4>3. job'[Loop].until = now + RefreshInterval(k)
        BY <4>1 DEF Sleep, Idle
      <4> QED
        BY <2>1, <2>2, <4>2, <4>3 DEF LoopInTime, NoToken
    <3>2. CASE t # Loop
      <4>1. job'[Loop] = job[Loop] /\ healthy' = healthy
        BY <3>2, <2>3, FinishKeeps
      <4>2. /\ artifacts.stored <= now /\ artifacts.stored \in Int /\ now \in Int
            /\ job[Loop].until \in Int /\ LongestSleep \in Int
        BY Distinct, Numbers DEF IndInv, TypeOK, InOrder, Job, LongestSleep
      <4> QED
        BY <2>1, <2>2, <4>1, <4>2 DEF IndInv, LoopInTime, NoToken
    <3> QED
      BY <3>1, <3>2
  <2> QED
    BY <2>4, <2>5, <2>6 DEF IndInv
<1> QED
  BY <1>1, <1>2 DEF StoreToken

\* Steps of one task that touch neither the artifacts nor the loop.
LEMMA JobChangeKeeps ==
    ASSUME IndInv, NEW t \in Tasks, t # Loop, NEW j \in Job,
           job' = [job EXCEPT ![t] = j], j.pc # "store", j.since <= now,
           UNCHANGED <<now, artifacts, healthy>>,
           gate' \in Callers \cup {Free}, GateHeldByFetcher'
    PROVE  IndInv'
<1>1. job'[t] = j /\ \A u \in Tasks \ {t} : job'[u] = job[u]
  BY DEF IndInv, TypeOK
<1>2. TypeOK'
  BY DEF IndInv, TypeOK
<1>3. InOrder' /\ StoredFresh' /\ LoopInTime'
  BY <1>1, Distinct DEF IndInv, InOrder, StoredFresh, LoopInTime, NoToken
<1> QED
  BY <1>2, <1>3 DEF IndInv

\* A request begins now; nobody is kept waiting by it.
LEMMA RequestIsJob ==
    ASSUME IndInv
    PROVE  /\ Request \in Job /\ Request.pc = "receipt" /\ Request.since = now
           /\ Idle.since = 0 /\ Idle.pc = "idle" /\ 0 <= now /\ now <= now
           /\ \A c \in Callers : /\ [job[c] EXCEPT !.pc = "receipt", !.since = now] \in Job
<1>1. now \in Time /\ \A c \in Callers : job[c] \in Job
  BY Distinct DEF IndInv, TypeOK
<1>2. Request \in Job /\ Request.pc = "receipt" /\ Request.since = now
  BY <1>1, Numbers DEF Request, Idle, Job, PCs, InFlight, Tokens
<1>3. \A c \in Callers : [job[c] EXCEPT !.pc = "receipt", !.since = now] \in Job
  BY <1>1 DEF Job, PCs, InFlight
<1>4. 0 <= now /\ now <= now
  BY <1>1, Numbers
<1>5. Idle.since = 0 /\ Idle.pc = "idle"
  BY DEF Idle
<1> QED
  BY <1>2, <1>3, <1>4, <1>5

LEMMA CallKeeps ==
    ASSUME IndInv, NEW c \in Callers, Call(c)
    PROVE  IndInv'
<1> DEFINE j == IF NeedsInit THEN [Idle EXCEPT !.pc = "gate", !.until = now + InitTimeout]
                             ELSE [Idle EXCEPT !.pc = "read"]
<1>1. now \in Nat /\ now + InitTimeout \in Nat
  BY Numbers DEF IndInv, TypeOK
<1>2. j \in Job /\ j.pc \in {"gate", "read"} /\ j.since = 0
  BY <1>1, Numbers DEF Idle, Job, PCs, Tokens
<1>3. job' = [job EXCEPT ![c] = j] /\ job[c].pc = "idle" /\ UNCHANGED <<now, artifacts, gate, healthy>>
  BY DEF Call
<1> HIDE DEF j
<1>4. GateHeldByFetcher'
  <2>1. job'[c] = j /\ \A u \in Callers \ {c} : job'[u] = job[u]
    BY <1>3, Distinct DEF IndInv, TypeOK
  <2> QED
    BY <1>2, <1>3, <2>1 DEF IndInv, GateHeldByFetcher, InFlight
<1>5. gate' \in Callers \cup {Free}
  BY <1>3 DEF IndInv, TypeOK
<1>6. c \in Tasks /\ c # Loop /\ j.pc # "store" /\ j.since <= now
  BY <1>1, <1>2, Distinct
<1> QED
  BY <1>2, <1>3, <1>4, <1>5, <1>6, JobChangeKeeps

LEMMA EnterGateKeeps ==
    ASSUME IndInv, NEW c \in Callers, EnterGate(c)
    PROVE  IndInv'
<1> DEFINE j == IF NeedsInit THEN [job[c] EXCEPT !.pc = "receipt", !.since = now]
                             ELSE [Idle EXCEPT !.pc = "read"]
<1>1. /\ job' = [job EXCEPT ![c] = j] /\ UNCHANGED <<now, artifacts, healthy>>
      /\ gate = Free /\ job[c].pc = "gate"
      /\ gate' = IF NeedsInit THEN c ELSE Free
  BY Distinct DEF EnterGate, IndInv, TypeOK
<1>2. job[c] \in Job
  BY Distinct DEF IndInv, TypeOK
<1>3. j \in Job /\ j.since <= now /\ j.pc = IF NeedsInit THEN "receipt" ELSE "read"
  BY <1>2, RequestIsJob, IdleIsJob DEF Job, PCs, Idle
<1> HIDE DEF j
<1>4. GateHeldByFetcher'
  <2>1. job'[c] = j /\ \A u \in Callers \ {c} : job'[u] = job[u]
    BY <1>1, Distinct DEF IndInv, TypeOK
  <2>2. \A u \in Callers : gate' = u <=> (u = c /\ NeedsInit)
    BY <1>1, Distinct
  <2>3. \A u \in Callers : job[u].pc \notin InFlight
    BY <1>1, Distinct DEF IndInv, GateHeldByFetcher
  <2> QED
    BY <1>3, <2>1, <2>2, <2>3 DEF GateHeldByFetcher, InFlight
<1> QED
  BY <1>1, <1>3, <1>4, JobChangeKeeps, Distinct

LEMMA InitTimesOutKeeps ==
    ASSUME IndInv, NEW c \in Callers, InitTimesOut(c)
    PROVE  IndInv'
  BY FailureKeeps, Distinct DEF InitTimesOut

LEMMA ReadKeeps ==
    ASSUME IndInv, NEW c \in Callers, Read(c)
    PROVE  IndInv'
<1>1. job'[c] = Idle /\ \A u \in Callers \ {c} : job'[u] = job[u]
  BY Distinct DEF Read, IndInv, TypeOK
<1>2. GateHeldByFetcher'
  BY <1>1, RequestIsJob DEF Read, IndInv, GateHeldByFetcher, InFlight
<1>3. gate' \in Callers \cup {Free}
  BY DEF Read, IndInv, TypeOK
<1> QED
  BY <1>2, <1>3, RequestIsJob, IdleIsJob, JobChangeKeeps, Distinct DEF Read

LEMMA RefreshNowKeeps ==
    ASSUME IndInv, NEW m \in Manual, RefreshNow(m)
    PROVE  IndInv'
<1>1. \A u \in Callers : job'[u] = job[u]
  BY Distinct DEF RefreshNow, IndInv, TypeOK
<1>2. GateHeldByFetcher' /\ gate' \in Callers \cup {Free}
  BY <1>1 DEF RefreshNow, IndInv, GateHeldByFetcher, TypeOK
<1> QED
  BY <1>2, RequestIsJob, JobChangeKeeps, Distinct DEF RefreshNow

\* The loop begins a request or goes to sleep without having refreshed.
LEMMA LoopKeeps ==
    ASSUME IndInv, StartLoop \/ Wake
    PROVE  IndInv'
<1> DEFINE j == IF Wake \/ NeedsInit THEN Request ELSE Sleep(artifacts.token)
<1>1. artifacts.token \in Tokens /\ now \in Time /\ now \in Int
  BY Numbers DEF IndInv, TypeOK
<1>2. /\ job' = [job EXCEPT ![Loop] = j] /\ UNCHANGED <<now, artifacts, gate>>
      /\ healthy' \in BOOLEAN /\ (j.pc = "sleep" => healthy' = FALSE)
  BY RequestIsJob DEF StartLoop, Wake, NeedsInit, NoToken
<1>3. j \in Job /\ j.since <= now /\ j.pc # "store"
  BY <1>1, RequestIsJob, SleepIsJob DEF Sleep, Idle
<1>4. j.pc = "sleep" => now <= j.until
  <2>1. RefreshInterval(artifacts.token) \in Nat
    BY <1>1, IntervalBounds
  <2>2. Sleep(artifacts.token).until = now + RefreshInterval(artifacts.token)
    BY DEF Sleep, Idle
  <2>3. now <= Sleep(artifacts.token).until
    BY <1>1, <2>1, <2>2
  <2>4. Request.pc # "sleep"
    BY RequestIsJob
  <2> QED
    BY <2>3, <2>4
<1> HIDE DEF j
<1>5. job'[Loop] = j /\ \A u \in Tasks \ {Loop} : job'[u] = job[u]
  BY <1>2, Distinct DEF IndInv, TypeOK
<1>6. TypeOK'
  BY <1>2, <1>3 DEF IndInv, TypeOK
<1>7. GateHeldByFetcher'
  BY <1>2, <1>5, Distinct DEF IndInv, GateHeldByFetcher
<1>8. InOrder' /\ StoredFresh'
  BY <1>2, <1>3, <1>5 DEF IndInv, InOrder, StoredFresh, NoToken
<1>9. LoopInTime'
  BY <1>2, <1>4, <1>5 DEF LoopInTime
<1> QED
  BY <1>6, <1>7, <1>8, <1>9 DEF IndInv

LEMMA DropKeeps ==
    ASSUME IndInv, NEW t \in Tasks, Drop(t)
    PROVE  IndInv'
<1>1. job'[t] = Idle /\ \A u \in Tasks \ {t} : job'[u] = job[u]
  BY DEF Drop, IndInv, TypeOK
<1>2. TypeOK'
  BY IdleIsJob DEF Drop, IndInv, TypeOK
<1>3. GateHeldByFetcher'
  <2> SUFFICES ASSUME NEW c \in Callers
               PROVE  gate' = c <=> job'[c].pc \in InFlight
    BY DEF GateHeldByFetcher
  <2>1. CASE c = t
    BY <2>1, <1>1, RequestIsJob, Distinct DEF Drop, InFlight
  <2>2. CASE c # t
    BY <2>2, <1>1, Distinct DEF Drop, IndInv, GateHeldByFetcher
  <2> QED
    BY <2>1, <2>2
<1>4. InOrder' /\ StoredFresh'
  BY <1>1, RequestIsJob DEF Drop, IndInv, InOrder, StoredFresh, NoToken
<1>5. LoopInTime'
  BY <1>1, RequestIsJob, Distinct DEF Drop, IndInv, LoopInTime, NoToken, TypeOK
<1> QED
  BY <1>2, <1>3, <1>4, <1>5 DEF IndInv

LEMMA TickKeeps ==
    ASSUME IndInv, Tick
    PROVE  IndInv'
<1>1. now \in Int /\ now' = now + 1 /\ now' \in Time
  BY Numbers, TimeAssumption DEF Tick, IndInv, TypeOK, Time
<1>2. TypeOK' /\ GateHeldByFetcher' /\ StoredFresh'
  BY <1>1 DEF Tick, IndInv, TypeOK, GateHeldByFetcher, StoredFresh, NoToken
<1>3. InOrder'
  <2>1. /\ artifacts.stored \in Int
        /\ \A t \in Tasks : /\ job[t].since \in Int
                            /\ job[t].got # Missing => job[t].got \in Int
    BY Numbers DEF IndInv, TypeOK, Job, Tokens
  <2> QED
    BY <1>1, <2>1 DEF Tick, IndInv, InOrder, NoToken
<1>4. LoopInTime'
  <2>1. job[Loop].until \in Int
    BY Distinct DEF IndInv, TypeOK, Job
  <2> QED
    BY <1>1, <2>1 DEF Tick, IndInv, LoopInTime, NoToken
<1> QED
  BY <1>2, <1>3, <1>4 DEF IndInv

LEMMA StepKeeps == IndInv /\ [Next]_vars => IndInv'
<1> SUFFICES ASSUME IndInv, [Next]_vars PROVE IndInv'
  OBVIOUS
<1>1. CASE UNCHANGED vars
  BY <1>1 DEF vars, IndInv, TypeOK, GateHeldByFetcher, InOrder, StoredFresh, LoopInTime, NoToken
<1>2. CASE Next
  BY <1>2, ReceiptReplyKeeps, TokenReplyKeeps, StoreTokenKeeps, DropKeeps, CallKeeps,
     EnterGateKeeps, InitTimesOutKeeps, ReadKeeps, RefreshNowKeeps, LoopKeeps, TickKeeps
     DEF Next
<1> QED
  BY <1>1, <1>2

-----------------------------------------------------------------------------
(* The theorems *)

(***************************************************************************)
(* Types, the holder of init_gate, the order of requests and stored tokens *)
(* in time, and the bound on the sleep of the loop.                        *)
(***************************************************************************)
THEOREM SupplierInvariant == Spec => []IndInv
  BY InitInv, StepKeeps, PTL DEF Spec

(***************************************************************************)
(* init_gate is held by the caller that initialises and by nobody else:    *)
(* first callers fetch one at a time, and no failure, timeout or dropped   *)
(* future leaves it locked (current_headers).                              *)
(***************************************************************************)
THEOREM GateIsReleased == Spec => []GateHeldByFetcher
<1>1. IndInv => GateHeldByFetcher
  BY DEF IndInv
<1> QED
  BY <1>1, SupplierInvariant, PTL

(***************************************************************************)
(* If a lifetime is long enough, a token kept by a loop whose refreshes    *)
(* succeed is never past its expiry, whatever refresh_now and the callers  *)
(* store meanwhile (compute_refresh_interval, start_auto_refresh).         *)
(***************************************************************************)
THEOREM TokenIsKept == Spec => []HealthyLoopKeepsToken
<1>1. IndInv => HealthyLoopKeepsToken
  <2> SUFFICES ASSUME IndInv, LongLived, job[Loop].pc = "sleep", healthy
               PROVE  ServedToken # Missing
    BY DEF HealthyLoopKeepsToken
  <2>1. /\ ~NoToken /\ now <= job[Loop].until
        /\ job[Loop].until <= artifacts.stored + LongestSleep
        /\ artifacts.stored <= artifacts.token + HttpTimeout
    BY DEF IndInv, LoopInTime, StoredFresh
  <2>2. /\ now \in Int /\ job[Loop].until \in Int
        /\ artifacts.stored \in Int /\ artifacts.token \in Int
    <3>1. /\ now \in Time /\ artifacts.stored \in Time /\ artifacts.token \in Time
          /\ job[Loop] \in Job
      BY <2>1, Distinct DEF IndInv, TypeOK, Tokens, NoToken
    <3>2. job[Loop].until \in Nat
      BY <3>1 DEF Job
    <3> QED
      BY <3>1, <3>2, TimeAssumption DEF Time
  <2>3. LongestSleep \in Int /\ LongestSleep + HttpTimeout < Ttl
    BY Numbers DEF LongestSleep, LongLived
  <2>4. now < Exp(artifacts.token)
    BY <2>1, <2>2, <2>3, Numbers DEF Exp
  <2> QED
    BY <2>1, <2>4 DEF ServedToken, NoToken
<1> QED
  BY <1>1, SupplierInvariant, PTL

(***************************************************************************)
(* A token is replaced by an older one only by a task whose request was    *)
(* under way when the newer one was stored (fetch_and_store_token).        *)
(***************************************************************************)
THEOREM SetBackNeedsOverlap == Spec => SetBackOnlyByOverlap
<1> DEFINE Overlaps == \A t \in Tasks :
              (StoreToken(t) /\ ~NoToken /\ artifacts'.token < artifacts.token)
                  => job[t].since <= artifacts.stored
<1>1. IndInv => Overlaps
  <2> SUFFICES ASSUME IndInv, NEW t \in Tasks, StoreToken(t), ~NoToken,
                      artifacts'.token < artifacts.token
               PROVE  job[t].since <= artifacts.stored
    OBVIOUS
  <2>1. /\ artifacts.token \in Int /\ artifacts.stored \in Int
        /\ job[t].since \in Int /\ job[t].got \in Int
        /\ artifacts.token <= artifacts.stored /\ job[t].since <= job[t].got
    BY Numbers DEF IndInv, TypeOK, InOrder, Job, Tokens, NoToken, StoreToken
  <2>2. artifacts'.token \in {job[t].got, artifacts.token}
    BY DEF StoreToken, IndInv, TypeOK
  <2> QED
    BY <2>1, <2>2
<1>2. IndInv /\ [Next]_vars => [Overlaps]_vars
  BY <1>1
<1> QED
  BY <1>2, SupplierInvariant, PTL DEF Spec, SetBackOnlyByOverlap
=============================================================================
