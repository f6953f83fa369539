------------------------ MODULE ScittHeaderSupplier ------------------------
(***************************************************************************)
(* The supplier of an agent's own SCITT headers, scitt/supplier.rs.  Tasks *)
(* share one receipt and one status token: calls of current_headers, which *)
(* fetch what is missing one at a time behind init_gate and give up after  *)
(* a timeout; calls of refresh_now and the auto-refresh loop, which fetch  *)
(* and store beside everybody else.                                        *)
(*                                                                         *)
(* A token is the moment it was issued: it expires Ttl later.  What the    *)
(* supplier does with an answer depends only on whether the answer is      *)
(* there and verifies, so the errors of the client (404, 410, 501, another *)
(* status, an oversized body, a transport error, the timeout) and those of *)
(* the verification are one failure.  The clocks of the TL and of the      *)
(* agent are one.                                                          *)
(***************************************************************************)
EXTENDS Integers

CONSTANTS
    Callers,      \* calls of current_headers
    Manual,       \* calls of refresh_now
    Loop,         \* the auto-refresh task
    Ttl,          \* lifetime of a status token
    MinRefresh,   \* MIN_REFRESH_INTERVAL
    HttpTimeout,  \* a request that takes longer fails; verifying and storing the
                  \* answer is assumed to be over by then as well
    InitTimeout,  \* init_timeout
    MaxTime,      \* bound on the clock
    Missing,      \* nothing fetched yet
    Free          \* nobody holds init_gate

Tasks  == Callers \cup Manual \cup {Loop}
Time   == 0 .. MaxTime
Tokens == Time \cup {Missing}

ASSUME TaskAssumption ==
    /\ Loop \notin Callers \cup Manual /\ Callers \cap Manual = {}
    /\ Missing \notin Int /\ Free \notin Tasks
ASSUME TimeAssumption ==
    /\ Ttl \in Nat /\ MinRefresh \in Nat /\ HttpTimeout \in Nat
    /\ InitTimeout \in Nat /\ MaxTime \in Nat
    /\ MinRefresh > 0

VARIABLES
    now,
    artifacts, \* CachedArtifacts: is there a receipt, the token, when it was stored
    gate,      \* the holder of init_gate
    job,       \* where each task is
    healthy    \* the last refresh of the loop succeeded, or nothing failed in it yet

vars == <<now, artifacts, gate, job, healthy>>

InFlight == {"receipt", "token", "store"}
PCs      == {"idle", "gate", "read", "sleep"} \cup InFlight

\* until: deadline of a caller, wake-up time of the loop.
\* since: when the request under way started; got: the token it was answered.
Job == [pc : PCs, until : Nat, since : Time, got : Tokens]

Idle    == [pc |-> "idle", until |-> 0, since |-> 0, got |-> Missing]
Request == [Idle EXCEPT !.pc = "receipt", !.since = now]

Init ==
    /\ now = 0
    /\ artifacts = [receipt |-> FALSE, token |-> Missing, stored |-> 0]
    /\ gate = Free
    /\ job = [t \in Tasks |-> Idle]
    /\ healthy = FALSE

-----------------------------------------------------------------------------
(* The refresh all tasks share: the receipt first, then the token.         *)

Exp(k)  == k + Ttl
NoToken == artifacts.token = Missing
NeedsInit == ~artifacts.receipt \/ NoToken

\* Mutant: sleeps until the token has lapsed.
RefreshIntervalFull(k) ==
    LET left == Exp(k) - now
    IN  IF k = Missing \/ left < MinRefresh THEN MinRefresh ELSE left

\* compute_refresh_interval: half of what remains, at least MinRefresh.
RefreshInterval(k) ==
    LET half == (Exp(k) - now) \div 2
    IN  IF k = Missing THEN MinRefresh
        ELSE IF half < MinRefresh THEN MinRefresh ELSE half

Sleep(k) == [Idle EXCEPT !.pc = "sleep", !.until = now + RefreshInterval(k)]

\* Where a refresh leaves its task, k being the token that is now stored: a
\* caller lets go of the gate and reads, the loop sleeps, refresh_now returns.
Finish(t, k, ok) ==
    /\ job' = [job EXCEPT ![t] =
                 IF t = Loop THEN Sleep(k)
                 ELSE IF t \in Callers THEN [Idle EXCEPT !.pc = "read"]
                 ELSE Idle]
    /\ gate' = IF gate = t THEN Free ELSE gate
    /\ healthy' = IF t = Loop THEN ok ELSE healthy

InTime(t) == now - job[t].since <= HttpTimeout

\* fetch_and_store_receipt: the answer verifies and is stored, or it does not.
\* Only refresh_now gives up at once; do_refresh_inner goes on to the token.
ReceiptReply(t) ==
    /\ job[t].pc = "receipt"
    /\ UNCHANGED now
    /\ \/ /\ InTime(t)
          /\ artifacts' = [artifacts EXCEPT !.receipt = TRUE]
          /\ job' = [job EXCEPT ![t].pc = "token", ![t].since = now]
          /\ UNCHANGED <<gate, healthy>>
       \/ /\ t \notin Manual
          /\ job' = [job EXCEPT ![t].pc = "token", ![t].since = now]
          /\ healthy' = IF t = Loop THEN FALSE ELSE healthy
          /\ UNCHANGED <<artifacts, gate>>
       \/ /\ t \in Manual
          /\ UNCHANGED artifacts
          /\ Finish(t, artifacts.token, FALSE)

\* Mutant: an answer kept from an earlier request is used again.
TokenReplyKept(t) ==
    /\ job[t].pc = "token"
    /\ \E k \in Time :
         /\ k <= now
         /\ job' = [job EXCEPT ![t].pc = "store", ![t].got = k]
    /\ UNCHANGED <<now, artifacts, gate, healthy>>

\* The TL answers with a token issued while the request was under way.
TokenReply(t) ==
    /\ job[t].pc = "token"
    /\ UNCHANGED <<now, artifacts>>
    /\ \/ /\ InTime(t)
          /\ \E k \in Time :
               /\ job[t].since <= k /\ k <= now
               /\ job' = [job EXCEPT ![t].pc = "store", ![t].got = k]
          /\ UNCHANGED <<gate, healthy>>
       \/ Finish(t, artifacts.token, FALSE)

\* verify_status_token_at under the current key snapshot, then the write lock.
\* A token signed with a key the snapshot lacks is refused like any other: the
\* supplier asks for no key refresh.  What is stored is replaced unseen.
StoreToken(t) ==
    /\ job[t].pc = "store"
    /\ UNCHANGED now
    /\ \/ /\ InTime(t)
          /\ artifacts' = [artifacts EXCEPT !.token = job[t].got, !.stored = now]
          /\ Finish(t, job[t].got, healthy)
       \/ /\ UNCHANGED artifacts
          /\ Finish(t, artifacts.token, FALSE)

-----------------------------------------------------------------------------
(* current_headers                                                         *)

Call(c) ==
    /\ job[c].pc = "idle"
    /\ now + InitTimeout <= MaxTime
    /\ job' = [job EXCEPT ![c] =
                 IF NeedsInit THEN [Idle EXCEPT !.pc = "gate", !.until = now + InitTimeout]
                              ELSE [Idle EXCEPT !.pc = "read"]]
    /\ UNCHANGED <<now, artifacts, gate, healthy>>

\* The lock of the gate, and the second look under it.
EnterGate(c) ==
    /\ job[c].pc = "gate"
    /\ gate = Free
    /\ IF NeedsInit
         THEN /\ gate' = c
              /\ job' = [job EXCEPT ![c].pc = "receipt", ![c].since = now]
         ELSE /\ UNCHANGED gate
              /\ job' = [job EXCEPT ![c] = [Idle EXCEPT !.pc = "read"]]
    /\ UNCHANGED <<now, artifacts, healthy>>

\* Mutant: the guard survives the timeout.
InitTimesOutHolding(c) ==
    /\ job[c].pc \in InFlight \cup {"gate"}
    /\ now >= job[c].until
    /\ job' = [job EXCEPT ![c] = [Idle EXCEPT !.pc = "read"]]
    /\ UNCHANGED <<now, artifacts, gate, healthy>>

\* The timeout drops the initialisation wherever it is, guard included.
InitTimesOut(c) ==
    /\ job[c].pc \in InFlight \cup {"gate"}
    /\ now >= job[c].until
    /\ Finish(c, artifacts.token, FALSE)
    /\ UNCHANGED <<now, artifacts>>

\* What a read gives out: whatever is there, a token only before its expiry.
\* A lapsed token is not fetched anew, only a missing one.
ServedToken == IF ~NoToken /\ now < Exp(artifacts.token) THEN artifacts.token ELSE Missing

Read(c) ==
    /\ job[c].pc = "read"
    /\ job' = [job EXCEPT ![c] = Idle]
    /\ UNCHANGED <<now, artifacts, gate, healthy>>

-----------------------------------------------------------------------------
(* refresh_now, the auto-refresh loop, and tasks that are dropped          *)

RefreshNow(m) ==
    /\ job[m].pc = "idle"
    /\ job' = [job EXCEPT ![m] = Request]
    /\ UNCHANGED <<now, artifacts, gate, healthy>>

\* start_auto_refresh: fetches first if anything is missing.
StartLoop ==
    /\ job[Loop].pc = "idle"
    /\ job' = [job EXCEPT ![Loop] = IF NeedsInit THEN Request ELSE Sleep(artifacts.token)]
    /\ healthy' = NeedsInit
    /\ UNCHANGED <<now, artifacts, gate>>

Wake ==
    /\ job[Loop].pc = "sleep"
    /\ now >= job[Loop].until
    /\ job' = [job EXCEPT ![Loop] = Request]
    /\ healthy' = TRUE
    /\ UNCHANGED <<now, artifacts, gate>>

\* A caller's future is dropped, or the refresh handle is.
Drop(t) ==
    /\ job[t].pc # "idle"
    /\ job' = [job EXCEPT ![t] = Idle]
    /\ gate' = IF gate = t THEN Free ELSE gate
    /\ healthy' = (healthy /\ t # Loop)
    /\ UNCHANGED <<now, artifacts>>

\* The timer of the loop fires in time.
Tick ==
    /\ now < MaxTime
    /\ job[Loop].pc = "sleep" => now < job[Loop].until
    /\ now' = now + 1
    /\ UNCHANGED <<artifacts, gate, job, healthy>>

Next ==
    \/ \E t \in Tasks : ReceiptReply(t) \/ TokenReply(t) \/ StoreToken(t) \/ Drop(t)
    \/ \E c \in Callers : Call(c) \/ EnterGate(c) \/ InitTimesOut(c) \/ Read(c)
    \/ \E m \in Manual : RefreshNow(m)
    \/ StartLoop \/ Wake \/ Tick

Spec == Init /\ [][Next]_vars

-----------------------------------------------------------------------------
(* Properties                                                              *)

TypeOK ==
    /\ now \in Time
    /\ artifacts \in [receipt : BOOLEAN, token : Tokens, stored : Time]
    /\ gate \in Callers \cup {Free}
    /\ job \in [Tasks -> Job]
    /\ healthy \in BOOLEAN

\* The gate is held by the caller that initialises and by nobody else, so two
\* first callers never fetch at once, and a failed, timed-out or dropped attempt
\* leaves it free for the next one.
GateHeldByFetcher == \A c \in Callers : gate = c <=> job[c].pc \in InFlight

\* Requests, answers and stored tokens lie in the past, in this order.
InOrder ==
    /\ artifacts.stored <= now
    /\ ~NoToken => artifacts.token <= artifacts.stored
    /\ \A t \in Tasks :
         /\ job[t].since <= now
         /\ job[t].pc = "store" => /\ job[t].got # Missing
                                   /\ job[t].since <= job[t].got
                                   /\ job[t].got <= now

\* refresh_now and the loop run without the gate, so a token may be replaced by
\* an older one, but only by a task whose request was already under way when the
\* newer token was stored: a refresh that begins later is never undone.
SetBackOnlyByOverlap ==
    [][ \A t \in Tasks :
          (StoreToken(t) /\ ~NoToken /\ artifacts'.token < artifacts.token)
            => job[t].since <= artifacts.stored ]_vars

\* As long as the refreshes of the loop succeed, the token it keeps does not
\* lapse, although other tasks may replace it by an older one while it sleeps.
\* Holds when a lifetime outlasts the minimal interval, and half of it outlasts
\* the age a token may have when it is stored.
LongLived == Ttl > 2 * HttpTimeout /\ Ttl > MinRefresh + HttpTimeout

HealthyLoopKeepsToken ==
    (LongLived /\ job[Loop].pc = "sleep" /\ healthy) => ServedToken # Missing

\* A stored token is no older than the request that brought it may take.
StoredFresh == ~NoToken => artifacts.stored <= artifacts.token + HttpTimeout

\* The loop wakes in time; and after a success it sleeps at most so long that
\* whatever is stored by now outlasts it.
LongestSleep == IF Ttl \div 2 < MinRefresh THEN MinRefresh ELSE Ttl \div 2
LoopInTime ==
    job[Loop].pc = "sleep" =>
        /\ now <= job[Loop].until
        /\ healthy => ~NoToken /\ job[Loop].until <= artifacts.stored + LongestSleep

\* The inductive invariant.
IndInv == TypeOK /\ GateHeldByFetcher /\ InOrder /\ StoredFresh /\ LoopInTime
=============================================================================
