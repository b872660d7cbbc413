---------------------------- MODULE AnonymousPool ----------------------------
(***************************************************************************)
(* The legacy Go agent's pool of exits (pool.go) and the two users of it   *)
(* in gateway.go: the inference requests (doAnonymousUpstream) and the     *)
(* model refresh (refreshAnonymousTier).  The exits carry three atomics    *)
(* each, and no lock: a step below is one atomic operation of a goroutine, *)
(* so the answers of concurrent requests interleave as they may in Go.     *)
(*                                                                         *)
(* TransportPool.CheckHealth is not an action: nothing outside its test    *)
(* calls it.                                                               *)
(***************************************************************************)
EXTENDS Integers, Sequences

CONSTANTS
    NodeCount,      \* exits: proxies, or the single "direct"
    Requests,       \* inference requests served at the same time
    Refresher,      \* the goroutine of StartModelRefresh
    Cooldown,       \* failure_cooldown_seconds, in ticks
    MaxDoublings,   \* the cooldown doubles at most so often (3 in the code)
    RetryAfters     \* Retry-After of an error response, 0 for none

ASSUME BoundsAssumption ==
    /\ NodeCount \in Nat \ {0}
    /\ Cooldown \in Nat \ {0}
    /\ MaxDoublings \in Nat
    /\ 0 \in RetryAfters /\ RetryAfters \subseteq Nat
    /\ Refresher \notin Requests

Nodes   == 0 .. NodeCount - 1
Workers == Requests \cup {Refresher}

VARIABLES
    healthy,    \* Proxy.Healthy of each node
    failures,   \* failures, counted up to the last that lengthens the cooldown
    cool,       \* what is left of cooldownUntil, in ticks
    pc,         \* where each worker is between two atomic operations
    left,       \* the nodes its cursor has not visited, in order
    at,         \* the node it has chosen
    mark,       \* what its attempt makes it record: a success or a failure
    delay,      \* the cooldown it is about to store
    owed        \* history: nodes available since it began and not tried by it

pool    == <<healthy, failures, cool>>
workers == <<pc, left, at, mark, delay>>
vars    == <<pool, workers, owed>>

\* What node.Proxy.Client.Do, or FetchKiloModels, may end with:
\*   ok           a 2xx answer
\*   rejected     any other answer below 500; for the refresh, no listing
\*   limited      401, 403, 429 or 5xx, perhaps with a Retry-After
\*   unreachable  a timeout or a refused connection
\*   broken       any other error, the client's own cancellation included
Answers ==
    [kind : {"ok", "rejected", "unreachable", "broken"}, retryAfter : {0}]
        \cup [kind : {"limited"}, retryAfter : RetryAfters]

NoMark == [ok |-> FALSE, retryAfter |-> 0]

Init ==
    /\ healthy = [n \in Nodes |-> TRUE]
    /\ failures = [n \in Nodes |-> 0]
    /\ cool = [n \in Nodes |-> 0]
    /\ pc = [w \in Workers |-> "idle"]
    /\ left = [w \in Workers |-> <<>>]
    /\ at = [w \in Workers |-> 0]
    /\ mark = [w \in Workers |-> NoMark]
    /\ delay = [w \in Workers |-> 0]
    /\ owed = [w \in Requests |-> {}]

\* What each request is owed: all that is available when it begins, as long as
\* it stays available and the request has not tried it.  Every step keeps track.
Watch ==
    owed' = [w \in Requests |->
        {n \in Nodes :
            /\ healthy'[n] /\ cool'[n] = 0
            /\ pc'[w] # "idle" /\ (pc[w] = "idle" \/ n \in owed[w])
            /\ ~(pc'[w] = "waiting" /\ at'[w] = n)}]

-----------------------------------------------------------------------------
(* The cursor                                                              *)

\* CursorFor starts at the hash of the session, or at the next of a counter:
\* anywhere.
Rotation(start) == [i \in 1 .. NodeCount |-> (start + i - 1) % NodeCount]

Begin(w) ==
    /\ pc[w] = "idle"
    /\ \E start \in Nodes : left' = [left EXCEPT ![w] = Rotation(start)]
    /\ pc' = [pc EXCEPT ![w] = "picking"]
    /\ UNCHANGED <<pool, at, mark, delay>>
    /\ Watch

\* A plausible bug: cooldowns are recorded and not looked at.
HealthyOnly(n) == healthy[n]
Available(n) == healthy[n] /\ cool[n] = 0

\* Plausible bugs: the cursor stays on the node it visits, or stops one short.
RestStays(w) == left[w]
Rest(w) == Tail(left[w])

ExhaustedEarly(w) == Len(left[w]) <= 1
Exhausted(w) == left[w] = <<>>

\* Next() passes over a node that is unhealthy or cooling down.  It reads the
\* clock once, before the loop; here each visit does, so that a node may also be
\* chosen whose cooldown ends meanwhile.
Visit(w) ==
    /\ pc[w] = "picking" /\ ~Exhausted(w)
    /\ left' = [left EXCEPT ![w] = Rest(w)]
    /\ IF Available(Head(left[w]))
       THEN /\ at' = [at EXCEPT ![w] = Head(left[w])]
            /\ pc' = [pc EXCEPT ![w] = "waiting"]
       ELSE UNCHANGED <<at, pc>>
    /\ UNCHANGED <<pool, mark, delay>>
    /\ Watch

\* No node is left: 502, the last error response, or no new listing.
GiveUp(w) ==
    /\ pc[w] = "picking" /\ Exhausted(w)
    /\ pc' = [pc EXCEPT ![w] = "failed"]
    /\ UNCHANGED <<pool, left, at, mark, delay>>
    /\ Watch

-----------------------------------------------------------------------------
(* An attempt and what it leaves on its node                               *)

\* The refresh reports every failure as an error, without its response.
AnswersTo(w) ==
    IF w = Refresher THEN {a \in Answers : a.kind # "limited"} ELSE Answers

\* MarkFailure ignores a response that only blames the request.
Ignored(w, a) == w # Refresher /\ a.kind = "rejected"

\* The attempt ends and syncProxyResult judges the exit: unreachable is
\* unhealthy, any response heals it.  The mark comes with the next steps.
Answered(w) ==
    /\ pc[w] = "waiting"
    /\ \E a \in AnswersTo(w) :
        /\ healthy' = CASE a.kind = "unreachable" -> [healthy EXCEPT ![at[w]] = FALSE]
                        [] a.kind = "broken"      -> healthy
                        [] OTHER                  -> [healthy EXCEPT ![at[w]] = TRUE]
        /\ IF Ignored(w, a)
           THEN /\ pc' = [pc EXCEPT ![w] = "picking"]
                /\ at' = [at EXCEPT ![w] = 0]
                /\ UNCHANGED mark
           ELSE /\ pc' = [pc EXCEPT ![w] = "answered"]
                /\ mark' = [mark EXCEPT ![w] =
                     [ok |-> a.kind = "ok", retryAfter |-> a.retryAfter]]
                /\ UNCHANGED at
    /\ UNCHANGED <<failures, cool, left, delay>>
    /\ Watch

FailuresCap == MaxDoublings + 1

Larger(a, b)  == IF a >= b THEN a ELSE b
Smaller(a, b) == IF a <= b THEN a ELSE b

\* p.cooldown * (1 << n)
Doubled[n \in Nat] == IF n = 0 THEN Cooldown ELSE 2 * Doubled[n - 1]

\* The cooldown after the n-th failure; a plausible bug doubles once too often.
DelayOffByOne(n) == Doubled[Smaller(n, MaxDoublings + 1)]
DelayAfter(n) == Doubled[Smaller(n - 1, MaxDoublings)]

\* The first atomic of MarkSuccess, which leaves no delay, or of MarkFailure.
CountResult(w) ==
    /\ pc[w] = "answered"
    /\ LET n == at[w]
           count == IF mark[w].ok THEN 0
                    ELSE Smaller(failures[n] + 1, FailuresCap) IN
        /\ failures' = [failures EXCEPT ![n] = count]
        /\ delay' = [delay EXCEPT ![w] =
             IF count = 0 THEN 0
             ELSE Larger(DelayAfter(count), mark[w].retryAfter)]
    /\ pc' = [pc EXCEPT ![w] = "counted"]
    /\ mark' = [mark EXCEPT ![w] = NoMark]
    /\ UNCHANGED <<healthy, cool, left, at>>
    /\ Watch

\* The second one; a success is returned, a failure moves to the next node.
StoreCooldown(w) ==
    /\ pc[w] = "counted"
    /\ cool' = [cool EXCEPT ![at[w]] = delay[w]]
    /\ IF delay[w] = 0
       THEN /\ pc' = [pc EXCEPT ![w] = "idle"]
            /\ left' = [left EXCEPT ![w] = <<>>]
       ELSE pc' = [pc EXCEPT ![w] = "picking"] /\ UNCHANGED left
    /\ at' = [at EXCEPT ![w] = 0]
    /\ delay' = [delay EXCEPT ![w] = 0]
    /\ UNCHANGED <<healthy, failures, mark>>
    /\ Watch

\* The failure is reported; the worker stands for the next request or refresh.
Finish(w) ==
    /\ pc[w] = "failed"
    /\ pc' = [pc EXCEPT ![w] = "idle"]
    /\ UNCHANGED <<pool, left, at, mark, delay>>
    /\ Watch

Tick ==
    /\ \E n \in Nodes : cool[n] > 0
    /\ cool' = [n \in Nodes |-> Larger(cool[n] - 1, 0)]
    /\ UNCHANGED <<healthy, failures, workers>>
    /\ Watch

-----------------------------------------------------------------------------
Proceed(w) ==
    Visit(w) \/ GiveUp(w) \/ Answered(w)
        \/ CountResult(w) \/ StoreCooldown(w) \/ Finish(w)

Next == Tick \/ \E w \in Workers : Begin(w) \/ Proceed(w)

Spec == Init /\ [][Next]_vars

\* Time passes, and every attempt ends: the request's context and that of the
\* refresh have deadlines (gateway.go:227, 442).
FairSpec ==
    /\ Spec
    /\ WF_vars(Tick)
    /\ \A w \in Workers : WF_vars(Proceed(w))

-----------------------------------------------------------------------------
(* Properties                                                              *)

\* Every field has its type, and no cooldown is longer than the last doubling or
\* a Retry-After asks for.
TypeOK ==
    /\ healthy \in [Nodes -> BOOLEAN]
    /\ failures \in [Nodes -> 0 .. FailuresCap]
    /\ cool \in [Nodes -> Nat]
    /\ \A n \in Nodes :
        \E most \in RetryAfters \cup {Doubled[MaxDoublings]} : cool[n] <= most
    /\ pc \in [Workers -> {"idle", "picking", "waiting", "answered", "counted",
                           "failed"}]
    /\ \A w \in Workers : Len(left[w]) <= NodeCount
    /\ at \in [Workers -> Nodes]
    /\ mark \in [Workers -> [ok : BOOLEAN, retryAfter : RetryAfters]]
    /\ owed \in [Requests -> SUBSET Nodes]

\* "It tries every currently available proxy" (gateway.go:285): a request fails
\* only if no exit was available all along that it did not try, however other
\* requests and the refresh heal, cool and condemn the exits meanwhile.
NoExitPassedOver ==
    \A w \in Requests : pc[w] = "failed" => owed[w] = {}

\* "... at most once" (gateway.go:285): every request and every refresh ends.
RequestEnds == \A w \in Workers : pc[w] = "picking" ~> pc[w] = "idle"

\* Every cooldown runs out, whatever requests were in flight when it began.
CooldownEnds == \A n \in Nodes : []<>(cool[n] = 0)

=============================================================================
