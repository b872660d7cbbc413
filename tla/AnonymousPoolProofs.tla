------------------------- MODULE AnonymousPoolProofs -------------------------
(***************************************************************************)
(* Proofs about AnonymousPool for any number of exits, requests, answers   *)
(* and any cooldowns.                                                      *)
(*                                                                         *)
(* NoExitPassedOver: what a request is still owed is among what its cursor *)
(* has not visited, so a request with an exhausted cursor is owed nothing. *)
(* TypeOK: no cooldown is longer than the last doubling or a Retry-After   *)
(* asks for, because the doublings grow: an induction (Recursion).         *)
(* TriesEachOnce: a cursor begins with each exit once, and only loses.     *)
(* Advances: every step of a request takes from what remains of it to do.  *)
(***************************************************************************)
EXTENDS AnonymousPool, Recursion

Types ==
    /\ pc \in [Workers -> {"idle", "picking", "waiting", "answered", "counted",
                           "failed"}]
    /\ left \in [Workers -> Seq(Nodes)]
    /\ at \in [Workers -> Nodes]
    /\ DOMAIN owed = Requests

Visits(s) == {s[i] : i \in 1 .. Len(s)}

Ahead ==
    \A w \in Requests :
        /\ owed[w] \subseteq Visits(left[w])
        /\ pc[w] = "failed" => left[w] = <<>>

PoolInv == Types /\ Ahead

\* The cursor comes by every exit, wherever it starts.
LEMMA RotationCovers ==
    ASSUME NEW start \in Nodes
    PROVE  Rotation(start) \in Seq(Nodes) /\ Visits(Rotation(start)) = Nodes
<1> USE BoundsAssumption DEF Nodes
<1>1. ASSUME NEW k \in Nodes
      PROVE  k % NodeCount = k /\ (k + NodeCount) % NodeCount = k
    OBVIOUS
<1>2. Rotation(start) = [i \in 1 .. NodeCount |-> (start + i - 1) % NodeCount]
    BY DEF Rotation
<1>3. \A i \in 1 .. NodeCount : Rotation(start)[i] \in Nodes
    BY <1>2
<1>4. Rotation(start) \in Seq(Nodes) /\ Len(Rotation(start)) = NodeCount
    BY <1>2, <1>3
<1>5. ASSUME NEW n \in Nodes
      PROVE  \E i \in 1 .. NodeCount : Rotation(start)[i] = n
    <2>1. CASE n >= start
        <3>1. n - start + 1 \in 1 .. NodeCount /\ start + (n - start + 1) - 1 = n
            BY <2>1
        <3>2. QED
            BY <1>1, <1>2, <3>1
    <2>2. CASE n < start
        <3>1. /\ n - start + NodeCount + 1 \in 1 .. NodeCount
              /\ start + (n - start + NodeCount + 1) - 1 = n + NodeCount
            BY <2>2
        <3>2. QED
            BY <1>1, <1>2, <3>1
    <2>3. QED
        BY <2>1, <2>2
<1>6. QED
    BY <1>3, <1>4, <1>5 DEF Visits

LEMMA VisitsOfTail ==
    ASSUME NEW s \in Seq(Nodes), s # <<>>
    PROVE  /\ Tail(s) \in Seq(Nodes)
           /\ Head(s) \in Nodes
           /\ Visits(s) = {Head(s)} \cup Visits(Tail(s))
<1>1. Tail(s) \in Seq(Nodes) /\ Head(s) = s[1] /\ Head(s) \in Nodes
    OBVIOUS
<1>2. Len(s) \in Nat /\ Len(s) >= 1 /\ Len(Tail(s)) = Len(s) - 1
    OBVIOUS
<1>3. \A i \in 1 .. Len(s) - 1 : Tail(s)[i] = s[i + 1]
    OBVIOUS
<1>4. ASSUME NEW n \in Visits(s) PROVE n \in {Head(s)} \cup Visits(Tail(s))
    <2>1. PICK i \in 1 .. Len(s) : n = s[i]
        BY <1>4 DEF Visits
    <2>2. CASE i = 1
        BY <1>1, <2>1, <2>2
    <2>3. CASE i # 1
        <3>1. i - 1 \in 1 .. Len(Tail(s)) /\ i - 1 \in 1 .. Len(s) - 1 /\ (i - 1) + 1 = i
            BY <1>2, <2>1, <2>3
        <3>2. n = Tail(s)[i - 1]
            BY <1>3, <2>1, <3>1
        <3>3. QED
            BY <3>1, <3>2 DEF Visits
    <2>4. QED
        BY <2>2, <2>3
<1>5. ASSUME NEW n \in {Head(s)} \cup Visits(Tail(s)) PROVE n \in Visits(s)
    <2>1. CASE n = Head(s)
        BY <1>1, <1>2, <2>1 DEF Visits
    <2>2. CASE n \in Visits(Tail(s))
        <3>1. PICK i \in 1 .. Len(Tail(s)) : n = Tail(s)[i]
            BY <2>2 DEF Visits
        <3>2. i + 1 \in 1 .. Len(s) /\ n = s[i + 1]
            BY <1>2, <1>3, <3>1
        <3>3. QED
            BY <3>2 DEF Visits
    <2>3. QED
        BY <1>5, <2>1, <2>2
<1>6. QED
    BY <1>1, <1>4, <1>5

\* What a request is owed only shrinks once it has begun.
LEMMA OwedShrinks ==
    ASSUME Watch, NEW w \in Requests
    PROVE  /\ DOMAIN owed' = Requests
           /\ owed'[w] \subseteq Nodes
           /\ pc[w] # "idle" => owed'[w] \subseteq owed[w]
           /\ pc'[w] = "idle" => owed'[w] = {}
           /\ \A n \in owed'[w] : healthy'[n] /\ cool'[n] = 0 /\ ~(pc'[w] = "waiting" /\ at'[w] = n)
BY Zenon DEF Watch

\* A worker that keeps its cursor leaves every request owed what it was, or less.
LEMMA KeepsAhead ==
    ASSUME PoolInv, Watch, left' = left,
           \A w \in Requests : /\ pc[w] = "idle" => pc'[w] = "idle"
                               /\ pc'[w] = "failed" => left[w] = <<>>
    PROVE  Ahead'
<1>1. ASSUME NEW w \in Requests PROVE owed'[w] \subseteq Visits(left'[w])
    <2>1. CASE pc[w] = "idle"
        BY <2>1, OwedShrinks
    <2>2. CASE pc[w] # "idle"
        BY <2>2, OwedShrinks DEF PoolInv, Ahead
    <2>3. QED
        BY <2>1, <2>2
<1>2. QED
    BY <1>1 DEF Ahead

\* What a request is still owed lies ahead of its cursor, and a request that
\* failed has nothing ahead of it: no answer to another request, and no tick of
\* the clock, takes from a cursor what its request is owed (pool.go:95).
THEOREM PoolInvariance == Spec => []PoolInv
<1>1. Init => PoolInv
    <2> SUFFICES ASSUME Init PROVE PoolInv
        OBVIOUS
    <2>1. 0 \in Nodes
        BY BoundsAssumption DEF Nodes
    <2>2. Types
        BY <2>1 DEF Init, Types
    <2>3. Ahead
        BY DEF Init, Ahead, Workers
    <2>4. QED
        BY <2>2, <2>3 DEF PoolInv
<1>2. PoolInv /\ [Next]_vars => PoolInv'
    <2> SUFFICES ASSUME PoolInv, [Next]_vars PROVE PoolInv'
        OBVIOUS
    <2> Requests \subseteq Workers
        BY DEF Workers
    <2>1. ASSUME NEW w \in Workers, Begin(w) PROVE PoolInv'
        <3>1. PICK start \in Nodes : left' = [left EXCEPT ![w] = Rotation(start)]
            BY <2>1 DEF Begin
        <3>2. pc' = [pc EXCEPT ![w] = "picking"] /\ at' = at /\ Watch /\ pc[w] = "idle"
            BY <2>1 DEF Begin
        <3>3. DOMAIN owed' = Requests
            BY <3>2 DEF Watch
        <3>4. Types'
            BY <3>1, <3>2, <3>3, RotationCovers DEF PoolInv, Types
        <3>5. ASSUME NEW v \in Requests
              PROVE  owed'[v] \subseteq Visits(left'[v]) /\ (pc'[v] = "failed" => left'[v] = <<>>)
            <4>1. CASE v = w
                BY <3>1, <3>2, <4>1, RotationCovers, OwedShrinks DEF PoolInv, Types
            <4>2. CASE v # w
                <5>1. left'[v] = left[v] /\ pc'[v] = pc[v]
                    BY <3>1, <3>2, <4>2 DEF PoolInv, Types
                <5>2. owed'[v] \subseteq owed[v]
                    BY <3>2, <5>1, OwedShrinks
                <5>3. QED
                    BY <5>1, <5>2 DEF PoolInv, Ahead
            <4>3. QED
                BY <4>1, <4>2
        <3>6. QED
            BY <3>4, <3>5 DEF PoolInv, Ahead
    <2>2. ASSUME NEW w \in Workers, Visit(w) PROVE PoolInv'
        <3> DEFINE n == Head(left[w])
        <3>1. /\ pc[w] = "picking" /\ left[w] # <<>> /\ Watch
              /\ left' = [left EXCEPT ![w] = Tail(left[w])]
              /\ healthy' = healthy /\ cool' = cool
              /\ IF Available(n)
                 THEN at' = [at EXCEPT ![w] = n] /\ pc' = [pc EXCEPT ![w] = "waiting"]
                 ELSE at' = at /\ pc' = pc
            BY <2>2 DEF Visit, Exhausted, Rest, pool
        <3>2. /\ Tail(left[w]) \in Seq(Nodes) /\ n \in Nodes
              /\ Visits(left[w]) = {n} \cup Visits(Tail(left[w]))
            BY <3>1, VisitsOfTail DEF PoolInv, Types
        <3>3. Types'
            <4>1. DOMAIN owed' = Requests
                BY <3>1 DEF Watch
            <4>2. QED
                BY <3>1, <3>2, <4>1 DEF PoolInv, Types
        <3>4. ASSUME NEW v \in Requests
              PROVE  owed'[v] \subseteq Visits(left'[v]) /\ (pc'[v] = "failed" => left'[v] = <<>>)
            <4>1. CASE v = w
                <5>1. n \notin owed'[v]
                    <6>1. CASE Available(n)
                        <7>1. at'[v] = n /\ pc'[v] = "waiting"
                            BY <3>1, <4>1, <6>1 DEF PoolInv, Types
                        <7>2. QED
                            BY <3>1, <7>1, OwedShrinks
                    <6>2. CASE ~Available(n)
                        BY <3>1, <6>2, OwedShrinks DEF Available
                    <6>3. QED
                        BY <6>1, <6>2
                <5>2. owed'[v] \subseteq owed[v]
                    BY <3>1, <4>1, OwedShrinks
                <5>3. owed[v] \subseteq Visits(left[v]) /\ left'[v] = Tail(left[v])
                    BY <3>1, <4>1 DEF PoolInv, Types, Ahead
                <5>4. pc'[v] \in {"picking", "waiting"}
                    BY <3>1, <4>1 DEF PoolInv, Types
                <5>5. QED
                    BY <3>2, <4>1, <5>1, <5>2, <5>3, <5>4
            <4>2. CASE v # w
                <5>1. left'[v] = left[v] /\ pc'[v] = pc[v]
                    BY <3>1, <4>2 DEF PoolInv, Types
                <5>2. owed'[v] \subseteq owed[v]
                    <6>1. CASE pc[v] = "idle"
                        BY <3>1, <5>1, <6>1, OwedShrinks
                    <6>2. CASE pc[v] # "idle"
                        BY <3>1, <6>2, OwedShrinks
                    <6>3. QED
                        BY <6>1, <6>2
                <5>3. QED
                    BY <5>1, <5>2 DEF PoolInv, Ahead
            <4>3. QED
                BY <4>1, <4>2
        <3>5. QED
            BY <3>3, <3>4 DEF PoolInv, Ahead
    <2>3. ASSUME NEW w \in Workers, GiveUp(w) PROVE PoolInv'
        <3>1. /\ pc[w] = "picking" /\ left[w] = <<>> /\ Watch /\ left' = left /\ at' = at
              /\ pc' = [pc EXCEPT ![w] = "failed"]
            BY <2>3 DEF GiveUp, Exhausted
        <3>2. Types'
            BY <3>1 DEF PoolInv, Types, Watch
        <3>3. Ahead'
            BY <3>1, KeepsAhead DEF PoolInv, Types, Ahead
        <3>4. QED
            BY <3>2, <3>3 DEF PoolInv
    <2>4. ASSUME NEW w \in Workers, Answered(w) PROVE PoolInv'
        <3>1. /\ pc[w] = "waiting" /\ Watch /\ left' = left
              /\ \/ pc' = [pc EXCEPT ![w] = "picking"] /\ at' = [at EXCEPT ![w] = 0]
                 \/ pc' = [pc EXCEPT ![w] = "answered"] /\ at' = at
            BY <2>4 DEF Answered
        <3>2. 0 \in Nodes /\ DOMAIN owed' = Requests
            BY <3>1, BoundsAssumption DEF Nodes, Watch
        <3>3. Types'
            BY <3>1, <3>2 DEF PoolInv, Types
        <3>4. Ahead'
            BY <3>1, KeepsAhead DEF PoolInv, Types, Ahead
        <3>5. QED
            BY <3>3, <3>4 DEF PoolInv
    <2>5. ASSUME NEW w \in Workers, CountResult(w) PROVE PoolInv'
        <3>1. /\ pc[w] = "answered" /\ Watch /\ left' = left /\ at' = at
              /\ pc' = [pc EXCEPT ![w] = "counted"]
            BY <2>5 DEF CountResult
        <3>2. Types'
            BY <3>1 DEF PoolInv, Types, Watch
        <3>3. Ahead'
            BY <3>1, KeepsAhead DEF PoolInv, Types, Ahead
        <3>4. QED
            BY <3>2, <3>3 DEF PoolInv
    <2>6. ASSUME NEW w \in Workers, StoreCooldown(w) PROVE PoolInv'
        <3>1. /\ pc[w] = "counted" /\ Watch /\ at' = [at EXCEPT ![w] = 0]
              /\ \/ /\ pc' = [pc EXCEPT ![w] = "idle"]
                    /\ left' = [left EXCEPT ![w] = <<>>]
                 \/ pc' = [pc EXCEPT ![w] = "picking"] /\ left' = left
            BY <2>6 DEF StoreCooldown
        <3>2. <<>> \in Seq(Nodes) /\ 0 \in Nodes
            BY BoundsAssumption DEF Nodes
        <3>3. Types'
            BY <3>1, <3>2 DEF PoolInv, Types, Watch
        <3>4. ASSUME NEW v \in Requests
              PROVE  owed'[v] \subseteq Visits(left'[v]) /\ (pc'[v] = "failed" => left'[v] = <<>>)
            <4>1. CASE v = w /\ pc'[w] = "idle"
                BY <3>1, <4>1, OwedShrinks
            <4>2. CASE v # w \/ pc'[w] # "idle"
                <5>1. left'[v] = left[v] /\ (pc'[v] = pc[v] \/ (v = w /\ pc'[v] = "picking"))
                    BY <3>1, <4>2 DEF PoolInv, Types
                <5>2. owed'[v] \subseteq owed[v]
                    <6>1. CASE pc[v] = "idle"
                        BY <3>1, <5>1, <6>1, OwedShrinks
                    <6>2. CASE pc[v] # "idle"
                        BY <3>1, <6>2, OwedShrinks
                    <6>3. QED
                        BY <6>1, <6>2
                <5>3. QED
                    BY <5>1, <5>2 DEF PoolInv, Ahead
            <4>3. QED
                BY <4>1, <4>2
        <3>5. QED
            BY <3>3, <3>4 DEF PoolInv, Ahead
    <2>7. ASSUME NEW w \in Workers, Finish(w) PROVE PoolInv'
        <3>1. /\ pc[w] = "failed" /\ Watch /\ left' = left /\ at' = at
              /\ pc' = [pc EXCEPT ![w] = "idle"]
            BY <2>7 DEF Finish
        <3>2. Types'
            BY <3>1 DEF PoolInv, Types, Watch
        <3>3. Ahead'
            BY <3>1, KeepsAhead DEF PoolInv, Types, Ahead
        <3>4. QED
            BY <3>2, <3>3 DEF PoolInv
    <2>8. CASE Tick
        <3>1. Watch /\ left' = left /\ at' = at /\ pc' = pc
            BY <2>8 DEF Tick, workers
        <3>2. Types'
            BY <3>1 DEF PoolInv, Types, Watch
        <3>3. Ahead'
            BY <3>1, KeepsAhead DEF PoolInv, Types, Ahead
        <3>4. QED
            BY <3>2, <3>3 DEF PoolInv
    <2>9. CASE UNCHANGED vars
        BY <2>9 DEF vars, workers, pool, PoolInv, Types, Ahead
    <2>10. QED
        BY <2>1, <2>2, <2>3, <2>4, <2>5, <2>6, <2>7, <2>8, <2>9 DEF Next, Proceed
<1>3. QED
    BY <1>1, <1>2, PTL DEF Spec

\* No request fails while an exit it has not tried was available all along: the
\* cursor of Next() and the loop of doAnonymousUpstream pass none over, however
\* concurrent answers change the exits' health, failures and cooldowns.
THEOREM NothingPassedOver == Spec => []NoExitPassedOver
<1>1. PoolInv => NoExitPassedOver
    BY DEF PoolInv, Ahead, Visits, NoExitPassedOver
<1>2. QED
    BY <1>1, PoolInvariance, PTL

-----------------------------------------------------------------------------
(* The cooldowns.                                                          *)

LEMMA DoubledDoubles ==
    /\ Doubled \in [Nat -> Nat]
    /\ Doubled[0] = Cooldown
    /\ \A n \in Nat : Doubled[n + 1] = 2 * Doubled[n]
<1> DEFINE Doubles(f) == f = [n \in Nat |-> IF n = 0 THEN Cooldown ELSE 2 * f[n - 1]]
           next == [n \in Nat |-> [d \in Nat |-> 2 * d]]
<1>1. Cooldown \in Nat /\ next \in [Nat -> [Nat -> Nat]]
    BY BoundsAssumption
<1>2. PICK f : Recursive(f, Nat, Nat, Cooldown, next)
    <2> HIDE DEF next
    <2>1. QED
        BY <1>1, RecursionOnNat
<1>3. \A n \in Nat : n # 0 => next[n][f[n - 1]] = 2 * f[n - 1]
    BY <1>2 DEF Recursive
<1>4. Doubles(f)
    <2> HIDE DEF next
    <2>1. QED
        BY <1>2, <1>3 DEF Recursive
<1>5. Doubled = CHOOSE g : Doubles(g)
    BY DEF Doubled
<1>6. Doubles(Doubled)
    <2> HIDE DEF Doubles
    <2>1. QED
        BY <1>4, <1>5
<1>7. ASSUME NEW n \in Nat PROVE Doubled[n + 1] = 2 * Doubled[n]
    <2>1. n + 1 \in Nat /\ n + 1 # 0 /\ (n + 1) - 1 = n
        OBVIOUS
    <2>2. QED
        BY <1>6, <2>1
<1>8. Doubled[0] = Cooldown
    BY <1>6
<1>9. \A n \in Nat : Doubled[n] \in Nat
    <2> DEFINE S == {n \in Nat : Doubled[n] \in Nat}
    <2>1. 0 \in S /\ \A n \in Nat : n \in S => n + 1 \in S
        BY <1>1, <1>7, <1>8
    <2>2. Nat \subseteq S
        <3> HIDE DEF S
        <3>1. QED
            BY <2>1, Induction
    <2>3. QED
        BY <2>2
<1>10. Doubled \in [Nat -> Nat]
    BY <1>6, <1>9
<1>11. QED
    BY <1>7, <1>8, <1>10

LEMMA DoubledGrows ==
    ASSUME NEW m \in Nat, NEW n \in Nat, m <= n
    PROVE  Doubled[m] <= Doubled[n]
<1> DEFINE S == {k \in Nat : Doubled[m] <= Doubled[m + k]}
<1>1. 0 \in S
    BY DoubledDoubles
<1>2. ASSUME NEW k \in Nat, k \in S PROVE k + 1 \in S
    <2>1. m + k \in Nat /\ m + (k + 1) = (m + k) + 1
        OBVIOUS
    <2>2. /\ Doubled[m] \in Nat /\ Doubled[m + k] \in Nat
          /\ Doubled[m + (k + 1)] = 2 * Doubled[m + k]
        BY <2>1, DoubledDoubles
    <2>3. QED
        BY <1>2, <2>2
<1>3. Nat \subseteq S
    <2> HIDE DEF S
    <2>1. QED
        BY <1>1, <1>2, Induction
<1>4. n - m \in Nat /\ m + (n - m) = n
    OBVIOUS
<1>5. QED
    BY <1>3, <1>4

\* As long as the last doubling, or as a gateway asks for.
Permitted(d) == \E most \in RetryAfters \cup {Doubled[MaxDoublings]} : d <= most

Measures ==
    /\ healthy \in [Nodes -> BOOLEAN]
    /\ failures \in [Nodes -> 0 .. FailuresCap]
    /\ cool \in [Nodes -> Nat]
    /\ \A n \in Nodes : Permitted(cool[n])
    /\ \A w \in Workers : Len(left[w]) <= NodeCount
    /\ mark \in [Workers -> [ok : BOOLEAN, retryAfter : RetryAfters]]
    /\ delay \in [Workers -> Nat]
    /\ \A w \in Workers : Permitted(delay[w])
    /\ owed \in [Requests -> SUBSET Nodes]

LEMMA ZeroPermitted == Permitted(0)
BY BoundsAssumption DEF Permitted

LEMMA DelayPermitted ==
    ASSUME NEW count \in 1 .. FailuresCap, NEW retryAfter \in RetryAfters
    PROVE  /\ Larger(DelayAfter(count), retryAfter) \in Nat
           /\ Permitted(Larger(DelayAfter(count), retryAfter))
<1> USE BoundsAssumption
<1>1. Smaller(count - 1, MaxDoublings) = count - 1 /\ count - 1 \in Nat
    BY DEF FailuresCap, Smaller
<1>2. DelayAfter(count) = Doubled[count - 1]
    BY <1>1 DEF DelayAfter
<1>3. /\ DelayAfter(count) \in Nat /\ Doubled[MaxDoublings] \in Nat
      /\ DelayAfter(count) <= Doubled[MaxDoublings]
    BY <1>1, <1>2, DoubledDoubles, DoubledGrows DEF FailuresCap
<1>4. retryAfter \in Nat
    OBVIOUS
<1>5. QED
    BY <1>3, <1>4 DEF Larger, Permitted

LEMMA WatchTypes ==
    ASSUME Watch
    PROVE  owed' \in [Requests -> SUBSET Nodes]
BY DEF Watch

\* Every field has its type, however answers interleave; in particular no
\* cooldown is longer than the last doubling, or than a gateway asks for.
THEOREM TypeCorrect == Spec => []TypeOK
<1>1. Init => Measures
    <2> SUFFICES ASSUME Init PROVE Measures
        OBVIOUS
    <2>1. 0 \in 0 .. FailuresCap /\ NodeCount >= 0 /\ 0 \in RetryAfters
        BY BoundsAssumption DEF FailuresCap
    <2>2. QED
        BY <2>1, ZeroPermitted DEF Init, Measures, NoMark
<1>2. PoolInv /\ Measures /\ [Next]_vars => Measures'
    <2> SUFFICES ASSUME PoolInv, Measures, [Next]_vars PROVE Measures'
        OBVIOUS
    <2>1. ASSUME NEW w \in Workers, Begin(w) PROVE Measures'
        <3>1. PICK start \in Nodes : left' = [left EXCEPT ![w] = Rotation(start)]
            BY <2>1 DEF Begin
        <3>2. Len(Rotation(start)) = NodeCount
            BY BoundsAssumption DEF Rotation
        <3>3. UNCHANGED <<healthy, failures, cool, mark, delay>> /\ Watch
            BY <2>1 DEF Begin, pool
        <3>4. \A v \in Workers : Len(left'[v]) <= NodeCount
            BY <3>1, <3>2, BoundsAssumption DEF Measures, PoolInv, Types
        <3>5. QED
            BY <3>3, <3>4, WatchTypes DEF Measures, Permitted
    <2>2. ASSUME NEW w \in Workers, Visit(w) PROVE Measures'
        <3>1. /\ left[w] # <<>> /\ left' = [left EXCEPT ![w] = Tail(left[w])]
              /\ UNCHANGED <<healthy, failures, cool, mark, delay>> /\ Watch
            BY <2>2 DEF Visit, Exhausted, Rest, pool
        <3>2. Len(Tail(left[w])) <= Len(left[w]) /\ Len(left[w]) \in Nat /\ Len(Tail(left[w])) \in Nat
            BY <3>1 DEF PoolInv, Types
        <3>3. \A v \in Workers : Len(left'[v]) <= NodeCount
            BY <3>1, <3>2, BoundsAssumption DEF Measures, PoolInv, Types
        <3>4. QED
            BY <3>1, <3>3, WatchTypes DEF Measures, Permitted
    <2>3. ASSUME NEW w \in Workers, GiveUp(w) \/ Finish(w) PROVE Measures'
        <3>1. UNCHANGED <<healthy, failures, cool, mark, delay, left>> /\ Watch
            BY <2>3 DEF GiveUp, Finish, pool
        <3>2. QED
            BY <3>1, WatchTypes DEF Measures, Permitted
    <2>4. ASSUME NEW w \in Workers, Answered(w) PROVE Measures'
        <3>1. PICK a \in AnswersTo(w) :
                /\ healthy' = CASE a.kind = "unreachable" -> [healthy EXCEPT ![at[w]] = FALSE]
                                [] a.kind = "broken"      -> healthy
                                [] OTHER                  -> [healthy EXCEPT ![at[w]] = TRUE]
                /\ \/ UNCHANGED mark
                   \/ mark' = [mark EXCEPT ![w] = [ok |-> a.kind = "ok", retryAfter |-> a.retryAfter]]
            BY <2>4 DEF Answered
        <3>2. a.retryAfter \in RetryAfters /\ (a.kind = "ok") \in BOOLEAN
            BY BoundsAssumption DEF AnswersTo, Answers
        <3>3. [ok |-> a.kind = "ok", retryAfter |-> a.retryAfter]
                \in [ok : BOOLEAN, retryAfter : RetryAfters]
            BY <3>2
        <3>4. mark' \in [Workers -> [ok : BOOLEAN, retryAfter : RetryAfters]]
            BY <3>1, <3>3 DEF Measures
        <3>5. healthy' \in [Nodes -> BOOLEAN]
            BY <3>1 DEF Measures
        <3>6. UNCHANGED <<failures, cool, left, delay>> /\ Watch
            BY <2>4 DEF Answered
        <3>7. QED
            BY <3>4, <3>5, <3>6, WatchTypes DEF Measures, Permitted
    <2>5. ASSUME NEW w \in Workers, CountResult(w) PROVE Measures'
        <3> DEFINE n == at[w]
                   count == IF mark[w].ok THEN 0 ELSE Smaller(failures[n] + 1, FailuresCap)
                   next == IF count = 0 THEN 0 ELSE Larger(DelayAfter(count), mark[w].retryAfter)
        <3>1. /\ failures' = [failures EXCEPT ![n] = count]
              /\ delay' = [delay EXCEPT ![w] = next]
              /\ mark' = [mark EXCEPT ![w] = NoMark]
              /\ UNCHANGED <<healthy, cool, left>> /\ Watch
            BY <2>5 DEF CountResult
        <3>2. n \in Nodes /\ mark[w].retryAfter \in RetryAfters /\ failures[n] \in 0 .. FailuresCap
            BY DEF PoolInv, Types, Measures
        <3>3. count \in 0 .. FailuresCap
            BY <3>2, BoundsAssumption DEF FailuresCap, Smaller
        <3>4. next \in Nat /\ Permitted(next)
            <4>1. CASE count = 0
                BY <4>1, ZeroPermitted
            <4>2. CASE count # 0
                <5>1. count \in 1 .. FailuresCap
                    BY <3>3, <4>2, BoundsAssumption DEF FailuresCap
                <5> HIDE DEF count
                <5>2. QED
                    BY <3>2, <4>2, <5>1, DelayPermitted
            <4>3. QED
                BY <4>1, <4>2
        <3> HIDE DEF count, next
        <3>5. failures' \in [Nodes -> 0 .. FailuresCap]
            BY <3>1, <3>3 DEF Measures
        <3>6. delay' \in [Workers -> Nat] /\ \A v \in Workers : Permitted(delay'[v])
            BY <3>1, <3>4 DEF Measures
        <3>7. mark' \in [Workers -> [ok : BOOLEAN, retryAfter : RetryAfters]]
            BY <3>1, BoundsAssumption DEF Measures, NoMark
        <3>8. QED
            BY <3>1, <3>5, <3>6, <3>7, WatchTypes DEF Measures, Permitted
    <2>6. ASSUME NEW w \in Workers, StoreCooldown(w) PROVE Measures'
        <3>1. /\ cool' = [cool EXCEPT ![at[w]] = delay[w]]
              /\ left' = left \/ left' = [left EXCEPT ![w] = <<>>]
              /\ delay' = [delay EXCEPT ![w] = 0]
              /\ UNCHANGED <<healthy, failures, mark>> /\ Watch
            BY <2>6 DEF StoreCooldown
        <3>2. cool' \in [Nodes -> Nat] /\ \A n \in Nodes : Permitted(cool'[n])
            BY <3>1 DEF Measures
        <3>3. delay' \in [Workers -> Nat] /\ \A v \in Workers : Permitted(delay'[v])
            BY <3>1, ZeroPermitted DEF Measures
        <3>4. \A v \in Workers : Len(left'[v]) <= NodeCount
            <4>1. Len(<<>>) <= NodeCount
                BY BoundsAssumption
            <4>2. QED
                BY <3>1, <4>1 DEF Measures, PoolInv, Types
        <3>5. QED
            BY <3>1, <3>2, <3>3, <3>4, WatchTypes DEF Measures, Permitted
    <2>7. CASE Tick
        <3>1. /\ cool' = [n \in Nodes |-> Larger(cool[n] - 1, 0)]
              /\ UNCHANGED <<healthy, failures, left, mark, delay>> /\ Watch
            BY <2>7 DEF Tick, workers
        <3>2. ASSUME NEW n \in Nodes PROVE cool'[n] \in Nat /\ Permitted(cool'[n])
            <4>1. cool'[n] = Larger(cool[n] - 1, 0) /\ cool[n] \in Nat
                BY <3>1 DEF Measures
            <4>2. cool'[n] \in Nat /\ cool'[n] <= cool[n]
                BY <4>1 DEF Larger
            <4>3. PICK most \in RetryAfters \cup {Doubled[MaxDoublings]} : cool[n] <= most
                BY DEF Measures, Permitted
            <4>4. most \in Nat
                BY BoundsAssumption, DoubledDoubles
            <4>5. QED
                BY <4>1, <4>2, <4>3, <4>4 DEF Permitted
        <3>3. cool' \in [Nodes -> Nat]
            BY <3>1, <3>2
        <3>4. QED
            BY <3>1, <3>2, <3>3, WatchTypes DEF Measures, Permitted
    <2>8. CASE UNCHANGED vars
        BY <2>8 DEF vars, workers, pool, Measures, Permitted
    <2>9. QED
        BY <2>1, <2>2, <2>3, <2>4, <2>5, <2>6, <2>7, <2>8 DEF Next, Proceed
<1>3. PoolInv /\ Measures => TypeOK
    BY DEF PoolInv, Types, Measures, Permitted, TypeOK
<1>4. QED
    BY <1>1, <1>2, <1>3, PoolInvariance, PTL DEF Spec

-----------------------------------------------------------------------------
(* At most once.                                                           *)

\* A cursor comes by no exit twice.
Distinct(s) == \A i, j \in 1 .. Len(s) : s[i] = s[j] => i = j

AllDistinct == \A w \in Workers : Distinct(left[w])

LEMMA RotationDistinct ==
    ASSUME NEW start \in Nodes
    PROVE  Distinct(Rotation(start))
<1> USE BoundsAssumption DEF Nodes
<1>1. Rotation(start) = [i \in 1 .. NodeCount |-> (start + i - 1) % NodeCount]
    BY DEF Rotation
<1>2. ASSUME NEW i \in 1 .. NodeCount
      PROVE  (start + i - 1) % NodeCount
               = IF start + i - 1 < NodeCount THEN start + i - 1
                 ELSE start + i - 1 - NodeCount
    <2>1. CASE start + i - 1 < NodeCount
        BY <2>1
    <2>2. CASE start + i - 1 >= NodeCount
        <3>1. start + i - 1 - NodeCount \in 0 .. NodeCount - 1
            BY <2>2
        <3>2. \A k \in 0 .. NodeCount - 1 : (k + NodeCount) % NodeCount = k
            OBVIOUS
        <3>3. (start + i - 1 - NodeCount) + NodeCount = start + i - 1
            OBVIOUS
        <3>4. QED
            BY <2>2, <3>1, <3>2, <3>3
    <2>3. QED
        BY <2>1, <2>2
<1>3. ASSUME NEW i \in 1 .. NodeCount, NEW j \in 1 .. NodeCount,
             Rotation(start)[i] = Rotation(start)[j]
      PROVE  i = j
    <2>1. (start + i - 1) % NodeCount = (start + j - 1) % NodeCount
        BY <1>1, <1>3
    <2>2. QED
        BY <1>2, <2>1
<1>4. QED
    BY <1>1, <1>3 DEF Distinct

LEMMA DistinctTail ==
    ASSUME NEW s \in Seq(Nodes), s # <<>>, Distinct(s)
    PROVE  Distinct(Tail(s)) /\ Head(s) \notin Visits(Tail(s))
<1>1. Head(s) = s[1] /\ Len(s) \in Nat /\ Len(s) >= 1 /\ Len(Tail(s)) = Len(s) - 1
    OBVIOUS
<1>2. ASSUME NEW i \in 1 .. Len(Tail(s))
      PROVE  i + 1 \in 1 .. Len(s) /\ Tail(s)[i] = s[i + 1]
    BY <1>1
<1>3. ASSUME NEW i \in 1 .. Len(Tail(s)), NEW j \in 1 .. Len(Tail(s)),
             Tail(s)[i] = Tail(s)[j]
      PROVE  i = j
    BY <1>1, <1>2, <1>3 DEF Distinct
<1>4. ASSUME NEW i \in 1 .. Len(Tail(s)), Tail(s)[i] = Head(s) PROVE FALSE
    <2>1. i + 1 \in 1 .. Len(s) /\ s[i + 1] = s[1] /\ 1 \in 1 .. Len(s) /\ i \in Nat
        BY <1>1, <1>2, <1>4
    <2>2. i + 1 = 1
        BY <2>1 DEF Distinct
    <2>3. QED
        BY <2>1, <2>2
<1>5. QED
    BY <1>3, <1>4 DEF Distinct, Visits

\* What each kind of step leaves of the cursors: one worker moves at most.
LEMMA CursorsMove ==
    ASSUME PoolInv, [Next]_vars
    PROVE  \/ left' = left
           \/ \E w \in Workers, start \in Nodes :
                /\ pc[w] = "idle" /\ left' = [left EXCEPT ![w] = Rotation(start)]
           \/ \E w \in Workers :
                /\ pc[w] = "picking" /\ left[w] # <<>>
                /\ left' = [left EXCEPT ![w] = Tail(left[w])]
           \/ \E w \in Workers :
                /\ pc[w] = "counted" /\ left' = [left EXCEPT ![w] = <<>>]
                /\ pc' = [pc EXCEPT ![w] = "idle"]
<1>1. ASSUME NEW w \in Workers, Begin(w)
      PROVE  \E start \in Nodes :
               pc[w] = "idle" /\ left' = [left EXCEPT ![w] = Rotation(start)]
    BY <1>1 DEF Begin
<1>2. ASSUME NEW w \in Workers, Visit(w)
      PROVE  /\ pc[w] = "picking" /\ left[w] # <<>>
             /\ left' = [left EXCEPT ![w] = Tail(left[w])]
    BY <1>2 DEF Visit, Exhausted, Rest
<1>3. ASSUME NEW w \in Workers, StoreCooldown(w), left' # left
      PROVE  /\ pc[w] = "counted" /\ left' = [left EXCEPT ![w] = <<>>]
             /\ pc' = [pc EXCEPT ![w] = "idle"]
    BY <1>3 DEF StoreCooldown
<1>4. ASSUME NEW w \in Workers, GiveUp(w) \/ Answered(w) \/ CountResult(w) \/ Finish(w)
      PROVE  left' = left
    BY <1>4 DEF GiveUp, Answered, CountResult, Finish
<1>5. Tick \/ UNCHANGED vars => left' = left
    BY DEF Tick, vars, workers
<1>6. QED
    BY <1>1, <1>2, <1>3, <1>4, <1>5 DEF Next, Proceed

\* No cursor has an exit twice ahead of it (pool.go:95).
THEOREM CursorsAreDistinct == Spec => []AllDistinct
<1>1. Init => AllDistinct
    BY DEF Init, AllDistinct, Distinct
<1>2. PoolInv /\ AllDistinct /\ [Next]_vars => AllDistinct'
    <2> SUFFICES ASSUME PoolInv, AllDistinct, [Next]_vars,
                        NEW v \in Workers
                 PROVE  Distinct(left'[v])
        BY DEF AllDistinct
    <2>1. Distinct(<<>>)
        BY DEF Distinct
    <2>2. left[v] # <<>> => Distinct(Tail(left[v]))
        BY DistinctTail DEF AllDistinct, PoolInv, Types
    <2>3. CASE left'[v] = left[v]
        BY <2>3 DEF AllDistinct
    <2>4. CASE left'[v] # left[v]
        <3>1. \/ \E start \in Nodes : left'[v] = Rotation(start)
              \/ left[v] # <<>> /\ left'[v] = Tail(left[v])
              \/ left'[v] = <<>>
            BY <2>4, CursorsMove DEF PoolInv, Types
        <3>2. QED
            BY <2>1, <2>2, <3>1, RotationDistinct
    <2>5. QED
        BY <2>3, <2>4
<1>3. QED
    BY <1>1, <1>2, PoolInvariance, PTL DEF Spec

\* What a step makes of the exits a worker still has to visit: once begun, it
\* visits no other, and the one it chooses is not among those it has yet to visit.
TriesEachOnce ==
    \A w \in Workers : pc[w] # "idle" =>
        /\ Visits(left'[w]) \subseteq Visits(left[w])
        /\ pc'[w] = "waiting" /\ pc[w] # "waiting" =>
             at'[w] \in Visits(left[w]) \ Visits(left'[w])

\* "Next visits each healthy, non-cooling proxy at most once per cursor"
\* (pool.go:95): an exit that a request has chosen it does not choose again,
\* whatever becomes of the exit's health and cooldown meanwhile.
THEOREM ExitsAreTriedOnce == Spec => [][TriesEachOnce]_vars
<1>1. PoolInv /\ AllDistinct /\ [Next]_vars => [TriesEachOnce]_vars
    <2> SUFFICES ASSUME PoolInv, AllDistinct, [Next]_vars, NEW v \in Workers, pc[v] # "idle"
                 PROVE  /\ Visits(left'[v]) \subseteq Visits(left[v])
                        /\ pc'[v] = "waiting" /\ pc[v] # "waiting" =>
                             at'[v] \in Visits(left[v]) \ Visits(left'[v])
        BY DEF TriesEachOnce
    <2>1. left[v] \in Seq(Nodes) /\ Distinct(left[v])
        BY DEF PoolInv, Types, AllDistinct
    <2>2. Visits(left'[v]) \subseteq Visits(left[v])
        <3>1. Visits(<<>>) = {}
            BY DEF Visits
        <3>2. \/ left'[v] = left[v]
              \/ left[v] # <<>> /\ left'[v] = Tail(left[v])
              \/ left'[v] = <<>>
            BY CursorsMove DEF PoolInv, Types
        <3>3. QED
            BY <2>1, <3>1, <3>2, VisitsOfTail
    <2>3. ASSUME pc'[v] = "waiting", pc[v] # "waiting"
          PROVE  at'[v] \in Visits(left[v]) \ Visits(left'[v])
        <3>1. ASSUME NEW w \in Workers,
                     \/ Begin(w) \/ GiveUp(w) \/ Answered(w) \/ CountResult(w)
                     \/ StoreCooldown(w) \/ Finish(w)
              PROVE  FALSE
            BY <2>3, <3>1 DEF Begin, GiveUp, Answered, CountResult, StoreCooldown,
                              Finish, PoolInv, Types
        <3>2. ~Tick /\ ~UNCHANGED vars
            BY <2>3 DEF Tick, vars, workers
        <3>3. PICK w \in Workers : Visit(w)
            BY <3>1, <3>2 DEF Next, Proceed
        <3>4. w = v
            BY <2>3, <3>3 DEF Visit, PoolInv, Types
        <3>5. /\ left[v] # <<>> /\ left'[v] = Tail(left[v]) /\ at'[v] = Head(left[v])
            BY <2>3, <3>3, <3>4 DEF Visit, Exhausted, Rest, PoolInv, Types
        <3>6. QED
            BY <2>1, <3>5, VisitsOfTail, DistinctTail
    <2>4. QED
        BY <2>2, <2>3
<1>2. QED
    BY <1>1, PoolInvariance, CursorsAreDistinct, PTL DEF Spec

-----------------------------------------------------------------------------
(* Why RequestEnds: what remains to be done decreases.                     *)

Stage == [idle |-> 0, failed |-> 0, picking |-> 1, counted |-> 2, answered |-> 3,
          waiting |-> 4]
Remaining(w) == 5 * Len(left[w]) + Stage[pc[w]]

\* A step of a request or refresh takes from what remains of it, and a step of
\* another, or time, does not add to it.
Advances ==
    \A w \in Workers : pc[w] # "idle" =>
        \/ pc'[w] = "idle"
        \/ Proceed(w) /\ Remaining(w)' < Remaining(w)
        \/ ~Proceed(w) /\ Remaining(w)' = Remaining(w)

\* A request ends after at most five steps for each exit it begins with: the
\* failover of one is not prolonged by the answers that others get.  (That the
\* steps are taken is the fairness of RequestEnds.)
THEOREM RequestsAdvance == Spec => [][Advances]_vars
<1>1. PoolInv /\ [Next]_vars => [Advances]_vars
    <2> SUFFICES ASSUME PoolInv, [Next]_vars, NEW v \in Workers,
                        pc[v] # "idle", pc'[v] # "idle"
                 PROVE  \/ Proceed(v) /\ Remaining(v)' < Remaining(v)
                        \/ ~Proceed(v) /\ Remaining(v)' = Remaining(v)
        BY DEF Advances
    <2>1. left[v] \in Seq(Nodes) /\ Len(left[v]) \in Nat
        BY DEF PoolInv, Types
    <2>2. ASSUME Proceed(v) PROVE Remaining(v)' < Remaining(v)
        <3>1. CASE Visit(v)
            <4>1. /\ pc[v] = "picking" /\ left[v] # <<>> /\ left'[v] = Tail(left[v])
                  /\ pc'[v] \in {"picking", "waiting"}
                BY <3>1 DEF Visit, Exhausted, Rest, PoolInv, Types
            <4>2. Len(Tail(left[v])) = Len(left[v]) - 1
                BY <2>1, <4>1
            <4>3. QED
                BY <2>1, <4>1, <4>2 DEF Remaining, Stage
        <3>2. CASE GiveUp(v) \/ Finish(v)
            <4>1. left'[v] = left[v] /\ pc[v] = "picking" /\ pc'[v] = "failed"
                BY <2>2, <3>2 DEF GiveUp, Finish, PoolInv, Types
            <4>2. QED
                BY <2>1, <4>1 DEF Remaining, Stage
        <3>3. CASE Answered(v)
            <4>1. left'[v] = left[v] /\ pc[v] = "waiting" /\ pc'[v] \in {"picking", "answered"}
                BY <3>3 DEF Answered, PoolInv, Types
            <4>2. QED
                BY <2>1, <4>1 DEF Remaining, Stage
        <3>4. CASE CountResult(v)
            <4>1. left'[v] = left[v] /\ pc[v] = "answered" /\ pc'[v] = "counted"
                BY <3>4 DEF CountResult, PoolInv, Types
            <4>2. QED
                BY <2>1, <4>1 DEF Remaining, Stage
        <3>5. CASE StoreCooldown(v)
            <4>1. left'[v] = left[v] /\ pc[v] = "counted" /\ pc'[v] = "picking"
                BY <3>5 DEF StoreCooldown, PoolInv, Types
            <4>2. QED
                BY <2>1, <4>1 DEF Remaining, Stage
        <3>6. QED
            BY <2>2, <3>1, <3>2, <3>3, <3>4, <3>5 DEF Proceed
    <2>3. ASSUME ~Proceed(v) PROVE left'[v] = left[v] /\ pc'[v] = pc[v]
        <3>1. ASSUME NEW w \in Workers, w # v, Begin(w) \/ Proceed(w)
              PROVE  left'[v] = left[v] /\ pc'[v] = pc[v]
            BY <3>1 DEF Begin, Proceed, Visit, GiveUp, Answered, CountResult,
                        StoreCooldown, Finish, PoolInv, Types
        <3>2. ~Begin(v)
            BY DEF Begin
        <3>3. CASE Tick \/ UNCHANGED vars
            BY <3>3 DEF Tick, vars, workers
        <3>4. QED
            BY <2>3, <3>1, <3>2, <3>3 DEF Next
    <2>4. QED
        BY <2>2, <2>3 DEF Remaining
<1>2. QED
    BY <1>1, PoolInvariance, PTL DEF Spec
=============================================================================
