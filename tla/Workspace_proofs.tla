--------------------------- MODULE Workspace_proofs ---------------------------
(***************************************************************************)
(* Proofs about the parts that work beside the mission on one workspace,   *)
(* for every value of their constants.  They share no variable: each part  *)
(* has an inductive invariant of its own, the lemmas that every step of it *)
(* keeps that invariant, and the theorem they add up to.                   *)
(***************************************************************************)
EXTENDS Sandbox, Shell, Background, Servers, Boundary, Index, Firewall, Snapshot,
        TLAPS, FiniteSetTheorems, NaturalsInduction

(***************************************************************************)
(* The container pool (Sandbox).                                           *)
(*                                                                         *)
(* For every number of jobs, sessions, containers and places in the queue, *)
(* under every fault the model knows: a container in use is never idle to  *)
(* the pool, a command runs at its own mount root and at most once, and no *)
(* admitted waiter sleeps beside an idle container.                        *)
(***************************************************************************)
-----------------------------------------------------------------------------
(* The invariant.                                                          *)

\* Where a job may be.
Stages == {"idle", "gate", "provision", "up", "host", "card", "native",
           "wasm", "acquire", "queued", "leased", "exec", "releasing",
           "attach", "shell", "ended"}

\* The stages of a job whose command has not been started anywhere.
Unstarted == {"idle", "gate", "provision", "up", "card", "wasm", "acquire",
              "queued", "leased", "attach"}

\* The states of the daemon breaker.
BreakerStates == {"closed", "shaky", "open", "half"}

\* The types of the variables.
SandboxTypes ==
    /\ tier \in {"DOCKER", "WASM", "NATIVE_HITL"}
    /\ work \in [Jobs -> [kind : JobKinds, session : Sessions]]
    /\ stage \in [Jobs -> Stages]
    /\ runs \in [Jobs -> Nat]
    /\ lease \in [Jobs -> Leases \cup {None}]
    /\ pool \in Seq(Leases)
    /\ ref \in [Leases -> Nat]
    /\ made \in [Sessions -> 0..MaxMade]
    /\ live \in SUBSET Leases
    /\ breaker \in BreakerStates
    /\ queue \in Seq(Jobs)

\* The count of a lease covers its borrowers whether it is pooled or not: an
\* evicted lease keeps its count, and a key is never leased twice under one
\* number.
CountsCover == \A l \in Leases : ref[l] >= Cardinality(Borrowers(l))

\* A job that is still looking for a tier has run nowhere.
StartedOnce ==
    \A j \in Jobs : runs[j] <= 1 /\ (stage[j] \in Unstarted => runs[j] = 0)

\* The inductive invariant.
SandboxInv == /\ SandboxTypes /\ CountsCover /\ RunsAtItsOwnRoot /\ HeadIsWoken
              /\ StartedOnce

-----------------------------------------------------------------------------
(* Sequences without some of their elements.                               *)

\* A nonempty set of numbers has a least one.
LEMMA Least ==
    ASSUME NEW S \in SUBSET Nat, S # {}
    PROVE  \E x \in S : \A y \in S : x <= y
<1> DEFINE below == {pair \in Nat \X Nat : pair[1] < pair[2]}
<1>1. IsWellFoundedOn(below, Nat)
  BY NatLessThanWellFounded DEF OpToRel
<1>2. \A m, n \in Nat : m < n => <<m, n>> \in below
  OBVIOUS
<1> HIDE DEF below
<1>3. PICK x \in S : \A y \in S : ~(<<y, x>> \in below)
  BY <1>1, WFMin
<1>4. \A y \in S : ~(y < x)
  BY <1>2, <1>3
<1> QED BY <1>4

\* What one place of a sequence adds to what was kept of the places before.
KeepNext(f, s, X, n) ==
    IF n = 0 THEN <<>>
    ELSE IF s[n] \in X THEN f[n - 1] ELSE Append(f[n - 1], s[n])

\* The prefixes of a sequence, filtered, up to some place.
Keeps(S, s, X, n) ==
    {f \in [0..n -> Seq(S)] : \A i \in 0..n : f[i] = KeepNext(f, s, X, i)}

\* The filtered prefixes exist, up to any place.
LEMMA KeepsExist ==
    ASSUME NEW S, NEW s \in Seq(S), NEW X
    PROVE  \A n \in 0..Len(s) : Keeps(S, s, X, n) # {}
<1> DEFINE bad == {n \in 0..Len(s) : Keeps(S, s, X, n) = {}}
<1> SUFFICES ASSUME bad # {} PROVE FALSE
  OBVIOUS
<1>1. PICK n \in bad : \A m \in bad : n <= m
  <2>1. bad \in SUBSET Nat
    OBVIOUS
  <2> HIDE DEF bad
  <2> QED BY <2>1, Least
<1>2. n \in Nat /\ n \in 0..Len(s) /\ Keeps(S, s, X, n) = {}
  BY <1>1
<1> HIDE DEF bad
<1>3. CASE n = 0
  <2> DEFINE f == [i \in 0..0 |-> <<>>]
  <2>1. f \in [0..0 -> Seq(S)] /\ \A i \in 0..0 : f[i] = KeepNext(f, s, X, i)
    BY DEF KeepNext
  <2>2. f \in Keeps(S, s, X, 0)
    BY <2>1 DEF Keeps
  <2> QED BY <1>2, <1>3, <2>2
<1>4. CASE n # 0
  <2>1. n - 1 \in 0..Len(s) /\ n \in 1..Len(s) /\ ~(n <= n - 1)
    BY <1>2, <1>4
  <2>2. PICK f : f \in Keeps(S, s, X, n - 1)
    BY <1>1, <2>1 DEF bad
  <2>3. /\ f \in [0..(n - 1) -> Seq(S)]
        /\ \A i \in 0..(n - 1) : f[i] = KeepNext(f, s, X, i)
    BY <2>2 DEF Keeps
  <2> DEFINE last == IF s[n] \in X THEN f[n - 1] ELSE Append(f[n - 1], s[n])
             g == [i \in 0..n |-> IF i = n THEN last ELSE f[i]]
  <2>4. last \in Seq(S)
    <3>1. n - 1 \in 0..(n - 1) /\ s[n] \in S
      BY <2>1
    <3>2. f[n - 1] \in Seq(S)
      BY <2>3, <3>1
    <3> QED BY <3>1, <3>2
  <2>5. \A i \in 0..n : i # n =>
            i \in 0..(n - 1) /\ (i # 0 => i - 1 \in 0..(n - 1) /\ i - 1 # n)
    BY <1>2
  <2>6. n - 1 \in 0..(n - 1) /\ n - 1 # n /\ n \in 0..n /\ n - 1 \in 0..n
    BY <1>2, <1>4
  <2> HIDE DEF last
  <2>7. g \in [0..n -> Seq(S)]
    BY <2>3, <2>4, <2>5
  <2>8. ASSUME NEW i \in 0..n PROVE g[i] = KeepNext(g, s, X, i)
    <3>1. CASE i = n
      <4>1. g[i] = last /\ g[i - 1] = f[n - 1]
        BY <2>6, <3>1
      <4> HIDE DEF g
      <4> QED BY <1>4, <3>1, <4>1 DEF KeepNext, last
    <3>2. CASE i # n
      <4>1. g[i] = f[i] /\ (i # 0 => g[i - 1] = f[i - 1])
        BY <2>5, <2>6, <3>2
      <4>2. f[i] = KeepNext(f, s, X, i)
        BY <2>3, <2>5, <3>2
      <4> HIDE DEF g
      <4> QED BY <4>1, <4>2 DEF KeepNext
    <3> QED BY <3>1, <3>2
  <2> HIDE DEF g
  <2>9. g \in Keeps(S, s, X, n)
    BY <2>7, <2>8 DEF Keeps
  <2> QED BY <1>2, <2>9
<1> QED BY <1>3, <1>4

\* Deleting the elements of X from a sequence leaves the others, and nothing
\* else.
LEMMA WithoutKeeps ==
    ASSUME NEW S, NEW s \in Seq(S), NEW X
    PROVE  /\ Without(s, X) \in Seq(S)
           /\ Elements(Without(s, X)) = Elements(s) \ X
<1> DEFINE N == Len(s)
           Filters(f) == f = [n \in 0..N |-> IF n = 0 THEN <<>>
                              ELSE IF s[n] \in X THEN f[n - 1]
                              ELSE Append(f[n - 1], s[n])]
           kept == CHOOSE f : Filters(f)
<1>1. N \in Nat /\ \A n \in 1..N : s[n] \in S
  OBVIOUS
<1>2. \E f : Filters(f)
  <2>1. PICK f : f \in Keeps(S, s, X, N)
    BY <1>1, KeepsExist
  <2>2. /\ f \in [0..N -> Seq(S)]
        /\ \A i \in 0..N : f[i] = IF i = 0 THEN <<>>
                                  ELSE IF s[i] \in X THEN f[i - 1]
                                  ELSE Append(f[i - 1], s[i])
    BY <2>1 DEF Keeps, KeepNext
  <2> QED BY <2>2
<1>3. Filters(kept)
  BY <1>2
<1>4. Without(s, X) = kept[N]
  BY DEF Without
<1>5. \A n \in 0..N : kept[n] = KeepNext(kept, s, X, n)
  BY <1>3 DEF KeepNext
<1> HIDE DEF kept
<1> DEFINE Good(n) == /\ kept[n] \in Seq(S)
                      /\ Elements(kept[n]) = {s[h] : h \in 1..n} \ X
           bad == {n \in 0..N : ~Good(n)}
<1>6. bad = {}
  <2> SUFFICES ASSUME bad # {} PROVE FALSE
    OBVIOUS
  <2>1. PICK n \in bad : \A m \in bad : n <= m
    <3>1. bad \in SUBSET Nat
      BY <1>1
    <3> HIDE DEF bad
    <3> QED BY <3>1, Least
  <2>2. n \in 0..N /\ ~Good(n)
    BY <2>1
  <2>3. CASE n = 0
    <3>1. kept[0] = <<>> /\ 1..0 = {}
      BY <1>1, <1>5 DEF KeepNext
    <3>2. Elements(<<>>) = {}
      BY DEF Elements
    <3>3. Good(0)
      BY <3>1, <3>2
    <3> QED BY <2>2, <2>3, <3>3
  <2>4. CASE n # 0
    <3>1. n - 1 \in 0..N /\ ~(n <= n - 1) /\ n \in 1..N /\ n \in 0..N
      BY <1>1, <2>2, <2>4
    <3>2. Good(n - 1)
      BY <2>1, <3>1
    <3>3. kept[n] = IF s[n] \in X THEN kept[n - 1] ELSE Append(kept[n - 1], s[n])
      BY <1>5, <2>4, <3>1 DEF KeepNext
    <3>4. {s[h] : h \in 1..n} = {s[h] : h \in 1..(n - 1)} \cup {s[n]}
      <4>1. 1..n = (1..(n - 1)) \cup {n}
        BY <3>1
      <4> QED BY <4>1
    <3>5. CASE s[n] \in X
      BY <2>2, <3>2, <3>3, <3>4, <3>5
    <3>6. CASE s[n] \notin X
      <4> DEFINE t == kept[n - 1]
      <4>1. t \in Seq(S) /\ s[n] \in S
        BY <1>1, <3>1, <3>2
      <4> HIDE DEF t
      <4>2. /\ Append(t, s[n]) \in Seq(S)
            /\ Elements(Append(t, s[n])) = Elements(t) \cup {s[n]}
        BY <4>1 DEF Elements
      <4>3. Good(n)
        BY <3>2, <3>3, <3>4, <3>6, <4>2 DEF t
      <4> QED BY <2>2, <4>3
    <3> QED BY <3>5, <3>6
  <2> QED BY <2>3, <2>4
<1>7. Good(N)
  <2>1. N \in 0..N
    BY <1>1
  <2> QED BY <1>6, <2>1
<1> QED BY <1>4, <1>7 DEF Elements

\* The elements of a sequence to which one is added at the end.
LEMMA AppendElements ==
    ASSUME NEW S, NEW s \in Seq(S), NEW x \in S
    PROVE  /\ Append(s, x) \in Seq(S)
           /\ Elements(Append(s, x)) = Elements(s) \cup {x}
           /\ Append(s, x)[Len(Append(s, x))] = x
BY DEF Elements

-----------------------------------------------------------------------------
(* What the operators of the pool do to it.                                *)

\* The values the pool's operators work on.
Docks == [pool : Seq(Leases), made : [Sessions -> 0..MaxMade],
          live : SUBSET Leases, breaker : BreakerStates]

\* The pool as it stands is one of them.
LEMMA PoolNow ==
    ASSUME SandboxTypes
    PROVE  /\ D \in Docks /\ D.pool = pool
           /\ Idle(D) = {l \in Elements(pool) : ref[l] = 0}
           /\ Elements(pool) \in SUBSET Leases
BY DEF SandboxTypes, Docks, D, Idle, Elements

\* A breaker that counts a failure is in one of its states.
LEMMA FailedIsState == \A b : Failed(b) \in BreakerStates
BY DEF Failed, BreakerStates

\* A teardown takes just the leases it is told to out of the pool.
LEMMA TeardownShrinks ==
    ASSUME NEW d \in Docks, NEW E, NEW e \in Teardown(d, E)
    PROVE  e \in Docks /\ Elements(e.pool) = Elements(d.pool) \ E
<1> DEFINE forget == [d EXCEPT !.pool = Without(@, E)]
<1>1. /\ d.pool \in Seq(Leases) /\ d.made \in [Sessions -> 0..MaxMade]
      /\ d.live \in SUBSET Leases /\ d.breaker \in BreakerStates
      /\ d = [pool |-> d.pool, made |-> d.made, live |-> d.live,
              breaker |-> d.breaker]
  BY DEF Docks
<1>2. /\ Without(d.pool, E) \in Seq(Leases)
      /\ Elements(Without(d.pool, E)) = Elements(d.pool) \ E
  BY <1>1, WithoutKeeps
<1>3. forget = [pool |-> Without(d.pool, E), made |-> d.made,
                live |-> d.live, breaker |-> d.breaker]
  BY <1>1
<1> HIDE DEF forget
<1>4. \/ e = forget
      \/ e = [forget EXCEPT !.live = @ \ E, !.breaker = "closed"]
      \/ \E G \in SUBSET E :
            \/ e = [forget EXCEPT !.live = @ \ G, !.breaker = "open"]
            \/ e = [forget EXCEPT !.live = @ \ G]
  BY DEF Teardown, forget
<1>5. PICK lv \in SUBSET Leases, b \in BreakerStates :
        e = [pool |-> Without(d.pool, E), made |-> d.made, live |-> lv,
             breaker |-> b]
  <2>1. CASE e = forget
    BY <1>1, <1>3, <2>1
  <2>2. CASE e = [forget EXCEPT !.live = @ \ E, !.breaker = "closed"]
    <3>1. d.live \ E \in SUBSET Leases /\ "closed" \in BreakerStates
      BY <1>1 DEF BreakerStates
    <3> QED BY <1>3, <2>2, <3>1
  <2>3. ASSUME NEW G \in SUBSET E,
               \/ e = [forget EXCEPT !.live = @ \ G, !.breaker = "open"]
               \/ e = [forget EXCEPT !.live = @ \ G]
        PROVE  \E lv \in SUBSET Leases, c \in BreakerStates :
                  e = [pool |-> Without(d.pool, E), made |-> d.made,
                       live |-> lv, breaker |-> c]
    <3>1. d.live \ G \in SUBSET Leases /\ "open" \in BreakerStates
      BY <1>1 DEF BreakerStates
    <3> QED BY <1>1, <1>3, <2>3, <3>1
  <2> QED BY <1>4, <2>1, <2>2, <2>3
<1> QED BY <1>1, <1>2, <1>5 DEF Docks

\* The least recently used of some pooled leases is one of them.
LEMMA OldestIsOne ==
    ASSUME NEW d \in Docks, NEW X \in SUBSET Elements(d.pool), X # {}
    PROVE  Oldest(d, X) \in X
<1> DEFINE N == Len(d.pool)
           places == {i \in 1..N : d.pool[i] \in X}
<1>1. N \in Nat
  BY DEF Docks
<1>2. places \in SUBSET Nat /\ places # {}
  BY <1>1 DEF Elements
<1>3. PICK i \in places : \A h \in places : i <= h
  <2> HIDE DEF places
  <2> QED BY <1>2, Least
<1>4. i \in 1..N /\ d.pool[i] \in X /\ \A h \in 1..(i - 1) : d.pool[h] \notin X
  BY <1>1, <1>3
<1> QED BY <1>4 DEF Oldest

\* Reaping and evicting only take idle leases out of the pool.
LEMMA ReapAndEvict ==
    ASSUME NEW d \in Docks
    PROVE  /\ \A e \in Reap(d) :
                e \in Docks /\ Elements(e.pool) \subseteq Elements(d.pool)
           /\ \A e \in Evict(d) :
                e \in Docks /\ Elements(e.pool) \subseteq Elements(d.pool)
<1>1. ASSUME NEW e \in Reap(d)
      PROVE  e \in Docks /\ Elements(e.pool) \subseteq Elements(d.pool)
  <2>1. PICK n \in 0..Len(d.pool) :
            e \in Teardown(d, {l \in Idle(d) : \E i \in 1..n : d.pool[i] = l})
    BY DEF Reap
  <2> QED BY <2>1, TeardownShrinks
<1>2. ASSUME NEW e \in Evict(d)
      PROVE  e \in Docks /\ Elements(e.pool) \subseteq Elements(d.pool)
  BY <1>2, TeardownShrinks DEF Evict
<1> QED BY <1>1, <1>2

\* A lookup forgets at most the lease it finds without a container.
LEMMA LookupShrinks ==
    ASSUME SandboxTypes, NEW s, NEW c \in Lookup(s)
    PROVE  c \in Docks /\ Elements(c.pool) \subseteq Elements(pool)
<1>1. D \in Docks /\ D.pool = pool
  BY PoolNow
<1>2. CASE c = D
  BY <1>1, <1>2
<1>3. CASE c # D
  <2>1. PICK l : c = [D EXCEPT !.pool = Without(@, {l})]
    BY <1>3 DEF Lookup
  <2>2. /\ Without(pool, {l}) \in Seq(Leases)
        /\ Elements(Without(pool, {l})) = Elements(pool) \ {l}
    BY WithoutKeeps DEF SandboxTypes
  <2>3. c = [pool |-> Without(pool, {l}), made |-> made, live |-> live,
             breaker |-> breaker]
    BY <2>1 DEF D
  <2> QED BY <2>2, <2>3 DEF Docks, SandboxTypes
<1> QED BY <1>2, <1>3

\* A creation adds one lease of the caller's key, at the end of the pool.
LEMMA CreatedAdds ==
    ASSUME NEW d \in Docks, NEW s \in Sessions, NEW e \in Created(d, s),
           SandboxBounds
    PROVE  LET l == e.pool[Len(e.pool)] IN
           /\ e \in Docks /\ l \in Leases /\ l[1] = s
           /\ Elements(e.pool) \subseteq Elements(d.pool) \cup {l}
<1> DEFINE l == <<s, d.made[s] + 1>>
           cleared == {c \in d.live : c[1] # s}
           rest == Without(d.pool, OfKey(d, s))
<1>1. /\ d.pool \in Seq(Leases) /\ d.made \in [Sessions -> 0..MaxMade]
      /\ d.live \in SUBSET Leases /\ d.breaker \in BreakerStates
      /\ d = [pool |-> d.pool, made |-> d.made, live |-> d.live,
              breaker |-> d.breaker]
  BY DEF Docks
<1>2. MaxMade \in Nat /\ d.made[s] # MaxMade /\ d.made[s] \in 0..MaxMade
  BY <1>1 DEF Created, SandboxBounds
<1>3. d.made[s] + 1 \in 1..MaxMade /\ d.made[s] + 1 \in 0..MaxMade
  BY <1>2
<1>4. l \in Leases /\ l[1] = s
  BY <1>3 DEF Leases
<1>5. e = [d EXCEPT !.pool = Append(Without(@, OfKey(d, s)), l),
                    !.made[s] = @ + 1, !.live = cleared \cup {l},
                    !.breaker = "closed"]
  BY DEF Created
<1>6. e = [pool |-> Append(rest, l), made |-> [d.made EXCEPT ![s] = @ + 1],
           live |-> cleared \cup {l}, breaker |-> "closed"]
  BY <1>1, <1>5
<1>7. rest \in Seq(Leases) /\ Elements(rest) = Elements(d.pool) \ OfKey(d, s)
  BY <1>1, WithoutKeeps
<1> HIDE DEF rest, l
<1>8. /\ Append(rest, l) \in Seq(Leases)
      /\ Elements(Append(rest, l)) = Elements(rest) \cup {l}
      /\ Append(rest, l)[Len(Append(rest, l))] = l
  BY <1>4, <1>7, AppendElements
<1>9. [d.made EXCEPT ![s] = @ + 1] \in [Sessions -> 0..MaxMade]
  BY <1>1, <1>3
<1>10. cleared \cup {l} \in SUBSET Leases /\ "closed" \in BreakerStates
  BY <1>1, <1>4 DEF BreakerStates
<1> QED BY <1>4, <1>6, <1>7, <1>8, <1>9, <1>10 DEF Docks

\* A creation that fails leases nothing, whatever it leaves running.
LEMMA FaultsKeepPool ==
    ASSUME NEW d \in Docks, NEW s \in Sessions, NEW e \in CreateFaults(d, s),
           SandboxBounds
    PROVE  e \in Docks /\ e.pool = d.pool
<1> DEFINE l == <<s, d.made[s] + 1>>
           cleared == {c \in d.live : c[1] # s}
           faulted == [d EXCEPT !.breaker = Failed(@)]
<1>1. /\ d.pool \in Seq(Leases) /\ d.made \in [Sessions -> 0..MaxMade]
      /\ d.live \in SUBSET Leases /\ d.breaker \in BreakerStates
      /\ d = [pool |-> d.pool, made |-> d.made, live |-> d.live,
              breaker |-> d.breaker]
  BY DEF Docks
<1>2. faulted = [pool |-> d.pool, made |-> d.made, live |-> d.live,
                 breaker |-> Failed(d.breaker)]
  BY <1>1
<1>3. faulted \in Docks
  BY <1>1, <1>2, FailedIsState DEF Docks
<1>4. cleared \in SUBSET Leases
  BY <1>1
<1> HIDE DEF cleared, faulted
<1>5. CASE e = d \/ e = faulted
  BY <1>2, <1>3, <1>5
<1>6. CASE e = [faulted EXCEPT !.live = cleared]
  <2>1. e = [pool |-> d.pool, made |-> d.made, live |-> cleared,
             breaker |-> Failed(d.breaker)]
    BY <1>2, <1>6
  <2> QED BY <1>1, <1>4, <2>1, FailedIsState DEF Docks
<1>7. CASE d.made[s] # MaxMade
           /\ \E f \in {faulted, d} :
                e = [f EXCEPT !.made[s] = @ + 1, !.live = cleared \cup {l}]
  <2>1. PICK f \in {faulted, d} :
            e = [f EXCEPT !.made[s] = @ + 1, !.live = cleared \cup {l}]
    BY <1>7
  <2>2. PICK b \in BreakerStates :
            f = [pool |-> d.pool, made |-> d.made, live |-> d.live,
                 breaker |-> b]
    BY <1>1, <1>2, FailedIsState
  <2>3. e = [pool |-> d.pool, made |-> [d.made EXCEPT ![s] = @ + 1],
             live |-> cleared \cup {l}, breaker |-> b]
    BY <2>1, <2>2
  <2>4. MaxMade \in Nat /\ d.made[s] \in 0..MaxMade
    BY <1>1 DEF SandboxBounds
  <2>5. d.made[s] + 1 \in 1..MaxMade /\ d.made[s] + 1 \in 0..MaxMade
    BY <1>7, <2>4
  <2>6. l \in Leases
    BY <2>5 DEF Leases
  <2>7. [d.made EXCEPT ![s] = @ + 1] \in [Sessions -> 0..MaxMade]
    BY <1>1, <2>5
  <2> HIDE DEF l
  <2> QED BY <1>1, <1>4, <2>3, <2>6, <2>7 DEF Docks
<1>8. \/ e = d \/ e = faulted
      \/ e = [faulted EXCEPT !.live = cleared]
      \/ d.made[s] # MaxMade
         /\ \E f \in {faulted, d} :
                e = [f EXCEPT !.made[s] = @ + 1, !.live = cleared \cup {l}]
  BY DEF CreateFaults, faulted, cleared
<1> QED BY <1>5, <1>6, <1>7, <1>8

-----------------------------------------------------------------------------
(* Borrowing and giving back.                                              *)

\* The borrowers of a lease are finitely many jobs.
LEMMA BorrowersAreCounted ==
    ASSUME SandboxBounds
    PROVE  \A l : /\ IsFiniteSet(Borrowers(l)) /\ Cardinality(Borrowers(l)) \in Nat
                  /\ IsFiniteSet(Borrowers(l)') /\ Cardinality(Borrowers(l)') \in Nat
<1> TAKE l
<1>1. Borrowers(l) \subseteq Jobs /\ Borrowers(l)' \subseteq Jobs
  BY DEF Borrowers
<1>2. IsFiniteSet(Jobs)
  BY DEF SandboxBounds
<1>3. IsFiniteSet(Borrowers(l)) /\ IsFiniteSet(Borrowers(l)')
  BY <1>1, <1>2, FS_Subset
<1> QED BY <1>3, FS_CardinalityType

\* A job that takes a lease is one borrower more of it, and of no other.
LEMMA OneBorrowerMore ==
    ASSUME SandboxBounds, SandboxTypes, NEW j \in Jobs, NEW l \in Leases,
           lease' = [lease EXCEPT ![j] = l], NEW k \in Leases
    PROVE  Cardinality(Borrowers(k)') <=
                Cardinality(Borrowers(k)) + (IF k = l THEN 1 ELSE 0)
<1> DEFINE old == Borrowers(k)
           new == Borrowers(k)'
<1>1. new \subseteq old \cup (IF k = l THEN {j} ELSE {})
  BY DEF Borrowers, SandboxTypes
<1>2. /\ IsFiniteSet(old) /\ Cardinality(old) \in Nat
      /\ IsFiniteSet(new) /\ Cardinality(new) \in Nat
  BY BorrowersAreCounted
<1> HIDE DEF old, new
<1>3. CASE k = l
  <2>1. /\ IsFiniteSet(old \cup {j})
        /\ Cardinality(old \cup {j}) \in {Cardinality(old), Cardinality(old) + 1}
    BY <1>2, FS_AddElement
  <2>2. Cardinality(new) <= Cardinality(old \cup {j})
    BY <1>1, <1>3, <2>1, FS_Subset
  <2> QED BY <1>2, <1>3, <2>1, <2>2 DEF old, new
<1>4. CASE k # l
  <2>1. Cardinality(new) <= Cardinality(old)
    BY <1>1, <1>2, <1>4, FS_Subset
  <2> QED BY <1>2, <1>4, <2>1 DEF old, new
<1> QED BY <1>3, <1>4

\* A job that gives its lease back is one borrower less of it.
LEMMA OneBorrowerLess ==
    ASSUME SandboxBounds, SandboxTypes, NEW j \in Jobs,
           lease' = [lease EXCEPT ![j] = None], NEW k \in Leases
    PROVE  /\ Cardinality(Borrowers(k)') <= Cardinality(Borrowers(k))
           /\ k = lease[j] =>
                Cardinality(Borrowers(k)') <= Cardinality(Borrowers(k)) - 1
<1> DEFINE old == Borrowers(k)
           new == Borrowers(k)'
<1>1. new = old \ {j} /\ (k = lease[j] => j \in old)
  BY DEF Borrowers, SandboxTypes, SandboxBounds
<1>2. /\ IsFiniteSet(old) /\ Cardinality(old) \in Nat
      /\ IsFiniteSet(new) /\ Cardinality(new) \in Nat
  BY BorrowersAreCounted
<1> HIDE DEF old, new
<1>3. Cardinality(new) = IF j \in old THEN Cardinality(old) - 1
                         ELSE Cardinality(old)
  BY <1>1, <1>2, FS_RemoveElement
<1> QED BY <1>1, <1>2, <1>3 DEF old, new

\* The outcome of asking the pool for a lease: a lease of the job's own root
\* or none, and no lease that becomes idle.
Served(j) ==
    /\ pool' \in Seq(Leases) /\ made' \in [Sessions -> 0..MaxMade]
    /\ live' \in SUBSET Leases /\ breaker' \in BreakerStates
    /\ ref' \in [Leases -> Nat] /\ lease' \in [Jobs -> Leases \cup {None}]
    /\ \E to \in {"attach", "leased", "ended"} :
            stage' = [stage EXCEPT ![j] = to]
    /\ CountsCover' /\ RunsAtItsOwnRoot'
    /\ Idle(D)' \subseteq Idle(D)

\* A pool takes on the values of d.
LEMMA BecomesDock ==
    ASSUME NEW d \in Docks, Becomes(d)
    PROVE  /\ pool' = d.pool
           /\ pool' \in Seq(Leases) /\ made' \in [Sessions -> 0..MaxMade]
           /\ live' \in SUBSET Leases /\ breaker' \in BreakerStates
BY DEF Becomes, Docks

\* Lending a lease of the job's own root.
LEMMA GrantServes ==
    ASSUME SandboxBounds, SandboxInv, NEW j \in Jobs, work' = work,
           NEW d \in Docks, NEW l \in Leases, Grant(j, d, l),
           Elements(d.pool) \subseteq Elements(pool) \cup {l},
           RootOf[l[1]] = RootOf[work[j].session]
    PROVE  Served(j)
<1> USE DEF SandboxInv, SandboxTypes
<1> DEFINE rest == Without(d.pool, {l})
           last == Append(rest, l)
           e == [d EXCEPT !.pool = last]
<1>1. d.pool \in Seq(Leases)
  BY DEF Docks
<1>2. rest \in Seq(Leases) /\ Elements(rest) = Elements(d.pool) \ {l}
  BY <1>1, WithoutKeeps
<1>3. /\ last \in Seq(Leases)
      /\ Elements(last) = (Elements(d.pool) \ {l}) \cup {l}
  <2> HIDE DEF rest
  <2>1. /\ Append(rest, l) \in Seq(Leases)
        /\ Elements(Append(rest, l)) = Elements(rest) \cup {l}
    BY <1>2, AppendElements
  <2> QED BY <1>2, <2>1
<1>4. Becomes(e) /\ ref' = [ref EXCEPT ![l] = @ + 1]
      /\ lease' = [lease EXCEPT ![j] = l]
  BY DEF Grant
<1> HIDE DEF last
<1>5. e \in Docks /\ e.pool = last
  BY <1>3 DEF Docks
<1>6. /\ pool' = last
      /\ pool' \in Seq(Leases) /\ made' \in [Sessions -> 0..MaxMade]
      /\ live' \in SUBSET Leases /\ breaker' \in BreakerStates
  <2> HIDE DEF e
  <2> QED BY <1>4, <1>5, BecomesDock
<1>7. /\ ref' \in [Leases -> Nat] /\ lease' \in [Jobs -> Leases \cup {None}]
      /\ \A k \in Leases : ref'[k] = ref[k] + (IF k = l THEN 1 ELSE 0)
  BY <1>4
<1>8. \E to \in {"attach", "leased", "ended"} :
            stage' = [stage EXCEPT ![j] = to]
  BY DEF Grant, To, Leased
<1>9. CountsCover'
  <2> SUFFICES ASSUME NEW k \in Leases
               PROVE  ref'[k] >= Cardinality(Borrowers(k)')
    BY DEF CountsCover
  <2>1. Cardinality(Borrowers(k)') <=
            Cardinality(Borrowers(k)) + (IF k = l THEN 1 ELSE 0)
    BY <1>4, OneBorrowerMore
  <2>2. ref[k] >= Cardinality(Borrowers(k)) /\ ref[k] \in Nat
    BY DEF CountsCover
  <2>3. Cardinality(Borrowers(k)) \in Nat /\ Cardinality(Borrowers(k)') \in Nat
    BY BorrowersAreCounted
  <2> QED BY <1>7, <2>1, <2>2, <2>3
<1>10. RunsAtItsOwnRoot'
  BY <1>4 DEF RunsAtItsOwnRoot
<1>11. Idle(D)' \subseteq Idle(D)
  <2>1. Idle(D) = {k \in Elements(pool) : ref[k] = 0}
    BY PoolNow
  <2>2. Idle(D)' = {k \in Elements(pool') : ref'[k] = 0}
    BY DEF Idle, D
  <2>3. Elements(pool') \subseteq Elements(pool) \cup {l}
    BY <1>3, <1>6
  <2>4. Elements(pool) \subseteq Leases
    BY PoolNow
  <2>5. ASSUME NEW k \in Idle(D)' PROVE k \in Idle(D)
    <3>1. k \in Elements(pool) \cup {l} /\ ref'[k] = 0
      BY <2>2, <2>3
    <3>2. k # l
      BY <1>7, <3>1
    <3>3. k \in Elements(pool) /\ ref[k] = 0
      BY <1>7, <2>4, <3>1, <3>2
    <3> QED BY <2>1, <3>3
  <2> QED BY <2>5
<1> QED BY <1>6, <1>7, <1>8, <1>9, <1>10, <1>11 DEF Served

\* Refusing a lease.
LEMMA RefuseServes ==
    ASSUME SandboxBounds, SandboxInv, NEW j \in Jobs, work' = work,
           NEW d \in Docks, Refuse(j, d),
           Elements(d.pool) \subseteq Elements(pool)
    PROVE  Served(j)
<1> USE DEF SandboxInv, SandboxTypes
<1>1. /\ pool' = d.pool
      /\ pool' \in Seq(Leases) /\ made' \in [Sessions -> 0..MaxMade]
      /\ live' \in SUBSET Leases /\ breaker' \in BreakerStates
  BY BecomesDock DEF Refuse
<1>2. ref' = ref /\ lease' = lease
      /\ \E to \in {"attach", "leased", "ended"} :
            stage' = [stage EXCEPT ![j] = to]
  BY DEF Refuse, To
<1>3. CountsCover' /\ RunsAtItsOwnRoot'
  BY <1>2 DEF CountsCover, RunsAtItsOwnRoot, Borrowers
<1>4. Idle(D)' \subseteq Idle(D)
  BY <1>1, <1>2, PoolNow DEF Idle, D
<1> QED BY <1>1, <1>2, <1>3, <1>4 DEF Served

\* Creating a container for a job.
LEMMA CreateServes ==
    ASSUME SandboxBounds, SandboxInv, NEW j \in Jobs, work' = work,
           NEW d \in Docks, Elements(d.pool) \subseteq Elements(pool),
           Create(j, d)
    PROVE  Served(j)
<1> DEFINE s == work[j].session
<1>1. s \in Sessions
  BY DEF SandboxInv, SandboxTypes
<1> HIDE DEF s
<1>2. ASSUME NEW e \in Created(d, s), Grant(j, e, e.pool[Len(e.pool)])
      PROVE  Served(j)
  <2> DEFINE l == e.pool[Len(e.pool)]
  <2>1. /\ e \in Docks /\ l \in Leases /\ l[1] = s
        /\ Elements(e.pool) \subseteq Elements(d.pool) \cup {l}
    BY <1>1, CreatedAdds
  <2>2. Grant(j, e, l)
    BY <1>2
  <2> HIDE DEF l
  <2>3. Elements(e.pool) \subseteq Elements(pool) \cup {l}
    BY <2>1
  <2>4. RootOf[l[1]] = RootOf[work[j].session]
    BY <2>1 DEF s
  <2> QED BY <2>1, <2>2, <2>3, <2>4, GrantServes
<1>3. ASSUME NEW e \in CreateFaults(d, s), Refuse(j, e)
      PROVE  Served(j)
  <2>1. e \in Docks /\ e.pool = d.pool
    BY <1>1, FaultsKeepPool
  <2> QED BY <1>3, <2>1, RefuseServes
<1>4. \/ \E e \in Created(d, s) : Grant(j, e, e.pool[Len(e.pool)])
      \/ \E e \in CreateFaults(d, s) : Refuse(j, e)
  BY DEF Create, s
<1> QED BY <1>2, <1>3, <1>4

\* Creating one where the pool is below its limit or has an idle lease.
LEMMA RoomServes ==
    ASSUME SandboxBounds, SandboxInv, NEW j \in Jobs, work' = work,
           NEW d \in Docks, Elements(d.pool) \subseteq Elements(pool),
           TakeRoom(j, d)
    PROVE  Served(j)
<1>1. CASE Create(j, d)
  BY <1>1, CreateServes
<1>2. ASSUME NEW e \in Evict(d), Create(j, e) PROVE Served(j)
  <2>1. e \in Docks /\ Elements(e.pool) \subseteq Elements(d.pool)
    BY ReapAndEvict
  <2>2. Elements(e.pool) \subseteq Elements(pool)
    BY <2>1
  <2> QED BY <1>2, <2>1, <2>2, CreateServes
<1> QED BY <1>1, <1>2 DEF TakeRoom

\* Sharing a lease, or refusing, after a wait that took too long.
LEMMA ShareServes ==
    ASSUME SandboxBounds, SandboxInv, NEW j \in Jobs, work' = work,
           ShareOrRaise(j, D)
    PROVE  Served(j)
<1> DEFINE X == {l \in Elements(D.pool) : RootOf[l[1]] = RootOf[work[j].session]}
<1>1. D \in Docks /\ D.pool = pool /\ Elements(pool) \in SUBSET Leases
  BY PoolNow DEF SandboxInv
<1>2. CASE X = {}
  <2>1. Refuse(j, D)
    BY <1>2 DEF ShareOrRaise
  <2> QED BY <1>1, <2>1, RefuseServes
<1>3. CASE X # {}
  <2> DEFINE l == Oldest(D, X)
  <2>1. Grant(j, D, l)
    BY <1>3 DEF ShareOrRaise
  <2>2. l \in X
    <3>1. X \in SUBSET Elements(D.pool)
      OBVIOUS
    <3> HIDE DEF X
    <3> QED BY <1>1, <1>3, <3>1, OldestIsOne
  <2> HIDE DEF l
  <2>3. l \in Leases /\ RootOf[l[1]] = RootOf[work[j].session]
    BY <1>1, <2>2
  <2>4. Elements(D.pool) \subseteq Elements(pool) \cup {l}
    BY <1>1
  <2> QED BY <1>1, <2>1, <2>3, <2>4, GrantServes
<1> QED BY <1>2, <1>3

\* Taking the lease of the job's own key once more.
LEMMA ReacquireServes ==
    ASSUME SandboxBounds, SandboxInv, NEW j \in Jobs, work' = work,
           Reacquire(j)
    PROVE  Served(j) /\ UNCHANGED waiters
<1>1. /\ D \in Docks /\ D.pool = pool /\ Elements(pool) \in SUBSET Leases
      /\ D = [pool |-> pool, made |-> made, live |-> live, breaker |-> breaker]
  BY PoolNow DEF SandboxInv, D
<1>2. PICK l \in OfKey(D, work[j].session) :
        \/ Grant(j, [D EXCEPT !.breaker = "closed"], l) /\ UNCHANGED waiters
        \/ Refuse(j, [D EXCEPT !.breaker = Failed(@)]) /\ UNCHANGED waiters
  BY DEF Reacquire
<1>3. l \in Leases /\ l[1] = work[j].session
  BY <1>1 DEF OfKey
<1>4. \A b \in BreakerStates :
        LET d == [D EXCEPT !.breaker = b] IN d \in Docks /\ d.pool = pool
  BY <1>1 DEF Docks
<1>5. CASE Grant(j, [D EXCEPT !.breaker = "closed"], l)
  <2> DEFINE d == [D EXCEPT !.breaker = "closed"]
  <2>1. d \in Docks /\ d.pool = pool
    BY <1>4 DEF BreakerStates
  <2>2. Grant(j, d, l)
    BY <1>5
  <2> HIDE DEF d
  <2>3. Elements(d.pool) \subseteq Elements(pool) \cup {l}
    BY <2>1
  <2>4. RootOf[l[1]] = RootOf[work[j].session]
    BY <1>3
  <2>5. Served(j)
    BY <1>3, <2>1, <2>2, <2>3, <2>4, GrantServes
  <2> QED BY <1>2, <2>5
<1>6. CASE Refuse(j, [D EXCEPT !.breaker = Failed(@)])
  <2> DEFINE d == [D EXCEPT !.breaker = Failed(@)]
  <2>1. d = [D EXCEPT !.breaker = Failed(breaker)]
    BY <1>1
  <2>2. d \in Docks /\ d.pool = pool
    BY <1>4, <2>1, FailedIsState
  <2>3. Refuse(j, d)
    BY <1>6
  <2> HIDE DEF d
  <2>4. Served(j)
    BY <2>2, <2>3, RefuseServes
  <2> QED BY <1>2, <2>4
<1> QED BY <1>2, <1>5, <1>6

-----------------------------------------------------------------------------
(* The steps of the jobs.                                                  *)

\* A head that is left in place stays woken while no lease becomes idle.
LEMMA HeadStays ==
    ASSUME SandboxInv, UNCHANGED waiters, Idle(D)' \subseteq Idle(D)
    PROVE  HeadIsWoken' /\ queue' \in Seq(Jobs)
BY DEF SandboxInv, SandboxTypes, HeadIsWoken, waiters

\* A waiter that leaves wakes whoever is now at the head.
LEMMA HeadIsNotified ==
    ASSUME SandboxInv, NEW j, LeaveQueue(j)
    PROVE  HeadIsWoken' /\ queue' \in Seq(Jobs)
<1>1. queue' \in Seq(Jobs) /\ Elements(queue') = Elements(queue) \ {j}
  BY WithoutKeeps DEF LeaveQueue, SandboxInv, SandboxTypes
<1>2. roused' = Elements(queue')
  BY <1>1 DEF LeaveQueue
<1>3. queue' # <<>> => queue'[1] \in Elements(queue')
  BY <1>1 DEF Elements
<1> QED BY <1>1, <1>2, <1>3 DEF HeadIsWoken

\* Release wakes everyone.
LEMMA ReleaseNotifies ==
    ASSUME SandboxInv, queue' = queue, roused' = Elements(queue)
    PROVE  HeadIsWoken' /\ queue' \in Seq(Jobs)
<1>1. queue \in Seq(Jobs)
  BY DEF SandboxInv, SandboxTypes
<1>2. queue # <<>> => queue[1] \in Elements(queue)
  BY <1>1 DEF Elements
<1> QED BY <1>1, <1>2 DEF HeadIsWoken

\* A job that moves, and is started only if it had not been.
LEMMA StageMoves ==
    ASSUME SandboxInv, NEW j \in Jobs, NEW to \in Stages,
           stage' = [stage EXCEPT ![j] = to],
           \/ runs' = runs /\ (to \in Unstarted => stage[j] \in Unstarted)
           \/ /\ runs' = [runs EXCEPT ![j] = @ + 1]
              /\ to \notin Unstarted /\ stage[j] \in Unstarted
    PROVE  stage' \in [Jobs -> Stages] /\ runs' \in [Jobs -> Nat] /\ StartedOnce'
<1>1. stage \in [Jobs -> Stages] /\ runs \in [Jobs -> Nat] /\ StartedOnce
  BY DEF SandboxInv, SandboxTypes
<1>2. stage' \in [Jobs -> Stages] /\ runs' \in [Jobs -> Nat]
  BY <1>1
<1>3. ASSUME NEW k \in Jobs
      PROVE  runs'[k] <= 1 /\ (stage'[k] \in Unstarted => runs'[k] = 0)
  <2>1. runs[k] <= 1 /\ (stage[k] \in Unstarted => runs[k] = 0) /\ runs[k] \in Nat
    BY <1>1 DEF StartedOnce
  <2>2. CASE k # j
    BY <1>1, <2>1, <2>2
  <2>3. CASE k = j
    <3>1. stage'[j] = to
      BY <1>1
    <3>2. CASE runs' = runs /\ (to \in Unstarted => stage[j] \in Unstarted)
      BY <2>1, <2>3, <3>1, <3>2
    <3>3. CASE /\ runs' = [runs EXCEPT ![j] = @ + 1]
               /\ to \notin Unstarted /\ stage[j] \in Unstarted
      <4>1. runs'[j] = runs[j] + 1
        BY <1>1, <3>3
      <4> QED BY <2>1, <2>3, <3>1, <3>3, <4>1
    <3> QED BY <3>2, <3>3
  <2> QED BY <2>2, <2>3
<1> QED BY <1>2, <1>3 DEF StartedOnce

\* Being served keeps the invariant, if the head of the queue is seen to.
LEMMA ServedKeeps ==
    ASSUME SandboxInv, NEW j \in Jobs, Served(j),
           stage[j] \in {"acquire", "queued"},
           UNCHANGED <<tier, work, runs>>,
           HeadIsWoken' /\ queue' \in Seq(Jobs)
    PROVE  SandboxInv'
<1>1. PICK to \in {"attach", "leased", "ended"} :
          stage' = [stage EXCEPT ![j] = to]
  BY DEF Served
<1>2. to \in Stages /\ stage[j] \in Unstarted
  BY DEF Stages, Unstarted
<1>3. stage' \in [Jobs -> Stages] /\ runs' \in [Jobs -> Nat] /\ StartedOnce'
  BY <1>1, <1>2, StageMoves
<1> QED BY <1>3 DEF Served, SandboxInv, SandboxTypes

\* Asking for a lease.
LEMMA AcquireStep ==
    ASSUME SandboxBounds, SandboxInv, NEW j \in Jobs, Acquire(j)
    PROVE  SandboxInv'
<1>1. stage[j] = "acquire" /\ UNCHANGED <<tier, work, runs>>
  BY DEF Acquire
<1>2. CASE Reacquire(j)
  <2>1. Served(j) /\ UNCHANGED waiters
    BY <1>1, <1>2, ReacquireServes
  <2>2. HeadIsWoken' /\ queue' \in Seq(Jobs)
    BY <2>1, HeadStays DEF Served
  <2> QED BY <1>1, <2>1, <2>2, ServedKeeps
<1>3. ASSUME NEW c \in Lookup(work[j].session), NEW d \in Reap(c),
             \/ /\ HasCapacityOrIdle(d)
                /\ TakeRoom(j, d) /\ UNCHANGED waiters
             \/ /\ ~HasCapacityOrIdle(d) /\ Len(queue) >= MaxQueued
                /\ Refuse(j, d) /\ UNCHANGED waiters
             \/ /\ ~HasCapacityOrIdle(d) /\ Len(queue) < MaxQueued
                /\ Becomes(d) /\ To(j, "queued")
                /\ queue' = Append(queue, j) /\ UNCHANGED <<ref, lease, roused>>
      PROVE  SandboxInv'
  <2>1. c \in Docks /\ Elements(c.pool) \subseteq Elements(pool)
    BY LookupShrinks DEF SandboxInv
  <2>2. d \in Docks /\ Elements(d.pool) \subseteq Elements(pool)
    BY <2>1, ReapAndEvict
  <2>3. CASE TakeRoom(j, d) /\ UNCHANGED waiters
    <3>1. Served(j)
      BY <1>1, <2>2, <2>3, RoomServes
    <3>2. HeadIsWoken' /\ queue' \in Seq(Jobs)
      BY <2>3, <3>1, HeadStays DEF Served
    <3> QED BY <1>1, <3>1, <3>2, ServedKeeps
  <2>4. CASE Refuse(j, d) /\ UNCHANGED waiters
    <3>1. Served(j)
      BY <1>1, <2>2, <2>4, RefuseServes
    <3>2. HeadIsWoken' /\ queue' \in Seq(Jobs)
      BY <2>4, <3>1, HeadStays DEF Served
    <3> QED BY <1>1, <3>1, <3>2, ServedKeeps
  <2>5. CASE /\ ~HasCapacityOrIdle(d) /\ Becomes(d) /\ To(j, "queued")
             /\ queue' = Append(queue, j) /\ UNCHANGED <<ref, lease, roused>>
    <3>1. /\ pool' = d.pool
          /\ pool' \in Seq(Leases) /\ made' \in [Sessions -> 0..MaxMade]
          /\ live' \in SUBSET Leases /\ breaker' \in BreakerStates
      BY <2>2, <2>5, BecomesDock
    <3>2. Idle(D)' = {}
      BY <2>5, <3>1 DEF HasCapacityOrIdle, Idle, D
    <3>3. HeadIsWoken' /\ queue' \in Seq(Jobs)
      BY <2>5, <3>2 DEF HeadIsWoken, SandboxInv, SandboxTypes
    <3>4. "queued" \in Stages /\ stage[j] \in Unstarted
      BY <1>1 DEF Stages, Unstarted
    <3>5. stage' \in [Jobs -> Stages] /\ runs' \in [Jobs -> Nat] /\ StartedOnce'
      BY <1>1, <2>5, <3>4, StageMoves DEF To
    <3>6. CountsCover' /\ RunsAtItsOwnRoot'
      BY <1>1, <2>5
         DEF CountsCover, RunsAtItsOwnRoot, Borrowers, SandboxInv
    <3> QED BY <1>1, <2>5, <3>1, <3>3, <3>5, <3>6 DEF SandboxInv, SandboxTypes
  <2> QED BY <1>3, <2>3, <2>4, <2>5
<1> QED BY <1>2, <1>3 DEF Acquire

\* A waiter that has the lock again, served or back to sleep.
LEMMA ResumeStep ==
    ASSUME SandboxBounds, SandboxInv, NEW j \in Jobs, Resume(j)
    PROVE  SandboxInv'
<1>1. stage[j] = "queued" /\ UNCHANGED <<tier, work, runs>>
  BY DEF Resume
<1>2. CASE queue[1] = j /\ HasCapacityOrIdle(D)
  <2>1. LeaveQueue(j) /\ TakeRoom(j, D)
    BY <1>2 DEF Resume
  <2>2. D \in Docks /\ D.pool = pool
    BY PoolNow DEF SandboxInv
  <2>3. Served(j)
    BY <1>1, <2>1, <2>2, RoomServes
  <2>4. HeadIsWoken' /\ queue' \in Seq(Jobs)
    BY <2>1, HeadIsNotified
  <2> QED BY <1>1, <2>3, <2>4, ServedKeeps
<1>3. CASE ~(queue[1] = j /\ HasCapacityOrIdle(D))
  <2>1. roused' = roused \ {j} /\ UNCHANGED <<queue, stage, lease, docker>>
    BY <1>3 DEF Resume
  <2>2. Idle(D)' = Idle(D)
    BY <2>1 DEF docker, Idle, D
  <2>3. HeadIsWoken'
    BY <1>3, <2>1, <2>2 DEF HeadIsWoken, HasCapacityOrIdle, SandboxInv
  <2>4. CountsCover' /\ RunsAtItsOwnRoot' /\ StartedOnce'
    BY <1>1, <2>1 DEF CountsCover, RunsAtItsOwnRoot, StartedOnce, Borrowers,
                      SandboxInv, docker
  <2> QED BY <1>1, <2>1, <2>3, <2>4 DEF SandboxInv, SandboxTypes, docker
<1> QED BY <1>2, <1>3

\* A waiter whose time is over.
LEMMA TimeoutStep ==
    ASSUME SandboxBounds, SandboxInv, NEW j \in Jobs, WaitTimeout(j)
    PROVE  SandboxInv'
<1>1. stage[j] = "queued" /\ UNCHANGED <<tier, work, runs>>
  BY DEF WaitTimeout
<1>2. Served(j)
  BY <1>1, ShareServes DEF WaitTimeout
<1>3. HeadIsWoken' /\ queue' \in Seq(Jobs)
  BY HeadIsNotified DEF WaitTimeout
<1> QED BY <1>1, <1>2, <1>3, ServedKeeps

\* A job that gives its lease back: the count falls with the borrower.
LEMMA ReleaseKeeps ==
    ASSUME SandboxBounds, SandboxInv, NEW j \in Jobs, Release(j),
           lease' = [lease EXCEPT ![j] = None], UNCHANGED <<tier, work>>,
           stage' \in [Jobs -> Stages] /\ runs' \in [Jobs -> Nat] /\ StartedOnce'
    PROVE  SandboxInv'
<1> USE DEF SandboxInv, SandboxTypes
<1> DEFINE l == lease[j]
           rest == Without(pool, {l})
<1>1. /\ ref' = [ref EXCEPT ![l] = IF @ = 0 THEN 0 ELSE @ - 1]
      /\ pool' = IF l \in Elements(pool) THEN Append(rest, l) ELSE pool
      /\ roused' = Elements(queue)
      /\ UNCHANGED <<made, live, breaker, queue>>
  BY DEF Release
<1>2. Elements(pool) \in SUBSET Leases
  BY PoolNow
<1>3. pool' \in Seq(Leases)
  <2>1. rest \in Seq(Leases)
    BY WithoutKeeps
  <2> HIDE DEF rest, l
  <2> QED BY <1>1, <1>2, <2>1, AppendElements
<1> HIDE DEF l
<1>4. ref' \in [Leases -> Nat]
  <2>1. ASSUME l \in Leases
        PROVE  (IF ref[l] = 0 THEN 0 ELSE ref[l] - 1) \in Nat
    <3>1. ref[l] \in Nat
      BY <2>1
    <3> QED BY <3>1
  <2> QED BY <1>1, <2>1
<1>5. \A k \in Leases :
          ref'[k] = IF k = l THEN (IF ref[k] = 0 THEN 0 ELSE ref[k] - 1) ELSE ref[k]
  BY <1>1
<1>6. CountsCover'
  <2> SUFFICES ASSUME NEW k \in Leases
               PROVE  ref'[k] >= Cardinality(Borrowers(k)')
    BY DEF CountsCover
  <2>1. /\ Cardinality(Borrowers(k)') <= Cardinality(Borrowers(k))
        /\ k = l => Cardinality(Borrowers(k)') <= Cardinality(Borrowers(k)) - 1
    BY OneBorrowerLess DEF l
  <2>2. ref[k] >= Cardinality(Borrowers(k)) /\ ref[k] \in Nat
    BY DEF CountsCover
  <2>3. Cardinality(Borrowers(k)) \in Nat /\ Cardinality(Borrowers(k)') \in Nat
    BY BorrowersAreCounted
  <2>4. ref'[k] = IF k = l THEN (IF ref[k] = 0 THEN 0 ELSE ref[k] - 1) ELSE ref[k]
    BY <1>5
  <2> DEFINE count == ref[k]
             before == Cardinality(Borrowers(k))
             after == Cardinality(Borrowers(k)')
  <2> HIDE DEF count, before, after
  <2>5. count \in Nat /\ before \in Nat /\ after \in Nat /\ count >= before
    BY <2>2, <2>3 DEF count, before, after
  <2>6. CASE k = l
    <3>1. after <= before - 1 /\ ref'[k] = IF count = 0 THEN 0 ELSE count - 1
      BY <2>1, <2>4, <2>6 DEF count, before, after
    <3>2. (IF count = 0 THEN 0 ELSE count - 1) >= after
      BY <2>5, <3>1
    <3> QED BY <3>1, <3>2 DEF after
  <2>7. CASE k # l
    <3>1. after <= before /\ ref'[k] = count
      BY <2>1, <2>4, <2>7 DEF count, before, after
    <3> QED BY <2>5, <3>1 DEF after
  <2> QED BY <2>6, <2>7
<1>7. lease' \in [Jobs -> Leases \cup {None}] /\ RunsAtItsOwnRoot'
  BY DEF RunsAtItsOwnRoot
<1>8. HeadIsWoken' /\ queue' \in Seq(Jobs)
  BY <1>1, ReleaseNotifies
<1> QED BY <1>1, <1>3, <1>4, <1>6, <1>7, <1>8

\* Steps that leave the leases and the queue alone.
LEMMA FrameKeeps ==
    ASSUME SandboxInv,
           UNCHANGED <<tier, work, lease, pool, ref, made, queue, roused>>,
           live' \in SUBSET Leases, breaker' \in BreakerStates,
           stage' \in [Jobs -> Stages] /\ runs' \in [Jobs -> Nat] /\ StartedOnce'
    PROVE  SandboxInv'
<1>1. Idle(D)' = Idle(D)
  BY DEF Idle, D
<1>2. CountsCover' /\ RunsAtItsOwnRoot' /\ HeadIsWoken'
  BY <1>1 DEF CountsCover, RunsAtItsOwnRoot, HeadIsWoken, Borrowers, SandboxInv
<1> QED BY <1>2 DEF SandboxInv, SandboxTypes

\* The daemon's answers leave the breaker in one of its states.
LEMMA BreakerMoves ==
    ASSUME SandboxTypes
    PROVE  /\ "closed" \in BreakerStates /\ Failed(breaker) \in BreakerStates
           /\ (IF breaker = "open" THEN "open" ELSE Failed(breaker))
                \in BreakerStates
BY FailedIsState DEF BreakerStates, SandboxTypes

\* The stages that routing and the permission verdict lead to.
LEMMA RoutesAreStages ==
    ASSUME SandboxTypes, NEW j \in Jobs
    PROVE  /\ Route(j) \in Stages /\ FallBack(j) \in Stages
           /\ Unstarted \subseteq Stages
<1>1. tier \in {"DOCKER", "WASM", "NATIVE_HITL"}
  BY DEF SandboxTypes
<1>2. Oracle(j) \in {"acquire", "wasm", "ended", "card"}
  BY <1>1 DEF Oracle
<1> QED BY <1>2 DEF Route, FallBack, Stages, Unstarted

\* A job on its way to a tier has not been started.
LEMMA RoutingStep ==
    ASSUME SandboxInv, NEW j \in Jobs, Start(j) \/ Gate(j)
    PROVE  SandboxInv'
<1> USE DEF SandboxInv
<1>1. PICK to \in Stages : stage' = [stage EXCEPT ![j] = to]
  BY RoutesAreStages DEF Start, Gate, Step, To, Stages
<1>2. /\ UNCHANGED <<tier, work, runs, lease, closing, docker, waiters>>
      /\ stage[j] \in Unstarted
  BY DEF Start, Gate, Step, Unstarted
<1>3. stage' \in [Jobs -> Stages] /\ runs' \in [Jobs -> Nat] /\ StartedOnce'
  BY <1>1, <1>2, StageMoves
<1> QED BY <1>2, <1>3, FrameKeeps DEF docker, waiters, SandboxTypes

\* The devcontainer: provisioning, running and falling back.
LEMMA HostStep ==
    ASSUME SandboxInv, NEW j \in Jobs,
           EnterProvision(j) \/ Provisioned(j) \/ HostExec(j)
    PROVE  SandboxInv'
<1> USE DEF SandboxInv
<1>1. UNCHANGED <<tier, work, lease, pool, ref, made, live, breaker, queue, roused>>
  BY DEF EnterProvision, Provisioned, HostExec, Step, docker, waiters
<1>2. stage' \in [Jobs -> Stages] /\ runs' \in [Jobs -> Nat] /\ StartedOnce'
  <2>1. CASE EnterProvision(j)
    BY <2>1, StageMoves DEF EnterProvision, To, Stages, Unstarted
  <2>2. CASE Provisioned(j)
    <3>1. CASE To(j, "host") /\ runs' = [runs EXCEPT ![j] = @ + 1]
      BY <2>2, <3>1, StageMoves DEF Provisioned, To, Stages, Unstarted
    <3>2. CASE To(j, FallBack(j)) /\ UNCHANGED runs
      <4>1. FallBack(j) \in Stages /\ stage[j] \in Unstarted
        BY <2>2, RoutesAreStages DEF Provisioned, Unstarted
      <4> QED BY <3>2, <4>1, StageMoves DEF To
    <3> QED BY <2>2, <3>1, <3>2 DEF Provisioned
  <2>3. CASE HostExec(j)
    BY <2>3, StageMoves DEF HostExec, Step, To, Stages, Unstarted
  <2> QED BY <2>1, <2>2, <2>3
<1> QED BY <1>1, <1>2, FrameKeeps DEF SandboxTypes

\* The consent card, the process on the host and the Wasm runtime.
LEMMA OracleStep ==
    ASSUME SandboxInv, NEW j \in Jobs, Card(j) \/ Native(j) \/ Wasm(j)
    PROVE  SandboxInv'
<1> USE DEF SandboxInv
<1>1. UNCHANGED <<tier, work, lease, pool, ref, made, live, breaker, queue, roused>>
  BY DEF Card, Native, Wasm, Step, docker, waiters
<1>2. stage' \in [Jobs -> Stages] /\ runs' \in [Jobs -> Nat] /\ StartedOnce'
  <2>1. CASE Card(j)
    BY <2>1, StageMoves DEF Card, To, Stages, Unstarted
  <2>2. CASE Native(j)
    BY <2>2, StageMoves DEF Native, Step, To, Stages, Unstarted
  <2>3. CASE Wasm(j)
    BY <2>3, StageMoves DEF Wasm, To, Stages, Unstarted
  <2> QED BY <2>1, <2>2, <2>3
<1> QED BY <1>1, <1>2, FrameKeeps DEF SandboxTypes

\* A command in a container, and a shell that is opened or closed.
LEMMA ExecStep ==
    ASSUME SandboxInv, NEW j \in Jobs,
           ExecStart(j) \/ ExecEnd(j) \/ Attach(j) \/ CloseShell(j)
    PROVE  SandboxInv'
<1> USE DEF SandboxInv
<1>1. /\ UNCHANGED <<tier, work, lease, pool, ref, made, live, queue, roused>>
      /\ breaker' \in BreakerStates
  <2>1. CASE ExecStart(j) \/ Attach(j)
    BY <2>1, BreakerMoves DEF ExecStart, Attach, waiters
  <2>2. CASE ExecEnd(j)
    BY <2>2, BreakerMoves DEF ExecEnd, waiters
  <2>3. CASE CloseShell(j)
    BY <2>3 DEF CloseShell, waiters, docker, SandboxTypes
  <2> QED BY <2>1, <2>2, <2>3
<1>2. stage' \in [Jobs -> Stages] /\ runs' \in [Jobs -> Nat] /\ StartedOnce'
  <2>1. CASE ExecStart(j)
    BY <2>1, StageMoves DEF ExecStart, To, Stages, Unstarted
  <2>2. CASE ExecEnd(j)
    BY <2>2, StageMoves DEF ExecEnd, To, Stages, Unstarted
  <2>3. CASE Attach(j)
    BY <2>3, StageMoves DEF Attach, To, Stages, Unstarted
  <2>4. CASE CloseShell(j)
    BY <2>4, StageMoves DEF CloseShell, To, Stages, Unstarted
  <2> QED BY <2>1, <2>2, <2>3, <2>4
<1> QED BY <1>1, <1>2, FrameKeeps DEF SandboxTypes

\* A lease given back, by a command or by a closed shell.
LEMMA ReleaseStep ==
    ASSUME SandboxBounds, SandboxInv, NEW j \in Jobs,
           ExecRelease(j) \/ ShellRelease(j)
    PROVE  SandboxInv'
<1>1. /\ Release(j) /\ lease' = [lease EXCEPT ![j] = None]
      /\ UNCHANGED <<tier, work, runs>>
  BY DEF ExecRelease, ShellRelease
<1>2. stage' \in [Jobs -> Stages] /\ runs' \in [Jobs -> Nat] /\ StartedOnce'
  <2>1. CASE ExecRelease(j)
    BY <2>1, StageMoves DEF ExecRelease, To, Stages, Unstarted
  <2>2. CASE ShellRelease(j)
    BY <2>2 DEF ShellRelease, StartedOnce, SandboxInv, SandboxTypes
  <2> QED BY <2>1, <2>2
<1> QED BY <1>1, <1>2, ReleaseKeeps

\* The operator's stop, wherever it finds the job.
LEMMA CancelStep ==
    ASSUME SandboxBounds, SandboxInv, NEW j \in Jobs, Cancel(j)
    PROVE  SandboxInv'
<1> USE DEF SandboxInv
<1>1. UNCHANGED <<tier, work, runs, docker>>
  BY DEF Cancel
<1>2. PICK to \in {"ended", "releasing"} : stage' = [stage EXCEPT ![j] = to]
  BY DEF Cancel, To
<1>3. stage' \in [Jobs -> Stages] /\ runs' \in [Jobs -> Nat] /\ StartedOnce'
  <2>1. to \in Stages /\ to \notin Unstarted
    BY DEF Stages, Unstarted
  <2> QED BY <1>1, <1>2, <2>1, StageMoves
<1>4. CASE UNCHANGED <<lease, waiters>>
  BY <1>1, <1>3, <1>4, FrameKeeps DEF docker, waiters, SandboxTypes
<1>5. Idle(D)' = Idle(D)
  BY <1>1 DEF Idle, D, docker
<1>6. CASE LeaveQueue(j) /\ UNCHANGED lease
  <2>1. HeadIsWoken' /\ queue' \in Seq(Jobs)
    BY <1>6, HeadIsNotified
  <2>2. CountsCover' /\ RunsAtItsOwnRoot'
    BY <1>1, <1>6 DEF CountsCover, RunsAtItsOwnRoot, Borrowers, docker
  <2> QED BY <1>1, <1>3, <1>6, <2>1, <2>2 DEF docker, SandboxTypes
<1>7. CASE lease' = [lease EXCEPT ![j] = None] /\ UNCHANGED waiters
  <2>1. HeadIsWoken' /\ queue' \in Seq(Jobs)
    BY <1>5, <1>7, HeadStays
  <2>2. CountsCover'
    <3> SUFFICES ASSUME NEW k \in Leases
                 PROVE  ref'[k] >= Cardinality(Borrowers(k)')
      BY DEF CountsCover
    <3>1. Cardinality(Borrowers(k)') <= Cardinality(Borrowers(k))
      BY <1>7, OneBorrowerLess
    <3>2. ref[k] >= Cardinality(Borrowers(k)) /\ ref[k] \in Nat /\ ref' = ref
      BY <1>1 DEF CountsCover, docker, SandboxTypes
    <3>3. Cardinality(Borrowers(k)) \in Nat /\ Cardinality(Borrowers(k)') \in Nat
      BY BorrowersAreCounted
    <3> QED BY <3>1, <3>2, <3>3
  <2>3. lease' \in [Jobs -> Leases \cup {None}] /\ RunsAtItsOwnRoot'
    BY <1>1, <1>7 DEF RunsAtItsOwnRoot, SandboxTypes
  <2> QED BY <1>1, <1>3, <2>1, <2>2, <2>3 DEF docker, SandboxTypes
<1> QED BY <1>4, <1>6, <1>7 DEF Cancel

\* A container that disappears and a breaker that cools down touch no lease.
LEMMA FaultStep ==
    ASSUME SandboxInv, Cooldown \/ \E l \in Leases : Vanish(l)
    PROVE  SandboxInv'
<1> USE DEF SandboxInv, SandboxTypes
<1>1. /\ UNCHANGED <<tier, work, stage, runs, lease, pool, ref, made, queue, roused>>
      /\ live' \in SUBSET Leases /\ breaker' \in BreakerStates
  BY DEF Cooldown, Vanish, jobs, waiters, BreakerStates
<1>2. stage' \in [Jobs -> Stages] /\ runs' \in [Jobs -> Nat] /\ StartedOnce'
  BY <1>1 DEF StartedOnce
<1> QED BY <1>1, <1>2, FrameKeeps

\* After a restart nobody borrows and nobody waits.
LEMMA RestartStep ==
    ASSUME SandboxBounds, SandboxInv, Restart
    PROVE  SandboxInv'
<1> USE DEF SandboxInv, SandboxTypes
<1>1. /\ tier' \in {"DOCKER", "WASM", "NATIVE_HITL"}
      /\ UNCHANGED <<work, runs, made>>
      /\ stage' = [j \in Jobs |-> IF stage[j] = "idle" THEN "idle" ELSE "ended"]
      /\ lease' = [j \in Jobs |-> None] /\ ref' = [l \in Leases |-> 0]
      /\ pool' = <<>> /\ queue' = <<>> /\ live' \in SUBSET Leases
      /\ breaker' \in BreakerStates
  BY DEF Restart, SandboxBounds, BreakerStates
<1>2. stage' \in [Jobs -> Stages] /\ StartedOnce'
  BY <1>1 DEF StartedOnce, Stages, Unstarted
<1>3. CountsCover'
  <2> SUFFICES ASSUME NEW k \in Leases
               PROVE  ref'[k] >= Cardinality(Borrowers(k)')
    BY DEF CountsCover
  <2>1. Borrowers(k)' = {}
    BY <1>1 DEF Borrowers, SandboxBounds
  <2> QED BY <1>1, <2>1, FS_EmptySet
<1>4. RunsAtItsOwnRoot' /\ HeadIsWoken'
  BY <1>1 DEF RunsAtItsOwnRoot, HeadIsWoken
<1> QED BY <1>1, <1>2, <1>3, <1>4

-----------------------------------------------------------------------------
(* The theorems.                                                           *)

\* The pool starts empty and every job idle.
LEMMA InitHolds == ASSUME SandboxBounds, Init PROVE SandboxInv
<1>1. SandboxTypes
  BY DEF Init, SandboxBounds, SandboxTypes, Stages, BreakerStates
<1>2. CountsCover
  <2> SUFFICES ASSUME NEW k \in Leases
               PROVE  ref[k] >= Cardinality(Borrowers(k))
    BY DEF CountsCover
  <2>1. Borrowers(k) = {} /\ ref[k] = 0
    BY DEF Borrowers, Init, SandboxBounds
  <2> QED BY <2>1, FS_EmptySet
<1>3. RunsAtItsOwnRoot /\ HeadIsWoken /\ StartedOnce
  BY DEF Init, RunsAtItsOwnRoot, HeadIsWoken, StartedOnce, Unstarted
<1> QED BY <1>1, <1>2, <1>3 DEF SandboxInv

\* Every step of the jobs, of Docker and of the backend keeps the invariant.
LEMMA NextKeeps == ASSUME SandboxBounds, SandboxInv, Next PROVE SandboxInv'
<1>1. ASSUME NEW j \in Jobs, Start(j) \/ Gate(j) PROVE SandboxInv'
  BY <1>1, RoutingStep
<1>2. ASSUME NEW j \in Jobs, EnterProvision(j) \/ Provisioned(j) \/ HostExec(j)
      PROVE  SandboxInv'
  BY <1>2, HostStep
<1>3. ASSUME NEW j \in Jobs, Card(j) \/ Native(j) \/ Wasm(j) PROVE SandboxInv'
  BY <1>3, OracleStep
<1>4. ASSUME NEW j \in Jobs, Acquire(j) PROVE SandboxInv'
  BY <1>4, AcquireStep
<1>5. ASSUME NEW j \in Jobs, Resume(j) PROVE SandboxInv'
  BY <1>5, ResumeStep
<1>6. ASSUME NEW j \in Jobs, WaitTimeout(j) PROVE SandboxInv'
  BY <1>6, TimeoutStep
<1>7. ASSUME NEW j \in Jobs,
             ExecStart(j) \/ ExecEnd(j) \/ Attach(j) \/ CloseShell(j)
      PROVE  SandboxInv'
  BY <1>7, ExecStep
<1>8. ASSUME NEW j \in Jobs, ExecRelease(j) \/ ShellRelease(j) PROVE SandboxInv'
  BY <1>8, ReleaseStep
<1>9. ASSUME NEW j \in Jobs, Cancel(j) PROVE SandboxInv'
  BY <1>9, CancelStep
<1>10. CASE Cooldown \/ \E l \in Leases : Vanish(l)
  BY <1>10, FaultStep
<1>11. CASE Restart
  BY <1>11, RestartStep
<1> QED BY <1>1, <1>2, <1>3, <1>4, <1>5, <1>6, <1>7, <1>8, <1>9, <1>10, <1>11
       DEF Next, Advance

\* A step that changes nothing keeps it too.
LEMMA StutterKeeps == ASSUME SandboxInv, UNCHANGED vars PROVE SandboxInv'
<1>1. stage' \in [Jobs -> Stages] /\ runs' \in [Jobs -> Nat] /\ StartedOnce'
  BY DEF vars, jobs, StartedOnce, SandboxInv, SandboxTypes
<1> QED BY <1>1, FrameKeeps
       DEF vars, jobs, docker, waiters, SandboxInv, SandboxTypes

\* The counts of the pool cover its borrowers, every lease is at its holder's
\* root, the head of the queue is awake beside an idle container and a job that
\* is still looking for a tier has run nowhere, in every reachable state.
THEOREM PoolInvariance == ASSUME SandboxBounds PROVE Spec => []SandboxInv
<1>1. Init => SandboxInv
  BY InitHolds
<1>2. SandboxInv /\ [Next]_vars => SandboxInv'
  BY NextKeeps, StutterKeeps
<1> QED BY <1>1, <1>2, PTL DEF Spec

\* No container is evicted or reaped under a job that uses it, no job runs at
\* another root or twice, and no admission sleeps beside an idle container
\* (_ContainerPool's acquire, release and admission queue; run_guarded_command
\* and its fallbacks).
THEOREM PoolSafe == ASSUME SandboxBounds PROVE Spec => []PoolIsSafe
<1>1. SandboxInv => PoolIsSafe
  <2> SUFFICES ASSUME SandboxInv PROVE PoolIsSafe
    OBVIOUS
  <2>1. NeverEvictedInUse
    BY PoolNow DEF SandboxInv, CountsCover, NeverEvictedInUse
  <2>2. RunsOnce
    BY DEF SandboxInv, StartedOnce, RunsOnce
  <2> QED BY <2>1, <2>2 DEF SandboxInv, PoolIsSafe
<1> QED BY <1>1, PoolInvariance, PTL

(****************************************************************************)
(* The persistent shell of a session (Shell)                               *)
(*                                                                         *)
(* For every number of commands, gave-up runs and restarts of the stream:  *)
(* no run returns the code of a later command.                             *)
(****************************************************************************)
Items == {Out, Eof, Exit, Opened, Refused} \cup {Mark(c) : c \in Cmds}
Codes == 0 .. MaxCmds

ShellTypes ==
    /\ wire \in Seq(Items) /\ raw \in Seq(Items) /\ out \in Seq(Items) /\ hold \in Items
    /\ proc \in [asked : BOOLEAN, alive : BOOLEAN, cmds : Seq(Cmds), printed : Nat]
    /\ sent \in Codes /\ waits \in Codes /\ pending \in Codes
    /\ got \in [Cmds -> Codes] /\ late \in SUBSET Cmds

\* The commands whose markers a queue holds, and those the shell has still to run.
MarksIn(q) == {q[i].c : i \in {n \in DOMAIN q : q[n].k = "mark"}}
ToRun == {proc.cmds[i] : i \in DOMAIN proc.cmds}
Flowing == MarksIn(raw) \cup MarksIn(wire) \cup ToRun

\* A queue holds one marker of a command.
MarkedOnce(q) ==
    \A i, j \in DOMAIN q : q[i].k = "mark" /\ q[j].k = "mark" /\ q[i].c = q[j].c => i = j

FlowsOnce ==
    /\ MarkedOnce(raw) /\ MarkedOnce(wire)
    /\ \A i, j \in DOMAIN proc.cmds : proc.cmds[i] = proc.cmds[j] => i = j
    /\ MarksIn(raw) \cap MarksIn(wire) = {}
    /\ ToRun \cap MarksIn(wire) = {} /\ ToRun \cap MarksIn(raw) = {}

\* What flows was sent; what flows beside the awaited command is the rest of a run
\* that gave up, or comes after one.
FlowsLate ==
    /\ Flowing \subseteq 1 .. sent
    /\ \A c \in Flowing : c # waits => \E t \in late : t <= c

WaitIsLast == waits # 0 => pending = waits /\ waits = sent

InStep == FlowsOnce /\ FlowsLate /\ WaitIsLast /\ CodesLagOnlyAfterTimeout

HoldsEof(q) == \E i \in DOMAIN q : q[i] = Eof

\* Once the demux has ended, in a session that was open, the stream has its end.
Released ==
    /\ phase = "opening" => sent = 0
    /\ demux = "ended" /\ (phase \in {"open", "closing"} \/ sent > 0) =>
           consumer = "ended" \/ HoldsEof(out)

ShellInv == ShellTypes /\ InStep /\ Released

LEMMA ItemKinds ==
    /\ {Out, Eof, Exit, Opened, Refused} \subseteq Items
    /\ Out.k # "mark" /\ Eof.k # "mark" /\ Exit.k # "mark" /\ Opened.k # "mark" /\ Refused.k # "mark"
    /\ \A c \in Cmds : Mark(c) \in Items /\ Mark(c).k = "mark" /\ Mark(c).c = c
    /\ \A x \in Items : x.k = "mark" => x.c \in Cmds /\ x = Mark(x.c)
<1>1. {Out, Eof, Exit, Opened, Refused} \subseteq Items
  BY DEF Items
<1>2. Out.k # "mark" /\ Eof.k # "mark" /\ Exit.k # "mark" /\ Opened.k # "mark" /\ Refused.k # "mark"
  BY DEF Out, Eof, Exit, Opened, Refused
<1>3. \A c \in Cmds : Mark(c) \in Items
  BY DEF Items
<1>4. \A c \in Cmds : Mark(c).k = "mark" /\ Mark(c).c = c
  BY DEF Mark
<1>5. \A x \in Items : x.k = "mark" => \E c \in Cmds : x = Mark(c)
  BY <1>2 DEF Items
<1> QED  BY <1>1, <1>2, <1>3, <1>4, <1>5

LEMMA Appending ==
    ASSUME NEW q \in Seq(Items), NEW x \in Items
    PROVE  /\ Append(q, x) \in Seq(Items)
           /\ MarksIn(Append(q, x)) = MarksIn(q) \cup (IF x.k = "mark" THEN {x.c} ELSE {})
           /\ MarkedOnce(q) /\ (x.k = "mark" => x.c \notin MarksIn(q)) => MarkedOnce(Append(q, x))
           /\ HoldsEof(q) \/ x = Eof => HoldsEof(Append(q, x))
<1> DEFINE r == Append(q, x)
<1>1. /\ r \in Seq(Items) /\ DOMAIN r = 1 .. Len(q) + 1 /\ DOMAIN q = 1 .. Len(q) /\ Len(q) \in Nat
      /\ \A i \in DOMAIN q : i \in DOMAIN r /\ r[i] = q[i]
      /\ Len(q) + 1 \in DOMAIN r /\ r[Len(q) + 1] = x
      /\ \A i \in DOMAIN r : i \in DOMAIN q \/ i = Len(q) + 1
  OBVIOUS
<1> HIDE DEF r
<1>2. MarksIn(r) = MarksIn(q) \cup (IF x.k = "mark" THEN {x.c} ELSE {})
  BY <1>1 DEF MarksIn
<1>3. MarkedOnce(q) /\ (x.k = "mark" => x.c \notin MarksIn(q)) => MarkedOnce(r)
  BY <1>1 DEF MarksIn, MarkedOnce
<1>4. HoldsEof(q) \/ x = Eof => HoldsEof(r)
  BY <1>1 DEF HoldsEof
<1> QED  BY <1>1, <1>2, <1>3, <1>4 DEF r

LEMMA Taking ==
    ASSUME NEW q \in Seq(Items), q # <<>>
    PROVE  /\ Tail(q) \in Seq(Items) /\ Head(q) \in Items
           /\ MarksIn(Tail(q)) \subseteq MarksIn(q)
           /\ Head(q).k = "mark" => Head(q).c \in MarksIn(q)
           /\ MarkedOnce(q) => MarkedOnce(Tail(q))
           /\ MarkedOnce(q) /\ Head(q).k = "mark" => Head(q).c \notin MarksIn(Tail(q))
           /\ HoldsEof(q) => Head(q) = Eof \/ HoldsEof(Tail(q))
<1> DEFINE r == Tail(q)
<1>1. /\ r \in Seq(Items) /\ Head(q) \in Items /\ Len(q) \in Nat \ {0}
      /\ DOMAIN q = 1 .. Len(q) /\ DOMAIN r = 1 .. Len(q) - 1
      /\ Head(q) = q[1] /\ 1 \in DOMAIN q
      /\ \A i \in DOMAIN r : i + 1 \in DOMAIN q /\ r[i] = q[i + 1] /\ i + 1 # 1
      /\ \A i \in DOMAIN q : i = 1 \/ (i - 1 \in DOMAIN r /\ r[i - 1] = q[i])
  OBVIOUS
<1> HIDE DEF r
<1>2. MarksIn(r) \subseteq MarksIn(q)
  BY <1>1 DEF MarksIn
<1>3. Head(q).k = "mark" => Head(q).c \in MarksIn(q)
  <2> SUFFICES ASSUME Head(q).k = "mark" PROVE q[1].c \in MarksIn(q)
    BY <1>1
  <2>1. 1 \in {n \in DOMAIN q : q[n].k = "mark"}
    BY <1>1
  <2> QED  BY <2>1 DEF MarksIn
<1>4. MarkedOnce(q) => MarkedOnce(r)
  <2> SUFFICES ASSUME MarkedOnce(q), NEW i \in DOMAIN r, NEW j \in DOMAIN r,
                      r[i].k = "mark", r[j].k = "mark", r[i].c = r[j].c
               PROVE  i = j
    BY DEF MarkedOnce
  <2>1. i + 1 = j + 1 /\ i \in Nat /\ j \in Nat
    BY <1>1 DEF MarkedOnce
  <2> QED  BY <2>1
<1>5. MarkedOnce(q) /\ Head(q).k = "mark" => Head(q).c \notin MarksIn(r)
  BY <1>1 DEF MarksIn, MarkedOnce
<1>6. HoldsEof(q) => Head(q) = Eof \/ HoldsEof(r)
  BY <1>1 DEF HoldsEof
<1> QED  BY <1>1, <1>2, <1>3, <1>4, <1>5, <1>6 DEF r

LEMMA EofComes ==
    ASSUME NEW q \in Seq(Items)
    PROVE  /\ Append(q, Eof) \in Seq(Items) /\ HoldsEof(Append(q, Eof))
           /\ MarksIn(Append(q, Eof)) = MarksIn(q)
           /\ MarkedOnce(q) => MarkedOnce(Append(q, Eof))
<1>1. Eof \in Items /\ Eof.k # "mark"
  BY ItemKinds
<1> QED  BY <1>1, Appending

LEMMA Forcing ==
    ASSUME NEW q \in Seq(Items), NEW cap \in Nat \ {0}
    PROVE  /\ ForceEof(q, cap) \in Seq(Items) /\ HoldsEof(ForceEof(q, cap))
           /\ MarksIn(ForceEof(q, cap)) \subseteq MarksIn(q)
           /\ MarkedOnce(q) => MarkedOnce(ForceEof(q, cap))
<1>1. CASE Len(q) = cap
  <2>1. q # <<>>
    BY <1>1
  <2>2. ForceEof(q, cap) = Append(Tail(q), Eof) /\ Tail(q) \in Seq(Items)
    BY <1>1, <2>1, Taking DEF ForceEof
  <2>3. /\ ForceEof(q, cap) \in Seq(Items) /\ HoldsEof(ForceEof(q, cap))
        /\ MarksIn(ForceEof(q, cap)) = MarksIn(Tail(q))
        /\ MarkedOnce(Tail(q)) => MarkedOnce(ForceEof(q, cap))
    BY <2>2, EofComes
  <2> QED  BY <2>1, <2>3, Taking
<1>2. CASE Len(q) # cap
  BY <1>2, EofComes DEF ForceEof
<1> QED  BY <1>1, <1>2

ProcRecords == [asked : BOOLEAN, alive : BOOLEAN, cmds : Seq(Cmds), printed : Nat]

\* The commands still to run are the same, or none.
SameOrNone == proc' \in ProcRecords /\ (proc'.cmds = proc.cmds \/ proc'.cmds = <<>>)

LEMMA Queues ==
    ASSUME ShellInv
    PROVE  /\ wire \in Seq(Items) /\ raw \in Seq(Items) /\ out \in Seq(Items) /\ hold \in Items
           /\ proc \in ProcRecords /\ proc.cmds \in Seq(Cmds)
           /\ MarkedOnce(raw) /\ MarkedOnce(wire)
           /\ RawCap \in Nat \ {0} /\ OutCap \in Nat \ {0}
<1>1. RawCap \in Nat \ {0} /\ OutCap \in Nat \ {0}
  BY ShellBounds
<1>2. proc.cmds \in Seq(Cmds)
  BY DEF ShellInv, ShellTypes
<1> QED  BY <1>1, <1>2 DEF ShellInv, ShellTypes, InStep, FlowsOnce, ProcRecords

LEMMA DeadIsDead == Dead \in ProcRecords /\ Dead.cmds = <<>>
<1>1. <<>> \in Seq(Cmds)
  OBVIOUS
<1> QED  BY <1>1 DEF Dead, ProcRecords

\* A step that takes markers from the queues, or none, and runs nothing.
LEMMA Ebbing ==
    ASSUME ShellInv, UNCHANGED runVars, SameOrNone,
           raw' \in Seq(Items), MarkedOnce(raw'), MarksIn(raw') \subseteq MarksIn(raw),
           wire' \in Seq(Items), MarkedOnce(wire'), MarksIn(wire') \subseteq MarksIn(wire),
           out' \in Seq(Items), hold' \in Items
    PROVE  ShellTypes' /\ InStep'
<1>1. ToRun' \subseteq ToRun /\ \A i, j \in DOMAIN proc'.cmds : proc'.cmds[i] = proc'.cmds[j] => i = j
  <2>1. CASE proc'.cmds = proc.cmds
    BY <2>1 DEF ToRun, ShellInv, InStep, FlowsOnce
  <2>2. CASE proc'.cmds = <<>>
    BY <2>2 DEF ToRun
  <2> QED  BY <2>1, <2>2 DEF SameOrNone
<1>2. FlowsOnce'
  BY <1>1 DEF ShellInv, InStep, FlowsOnce
<1>3. Flowing' \subseteq Flowing
  BY <1>1 DEF Flowing
<1>4. InStep'
  BY <1>2, <1>3 DEF ShellInv, InStep, FlowsLate, WaitIsLast, CodesLagOnlyAfterTimeout, runVars
<1>5. ShellTypes'
  BY DEF ShellInv, ShellTypes, SameOrNone, ProcRecords, runVars
<1> QED  BY <1>4, <1>5

LEMMA Unregistering ==
    ASSUME ShellInv, UnregisterSession
    PROVE  raw' \in Seq(Items) /\ MarkedOnce(raw') /\ MarksIn(raw') \subseteq MarksIn(raw)
<1>1. CASE reg
  <2>1. raw' = ForceEof(raw, RawCap)
    BY <1>1 DEF UnregisterSession
  <2> QED  BY <2>1, Queues, Forcing
<1>2. CASE ~reg
  BY <1>2, Queues DEF UnregisterSession
<1> QED  BY <1>1, <1>2

LEMMA OpeningKeeps ==
    ASSUME ShellInv, HostOpens \/ OpenAnswered \/ OpenTimesOut \/ LoseHost
    PROVE  ShellInv'
<1> USE Queues
<1>1. CASE HostOpens
  <2>1. PICK ok \in BOOLEAN :
           /\ wire' = Append(wire, IF ok THEN Opened ELSE Refused)
           /\ proc' = [proc EXCEPT !.alive = ok, !.asked = FALSE]
    BY <1>1 DEF HostOpens
  <2>2. SameOrNone
    BY <2>1 DEF SameOrNone, ProcRecords
  <2>3. /\ wire' \in Seq(Items) /\ MarkedOnce(wire') /\ MarksIn(wire') \subseteq MarksIn(wire)
    BY <2>1, ItemKinds, Appending
  <2>4. UNCHANGED <<raw, out, hold, runVars, phase, demux, consumer>>
    BY <1>1 DEF HostOpens, demuxVars
  <2>5. ShellTypes' /\ InStep'
    BY <2>2, <2>3, <2>4, Ebbing
  <2> QED  BY <2>4, <2>5 DEF ShellInv, Released, runVars
<1>2. CASE OpenAnswered
  <2>1. /\ UNCHANGED <<proc, out, hold, runVars, consumer>>
        /\ wire # <<>> /\ wire' = Tail(wire)
    BY <1>2 DEF OpenAnswered
  <2>2. wire' \in Seq(Items) /\ MarkedOnce(wire') /\ MarksIn(wire') \subseteq MarksIn(wire)
    BY <2>1, Taking
  <2>3. raw' = raw \/ UnregisterSession
    BY <1>2 DEF OpenAnswered
  <2>4. raw' \in Seq(Items) /\ MarkedOnce(raw') /\ MarksIn(raw') \subseteq MarksIn(raw)
    BY <2>3, Unregistering
  <2>5. ShellTypes' /\ InStep'
    BY <2>1, <2>2, <2>4, Ebbing DEF SameOrNone
  <2>6. Released'
    BY <1>2, <2>1 DEF OpenAnswered, ShellInv, Released, runVars
  <2> QED  BY <2>5, <2>6 DEF ShellInv
<1>3. CASE OpenTimesOut
  <2>1. ShellTypes' /\ InStep'
    BY <1>3, Unregistering, Ebbing DEF OpenTimesOut, SameOrNone
  <2>2. Released'
    BY <1>3 DEF OpenTimesOut, ShellInv, Released, runVars
  <2> QED  BY <2>1, <2>2 DEF ShellInv
<1>4. CASE LoseHost
  <2>1. wire' = <<>> /\ wire' \in Seq(Items)
    BY <1>4 DEF LoseHost
  <2>2. MarkedOnce(wire') /\ MarksIn(wire') \subseteq MarksIn(wire)
    BY <2>1 DEF MarkedOnce, MarksIn
  <2>3. ShellTypes' /\ InStep'
    BY <1>4, <2>1, <2>2, Unregistering, Ebbing DEF LoseHost, SameOrNone
  <2>4. Released'
    BY <1>4 DEF LoseHost, ShellInv, Released, runVars
  <2> QED  BY <2>3, <2>4 DEF ShellInv
<1> QED  BY <1>1, <1>2, <1>3, <1>4

\* Commands in a sequence, written at its end and taken from its head.
LEMMA Writing ==
    ASSUME NEW q \in Seq(Cmds), NEW c \in Cmds
    PROVE  /\ Append(q, c) \in Seq(Cmds)
           /\ {Append(q, c)[i] : i \in DOMAIN Append(q, c)} = {q[i] : i \in DOMAIN q} \cup {c}
           /\ (\A i, j \in DOMAIN q : q[i] = q[j] => i = j) /\ c \notin {q[i] : i \in DOMAIN q} =>
                  \A i, j \in DOMAIN Append(q, c) : Append(q, c)[i] = Append(q, c)[j] => i = j
<1> DEFINE r == Append(q, c)
<1>1. /\ r \in Seq(Cmds) /\ DOMAIN r = 1 .. Len(q) + 1 /\ DOMAIN q = 1 .. Len(q) /\ Len(q) \in Nat
      /\ \A i \in DOMAIN q : i \in DOMAIN r /\ r[i] = q[i]
      /\ Len(q) + 1 \in DOMAIN r /\ r[Len(q) + 1] = c
      /\ \A i \in DOMAIN r : i \in DOMAIN q \/ i = Len(q) + 1
  OBVIOUS
<1> HIDE DEF r
<1> QED  BY <1>1 DEF r

LEMMA Shifting ==
    ASSUME NEW q \in Seq(Cmds), q # <<>>
    PROVE  /\ Tail(q) \in Seq(Cmds) /\ Head(q) \in {q[i] : i \in DOMAIN q} /\ Head(q) \in Cmds
           /\ {Tail(q)[i] : i \in DOMAIN Tail(q)} \subseteq {q[i] : i \in DOMAIN q}
           /\ (\A i, j \in DOMAIN q : q[i] = q[j] => i = j) =>
                  /\ \A i, j \in DOMAIN Tail(q) : Tail(q)[i] = Tail(q)[j] => i = j
                  /\ Head(q) \notin {Tail(q)[i] : i \in DOMAIN Tail(q)}
<1> DEFINE r == Tail(q)
<1>1. /\ r \in Seq(Cmds) /\ Head(q) \in Cmds /\ Len(q) \in Nat \ {0}
      /\ DOMAIN q = 1 .. Len(q) /\ DOMAIN r = 1 .. Len(q) - 1
      /\ Head(q) = q[1] /\ 1 \in DOMAIN q
      /\ \A i \in DOMAIN r : i + 1 \in DOMAIN q /\ r[i] = q[i + 1] /\ i + 1 # 1 /\ i \in Nat
  OBVIOUS
<1> HIDE DEF r
<1>2. {r[i] : i \in DOMAIN r} \subseteq {q[i] : i \in DOMAIN q}
  BY <1>1
<1>3. ASSUME \A i, j \in DOMAIN q : q[i] = q[j] => i = j
      PROVE  /\ \A i, j \in DOMAIN r : r[i] = r[j] => i = j
             /\ Head(q) \notin {r[i] : i \in DOMAIN r}
  <2>1. ASSUME NEW i \in DOMAIN r, NEW j \in DOMAIN r, r[i] = r[j] PROVE i = j
    <3>1. i + 1 = j + 1 /\ i \in Nat /\ j \in Nat
      BY <1>1, <1>3, <2>1
    <3> QED  BY <3>1
  <2>2. Head(q) \notin {r[i] : i \in DOMAIN r}
    BY <1>1, <1>3
  <2> QED  BY <2>1, <2>2
<1> QED  BY <1>1, <1>2, <1>3 DEF r

LEMMA RunKeeps ==
    ASSUME ShellInv, Run
    PROVE  ShellInv'
<1> USE Queues
<1>1. /\ phase = "open" /\ waits = 0 /\ sent < MaxCmds /\ sent' = sent + 1 /\ waits' = sent + 1
      /\ pending' = sent + 1
      /\ UNCHANGED <<phase, wire, raw, out, demux, hold, got, late, consumer>>
  BY DEF Run, demuxVars
<1>2. /\ sent \in Codes /\ sent + 1 \in Cmds /\ MaxCmds \in Nat /\ sent \in Nat
  BY <1>1, ShellBounds DEF ShellInv, ShellTypes, Codes, Cmds
<1>3. Flowing \subseteq 1 .. sent /\ sent + 1 \notin 1 .. sent /\ 1 .. sent \subseteq 1 .. sent + 1
  BY <1>2 DEF ShellInv, InStep, FlowsLate
<1>4. /\ proc' \in ProcRecords
      /\ ToRun' = ToRun \/ ToRun' = ToRun \cup {sent + 1}
      /\ \A i, j \in DOMAIN proc'.cmds : proc'.cmds[i] = proc'.cmds[j] => i = j
  <2>1. \A i, j \in DOMAIN proc.cmds : proc.cmds[i] = proc.cmds[j] => i = j
    BY DEF ShellInv, InStep, FlowsOnce
  <2>2. CASE linked /\ proc.alive
    <3>1. proc' = [proc EXCEPT !.cmds = Append(@, sent + 1)]
      BY <1>1, <2>2 DEF Run
    <3>2. proc'.cmds = Append(proc.cmds, sent + 1) /\ proc' \in ProcRecords
      BY <1>2, <3>1, Writing DEF ProcRecords
    <3>3. sent + 1 \notin {proc.cmds[i] : i \in DOMAIN proc.cmds}
      BY <1>3 DEF Flowing, ToRun
    <3>4. /\ {proc'.cmds[i] : i \in DOMAIN proc'.cmds}
                 = {proc.cmds[i] : i \in DOMAIN proc.cmds} \cup {sent + 1}
          /\ \A i, j \in DOMAIN proc'.cmds : proc'.cmds[i] = proc'.cmds[j] => i = j
      <4>1. /\ {Append(proc.cmds, sent + 1)[i] : i \in DOMAIN Append(proc.cmds, sent + 1)}
                   = {proc.cmds[i] : i \in DOMAIN proc.cmds} \cup {sent + 1}
            /\ \A i, j \in DOMAIN Append(proc.cmds, sent + 1) :
                   Append(proc.cmds, sent + 1)[i] = Append(proc.cmds, sent + 1)[j] => i = j
        BY <1>2, <2>1, <3>3, Writing
      <4> QED  BY <3>2, <4>1
    <3> QED  BY <3>2, <3>4 DEF ToRun
  <2>3. CASE ~(linked /\ proc.alive)
    BY <2>1, <2>3 DEF Run, ToRun
  <2> QED  BY <2>2, <2>3
<1>5. ShellTypes'
  BY <1>1, <1>2, <1>4 DEF ShellInv, ShellTypes, ProcRecords, Codes, Cmds
<1>6. FlowsOnce'
  BY <1>1, <1>3, <1>4 DEF ShellInv, InStep, FlowsOnce, Flowing
<1>7. Flowing' \subseteq Flowing \cup {sent + 1}
  BY <1>1, <1>4 DEF Flowing
<1>8. FlowsLate'
  <2>1. Flowing' \subseteq 1 .. sent + 1
    BY <1>2, <1>3, <1>7
  <2>2. \A c \in Flowing : c # 0
    BY <1>2, <1>3
  <2>3. \A c \in Flowing : \E t \in late : t <= c
    BY <1>1, <2>2 DEF ShellInv, InStep, FlowsLate
  <2> QED  BY <1>1, <1>7, <2>1, <2>3 DEF FlowsLate
<1>9. WaitIsLast' /\ CodesLagOnlyAfterTimeout' /\ Released'
  BY <1>1 DEF ShellInv, InStep, WaitIsLast, CodesLagOnlyAfterTimeout, Released, HoldsEof
<1> QED  BY <1>5, <1>6, <1>8, <1>9 DEF ShellInv, InStep

LEMMA TimeoutKeeps ==
    ASSUME ShellInv, RunTimesOut
    PROVE  ShellInv'
<1>1. /\ waits # 0 /\ waits' = 0 /\ late' = late \cup {waits} /\ pending' \in {0, pending}
      /\ UNCHANGED <<phase, proc, wire, raw, out, demux, hold, sent, got, consumer>>
  BY DEF RunTimesOut, demuxVars
<1>2. waits \in Cmds /\ MaxCmds \in Nat
  BY <1>1, ShellBounds DEF ShellInv, ShellTypes, Codes, Cmds
<1>3. ShellTypes'
  BY <1>1, <1>2 DEF ShellInv, ShellTypes, Codes
<1>4. Flowing' = Flowing /\ FlowsOnce'
  BY <1>1 DEF Flowing, ToRun, ShellInv, InStep, FlowsOnce
<1>5. FlowsLate'
  BY <1>1, <1>2, <1>4 DEF FlowsLate, ShellInv, InStep, Cmds
<1>6. WaitIsLast' /\ CodesLagOnlyAfterTimeout' /\ Released'
  BY <1>1 DEF ShellInv, InStep, WaitIsLast, CodesLagOnlyAfterTimeout, Released, HoldsEof
<1> QED  BY <1>3, <1>4, <1>5, <1>6 DEF ShellInv, InStep

LEMMA PrintingKeeps ==
    ASSUME ShellInv, EmitChunk \/ ShellExits
    PROVE  ShellInv'
<1> USE Queues
<1>1. UNCHANGED <<raw, out, hold, runVars, phase, demux, consumer>>
  BY DEF EmitChunk, ShellExits, demuxVars
<1>2. PICK x \in {Out, Eof, Exit} : wire' = Append(wire, x)
  BY DEF EmitChunk, ShellExits
<1>3. /\ wire' \in Seq(Items) /\ MarkedOnce(wire') /\ MarksIn(wire') \subseteq MarksIn(wire)
  BY <1>2, ItemKinds, Appending
<1>4. SameOrNone
  <2>1. CASE EmitChunk
    <3>1. proc' = [proc EXCEPT !.printed = proc.printed + 1]
      BY <2>1 DEF EmitChunk
    <3>2. proc.printed + 1 \in Nat
      BY DEF ProcRecords
    <3>3. proc' \in ProcRecords /\ proc'.cmds = proc.cmds
      BY <3>1, <3>2 DEF ProcRecords
    <3> QED  BY <3>3 DEF SameOrNone
  <2>2. CASE ShellExits
    BY <2>2, DeadIsDead DEF ShellExits, SameOrNone
  <2> QED  BY <2>1, <2>2
<1>5. ShellTypes' /\ InStep'
  BY <1>1, <1>3, <1>4, Ebbing
<1> QED  BY <1>1, <1>5 DEF ShellInv, Released, runVars

LEMMA CompleteKeeps ==
    ASSUME ShellInv, Complete
    PROVE  ShellInv'
<1> USE Queues
<1>1. UNCHANGED <<raw, out, hold, waits, pending, sent, late, got, phase, demux, consumer>>
      /\ proc.cmds # <<>>
      /\ (wire' = Append(wire, Out) \/ wire' = Append(wire, Mark(Head(proc.cmds))))
      /\ proc' = [proc EXCEPT !.cmds = Tail(@), !.printed = 0]
  BY DEF Complete, demuxVars, runVars
<1>2. PICK c \in Cmds : c = Head(proc.cmds)
  BY <1>1, Shifting
<1>3. /\ c \in ToRun /\ ToRun' \subseteq ToRun /\ c \notin ToRun'
      /\ proc' \in ProcRecords
      /\ \A i, j \in DOMAIN proc'.cmds : proc'.cmds[i] = proc'.cmds[j] => i = j
  <2>1. proc'.cmds = Tail(proc.cmds) /\ proc' \in ProcRecords
    BY <1>1, Shifting DEF ProcRecords
  <2>2. \A i, j \in DOMAIN proc.cmds : proc.cmds[i] = proc.cmds[j] => i = j
    BY DEF ShellInv, InStep, FlowsOnce
  <2>3. /\ Head(proc.cmds) \in {proc.cmds[i] : i \in DOMAIN proc.cmds}
        /\ {Tail(proc.cmds)[i] : i \in DOMAIN Tail(proc.cmds)} \subseteq
               {proc.cmds[i] : i \in DOMAIN proc.cmds}
        /\ \A i, j \in DOMAIN Tail(proc.cmds) : Tail(proc.cmds)[i] = Tail(proc.cmds)[j] => i = j
        /\ Head(proc.cmds) \notin {Tail(proc.cmds)[i] : i \in DOMAIN Tail(proc.cmds)}
    BY <1>1, <2>2, Shifting
  <2> QED  BY <1>2, <2>1, <2>3 DEF ToRun
<1>4. /\ wire' \in Seq(Items) /\ MarkedOnce(wire') /\ MarksIn(wire') \subseteq MarksIn(wire) \cup {c}
  <2>1. c \notin MarksIn(wire)
    BY <1>3 DEF ShellInv, InStep, FlowsOnce
  <2>2. Mark(c) \in Items /\ Mark(c).k = "mark" /\ Mark(c).c = c
    BY ItemKinds
  <2>3. PICK x \in Items : wire' = Append(wire, x) /\ (x.k = "mark" => x.c = c)
    BY <1>1, <1>2, <2>2, ItemKinds
  <2>4. MarkedOnce(wire) /\ wire \in Seq(Items) /\ (x.k = "mark" => x.c \notin MarksIn(wire))
    BY <2>1, <2>3 DEF ShellInv, InStep, FlowsOnce
  <2>5. /\ Append(wire, x) \in Seq(Items) /\ MarkedOnce(Append(wire, x))
        /\ MarksIn(Append(wire, x)) \subseteq MarksIn(wire) \cup {c}
    BY <2>3, <2>4, Appending
  <2> QED  BY <2>3, <2>5
<1>5. ShellTypes'
  BY <1>1, <1>3, <1>4 DEF ShellInv, ShellTypes, ProcRecords
<1>6. FlowsOnce'
  BY <1>1, <1>3, <1>4 DEF ShellInv, InStep, FlowsOnce
<1>7. Flowing' \subseteq Flowing
  BY <1>1, <1>3, <1>4 DEF Flowing
<1>8. InStep'
  BY <1>1, <1>6, <1>7 DEF ShellInv, InStep, FlowsLate, WaitIsLast, CodesLagOnlyAfterTimeout
<1> QED  BY <1>1, <1>5, <1>8 DEF ShellInv, Released

\* A chunk goes from the wire into the queue.
LEMMA PassingKeeps ==
    ASSUME ShellInv, wire # <<>>, wire' = Tail(wire), raw' = Append(raw, Head(wire)),
           UNCHANGED <<runVars, proc, out, hold, phase, demux, consumer>>
    PROVE  ShellInv'
<1> USE Queues
<1>0. UNCHANGED <<waits, pending, sent, late, got>>
  BY DEF runVars
<1>1. PICK x \in Items : x = Head(wire)
  BY Taking
<1> DEFINE new == IF x.k = "mark" THEN {x.c} ELSE {}
<1>2. /\ wire' \in Seq(Items) /\ MarkedOnce(wire') /\ MarksIn(wire') \subseteq MarksIn(wire)
      /\ new \subseteq MarksIn(wire) /\ new \cap MarksIn(wire') = {}
  BY <1>1, Taking
<1>3. x.k = "mark" => x.c \notin MarksIn(raw)
  BY <1>2 DEF ShellInv, InStep, FlowsOnce
<1>4. /\ raw' \in Seq(Items) /\ MarkedOnce(raw') /\ MarksIn(raw') = MarksIn(raw) \cup new
  BY <1>1, <1>3, Appending
<1> HIDE DEF new
<1>5. ShellTypes'
  BY <1>0, <1>2, <1>4 DEF ShellInv, ShellTypes
<1>6. FlowsOnce'
  BY <1>2, <1>4 DEF ShellInv, InStep, FlowsOnce, ToRun
<1>7. Flowing' \subseteq Flowing
  BY <1>2, <1>4 DEF Flowing, ToRun
<1>8. InStep'
  BY <1>0, <1>6, <1>7 DEF ShellInv, InStep, FlowsLate, WaitIsLast, CodesLagOnlyAfterTimeout
<1> QED  BY <1>0, <1>5, <1>8 DEF ShellInv, Released

LEMMA ReadingKeeps ==
    ASSUME ShellInv, ReaderOffers \/ PushChunk \/ ExitFrame \/ HostFlow
    PROVE  ShellInv'
<1> USE Queues
<1>1. CASE ReaderOffers
  BY <1>1, PassingKeeps DEF ReaderOffers
<1>2. CASE PushChunk /\ reg /\ Len(raw) < RawCap
  BY <1>2, PassingKeeps DEF PushChunk
<1>3. CASE ExitFrame \/ HostFlow \/ (PushChunk /\ ~(reg /\ Len(raw) < RawCap))
  <2>1. /\ UNCHANGED <<proc, out, hold, runVars, phase, demux, consumer>>
        /\ wire' = wire \/ (wire # <<>> /\ wire' = Tail(wire))
        /\ raw' = raw \/ raw' = ForceEof(raw, RawCap)
    BY <1>3 DEF ExitFrame, HostFlow, PushChunk, demuxVars
  <2>2. wire' \in Seq(Items) /\ MarkedOnce(wire') /\ MarksIn(wire') \subseteq MarksIn(wire)
    BY <2>1, Taking
  <2>3. raw' \in Seq(Items) /\ MarkedOnce(raw') /\ MarksIn(raw') \subseteq MarksIn(raw)
    BY <2>1, Forcing
  <2>4. ShellTypes' /\ InStep'
    BY <2>1, <2>2, <2>3, Ebbing DEF SameOrNone
  <2> QED  BY <2>1, <2>4 DEF ShellInv, Released, runVars
<1> QED  BY <1>1, <1>2, <1>3

\* The demux takes an item: a marker ends the run that waits, if one does.
LEMMA DemuxKeeps ==
    ASSUME ShellInv, DemuxGets
    PROVE  ShellInv'
<1> USE Queues
<1>1. /\ raw # <<>> /\ raw' = Tail(raw) /\ hold' = Head(raw) /\ Head(raw) # Eof
      /\ demux' \in {"get", "put"}
      /\ UNCHANGED <<phase, proc, wire, out, consumer>>
  BY DEF DemuxGets
<1>2. PICK x \in Items : x = Head(raw)
  BY <1>1, Taking
<1>3. raw' \in Seq(Items) /\ MarkedOnce(raw') /\ MarksIn(raw') \subseteq MarksIn(raw)
  BY <1>1, Taking
<1>4. CASE x.k # "mark"
  <2>1. UNCHANGED runVars
    BY <1>2, <1>4 DEF DemuxGets
  <2>2. ShellTypes' /\ InStep'
    BY <1>1, <1>2, <1>3, <2>1, Ebbing DEF SameOrNone
  <2> QED  BY <1>1, <2>1, <2>2 DEF ShellInv, Released, runVars
<1>5. CASE x.k = "mark"
  <2>1. /\ x.c \in MarksIn(raw) /\ x.c \notin MarksIn(raw') /\ x.c \in Cmds
    BY <1>1, <1>2, <1>5, Taking, ItemKinds
  <2>2. Resolve(x.c)
    BY <1>2, <1>5 DEF DemuxGets
  <2>3. FlowsOnce' /\ ToRun' = ToRun /\ MarksIn(wire') = MarksIn(wire)
    BY <1>1, <1>3 DEF ShellInv, InStep, FlowsOnce, ToRun
  <2>4. /\ Flowing' \subseteq Flowing /\ x.c \in Flowing /\ x.c \notin Flowing'
    BY <1>3, <2>1, <2>3 DEF Flowing, ShellInv, InStep, FlowsOnce
  <2>5. /\ x.c \in 1 .. sent /\ Flowing \subseteq 1 .. sent
        /\ x.c # waits => \E t \in late : t <= x.c
        /\ sent \in Nat /\ sent' = sent /\ late' = late /\ pending' = 0
        /\ late \subseteq Nat
    <3>1. sent \in Nat /\ late \subseteq Nat
      BY ShellBounds DEF ShellInv, ShellTypes, Codes, Cmds
    <3>2. sent' = sent /\ late' = late /\ pending' = 0
      BY <2>2 DEF Resolve
    <3> QED  BY <2>4, <3>1, <3>2 DEF ShellInv, InStep, FlowsLate
  <2>6. CASE pending # 0 /\ pending = waits
    <3>1. waits' = 0 /\ got' = [got EXCEPT ![waits] = x.c] /\ waits = sent
      BY <2>2, <2>6 DEF Resolve, ShellInv, InStep, WaitIsLast
    <3>2. waits \in Cmds /\ x.c \in Codes /\ 0 \in Codes
      BY <2>1, <2>6, ShellBounds DEF ShellInv, ShellTypes, Codes, Cmds
    <3>3. ShellTypes'
      BY <1>1, <1>2, <1>3, <2>5, <3>1, <3>2 DEF ShellInv, ShellTypes
    <3>4. FlowsLate'
      <4>1. \A c \in Flowing' : \E t \in late : t <= c
        <5> SUFFICES ASSUME NEW c \in Flowing' PROVE \E t \in late : t <= c
          OBVIOUS
        <5>1. CASE c # waits
          BY <2>4, <5>1 DEF ShellInv, InStep, FlowsLate
        <5>2. CASE c = waits
          <6>1. x.c # waits /\ x.c <= waits
            BY <2>4, <2>5, <3>1, <5>2
          <6>2. PICK t \in late : t <= x.c
            BY <2>5, <6>1
          <6>3. t \in Nat /\ x.c \in Nat /\ waits \in Nat
            BY <2>5, <3>1
          <6> QED  BY <5>2, <6>1, <6>2, <6>3
        <5> QED  BY <5>1, <5>2
      <4> QED  BY <2>4, <2>5, <4>1 DEF FlowsLate
    <3>5. CodesLagOnlyAfterTimeout'
      <4>1. x.c = waits \/ (x.c < waits /\ \E t \in late : t < waits)
        <5>1. x.c <= waits /\ x.c \in Nat /\ waits \in Nat
          BY <2>5, <3>1
        <5>2. ASSUME x.c # waits PROVE \E t \in late : t < waits
          <6>1. PICK t \in late : t <= x.c
            BY <2>5, <5>2
          <6> QED  BY <2>5, <5>1, <5>2, <6>1
        <5> QED  BY <5>1, <5>2
      <4>2. got'[waits] = x.c /\ \A c \in Cmds \ {waits} : got'[c] = got[c]
        BY <3>1, <3>2 DEF ShellInv, ShellTypes
      <4> QED  BY <2>5, <4>1, <4>2 DEF ShellInv, InStep, CodesLagOnlyAfterTimeout
    <3>6. WaitIsLast'
      BY <3>1 DEF WaitIsLast
    <3> QED  BY <1>1, <2>3, <2>5, <3>3, <3>4, <3>5, <3>6 DEF ShellInv, InStep, Released
  <2>7. CASE ~(pending # 0 /\ pending = waits)
    <3>1. waits' = waits /\ got' = got /\ waits = 0
      BY <2>2, <2>7 DEF Resolve, ShellInv, InStep, WaitIsLast
    <3>2. ShellTypes'
      BY <1>1, <1>2, <1>3, <2>5, <3>1, ShellBounds DEF ShellInv, ShellTypes, Codes
    <3>3. FlowsLate' /\ WaitIsLast' /\ CodesLagOnlyAfterTimeout'
      BY <2>4, <2>5, <3>1 DEF ShellInv, InStep, FlowsLate, WaitIsLast, CodesLagOnlyAfterTimeout
    <3> QED  BY <1>1, <2>3, <2>5, <3>2, <3>3 DEF ShellInv, InStep, Released
  <2> QED  BY <2>6, <2>7
<1> QED  BY <1>4, <1>5

\* What goes to the stream, and who reads it.
LEMMA StreamKeeps ==
    ASSUME ShellInv, DemuxPuts \/ DemuxSeesEof \/ ConsumerReads
    PROVE  ShellInv'
<1> USE Queues
<1>0. /\ UNCHANGED <<runVars, proc, wire, hold>> /\ phase' = phase /\ sent' = sent
      /\ raw' = raw \/ (raw # <<>> /\ raw' = Tail(raw))
  BY DEF DemuxPuts, DemuxSeesEof, ConsumerReads, runVars
<1>r. raw' \in Seq(Items) /\ MarkedOnce(raw') /\ MarksIn(raw') \subseteq MarksIn(raw)
  BY <1>0, Taking
<1>s. ASSUME out' \in Seq(Items) PROVE ShellTypes' /\ InStep'
  <2>1. SameOrNone
    BY <1>0 DEF SameOrNone
  <2>2. UNCHANGED runVars /\ wire' = wire /\ hold' = hold
    BY <1>0
  <2> QED  BY <1>r, <1>s, <2>1, <2>2, Ebbing
<1>1. CASE DemuxPuts
  <2>1. out' = Append(out, hold) /\ demux' = "get"
    BY <1>1 DEF DemuxPuts
  <2>2. out' \in Seq(Items)
    BY <2>1, Appending
  <2>3. Released'
    BY <1>0, <2>1 DEF ShellInv, Released
  <2> QED  BY <1>s, <2>2, <2>3 DEF ShellInv
<1>2. CASE DemuxSeesEof
  <2>1. ASSUME out' = Append(out, Eof) PROVE out' \in Seq(Items) /\ HoldsEof(out')
    BY <2>1, EofComes
  <2>2. ASSUME out' = ForceEof(out, OutCap) PROVE out' \in Seq(Items) /\ HoldsEof(out')
    BY <2>2, Forcing
  <2>3. out' \in Seq(Items) /\ HoldsEof(out')
    BY <1>2, <2>1, <2>2 DEF DemuxSeesEof
  <2>4. Released'
    BY <1>0, <2>3 DEF ShellInv, Released
  <2> QED  BY <1>s, <2>3, <2>4 DEF ShellInv
<1>3. CASE ConsumerReads
  <2>1. /\ out # <<>> /\ out' = Tail(out) /\ consumer = "reading"
        /\ consumer' = (IF Head(out) = Eof THEN "ended" ELSE "reading") /\ demux' = demux
    BY <1>3 DEF ConsumerReads, demuxVars
  <2>2. out' \in Seq(Items) /\ (HoldsEof(out) => consumer' = "ended" \/ HoldsEof(out'))
    BY <2>1, Taking
  <2>3. Released'
    BY <1>0, <2>1, <2>2 DEF ShellInv, Released
  <2> QED  BY <1>s, <2>2, <2>3 DEF ShellInv
<1> QED  BY <1>1, <1>2, <1>3

LEMMA ClosingKeeps ==
    ASSUME ShellInv, SessionTeardown \/ DemuxJoined \/ DemuxCancelled
    PROVE  ShellInv'
<1> USE Queues
<1>0. <<>> \in Seq(Items) /\ MarksIn(<<>>) = {} /\ MarkedOnce(<<>>)
  BY DEF MarksIn, MarkedOnce
<1>1. CASE SessionTeardown
  <2>1. /\ UNCHANGED <<runVars, out, hold, demux, consumer>> /\ phase = "open" /\ phase' = "closing"
        /\ proc' \in {proc, Dead} /\ wire' \in {wire, <<>>, Append(wire, Exit)}
        /\ raw' \in {raw, Append(raw, Eof)}
    BY <1>1 DEF SessionTeardown
  <2>2. SameOrNone
    BY <2>1, DeadIsDead DEF SameOrNone
  <2>3. wire' \in Seq(Items) /\ MarkedOnce(wire') /\ MarksIn(wire') \subseteq MarksIn(wire)
    <3>1. Exit \in Items /\ Exit.k # "mark"
      BY ItemKinds
    <3>2. CASE wire' = Append(wire, Exit)
      BY <3>1, <3>2, Appending
    <3> QED  BY <1>0, <2>1, <3>2
  <2>4. raw' \in Seq(Items) /\ MarkedOnce(raw') /\ MarksIn(raw') \subseteq MarksIn(raw)
    BY <2>1, EofComes
  <2>5. ShellTypes' /\ InStep'
    BY <2>1, <2>2, <2>3, <2>4, Ebbing
  <2> QED  BY <2>1, <2>5 DEF ShellInv, Released, runVars
<1>2. CASE DemuxJoined
  <2>1. /\ UNCHANGED <<runVars, out, hold, demux, consumer, proc, wire, raw>>
        /\ phase = "closing" /\ phase' = "gone" /\ demux = "ended"
    BY <1>2 DEF DemuxJoined, demuxVars
  <2>2. ShellTypes' /\ InStep'
    BY <2>1, Ebbing DEF SameOrNone
  <2> QED  BY <2>1, <2>2 DEF ShellInv, Released, runVars
<1>3. CASE DemuxCancelled
  <2>1. /\ UNCHANGED <<runVars, hold, consumer, proc, wire>> /\ out' = ForceEof(out, OutCap)
        /\ phase = "closing" /\ phase' = "gone" /\ (raw' = raw \/ UnregisterSession)
    BY <1>3 DEF DemuxCancelled
  <2>2. raw' \in Seq(Items) /\ MarkedOnce(raw') /\ MarksIn(raw') \subseteq MarksIn(raw)
    BY <2>1, Unregistering
  <2>3. out' \in Seq(Items) /\ HoldsEof(out')
    BY <2>1, Forcing
  <2>4. ShellTypes' /\ InStep'
    BY <2>1, <2>2, <2>3, Ebbing DEF SameOrNone
  <2> QED  BY <2>1, <2>3, <2>4 DEF ShellInv, Released, runVars
<1> QED  BY <1>1, <1>2, <1>3

LEMMA ShellInitially == ShellInit => ShellInv
<1> SUFFICES ASSUME ShellInit PROVE ShellInv
  OBVIOUS
<1>0. <<>> \in Seq(Items) /\ MarksIn(<<>>) = {} /\ MarkedOnce(<<>>) /\ <<>> \in Seq(Cmds) /\ Eof \in Items
  BY ItemKinds DEF MarksIn, MarkedOnce
<1>1. /\ wire = <<>> /\ raw = <<>> /\ out = <<>> /\ hold = Eof /\ proc.cmds = <<>>
      /\ sent = 0 /\ waits = 0 /\ pending = 0 /\ late = {} /\ got = [c \in Cmds |-> 0]
      /\ proc = [asked |-> kind = "bridge", alive |-> kind = "pty", cmds |-> <<>>, printed |-> 0]
      /\ (demux = "ended" => phase \notin {"open", "closing"})
  BY DEF ShellInit
<1>2. ShellTypes
  BY <1>0, <1>1, ShellBounds DEF ShellTypes, Codes
<1>3. ToRun = {}
  BY <1>1 DEF ToRun
<1>4. InStep
  BY <1>0, <1>1, <1>3 DEF InStep, FlowsOnce, FlowsLate, Flowing, WaitIsLast, CodesLagOnlyAfterTimeout
<1>5. Released
  BY <1>1 DEF Released
<1> QED  BY <1>2, <1>4, <1>5 DEF ShellInv

LEMMA ShellStep == ASSUME ShellInv, [ShellNext]_shellVars PROVE ShellInv'
<1>1. CASE UNCHANGED shellVars
  BY <1>1 DEF shellVars, ShellInv, ShellTypes, InStep, FlowsOnce, FlowsLate, Flowing, ToRun,
     WaitIsLast, CodesLagOnlyAfterTimeout, Released
<1> QED  BY <1>1, OpeningKeeps, RunKeeps, TimeoutKeeps, PrintingKeeps, CompleteKeeps, ReadingKeeps,
         DemuxKeeps, StreamKeeps, ClosingKeeps DEF ShellNext

\* Nothing ties an end marker to the run that waits for it: the marker resolves
\* whatever future is pending.  For every bound on the queues and either
\* transport, run() still never returns the code of a later command, and that of
\* an earlier one only if a run before it gave up; and a reader of the stream
\* finds its end however the session went (pty_session.py,
\* devcontainer_bridge.py).
THEOREM ShellAnswersInStep == ShellSpec => []ShellStaysInStep
<1>1. ShellInv => ShellStaysInStep
  BY DEF ShellInv, InStep, Released, ShellStaysInStep, ReaderIsReleased, HoldsEof
<1> QED  BY ShellInitially, ShellStep, <1>1, PTL DEF ShellSpec

(****************************************************************************)
(* Background tasks (Background)                                           *)
(*                                                                         *)
(* For every number of tasks and stops: what was cancelled stays           *)
(* cancelled.                                                              *)
(****************************************************************************)
EntryStates == {"none", "running", "cancelled", "completed", "failed"}
ShellStates == {"none", "runs", "traps", "gone"}
EntryRecords == [status : EntryStates, owner : Roles \cup {"none"}, out : BOOLEAN]

BgTypes ==
    /\ entry \in [BgTasks -> EntryRecords]
    /\ shell \in [BgTasks -> ShellStates]
    /\ stop \in [BgTasks -> {"none", "grace"}]
    /\ answer \in [BgTasks -> {"none", "not_found_or_completed", "cancelled"}]

\* A task that was stopped, or is being stopped, has been created: the shell that
\* a stop has seen gone is never started again.
StoppedWereCreated ==
    \A t \in BgTasks : answer[t] = "cancelled" \/ stop[t] = "grace" => entry[t] # NoEntry

BgInv == BgTypes /\ StoppedWereCreated /\ StoppedShellIsGone

LEMMA BgInitially == BgInit => BgInv
BY DEF BgInit, BgInv, BgTypes, StoppedWereCreated, StoppedShellIsGone, NoEntry, EntryRecords,
   EntryStates, ShellStates

\* A created entry that takes a new status stays a created entry.
LEMMA EntryTurns ==
    ASSUME BgInv, NEW t \in BgTasks, NEW s \in {"cancelled", "completed", "failed"}, NEW o \in BOOLEAN
    PROVE  /\ [entry[t] EXCEPT !.status = s] \in EntryRecords
           /\ [entry[t] EXCEPT !.status = s] # NoEntry
           /\ [entry[t] EXCEPT !.status = s, !.out = o] \in EntryRecords
           /\ [entry[t] EXCEPT !.status = s, !.out = o] # NoEntry
           /\ entry[t].status = s => [entry[t] EXCEPT !.status = s] = entry[t]
<1> entry[t] \in EntryRecords
  BY DEF BgInv, BgTypes
<1> QED  BY DEF EntryRecords, EntryStates, NoEntry

LEMMA CreateKeeps ==
    ASSUME BgInv, NEW m \in Managers, NEW t \in BgTasks, NEW role \in Roles,
           NEW traps \in BOOLEAN, NEW front \in BOOLEAN, CreateTask(m, t, role, traps, front)
    PROVE  BgInv' /\ CancellationStands
<1> DEFINE new == [status |-> "running", owner |-> role, out |-> FALSE]
<1>1. new \in EntryRecords /\ new # NoEntry /\ entry[t].status # "cancelled"
      /\ answer[t] # "cancelled"
  BY DEF EntryRecords, EntryStates, NoEntry, CreateTask, BgInv, StoppedWereCreated
<1>2. entry' = [entry EXCEPT ![t] = new] /\ UNCHANGED <<stop, answer>>
      /\ shell' = [shell EXCEPT ![t] = IF traps THEN "traps" ELSE "runs"]
  BY DEF CreateTask
<1>3. BgTypes'
  BY <1>1, <1>2 DEF BgInv, BgTypes, ShellStates
<1>4. /\ entry'[t] = new /\ \A u \in BgTasks \ {t} : entry'[u] = entry[u] /\ shell'[u] = shell[u]
  BY <1>2 DEF BgInv, BgTypes
<1>5. StoppedWereCreated' /\ StoppedShellIsGone' /\ CancellationStands
  BY <1>1, <1>2, <1>4 DEF BgInv, StoppedWereCreated, StoppedShellIsGone, CancellationStands, GetTask
<1> QED  BY <1>3, <1>5 DEF BgInv

LEMMA StopKeeps ==
    ASSUME BgInv, NEW m \in Managers, NEW t \in BgTasks, NEW role \in Roles, StopTask(m, t, role)
    PROVE  BgInv' /\ CancellationStands
<1> DEFINE new == [entry[t] EXCEPT !.status = "cancelled"]
<1>1. /\ new \in EntryRecords /\ new # NoEntry
      /\ entry[t].status = "cancelled" => new = entry[t]
  BY EntryTurns
<1>2. entry' = [entry EXCEPT ![t] = new]
  BY DEF StopTask
<1>3. /\ entry' \in [BgTasks -> EntryRecords] /\ entry'[t] = new
      /\ \A u \in BgTasks \ {t} : entry'[u] = entry[u]
  BY <1>1, <1>2 DEF BgInv, BgTypes
<1>4. CancellationStands
  BY <1>1, <1>3 DEF CancellationStands, GetTask
<1>5. CASE Exited(t)
  <2>1. answer' = [answer EXCEPT ![t] = "cancelled"] /\ UNCHANGED <<shell, stop>>
    BY <1>5 DEF StopTask
  <2> QED  BY <1>1, <1>3, <1>4, <1>5, <2>1
           DEF BgInv, BgTypes, StoppedWereCreated, StoppedShellIsGone, Exited
<1>6. CASE ~Exited(t)
  <2>1. /\ Terminate(t) /\ stop' = [stop EXCEPT ![t] = "grace"] /\ UNCHANGED answer
    BY <1>6 DEF StopTask
  <2> QED  BY <1>1, <1>3, <1>4, <2>1
           DEF BgInv, BgTypes, StoppedWereCreated, StoppedShellIsGone, Terminate, ShellStates
<1> QED  BY <1>5, <1>6

LEMMA WatchKeeps ==
    ASSUME BgInv, NEW t \in BgTasks, NEW s \in {"completed", "failed"}, WatchReturns(t, s)
    PROVE  BgInv' /\ CancellationStands
<1> DEFINE new == [entry[t] EXCEPT !.status = s, !.out = TRUE]
<1>1. UNCHANGED <<shell, stop, answer>> /\ CommitExit(t, s)
  BY DEF WatchReturns
<1>2. CASE entry[t].status = "cancelled"
  <2>1. entry' = entry
    BY <1>1, <1>2 DEF CommitExit
  <2> QED  BY <1>1, <2>1 DEF BgInv, BgTypes, StoppedWereCreated, StoppedShellIsGone,
              CancellationStands, GetTask
<1>3. CASE entry[t].status # "cancelled"
  <2>1. new \in EntryRecords /\ new # NoEntry
    BY EntryTurns
  <2>2. entry' = [entry EXCEPT ![t] = new]
    BY <1>1, <1>3 DEF CommitExit
  <2>3. /\ entry' \in [BgTasks -> EntryRecords] /\ entry'[t] = new
        /\ \A u \in BgTasks \ {t} : entry'[u] = entry[u]
    BY <2>1, <2>2 DEF BgInv, BgTypes
  <2> QED  BY <1>1, <1>3, <2>1, <2>3 DEF BgInv, BgTypes, StoppedWereCreated, StoppedShellIsGone,
              CancellationStands, GetTask
<1> QED  BY <1>2, <1>3

LEMMA BgStep ==
    ASSUME BgInv, [BgNext]_bgVars
    PROVE  BgInv' /\ CancellationStands
<1> USE DEF BgInv, BgTypes, StoppedWereCreated, StoppedShellIsGone, CancellationStands, GetTask
<1>1. CASE UNCHANGED bgVars
  BY <1>1 DEF bgVars
<1>2. ASSUME NEW m \in Managers, NEW t \in BgTasks, NEW role \in Roles, StopUnknown(m, t, role)
      PROVE  BgInv' /\ CancellationStands
  BY <1>2 DEF StopUnknown
<1>3. ASSUME NEW t \in BgTasks, CommandEnds(t)
      PROVE  BgInv' /\ CancellationStands
  BY <1>3 DEF CommandEnds, ShellStates
<1>4. ASSUME NEW t \in BgTasks, OrphanEnds(t) \/ WatchEmits(t)
      PROVE  BgInv' /\ CancellationStands
  BY <1>4 DEF OrphanEnds, WatchEmits
<1>5. ASSUME NEW t \in BgTasks, GracePasses(t)
      PROVE  BgInv' /\ CancellationStands
  BY <1>5 DEF GracePasses, ForceKill, ShellStates
<1> QED  BY <1>1, <1>2, <1>3, <1>4, <1>5, CreateKeeps, StopKeeps, WatchKeeps DEF BgNext

\* A background command that was stopped stays cancelled: the exit its watcher
\* sees later is not committed over the stop, a second stop changes nothing, and
\* an id is never created twice; and once a stop has answered, its shell is gone
\* (BackgroundTaskManager, execution_tools.py).
THEOREM StopsAreFinal == BgSpec => CancellationWins
<1>1. BgInv /\ [BgNext]_bgVars => BgInv' /\ [CancellationStands]_bgVars
  BY BgStep
<1>2. BgInv => StoppedShellIsGone
  BY DEF BgInv
<1> QED  BY BgInitially, <1>1, <1>2, PTL DEF BgSpec, CancellationWins

(****************************************************************************)
(* MCP servers (Servers)                                                   *)
(*                                                                         *)
(* For every number of servers, coroutines and secrets: a child has one    *)
(* owner, and a session the child it talks to.                             *)
(****************************************************************************)
JobStages == {"idle", "sweep", "upsert", "erase", "forget", "drop", "handshake", "list", "register",
              "reap", "probe", "search"}
JobOps == {"none", "sweep", "save on", "save off", "install", "import on", "import off", "remove",
           "probe", "search"}
JobRecords == [op : JobOps, at : JobStages, s : McpServers \cup {"none"}, child : Nat,
               todo : SUBSET McpServers]
Launches == [for : McpServers, cred : Nat]

\* A coroutine that starts or closes a child, one that is about to register it, and
\* one that connects or closes a server.
HoldsChild(r) == r.at \in {"handshake", "list", "register", "reap", "probe", "drop"}
Connects(r) == r.at \in {"handshake", "list", "register"}
Works(r, s) == r.s = s /\ r.at \notin {"idle", "probe", "search"}

ServerTypes ==
    /\ secret \in [McpServers -> Nat] /\ secrets \in Nat
    /\ sess \in [McpServers -> Nat] /\ stack \in [McpServers -> Nat]
    /\ spawned \in Seq(Launches) /\ living \subseteq 1 .. Len(spawned)
    /\ job \in [McpJobs -> JobRecords]
    /\ mixed \subseteq McpServers
    /\ snapshot \subseteq 1 .. Len(spawned) /\ closed \subseteq snapshot

\* Who has a child has one of the right server, and nobody else's.
HoldersDiffer ==
    /\ \A j \in McpJobs : HoldsChild(job[j]) =>
           /\ job[j].s \in McpServers /\ job[j].child \in 1 .. Len(spawned)
           /\ spawned[job[j].child].for = job[j].s
           /\ \A s \in McpServers : stack[s] # job[j].child
    /\ \A i, j \in McpJobs : HoldsChild(job[i]) /\ HoldsChild(job[j]) /\ job[i].child = job[j].child => i = j
    /\ \A j \in McpJobs : job[j].at \in {"upsert", "erase", "forget"} => job[j].s \in McpServers
    /\ \A j \in McpJobs : Connects(job[j]) => job[j].child \in living \ snapshot

\* What the teardown has closed runs no more, and it stops when it has closed all.
TeardownHolds ==
    /\ living \cap closed = {}
    /\ mcpHost = "up" => closed = {}
    /\ mcpHost = "cleared" => closed = snapshot

StacksHold ==
    \A s \in McpServers :
        /\ sess[s] = stack[s]
        /\ stack[s] # 0 => /\ stack[s] \in 1 .. Len(spawned) /\ spawned[stack[s]].for = s
                           /\ stack[s] \in living \/ (mcpHost = "closing" /\ stack[s] \in closed)

LivingAreOwned ==
    \A c \in living \ dropped :
        \/ spawned[c].for \in mixed \/ stack[spawned[c].for] = c
        \/ \E j \in McpJobs : HoldsChild(job[j]) /\ job[j].child = c

\* As long as no two connects of a server overlap.
OneByOne ==
    \A s \in McpServers \ mixed :
        /\ \A i, j \in McpJobs : Works(job[i], s) /\ Works(job[j], s) => i = j
        /\ \A j \in McpJobs : Connects(job[j]) /\ job[j].s = s =>
               sess[s] = 0 /\ spawned[job[j].child].cred = secret[s]
        /\ sess[s] # 0 => spawned[sess[s]].cred = secret[s]

ServersInv == ServerTypes /\ HoldersDiffer /\ TeardownHolds /\ StacksHold /\ LivingAreOwned /\ OneByOne

LEMMA ServersInitially == ServersInit => ServersInv
<1> SUFFICES ASSUME ServersInit PROVE ServersInv
  OBVIOUS
<1>1. Rested \in JobRecords /\ Rested.at = "idle"
  BY DEF Rested, JobRecords, JobOps, JobStages
<1>2. /\ \A j \in McpJobs : job[j].at = "idle"
      /\ spawned = <<>> /\ living = {} /\ mixed = {} /\ snapshot = {} /\ closed = {} /\ mcpHost = "up"
      /\ \A s \in McpServers : sess[s] = 0 /\ stack[s] = 0
  BY <1>1 DEF ServersInit
<1>3. ServerTypes
  BY <1>1, <1>2 DEF ServersInit, ServerTypes
<1>4. HoldersDiffer /\ TeardownHolds /\ StacksHold /\ LivingAreOwned /\ OneByOne
  BY <1>2 DEF HoldersDiffer, TeardownHolds, StacksHold, LivingAreOwned, OneByOne, HoldsChild, Connects, Works
<1> QED  BY <1>3, <1>4 DEF ServersInv

LEMMA JobTurns ==
    ASSUME ServerTypes, NEW j \in McpJobs, NEW r \in JobRecords, job' = [job EXCEPT ![j] = r]
    PROVE  /\ job' \in [McpJobs -> JobRecords]
           /\ job'[j] = r /\ \A i \in McpJobs \ {j} : job'[i] = job[i]
BY DEF ServerTypes

\* A coroutine goes on without a new child; the child it gives up is closed, or
\* dropped when its connect raised or was cancelled.
LEMMA GoingOnKeeps ==
    ASSUME ServersInv, NEW j \in McpJobs, NEW r \in JobRecords, job' = [job EXCEPT ![j] = r],
           UNCHANGED <<sess, stack, spawned, secret, secrets, teardown>>,
           mixed \subseteq mixed', mixed' \subseteq McpServers, dropped \subseteq dropped',
           HoldsChild(r) => HoldsChild(job[j]) /\ r.child = job[j].child /\ r.s = job[j].s,
           Connects(r) => Connects(job[j]),
           r.at \in {"upsert", "erase", "forget"} => r.s \in McpServers,
           \A s \in McpServers : Works(r, s) => s \in mixed' \/ Working(s) \subseteq {j},
           \/ living' = living /\ (HoldsChild(job[j]) /\ ~HoldsChild(r) => job[j].child \in dropped')
           \/ living' = living \ {job[j].child} /\ HoldsChild(job[j]) /\ ~HoldsChild(r)
    PROVE  ServersInv'
<1> USE DEF ServersInv
<1>0. UNCHANGED <<mcpHost, snapshot, closed>>
  BY DEF teardown
<1>1. /\ job' \in [McpJobs -> JobRecords] /\ job'[j] = r
      /\ \A i \in McpJobs \ {j} : job'[i] = job[i]
  BY JobTurns
<1>2. ServerTypes'
  BY <1>0, <1>1 DEF ServerTypes
<1>3. \A c \in 1 .. Len(spawned) : c \in living /\ c \notin living' => c = job[j].child
  OBVIOUS
<1>4. Connects(r) => HoldsChild(r)
  BY DEF Connects, HoldsChild
<1>5. HoldersDiffer'
  <2>1. \A i \in McpJobs : HoldsChild(job'[i]) =>
            HoldsChild(job[i]) /\ job'[i].child = job[i].child /\ job'[i].s = job[i].s
    BY <1>1
  <2>2. \A i \in McpJobs : Connects(job'[i]) => Connects(job[i]) /\ HoldsChild(job'[i])
    BY <1>1, <1>4 DEF Connects, HoldsChild
  <2>3. ASSUME NEW i \in McpJobs, Connects(job'[i]) PROVE job'[i].child \in living' \ snapshot
    <3>1. job[i].child \in living \ snapshot /\ job'[i].child = job[i].child /\ HoldsChild(job[i]) /\ HoldsChild(job'[i])
      BY <2>1, <2>2, <2>3 DEF HoldersDiffer
    <3>2. CASE i = j
      BY <1>1, <3>1, <3>2
    <3>3. CASE i # j
      BY <3>1, <3>3 DEF HoldersDiffer
    <3> QED  BY <3>2, <3>3
  <2>4. \A i \in McpJobs : job'[i].at \in {"upsert", "erase", "forget"} => job'[i].s \in McpServers
    BY <1>1 DEF HoldersDiffer
  <2> QED  BY <1>0, <2>1, <2>3, <2>4 DEF HoldersDiffer
<1>6. StacksHold'
  <2>1. ASSUME NEW s \in McpServers, stack[s] # 0 PROVE stack[s] \in living' \/ (mcpHost = "closing" /\ stack[s] \in closed)
    BY <2>1 DEF StacksHold, HoldersDiffer
  <2> QED  BY <1>0, <2>1 DEF StacksHold
<1>9. TeardownHolds'
  BY <1>0 DEF TeardownHolds
<1>7. LivingAreOwned'
  <2> SUFFICES ASSUME NEW c \in living' \ dropped'
               PROVE  \/ spawned[c].for \in mixed' \/ stack[spawned[c].for] = c
                      \/ \E i \in McpJobs : HoldsChild(job'[i]) /\ job'[i].child = c
    BY DEF LivingAreOwned
  <2>1. c \in living \ dropped
    OBVIOUS
  <2>2. ASSUME NEW i \in McpJobs, HoldsChild(job[i]), job[i].child = c
        PROVE  \/ spawned[c].for \in mixed'
               \/ \E k \in McpJobs : HoldsChild(job'[k]) /\ job'[k].child = c
    <3>1. CASE i # j
      BY <1>1, <2>2, <3>1
    <3>2. CASE i = j /\ HoldsChild(r)
      BY <1>1, <2>2, <3>2
    <3>3. CASE i = j /\ ~HoldsChild(r)
      BY <2>2, <3>3
    <3> QED  BY <3>1, <3>2, <3>3
  <2> QED  BY <2>1, <2>2 DEF LivingAreOwned
<1>8. OneByOne'
  <2> SUFFICES ASSUME NEW s \in McpServers \ mixed'
               PROVE  /\ \A i, k \in McpJobs : Works(job'[i], s) /\ Works(job'[k], s) => i = k
                      /\ \A i \in McpJobs : Connects(job'[i]) /\ job'[i].s = s =>
                             sess[s] = 0 /\ spawned[job'[i].child].cred = secret[s]
                      /\ sess[s] # 0 => spawned[sess[s]].cred = secret[s]
    BY DEF OneByOne
  <2>0. s \notin mixed
    OBVIOUS
  <2>1. \A i \in McpJobs \ {j} : Works(r, s) => ~Works(job[i], s)
    BY DEF Working, Works
  <2>2. \A i, k \in McpJobs : Works(job'[i], s) /\ Works(job'[k], s) => i = k
    BY <1>1, <2>0, <2>1 DEF OneByOne
  <2>3. \A i \in McpJobs : Connects(job'[i]) =>
            Connects(job[i]) /\ job'[i].child = job[i].child /\ job'[i].s = job[i].s
    BY <1>1, <1>4
  <2> QED  BY <2>0, <2>2, <2>3 DEF OneByOne
<1> QED  BY <1>2, <1>5, <1>6, <1>7, <1>8, <1>9

\* A coroutine starts a child with the credentials of the moment.
LEMMA StartingKeeps ==
    ASSUME ServersInv, NEW j \in McpJobs, NEW s \in McpServers, NEW r \in JobRecords,
           job' = [job EXCEPT ![j] = r],
           spawned' = Append(spawned, [for |-> s, cred |-> secret[s]]),
           living' = living \cup {Len(spawned) + 1},
           UNCHANGED <<sess, stack, secret, secrets, dropped, teardown>>,
           mixed \subseteq mixed', mixed' \subseteq McpServers,
           r.s = s, r.child = Len(spawned) + 1, r.at \in {"handshake", "probe"}, ~HoldsChild(job[j]),
           r.at = "handshake" => sess[s] = 0,
           Works(r, s) => s \in mixed' \/ Working(s) \subseteq {j}
    PROVE  ServersInv'
<1> USE DEF ServersInv
<1>0. PICK n \in Nat : n = Len(spawned) + 1
  BY DEF ServerTypes
<1>a. UNCHANGED <<mcpHost, snapshot, closed>>
  BY DEF teardown
<1>1. /\ job' \in [McpJobs -> JobRecords] /\ job'[j] = r
      /\ \A i \in McpJobs \ {j} : job'[i] = job[i]
  BY JobTurns
<1>2. /\ spawned' \in Seq(Launches) /\ Len(spawned') = n
      /\ \A c \in 1 .. Len(spawned) : spawned'[c] = spawned[c] /\ c \in 1 .. n /\ c # n
      /\ spawned'[n] = [for |-> s, cred |-> secret[s]] /\ n # 0 /\ n \in 1 .. n
  <2>1. [for |-> s, cred |-> secret[s]] \in Launches /\ spawned \in Seq(Launches)
    BY DEF Launches, ServerTypes
  <2> QED  BY <1>0, <2>1
<1>3. spawned'[n].for = s /\ spawned'[n].cred = secret[s]
  BY <1>2
<1>4. ServerTypes'
  BY <1>0, <1>1, <1>2, <1>a DEF ServerTypes
<1>b. n \notin snapshot /\ n \notin closed
  BY <1>2 DEF ServerTypes
<1>5. HoldsChild(r) /\ (Connects(r) <=> r.at = "handshake")
  BY DEF HoldsChild, Connects
<1>6. \A i \in McpJobs \ {j} : HoldsChild(job[i]) => job[i].child \in 1 .. Len(spawned) /\ job[i].child # n
  BY <1>2 DEF HoldersDiffer
<1>7. \A t \in McpServers : stack[t] # n
  BY <1>2 DEF StacksHold
<1>8. HoldersDiffer'
  <2>1. ASSUME NEW i \in McpJobs, HoldsChild(job'[i])
        PROVE  /\ job'[i].s \in McpServers /\ job'[i].child \in 1 .. Len(spawned')
               /\ spawned'[job'[i].child].for = job'[i].s
               /\ \A t \in McpServers : stack[t] # job'[i].child
    <3>1. CASE i = j
      BY <1>0, <1>1, <1>2, <1>3, <1>7, <3>1
    <3>2. CASE i # j
      BY <1>1, <1>2, <1>6, <2>1, <3>2 DEF HoldersDiffer
    <3> QED  BY <3>1, <3>2
  <2>2. \A i, k \in McpJobs : HoldsChild(job'[i]) /\ HoldsChild(job'[k]) /\ job'[i].child = job'[k].child => i = k
    BY <1>0, <1>1, <1>6 DEF HoldersDiffer
  <2>3. \A i \in McpJobs : job'[i].at \in {"upsert", "erase", "forget"} => job'[i].s \in McpServers
    BY <1>1 DEF HoldersDiffer
  <2>4. \A i \in McpJobs : Connects(job'[i]) => job'[i].child \in living' \ snapshot
    BY <1>0, <1>1, <1>b DEF HoldersDiffer
  <2> QED  BY <1>a, <2>1, <2>2, <2>3, <2>4 DEF HoldersDiffer
<1>9. StacksHold' /\ TeardownHolds'
  BY <1>0, <1>2, <1>a, <1>b DEF StacksHold, TeardownHolds
<1>10. LivingAreOwned'
  <2> SUFFICES ASSUME NEW c \in living' \ dropped'
               PROVE  \/ spawned'[c].for \in mixed' \/ stack[spawned'[c].for] = c
                      \/ \E i \in McpJobs : HoldsChild(job'[i]) /\ job'[i].child = c
    BY DEF LivingAreOwned
  <2>1. CASE c = n
    BY <1>0, <1>1, <1>5, <2>1
  <2>2. CASE c # n
    <3>1. c \in living \ dropped /\ spawned'[c] = spawned[c]
      BY <1>0, <1>2, <2>2 DEF ServerTypes
    <3>2. \A i \in McpJobs : HoldsChild(job[i]) => job'[i] = job[i]
      BY <1>1
    <3>3. CASE spawned[c].for \in mixed \/ stack[spawned[c].for] = c
      BY <3>1, <3>3
    <3>4. CASE \E i \in McpJobs : HoldsChild(job[i]) /\ job[i].child = c
      BY <3>2, <3>4
    <3> QED  BY <3>1, <3>3, <3>4 DEF LivingAreOwned
  <2> QED  BY <2>1, <2>2
<1>11. OneByOne'
  <2> SUFFICES ASSUME NEW u \in McpServers \ mixed'
               PROVE  /\ \A i, k \in McpJobs : Works(job'[i], u) /\ Works(job'[k], u) => i = k
                      /\ \A i \in McpJobs : Connects(job'[i]) /\ job'[i].s = u =>
                             sess[u] = 0 /\ spawned'[job'[i].child].cred = secret[u]
                      /\ sess[u] # 0 => spawned'[sess[u]].cred = secret[u]
    BY DEF OneByOne
  <2>0. u \notin mixed
    OBVIOUS
  <2>1. \A i \in McpJobs \ {j} : Works(r, u) => ~Works(job[i], u)
    BY DEF Working, Works
  <2>2. \A i, k \in McpJobs : Works(job'[i], u) /\ Works(job'[k], u) => i = k
    BY <1>1, <2>0, <2>1 DEF OneByOne
  <2>3. ASSUME NEW i \in McpJobs, Connects(job'[i]), job'[i].s = u
        PROVE  sess[u] = 0 /\ spawned'[job'[i].child].cred = secret[u]
    <3>1. CASE i = j
      BY <1>0, <1>1, <1>3, <1>5, <2>3, <3>1
    <3>2. CASE i # j
      BY <1>1, <1>2, <1>6, <2>0, <2>3, <3>2 DEF OneByOne, Connects, HoldsChild
    <3> QED  BY <3>1, <3>2
  <2>4. sess[u] # 0 => spawned'[sess[u]].cred = secret[u]
    BY <1>2, <2>0 DEF OneByOne, StacksHold
  <2> QED  BY <2>2, <2>3, <2>4
<1> QED  BY <1>4, <1>8, <1>9, <1>10, <1>11

\* The registration of a session: the child is the stack's from now on.
LEMMA RegisterKeeps ==
    ASSUME ServersInv, NEW j \in McpJobs, RegisterSession(j)
    PROVE  ServersInv'
<1> USE DEF ServersInv
<1>1. PICK r \in JobRecords : job' = [job EXCEPT ![j] = r] /\ r.at \in {"idle", "sweep"} /\ r.s = "none"
  <2>1. Rested \in JobRecords /\ Rested.at = "idle" /\ Rested.s = "none"
    BY DEF Rested, JobRecords, JobOps, JobStages
  <2>2. LET q == [job[j] EXCEPT !.at = "sweep", !.s = "none", !.child = 0]
        IN  q \in JobRecords /\ q.at = "sweep" /\ q.s = "none"
    BY DEF ServerTypes, JobRecords, JobStages
  <2> QED  BY <2>1, <2>2 DEF RegisterSession, Returns, Finishes
<1>2. PICK s \in McpServers, c \in 1 .. Len(spawned) :
         s = job[j].s /\ c = job[j].child /\ spawned[c].for = s /\ c \in living
           /\ \A t \in McpServers : stack[t] # c
  BY DEF RegisterSession, HoldersDiffer, HoldsChild, Connects
<1>3. /\ sess' = [sess EXCEPT ![s] = c] /\ stack' = [stack EXCEPT ![s] = c]
      /\ UNCHANGED <<secret, living, spawned, secrets, mixed, dropped, mcpHost, snapshot, closed>>
      /\ job[j].at = "register"
  BY <1>2 DEF RegisterSession, catalog, children, teardown
<1>4. /\ job' \in [McpJobs -> JobRecords] /\ job'[j] = r
      /\ \A i \in McpJobs \ {j} : job'[i] = job[i]
  BY <1>1, JobTurns
<1>5. /\ sess'[s] = c /\ stack'[s] = c /\ \A t \in McpServers \ {s} : sess'[t] = sess[t] /\ stack'[t] = stack[t]
      /\ c \in Nat /\ c # 0
  BY <1>3 DEF ServerTypes
<1>6. ServerTypes'
  BY <1>3, <1>4, <1>5 DEF ServerTypes
<1>7. ~HoldsChild(r) /\ ~Connects(r) /\ \A t \in McpServers : ~Works(r, t)
  BY <1>1, ServersAssumption DEF HoldsChild, Connects, Works
<1>8. HoldsChild(job[j]) /\ Connects(job[j]) /\ Works(job[j], s)
  BY <1>2, <1>3 DEF HoldsChild, Connects, Works
<1>9. \A i \in McpJobs \ {j} : HoldsChild(job[i]) => job[i].child # c
  BY <1>2, <1>8 DEF HoldersDiffer
<1>10. HoldersDiffer'
  BY <1>1, <1>3, <1>4, <1>5, <1>7, <1>9 DEF HoldersDiffer
<1>11. StacksHold' /\ TeardownHolds'
  BY <1>2, <1>3, <1>5 DEF StacksHold, TeardownHolds
<1>12. LivingAreOwned'
  <2> SUFFICES ASSUME NEW d \in living \ dropped
               PROVE  \/ spawned[d].for \in mixed \/ stack'[spawned[d].for] = d
                      \/ \E i \in McpJobs : HoldsChild(job'[i]) /\ job'[i].child = d
    BY <1>3 DEF LivingAreOwned
  <2>1. spawned[d].for \in McpServers
    <3>1. spawned[d] \in Launches
      BY DEF ServerTypes
    <3> QED  BY <3>1 DEF Launches
  <2>2. CASE d = c
    BY <1>2, <1>5, <2>2
  <2>3. CASE stack[spawned[d].for] = d /\ spawned[d].for # s
    BY <1>5, <2>1, <2>3
  <2>4. CASE stack[s] = d /\ spawned[d].for = s
    <3>1. d # 0
      BY DEF ServerTypes
    <3>2. sess[s] # 0
      BY <2>4, <3>1 DEF StacksHold
    <3>3. s \in mixed
      BY <1>2, <1>8, <3>2 DEF OneByOne
    <3> QED  BY <2>4, <3>3
  <2>5. CASE \E i \in McpJobs : HoldsChild(job[i]) /\ job[i].child = d /\ i # j
    BY <1>4, <2>5
  <2> QED  BY <1>2, <2>2, <2>3, <2>4, <2>5 DEF LivingAreOwned
<1>13. OneByOne'
  <2> SUFFICES ASSUME NEW u \in McpServers \ mixed
               PROVE  /\ \A i, k \in McpJobs : Works(job'[i], u) /\ Works(job'[k], u) => i = k
                      /\ \A i \in McpJobs : Connects(job'[i]) /\ job'[i].s = u =>
                             sess'[u] = 0 /\ spawned[job'[i].child].cred = secret[u]
                      /\ sess'[u] # 0 => spawned[sess'[u]].cred = secret[u]
    BY <1>3 DEF OneByOne
  <2>1. \A i, k \in McpJobs : Works(job'[i], u) /\ Works(job'[k], u) => i = k
    BY <1>4, <1>7 DEF OneByOne
  <2>2. CASE u = s
    <3>1. \A i \in McpJobs : Connects(job'[i]) => job'[i].s # s
      <4>1. \A i \in McpJobs \ {j} : ~Works(job[i], s)
        BY <1>8, <2>2 DEF OneByOne
      <4> QED  BY <1>4, <1>7, <4>1 DEF Works, Connects
    <3>2. spawned[c].cred = secret[s]
      BY <1>2, <1>8, <2>2 DEF OneByOne
    <3> QED  BY <1>5, <2>1, <2>2, <3>1, <3>2
  <2>3. CASE u # s
    BY <1>4, <1>5, <1>7, <2>1, <2>3 DEF OneByOne
  <2> QED  BY <2>2, <2>3
<1> QED  BY <1>6, <1>10, <1>11, <1>12, <1>13

\* A server's entries are dropped, and new credentials may be stored: the child of
\* its stack is the coroutine's to close.
LEMMA ForgettingKeeps ==
    ASSUME ServersInv, NEW j \in McpJobs, NEW s \in McpServers, NEW r \in JobRecords,
           job' = [job EXCEPT ![j] = r], ~HoldsChild(job[j]),
           sess' = [sess EXCEPT ![s] = 0], stack' = [stack EXCEPT ![s] = 0],
           secret' \in [McpServers -> Nat], secrets' \in Nat,
           \A t \in McpServers \ {s} : secret'[t] = secret[t],
           UNCHANGED <<living, spawned, dropped, teardown>>, mixed \subseteq mixed', mixed' \subseteq McpServers,
           stack[s] # 0 => r.at = "drop" /\ r.child = stack[s],
           stack[s] = 0 => r.at \in {"idle", "upsert"},
           r.at # "idle" => r.s = s,
           s \in mixed' \/ Working(s) \subseteq {j}
    PROVE  ServersInv'
<1> USE DEF ServersInv
<1>0. UNCHANGED <<mcpHost, snapshot, closed>>
  BY DEF teardown
<1>1. /\ job' \in [McpJobs -> JobRecords] /\ job'[j] = r
      /\ \A i \in McpJobs \ {j} : job'[i] = job[i]
  BY JobTurns
<1>2. /\ sess' \in [McpServers -> Nat] /\ stack' \in [McpServers -> Nat]
      /\ sess'[s] = 0 /\ stack'[s] = 0
      /\ \A t \in McpServers \ {s} : sess'[t] = sess[t] /\ stack'[t] = stack[t]
  BY DEF ServerTypes
<1>3. ServerTypes'
  BY <1>0, <1>1, <1>2 DEF ServerTypes
<1>4. /\ ~Connects(r) /\ (HoldsChild(r) => stack[s] # 0 /\ r.child = stack[s] /\ r.s = s)
      /\ \A t \in McpServers : Works(r, t) => t = s
      /\ stack[s] # 0 => HoldsChild(r)
      /\ r.at \in {"upsert", "erase", "forget"} => r.s = s
  BY DEF HoldsChild, Connects, Works
<1>5. stack[s] # 0 => stack[s] \in 1 .. Len(spawned) /\ spawned[stack[s]].for = s
  BY DEF StacksHold
<1>6. \A i \in McpJobs : HoldsChild(job[i]) => job[i].child # stack[s]
  BY DEF HoldersDiffer
<1>7. HoldersDiffer'
  <2>1. ASSUME NEW i \in McpJobs, HoldsChild(job'[i])
        PROVE  /\ job'[i].s \in McpServers /\ job'[i].child \in 1 .. Len(spawned)
               /\ spawned[job'[i].child].for = job'[i].s
               /\ \A t \in McpServers : stack'[t] # job'[i].child
    <3>1. CASE i = j
      <4>1. /\ stack[s] # 0 /\ r.child = stack[s] /\ r.s = s
        BY <1>1, <1>4, <2>1, <3>1
      <4>2. \A t \in McpServers \ {s} : stack[t] # stack[s]
        BY <4>1 DEF StacksHold
      <4> QED  BY <1>1, <1>2, <1>5, <3>1, <4>1, <4>2
    <3>2. CASE i # j
      <4>1. /\ job'[i] = job[i] /\ HoldsChild(job[i])
        BY <1>1, <2>1, <3>2
      <4>2. job[i].child # 0
        BY <4>1 DEF HoldersDiffer
      <4> QED  BY <1>2, <4>1, <4>2 DEF HoldersDiffer
    <3> QED  BY <3>1, <3>2
  <2>2. \A i, k \in McpJobs : HoldsChild(job'[i]) /\ HoldsChild(job'[k]) /\ job'[i].child = job'[k].child => i = k
    BY <1>1, <1>4, <1>6 DEF HoldersDiffer
  <2>3. \A i \in McpJobs : job'[i].at \in {"upsert", "erase", "forget"} => job'[i].s \in McpServers
    BY <1>1, <1>4 DEF HoldersDiffer
  <2>4. \A i \in McpJobs : Connects(job'[i]) => job'[i].child \in living \ snapshot
    BY <1>1, <1>4 DEF HoldersDiffer
  <2> QED  BY <1>0, <2>1, <2>2, <2>3, <2>4 DEF HoldersDiffer
<1>8. StacksHold' /\ TeardownHolds'
  BY <1>0, <1>2 DEF StacksHold, TeardownHolds
<1>9. LivingAreOwned'
  <2> SUFFICES ASSUME NEW c \in living \ dropped
               PROVE  \/ spawned[c].for \in mixed' \/ stack'[spawned[c].for] = c
                      \/ \E i \in McpJobs : HoldsChild(job'[i]) /\ job'[i].child = c
    BY DEF LivingAreOwned
  <2>1. c # 0 /\ spawned[c].for \in McpServers
    <3>1. spawned[c] \in Launches /\ c # 0
      BY DEF ServerTypes
    <3> QED  BY <3>1 DEF Launches
  <2>2. CASE stack[spawned[c].for] = c /\ spawned[c].for # s
    BY <1>2, <2>1, <2>2
  <2>3. CASE stack[spawned[c].for] = c /\ spawned[c].for = s
    BY <1>1, <1>4, <2>1, <2>3
  <2>4. CASE \E i \in McpJobs : HoldsChild(job[i]) /\ job[i].child = c
    BY <1>1, <2>4
  <2> QED  BY <2>2, <2>3, <2>4 DEF LivingAreOwned
<1>10. OneByOne'
  <2> SUFFICES ASSUME NEW u \in McpServers \ mixed'
               PROVE  /\ \A i, k \in McpJobs : Works(job'[i], u) /\ Works(job'[k], u) => i = k
                      /\ \A i \in McpJobs : Connects(job'[i]) /\ job'[i].s = u =>
                             sess'[u] = 0 /\ spawned[job'[i].child].cred = secret'[u]
                      /\ sess'[u] # 0 => spawned[sess'[u]].cred = secret'[u]
    BY DEF OneByOne
  <2>0. u \notin mixed
    OBVIOUS
  <2>1. CASE u = s
    <3>1. \A i \in McpJobs \ {j} : ~Works(job[i], s)
      BY <2>1 DEF Working, Works
    <3>2. \A i \in McpJobs \ {j} : ~Works(job'[i], s)
      BY <1>1, <3>1
    <3>3. \A i \in McpJobs : ~(Connects(job'[i]) /\ job'[i].s = s)
      BY <1>1, <1>4, <3>2 DEF Connects, Works
    <3> QED  BY <1>2, <2>1, <3>2, <3>3
  <2>2. CASE u # s
    <3>1. \A i, k \in McpJobs : Works(job'[i], u) /\ Works(job'[k], u) => i = k
      BY <1>1, <1>4, <2>0, <2>2 DEF OneByOne
    <3> QED  BY <1>1, <1>2, <1>4, <2>0, <2>2, <3>1 DEF OneByOne
  <2> QED  BY <2>1, <2>2
<1> QED  BY <1>3, <1>7, <1>8, <1>9, <1>10

\* The teardown begins with the stacks it finds, which no coroutine is connecting;
\* it closes them one by one, and clears both tables when all are closed.
LEMMA ShutdownKeeps ==
    ASSUME ServersInv, ShutdownSessions PROVE ServersInv'
<1> USE DEF ServersInv
<1>1. CASE ShutdownBegins
  <2>1. /\ UNCHANGED <<sess, stack, living, spawned, job, secret, secrets, mixed, dropped, closed>>
        /\ closed = {} /\ mcpHost' = "closing" /\ snapshot' = {stack[s] : s \in McpServers} \ {0}
    BY <1>1 DEF ShutdownBegins, catalog, registry, children, TeardownHolds
  <2>2. snapshot' \subseteq 1 .. Len(spawned)
    BY <2>1 DEF StacksHold
  <2>3. ASSUME NEW j \in McpJobs, Connects(job[j]) PROVE job[j].child \in living \ snapshot'
    BY <2>1, <2>3 DEF HoldersDiffer, Connects, HoldsChild
  <2>4. ServerTypes' /\ TeardownHolds' /\ StacksHold'
    BY <2>1, <2>2 DEF ServerTypes, TeardownHolds, StacksHold
  <2>5. HoldersDiffer'
    BY <2>1, <2>3 DEF HoldersDiffer
  <2>6. LivingAreOwned' /\ OneByOne'
    BY <2>1 DEF LivingAreOwned, OneByOne
  <2> QED  BY <2>4, <2>5, <2>6
<1>2. CASE ShutdownCloses
  <2>1. PICK c \in snapshot \ closed :
            /\ closed' = closed \cup {c} /\ living' = living \ {c} /\ mcpHost = "closing"
            /\ UNCHANGED <<sess, stack, spawned, job, secret, secrets, mixed, dropped, mcpHost, snapshot>>
    BY <1>2 DEF ShutdownCloses, catalog, registry
  <2>2. ServerTypes' /\ TeardownHolds' /\ StacksHold'
    BY <2>1 DEF ServerTypes, TeardownHolds, StacksHold
  <2>3. HoldersDiffer'
    BY <2>1 DEF HoldersDiffer
  <2>4. LivingAreOwned' /\ OneByOne'
    BY <2>1 DEF LivingAreOwned, OneByOne
  <2> QED  BY <2>2, <2>3, <2>4
<1>3. CASE ShutdownClears
  <2>1. /\ UNCHANGED <<living, spawned, job, secret, secrets, mixed, snapshot, closed>>
        /\ mcpHost = "closing" /\ mcpHost' = "cleared" /\ closed = snapshot
        /\ \A s \in McpServers : sess'[s] = 0 /\ stack'[s] = 0
        /\ sess' \in [McpServers -> Nat] /\ stack' \in [McpServers -> Nat]
        /\ dropped' = dropped \cup ({stack[s] : s \in McpServers} \cap living)
    BY <1>3 DEF ShutdownClears, catalog, children
  <2>2. ServerTypes' /\ TeardownHolds' /\ StacksHold'
    BY <2>1 DEF ServerTypes, TeardownHolds, StacksHold
  <2>3. HoldersDiffer'
    <3>1. \A j \in McpJobs : HoldsChild(job[j]) => job[j].child # 0
      BY DEF HoldersDiffer
    <3> QED  BY <2>1, <3>1 DEF HoldersDiffer
  <2>4. LivingAreOwned'
    <3> SUFFICES ASSUME NEW c \in living \ dropped'
                 PROVE  \/ spawned[c].for \in mixed
                        \/ \E j \in McpJobs : HoldsChild(job[j]) /\ job[j].child = c
      BY <2>1 DEF LivingAreOwned
    <3>1. spawned[c].for \in McpServers
      <4>1. spawned[c] \in Launches
        BY DEF ServerTypes
      <4> QED  BY <4>1 DEF Launches
    <3>2. c \notin dropped /\ stack[spawned[c].for] # c
      BY <2>1, <3>1
    <3> QED  BY <3>2 DEF LivingAreOwned
  <2>5. OneByOne'
    <3>1. \A s \in McpServers \ mixed, j \in McpJobs : Connects(job[j]) /\ job[j].s = s =>
              spawned[job[j].child].cred = secret[s]
      BY DEF OneByOne
    <3>2. \A s \in McpServers \ mixed, i, j \in McpJobs : Works(job[i], s) /\ Works(job[j], s) => i = j
      BY DEF OneByOne
    <3> QED  BY <2>1, <3>1, <3>2 DEF OneByOne
  <2> QED  BY <2>2, <2>3, <2>4, <2>5
<1> QED  BY <1>1, <1>2, <1>3 DEF ShutdownSessions

\* What a coroutine may turn into.
LEMMA JobShapes ==
    ASSUME ServerTypes, NEW j \in McpJobs
    PROVE  /\ job[j] \in JobRecords
           /\ Rested \in JobRecords /\ Rested.at = "idle" /\ Rested.s = "none"
           /\ \A at \in JobStages :
                  LET r == [job[j] EXCEPT !.at = at]
                  IN  r \in JobRecords /\ r.at = at /\ r.s = job[j].s /\ r.child = job[j].child
<1>1. job[j] \in JobRecords
  BY DEF ServerTypes
<1>2. Rested \in JobRecords /\ Rested.at = "idle" /\ Rested.s = "none"
  BY DEF Rested, JobRecords, JobOps, JobStages
<1>3. \A at \in JobStages :
         LET r == [job[j] EXCEPT !.at = at]
         IN  r \in JobRecords /\ r.at = at /\ r.s = job[j].s /\ r.child = job[j].child
  BY <1>1 DEF JobRecords
<1> QED  BY <1>1, <1>2, <1>3

LEMMA NobodyAtNone == \A s \in McpServers : s # "none"
BY ServersAssumption

\* The coroutine returns to its sweep, or for good.
LEMMA Returning ==
    ASSUME ServerTypes, NEW j \in McpJobs, Returns(j) \/ Finishes(j)
    PROVE  \E r \in JobRecords : /\ job' = [job EXCEPT ![j] = r]
                                 /\ r.at \in {"idle", "sweep"} /\ r.s = "none"
                                 /\ ~HoldsChild(r) /\ ~Connects(r) /\ \A s \in McpServers : ~Works(r, s)
<1>1. "sweep" \in JobStages /\ 0 \in Nat
  BY DEF JobStages
<1>2. PICK r \in JobRecords : /\ job' = [job EXCEPT ![j] = r]
                              /\ r.at \in {"idle", "sweep"} /\ r.s = "none"
  <2>1. CASE job' = [job EXCEPT ![j].at = "sweep", ![j].s = "none", ![j].child = 0]
    <3> DEFINE q == [job[j] EXCEPT !.at = "sweep", !.s = "none", !.child = 0]
    <3>1. q \in JobRecords /\ q.at = "sweep" /\ q.s = "none"
      <4>1. job[j] \in JobRecords
        BY DEF ServerTypes
      <4> QED  BY <1>1, <4>1 DEF JobRecords
    <3> QED  BY <2>1, <3>1
  <2>2. CASE job' = [job EXCEPT ![j] = Rested]
    BY <2>2, JobShapes
  <2> QED  BY <2>1, <2>2 DEF Returns, Finishes
<1> QED  BY <1>2, NobodyAtNone DEF HoldsChild, Connects, Works

\* A request becomes a coroutine that has no child yet.
LEMMA BeginningKeeps ==
    ASSUME ServersInv, NEW j \in McpJobs, NEW s \in McpServers, NEW op \in JobOps,
           NEW at \in {"upsert", "erase", "search"}, NEW n \in Nat, Begins(j, op, at, s, n),
           UNCHANGED <<sess, stack, spawned, living, secret, secrets, teardown>>
    PROVE  ServersInv'
<1> DEFINE r == [op |-> op, at |-> at, s |-> s, child |-> n, todo |-> {}]
<1>1. r \in JobRecords /\ r.at = at /\ r.s = s
  BY DEF JobRecords, JobStages
<1>2. /\ job' = [job EXCEPT ![j] = r] /\ job[j].at = "idle"
      /\ mixed \subseteq mixed' /\ mixed' \subseteq McpServers
      /\ at # "search" => s \in mixed' \/ Working(s) = {}
      /\ dropped \subseteq dropped'
  BY DEF Begins, ServersInv, ServerTypes
<1> HIDE DEF r
<1>3. ~HoldsChild(r) /\ ~Connects(r) /\ ~HoldsChild(job[j]) /\ \A u \in McpServers : Works(r, u) => u = s /\ at # "search"
  BY <1>1, <1>2 DEF HoldsChild, Connects, Works
<1>4. \A u \in McpServers : Works(r, u) => u \in mixed' \/ Working(u) \subseteq {j}
  BY <1>2, <1>3
<1> QED  BY <1>1, <1>2, <1>3, <1>4, GoingOnKeeps

LEMMA HandshakeKeeps ==
    ASSUME ServersInv, NEW j \in McpJobs, Handshake(j) \/ ListTools(j) \/ DeleteRow(j) \/ SweepCancelled(j)
    PROVE  ServersInv'
<1> USE DEF ServersInv
<1>0. UNCHANGED <<sess, stack, spawned, living, secret, secrets, teardown, mixed>>
  BY DEF Handshake, ListTools, DeleteRow, SweepCancelled, registry, children, catalog
<1>1. CASE \/ DropsStack(j)
           \/ Finishes(j) /\ UNCHANGED dropped /\ job[j].at = "sweep"
  <2>1. dropped \subseteq dropped' /\ (HoldsChild(job[j]) => job[j].child \in dropped')
    BY <1>1 DEF DropsStack, HoldsChild
  <2>2. mixed \subseteq mixed' /\ mixed' \subseteq McpServers
    BY <1>0 DEF ServerTypes
  <2>3. PICK r \in JobRecords : /\ job' = [job EXCEPT ![j] = r]
                                /\ r.at \in {"idle", "sweep"} /\ r.s = "none"
                                /\ ~HoldsChild(r) /\ ~Connects(r) /\ \A s \in McpServers : ~Works(r, s)
    BY <1>1, Returning DEF DropsStack
  <2> QED  BY <1>0, <2>1, <2>2, <2>3, GoingOnKeeps
<1>2. ASSUME NEW at \in JobStages, McpGoes(j, at), UNCHANGED dropped,
             job[j].at \notin {"idle", "probe", "search"}, at \notin {"upsert", "idle", "probe", "search"},
             HoldsChild(job[j]) <=> at \in {"handshake", "list", "register", "reap", "probe", "drop"},
             at \in {"handshake", "list", "register"} => Connects(job[j]),
             at \in {"erase", "forget"} => job[j].s \in McpServers
      PROVE  ServersInv'
  <2> DEFINE r == [job[j] EXCEPT !.at = at]
  <2>1. /\ r \in JobRecords /\ r.at = at /\ r.s = job[j].s /\ r.child = job[j].child
    BY JobShapes
  <2>2. job' = [job EXCEPT ![j] = r]
    BY <1>2 DEF McpGoes
  <2> HIDE DEF r
  <2>3. (HoldsChild(r) <=> HoldsChild(job[j])) /\ (Connects(r) => Connects(job[j]))
    BY <1>2, <2>1 DEF HoldsChild, Connects
  <2>4. ASSUME NEW s \in McpServers, Works(r, s) PROVE s \in mixed' \/ Working(s) \subseteq {j}
    <3>1. Works(job[j], s)
      BY <1>2, <2>1, <2>4 DEF Works
    <3>2. s \in mixed \/ \A i \in McpJobs : Works(job[i], s) => i = j
      BY <3>1 DEF OneByOne
    <3> QED  BY <1>0, <3>2 DEF Working, Works
  <2>5. mixed \subseteq mixed' /\ mixed' \subseteq McpServers
    BY <1>0 DEF ServerTypes
  <2> QED  BY <1>0, <1>2, <2>1, <2>2, <2>3, <2>4, <2>5, GoingOnKeeps
<1>3. {"list", "reap", "register", "forget"} \subseteq JobStages
  BY DEF JobStages
<1>4. CASE DeleteRow(j)
  <2>1. job[j].at = "erase" /\ McpGoes(j, "forget") /\ UNCHANGED dropped /\ job[j].s \in McpServers
    BY <1>4 DEF DeleteRow, HoldersDiffer
  <2> QED  BY <1>2, <1>3, <2>1 DEF HoldsChild
<1>5. CASE ListTools(j)
  BY <1>2, <1>3, <1>5 DEF ListTools, HoldsChild, Connects
<1>6. CASE Handshake(j)
  BY <1>1, <1>2, <1>3, <1>6 DEF Handshake, HoldsChild, Connects
<1>7. CASE SweepCancelled(j)
  BY <1>1, <1>7 DEF SweepCancelled
<1> QED  BY <1>4, <1>5, <1>6, <1>7

\* A stack is closed: the child of a failed connect, of a probe or of a session
\* that was dropped is gone.
LEMMA ClosingStacksKeeps ==
    ASSUME ServersInv, NEW j \in McpJobs, ReapChild(j) \/ StackClosed(j)
    PROVE  ServersInv'
<1> USE DEF ServersInv
<1>0. /\ UNCHANGED <<sess, stack, spawned, secret, secrets, mixed, dropped, teardown>>
      /\ living' = living \ {job[j].child} /\ job[j].at \in {"reap", "probe", "drop"}
  BY DEF ReapChild, StackClosed, registry, catalog
<1>1. HoldsChild(job[j]) /\ job[j].s \in McpServers /\ mixed \subseteq McpServers
  BY <1>0 DEF HoldsChild, HoldersDiffer, ServerTypes
<1>2. PICK r \in JobRecords : /\ job' = [job EXCEPT ![j] = r] /\ ~HoldsChild(r) /\ ~Connects(r)
                              /\ r.at \in {"idle", "sweep", "upsert"}
                              /\ r.at = "upsert" => r.s = job[j].s /\ job[j].at = "drop"
                              /\ \A s \in McpServers : Works(r, s) => r.at = "upsert" /\ s = job[j].s
  <2>1. CASE Returns(j) \/ Finishes(j)
    BY <2>1, Returning
  <2>2. CASE job' = [job EXCEPT ![j].at = "upsert", ![j].child = 0] /\ job[j].at = "drop"
    <3> DEFINE q == [job[j] EXCEPT !.at = "upsert", !.child = 0]
    <3>1. q \in JobRecords /\ q.at = "upsert" /\ q.s = job[j].s
      <4>1. job[j] \in JobRecords /\ "upsert" \in JobStages
        BY DEF ServerTypes, JobStages
      <4> QED  BY <4>1 DEF JobRecords
    <3>2. job' = [job EXCEPT ![j] = q]
      BY <2>2
    <3> HIDE DEF q
    <3>3. ~HoldsChild(q) /\ ~Connects(q) /\ \A s \in McpServers : Works(q, s) => s = job[j].s
      BY <3>1 DEF HoldsChild, Connects, Works
    <3> QED  BY <2>2, <3>1, <3>2, <3>3
  <2>3. CASE job' = [job EXCEPT ![j] = Rested]
    BY <2>3, Returning DEF Finishes
  <2>4. \/ Returns(j) \/ job' = [job EXCEPT ![j] = Rested]
        \/ job' = [job EXCEPT ![j].at = "upsert", ![j].child = 0] /\ job[j].at = "drop"
    BY DEF ReapChild, StackClosed
  <2> QED  BY <2>1, <2>2, <2>3, <2>4
<1>3. ASSUME NEW s \in McpServers, Works(r, s) PROVE s \in mixed' \/ Working(s) \subseteq {j}
  <2>1. s = job[j].s /\ Works(job[j], s)
    BY <1>2, <1>3 DEF Works
  <2>2. s \in mixed \/ \A i \in McpJobs : Works(job[i], s) => i = j
    BY <2>1 DEF OneByOne
  <2> QED  BY <1>0, <2>2 DEF Working, Works
<1>4. /\ mixed \subseteq mixed' /\ mixed' \subseteq McpServers
      /\ r.at \in {"upsert", "erase", "forget"} => r.s \in McpServers
  BY <1>0, <1>1, <1>2
<1> QED  BY <1>0, <1>1, <1>2, <1>3, <1>4, GoingOnKeeps

\* A row is written; an enabled server is connected right away.
LEMMA UpsertKeeps ==
    ASSUME ServersInv, NEW j \in McpJobs, UpsertRow(j)
    PROVE  ServersInv'
<1> USE DEF ServersInv
<1>0. /\ UNCHANGED <<sess, stack, secret, secrets, mixed, dropped, teardown>> /\ job[j].at = "upsert"
  BY DEF UpsertRow, registry
<1>1. PICK s \in McpServers : s = job[j].s
  BY <1>0 DEF HoldersDiffer
<1>2. /\ ~HoldsChild(job[j]) /\ ~Connects(job[j]) /\ mixed' = mixed /\ mixed \subseteq McpServers
      /\ mixed \subseteq mixed' /\ mixed' \subseteq McpServers
  BY <1>0 DEF HoldsChild, Connects, ServerTypes
<1>3. s \in mixed \/ Working(s) \subseteq {j}
  <2>1. Works(job[j], s)
    BY <1>0, <1>1 DEF Works
  <2> QED  BY <2>1 DEF OneByOne, Working, Works
<1>4. CASE (Returns(j) \/ Finishes(j)) /\ UNCHANGED children
  <2>1. PICK r \in JobRecords : /\ job' = [job EXCEPT ![j] = r]
                                /\ r.at \in {"idle", "sweep"} /\ r.s = "none"
                                /\ ~HoldsChild(r) /\ ~Connects(r) /\ \A u \in McpServers : ~Works(r, u)
    BY <1>4, Returning
  <2>2. living' = living /\ spawned' = spawned
    BY <1>4 DEF children
  <2> QED  BY <1>0, <1>2, <2>1, <2>2, GoingOnKeeps
<1>5. CASE sess[s] = 0 /\ Shakes(j, s)
  <2> DEFINE n == Len(spawned) + 1
             r == [job[j] EXCEPT !.at = "handshake", !.s = s, !.child = n]
  <2>0. n \in Nat /\ spawned \in Seq(Launches) /\ [for |-> s, cred |-> secret[s]] \in Launches
    BY DEF ServerTypes, Launches
  <2>1. /\ spawned' = Append(spawned, [for |-> s, cred |-> secret[s]]) /\ living' = living \cup {n}
        /\ job' = [job EXCEPT ![j] = r]
    <3>1. /\ spawned' = Append(spawned, [for |-> s, cred |-> secret[s]])
          /\ living' = living \cup {Len(spawned')}
          /\ job' = [job EXCEPT ![j].at = "handshake", ![j].s = s, ![j].child = Len(spawned')]
      BY <1>5 DEF Shakes, StartsChild, StdioParams, ServerEnv
    <3>2. Len(spawned') = n
      BY <2>0, <3>1
    <3> QED  BY <3>1, <3>2
  <2>2. r \in JobRecords /\ r.at = "handshake" /\ r.s = s /\ r.child = n
    <3>1. job[j] \in JobRecords /\ "handshake" \in JobStages
      BY DEF ServerTypes, JobStages
    <3> QED  BY <2>0, <3>1 DEF JobRecords
  <2> HIDE DEF r
  <2> QED  BY <1>0, <1>2, <1>3, <1>5, <2>1, <2>2, StartingKeeps
<1> QED  BY <1>0, <1>1, <1>4, <1>5 DEF UpsertRow, Bootstrap

\* The sweep: the rows read once, the servers connected one after the other.
LEMMA SweepKeeps ==
    ASSUME ServersInv, NEW j \in McpJobs, SweepNext(j) \/ Autoconnect(j) \/ SearchAnswered(j)
    PROVE  ServersInv'
<1> USE DEF ServersInv
<1>0. /\ UNCHANGED <<sess, stack, secret, secrets, dropped, teardown>> /\ ~HoldsChild(job[j]) /\ ~Connects(job[j])
      /\ mixed \subseteq McpServers /\ job[j] \in JobRecords /\ spawned \in Seq(Launches)
  BY DEF SweepNext, Autoconnect, SearchAnswered, registry, catalog, HoldsChild, Connects, ServerTypes
<1>1. CASE Finishes(j) /\ UNCHANGED <<living, spawned, mixed>>
  <2>1. PICK r \in JobRecords : /\ job' = [job EXCEPT ![j] = r]
                                /\ r.at \in {"idle", "sweep"} /\ r.s = "none"
                                /\ ~HoldsChild(r) /\ ~Connects(r) /\ \A u \in McpServers : ~Works(r, u)
    BY <1>1, Returning
  <2>2. mixed \subseteq mixed' /\ mixed' \subseteq McpServers
    BY <1>0, <1>1
  <2> QED  BY <1>0, <1>1, <2>1, <2>2, GoingOnKeeps
<1>2. CASE Autoconnect(j)
  <2> DEFINE r == [op |-> "sweep", at |-> "sweep", s |-> "none", child |-> 0,
                   todo |-> {s \in McpServers : listed[s] = "on"}]
  <2>1. r \in JobRecords /\ r.at = "sweep" /\ r.s = "none"
    BY DEF JobRecords, JobOps, JobStages
  <2>2. job' = [job EXCEPT ![j] = r] /\ UNCHANGED <<living, spawned, mixed>>
    BY <1>2 DEF Autoconnect, children
  <2> HIDE DEF r
  <2>3. ~HoldsChild(r) /\ ~Connects(r) /\ \A u \in McpServers : ~Works(r, u)
    BY <2>1, NobodyAtNone DEF HoldsChild, Connects, Works
  <2>4. mixed \subseteq mixed' /\ mixed' \subseteq McpServers
    BY <1>0, <2>2
  <2> QED  BY <1>0, <2>1, <2>2, <2>3, <2>4, GoingOnKeeps
<1>3. CASE SweepNext(j) /\ job[j].todo # {}
  <2>1. PICK s \in job[j].todo : s = CHOOSE x \in job[j].todo : TRUE
    BY <1>3
  <2>2. s \in McpServers
    BY <1>0 DEF JobRecords
  <2>3. /\ mixed' = IF Working(s) # {} THEN mixed \cup {s} ELSE mixed
        /\ \/ job' = [job EXCEPT ![j].todo = @ \ {s}] /\ UNCHANGED children
           \/ /\ sess[s] = 0 /\ StartsChild(s)
              /\ job' = [job EXCEPT ![j].todo = @ \ {s}, ![j].at = "handshake",
                                    ![j].s = s, ![j].child = Len(spawned')]
        /\ job[j].at = "sweep"
    BY <1>3, <2>1 DEF SweepNext
  <2>4. mixed \subseteq mixed' /\ mixed' \subseteq McpServers /\ (s \in mixed' \/ Working(s) \subseteq {j})
    BY <1>0, <2>2, <2>3
  <2>5. CASE job' = [job EXCEPT ![j].todo = @ \ {s}] /\ UNCHANGED children
    <3> DEFINE r == [job[j] EXCEPT !.todo = @ \ {s}]
    <3>1. r \in JobRecords /\ r.at = "sweep" /\ r.s = job[j].s
      BY <1>0, <2>3 DEF JobRecords
    <3>2. job' = [job EXCEPT ![j] = r] /\ UNCHANGED <<living, spawned>>
      BY <2>5 DEF children
    <3> HIDE DEF r
    <3>3. ~HoldsChild(r) /\ ~Connects(r)
      BY <3>1 DEF HoldsChild, Connects
    <3>4. ASSUME NEW u \in McpServers, Works(r, u) PROVE u \in mixed' \/ Working(u) \subseteq {j}
      <4>1. Works(job[j], u)
        BY <2>3, <3>1, <3>4 DEF Works
      <4>2. u \in mixed \/ \A i \in McpJobs : Works(job[i], u) => i = j
        BY <4>1 DEF OneByOne
      <4> QED  BY <2>4, <4>2 DEF Working, Works
    <3> QED  BY <1>0, <2>4, <3>1, <3>2, <3>3, <3>4, GoingOnKeeps
  <2>6. CASE /\ sess[s] = 0 /\ StartsChild(s)
             /\ job' = [job EXCEPT ![j].todo = @ \ {s}, ![j].at = "handshake",
                                   ![j].s = s, ![j].child = Len(spawned')]
    <3> DEFINE n == Len(spawned) + 1
               r == [job[j] EXCEPT !.todo = @ \ {s}, !.at = "handshake", !.s = s, !.child = n]
    <3>0. n \in Nat /\ [for |-> s, cred |-> secret[s]] \in Launches
      BY <1>0, <2>2 DEF ServerTypes, Launches
    <3>1. /\ spawned' = Append(spawned, [for |-> s, cred |-> secret[s]]) /\ living' = living \cup {n}
          /\ job' = [job EXCEPT ![j] = r]
      <4>1. /\ spawned' = Append(spawned, [for |-> s, cred |-> secret[s]])
            /\ living' = living \cup {Len(spawned')}
        BY <2>6 DEF StartsChild, StdioParams, ServerEnv
      <4>2. Len(spawned') = n
        BY <1>0, <3>0, <4>1
      <4> QED  BY <2>6, <4>1, <4>2
    <3>2. r \in JobRecords /\ r.at = "handshake" /\ r.s = s /\ r.child = n
      <4>1. "handshake" \in JobStages
        BY DEF JobStages
      <4> QED  BY <1>0, <2>2, <3>0, <4>1 DEF JobRecords
    <3> HIDE DEF r
    <3> QED  BY <1>0, <2>2, <2>4, <2>6, <3>1, <3>2, StartingKeeps
  <2> QED  BY <2>3, <2>5, <2>6
<1> QED  BY <1>1, <1>2, <1>3 DEF SweepNext, SearchAnswered, children

LEMMA WipeKeeps ==
    ASSUME ServersInv, NEW j \in McpJobs, WipeServer(j)
    PROVE  ServersInv'
<1> USE DEF ServersInv
<1>1. PICK s \in McpServers : s = job[j].s
  BY DEF WipeServer, HoldersDiffer
<1>2. /\ job[j].at = "forget" /\ secret' = [secret EXCEPT ![s] = 0] /\ ForgetSession(s)
      /\ job' = IF stack[s] = 0 THEN [job EXCEPT ![j] = Rested]
                 ELSE [job EXCEPT ![j].at = "drop", ![j].child = stack[s]]
      /\ UNCHANGED <<living, spawned, secrets, mixed, dropped, teardown>>
  BY <1>1 DEF WipeServer, children
<1>3. PICK r \in JobRecords : /\ job' = [job EXCEPT ![j] = r]
                              /\ stack[s] # 0 => r.at = "drop" /\ r.child = stack[s]
                              /\ stack[s] = 0 => r.at = "idle"
                              /\ r.at # "idle" => r.s = s
  <2>1. CASE stack[s] = 0
    BY <1>2, <2>1, JobShapes
  <2>2. CASE stack[s] # 0
    <3> DEFINE q == [job[j] EXCEPT !.at = "drop", !.child = stack[s]]
    <3>1. q \in JobRecords /\ q.at = "drop" /\ q.child = stack[s] /\ q.s = s
      <4>1. job[j] \in JobRecords /\ "drop" \in JobStages /\ stack[s] \in Nat
        BY DEF ServerTypes, JobStages
      <4> QED  BY <1>1, <4>1 DEF JobRecords
    <3>2. job' = [job EXCEPT ![j] = q]
      BY <1>2, <2>2
    <3> QED  BY <2>2, <3>1, <3>2
  <2> QED  BY <2>1, <2>2
<1>4. s \in mixed \/ Working(s) \subseteq {j}
  <2>1. Works(job[j], s)
    BY <1>1, <1>2 DEF Works
  <2> QED  BY <2>1 DEF OneByOne, Working, Works
<1>5. /\ secret' \in [McpServers -> Nat] /\ \A t \in McpServers \ {s} : secret'[t] = secret[t]
      /\ secrets' \in Nat /\ mixed' = mixed /\ mixed \subseteq McpServers /\ ~HoldsChild(job[j])
      /\ sess' = [sess EXCEPT ![s] = 0] /\ stack' = [stack EXCEPT ![s] = 0]
  BY <1>2 DEF ServerTypes, HoldsChild, ForgetSession
<1> QED  BY <1>2, <1>3, <1>4, <1>5, ForgettingKeeps

LEMMA InstallKeeps ==
    ASSUME ServersInv, NEW j \in McpJobs, NEW s \in McpServers, InstallFromRegistry(j, s)
    PROVE  ServersInv'
<1> USE DEF ServersInv
<1>1. /\ secret' \in [McpServers -> Nat] /\ \A t \in McpServers \ {s} : secret'[t] = secret[t]
      /\ secrets' \in Nat
  <2>1. SubmitSecret(s) /\ secrets \in Nat /\ secret \in [McpServers -> Nat]
    BY DEF InstallFromRegistry, ServerTypes
  <2>2. CASE secrets' = secrets + 1 /\ secret' = [secret EXCEPT ![s] = secrets']
    <3>1. secrets' \in Nat
      BY <2>1, <2>2
    <3> QED  BY <2>1, <2>2, <3>1
  <2>3. CASE UNCHANGED <<secrets, secret>>
    BY <2>1, <2>3
  <2> QED  BY <2>1, <2>2, <2>3 DEF SubmitSecret
<1>2. sess[s] = stack[s] /\ stack[s] \in Nat
  BY DEF StacksHold, ServerTypes
<1>3. PICK at \in {"drop", "upsert"} : /\ Begins(j, "install", at, s, stack[s])
                                       /\ stack[s] # 0 => at = "drop"
                                       /\ stack[s] = 0 => at = "upsert"
                                       /\ sess' = [sess EXCEPT ![s] = 0]
                                       /\ stack' = [stack EXCEPT ![s] = 0]
                                       /\ UNCHANGED <<living, spawned, dropped, teardown>>
  <2>1. CASE sess[s] # 0
    BY <1>2, <2>1 DEF InstallFromRegistry, ForgetSession, children, Begins
  <2>2. CASE sess[s] = 0
    <3>1. /\ Begins(j, "install", "upsert", s, 0) /\ sess' = sess /\ stack' = stack
          /\ UNCHANGED <<living, spawned, dropped, teardown>>
      BY <2>2 DEF InstallFromRegistry, registry, children, Begins
    <3>2. sess = [sess EXCEPT ![s] = 0] /\ stack = [stack EXCEPT ![s] = 0]
      BY <1>2, <2>2 DEF ServerTypes
    <3> QED  BY <1>2, <2>2, <3>1, <3>2
  <2> QED  BY <2>1, <2>2
<1> DEFINE r == [op |-> "install", at |-> at, s |-> s, child |-> stack[s], todo |-> {}]
<1>4. r \in JobRecords /\ r.at = at /\ r.s = s /\ r.child = stack[s]
  BY <1>2 DEF JobRecords, JobOps, JobStages
<1>5. /\ job' = [job EXCEPT ![j] = r] /\ ~HoldsChild(job[j])
      /\ mixed \subseteq mixed' /\ mixed' \subseteq McpServers
      /\ s \in mixed' \/ Working(s) \subseteq {j}
  BY <1>3 DEF Begins, ServerTypes, HoldsChild
<1> HIDE DEF r
<1> QED  BY <1>1, <1>3, <1>4, <1>5, ForgettingKeeps

LEMMA ProbeKeeps ==
    ASSUME ServersInv, NEW j \in McpJobs, NEW s \in McpServers, ProbeServer(j, s)
    PROVE  ServersInv'
<1> DEFINE n == Len(spawned) + 1
           r == [op |-> "probe", at |-> "probe", s |-> s, child |-> n, todo |-> {}]
<1>0. n \in Nat /\ spawned \in Seq(Launches) /\ [for |-> s, cred |-> secret[s]] \in Launches
  BY DEF ServersInv, ServerTypes, Launches
<1>1. /\ spawned' = Append(spawned, [for |-> s, cred |-> secret[s]])
      /\ living' = living \cup {Len(spawned')}
      /\ Begins(j, "probe", "probe", s, Len(spawned')) /\ UNCHANGED <<sess, stack, secret, secrets, dropped, teardown>>
  BY DEF ProbeServer, StartsChild, StdioParams, ServerEnv, registry, catalog, Begins
<1>2. Len(spawned') = n
  BY <1>0, <1>1
<1>3. job' = [job EXCEPT ![j] = r] /\ mixed' = mixed /\ job[j].at = "idle"
  BY <1>1, <1>2 DEF Begins
<1>4. r \in JobRecords /\ r.at = "probe" /\ r.s = s /\ r.child = n
  BY <1>0 DEF JobRecords, JobOps, JobStages
<1> HIDE DEF r
<1>5. ~HoldsChild(job[j]) /\ ~Works(r, s) /\ mixed \subseteq mixed' /\ mixed' \subseteq McpServers
  BY <1>3, <1>4 DEF HoldsChild, Works, ServersInv, ServerTypes
<1> QED  BY <1>1, <1>2, <1>3, <1>4, <1>5, StartingKeeps

LEMMA RequestKeeps ==
    ASSUME ServersInv, NEW j \in McpJobs, NEW s \in McpServers, McpRequest(j, s)
    PROVE  ServersInv'
<1>1. CASE SaveServer(j, s) \/ ImportConfig(j, s) \/ RemoveServer(j, s) \/ Search(j, s)
  <2>1. PICK op \in JobOps, at \in {"upsert", "erase", "search"}, n \in Nat :
            Begins(j, op, at, s, n) /\ UNCHANGED <<sess, stack, spawned, living, secret, secrets, teardown>>
    <3>1. {"save on", "save off", "import on", "import off", "remove", "search"} \subseteq JobOps
          /\ sess[s] \in Nat
      BY DEF JobOps, ServersInv, ServerTypes
    <3> QED  BY <1>1, <3>1 DEF SaveServer, ImportConfig, RemoveServer, Search, registry, children, catalog
  <2> QED  BY <2>1, BeginningKeeps
<1> QED  BY <1>1, InstallKeeps, ProbeKeeps DEF McpRequest

LEMMA ServersStep == ASSUME ServersInv, [ServersNext]_serversVars PROVE ServersInv'
<1>1. CASE UNCHANGED serversVars
  BY <1>1 DEF serversVars, ServersInv, ServerTypes, HoldersDiffer, TeardownHolds, StacksHold, LivingAreOwned, OneByOne
<1> QED  BY <1>1, HandshakeKeeps, RegisterKeeps, ClosingStacksKeeps, UpsertKeeps, SweepKeeps, WipeKeeps,
         RequestKeeps, ShutdownKeeps DEF ServersNext, McpStep

\* However many coroutines connect, drop, probe, install and sweep at the same
\* time, are cancelled, or go on while the host shuts down: a registered session
\* talks to a child that runs and that its own exit stack closes, or that the
\* shutdown has closed but not yet unregistered; a running child has an owner and
\* a session the newest credentials, unless two connects of one server overlapped
\* or the child's own connect was cancelled, raised or came too late; and no child
\* the shutdown found registered runs after it (mcp_adapter.py, the dashboard's
\* routes).
THEOREM ServersStayTracked == ServersSpec => []ServersAreTracked
<1>1. ServersInv => ServersAreTracked
  <2> SUFFICES ASSUME ServersInv PROVE ServersAreTracked
    OBVIOUS
  <2> USE DEF ServersInv
  <2>1. SessionIsLive
    BY DEF StacksHold, SessionIsLive
  <2>2. \A c \in living \ dropped :
            \/ spawned[c].for \in mixed \/ stack[spawned[c].for] = c
            \/ \E j \in McpJobs : job[j].child = c /\ job[j].at # "search"
    BY DEF LivingAreOwned, HoldsChild
  <2>3. ChildrenAreOwned
    BY <2>2 DEF ChildrenAreOwned, OneByOne
  <2>4. TeardownIsComplete
    BY DEF TeardownHolds, TeardownIsComplete
  <2> QED  BY <2>1, <2>3, <2>4 DEF ServersAreTracked
<1> QED  BY ServersInitially, ServersStep, <1>1, PTL DEF ServersSpec


(****************************************************************************)
(* The boundary graph (Boundary)                                           *)
(*                                                                         *)
(* For every number of callers and files: a waiter has a scan or an        *)
(* answer.                                                                 *)
(****************************************************************************)
Scanning == {c \in Tracers : tracing[c].at \in {"scan", "settle"}}
TracerStates == {"idle", "refresh", "scan", "settle", "await", "trace", "answered", "killed"}
FutureStates == {"pending", "done", "failed", "cancelled"}
References == [file : BoundaryFiles, channel : Channels,
               kind : {"declares", "handles", "emits", "references"}]

\* What a tracer turns into.
TracerRecords == [at : TracerStates, fut : Nat, left : SUBSET BoundaryFiles,
                  found : SUBSET References]

BoundaryTypes ==
    /\ tracing \in [Tracers -> TracerRecords]
    /\ table \in SUBSET References
    /\ futures \in Seq(FutureStates)
    /\ inflight \in Nat
    /\ stopped \in SUBSET Tracers

\* One scan at a time, on the future that is registered.
OneScan ==
    /\ \A c, d \in Scanning : c = d
    /\ \A c \in Scanning : inflight = tracing[c].fut
    /\ inflight # 0 => Scanning # {}

FuturesExist ==
    \A c \in Tracers : tracing[c].at \in {"scan", "settle", "await"} =>
        tracing[c].fut \in 1..Len(futures)

StoppedAreDead == \A c \in stopped : tracing[c].at = "killed"

BoundaryInv == BoundaryTypes /\ OneScan /\ FuturesExist /\ StoppedAreDead /\ NoOrphanedWaiter

LEMMA EdgesAreReferences ==
    ASSUME NEW f \in BoundaryFiles
    PROVE  EdgesOf(f) \in SUBSET References
<1>1. \A ch \in Channels : Classify(ch, f) \in {"declares", "handles", "emits", "references"}
  BY DEF Classify, SideOf
<1> QED  BY <1>1 DEF EdgesOf, Confirmed, References

LEMMA BoundaryInitially == BoundaryInit => BoundaryInv
<1> SUFFICES ASSUME BoundaryInit PROVE BoundaryInv
  OBVIOUS
<1>1. NewCall \in TracerRecords /\ NewCall.at = "idle"
  BY DEF NewCall, TracerRecords, TracerStates
<1>2. \A c \in Tracers : tracing[c].at = "idle"
  BY <1>1 DEF BoundaryInit
<1>3. BoundaryTypes
  BY <1>1 DEF BoundaryInit, BoundaryTypes
<1>4. OneScan /\ FuturesExist /\ StoppedAreDead /\ NoOrphanedWaiter
  BY <1>2 DEF BoundaryInit, OneScan, FuturesExist, StoppedAreDead, NoOrphanedWaiter, Scanning
<1> QED  BY <1>3, <1>4 DEF BoundaryInv

LEMMA FutureBecomes ==
    ASSUME futures \in Seq(FutureStates), NEW k \in DOMAIN futures, NEW next \in FutureStates,
           futures' = [futures EXCEPT ![k] = next]
    PROVE  /\ futures' \in Seq(FutureStates) /\ Len(futures') = Len(futures)
           /\ \A i \in 1..Len(futures) : i # k => futures'[i] = futures[i]
           /\ futures'[k] = next
<1>1. /\ futures' \in Seq(FutureStates) /\ DOMAIN futures' = DOMAIN futures
      /\ \A i \in DOMAIN futures : futures'[i] = IF i = k THEN next ELSE futures[i]
  OBVIOUS
<1>2. /\ DOMAIN futures' = 1..Len(futures') /\ DOMAIN futures = 1..Len(futures)
      /\ Len(futures') \in Nat /\ Len(futures) \in Nat
  BY <1>1
<1> QED  BY <1>1, <1>2

LEMMA TracerBecomes ==
    ASSUME BoundaryTypes, NEW c \in Tracers, NEW r \in TracerRecords, CallGoes(c, r)
    PROVE  /\ tracing' \in [Tracers -> TracerRecords]
           /\ tracing'[c] = r /\ \A d \in Tracers \ {c} : tracing'[d] = tracing[d]
BY DEF BoundaryTypes, CallGoes

\* A step that leaves the scans, their futures and the waiters alone.
LEMMA TracerMovesOn ==
    ASSUME BoundaryInv, NEW c \in Tracers, NEW r \in TracerRecords,
           r.at \in {"scan", "settle"} <=> tracing[c].at \in {"scan", "settle"},
           r.fut = tracing[c].fut,
           c \notin stopped,
           r.at # "await",
           CallGoes(c, r), table' \in SUBSET References,
           UNCHANGED <<inflight, futures, stopped>>
    PROVE  BoundaryInv'
<1>1. BoundaryTypes'
  BY DEF BoundaryInv, BoundaryTypes, CallGoes, TracerRecords
<1>2. /\ tracing'[c] = r /\ \A d \in Tracers \ {c} : tracing'[d] = tracing[d]
      /\ \A d \in Tracers : tracing'[d].fut = tracing[d].fut
  BY DEF BoundaryInv, BoundaryTypes, CallGoes
<1>3. OneScan' /\ FuturesExist' /\ StoppedAreDead'
  BY <1>2 DEF BoundaryInv, BoundaryTypes, OneScan, FuturesExist, StoppedAreDead, Scanning
<1>4. NoOrphanedWaiter'
  <2> SUFFICES ASSUME NEW d \in Tracers, tracing'[d].at = "await",
                      futures[tracing'[d].fut] = "pending"
               PROVE  OwnerStopped(d)' \/ \E e \in Tracers :
                          tracing'[e].at \in {"scan", "settle"} /\ tracing'[e].fut = tracing'[d].fut
    BY DEF NoOrphanedWaiter
  <2>1. tracing[d].at = "await" /\ futures[tracing[d].fut] = "pending"
    BY <1>2
  <2>2. CASE OwnerStopped(d)
    BY <2>2, <1>2 DEF OwnerStopped, BoundaryInv, BoundaryTypes
  <2>3. CASE \E e \in Tracers : tracing[e].at \in {"scan", "settle"}
                                  /\ tracing[e].fut = tracing[d].fut
    BY <2>3, <1>2
  <2> QED  BY <2>1, <2>2, <2>3 DEF BoundaryInv, NoOrphanedWaiter
<1> QED  BY <1>1, <1>3, <1>4 DEF BoundaryInv

\* Await the rebuild in flight, or own a new one.
LEMMA RefreshKeeps ==
    ASSUME BoundaryInv, NEW c \in Tracers, RefreshBoundaryGraph(c)
    PROVE  BoundaryInv'
<1> USE DEF BoundaryInv
<1>0. /\ c \notin stopped /\ tracing[c] \in TracerRecords /\ tracing[c].at = "refresh"
      /\ UNCHANGED <<table, stopped>>
  BY DEF RefreshBoundaryGraph, StoppedAreDead, BoundaryTypes
<1>1. CASE inflight # 0
  <2> DEFINE r == [tracing[c] EXCEPT !.at = "await", !.fut = inflight]
  <2>1. /\ r \in TracerRecords /\ r.at = "await" /\ r.fut = inflight
    BY <1>0 DEF TracerRecords, TracerStates, BoundaryTypes
  <2>2. CallGoes(c, r) /\ inflight' = inflight /\ futures' = futures
    BY <1>1 DEF RefreshBoundaryGraph
  <2>3. BoundaryTypes'
    BY <1>0, <2>1, <2>2, TracerBecomes DEF BoundaryTypes
  <2>4. /\ tracing'[c].at = "await" /\ tracing'[c].fut = inflight
        /\ \A d \in Tracers \ {c} : tracing'[d] = tracing[d]
    BY <2>1, <2>2, TracerBecomes
  <2>5. PICK o \in Scanning : tracing[o].fut = inflight /\ o # c
    BY <1>0, <1>1 DEF OneScan, Scanning
  <2>6. Scanning' = Scanning
    BY <1>0, <2>4 DEF Scanning
  <2>7. OneScan' /\ StoppedAreDead'
    <3>1. \A d \in Scanning : tracing'[d] = tracing[d]
      BY <1>0, <2>4 DEF Scanning
    <3>2. OneScan'
      BY <2>2, <2>6, <3>1 DEF OneScan
    <3>3. StoppedAreDead'
      BY <1>0, <2>4 DEF StoppedAreDead, BoundaryTypes
    <3> QED  BY <3>2, <3>3
  <2>9. FuturesExist'
    BY <2>2, <2>4, <2>5 DEF Scanning, FuturesExist
  <2>8. NoOrphanedWaiter'
    BY <1>0, <2>2, <2>4, <2>5 DEF NoOrphanedWaiter, OwnerStopped, Scanning, BoundaryTypes
  <2> QED  BY <2>3, <2>7, <2>8, <2>9
<1>2. CASE inflight = 0
  <2> DEFINE n == Len(futures) + 1
             r == [tracing[c] EXCEPT !.at = "scan", !.fut = n, !.left = BoundaryFiles]
  <2>0. n \in Nat /\ Len(futures) \in Nat
    BY DEF BoundaryTypes
  <2>1. /\ r \in TracerRecords /\ r.at = "scan" /\ r.fut = n
    BY <1>0, <2>0 DEF TracerRecords, TracerStates
  <2>2. CallGoes(c, r) /\ inflight' = n /\ futures' = Append(futures, "pending")
    BY <1>2 DEF RefreshBoundaryGraph
  <2>3. /\ futures' \in Seq(FutureStates) /\ Len(futures') = n
        /\ \A i \in 1..Len(futures) : futures'[i] = futures[i]
    BY <2>2 DEF BoundaryTypes, FutureStates
  <2>4. BoundaryTypes'
    BY <1>0, <2>0, <2>1, <2>2, <2>3, TracerBecomes DEF BoundaryTypes
  <2>5. /\ tracing'[c].at = "scan" /\ tracing'[c].fut = n
        /\ \A d \in Tracers \ {c} : tracing'[d] = tracing[d]
    BY <2>1, <2>2, TracerBecomes
  <2>6. Scanning = {}
    BY <1>2 DEF OneScan, FuturesExist, Scanning
  <2>7. Scanning' = {c}
    BY <2>5, <2>6 DEF Scanning
  <2>8. OneScan'
    BY <2>0, <2>2, <2>5, <2>7 DEF OneScan
  <2>9. FuturesExist' /\ StoppedAreDead'
    BY <1>0, <2>0, <2>3, <2>5 DEF FuturesExist, StoppedAreDead, BoundaryTypes
  <2>10. \A d \in Tracers \ {c} : tracing[d].at = "await" =>
             tracing[d].fut \in 1..Len(futures) /\ futures'[tracing[d].fut] = futures[tracing[d].fut]
    BY <2>3 DEF FuturesExist
  <2>11. NoOrphanedWaiter'
    BY <1>0, <2>5, <2>6, <2>10 DEF NoOrphanedWaiter, OwnerStopped, Scanning, BoundaryTypes
  <2> QED  BY <2>4, <2>8, <2>9, <2>11
<1> QED  BY <1>1, <1>2

\* The owner leaves, with its future settled.
LEMMA SettlingKeeps ==
    ASSUME BoundaryInv, NEW c \in Tracers, NEW as \in {"done", "failed"},
           NEW at \in {"trace", "answered"},
           tracing[c].at \in {"scan", "settle"}, Settles(tracing[c].fut, as),
           CallGoes(c, [tracing[c] EXCEPT !.at = at]),
           UNCHANGED <<table, stopped>>
    PROVE  BoundaryInv'
<1> USE DEF BoundaryInv
<1> DEFINE n == tracing[c].fut
           r == [tracing[c] EXCEPT !.at = at]
<1>0. /\ c \notin stopped /\ n \in 1..Len(futures) /\ tracing[c] \in TracerRecords
      /\ futures \in Seq(FutureStates) /\ n \in DOMAIN futures
  BY DEF StoppedAreDead, FuturesExist, BoundaryTypes
<1>1. r \in TracerRecords /\ r.at = at /\ r.fut = n
  BY <1>0 DEF TracerRecords, TracerStates
<1>2. /\ inflight' = 0
      /\ futures' \in Seq(FutureStates) /\ Len(futures') = Len(futures)
      /\ futures'[n] # "pending"
      /\ \A i \in 1..Len(futures) : i # n => futures'[i] = futures[i]
  <2>1. CASE futures[n] = "pending"
    <3>1. futures' = [futures EXCEPT ![n] = as] /\ as \in FutureStates /\ inflight' = 0
          /\ as # "pending"
      BY <2>1 DEF Settles, FutureStates
    <3>2. /\ futures' \in Seq(FutureStates) /\ Len(futures') = Len(futures)
          /\ \A i \in 1..Len(futures) : i # n => futures'[i] = futures[i]
          /\ futures'[n] = as
      <4>1. futures \in Seq(FutureStates) /\ n \in DOMAIN futures
        BY <1>0
      <4>2. as \in FutureStates /\ futures' = [futures EXCEPT ![n] = as]
        BY <3>1
      <4> QED  BY <4>1, <4>2, FutureBecomes
    <3> QED  BY <3>1, <3>2
  <2>2. CASE futures[n] # "pending"
    BY <1>0, <2>2 DEF Settles
  <2> QED  BY <2>1, <2>2
<1>3. BoundaryTypes'
  BY <1>1, <1>2, TracerBecomes DEF BoundaryTypes
<1>4. /\ tracing'[c].at = at /\ tracing'[c].fut = n
      /\ \A d \in Tracers \ {c} : tracing'[d] = tracing[d]
  BY <1>1, TracerBecomes
<1>5. Scanning' = {}
  BY <1>4 DEF OneScan, Scanning
<1>6. OneScan' /\ FuturesExist' /\ StoppedAreDead'
  BY <1>0, <1>2, <1>4, <1>5 DEF OneScan, FuturesExist, StoppedAreDead, BoundaryTypes
<1>7. \A d \in Scanning : d = c
  BY DEF OneScan, Scanning
<1>8. \A d \in Tracers \ {c} :
          tracing[d].at = "await" /\ futures'[tracing[d].fut] = "pending" =>
              tracing[d].fut # n /\ futures[tracing[d].fut] = "pending"
  BY <1>0, <1>2 DEF FuturesExist
<1>9. NoOrphanedWaiter'
  BY <1>0, <1>4, <1>7, <1>8 DEF NoOrphanedWaiter, OwnerStopped, Scanning, BoundaryTypes
<1> QED  BY <1>3, <1>6, <1>9

LEMMA TracerKeeps ==
    ASSUME BoundaryInv, NEW c \in Tracers, TracerSteps(c)
    PROVE  BoundaryInv'
<1>0. /\ tracing[c] \in TracerRecords
      /\ tracing[c].at # "killed" => c \notin stopped
      /\ table \in SUBSET References
  BY DEF BoundaryInv, BoundaryTypes, StoppedAreDead, TracerRecords
<1> USE <1>0 DEF TracerRecords, TracerStates
<1>1. CASE GetBoundaryEdges(c)
  BY <1>1, TracerMovesOn DEF GetBoundaryEdges
<1>2. CASE ReadCapped(c)
  <2> PICK f \in tracing[c].left :
          CallGoes(c, [tracing[c] EXCEPT !.left = @ \ {f}, !.found = @ \cup EdgesOf(f)])
    BY <1>2 DEF ReadCapped
  <2>1. EdgesOf(f) \in SUBSET References
    BY EdgesAreReferences
  <2> DEFINE r == [tracing[c] EXCEPT !.left = @ \ {f}, !.found = @ \cup EdgesOf(f)]
  <2>2. r \in TracerRecords /\ r.at = tracing[c].at /\ r.fut = tracing[c].fut
    BY <2>1
  <2> QED  BY <1>2, <2>2, TracerMovesOn DEF ReadCapped
<1>3. CASE ReplaceBoundaryEdges(c)
  BY <1>3, TracerMovesOn DEF ReplaceBoundaryEdges
<1>4. CASE SetResult(c)
  BY <1>4, SettlingKeeps DEF SetResult
<1>5. CASE ScanFails(c)
  BY <1>5, SettlingKeeps DEF ScanFails
<1>6. CASE AwaitReturns(c)
  BY <1>6, TracerMovesOn DEF AwaitReturns
<1>7. CASE TraceBoundary(c)
  BY <1>7, TracerMovesOn DEF TraceBoundary
<1> QED  BY <1>1, <1>2, <1>3, <1>4, <1>5, <1>6, <1>7, RefreshKeeps DEF TracerSteps

\* A Stop: an owner leaves the registry and takes the blame, a waiter takes the
\* future along.
LEMMA CancelKeeps ==
    ASSUME BoundaryInv, NEW c \in Tracers, CancelTracer(c)
    PROVE  BoundaryInv'
<1> USE DEF BoundaryInv
<1> DEFINE n == tracing[c].fut
           r == [tracing[c] EXCEPT !.at = "killed"]
<1>0. /\ tracing[c] \in TracerRecords /\ futures \in Seq(FutureStates)
      /\ table' = table /\ stopped' = stopped \cup {c} /\ CallGoes(c, r)
      /\ inflight' = IF tracing[c].at \in {"scan", "settle"} THEN 0 ELSE inflight
  BY DEF BoundaryTypes, CancelTracer
<1>1. r \in TracerRecords /\ r.at = "killed" /\ r.fut = n
  BY <1>0 DEF TracerRecords, TracerStates
<1>2. /\ futures' \in Seq(FutureStates) /\ Len(futures') = Len(futures)
      /\ \A i \in 1..Len(futures) : futures'[i] = "pending" => futures[i] = "pending"
  <2>1. CASE tracing[c].at = "await" /\ futures[n] = "pending"
    <3>1. /\ futures' = [futures EXCEPT ![n] = "cancelled"] /\ "cancelled" \in FutureStates
          /\ n \in 1..Len(futures)
      BY <2>1 DEF CancelTracer, FutureStates, FuturesExist
    <3> QED  BY <1>0, <3>1, FutureBecomes
  <2>2. CASE ~(tracing[c].at = "await" /\ futures[n] = "pending")
    BY <1>0, <2>2 DEF CancelTracer
  <2> QED  BY <2>1, <2>2
<1>3. BoundaryTypes'
  BY <1>0, <1>1, <1>2, TracerBecomes DEF BoundaryTypes
<1>4. /\ tracing'[c].at = "killed" /\ tracing'[c].fut = n
      /\ \A d \in Tracers \ {c} : tracing'[d] = tracing[d]
  BY <1>0, <1>1, TracerBecomes
<1>5. Scanning' = Scanning \ {c}
  BY <1>4 DEF Scanning
<1>6. OneScan'
  BY <1>0, <1>4, <1>5 DEF OneScan, Scanning
<1>7. FuturesExist' /\ StoppedAreDead'
  BY <1>0, <1>2, <1>4 DEF FuturesExist, StoppedAreDead, BoundaryTypes
<1>8. NoOrphanedWaiter'
  <2> SUFFICES ASSUME NEW d \in Tracers, tracing'[d].at = "await",
                      futures'[tracing'[d].fut] = "pending"
               PROVE  OwnerStopped(d)' \/ \E e \in Tracers :
                          tracing'[e].at \in {"scan", "settle"} /\ tracing'[e].fut = tracing'[d].fut
    BY DEF NoOrphanedWaiter
  <2>1. d # c /\ tracing'[d] = tracing[d] /\ futures[tracing[d].fut] = "pending"
    BY <1>2, <1>4 DEF FuturesExist
  <2>2. CASE OwnerStopped(d)
    BY <2>1, <2>2, <1>0, <1>4 DEF OwnerStopped, BoundaryTypes
  <2>3. CASE \E e \in Tracers : tracing[e].at \in {"scan", "settle"}
                                  /\ tracing[e].fut = tracing[d].fut
    BY <2>1, <2>3, <1>0, <1>4 DEF OwnerStopped
  <2> QED  BY <2>1, <2>2, <2>3 DEF NoOrphanedWaiter
<1> QED  BY <1>3, <1>6, <1>7, <1>8

\* A caller that waits for another's rebuild of the boundary graph holds a future
\* that is settled or whose scan is still at work, whatever scans fail and files are
\* saved meanwhile, unless a task that shares the future was stopped
\* (the single-flight future of boundary_graph.py:162).
THEOREM WaitersAreServed == BoundarySpec => []NoOrphanedWaiter
<1>1. ASSUME BoundaryInv, [BoundaryNext]_boundaryVars
      PROVE  BoundaryInv'
  <2>1. CASE SaveQuotes \/ UNCHANGED boundaryVars
    BY <1>1, <2>1 DEF BoundaryInv, BoundaryTypes, OneScan, FuturesExist, StoppedAreDead,
       NoOrphanedWaiter, Scanning, OwnerStopped, SaveQuotes, boundaryVars
  <2> QED  BY <1>1, <2>1, TracerKeeps, CancelKeeps DEF BoundaryNext
<1>2. BoundaryInv => NoOrphanedWaiter
  BY DEF BoundaryInv
<1> QED  BY BoundaryInitially, <1>1, <1>2, PTL DEF BoundarySpec

(****************************************************************************)
(* The incremental index (Index)                                            *)
(*                                                                          *)
(* For every number of files, crawlers, saves and failures: at rest, a file *)
(* that was told of and not spoiled agrees with the disk.                   *)
(****************************************************************************)

\* What an event says of a file, and where the flight can be with it.
Whats == {Unlink, Reread}
WriteSteps == {"deps", "row", "vector", "chunks"}
PurgeSteps == {"unlink", "unlink vectors"}
Flights == [step : {"gate"} \cup WriteSteps \cup PurgeSteps, file : Paths, text : Revisions \cup Whats]
Events == [file : Paths, what : Whats]
Mass == Event(Absent, "mass")
StoreSteps == {"row", "deps", "vector", "chunks"}
Crawling == [step : StoreSteps \cup {"off", "preflight", "erring", "next"}, todo : SUBSET Paths,
             file : Paths \cup {Absent}, text : Revisions \cup {Absent}]
IsTable(t) == t = [f \in Paths |-> t[f]]
Tables == IsTable(fileBreaker) /\ IsTable(row) /\ IsTable(depEdges) /\ IsTable(vector) /\ IsTable(chunks)

\* A flight purges what an unlink told of; whatever else it writes are bytes.
FlightShape ==
    /\ flight \in Flights \cup {NoFlight}
    /\ flight.step \in PurgeSteps <=> flight.text = Unlink
    /\ flight.step \in WriteSteps => flight.text \in Revisions

BreakersOpenFull ==
    \A f \in Paths :
        /\ fileBreaker[f] = [failures |-> fileBreaker[f].failures, open |-> fileBreaker[f].open]
        /\ fileBreaker[f].open => ~(fileBreaker[f].failures < FailThreshold)

IndexTypes ==
    /\ disk \in [Paths -> Revisions \cup {Absent}]
    /\ window \in Seq(Events) /\ batch \in Seq(Events \cup {Mass})
    /\ FlightShape
    /\ Tables
    /\ BreakersOpenFull
    /\ crawl \in [Crawlers -> Crawling]
    /\ analytics.step = "off" => analytics.seen = {}

\* A window is collected only while the timer sleeps, and only a flush that
\* dispatches has a batch and flies.
FlushKeepsTime ==
    /\ timer \in {"none", "sleep", "dispatch"}
    /\ timer # "sleep" => window = <<>>
    /\ timer # "dispatch" => batch = <<>> /\ flight = NoFlight

\* An event says of a file that was told of what the disk does, and so does the
\* flight it became.
Tells(f, what) == what = Unlink <=> disk[f] = Absent
EventsTell(q) == \A i \in DOMAIN q : q[i].file \in Paths \ unseen => Tells(q[i].file, q[i].what)
FlightTells ==
    flight.file \in Paths \ unseen =>
        /\ Tells(flight.file, flight.text)
        /\ flight.step \in WriteSteps => flight.text = disk[flight.file]
Told == EventsTell(window) /\ EventsTell(batch) /\ FlightTells

\* What was written of a file from the bytes c; a score is there or due.
Due(f) == analytics.step = "sleep" \/ f \in scores \cup analytics.seen
DepsFit(f, c) == Imports[c] => depEdges[f] = c /\ Due(f)
VectorFits(f, c) == Size[c] # "small" => vector[f] = c
ChunksFit(f, c) == Size[c] = "large" => chunks[f] = c

\* The stores agree with the row: what its hash vouches for is there.
Coherent(f) ==
    \/ row[f] = NoRow /\ depEdges[f] = Absent /\ vector[f] = Absent /\ chunks[f] = Absent
    \/ row[f] \in Revisions /\ DepsFit(f, row[f]) /\ VectorFits(f, row[f]) /\ ChunksFit(f, row[f])

\* How far the flush has come with the file it flies.
FlightFits(f) ==
    LET c == flight.text
    IN  /\ flight.step = "gate" => Coherent(f)
        /\ flight.step \in {"row", "vector", "chunks"} => DepsFit(f, c)
        /\ flight.step \in {"vector", "chunks"} => row[f] = c
        /\ flight.step = "chunks" => VectorFits(f, c) /\ HasChunks(c)
        /\ flight.step = "unlink vectors" => row[f] = NoRow /\ depEdges[f] = Absent

Awaited(f) == Holds(window, f) \/ Holds(batch, f) \/ flight.file = f
RowFits(f) == row[f] = IF disk[f] = Absent THEN NoRow ELSE disk[f]

\* A file that is not spoiled: nothing else writes it, no breaker sheds it, its
\* stores fit, and its row is that of the disk unless an event of it still waits.
FileFits(f) ==
    /\ ~Interfered(f)
    /\ fileBreaker[f].open => flight.file = f /\ flight.step = "unlink vectors"
    /\ IF flight.file = f THEN FlightFits(f) ELSE Coherent(f)
    /\ f \notin unseen /\ ~Awaited(f) => RowFits(f)

IndexInv == IndexTypes /\ FlushKeepsTime /\ Told /\ \A f \in Paths \ spoiled : FileFits(f)

LEMMA Sentinels ==
    /\ Absent \notin Paths
    /\ {Absent, Unlink, Reread, NoRow, Unhashed} \cap Revisions = {}
    /\ Absent # Unlink /\ Absent # Reread /\ Unlink # Reread /\ "mass" \notin Whats
    /\ NoFlight \notin Flights
    /\ NoFlight.file = Absent /\ NoFlight.step = "idle" /\ NoFlight.text = Absent
BY IndexAssumption DEF Absent, Unlink, Reread, NoRow, Unhashed, Whats, NoFlight, Flights

\* The stores say of a file what they said, and nothing new threatens it.
Kept(f) ==
    /\ row'[f] = row[f] /\ depEdges'[f] = depEdges[f]
    /\ vector'[f] = vector[f] /\ chunks'[f] = chunks[f]
    /\ depEdges[f] # Absent /\ Due(f) => Due(f)'
    /\ fileBreaker'[f].open => fileBreaker[f].open
    /\ Interfered(f)' => Interfered(f)

LEMMA CoherentKept ==
    ASSUME NEW f \in Paths, Coherent(f), Kept(f)
    PROVE  Coherent(f)'
<1>1. CASE row[f] = NoRow /\ depEdges[f] = Absent /\ vector[f] = Absent /\ chunks[f] = Absent
  BY <1>1 DEF Coherent, Kept
<1>2. CASE row[f] \in Revisions /\ DepsFit(f, row[f]) /\ VectorFits(f, row[f]) /\ ChunksFit(f, row[f])
  <2>1. PICK c \in Revisions : c = row[f]
    BY <1>2
  <2>2. row'[f] = c /\ DepsFit(f, c) /\ VectorFits(f, c) /\ ChunksFit(f, c)
    BY <1>2, <2>1 DEF Kept
  <2>3. DepsFit(f, c)'
    BY <2>2, Sentinels DEF DepsFit, Kept
  <2>4. VectorFits(f, c)' /\ ChunksFit(f, c)'
    BY <2>2 DEF VectorFits, ChunksFit, Kept
  <2> QED  BY <2>2, <2>3, <2>4 DEF Coherent
<1> QED  BY <1>1, <1>2 DEF Coherent

\* A file the step leaves alone.
LEMMA FileKept ==
    ASSUME NEW f \in Paths, FileFits(f), FlightShape, Kept(f),
           flight'.file = f <=> flight.file = f,
           flight.file = f => flight' = flight,
           f \notin unseen' /\ ~Awaited(f)' => f \notin unseen /\ ~Awaited(f) /\ disk'[f] = disk[f]
    PROVE  FileFits(f)'
<1>1. ~Interfered(f)' /\ (fileBreaker'[f].open => flight'.file = f /\ flight'.step = "unlink vectors")
  BY DEF FileFits, Kept
<1>2. IF flight'.file = f THEN FlightFits(f)' ELSE Coherent(f)'
  <2>1. CASE flight.file # f
    BY <2>1, CoherentKept DEF FileFits
  <2>2. CASE flight.file = f
    <3>1. PICK c : c = flight.text
      OBVIOUS
    <3>2. FlightFits(f) /\ flight' = flight
      BY <2>2 DEF FileFits
    <3>3. flight.step \in {"row", "vector", "chunks"} => c \in Revisions
      BY <3>1 DEF FlightShape, WriteSteps
    <3>4. flight.step = "gate" => Coherent(f)'
      BY <3>2, CoherentKept DEF FlightFits
    <3>5. flight.step \in {"row", "vector", "chunks"} => DepsFit(f, c)'
      BY <3>1, <3>2, <3>3, Sentinels DEF FlightFits, DepsFit, Kept
    <3>6. flight.step = "chunks" => VectorFits(f, c)'
      BY <3>1, <3>2 DEF FlightFits, VectorFits, Kept
    <3> QED  BY <2>2, <3>1, <3>2, <3>4, <3>5, <3>6 DEF FlightFits, Kept
  <2> QED  BY <2>1, <2>2
<1>3. f \notin unseen' /\ ~Awaited(f)' => RowFits(f)'
  BY DEF FileFits, RowFits, Kept
<1> QED  BY <1>1, <1>2, <1>3 DEF FileFits

\* A step beside the flush.
LEMMA Beside ==
    ASSUME IndexInv, UNCHANGED <<disk, window, timer, batch, flight, unseen>>, Tables', BreakersOpenFull',
           crawl' \in [Crawlers -> Crawling], analytics'.step = "off" => analytics'.seen = {},
           \A f \in Paths \ spoiled' : f \notin spoiled /\ Kept(f)
    PROVE  IndexInv'
<1>1. IndexTypes'
  BY DEF IndexInv, IndexTypes, FlightShape
<1>2. FlushKeepsTime'
  BY DEF IndexInv, FlushKeepsTime
<1>3. Told'
  BY DEF IndexInv, Told, EventsTell, FlightTells, Tells
<1>4. ASSUME NEW f \in Paths \ spoiled' PROVE FileFits(f)'
  <2>1. FileFits(f) /\ FlightShape /\ Kept(f)
    BY DEF IndexInv, IndexTypes
  <2>2. Awaited(f)' <=> Awaited(f)
    BY DEF Awaited, Holds
  <2> QED  BY <2>1, <2>2, FileKept
<1> QED  BY <1>1, <1>2, <1>3, <1>4 DEF IndexInv

(***************************************************************************)
(* The coalescer.                                                          *)
(***************************************************************************)
LEMMA PutPuts ==
    ASSUME NEW q \in Seq(Events), NEW f \in Paths, NEW what \in Whats, NEW p, p = Put(q, f, what)
    PROVE  /\ p \in Seq(Events)
           /\ \A g : Holds(p, g) <=> Holds(q, g) \/ g = f
           /\ \A i \in DOMAIN p : \/ p[i].file = f /\ p[i].what = what
                                  \/ p[i].file # f /\ \E j \in DOMAIN q : q[j] = p[i]
<1>0. PICK e : e = Event(f, what)
  OBVIOUS
<1>1. e \in Events /\ e.file = f /\ e.what = what
  BY <1>0 DEF Events, Event
<1>2. CASE Holds(q, f)
  <2>1. p = [i \in DOMAIN q |-> IF q[i].file = f THEN e ELSE q[i]]
    BY <1>0, <1>2 DEF Put
  <2>3. p \in Seq(Events) /\ DOMAIN p = DOMAIN q
        /\ \A i \in DOMAIN q : p[i] = IF q[i].file = f THEN e ELSE q[i]
    BY <1>1, <2>1
  <2>4. \A g : Holds(p, g) <=> Holds(q, g) \/ g = f
    BY <1>1, <1>2, <2>3 DEF Holds
  <2>5. \A i \in DOMAIN p : \/ p[i].file = f /\ p[i].what = what
                            \/ p[i].file # f /\ \E j \in DOMAIN q : q[j] = p[i]
    BY <1>1, <2>3
  <2> QED  BY <2>3, <2>4, <2>5
<1>3. CASE ~Holds(q, f)
  <2>1. p = Append(q, e)
    BY <1>0, <1>3 DEF Put
  <2>3. p \in Seq(Events) /\ Len(p) = Len(q) + 1 /\ p[Len(q) + 1] = e
        /\ \A i \in 1 .. Len(q) : p[i] = q[i]
    BY <1>1, <2>1
  <2>4. Len(q) \in Nat /\ DOMAIN q = 1 .. Len(q) /\ DOMAIN p = 1 .. Len(q) + 1
    BY <2>3
  <2>5. \A g : Holds(p, g) <=> Holds(q, g) \/ g = f
    <3>1. \A i \in DOMAIN p : i \in DOMAIN q \/ i = Len(q) + 1
      BY <2>4
    <3>2. \A i \in DOMAIN q : i \in DOMAIN p
      BY <2>4
    <3>3. Len(q) + 1 \in DOMAIN p
      BY <2>4
    <3> QED  BY <1>1, <2>3, <2>4, <3>1, <3>2, <3>3 DEF Holds
  <2>6. \A i \in DOMAIN p : \/ p[i].file = f /\ p[i].what = what
                            \/ p[i].file # f /\ \E j \in DOMAIN q : q[j] = p[i]
    <3> SUFFICES ASSUME NEW i \in DOMAIN p
                 PROVE  \/ p[i].file = f /\ p[i].what = what
                        \/ p[i].file # f /\ \E j \in DOMAIN q : q[j] = p[i]
      OBVIOUS
    <3>1. CASE i \in DOMAIN q
      BY <1>3, <2>3, <2>4, <3>1 DEF Holds
    <3>2. CASE i = Len(q) + 1
      BY <1>1, <2>3, <3>2
    <3> QED  BY <2>4, <3>1, <3>2
  <2> QED  BY <2>3, <2>5, <2>6
<1> QED  BY <1>2, <1>3

\* A submit: the new window holds every file told of, as the disk now has it.  A
\* flush that was dispatching is cut off, and spoils what it had still to do.
LEMMA SubmitKeeps ==
    ASSUME IndexInv, NEW q \in Seq(Events), NEW named, Submit(q, named),
           disk' \in [Paths -> Revisions \cup {Absent}],
           \A f \in Paths : Holds(window, f) \/ f \in named => Holds(q, f),
           \A f \in Paths \ named : disk'[f] = disk[f],
           EventsTell(q)'
    PROVE  IndexInv'
<1>0. batch' = <<>>
  BY DEF Submit, Rearm
<1>1. /\ window' = q /\ timer' = "sleep" /\ batch' = <<>> /\ flight' = NoFlight
      /\ stray' = IF flight.step \in {"vector", "chunks", "unlink vectors"} THEN stray \cup {flight} ELSE stray
      /\ spoiled' = spoiled \cup {f \in Paths : Holds(batch, f) \/ flight.file = f}
      /\ unseen' = unseen \ named
      /\ UNCHANGED <<fileBreaker, crawl, latch, backfill, analytics, indexStores>>
  BY DEF Submit, Rearm, Spoil
<1>2. IndexTypes'
  <2>1. FlightShape'
    BY <1>1, Sentinels DEF FlightShape, PurgeSteps, WriteSteps
  <2>2. <<>> \in Seq(Events \cup {Mass})
    OBVIOUS
  <2>3. batch' \in Seq(Events \cup {Mass})
    BY <1>0, <2>2, Zenon
  <2> QED  BY <1>1, <2>1, <2>3 DEF IndexInv, IndexTypes, Tables, IsTable, BreakersOpenFull, indexStores
<1>3. FlushKeepsTime'
  BY <1>1 DEF FlushKeepsTime
<1>4. Told'
  <2>1. EventsTell(batch)'
    <3>1. DOMAIN <<>> = {}
      OBVIOUS
    <3>2. DOMAIN batch' = {}
      BY <1>0, <3>1, Zenon
    <3> QED  BY <3>2 DEF EventsTell
  <2>3. EventsTell(window)'
    <3>1. \A i \in DOMAIN q : q[i].file \in Paths \ unseen' => (q[i].what = Unlink <=> disk'[q[i].file] = Absent)
      BY DEF EventsTell, Tells
    <3>2. window' = q
      BY <1>1
    <3> QED  BY <3>1, <3>2 DEF EventsTell, Tells
  <2>2. FlightTells'
    BY <1>1, Sentinels DEF FlightTells
  <2> QED  BY <2>1, <2>2, <2>3 DEF Told
<1>5. ASSUME NEW f \in Paths \ spoiled' PROVE FileFits(f)'
  <2>1. f \notin spoiled /\ ~Holds(batch, f) /\ flight.file # f
    BY <1>1
  <2>2. FileFits(f) /\ FlightShape
    BY <2>1 DEF IndexInv, IndexTypes
  <2>3. Interfered(f)' => Interfered(f)
    BY <1>1, <2>1 DEF Interfered
  <2>4. Kept(f)
    BY <1>1, <2>3 DEF Kept, Due, indexStores
  <2>5. flight'.file # f
    BY <1>1, Sentinels
  <2>6. f \notin unseen' /\ ~Awaited(f)' => f \notin unseen /\ ~Awaited(f) /\ disk'[f] = disk[f]
    <3> SUFFICES ASSUME f \notin unseen', ~Awaited(f)'
                 PROVE  f \notin unseen /\ ~Awaited(f) /\ disk'[f] = disk[f]
      OBVIOUS
    <3>1. ~Holds(q, f)
      BY <1>1 DEF Awaited
    <3> QED  BY <1>1, <2>1, <3>1 DEF Awaited
  <2> QED  BY <2>1, <2>2, <2>4, <2>5, <2>6, FileKept
<1> QED  BY <1>2, <1>3, <1>4, <1>5 DEF IndexInv

\* One event put into the window: the rest tell of files that stayed as they were.
LEMMA PutTells ==
    ASSUME NEW p \in Seq(Events), NEW f \in Paths, NEW what \in Whats, NEW q, q = Put(p, f, what),
           Tells(f, what)',
           \A i \in DOMAIN p : p[i].file \in Paths \ (unseen' \cup {f}) => Tells(p[i].file, p[i].what)'
    PROVE  EventsTell(q)'
<1>1. \A i \in DOMAIN q : \/ q[i].file = f /\ q[i].what = what
                          \/ q[i].file # f /\ \E j \in DOMAIN p : p[j] = q[i]
  BY PutPuts
<1>2. ASSUME NEW i \in DOMAIN q, q[i].file \in Paths \ unseen' PROVE Tells(q[i].file, q[i].what)'
  <2>1. CASE q[i].file = f /\ q[i].what = what
    BY <2>1
  <2>2. CASE q[i].file # f /\ \E j \in DOMAIN p : p[j] = q[i]
    BY <1>2, <2>2
  <2> QED  BY <1>1, <2>1, <2>2
<1> QED  BY <1>2 DEF EventsTell, Tells

LEMMA ChangeKeeps ==
    ASSUME IndexInv, NEW f \in Paths, NEW c \in Revisions \cup {Absent}, NEW what \in Whats,
           what = Unlink <=> c = Absent,
           disk' = [disk EXCEPT ![f] = c], NEW q, q = Put(window, f, what), Submit(q, {f})
    PROVE  IndexInv'
<1>1. window \in Seq(Events) /\ disk \in [Paths -> Revisions \cup {Absent}]
  BY DEF IndexInv, IndexTypes
<1>2. /\ disk' \in [Paths -> Revisions \cup {Absent}]
      /\ disk'[f] = c /\ \A g \in Paths \ {f} : disk'[g] = disk[g]
  BY <1>1
<1>3. q \in Seq(Events) /\ \A g : Holds(q, g) <=> Holds(window, g) \/ g = f
  BY <1>1, PutPuts
<1>4. Tells(f, what)'
  BY <1>2 DEF Tells
<1>p. PICK p \in Seq(Events) : p = window
  BY <1>1
<1>5. ASSUME NEW i \in DOMAIN p, p[i].file \in Paths \ (unseen' \cup {f})
      PROVE  Tells(p[i].file, p[i].what)'
  <2>1. unseen' = unseen \ {f}
    BY DEF Submit
  <2>2. PICK g : g = p[i].file
    OBVIOUS
  <2>3. g \in Paths \ {f} /\ g \notin unseen
    BY <1>5, <2>1, <2>2
  <2>4. Tells(g, p[i].what)
    BY <1>p, <2>2, <2>3 DEF IndexInv, Told, EventsTell
  <2> QED  BY <1>2, <2>2, <2>3, <2>4 DEF Tells
<1>6. EventsTell(q)'
  BY <1>p, <1>4, <1>5, PutTells
<1> QED  BY <1>2, <1>3, <1>6, SubmitKeeps

LEMMA SaveKeeps ==
    ASSUME IndexInv, NEW f \in Paths, NEW c \in Revisions, Save(f, c)
    PROVE  IndexInv'
<1>1. PICK q, what : what = Reread /\ q = Put(window, f, what)
  OBVIOUS
<1>2. /\ c \in Revisions \cup {Absent} /\ what \in Whats /\ (what = Unlink <=> c = Absent)
      /\ disk' = [disk EXCEPT ![f] = c] /\ Submit(q, {f})
  BY <1>1, Sentinels DEF Save, Whats
<1> QED  BY <1>1, <1>2, ChangeKeeps

LEMMA DeleteKeeps ==
    ASSUME IndexInv, NEW f \in Paths, Delete(f)
    PROVE  IndexInv'
<1>1. PICK q, what, c : what = Unlink /\ c = Absent /\ q = Put(window, f, what)
  OBVIOUS
<1>2. /\ c \in Revisions \cup {Absent} /\ what \in Whats /\ (what = Unlink <=> c = Absent)
      /\ disk' = [disk EXCEPT ![f] = c] /\ Submit(q, {f})
  BY <1>1 DEF Delete, Whats
<1> QED  BY <1>1, <1>2, ChangeKeeps

LEMMA RenameKeeps ==
    ASSUME IndexInv, NEW f \in Paths, NEW to \in Paths, Rename(f, to)
    PROVE  IndexInv'
<1>a. PICK u : u = Unlink
  OBVIOUS
<1>b. PICK w : w = Reread
  OBVIOUS
<1>1. u = Unlink /\ w = Reread /\ u \in Whats /\ w \in Whats
  BY <1>a, <1>b DEF Whats
<1>0. PICK p : p = Put(window, f, u)
  OBVIOUS
<1>2. PICK q : q = Put(p, to, w)
  OBVIOUS
<1>3. /\ disk[f] # Absent /\ disk[to] = Absent /\ f # to
      /\ disk' = [disk EXCEPT ![f] = Absent, ![to] = disk[f]] /\ Submit(q, {f, to})
  BY <1>0, <1>1, <1>2 DEF Rename
<1>4. window \in Seq(Events) /\ disk \in [Paths -> Revisions \cup {Absent}]
  BY DEF IndexInv, IndexTypes
<1>5. /\ p \in Seq(Events)
      /\ \A g : Holds(p, g) <=> Holds(window, g) \/ g = f
      /\ \A i \in DOMAIN p : \/ p[i].file = f /\ p[i].what = u
                             \/ p[i].file # f /\ \E j \in DOMAIN window : window[j] = p[i]
  <2>1. window \in Seq(Events) /\ u \in Whats
    BY <1>1, <1>4
  <2> QED  BY <1>0, <2>1, PutPuts
<1>6. q \in Seq(Events) /\ \A g : Holds(q, g) <=> Holds(p, g) \/ g = to
  BY <1>1, <1>2, <1>5, PutPuts
<1>7. /\ disk' \in [Paths -> Revisions \cup {Absent}]
      /\ disk'[f] = Absent /\ disk'[to] = disk[f]
      /\ \A g \in Paths \ {f, to} : disk'[g] = disk[g]
  BY <1>3, <1>4
<1>8. Tells(f, u)' /\ Tells(to, w)'
  BY <1>1, <1>3, <1>7, Sentinels DEF Tells
<1>9. unseen' = unseen \ {f, to}
  BY <1>3 DEF Submit
<1>10. ASSUME NEW i \in DOMAIN p, p[i].file \in Paths \ (unseen' \cup {to})
       PROVE  Tells(p[i].file, p[i].what)'
  <2>1. \/ p[i].file = f /\ p[i].what = u
        \/ p[i].file # f /\ \E j \in DOMAIN window : window[j] = p[i]
    BY <1>5
  <2>2. CASE p[i].file = f /\ p[i].what = u
    BY <1>8, <2>2
  <2>3. CASE p[i].file # f /\ \E j \in DOMAIN window : window[j] = p[i]
    BY <1>7, <1>9, <1>10, <2>3 DEF IndexInv, Told, EventsTell, Tells
  <2> QED  BY <2>1, <2>2, <2>3
<1>11. EventsTell(q)'
  BY <1>1, <1>2, <1>5, <1>8, <1>10, PutTells
<1> QED  BY <1>3, <1>5, <1>6, <1>7, <1>11, SubmitKeeps

\* A change nobody told of: the file waits for its next event.
LEMMA LoseEventKeeps ==
    ASSUME IndexInv, NEW f \in Paths, NEW c \in Revisions \cup {Absent}, LoseEvent(f, c)
    PROVE  IndexInv'
<1>1. /\ disk' = [disk EXCEPT ![f] = c] /\ unseen' = unseen \cup {f}
      /\ UNCHANGED <<window, timer, batch, flight, fileBreaker, crawl, latch, backfill,
                     analytics, indexStores, stray, spoiled>>
  BY DEF LoseEvent
<1>2. /\ disk' \in [Paths -> Revisions \cup {Absent}]
      /\ \A g \in Paths \ {f} : disk'[g] = disk[g]
  BY <1>1 DEF IndexInv, IndexTypes
<1>3. IndexTypes' /\ FlushKeepsTime'
  BY <1>1, <1>2 DEF IndexInv, IndexTypes, FlightShape, Tables, IsTable, BreakersOpenFull,
                    indexStores, FlushKeepsTime
<1>4. Told'
  <2>1. EventsTell(window)' /\ EventsTell(batch)'
    BY <1>1, <1>2 DEF IndexInv, Told, EventsTell, Tells
  <2>2. FlightTells'
    BY <1>1, <1>2 DEF IndexInv, Told, FlightTells, Tells
  <2> QED  BY <2>1, <2>2 DEF Told
<1>5. ASSUME NEW g \in Paths \ spoiled' PROVE FileFits(g)'
  <2>1. FileFits(g) /\ FlightShape
    BY <1>1 DEF IndexInv, IndexTypes
  <2>2. Kept(g)
    BY <1>1 DEF Kept, Due, Interfered, indexStores
  <2>3. g \notin unseen' /\ ~Awaited(g)' => g \notin unseen /\ ~Awaited(g) /\ disk'[g] = disk[g]
    BY <1>1, <1>2 DEF Awaited, Holds
  <2> QED  BY <1>1, <2>1, <2>2, <2>3, FileKept
<1> QED  BY <1>3, <1>4, <1>5 DEF IndexInv

(***************************************************************************)
(* The flight.                                                             *)
(***************************************************************************)
LEMMA InFlight ==
    ASSUME IndexInv, flight.step \in {"gate"} \cup WriteSteps \cup PurgeSteps
    PROVE  /\ flight \in Flights /\ flight.file \in Paths /\ flight.file # Absent
           /\ FlightShape /\ FlightTells /\ Tables /\ BreakersOpenFull
           /\ analytics.step = "off" => analytics.seen = {}
           /\ flight.file \notin spoiled => FileFits(flight.file) /\ FlightFits(flight.file)
<1>1. flight # NoFlight /\ flight \in Flights /\ flight.file \in Paths
  BY Sentinels DEF IndexInv, IndexTypes, FlightShape, Flights, WriteSteps, PurgeSteps
<1>2. flight.file \notin spoiled => FileFits(flight.file) /\ FlightFits(flight.file)
  BY <1>1 DEF IndexInv, FileFits
<1> QED  BY <1>1, <1>2, Sentinels DEF IndexInv, IndexTypes, Told

\* What a step of the flight leaves alone: the other files, and what else there is.
Aside(g) ==
    /\ UnchangedByFlights
    /\ Tables' /\ BreakersOpenFull'
    /\ analytics'.step = "off" => analytics'.seen = {}
    /\ \A f \in Paths \ {g} :
           /\ f \in spoiled => f \in spoiled'
           /\ row'[f] = row[f] /\ depEdges'[f] = depEdges[f]
           /\ vector'[f] = vector[f] /\ chunks'[f] = chunks[f]
           /\ depEdges[f] # Absent /\ Due(f) => Due(f)'
           /\ fileBreaker'[f].open => fileBreaker[f].open

LEMMA FlightMoves ==
    ASSUME IndexInv, NEW g \in Paths, flight.file = g, Aside(g), FlightShape', FlightTells',
           flight'.file \in {g, Absent},
           g \notin spoiled' => FileFits(g)'
    PROVE  IndexInv'
<1>1. /\ UNCHANGED <<disk, window, timer, batch, crawl, latch, backfill, stray, unseen>>
  BY DEF Aside, UnchangedByFlights
<1>2. IndexTypes'
  BY <1>1 DEF IndexInv, IndexTypes, Aside
<1>3. FlushKeepsTime'
  BY <1>1, Sentinels DEF IndexInv, FlushKeepsTime
<1>4. Told'
  BY <1>1 DEF IndexInv, Told, EventsTell, Tells
<1>5. ASSUME NEW f \in Paths \ spoiled', f # g PROVE FileFits(f)'
  <2>1. FileFits(f) /\ FlightShape
    BY <1>5 DEF IndexInv, IndexTypes, Aside
  <2>2. Interfered(f)' => Interfered(f)
    BY <1>1 DEF Interfered
  <2>3. Kept(f)
    BY <1>5, <2>2 DEF Aside, Kept
  <2>4. flight.file # f /\ flight'.file # f
    BY <1>5, Sentinels
  <2>5. Awaited(f)' <=> Awaited(f)
    BY <1>1, <2>4 DEF Awaited, Holds
  <2> QED  BY <1>1, <2>1, <2>3, <2>4, <2>5, FileKept
<1> QED  BY <1>2, <1>3, <1>4, <1>5 DEF IndexInv

LEMMA Lands ==
    ASSUME IndexInv, NEW g \in Paths, flight.file = g, Aside(g), Land,
           g \notin spoiled' => /\ ~Interfered(g) /\ ~fileBreaker'[g].open /\ Coherent(g)'
                                /\ g \notin unseen => RowFits(g)'
    PROVE  IndexInv'
<1>1. flight' = NoFlight /\ flight'.file = Absent /\ flight'.file # g
  BY Sentinels DEF Land
<1>2. FlightShape' /\ FlightTells'
  BY <1>1, Sentinels DEF FlightShape, FlightTells, WriteSteps, PurgeSteps
<1>3. ASSUME g \notin spoiled' PROVE FileFits(g)'
  <2>1. ~Interfered(g)' /\ unseen' = unseen
    BY <1>3 DEF Aside, UnchangedByFlights, Interfered
  <2> QED  BY <1>1, <1>3, <2>1 DEF FileFits
<1> QED  BY <1>1, <1>2, <1>3, FlightMoves

LEMMA Continues ==
    ASSUME IndexInv, NEW g \in Paths, flight.file = g, flight \in Flights, FlightShape, Aside(g),
           NEW step \in WriteSteps \cup PurgeSteps, Continue(step),
           step \in WriteSteps => flight.step \in WriteSteps,
           step \in PurgeSteps => flight.step \in PurgeSteps,
           g \notin spoiled' => /\ ~Interfered(g)
                                /\ fileBreaker'[g].open => step = "unlink vectors"
                                /\ flight'.step = step /\ flight'.text = flight.text => FlightFits(g)'
    PROVE  IndexInv'
<1>1. /\ flight' \in Flights /\ flight'.step = step
      /\ flight'.file = g /\ flight'.text = flight.text
  BY DEF Continue, Flights
<1>2. FlightShape'
  BY <1>1, Sentinels DEF FlightShape, WriteSteps, PurgeSteps
<1>3. FlightTells'
  BY <1>1 DEF IndexInv, Told, FlightTells, Tells, Aside, UnchangedByFlights
<1>4. ASSUME g \notin spoiled' PROVE FileFits(g)'
  <2>1. ~Interfered(g)'
    BY <1>4 DEF Aside, UnchangedByFlights, Interfered
  <2>2. FlightFits(g)'
    BY <1>1, <1>4
  <2> QED  BY <1>1, <1>4, <2>1, <2>2 DEF FileFits, Awaited
<1> QED  BY <1>1, <1>2, <1>3, <1>4, FlightMoves

\* A pass that starts anew writes a file nothing else is writing.
LEMMA FreshOrSpoiled ==
    ASSUME NEW g \in Paths, Afresh(g), g \notin spoiled => ~Interfered(g)
    PROVE  /\ g \notin spoiled' => ~Interfered(g)
           /\ \A f \in Paths \ {g} : f \in spoiled => f \in spoiled'
BY DEF Afresh

LEMMA GateKeeps ==
    ASSUME IndexInv, GateFlight
    PROVE  IndexInv'
<1>1. PICK g : g = flight.file
  OBVIOUS
<1>2. /\ flight.step = "gate" /\ UnchangedByFlights
      /\ UNCHANGED <<fileBreaker, analytics, indexStores, spent>>
      /\ IF Allow(g) /\ disk[g] # Absent /\ disk[g] # row[g]
         THEN flight' = [flight EXCEPT !.step = "deps", !.text = disk[g]] /\ Afresh(g)
         ELSE Land /\ UNCHANGED spoiled
  BY <1>1 DEF GateFlight, At
<1>3. /\ flight \in Flights /\ g \in Paths /\ FlightShape /\ FlightTells /\ Tables /\ BreakersOpenFull
      /\ analytics.step = "off" => analytics.seen = {}
      /\ g \notin spoiled => FileFits(g) /\ FlightFits(g)
      /\ disk[g] \in Revisions \cup {Absent}
  <2>1. disk \in [Paths -> Revisions \cup {Absent}]
    BY DEF IndexInv, IndexTypes
  <2> QED  BY <1>1, <1>2, <2>1, InFlight
<1>4. /\ \A f \in Paths : Kept(f)
      /\ Tables' /\ BreakersOpenFull' /\ (analytics'.step = "off" => analytics'.seen = {})
  BY <1>2, <1>3 DEF Kept, Tables, IsTable, BreakersOpenFull, indexStores, Due, UnchangedByFlights, Interfered
<1>5. CASE Allow(g) /\ disk[g] # Absent /\ disk[g] # row[g]
  <2>1. disk[g] \in Revisions /\ disk[g] # Unlink /\ flight.text # Unlink
    BY <1>2, <1>3, <1>5, Sentinels DEF FlightShape, PurgeSteps
  <2>2. /\ flight' \in Flights /\ flight'.step = "deps"
        /\ flight'.file = g /\ flight'.text = disk[g]
    BY <1>1, <1>2, <1>3, <1>5, <2>1 DEF Flights, WriteSteps
  <2>3. /\ g \notin spoiled' => ~Interfered(g)
        /\ \A f \in Paths \ {g} : f \in spoiled => f \in spoiled'
    BY <1>2, <1>3, <1>5, FreshOrSpoiled DEF FileFits
  <2>4. Aside(g)
    BY <1>2, <1>4, <2>3 DEF Aside, Kept
  <2>5. FlightShape'
    BY <2>1, <2>2 DEF FlightShape, WriteSteps, PurgeSteps
  <2>6. FlightTells'
    BY <1>2, <1>5, <2>1, <2>2, Sentinels DEF FlightTells, Tells, UnchangedByFlights
  <2>7. ASSUME g \notin spoiled' PROVE FileFits(g)'
    <3>1. ~Interfered(g)'
      BY <1>2, <2>3, <2>7 DEF Interfered, UnchangedByFlights
    <3>2. ~fileBreaker'[g].open
      BY <1>2, <1>3, <1>5 DEF Allow, BreakersOpenFull
    <3>3. FlightFits(g)'
      BY <2>2 DEF FlightFits
    <3> QED  BY <2>2, <3>1, <3>2, <3>3 DEF FileFits, Awaited
  <2> QED  BY <1>1, <1>3, <2>2, <2>4, <2>5, <2>6, <2>7, FlightMoves
<1>6. CASE ~(Allow(g) /\ disk[g] # Absent /\ disk[g] # row[g])
  <2>1. Land /\ spoiled' = spoiled
    BY <1>2, <1>6
  <2>2. Aside(g)
    BY <1>2, <1>4, <2>1 DEF Aside, Kept
  <2>3. ASSUME g \notin spoiled'
        PROVE  /\ ~Interfered(g) /\ ~fileBreaker'[g].open /\ Coherent(g)'
               /\ g \notin unseen => RowFits(g)'
    <3>1. FileFits(g) /\ FlightFits(g)
      BY <1>3, <2>1, <2>3
    <3>2. ~Interfered(g) /\ ~fileBreaker[g].open /\ Coherent(g)
      BY <1>2, <3>1 DEF FileFits, FlightFits
    <3>3. ASSUME g \notin unseen PROVE RowFits(g)'
      <4>1. disk[g] # Absent
        BY <1>1, <1>2, <1>3, <3>3 DEF FlightTells, Tells, FlightShape, PurgeSteps
      <4>2. Allow(g)
        BY <3>2 DEF Allow
      <4>3. row[g] = disk[g] /\ disk' = disk /\ row' = row
        BY <1>2, <1>6, <4>1, <4>2 DEF UnchangedByFlights, indexStores
      <4> QED  BY <4>1, <4>3 DEF RowFits
    <3> QED  BY <1>2, <1>3, <1>4, <3>2, <3>3, CoherentKept
  <2> QED  BY <1>1, <1>3, <2>1, <2>2, <2>3, Lands
<1> QED  BY <1>5, <1>6

LEMMA DepsKeeps ==
    ASSUME IndexInv, WriteDeps
    PROVE  IndexInv'
<1>1. PICK g, c : g = flight.file /\ c = flight.text
  OBVIOUS
<1>2. /\ flight.step = "deps"
      /\ depEdges' = IF Imports[c] THEN [depEdges EXCEPT ![g] = c] ELSE depEdges
      /\ analytics' = IF Imports[c] THEN [step |-> "sleep", seen |-> {}] ELSE analytics
      /\ Continue("row") /\ UnchangedByFlights
      /\ UNCHANGED <<fileBreaker, row, vector, chunks, scores, spoiled, spent>>
  BY <1>1 DEF WriteDeps, At, UpsertDependencies
<1>3. /\ flight \in Flights /\ g \in Paths /\ FlightShape /\ Tables /\ BreakersOpenFull
      /\ analytics.step = "off" => analytics.seen = {}
      /\ g \notin spoiled => FileFits(g) /\ FlightFits(g)
  BY <1>1, <1>2, InFlight DEF WriteSteps
<1>4. /\ IsTable(depEdges') /\ (\A f \in Paths \ {g} : depEdges'[f] = depEdges[f])
      /\ (Imports[c] => depEdges'[g] = c)
  <2>1. CASE Imports[c]
    BY <1>2, <1>3, <2>1 DEF Tables, IsTable
  <2>2. CASE ~Imports[c]
    BY <1>2, <1>3, <2>2 DEF Tables
  <2> QED  BY <2>1, <2>2
<1>5. \A f \in Paths : Due(f) => Due(f)'
  BY <1>2 DEF Due
<1>6. Aside(g)
  <2>1. Tables' /\ BreakersOpenFull'
    BY <1>2, <1>3, <1>4 DEF Tables, IsTable, BreakersOpenFull
  <2>2. analytics'.step = "off" => analytics'.seen = {}
    BY <1>2, <1>3
  <2> QED  BY <1>2, <1>4, <1>5, <2>1, <2>2 DEF Aside
<1>7. ASSUME g \notin spoiled'
      PROVE  /\ ~Interfered(g) /\ ~fileBreaker'[g].open
             /\ flight'.step = "row" /\ flight'.text = flight.text => FlightFits(g)'
  <2>1. FileFits(g)
    BY <1>2, <1>3, <1>7
  <2>2. ~Interfered(g) /\ ~fileBreaker'[g].open
    BY <1>2, <2>1 DEF FileFits
  <2>3. DepsFit(g, c)'
    BY <1>2, <1>4 DEF DepsFit, Due
  <2> QED  BY <1>1, <2>2, <2>3 DEF FlightFits
<1>8. "row" \in WriteSteps \cup PurgeSteps /\ flight.step \in WriteSteps /\ "row" \notin PurgeSteps
  BY <1>2 DEF WriteSteps, PurgeSteps
<1> QED  BY <1>1, <1>2, <1>3, <1>6, <1>7, <1>8, Continues

LEMMA RowKeeps ==
    ASSUME IndexInv, WriteRow
    PROVE  IndexInv'
<1>1. PICK g, c : g = flight.file /\ c = flight.text
  OBVIOUS
<1>2. /\ flight.step = "row" /\ row' = [row EXCEPT ![g] = c]
      /\ Continue("vector") /\ UnchangedByFlights
      /\ UNCHANGED <<fileBreaker, analytics, depEdges, vector, chunks, scores, spoiled, spent>>
  BY <1>1 DEF WriteRow, At, UpsertIndexedFile
<1>3. /\ flight \in Flights /\ g \in Paths /\ FlightShape /\ Tables /\ BreakersOpenFull
      /\ analytics.step = "off" => analytics.seen = {}
      /\ g \notin spoiled => FileFits(g) /\ FlightFits(g)
  BY <1>1, <1>2, InFlight DEF WriteSteps
<1>4. IsTable(row') /\ row'[g] = c /\ \A f \in Paths \ {g} : row'[f] = row[f]
  BY <1>2, <1>3 DEF Tables, IsTable
<1>6. Aside(g)
  <2>1. Tables' /\ BreakersOpenFull'
    BY <1>2, <1>3, <1>4 DEF Tables, IsTable, BreakersOpenFull
  <2> QED  BY <1>2, <1>3, <1>4, <2>1 DEF Aside, Due
<1>7. ASSUME g \notin spoiled'
      PROVE  /\ ~Interfered(g) /\ ~fileBreaker'[g].open
             /\ flight'.step = "vector" /\ flight'.text = flight.text => FlightFits(g)'
  <2>1. FileFits(g) /\ FlightFits(g)
    BY <1>2, <1>3, <1>7
  <2>2. ~Interfered(g) /\ ~fileBreaker'[g].open
    BY <1>2, <2>1 DEF FileFits
  <2>3. DepsFit(g, c)'
    BY <1>1, <1>2, <2>1 DEF FlightFits, DepsFit, Due
  <2> QED  BY <1>1, <1>4, <2>2, <2>3 DEF FlightFits
<1>8. "vector" \in WriteSteps \cup PurgeSteps /\ flight.step \in WriteSteps /\ "vector" \notin PurgeSteps
  BY <1>2 DEF WriteSteps, PurgeSteps
<1> QED  BY <1>1, <1>2, <1>3, <1>6, <1>7, <1>8, Continues

\* A breaker that is cleared is closed.
LEMMA Clears ==
    ASSUME NEW f \in Paths, IsTable(fileBreaker), BreakersOpenFull, Clear(f)
    PROVE  /\ IsTable(fileBreaker') /\ BreakersOpenFull' /\ ~fileBreaker'[f].open
           /\ \A g \in Paths \ {f} : fileBreaker'[g] = fileBreaker[g]
<1>1. PICK r : r = [failures |-> 0, open |-> FALSE]
  OBVIOUS
<1>2. fileBreaker' = [fileBreaker EXCEPT ![f] = r] /\ ~r.open /\ r = [failures |-> r.failures, open |-> r.open]
  BY <1>1 DEF Clear
<1>3. IsTable(fileBreaker') /\ fileBreaker'[f] = r /\ \A g \in Paths \ {f} : fileBreaker'[g] = fileBreaker[g]
  BY <1>2 DEF IsTable
<1> QED  BY <1>2, <1>3 DEF BreakersOpenFull

\* The row of a flight that has written everything is that of the disk.
LEMMA RowIsWritten ==
    ASSUME NEW g \in Paths, g = flight.file, g \notin unseen, FlightTells, flight.step \in WriteSteps,
           flight.text \in Revisions, row'[g] = flight.text, UnchangedByFlights
    PROVE  RowFits(g)'
<1>1. disk' = disk
  BY DEF UnchangedByFlights
<1>2. flight.text = disk[g]
  BY DEF FlightTells
<1> QED  BY <1>1, <1>2, Sentinels DEF RowFits

LEMMA VectorKeeps ==
    ASSUME IndexInv, WriteVector
    PROVE  IndexInv'
<1>1. PICK g, c : g = flight.file /\ c = flight.text
  OBVIOUS
<1>2. /\ flight.step = "vector"
      /\ vector' = IF Size[c] = "small" THEN vector ELSE [vector EXCEPT ![g] = c]
      /\ IF HasChunks(c) THEN Continue("chunks") /\ UNCHANGED fileBreaker
         ELSE Land /\ Clear(g)
      /\ UnchangedByFlights
      /\ UNCHANGED <<analytics, row, depEdges, chunks, scores, spoiled, spent>>
  BY <1>1 DEF WriteVector, At, WriteRecord
<1>3. /\ flight \in Flights /\ g \in Paths /\ FlightShape /\ FlightTells /\ Tables /\ BreakersOpenFull
      /\ analytics.step = "off" => analytics.seen = {}
      /\ g \notin spoiled => FileFits(g) /\ FlightFits(g)
      /\ c \in Revisions /\ flight.step \in WriteSteps
  <2>1. flight.step \in WriteSteps
    BY <1>2 DEF WriteSteps
  <2> QED  BY <1>1, <1>2, <2>1, InFlight DEF FlightShape
<1>4. /\ IsTable(vector') /\ (\A f \in Paths \ {g} : vector'[f] = vector[f])
      /\ VectorFits(g, c)'
  <2>1. CASE Size[c] = "small"
    BY <1>2, <1>3, <2>1 DEF Tables, VectorFits
  <2>2. CASE Size[c] # "small"
    BY <1>2, <1>3, <2>2 DEF Tables, IsTable, VectorFits
  <2> QED  BY <2>1, <2>2
<1>5. /\ IsTable(fileBreaker') /\ BreakersOpenFull'
      /\ \A f \in Paths \ {g} : fileBreaker'[f] = fileBreaker[f]
  <2>1. CASE HasChunks(c)
    BY <1>2, <1>3, <2>1 DEF Tables, BreakersOpenFull
  <2>2. CASE ~HasChunks(c)
    BY <1>2, <1>3, <2>2, Clears DEF Tables
  <2> QED  BY <2>1, <2>2
<1>6. Aside(g)
  <2>1. Tables'
    BY <1>2, <1>3, <1>4, <1>5 DEF Tables, IsTable
  <2> QED  BY <1>2, <1>3, <1>4, <1>5, <2>1 DEF Aside, Due
<1>7. ASSUME g \notin spoiled'
      PROVE  ~Interfered(g) /\ ~fileBreaker[g].open /\ DepsFit(g, c)' /\ row'[g] = c
  <2>1. FileFits(g) /\ FlightFits(g)
    BY <1>2, <1>3, <1>7
  <2> QED  BY <1>1, <1>2, <2>1 DEF FileFits, FlightFits, DepsFit, Due
<1>8. CASE HasChunks(c)
  <2>1. ASSUME g \notin spoiled'
        PROVE  /\ ~Interfered(g) /\ ~fileBreaker'[g].open
               /\ flight'.step = "chunks" /\ flight'.text = flight.text => FlightFits(g)'
    BY <1>1, <1>2, <1>4, <1>7, <1>8, <2>1 DEF FlightFits, HasChunks
  <2>2. "chunks" \in WriteSteps \cup PurgeSteps /\ "chunks" \notin PurgeSteps /\ Continue("chunks")
    BY <1>2, <1>8 DEF WriteSteps, PurgeSteps
  <2> QED  BY <1>1, <1>3, <1>6, <2>1, <2>2, Continues
<1>9. CASE ~HasChunks(c)
  <2>1. ASSUME g \notin spoiled'
        PROVE  /\ ~Interfered(g) /\ ~fileBreaker'[g].open /\ Coherent(g)'
               /\ g \notin unseen => RowFits(g)'
    <3>1. ~fileBreaker'[g].open
      BY <1>2, <1>3, <1>9, Clears DEF Tables
    <3>2. ChunksFit(g, c)'
      BY <1>9 DEF ChunksFit, HasChunks
    <3>3. Coherent(g)'
      BY <1>3, <1>4, <1>7, <2>1, <3>2 DEF Coherent
    <3>4. g \notin unseen => RowFits(g)'
      BY <1>1, <1>2, <1>3, <1>7, <2>1, RowIsWritten
    <3> QED  BY <1>7, <2>1, <3>1, <3>3, <3>4
  <2> QED  BY <1>1, <1>2, <1>3, <1>6, <1>9, <2>1, Lands
<1> QED  BY <1>8, <1>9

LEMMA ChunksKeeps ==
    ASSUME IndexInv, WriteChunks
    PROVE  IndexInv'
<1>1. PICK g, c : g = flight.file /\ c = flight.text
  OBVIOUS
<1>2. /\ flight.step = "chunks"
      /\ \/ chunks' = [chunks EXCEPT ![g] = c] /\ spoiled' = spoiled
         \/ spoiled' = spoiled \cup {g} /\ chunks' = chunks
      /\ Land /\ Clear(g) /\ UnchangedByFlights
      /\ UNCHANGED <<analytics, row, depEdges, vector, scores>>
  BY <1>1 DEF WriteChunks, At, WriteChunkRecords, Spoil
<1>3. /\ flight \in Flights /\ g \in Paths /\ FlightShape /\ FlightTells /\ Tables /\ BreakersOpenFull
      /\ analytics.step = "off" => analytics.seen = {}
      /\ g \notin spoiled => FileFits(g) /\ FlightFits(g)
      /\ c \in Revisions /\ flight.step \in WriteSteps
  <2>1. flight.step \in WriteSteps
    BY <1>2 DEF WriteSteps
  <2> QED  BY <1>1, <1>2, <2>1, InFlight DEF FlightShape
<1>4. /\ IsTable(chunks') /\ (\A f \in Paths \ {g} : chunks'[f] = chunks[f])
      /\ g \notin spoiled' => g \notin spoiled /\ chunks'[g] = c
      /\ \A f \in Paths \ {g} : f \in spoiled => f \in spoiled'
  <2>1. CASE chunks' = [chunks EXCEPT ![g] = c] /\ spoiled' = spoiled
    BY <1>3, <2>1 DEF Tables, IsTable
  <2>2. CASE spoiled' = spoiled \cup {g} /\ chunks' = chunks
    BY <1>3, <2>2 DEF Tables
  <2> QED  BY <1>2, <2>1, <2>2
<1>5. /\ IsTable(fileBreaker') /\ BreakersOpenFull' /\ ~fileBreaker'[g].open
      /\ \A f \in Paths \ {g} : fileBreaker'[f] = fileBreaker[f]
  BY <1>2, <1>3, Clears DEF Tables
<1>6. Aside(g)
  <2>1. Tables'
    BY <1>2, <1>3, <1>4, <1>5 DEF Tables, IsTable
  <2> QED  BY <1>2, <1>3, <1>4, <1>5, <2>1 DEF Aside, Due
<1>7. ASSUME g \notin spoiled'
      PROVE  /\ ~Interfered(g) /\ ~fileBreaker'[g].open /\ Coherent(g)'
             /\ g \notin unseen => RowFits(g)'
  <2>1. FileFits(g) /\ FlightFits(g)
    BY <1>3, <1>4, <1>7
  <2>2. DepsFit(g, c) /\ VectorFits(g, c) /\ row[g] = c /\ ~Interfered(g)
    BY <1>1, <1>2, <2>1 DEF FileFits, FlightFits
  <2>3. DepsFit(g, c)' /\ VectorFits(g, c)' /\ ChunksFit(g, c)' /\ row'[g] = c
    BY <1>2, <1>4, <1>7, <2>2 DEF DepsFit, Due, VectorFits, ChunksFit
  <2>4. g \notin unseen => RowFits(g)'
    BY <1>1, <1>2, <1>3, <2>3, RowIsWritten
  <2> QED  BY <1>3, <1>5, <2>2, <2>3, <2>4 DEF Coherent
<1> QED  BY <1>1, <1>2, <1>3, <1>6, <1>7, Lands

LEMMA FailKeeps ==
    ASSUME IndexInv, Fail
    PROVE  IndexInv'
<1>1. PICK g : g = flight.file
  OBVIOUS
<1>2. /\ flight.step \in {"deps", "row", "vector"}
      /\ spoiled' = spoiled \cup {g} /\ RecordFailure(g) /\ Land
      /\ UnchangedByFlights
      /\ UNCHANGED <<analytics, indexStores>>
  BY <1>1 DEF Fail, Spoil
<1>3. /\ flight \in Flights /\ g \in Paths /\ Tables /\ BreakersOpenFull
      /\ analytics.step = "off" => analytics.seen = {}
  BY <1>1, <1>2, InFlight DEF WriteSteps
<1>n. PICK n : n = Min({fileBreaker[g].failures + 1, FailThreshold})
  OBVIOUS
<1>5. PICK r : r = [failures |-> n, open |-> n = FailThreshold]
  OBVIOUS
<1>4. fileBreaker' = [fileBreaker EXCEPT ![g] = r]
  BY <1>2, <1>n, <1>5, Zenon DEF RecordFailure
<1>6. /\ IsTable(fileBreaker') /\ fileBreaker'[g] = r
      /\ \A f \in Paths \ {g} : fileBreaker'[f] = fileBreaker[f]
  BY <1>3, <1>4 DEF Tables, IsTable
<1>7. BreakersOpenFull'
  <2>1. (r.open => r.failures = FailThreshold) /\ r = [failures |-> r.failures, open |-> r.open]
    BY <1>5
  <2>2. ~(FailThreshold < FailThreshold)
    BY IndexAssumption
  <2> QED  BY <1>3, <1>6, <2>1, <2>2 DEF BreakersOpenFull
<1>8. Aside(g)
  <2>1. Tables'
    BY <1>2, <1>3, <1>6 DEF Tables, IsTable, indexStores
  <2> QED  BY <1>2, <1>3, <1>6, <1>7, <2>1 DEF Aside, Due, indexStores
<1> QED  BY <1>1, <1>2, <1>3, <1>8, Lands

LEMMA PurgeGraphKeeps ==
    ASSUME IndexInv, PurgeGraph
    PROVE  IndexInv'
<1>1. PICK g : g = flight.file
  OBVIOUS
<1>2. /\ flight.step = "unlink"
      /\ row' = [row EXCEPT ![g] = NoRow] /\ depEdges' = [depEdges EXCEPT ![g] = Absent]
      /\ scores' = scores \ {g}
      /\ Afresh(g) /\ Continue("unlink vectors") /\ UnchangedByFlights
      /\ UNCHANGED <<fileBreaker, analytics, vector, chunks, spent>>
  BY <1>1 DEF PurgeGraph, At, PurgeFileNodes
<1>3. /\ flight \in Flights /\ g \in Paths /\ FlightShape /\ Tables /\ BreakersOpenFull
      /\ analytics.step = "off" => analytics.seen = {}
      /\ g \notin spoiled => FileFits(g) /\ FlightFits(g)
  BY <1>1, <1>2, InFlight DEF PurgeSteps
<1>4. /\ IsTable(row') /\ row'[g] = NoRow /\ (\A f \in Paths \ {g} : row'[f] = row[f])
      /\ IsTable(depEdges') /\ depEdges'[g] = Absent
      /\ \A f \in Paths \ {g} : depEdges'[f] = depEdges[f]
  BY <1>2, <1>3 DEF Tables, IsTable
<1>5. /\ g \notin spoiled' => ~Interfered(g)
      /\ \A f \in Paths \ {g} : f \in spoiled => f \in spoiled'
  BY <1>2, <1>3, FreshOrSpoiled DEF FileFits
<1>6. Aside(g)
  <2>1. Tables' /\ BreakersOpenFull'
    BY <1>2, <1>3, <1>4 DEF Tables, IsTable, BreakersOpenFull
  <2> QED  BY <1>2, <1>3, <1>4, <1>5, <2>1 DEF Aside, Due
<1>7. flight'.step = "unlink vectors" => FlightFits(g)'
  BY <1>4 DEF FlightFits
<1>8. "unlink vectors" \in WriteSteps \cup PurgeSteps /\ flight.step \in PurgeSteps
      /\ "unlink vectors" \notin WriteSteps
  BY <1>2 DEF WriteSteps, PurgeSteps
<1> QED  BY <1>1, <1>2, <1>3, <1>5, <1>6, <1>7, <1>8, Continues

LEMMA PurgeVectorsKeeps ==
    ASSUME IndexInv, PurgeVectors
    PROVE  IndexInv'
<1>1. PICK g : g = flight.file
  OBVIOUS
<1>2. /\ flight.step = "unlink vectors"
      /\ \/ /\ vector' = [f \in Paths |-> IF f \in {g} THEN Absent ELSE vector[f]]
            /\ chunks' = [f \in Paths |-> IF f \in {g} THEN Absent ELSE chunks[f]]
            /\ spoiled' = spoiled
         \/ spoiled' = spoiled \cup {g} /\ vector' = vector /\ chunks' = chunks
      /\ Land /\ Clear(g) /\ UnchangedByFlights
      /\ UNCHANGED <<analytics, row, depEdges, scores>>
  BY <1>1 DEF PurgeVectors, At, DeleteRecords, Spoil
<1>3. /\ flight \in Flights /\ g \in Paths /\ FlightShape /\ FlightTells /\ Tables /\ BreakersOpenFull
      /\ analytics.step = "off" => analytics.seen = {}
      /\ g \notin spoiled => FileFits(g) /\ FlightFits(g)
  BY <1>1, <1>2, InFlight DEF PurgeSteps
<1>4. /\ IsTable(vector') /\ IsTable(chunks')
      /\ \A f \in Paths \ {g} : vector'[f] = vector[f] /\ chunks'[f] = chunks[f]
      /\ g \notin spoiled' => g \notin spoiled /\ vector'[g] = Absent /\ chunks'[g] = Absent
      /\ \A f \in Paths \ {g} : f \in spoiled => f \in spoiled'
  <2>1. CASE /\ vector' = [f \in Paths |-> IF f \in {g} THEN Absent ELSE vector[f]]
             /\ chunks' = [f \in Paths |-> IF f \in {g} THEN Absent ELSE chunks[f]]
             /\ spoiled' = spoiled
    BY <1>3, <2>1 DEF IsTable
  <2>2. CASE spoiled' = spoiled \cup {g} /\ vector' = vector /\ chunks' = chunks
    BY <1>3, <2>2 DEF Tables
  <2> QED  BY <1>2, <2>1, <2>2
<1>5. /\ IsTable(fileBreaker') /\ BreakersOpenFull' /\ ~fileBreaker'[g].open
      /\ \A f \in Paths \ {g} : fileBreaker'[f] = fileBreaker[f]
  BY <1>2, <1>3, Clears DEF Tables
<1>6. Aside(g)
  <2>1. Tables'
    BY <1>2, <1>3, <1>4, <1>5 DEF Tables, IsTable
  <2> QED  BY <1>2, <1>3, <1>4, <1>5, <2>1 DEF Aside, Due
<1>7. ASSUME g \notin spoiled'
      PROVE  /\ ~Interfered(g) /\ ~fileBreaker'[g].open /\ Coherent(g)'
             /\ g \notin unseen => RowFits(g)'
  <2>1. FileFits(g) /\ FlightFits(g)
    BY <1>3, <1>4, <1>7
  <2>2. row[g] = NoRow /\ depEdges[g] = Absent /\ ~Interfered(g)
    BY <1>2, <2>1 DEF FileFits, FlightFits
  <2>3. Coherent(g)'
    BY <1>2, <1>4, <1>7, <2>2 DEF Coherent
  <2>4. ASSUME g \notin unseen PROVE RowFits(g)'
    <3>1. disk[g] = Absent
      BY <1>1, <1>2, <1>3, <2>4 DEF FlightTells, Tells, FlightShape, PurgeSteps
    <3> QED  BY <1>2, <2>2, <3>1 DEF RowFits, UnchangedByFlights
  <2> QED  BY <1>5, <2>2, <2>3, <2>4
<1> QED  BY <1>1, <1>2, <1>3, <1>6, <1>7, Lands

LEMMA FlightStepKeeps ==
    ASSUME IndexInv, FlightStep
    PROVE  IndexInv'
BY GateKeeps, DepsKeeps, RowKeeps, VectorKeeps, ChunksKeeps, FailKeeps, PurgeGraphKeeps, PurgeVectorsKeeps
   DEF FlightStep

(***************************************************************************)
(* The batch.                                                              *)
(***************************************************************************)
LEMMA HoldsElements ==
    ASSUME NEW S, NEW q \in Seq(S)
    PROVE  /\ \A f : Holds(q, f) <=> \E e \in Elements(q) : e.file = f
           /\ EventsTell(q) <=> \A e \in Elements(q) : e.file \in Paths \ unseen => Tells(e.file, e.what)
           /\ Elements(q) \subseteq S
<1>1. DOMAIN q = 1 .. Len(q)
  OBVIOUS
<1>2. Elements(q) = {q[i] : i \in DOMAIN q}
  BY <1>1 DEF Elements
<1> QED  BY <1>2 DEF Holds, EventsTell

LEMMA ConcatElements ==
    ASSUME NEW S, NEW p \in Seq(S), NEW q \in Seq(S)
    PROVE  p \o q \in Seq(S) /\ Elements(p \o q) = Elements(p) \cup Elements(q)
<1>1. /\ p \o q \in Seq(S) /\ Len(p \o q) = Len(p) + Len(q) /\ Len(p) \in Nat /\ Len(q) \in Nat
      /\ \A i \in 1 .. Len(p) + Len(q) : (p \o q)[i] = IF i <= Len(p) THEN p[i] ELSE q[i - Len(p)]
  OBVIOUS
<1>2. ASSUME NEW i \in 1 .. Len(p) + Len(q) PROVE (p \o q)[i] \in Elements(p) \cup Elements(q)
  <2>1. CASE i <= Len(p)
    BY <1>1, <2>1 DEF Elements
  <2>2. CASE i > Len(p)
    <3>1. i - Len(p) \in 1 .. Len(q) /\ (p \o q)[i] = q[i - Len(p)]
      BY <1>1, <2>2
    <3> QED  BY <3>1 DEF Elements
  <2> QED  BY <1>1, <2>1, <2>2
<1>3. ASSUME NEW i \in 1 .. Len(p) PROVE p[i] \in Elements(p \o q)
  <2>1. i \in 1 .. Len(p \o q) /\ (p \o q)[i] = p[i]
    BY <1>1
  <2> QED  BY <2>1 DEF Elements
<1>4. ASSUME NEW i \in 1 .. Len(q) PROVE q[i] \in Elements(p \o q)
  <2>1. PICK j : j = Len(p) + i
    OBVIOUS
  <2>2. j \in 1 .. Len(p \o q) /\ (p \o q)[j] = q[i]
    BY <1>1, <2>1
  <2> QED  BY <2>2 DEF Elements
<1>5. Elements(p \o q) \subseteq Elements(p) \cup Elements(q)
  BY <1>1, <1>2 DEF Elements
<1>6. Elements(p) \subseteq Elements(p \o q)
  BY <1>3 DEF Elements
<1>7. Elements(q) \subseteq Elements(p \o q)
  BY <1>4 DEF Elements
<1> QED  BY <1>1, <1>5, <1>6, <1>7

LEMMA HeadTail ==
    ASSUME NEW S, NEW q \in Seq(S), q # <<>>
    PROVE  /\ Head(q) \in S /\ Tail(q) \in Seq(S)
           /\ Head(q) \in Elements(q)
           /\ Elements(q) = {Head(q)} \cup Elements(Tail(q))
<1>1. /\ Len(q) \in Nat \ {0} /\ Head(q) = q[1] /\ Tail(q) \in Seq(S) /\ Len(Tail(q)) = Len(q) - 1
      /\ \A i \in 1 .. Len(q) - 1 : Tail(q)[i] = q[i + 1]
      /\ \A i \in 1 .. Len(q) : q[i] \in S
  OBVIOUS
<1>2. ASSUME NEW i \in 1 .. Len(q) PROVE q[i] \in {Head(q)} \cup Elements(Tail(q))
  <2>1. CASE i = 1
    BY <1>1, <2>1
  <2>2. CASE i # 1
    <3>1. i - 1 \in 1 .. Len(Tail(q)) /\ Tail(q)[i - 1] = q[i]
      BY <1>1, <2>2
    <3> QED  BY <3>1 DEF Elements
  <2> QED  BY <2>1, <2>2
<1>3. ASSUME NEW i \in 1 .. Len(q) - 1 PROVE Tail(q)[i] \in Elements(q)
  <2>1. i + 1 \in 1 .. Len(q) /\ Tail(q)[i] = q[i + 1]
    BY <1>1
  <2> QED  BY <2>1 DEF Elements
<1>4. Head(q) \in Elements(q) /\ Head(q) \in S
  BY <1>1 DEF Elements
<1>5. Elements(q) \subseteq {Head(q)} \cup Elements(Tail(q))
  BY <1>2 DEF Elements
<1>6. Elements(Tail(q)) \subseteq Elements(q)
  BY <1>1, <1>3 DEF Elements
<1> QED  BY <1>1, <1>4, <1>5, <1>6

\* A step of the flush between two flights: the stores stay, and of a file that
\* is not spoiled the flush still has the event if it had it.
LEMMA BatchMoves ==
    ASSUME IndexInv, UNCHANGED <<disk, unseen, fileBreaker, analytics, indexStores>>,
           crawl' \in [Crawlers -> Crawling], \A f : Interfered(f)' => Interfered(f),
           window' \in Seq(Events), batch' \in Seq(Events \cup {Mass}), FlushKeepsTime',
           EventsTell(window)', EventsTell(batch)', FlightShape', FlightTells',
           \A f \in Paths \ spoiled' :
               /\ f \notin spoiled
               /\ Awaited(f) => Awaited(f)'
               /\ flight'.file = f => flight' = flight \/ (flight.file # f /\ FlightFits(f)')
               /\ flight.file = f => flight' = flight
    PROVE  IndexInv'
<1>1. IndexTypes'
  BY DEF IndexInv, IndexTypes, Tables, IsTable, BreakersOpenFull, indexStores
<1>2. ASSUME NEW f \in Paths \ spoiled' PROVE FileFits(f)'
  <2>1. FileFits(f) /\ FlightShape
    BY <1>2 DEF IndexInv, IndexTypes
  <2>2. Kept(f)
    BY DEF Kept, Due, indexStores
  <2>3. CASE flight'.file = f /\ flight.file # f
    <3>1. FlightFits(f)' /\ ~Interfered(f)'
      BY <1>2, <2>1, <2>2, <2>3 DEF FileFits, Kept
    <3>2. ~fileBreaker'[f].open
      BY <2>1, <2>3 DEF FileFits
    <3> QED  BY <2>3, <3>1, <3>2 DEF FileFits, Awaited
  <2>4. CASE ~(flight'.file = f /\ flight.file # f)
    <3>1. flight'.file = f <=> flight.file = f
      BY <1>2, <2>4
    <3>2. ~Awaited(f)' => ~Awaited(f)
      BY <1>2
    <3>3. flight.file = f => flight' = flight
      BY <1>2
    <3> QED  BY <2>1, <2>2, <3>1, <3>2, <3>3, FileKept
  <2> QED  BY <2>3, <2>4
<1> QED  BY <1>1, <1>2 DEF IndexInv, Told

LEMMA CloseKeeps ==
    ASSUME IndexInv, Close
    PROVE  IndexInv'
<1>1. PICK gone : gone = {e \in Elements(window) : e.what = Unlink}
  OBVIOUS
<1>2. PICK unlinks : unlinks = Without(window, Elements(window) \ gone)
  OBVIOUS
<1>3. PICK updates : updates = Without(window, gone)
  OBVIOUS
<1>4. PICK mass \in BOOLEAN : mass <=> Len(updates) > MassThreshold
  OBVIOUS
<1>5. /\ timer = "sleep" /\ timer' = "dispatch"
      /\ batch' = unlinks \o (IF mass THEN <<Mass>> ELSE updates)
      /\ spoiled' = spoiled \cup {f \in Paths : mass /\ Holds(updates, f)}
      /\ UNCHANGED <<disk, flight, fileBreaker, crawl, latch, backfill, analytics,
                     indexStores, stray, unseen, spent>>
  BY <1>1, <1>2, <1>3, <1>4 DEF Close, Mass, Spoil
<1>0. window' = <<>>
  BY DEF Close
<1>6. window \in Seq(Events) /\ batch = <<>> /\ flight = NoFlight /\ FlightShape
  BY <1>5 DEF IndexInv, IndexTypes, FlushKeepsTime
<1>7. /\ unlinks \in Seq(Events) /\ updates \in Seq(Events)
      /\ Elements(unlinks) \cup Elements(updates) = Elements(window)
  <2>1. unlinks \in Seq(Events) /\ Elements(unlinks) = Elements(window) \ (Elements(window) \ gone)
    BY <1>2, <1>6, WithoutKeeps
  <2>2. updates \in Seq(Events) /\ Elements(updates) = Elements(window) \ gone
    BY <1>3, <1>6, WithoutKeeps
  <2>3. gone \subseteq Elements(window)
    BY <1>1
  <2> QED  BY <2>1, <2>2, <2>3
<1>8. PICK last \in Seq(Events \cup {Mass}) : last = IF mass THEN <<Mass>> ELSE updates
  <2>1. updates \in Seq(Events \cup {Mass}) /\ <<Mass>> \in Seq(Events \cup {Mass})
    BY <1>7
  <2> QED  BY <2>1
<1>9. /\ Elements(last) \subseteq Elements(updates) \cup {Mass}
      /\ ~mass => Elements(last) = Elements(updates)
  <2>1. CASE mass
    <3>1. last = <<Mass>>
      BY <1>8, <2>1
    <3> QED  BY <2>1, <3>1 DEF Elements
  <2>2. CASE ~mass
    BY <1>8, <2>2
  <2> QED  BY <2>1, <2>2
<1>10. PICK q : q = unlinks \o last
  OBVIOUS
<1>11. batch' = q /\ q \in Seq(Events \cup {Mass}) /\ Elements(q) = Elements(unlinks) \cup Elements(last)
  <2>1. unlinks \in Seq(Events \cup {Mass})
    BY <1>7
  <2> QED  BY <1>5, <1>8, <1>10, <2>1, ConcatElements
<1>12. window' \in Seq(Events) /\ (\A f : ~Holds(window, f)') /\ EventsTell(window)'
  <2>1. <<>> \in Seq(Events) /\ DOMAIN <<>> = {}
    OBVIOUS
  <2>2. window' \in Seq(Events) /\ DOMAIN window' = {}
    BY <1>0, <2>1, Zenon
  <2> QED  BY <2>2 DEF EventsTell, Holds
<1>13. EventsTell(batch)'
  <2>1. \A e \in Elements(window) : e.file \in Paths \ unseen => Tells(e.file, e.what)
    BY <1>6, HoldsElements DEF IndexInv, Told
  <2>2. Mass.file \notin Paths
    BY Sentinels DEF Mass, Event
  <2>3. \A e \in Elements(q) : e.file \in Paths \ unseen => Tells(e.file, e.what)
    BY <1>7, <1>9, <1>11, <2>1, <2>2
  <2>4. EventsTell(q)
    BY <1>11, <2>3, HoldsElements
  <2> QED  BY <1>5, <1>11, <2>4 DEF EventsTell, Tells
<1>14. ASSUME NEW f \in Paths \ spoiled' PROVE f \notin spoiled /\ (Awaited(f) => Awaited(f)')
  <2>1. f \notin spoiled /\ ~(mass /\ Holds(updates, f))
    BY <1>5, <1>14
  <2>2. ASSUME Awaited(f) PROVE Awaited(f)'
    <3>1. Holds(window, f)
      BY <1>6, <2>2, Sentinels DEF Awaited, Holds
    <3>2. PICK e \in Elements(window) : e.file = f
      BY <1>6, <3>1, HoldsElements
    <3>3. CASE e \in Elements(unlinks)
      <4>1. Holds(q, f)
        BY <1>11, <3>2, <3>3, HoldsElements
      <4> QED  BY <1>11, <4>1 DEF Awaited
    <3>4. CASE e \in Elements(updates)
      <4>1. ~mass
        BY <1>7, <2>1, <3>2, <3>4, HoldsElements
      <4>2. Holds(q, f)
        BY <1>9, <1>11, <3>2, <3>4, <4>1, HoldsElements
      <4> QED  BY <1>11, <4>2 DEF Awaited
    <3> QED  BY <1>7, <3>2, <3>3, <3>4
  <2> QED  BY <2>1, <2>2
<1>15. FlightShape' /\ FlightTells'
  BY <1>5, <1>6, Sentinels DEF FlightShape, FlightTells
<1>16. FlushKeepsTime'
  BY <1>0, <1>5 DEF FlushKeepsTime
<1>17. crawl' \in [Crawlers -> Crawling] /\ \A f : Interfered(f)' => Interfered(f)
  BY <1>5 DEF IndexInv, IndexTypes, Interfered
<1> QED  BY <1>5, <1>6, <1>11, <1>12, <1>13, <1>14, <1>15, <1>16, <1>17, Sentinels, BatchMoves

LEMMA DispatchKeeps ==
    ASSUME IndexInv, Dispatch
    PROVE  IndexInv'
<1>1. PICK h : h = Head(batch)
  OBVIOUS
<1>2. /\ timer = "dispatch" /\ flight = NoFlight /\ batch # <<>> /\ h.what # "mass"
      /\ batch' = Tail(batch)
      /\ flight' = [step |-> IF h.what = Unlink THEN "unlink" ELSE "gate", file |-> h.file, text |-> h.what]
      /\ UNCHANGED <<disk, window, timer, fileBreaker, crawl, latch, backfill, analytics,
                     indexStores, stray, spoiled, unseen, spent>>
  BY <1>1 DEF Dispatch, Fly
<1>3. batch \in Seq(Events \cup {Mass}) /\ window \in Seq(Events)
  BY DEF IndexInv, IndexTypes
<1>4. /\ h \in Events \cup {Mass} /\ batch' \in Seq(Events \cup {Mass})
      /\ Elements(batch) = {h} \cup Elements(batch')
  BY <1>1, <1>2, <1>3, HeadTail
<1>5. PICK g, what : g = h.file /\ what = h.what
  OBVIOUS
<1>6. h \in Events /\ g \in Paths /\ what \in Whats
  BY <1>2, <1>4, <1>5 DEF Mass, Event, Events
<1>7. PICK q : q = batch'
  OBVIOUS
<1>8. /\ \A f : Holds(batch, f) <=> g = f \/ Holds(q, f)
      /\ EventsTell(batch) <=> (g \in Paths \ unseen => Tells(g, what)) /\ EventsTell(q)
  BY <1>3, <1>4, <1>5, <1>7, HoldsElements
<1>9. /\ flight'.file = g /\ flight'.text = what
      /\ flight'.step = IF what = Unlink THEN "unlink" ELSE "gate"
      /\ flight' \in Flights
  <2>1. flight' = [step |-> IF what = Unlink THEN "unlink" ELSE "gate", file |-> g, text |-> what]
    BY <1>2, <1>5
  <2> QED  BY <1>6, <2>1 DEF Flights, PurgeSteps
<1>10. FlightShape'
  BY <1>9 DEF FlightShape, PurgeSteps, WriteSteps
<1>11. EventsTell(q) /\ (g \notin unseen => Tells(g, what)) /\ EventsTell(window)
  BY <1>6, <1>8 DEF IndexInv, Told
<1>12. EventsTell(batch)' /\ EventsTell(window)'
  BY <1>2, <1>7, <1>11 DEF EventsTell, Tells
<1>13. FlightTells'
  BY <1>2, <1>9, <1>11 DEF FlightTells, Tells, WriteSteps
<1>14. FlushKeepsTime'
  BY <1>2 DEF IndexInv, FlushKeepsTime
<1>15. ASSUME NEW f \in Paths \ spoiled'
       PROVE  /\ f \notin spoiled
              /\ Awaited(f) => Awaited(f)'
              /\ flight'.file = f => flight' = flight \/ (flight.file # f /\ FlightFits(f)')
              /\ flight.file = f => flight' = flight
  <2>1. f \notin spoiled /\ flight.file # f
    BY <1>2, <1>15, Sentinels
  <2>2. Awaited(f) => Awaited(f)'
    BY <1>2, <1>7, <1>8, <1>9, <2>1 DEF Awaited, Holds
  <2>3. Coherent(f)
    BY <1>15, <2>1 DEF IndexInv, FileFits
  <2>4. Coherent(f)'
    BY <1>2, <2>3 DEF Coherent, DepsFit, Due, VectorFits, ChunksFit, indexStores
  <2>5. flight'.file = f => FlightFits(f)'
    BY <1>9, <2>4 DEF FlightFits
  <2> QED  BY <2>1, <2>2, <2>5
<1>16. crawl' \in [Crawlers -> Crawling] /\ \A f : Interfered(f)' => Interfered(f)
  BY <1>2 DEF IndexInv, IndexTypes, Interfered
<1> QED  BY <1>2, <1>3, <1>4, <1>10, <1>12, <1>13, <1>14, <1>15, <1>16, BatchMoves

LEMMA DrainedKeeps ==
    ASSUME IndexInv, Drained
    PROVE  IndexInv'
<1>1. /\ timer = "dispatch" /\ flight = NoFlight /\ batch = <<>> /\ timer' = "none"
      /\ UNCHANGED <<disk, window, batch, flight, fileBreaker, crawl, latch, backfill, analytics,
                     indexStores, stray, spoiled, unseen, spent>>
  BY DEF Drained
<1>2. window' \in Seq(Events) /\ batch' \in Seq(Events \cup {Mass})
  BY <1>1 DEF IndexInv, IndexTypes
<1>3. FlushKeepsTime'
  BY <1>1 DEF IndexInv, FlushKeepsTime
<1>4. EventsTell(window)' /\ EventsTell(batch)' /\ FlightTells'
  BY <1>1 DEF IndexInv, Told, EventsTell, FlightTells, Tells
<1>5. FlightShape'
  BY <1>1 DEF IndexInv, IndexTypes, FlightShape
<1>6. \A f : Awaited(f) => Awaited(f)'
  BY <1>1 DEF Awaited, Holds
<1>7. crawl' \in [Crawlers -> Crawling] /\ \A f : Interfered(f)' => Interfered(f)
  BY <1>1 DEF IndexInv, IndexTypes, Interfered
<1> QED  BY <1>1, <1>2, <1>3, <1>4, <1>5, <1>6, <1>7, BatchMoves

\* A crawler that is not writing, or goes on writing its file, is no new threat.
LEMMA CrawlStep ==
    ASSUME IndexInv, NEW k \in Crawlers, UNCHANGED <<backfill, stray>>,
           NEW step \in StoreSteps \cup {"off", "preflight", "erring", "next"},
           step \in StoreSteps => crawl[k].step \in StoreSteps,
           crawl' = [crawl EXCEPT ![k].step = step]
    PROVE  crawl' \in [Crawlers -> Crawling] /\ \A f : Interfered(f)' => Interfered(f)
<1>1. crawl \in [Crawlers -> Crawling]
  BY DEF IndexInv, IndexTypes
<1>2. crawl' \in [Crawlers -> Crawling]
  BY <1>1 DEF Crawling
<1>3. /\ crawl'[k].step = step /\ crawl'[k].file = crawl[k].file
      /\ \A j \in Crawlers \ {k} : crawl'[j] = crawl[j]
  BY <1>1 DEF Crawling
<1> QED  BY <1>2, <1>3 DEF Interfered, StoreSteps

\* The mass event is of no file.
LEMMA MassChangeKeeps ==
    ASSUME IndexInv, NEW k \in Crawlers, MassChange(k)
    PROVE  IndexInv'
<1>1. PICK h : h = Head(batch)
  OBVIOUS
<1>2. /\ timer = "dispatch" /\ flight = NoFlight /\ batch # <<>> /\ h.what = "mass"
      /\ batch' = Tail(batch)
      /\ UNCHANGED <<disk, window, timer, flight, fileBreaker, backfill, analytics, indexStores,
                     stray, spoiled, unseen>>
      /\ crawl' = crawl \/ crawl' = [crawl EXCEPT ![k].step = "preflight"]
  BY <1>1 DEF MassChange, UnchangedByCrawl
<1>3. batch \in Seq(Events \cup {Mass}) /\ window \in Seq(Events)
  BY DEF IndexInv, IndexTypes
<1>4. /\ h \in Events \cup {Mass} /\ batch' \in Seq(Events \cup {Mass})
      /\ Elements(batch) = {h} \cup Elements(batch')
  BY <1>1, <1>2, <1>3, HeadTail
<1>5. h.file \notin Paths
  BY <1>2, <1>4, Sentinels DEF Mass, Event, Events
<1>6. PICK q : q = batch'
  OBVIOUS
<1>7. /\ \A f : Holds(batch, f) <=> h.file = f \/ Holds(q, f)
      /\ EventsTell(batch) => EventsTell(q)
  BY <1>3, <1>4, <1>6, HoldsElements
<1>8. EventsTell(batch)' /\ EventsTell(window)' /\ FlightTells'
  BY <1>2, <1>6, <1>7 DEF IndexInv, Told, EventsTell, FlightTells, Tells
<1>9. FlushKeepsTime' /\ FlightShape'
  BY <1>2 DEF IndexInv, IndexTypes, FlushKeepsTime, FlightShape
<1>10. \A f \in Paths : Awaited(f) => Awaited(f)'
  BY <1>2, <1>5, <1>6, <1>7 DEF Awaited, Holds
<1>11. crawl' \in [Crawlers -> Crawling] /\ \A f : Interfered(f)' => Interfered(f)
  <2>1. CASE crawl' = crawl
    BY <1>2, <2>1 DEF IndexInv, IndexTypes, Interfered
  <2>2. CASE crawl' = [crawl EXCEPT ![k].step = "preflight"]
    <3>1. "preflight" \notin StoreSteps
      BY DEF StoreSteps
    <3> QED  BY <1>2, <2>2, <3>1, CrawlStep
  <2> QED  BY <1>2, <2>1, <2>2
<1> QED  BY <1>2, <1>3, <1>4, <1>8, <1>9, <1>10, <1>11, BatchMoves

(***************************************************************************)
(* Beside the flush.                                                       *)
(***************************************************************************)
LEMMA CoolDownKeeps ==
    ASSUME IndexInv, NEW f \in Paths, CoolDown(f)
    PROVE  IndexInv'
<1>1. /\ fileBreaker' = [fileBreaker EXCEPT ![f].open = FALSE]
      /\ UNCHANGED <<disk, window, timer, batch, flight, crawl, latch, backfill, analytics,
                     indexStores, stray, spoiled, unseen, spent>>
  BY DEF CoolDown
<1>2. Tables /\ BreakersOpenFull /\ crawl \in [Crawlers -> Crawling]
      /\ (analytics.step = "off" => analytics.seen = {})
  BY DEF IndexInv, IndexTypes
<1>3. PICK r : r = [fileBreaker[f] EXCEPT !.open = FALSE]
  OBVIOUS
<1>4. /\ IsTable(fileBreaker') /\ fileBreaker'[f] = r
      /\ \A g \in Paths \ {f} : fileBreaker'[g] = fileBreaker[g]
  BY <1>1, <1>2, <1>3 DEF Tables, IsTable
<1>5. r = [failures |-> r.failures, open |-> r.open] /\ ~r.open
  <2>1. PICK n, o : fileBreaker[f] = [failures |-> n, open |-> o]
    BY <1>2 DEF BreakersOpenFull
  <2>2. r = [[failures |-> n, open |-> o] EXCEPT !.open = FALSE]
    BY <1>3, <2>1, Zenon
  <2>3. r = [failures |-> n, open |-> FALSE]
    BY <2>2
  <2> QED  BY <2>3
<1>6. Tables' /\ BreakersOpenFull'
  BY <1>1, <1>2, <1>4, <1>5 DEF Tables, IsTable, indexStores, BreakersOpenFull
<1>7. \A g \in Paths \ spoiled' : g \notin spoiled /\ Kept(g)
  BY <1>1, <1>4, <1>5 DEF Kept, Due, Interfered, indexStores
<1> QED  BY <1>1, <1>2, <1>6, <1>7, Beside

LEMMA StrayWriteKeeps ==
    ASSUME IndexInv, NEW s \in stray, StrayWrite(s)
    PROVE  IndexInv'
<1>1. PICK g, c : g = s.file /\ c = s.text
  OBVIOUS
<1>2. /\ stray' = stray \ {s}
      /\ \/ (vector' = IF Size[c] = "small" THEN vector ELSE [vector EXCEPT ![g] = c]) /\ chunks' = chunks
         \/ chunks' = [chunks EXCEPT ![g] = c] /\ vector' = vector
         \/ /\ vector' = [f \in Paths |-> IF f \in {g} THEN Absent ELSE vector[f]]
            /\ chunks' = [f \in Paths |-> IF f \in {g} THEN Absent ELSE chunks[f]]
      /\ UNCHANGED <<disk, window, timer, batch, flight, fileBreaker, crawl, latch, backfill, analytics,
                     row, depEdges, scores, spoiled, unseen, spent>>
  BY <1>1 DEF StrayWrite, WriteRecord, WriteChunkRecords, DeleteRecords
<1>3. Tables /\ BreakersOpenFull /\ crawl \in [Crawlers -> Crawling]
      /\ (analytics.step = "off" => analytics.seen = {})
  BY DEF IndexInv, IndexTypes
<1>4. /\ IsTable(vector') /\ IsTable(chunks')
      /\ \A f \in Paths \ {g} : vector'[f] = vector[f] /\ chunks'[f] = chunks[f]
  <2>1. CASE (vector' = IF Size[c] = "small" THEN vector ELSE [vector EXCEPT ![g] = c]) /\ chunks' = chunks
    BY <1>3, <2>1 DEF Tables, IsTable
  <2>2. CASE chunks' = [chunks EXCEPT ![g] = c] /\ vector' = vector
    BY <1>3, <2>2 DEF Tables, IsTable
  <2>3. CASE /\ vector' = [f \in Paths |-> IF f \in {g} THEN Absent ELSE vector[f]]
             /\ chunks' = [f \in Paths |-> IF f \in {g} THEN Absent ELSE chunks[f]]
    BY <2>3 DEF IsTable
  <2> QED  BY <1>2, <2>1, <2>2, <2>3
<1>5. Tables' /\ BreakersOpenFull'
  BY <1>2, <1>3, <1>4 DEF Tables, IsTable, BreakersOpenFull
<1>6. ASSUME NEW f \in Paths \ spoiled' PROVE f \notin spoiled /\ Kept(f)
  <2>1. f \notin spoiled /\ f # g
    <3>1. f \notin spoiled
      BY <1>2, <1>6
    <3>2. ~Interfered(f)
      BY <3>1 DEF IndexInv, FileFits
    <3> QED  BY <1>1, <3>1, <3>2 DEF Interfered
  <2>2. Interfered(f)' => Interfered(f)
    BY <1>2 DEF Interfered
  <2> QED  BY <1>2, <1>4, <2>1, <2>2 DEF Kept, Due
<1> QED  BY <1>2, <1>3, <1>5, <1>6, Beside

\* A step that writes to no store, with the crawl and the spoiled files.
LEMMA StoresStay ==
    ASSUME IndexInv, UNCHANGED <<disk, window, timer, batch, flight, unseen, fileBreaker, analytics, indexStores>>,
           crawl' \in [Crawlers -> Crawling],
           \A f \in Paths \ spoiled' : f \notin spoiled /\ (Interfered(f)' => Interfered(f))
    PROVE  IndexInv'
<1>1. Tables' /\ BreakersOpenFull' /\ (analytics'.step = "off" => analytics'.seen = {})
  BY DEF IndexInv, IndexTypes, Tables, IsTable, BreakersOpenFull, indexStores
<1>2. \A f \in Paths \ spoiled' : f \notin spoiled /\ Kept(f)
  BY DEF Kept, Due, indexStores
<1> QED  BY <1>1, <1>2, Beside

LEMMA StartCrawlKeeps ==
    ASSUME IndexInv, NEW k \in Crawlers, StartCrawl(k)
    PROVE  IndexInv'
<1>1. /\ crawl' = [crawl EXCEPT ![k].step = "preflight"]
      /\ UNCHANGED <<batch, disk, window, timer, flight, fileBreaker, backfill, analytics, stray, unseen,
                     indexStores, spoiled>>
  BY DEF StartCrawl, UnchangedByCrawl
<1>2. "preflight" \notin StoreSteps
  BY DEF StoreSteps
<1>3. crawl' \in [Crawlers -> Crawling] /\ \A f : Interfered(f)' => Interfered(f)
  BY <1>1, <1>2, CrawlStep
<1> QED  BY <1>1, <1>3, StoresStay

\* A crawler that puts its file aside.
LEMMA CrawlTurns ==
    ASSUME IndexInv, NEW k \in Crawlers, UNCHANGED <<batch, indexStores>>, UnchangedByCrawl,
           NEW c \in Crawling, crawl' = [crawl EXCEPT ![k] = c],
           \A f \in Paths \ spoiled' : f \notin spoiled /\ (c.step \in StoreSteps => c.file # f)
    PROVE  IndexInv'
<1>1. UNCHANGED <<batch, disk, window, timer, flight, fileBreaker, backfill, analytics, stray, unseen, indexStores>>
  BY DEF UnchangedByCrawl
<1>2. crawl \in [Crawlers -> Crawling]
  BY DEF IndexInv, IndexTypes
<1>3. /\ crawl' \in [Crawlers -> Crawling] /\ crawl'[k] = c
      /\ \A j \in Crawlers \ {k} : crawl'[j] = crawl[j]
  BY <1>2
<1>4. \A f \in Paths \ spoiled' : f \notin spoiled /\ (Interfered(f)' => Interfered(f))
  BY <1>1, <1>3 DEF Interfered, StoreSteps
<1> QED  BY <1>1, <1>3, <1>4, StoresStay

LEMMA CrawlWriteKeeps ==
    ASSUME IndexInv, NEW k \in Crawlers, CrawlWrite(k)
    PROVE  IndexInv'
<1>1. PICK g, c : g = crawl[k].file /\ c = crawl[k].text
  OBVIOUS
<1>2. PICK step \in StoreSteps \cup {"next"} :
          /\ crawl[k].step \in StoreSteps /\ crawl' = [crawl EXCEPT ![k].step = step]
          /\ row' = row \/ row' = [row EXCEPT ![g] = Unhashed]
          /\ depEdges' = depEdges \/ depEdges' = [depEdges EXCEPT ![g] = c]
          /\ vector' = vector \/ vector' = [vector EXCEPT ![g] = c]
          /\ chunks' = chunks \/ chunks' = [chunks EXCEPT ![g] = c]
  <2>1. CASE /\ crawl[k].step = "row" /\ row' = [row EXCEPT ![g] = Unhashed]
             /\ crawl' = [crawl EXCEPT ![k].step = "deps"] /\ UNCHANGED <<depEdges, vector, chunks>>
    BY <2>1 DEF StoreSteps
  <2>2. CASE /\ crawl[k].step = "deps" /\ UpsertDependencies(g, c)
             /\ crawl' = [crawl EXCEPT ![k].step = "vector"] /\ UNCHANGED <<row, vector, chunks>>
    BY <2>2 DEF StoreSteps, UpsertDependencies
  <2>3. CASE /\ crawl[k].step = "vector" /\ WriteRecord(g, c)
             /\ crawl' = [crawl EXCEPT ![k].step = IF HasChunks(c) THEN "chunks" ELSE "next"]
             /\ UNCHANGED <<row, depEdges, chunks>>
    <3>1. PICK step : step = IF HasChunks(c) THEN "chunks" ELSE "next"
      OBVIOUS
    <3>2. step \in StoreSteps \cup {"next"} /\ crawl' = [crawl EXCEPT ![k].step = step]
      BY <2>3, <3>1 DEF StoreSteps
    <3> QED  BY <2>3, <3>2 DEF StoreSteps, WriteRecord
  <2>4. CASE /\ crawl[k].step = "chunks" /\ WriteChunkRecords(g, c)
             /\ crawl' = [crawl EXCEPT ![k].step = "next"] /\ UNCHANGED <<row, depEdges, vector>>
    BY <2>4 DEF StoreSteps, WriteChunkRecords
  <2> QED  BY <1>1, <2>1, <2>2, <2>3, <2>4 DEF CrawlWrite, UpsertIndexedFile
<1>3. UNCHANGED <<latch, batch, scores, spoiled, spent, disk, window, timer, flight, fileBreaker, backfill,
                  analytics, stray, unseen>>
  BY DEF CrawlWrite, UnchangedByCrawl
<1>4. Tables /\ BreakersOpenFull /\ (analytics.step = "off" => analytics.seen = {})
  BY DEF IndexInv, IndexTypes
<1>5. /\ IsTable(row') /\ IsTable(depEdges') /\ IsTable(vector') /\ IsTable(chunks')
      /\ \A f \in Paths \ {g} : /\ row'[f] = row[f] /\ depEdges'[f] = depEdges[f]
                                /\ vector'[f] = vector[f] /\ chunks'[f] = chunks[f]
  <2>1. IsTable(row') /\ \A f \in Paths \ {g} : row'[f] = row[f]
    BY <1>2, <1>4 DEF Tables, IsTable
  <2>2. IsTable(depEdges') /\ \A f \in Paths \ {g} : depEdges'[f] = depEdges[f]
    BY <1>2, <1>4 DEF Tables, IsTable
  <2>3. IsTable(vector') /\ \A f \in Paths \ {g} : vector'[f] = vector[f]
    BY <1>2, <1>4 DEF Tables, IsTable
  <2>4. IsTable(chunks') /\ \A f \in Paths \ {g} : chunks'[f] = chunks[f]
    BY <1>2, <1>4 DEF Tables, IsTable
  <2> QED  BY <2>1, <2>2, <2>3, <2>4
<1>6. Tables' /\ BreakersOpenFull'
  BY <1>3, <1>4, <1>5 DEF Tables, IsTable, BreakersOpenFull
<1>7. crawl' \in [Crawlers -> Crawling] /\ \A f : Interfered(f)' => Interfered(f)
  BY <1>2, <1>3, CrawlStep
<1>8. ASSUME NEW f \in Paths \ spoiled' PROVE f \notin spoiled /\ Kept(f)
  <2>1. f \notin spoiled /\ ~Interfered(f)
    BY <1>3, <1>8 DEF IndexInv, FileFits
  <2>2. f # g
    BY <1>1, <1>2, <2>1 DEF Interfered, StoreSteps
  <2> QED  BY <1>3, <1>5, <1>7, <2>1, <2>2 DEF Kept, Due
<1> QED  BY <1>3, <1>4, <1>6, <1>7, <1>8, Beside

LEMMA VisitKeeps ==
    ASSUME IndexInv, NEW k \in Crawlers, NEW f \in Paths, Visit(k, f)
    PROVE  IndexInv'
<1>1. crawl \in [Crawlers -> Crawling] /\ disk[f] \in Revisions \cup {Absent}
  BY DEF IndexInv, IndexTypes
<1>2. PICK c : c = [step |-> IF disk[f] = Absent THEN "next" ELSE "row",
                    todo |-> crawl[k].todo \ {f}, file |-> f, text |-> disk[f]]
  OBVIOUS
<1>3. /\ crawl' = [crawl EXCEPT ![k] = c] /\ UNCHANGED <<batch, indexStores>> /\ UnchangedByCrawl
      /\ spoiled' = spoiled \cup IF disk[f] = Absent THEN {} ELSE {f}
  BY <1>1, <1>2 DEF Visit, Spoil
<1>4. c \in Crawling /\ (c.step \in StoreSteps => disk[f] # Absent) /\ c.file = f
  <2>1. crawl[k].todo \in SUBSET Paths
    BY <1>1 DEF Crawling
  <2> QED  BY <1>1, <1>2, <2>1 DEF Crawling, StoreSteps
<1>5. \A g \in Paths \ spoiled' : g \notin spoiled /\ (c.step \in StoreSteps => c.file # g)
  BY <1>3, <1>4
<1> QED  BY <1>3, <1>4, <1>5, CrawlTurns

LEMMA WalkKeeps ==
    ASSUME IndexInv, NEW k \in Crawlers, Walk(k)
    PROVE  IndexInv'
<1>1. crawl \in [Crawlers -> Crawling]
  BY DEF IndexInv, IndexTypes
<1>2. ASSUME NEW step \in {"erring", "next"}, crawl' = [crawl EXCEPT ![k].step = step], UnchangedByCrawl,
             UNCHANGED <<batch, indexStores, spoiled>>
      PROVE  IndexInv'
  <2>1. step \notin StoreSteps
    BY DEF StoreSteps
  <2>2. UNCHANGED <<disk, window, timer, flight, fileBreaker, backfill, analytics, stray, unseen>>
    BY <1>2 DEF UnchangedByCrawl
  <2>3. crawl' \in [Crawlers -> Crawling] /\ \A f : Interfered(f)' => Interfered(f)
    BY <1>2, <2>1, <2>2, CrawlStep
  <2> QED  BY <1>2, <2>2, <2>3, StoresStay
<1>3. ASSUME NEW todo \in SUBSET Paths, NEW step \in {"off", "next"}, UnchangedByCrawl,
             crawl' = [crawl EXCEPT ![k] = [Off EXCEPT !.step = step, !.todo = todo]],
             UNCHANGED <<batch, indexStores, spoiled>>
      PROVE  IndexInv'
  <2>1. PICK c : c = [Off EXCEPT !.step = step, !.todo = todo]
    OBVIOUS
  <2>2. c \in Crawling /\ c.step \notin StoreSteps
    BY <2>1 DEF Crawling, StoreSteps, Off
  <2> QED  BY <1>3, <2>1, <2>2, CrawlTurns
<1>4. ASSUME NEW complete, CrawlEnds(k, complete), UnchangedByCrawl, UNCHANGED <<batch, indexStores, spoiled>>
      PROVE  IndexInv'
  <2>1. Off \in Crawling /\ Off.step \notin StoreSteps
    BY DEF Crawling, StoreSteps, Off
  <2> QED  BY <1>4, <2>1, CrawlTurns DEF CrawlEnds
<1>5. CASE PreflightFails(k)
  BY <1>2, <1>4, <1>5 DEF PreflightFails
<1>6. CASE Collect(k)
  <2>1. PICK eligible \in SUBSET Paths : eligible = {f \in Paths : disk[f] # Absent}
    OBVIOUS
  <2>2. UnchangedByCrawl /\ UNCHANGED <<batch, indexStores, spoiled>>
    BY <1>6 DEF Collect
  <2>3. \/ CrawlEnds(k, TRUE) \/ CrawlEnds(k, FALSE)
        \/ crawl' = [crawl EXCEPT ![k] = [Off EXCEPT !.step = "next", !.todo = eligible]]
    BY <1>6, <2>1, Zenon DEF Collect
  <2>4. CASE crawl' = [crawl EXCEPT ![k] = [Off EXCEPT !.step = "next", !.todo = eligible]]
    BY <1>3, <2>2, <2>4
  <2> QED  BY <1>4, <2>2, <2>3, <2>4
<1>7. CASE CrawlWrite(k)
  BY <1>7, CrawlWriteKeeps
<1>8. CASE CrawlSkips(k)
  BY <1>2, <1>8 DEF CrawlSkips
<1>9. CASE CrawlDone(k)
  BY <1>4, <1>9 DEF CrawlDone
<1>10. CASE \E f \in Paths : Visit(k, f)
  BY <1>10, VisitKeeps
<1> QED  BY <1>5, <1>6, <1>7, <1>8, <1>9, <1>10 DEF Walk

LEMMA BackfillKeeps ==
    ASSUME IndexInv, Backfill
    PROVE  IndexInv'
<1>1. UNCHANGED <<disk, window, timer, batch, flight, fileBreaker, crawl, latch, stray, row, depEdges,
                  unseen, analytics, vector, scores>>
  BY DEF Backfill, UnchangedBeside
<1>2. Tables /\ BreakersOpenFull /\ crawl \in [Crawlers -> Crawling]
      /\ (analytics.step = "off" => analytics.seen = {})
  BY DEF IndexInv, IndexTypes
<1>3. CASE \E f \in Paths :
               /\ backfill = NoFlight /\ UNCHANGED chunks
               /\ backfill' = [step |-> "chunks", file |-> f, text |-> disk[f]] /\ Spoil({f})
  <2>1. PICK f \in Paths : backfill'.file = f /\ UNCHANGED chunks /\ spoiled' = spoiled \cup {f}
    BY <1>3 DEF Spoil
  <2>2. \A g \in Paths \ spoiled' : g \notin spoiled /\ (Interfered(g)' => Interfered(g))
    BY <1>1, <2>1 DEF Interfered
  <2> QED  BY <1>1, <1>2, <2>1, <2>2, StoresStay DEF indexStores
<1>4. CASE /\ backfill # NoFlight /\ chunks' = [chunks EXCEPT ![backfill.file] = backfill.text]
           /\ backfill' = NoFlight /\ UNCHANGED spoiled
  <2>1. PICK g, c : g = backfill.file /\ c = backfill.text
    OBVIOUS
  <2>2. chunks' = [chunks EXCEPT ![g] = c]
    BY <1>4, <2>1
  <2>3. IsTable(chunks') /\ \A f \in Paths \ {g} : chunks'[f] = chunks[f]
    BY <1>2, <2>2 DEF Tables, IsTable
  <2>4. Tables' /\ BreakersOpenFull'
    BY <1>1, <1>2, <2>3 DEF Tables, IsTable, BreakersOpenFull
  <2>5. ASSUME NEW f \in Paths \ spoiled' PROVE f \notin spoiled /\ Kept(f)
    <3>1. f \notin spoiled /\ ~Interfered(f)
      BY <1>4, <2>5 DEF IndexInv, FileFits
    <3>2. f # g
      BY <2>1, <3>1 DEF Interfered
    <3>3. Interfered(f)' => Interfered(f)
      BY <1>1, <1>4, Sentinels DEF Interfered
    <3> QED  BY <1>1, <2>3, <3>1, <3>2, <3>3 DEF Kept, Due
  <2> QED  BY <1>1, <1>2, <2>4, <2>5, Beside
<1> QED  BY <1>3, <1>4 DEF Backfill, WriteChunkRecords

LEMMA JanitorKeeps ==
    ASSUME IndexInv, Janitor
    PROVE  IndexInv'
<1>1. PICK gone : /\ DeleteRecords(gone) /\ Spoil(gone) /\ UNCHANGED <<backfill, analytics, scores>>
                  /\ UnchangedBeside
  BY DEF Janitor
<1>2. /\ vector' = [f \in Paths |-> IF f \in gone THEN Absent ELSE vector[f]]
      /\ chunks' = [f \in Paths |-> IF f \in gone THEN Absent ELSE chunks[f]]
      /\ spoiled' = spoiled \cup gone
      /\ UNCHANGED <<disk, window, timer, batch, flight, fileBreaker, crawl, latch, stray, row, depEdges,
                     unseen, backfill, analytics, scores>>
  BY <1>1 DEF DeleteRecords, Spoil, UnchangedBeside
<1>3. Tables /\ BreakersOpenFull /\ crawl \in [Crawlers -> Crawling]
      /\ (analytics.step = "off" => analytics.seen = {})
  BY DEF IndexInv, IndexTypes
<1>4. IsTable(vector') /\ IsTable(chunks')
  BY <1>2 DEF IsTable
<1>5. Tables' /\ BreakersOpenFull'
  BY <1>2, <1>3, <1>4 DEF Tables, IsTable, BreakersOpenFull
<1>6. ASSUME NEW f \in Paths \ spoiled' PROVE f \notin spoiled /\ Kept(f)
  <2>1. f \notin spoiled /\ f \notin gone
    BY <1>2, <1>6
  <2>2. Interfered(f)' => Interfered(f)
    BY <1>2 DEF Interfered
  <2> QED  BY <1>2, <2>1, <2>2 DEF Kept, Due
<1> QED  BY <1>2, <1>3, <1>5, <1>6, Beside

LEMMA AnalyseKeeps ==
    ASSUME IndexInv, Analyse
    PROVE  IndexInv'
<1>1. UNCHANGED <<disk, window, timer, batch, flight, fileBreaker, crawl, latch, stray, row, depEdges,
                  unseen, backfill, vector, chunks, spoiled, spent>>
  BY DEF Analyse, UnchangedBeside
<1>2. Tables /\ BreakersOpenFull /\ crawl \in [Crawlers -> Crawling]
      /\ (analytics.step = "off" => analytics.seen = {})
  BY DEF IndexInv, IndexTypes
<1>3. /\ \A f \in Paths : depEdges[f] # Absent /\ Due(f) => Due(f)'
      /\ analytics'.step = "off" => analytics'.seen = {}
  <2>1. CASE /\ analytics.step = "sleep" /\ UNCHANGED scores
             /\ analytics' = IF {f \in Paths : depEdges[f] # Absent} = {} THEN [step |-> "off", seen |-> {}]
                             ELSE [step |-> "compute", seen |-> {f \in Paths : depEdges[f] # Absent}]
    BY <1>1, <2>1 DEF Due
  <2>2. CASE /\ analytics.step = "compute" /\ scores' = scores \cup analytics.seen
             /\ analytics' = [step |-> "off", seen |-> {}]
    BY <1>1, <2>2 DEF Due
  <2> QED  BY <2>1, <2>2 DEF Analyse
<1>4. Tables' /\ BreakersOpenFull'
  BY <1>1, <1>2 DEF Tables, IsTable, BreakersOpenFull
<1>5. \A f \in Paths \ spoiled' : f \notin spoiled /\ Kept(f)
  BY <1>1, <1>3 DEF Kept, Interfered
<1> QED  BY <1>1, <1>2, <1>3, <1>4, <1>5, Beside

(***************************************************************************)
(* The index.                                                              *)
(***************************************************************************)
LEMMA IndexInitFits == IndexInit => IndexInv
<1> SUFFICES ASSUME IndexInit PROVE IndexInv
  OBVIOUS
<1>1. IndexTypes
  <2>1. Tables /\ BreakersOpenFull
    BY DEF IndexInit, Tables, IsTable, BreakersOpenFull
  <2>2. FlightShape
    BY Sentinels DEF IndexInit, FlightShape, PurgeSteps, WriteSteps
  <2>3. crawl \in [Crawlers -> Crawling]
    <3>1. Off \in Crawling
      BY DEF Off, Crawling
    <3> QED  BY <3>1 DEF IndexInit
  <2> QED  BY <2>1, <2>2, <2>3 DEF IndexInit, IndexTypes
<1>2. FlushKeepsTime
  BY DEF IndexInit, FlushKeepsTime
<1>3. Told
  BY Sentinels DEF IndexInit, Told, EventsTell, FlightTells
<1>4. ASSUME NEW f \in Paths PROVE FileFits(f)
  <2>1. ~Interfered(f)
    BY Sentinels DEF IndexInit, Interfered, Off
  <2>2. Coherent(f) /\ RowFits(f) /\ ~fileBreaker[f].open /\ flight.file # f
    BY Sentinels DEF IndexInit, Coherent, RowFits
  <2> QED  BY <2>1, <2>2 DEF FileFits
<1> QED  BY <1>1, <1>2, <1>3, <1>4 DEF IndexInv

LEMMA IndexStutters ==
    ASSUME IndexInv, UNCHANGED indexVars
    PROVE  IndexInv'
<1>1. UNCHANGED <<disk, window, timer, batch, flight, unseen, fileBreaker, analytics, indexStores, crawl,
                  backfill, stray, spoiled>>
  BY DEF indexVars
<1>2. crawl' \in [Crawlers -> Crawling] /\ \A f \in Paths : Interfered(f)' => Interfered(f)
  BY <1>1 DEF IndexInv, IndexTypes, Interfered
<1> QED  BY <1>1, <1>2, StoresStay

LEMMA IndexNextKeeps ==
    ASSUME IndexInv, IndexNext
    PROVE  IndexInv'
<1>1. CASE FlushStep
  BY <1>1, CloseKeeps, DispatchKeeps, DrainedKeeps, FlightStepKeeps, MassChangeKeeps DEF FlushStep
<1>2. CASE \E f \in Paths, c \in Revisions : Save(f, c)
  BY <1>2, SaveKeeps
<1>3. CASE \E f \in Paths, c \in Revisions \cup {Absent} : LoseEvent(f, c)
  BY <1>3, LoseEventKeeps
<1>4. CASE \E f \in Paths : Delete(f) \/ CoolDown(f) \/ \E g \in Paths : Rename(f, g)
  BY <1>4, DeleteKeeps, CoolDownKeeps, RenameKeeps
<1>5. CASE \E k \in Crawlers : StartCrawl(k) \/ Walk(k)
  BY <1>5, StartCrawlKeeps, WalkKeeps
<1>6. CASE \E s \in stray : StrayWrite(s)
  BY <1>6, StrayWriteKeeps
<1>7. CASE Analyse \/ Backfill \/ Janitor
  BY <1>7, AnalyseKeeps, BackfillKeeps, JanitorKeeps
<1> QED  BY <1>1, <1>2, <1>3, <1>4, <1>5, <1>6, <1>7 DEF IndexNext

LEMMA IndexInvExact == IndexInv => IndexIsExact
<1> SUFFICES ASSUME IndexInv, Quiet, NEW f \in Paths \ (spoiled \cup unseen)
             PROVE  AgreesWithDisk(f)
  BY DEF IndexIsExact
<1>1. timer = "none" /\ analytics.step = "off" /\ analytics.seen = {}
  BY DEF Quiet, IndexInv, IndexTypes
<1>2. window = <<>> /\ batch = <<>> /\ flight = NoFlight /\ flight.file # f
  BY <1>1, Sentinels DEF IndexInv, FlushKeepsTime
<1>3. ~Awaited(f)
  BY <1>2 DEF Awaited, Holds
<1>4. Coherent(f) /\ RowFits(f)
  BY <1>2, <1>3 DEF IndexInv, FileFits
<1>5. disk[f] \in Revisions \cup {Absent}
  BY DEF IndexInv, IndexTypes
<1>6. CASE disk[f] = Absent
  BY <1>4, <1>6, Sentinels DEF Coherent, RowFits, AgreesWithDisk
<1>7. CASE disk[f] # Absent
  <2>1. PICK c \in Revisions : c = disk[f]
    BY <1>5, <1>7
  <2>2. row[f] = c /\ DepsFit(f, c) /\ VectorFits(f, c) /\ ChunksFit(f, c)
    BY <1>4, <1>7, <2>1, Sentinels DEF Coherent, RowFits
  <2> QED  BY <1>1, <1>7, <2>1, <2>2 DEF DepsFit, Due, VectorFits, ChunksFit, AgreesWithDisk
<1> QED  BY <1>6, <1>7

\* When the coalescer and the graph pass are at rest, a file whose last change
\* was told of and whose last pass nothing cut off, failed or interfered with
\* agrees with the disk, for any number of files and crawlers: its row has the
\* hash of its bytes and vouches for edges, score, vector and chunks where those
\* bytes call for them.  What the bytes do not call for may have stayed from an
\* earlier revision (io_coalescer.py, indexer.py).
THEOREM IndexComesRight == IndexSpec => []IndexIsExact
<1>1. IndexInit => IndexInv
  BY IndexInitFits
<1>2. IndexInv /\ [IndexNext]_indexVars => IndexInv'
  BY IndexNextKeeps, IndexStutters
<1>3. IndexInv => IndexIsExact
  BY IndexInvExact
<1> QED  BY <1>1, <1>2, <1>3, PTL DEF IndexSpec

(****************************************************************************)
(* Cached project rules (Firewall)                                         *)
(*                                                                         *)
(* For every number of projects, callers and saves: a key stands for one   *)
(* project's patterns.                                                     *)
(****************************************************************************)
ReadStages == {"load", "publish", "compile", "decide", "ignore", "fit", "fetch", "done"}
Verdicts == {"none", "PATH_ESCAPE", "FILE_EXCLUDED", "FILE_IGNORED", "BINARY_FILE",
             "FILE_TOO_LARGE", "MINIFIED", "content", "READ_ERROR"}
Scopes == Projects \cup {"global"}
RuleKeys == SUBSET (Scopes \X Nat)
Excludes == SUBSET UNION Patterns
RuleFiles == [mtime : Nat, excl : Excludes]
ReadRecords == [pc : ReadStages, project : Projects, kind : {"rules", "read"},
                file : Files \cup {""}, key : RuleKeys, excl : Excludes, verdict : Verdicts]

\* No key holds a modification time that is still to come.
KeyIsPast(key) ==
    \A path \in key : path[2] <= IF path[1] = "global" THEN global.mtime ELSE rules[path[1]].mtime

FirewallTypes ==
    /\ rules \in [Projects -> RuleFiles]
    /\ global \in RuleFiles
    /\ mgr \in [key : RuleKeys \cup {NoKey}, primed : BOOLEAN, spec : Excludes]
    /\ reading \in [Callers -> ReadRecords \cup {NoCall}]
    /\ overlapped \in BOOLEAN

KeysArePast ==
    /\ mgr.primed => mgr.key \in RuleKeys /\ KeyIsPast(mgr.key)
    /\ \A c \in Callers : Inside(c) => KeyIsPast(reading[c].key)

\* The patterns are those of every project whose rule files have this key.
Describes(excl, key) ==
    \A q \in Projects : CacheKey(q) = key => excl = MergeExcludePatterns(q, key)

\* What a lone caller has in hand, step by step.
LoneCallerIsRight ==
    /\ \A c, d \in Callers : Inside(c) /\ Inside(d) => c = d
    /\ \A c \in Callers : reading[c].pc = "load" =>
           Names(reading[c].key) \subseteq {reading[c].project, "global"}
    /\ \A c \in Callers : reading[c].pc \in {"publish", "compile"} =>
           Describes(reading[c].excl, reading[c].key)
    /\ \A c \in Callers : reading[c].pc = "compile" => mgr.key = reading[c].key
    /\ (\A c \in Callers : reading[c].pc # "compile") /\ mgr.primed => Describes(mgr.spec, mgr.key)

FirewallInv == FirewallTypes /\ KeysArePast /\ (~overlapped => LoneCallerIsRight)

LEMMA FirewallInitially == FirewallInit => FirewallInv
<1> SUFFICES ASSUME FirewallInit PROVE FirewallInv
  OBVIOUS
<1>1. \A c \in Callers : reading[c].pc = "idle"
  BY DEF FirewallInit, NoCall
<1>2. FirewallTypes
  BY DEF FirewallInit, FirewallTypes, RuleFiles, Excludes
<1>3. ~mgr.primed
  BY DEF FirewallInit
<1> QED  BY <1>1, <1>2, <1>3 DEF FirewallInv, KeysArePast, LoneCallerIsRight, Inside

LEMMA KeyOfTheMoment ==
    ASSUME FirewallTypes, NEW p \in Projects
    PROVE  /\ CacheKey(p) \in RuleKeys /\ KeyIsPast(CacheKey(p))
           /\ Names(CacheKey(p)) \subseteq {p, "global"}
           /\ p \in Names(CacheKey(p)) <=> rules[p].mtime > 0
<1>1. rules[p] \in RuleFiles /\ global \in RuleFiles
  BY DEF FirewallTypes
<1>2. p # "global"
  BY FirewallAssumption
<1>3. rules[p].mtime \in Nat /\ global.mtime \in Nat
  BY <1>1 DEF RuleFiles
<1>4. \A path \in CacheKey(p) :
         \/ path = <<p, rules[p].mtime>> /\ rules[p].mtime > 0
         \/ path = <<"global", global.mtime>>
  BY DEF CacheKey, CandidatePaths
<1>5. CacheKey(p) \in RuleKeys
  BY <1>3, <1>4 DEF RuleKeys, Scopes
<1>6. KeyIsPast(CacheKey(p))
  <2> SUFFICES ASSUME NEW path \in CacheKey(p)
               PROVE  path[2] <= IF path[1] = "global" THEN global.mtime ELSE rules[path[1]].mtime
    BY DEF KeyIsPast
  <2>1. CASE path = <<p, rules[p].mtime>>
    BY <1>2, <1>3, <2>1
  <2>2. CASE path = <<"global", global.mtime>>
    BY <1>3, <2>2
  <2> QED  BY <1>4, <2>1, <2>2
<1>7. Names(CacheKey(p)) \subseteq {p, "global"}
  BY <1>4 DEF Names
<1>8. p \in Names(CacheKey(p)) => rules[p].mtime > 0
  BY <1>2, <1>4 DEF Names
<1>9. rules[p].mtime > 0 => p \in Names(CacheKey(p))
  <2> SUFFICES ASSUME rules[p].mtime > 0 PROVE p \in Names(CacheKey(p))
    OBVIOUS
  <2>1. <<p, rules[p].mtime>> \in CacheKey(p)
    BY DEF CacheKey, CandidatePaths
  <2>2. <<p, rules[p].mtime>>[1] \in Names(CacheKey(p))
    BY <2>1 DEF Names
  <2> QED  BY <2>2
<1> QED  BY <1>5, <1>6, <1>7, <1>8, <1>9

LEMMA MergedExcludes ==
    ASSUME FirewallTypes, NEW p \in Projects, NEW key
    PROVE  MergeExcludePatterns(p, key) \in Excludes
BY DEF FirewallTypes, RuleFiles, Excludes, MergeExcludePatterns

\* What is loaded for one project is right for every project of the same key.
LEMMA LoadedDescribes ==
    ASSUME FirewallTypes, NEW p \in Projects, NEW key \in RuleKeys, Names(key) \subseteq {p, "global"}
    PROVE  Describes(MergeExcludePatterns(p, key), key)
<1> SUFFICES ASSUME NEW q \in Projects, CacheKey(q) = key
             PROVE  MergeExcludePatterns(p, key) = MergeExcludePatterns(q, key)
  BY DEF Describes
<1>1. q # "global" /\ p # "global" /\ Names(key) \subseteq {q, "global"}
  BY KeyOfTheMoment, FirewallAssumption
<1>2. CASE q \in Names(key)
  BY <1>1, <1>2
<1>3. CASE q \notin Names(key)
  BY <1>1, <1>3 DEF MergeExcludePatterns
<1> QED  BY <1>2, <1>3

\* When a rule file is written, what is known under an old key is still right.
LEMMA RewriteKeeps ==
    ASSUME FirewallTypes, NEW excl \in Excludes, NEW key \in RuleKeys,
           NEW old, KeyIsPast(key), Describes(old, key),
           \/ /\ \E p \in Projects :
                    rules' = [rules EXCEPT ![p] = [mtime |-> @.mtime + 1, excl |-> excl]]
              /\ global' = global
           \/ /\ rules' = rules
              /\ global' = [mtime |-> global.mtime + 1, excl |-> excl]
    PROVE  Describes(old, key)'
<1> SUFFICES ASSUME NEW q \in Projects, CacheKey(q)' = key
             PROVE  old = MergeExcludePatterns(q, key)'
  BY DEF Describes
<1>0. global \in RuleFiles /\ rules[q] \in RuleFiles /\ q # "global"
  BY FirewallAssumption DEF FirewallTypes
<1>1. CASE rules' = rules /\ global' = [mtime |-> global.mtime + 1, excl |-> excl]
  <2>1. global'.mtime = global.mtime + 1 /\ global.mtime \in Nat
    BY <1>0, <1>1 DEF RuleFiles
  <2>2. <<"global", global.mtime + 1>> \in key
    BY <2>1 DEF CacheKey, CandidatePaths
  <2>3. global.mtime + 1 <= global.mtime
    BY <2>2 DEF KeyIsPast
  <2> QED  BY <2>1, <2>3
<1>2. ASSUME NEW p \in Projects, global' = global,
             rules' = [rules EXCEPT ![p] = [mtime |-> @.mtime + 1, excl |-> excl]]
      PROVE  old = MergeExcludePatterns(q, key)'
  <2>1. CASE q = p
    <3>1. rules'[p].mtime = rules[p].mtime + 1 /\ rules[p].mtime \in Nat
      BY <1>0, <1>2 DEF RuleFiles, FirewallTypes
    <3>2. <<p, rules[p].mtime + 1>> \in key
      BY <2>1, <3>1 DEF CacheKey, CandidatePaths
    <3>3. rules[p].mtime + 1 <= rules[p].mtime
      BY <1>0, <2>1, <3>2 DEF KeyIsPast
    <3> QED  BY <3>1, <3>3
  <2>2. CASE q # p
    <3>1. rules'[q] = rules[q]
      BY <1>2, <2>2 DEF FirewallTypes
    <3>2. CacheKey(q)' = CacheKey(q) /\ MergeExcludePatterns(q, key)' = MergeExcludePatterns(q, key)
      BY <1>2, <3>1 DEF CacheKey, CandidatePaths, MergeExcludePatterns
    <3> QED  BY <3>2 DEF Describes
  <2> QED  BY <2>1, <2>2
<1> QED  BY <1>1, <1>2

\* The mtimes only grow.
LEMMA KeysStayPast ==
    ASSUME FirewallTypes, NEW key \in RuleKeys, KeyIsPast(key),
           \A q \in Projects : rules'[q].mtime \in Nat /\ rules[q].mtime <= rules'[q].mtime,
           global'.mtime \in Nat, global.mtime <= global'.mtime
    PROVE  KeyIsPast(key)'
<1> SUFFICES ASSUME NEW path \in key
             PROVE  path[2] <= IF path[1] = "global" THEN global'.mtime ELSE rules'[path[1]].mtime
  BY DEF KeyIsPast
<1>1. path[1] \in Scopes /\ path[2] \in Nat
  BY DEF RuleKeys
<1>2. path[2] <= IF path[1] = "global" THEN global.mtime ELSE rules[path[1]].mtime
  BY DEF KeyIsPast
<1>3. global.mtime \in Nat /\ \A q \in Projects : rules[q].mtime \in Nat
  BY DEF FirewallTypes, RuleFiles
<1> QED  BY <1>1, <1>2, <1>3 DEF Scopes

LEMMA CallIsRecord ==
    ASSUME FirewallTypes, NEW c \in Callers, reading[c].pc # "idle"
    PROVE  reading[c] \in ReadRecords /\ reading[c].key \in RuleKeys
<1>1. reading[c] \in ReadRecords
  BY DEF FirewallTypes, NoCall
<1> QED  BY <1>1 DEF ReadRecords

LEMMA Moving ==
    ASSUME FirewallTypes, NEW c \in Callers, reading[c].pc # "idle", NEW r \in ReadRecords,
           reading' = [reading EXCEPT ![c] = r]
    PROVE  /\ reading' \in [Callers -> ReadRecords \cup {NoCall}]
           /\ reading'[c] = r /\ \A d \in Callers \ {c} : reading'[d] = reading[d]
BY DEF FirewallTypes

LEMMA BeginKeeps ==
    ASSUME FirewallInv, NEW c \in Callers, NEW p \in Projects, NEW op \in {"rules", "read"},
           NEW f \in Files \cup {""}, BeginRead(c, p, op, f)
    PROVE  FirewallInv'
<1> USE DEF FirewallInv
<1>1. reading[c].pc = "idle" /\ UNCHANGED <<rules, global, ignores, ram, specs, mgr, changes>>
      /\ overlapped' = (overlapped \/ \E d \in Callers \ {c} : Inside(d))
  BY DEF BeginRead, fileVars
<1>2. PICK key \in RuleKeys :
         key = CacheKey(p) /\ KeyIsPast(key) /\ Names(key) \subseteq {p, "global"}
  BY KeyOfTheMoment
<1>3. PICK pc \in {"done", "load", "decide"}, v \in {"none", "PATH_ESCAPE"} :
        reading' = [reading EXCEPT ![c] =
            [pc |-> pc, project |-> p, kind |-> op, file |-> f, key |-> key, excl |-> {},
             verdict |-> v]]
  BY <1>2 DEF BeginRead
<1> DEFINE r == [pc |-> pc, project |-> p, kind |-> op, file |-> f, key |-> key, excl |-> {},
                 verdict |-> v]
<1>r. r.pc = pc /\ r.project = p /\ r.key = key
  OBVIOUS
<1>4. reading'[c] = r /\ \A d \in Callers \ {c} : reading'[d] = reading[d]
  BY <1>3 DEF FirewallTypes
<1>5. r \in ReadRecords
  <2>1. pc \in ReadStages /\ v \in Verdicts /\ {} \in Excludes
    BY DEF ReadStages, Verdicts, Excludes
  <2> QED  BY <1>2, <2>1 DEF ReadRecords
<1> HIDE DEF r
<1>6. FirewallTypes'
  BY <1>1, <1>3, <1>4, <1>5 DEF FirewallTypes
<1>7. KeysArePast'
  <2>1. KeyIsPast(key)'
    BY <1>1, <1>2 DEF KeyIsPast
  <2>2. \A d \in Callers : Inside(d)' => KeyIsPast(reading[d].key)'
    <3> SUFFICES ASSUME NEW d \in Callers, Inside(d)' PROVE KeyIsPast(reading[d].key)'
      OBVIOUS
    <3>1. CASE d = c
      BY <1>4, <1>r, <2>1, <3>1 DEF KeyIsPast
    <3>2. CASE d # c
      BY <1>1, <1>4, <3>2 DEF KeysArePast, KeyIsPast, Inside
    <3> QED  BY <3>1, <3>2
  <2>3. mgr.primed' => mgr.key' \in RuleKeys /\ KeyIsPast(mgr.key)'
    BY <1>1 DEF KeysArePast, KeyIsPast
  <2> QED  BY <2>2, <2>3 DEF KeysArePast
<1>8. ASSUME ~overlapped' PROVE LoneCallerIsRight'
  <2>1. ~overlapped /\ \A d \in Callers \ {c} : ~Inside(d)
    BY <1>1, <1>8
  <2>2. ~Inside(c) /\ \A d \in Callers : ~Inside(d)
    BY <1>1, <2>1 DEF Inside
  <2>3. \A d \in Callers : Inside(d)' => d = c
    BY <1>4, <2>1 DEF Inside
  <2>4. \A d \in Callers : reading[d].pc # "compile"
    BY <2>2 DEF Inside
  <2>5. mgr.primed => Describes(mgr.spec, mgr.key)
    BY <2>1, <2>4 DEF LoneCallerIsRight
  <2>6. mgr.primed' => Describes(mgr.spec, mgr.key)'
    BY <1>1, <2>5 DEF Describes, CacheKey, CandidatePaths, MergeExcludePatterns
  <2>7. \A d \in Callers : reading'[d].pc \notin {"publish", "compile"}
    <3>1. reading'[c].pc = pc
      BY <1>4, <1>r
    <3> QED  BY <2>3, <3>1 DEF Inside
  <2>8. \A d \in Callers : reading'[d].pc = "load" =>
            Names(reading'[d].key) \subseteq {reading'[d].project, "global"}
    <3> SUFFICES ASSUME NEW d \in Callers, reading'[d].pc = "load"
                 PROVE  Names(reading'[d].key) \subseteq {reading'[d].project, "global"}
      OBVIOUS
    <3>1. d = c
      BY <2>3 DEF Inside
    <3>2. reading'[c].key = key /\ reading'[c].project = p
      BY <1>4, <1>r
    <3> QED  BY <1>2, <3>1, <3>2
  <2> QED  BY <1>1, <2>3, <2>6, <2>7, <2>8 DEF LoneCallerIsRight
<1> QED  BY <1>6, <1>7, <1>8

\* The manager's key, spec and text, and the files, as a caller goes on that is
\* past the rules, or leaves them.
LEMMA PastTheRules ==
    ASSUME FirewallInv, NEW c \in Callers, NEW r \in ReadRecords,
           reading' = [reading EXCEPT ![c] = r], reading[c].pc \in ReadStages \ {"load", "publish", "compile"},
           r.pc \in {"ignore", "fit", "fetch", "done"},
           UNCHANGED <<fileVars, mgr, overlapped>>
    PROVE  FirewallInv'
<1> USE DEF FirewallInv
<1>1. /\ reading' \in [Callers -> ReadRecords \cup {NoCall}]
      /\ reading'[c] = r /\ \A d \in Callers \ {c} : reading'[d] = reading[d]
  BY DEF FirewallTypes
<1>2. FirewallTypes'
  BY <1>1 DEF FirewallTypes, fileVars
<1>3. KeysArePast'
  BY <1>1 DEF KeysArePast, KeyIsPast, Inside, fileVars
<1>4. ASSUME LoneCallerIsRight PROVE LoneCallerIsRight'
  BY <1>1, <1>4 DEF LoneCallerIsRight, Inside, Describes, CacheKey, CandidatePaths,
     MergeExcludePatterns, fileVars
<1> QED  BY <1>2, <1>3, <1>4

LEMMA ReturnKeeps ==
    ASSUME FirewallInv, NEW c \in Callers, Return(c)
    PROVE  FirewallInv'
<1> USE DEF FirewallInv
<1>1. /\ reading' \in [Callers -> ReadRecords \cup {NoCall}]
      /\ reading'[c].pc = "idle" /\ \A d \in Callers \ {c} : reading'[d] = reading[d]
  BY DEF FirewallTypes, Return, NoCall
<1>0. UNCHANGED <<rules, global, ignores, ram, mgr, overlapped>> /\ reading[c].pc = "done"
  BY DEF Return, fileVars
<1>2. FirewallTypes'
  BY <1>0, <1>1 DEF FirewallTypes
<1>3. KeysArePast'
  BY <1>0, <1>1 DEF KeysArePast, KeyIsPast, Inside
<1>4. ASSUME LoneCallerIsRight PROVE LoneCallerIsRight'
  BY <1>0, <1>1, <1>4 DEF LoneCallerIsRight, Inside, Describes, CacheKey, CandidatePaths,
     MergeExcludePatterns
<1> QED  BY <1>0, <1>2, <1>3, <1>4

LEMMA LoadKeeps ==
    ASSUME FirewallInv, NEW c \in Callers, Load(c)
    PROVE  FirewallInv'
<1> USE DEF FirewallInv
<1> DEFINE e == MergeExcludePatterns(reading[c].project, reading[c].key)
           r == [reading[c] EXCEPT !.pc = "publish", !.excl = e]
<1>0. UNCHANGED <<rules, global, ignores, ram, mgr, overlapped>> /\ reading[c].pc = "load"
      /\ reading' = [reading EXCEPT ![c] = r] /\ reading[c] \in ReadRecords
  BY CallIsRecord DEF Load, fileVars
<1>1. e \in Excludes /\ reading[c].project \in Projects /\ reading[c].key \in RuleKeys
  BY <1>0, MergedExcludes DEF ReadRecords
<1>2. /\ r \in ReadRecords /\ r.pc = "publish" /\ r.excl = e /\ r.key = reading[c].key
  BY <1>0, <1>1 DEF ReadRecords, ReadStages
<1>3. /\ reading' \in [Callers -> ReadRecords \cup {NoCall}]
      /\ reading'[c] = r /\ \A d \in Callers \ {c} : reading'[d] = reading[d]
  BY <1>0, <1>2, Moving
<1> HIDE DEF r, e
<1>4. FirewallTypes'
  BY <1>0, <1>3 DEF FirewallTypes
<1>5. KeysArePast'
  BY <1>0, <1>2, <1>3 DEF KeysArePast, KeyIsPast, Inside
<1>6. ASSUME LoneCallerIsRight PROVE LoneCallerIsRight'
  <2>1. Describes(e, reading[c].key)
    BY <1>0, <1>1, <1>6, LoadedDescribes DEF LoneCallerIsRight, e
  <2> QED  BY <1>0, <1>2, <1>3, <1>6, <2>1 DEF LoneCallerIsRight, Inside, Describes, CacheKey,
              CandidatePaths, MergeExcludePatterns
<1> QED  BY <1>0, <1>4, <1>5, <1>6

LEMMA PublishKeeps ==
    ASSUME FirewallInv, NEW c \in Callers, Publish(c)
    PROVE  FirewallInv'
<1> USE DEF FirewallInv
<1> DEFINE r == [reading[c] EXCEPT !.pc = "compile"]
<1>0. UNCHANGED <<rules, global, ignores, ram, overlapped>> /\ reading[c].pc = "publish"
      /\ reading' = [reading EXCEPT ![c] = r] /\ reading[c] \in ReadRecords
      /\ mgr' = [mgr EXCEPT !.key = reading[c].key, !.primed = TRUE]
  BY CallIsRecord DEF Publish, fileVars, Moves
<1>1. reading[c].key \in RuleKeys /\ KeyIsPast(reading[c].key)
  BY <1>0 DEF ReadRecords, KeysArePast, Inside
<1>2. /\ r \in ReadRecords /\ r.pc = "compile" /\ r.excl = reading[c].excl /\ r.key = reading[c].key
  BY <1>0 DEF ReadRecords, ReadStages
<1>3. /\ reading' \in [Callers -> ReadRecords \cup {NoCall}]
      /\ reading'[c] = r /\ \A d \in Callers \ {c} : reading'[d] = reading[d]
  BY <1>0, <1>2, Moving
<1>4. /\ mgr' \in [key : RuleKeys \cup {NoKey}, primed : BOOLEAN, spec : Excludes]
      /\ mgr'.key = reading[c].key
  BY <1>0, <1>1 DEF FirewallTypes
<1> HIDE DEF r
<1>5. FirewallTypes'
  BY <1>0, <1>3, <1>4 DEF FirewallTypes
<1>6. KeysArePast'
  BY <1>0, <1>1, <1>2, <1>3, <1>4 DEF KeysArePast, KeyIsPast, Inside
<1>7. ASSUME LoneCallerIsRight PROVE LoneCallerIsRight'
  <2>1. \A d \in Callers \ {c} : ~Inside(d) /\ ~Inside(d)'
    BY <1>0, <1>3, <1>7 DEF LoneCallerIsRight, Inside
  <2>2. Describes(reading[c].excl, reading[c].key)'
    BY <1>0, <1>2, <1>3, <1>7 DEF LoneCallerIsRight, Describes, CacheKey, CandidatePaths,
       MergeExcludePatterns
  <2> QED  BY <1>2, <1>3, <1>4, <2>1, <2>2 DEF LoneCallerIsRight, Inside, Describes
<1> QED  BY <1>0, <1>5, <1>6, <1>7

LEMMA CompileKeeps ==
    ASSUME FirewallInv, NEW c \in Callers, Compile(c)
    PROVE  FirewallInv'
<1> USE DEF FirewallInv
<1>p. PICK pc \in {"decide", "done"} : Moves(c, pc)
  BY DEF Compile
<1> DEFINE r == [reading[c] EXCEPT !.pc = pc]
<1>0. UNCHANGED <<rules, global, ignores, ram, overlapped>> /\ reading[c].pc = "compile"
      /\ reading' = [reading EXCEPT ![c] = r] /\ reading[c] \in ReadRecords
      /\ mgr' = [mgr EXCEPT !.spec = reading[c].excl]
  BY <1>p, CallIsRecord DEF Compile, fileVars, Moves
<1>2. /\ r \in ReadRecords /\ r.pc = pc /\ r.key = reading[c].key /\ reading[c].excl \in Excludes
  BY <1>0 DEF ReadRecords, ReadStages
<1>3. /\ reading' \in [Callers -> ReadRecords \cup {NoCall}]
      /\ reading'[c] = r /\ \A d \in Callers \ {c} : reading'[d] = reading[d]
  BY <1>0, <1>2, Moving
<1>4. /\ mgr' \in [key : RuleKeys \cup {NoKey}, primed : BOOLEAN, spec : Excludes]
      /\ mgr'.key = mgr.key /\ mgr'.primed = mgr.primed /\ mgr'.spec = reading[c].excl
  BY <1>0, <1>2 DEF FirewallTypes
<1> HIDE DEF r
<1>5. FirewallTypes'
  BY <1>0, <1>3, <1>4 DEF FirewallTypes
<1>6. KeysArePast'
  BY <1>0, <1>2, <1>3, <1>4 DEF KeysArePast, KeyIsPast, Inside
<1>7. ASSUME LoneCallerIsRight PROVE LoneCallerIsRight'
  <2>1. \A d \in Callers \ {c} : ~Inside(d) /\ ~Inside(d)'
    BY <1>0, <1>3, <1>7 DEF LoneCallerIsRight, Inside
  <2>2. Describes(mgr.spec, mgr.key)'
    BY <1>0, <1>4, <1>7 DEF LoneCallerIsRight, Describes, CacheKey, CandidatePaths,
       MergeExcludePatterns
  <2>3. reading'[c].pc \in {"decide", "done"}
    BY <1>2, <1>3
  <2> QED  BY <2>1, <2>2, <2>3 DEF LoneCallerIsRight, Inside
<1> QED  BY <1>0, <1>5, <1>6, <1>7

LEMMA CallerKeeps ==
    ASSUME FirewallInv, NEW c \in Callers,
           IsExcluded(c) \/ LoadIgnoreSpec(c) \/ Fits(c) \/ Fetch(c)
    PROVE  FirewallInv'
<1>1. PICK pc \in {"ignore", "fit", "fetch", "done"}, v \in Verdicts :
          \/ reading' = [reading EXCEPT ![c].pc = pc]
          \/ reading' = [reading EXCEPT ![c].pc = pc, ![c].verdict = v]
  BY DEF IsExcluded, LoadIgnoreSpec, Fits, Fetch, Moves, Answers, Verdicts
<1>2. /\ reading[c].pc \in {"decide", "ignore", "fit", "fetch"}
      /\ UNCHANGED <<fileVars, mgr, overlapped>>
  BY DEF IsExcluded, LoadIgnoreSpec, Fits, Fetch
<1>3. reading[c] \in ReadRecords
  BY <1>2 DEF FirewallInv, FirewallTypes, NoCall
<1>4. /\ [reading[c] EXCEPT !.pc = pc] \in ReadRecords
      /\ [reading[c] EXCEPT !.pc = pc, !.verdict = v] \in ReadRecords
      /\ [reading[c] EXCEPT !.pc = pc].pc = pc /\ [reading[c] EXCEPT !.pc = pc, !.verdict = v].pc = pc
  BY <1>3 DEF ReadRecords, ReadStages
<1>5. \E r \in ReadRecords : r.pc = pc /\ reading' = [reading EXCEPT ![c] = r]
  BY <1>1, <1>4
<1> QED  BY <1>2, <1>5, PastTheRules DEF ReadStages

\* A rule file of the project, or the user's, is written.
LEMMA RulesChange ==
    ASSUME FirewallInv, NEW excl \in Excludes, UNCHANGED <<reading, mgr, overlapped>>,
           \/ /\ \E p \in Projects :
                    rules' = [rules EXCEPT ![p] = [mtime |-> @.mtime + 1, excl |-> excl]]
              /\ global' = global
           \/ /\ rules' = rules
              /\ global' = [mtime |-> global.mtime + 1, excl |-> excl]
    PROVE  FirewallInv'
<1> USE DEF FirewallInv
<1>1. FirewallTypes' /\ global'.mtime \in Nat /\ global.mtime <= global'.mtime
  BY DEF FirewallTypes, RuleFiles
<1>2. \A q \in Projects : rules'[q].mtime \in Nat /\ rules[q].mtime <= rules'[q].mtime
  BY DEF FirewallTypes, RuleFiles
<1>3. \A key \in RuleKeys : KeyIsPast(key) => KeyIsPast(key)'
  BY <1>1, <1>2, KeysStayPast
<1>4. \A c \in Callers : Inside(c) => reading[c].key \in RuleKeys
  BY CallIsRecord DEF Inside
<1>5. KeysArePast'
  BY <1>3, <1>4 DEF KeysArePast, Inside
<1>6. ASSUME LoneCallerIsRight PROVE LoneCallerIsRight'
  <2>1. \A e : \A key \in RuleKeys : KeyIsPast(key) /\ Describes(e, key) => Describes(e, key)'
    BY RewriteKeeps
  <2>2. \A c \in Callers : reading[c].pc \in {"publish", "compile"} =>
            Describes(reading[c].excl, reading[c].key)'
    BY <1>4, <1>6, <2>1 DEF KeysArePast, Inside, LoneCallerIsRight
  <2>3. (\A c \in Callers : reading[c].pc # "compile") /\ mgr.primed => Describes(mgr.spec, mgr.key)'
    BY <1>6, <2>1 DEF KeysArePast, LoneCallerIsRight
  <2> QED  BY <1>6, <2>2, <2>3 DEF LoneCallerIsRight, Inside, Describes
<1> QED  BY <1>1, <1>5, <1>6

LEMMA AppendKeeps ==
    ASSUME FirewallInv, NEW p \in Projects, AppendLocalRule(p)
    PROVE  FirewallInv'
<1> USE DEF FirewallInv
<1>0. /\ rules' = [rules EXCEPT ![p].mtime = @ + 1] /\ UNCHANGED <<global, reading>>
      /\ mgr' = [key |-> NoKey, primed |-> FALSE, spec |-> {}]
      /\ overlapped' = (overlapped \/ \E d \in Callers : Inside(d))
  BY DEF AppendLocalRule
<1>1. FirewallTypes' /\ global'.mtime \in Nat /\ global.mtime <= global'.mtime
  BY <1>0 DEF FirewallTypes, RuleFiles, Excludes
<1>2. \A q \in Projects : rules'[q].mtime \in Nat /\ rules[q].mtime <= rules'[q].mtime
  BY <1>0 DEF FirewallTypes, RuleFiles
<1>3. \A key \in RuleKeys : KeyIsPast(key) => KeyIsPast(key)'
  BY <1>1, <1>2, KeysStayPast
<1>4. \A c \in Callers : Inside(c) => reading[c].key \in RuleKeys
  BY CallIsRecord DEF Inside
<1>5. KeysArePast'
  BY <1>0, <1>3, <1>4 DEF KeysArePast, Inside
<1>6. ~overlapped' => LoneCallerIsRight'
  BY <1>0 DEF LoneCallerIsRight, Inside
<1> QED  BY <1>1, <1>5, <1>6

LEMMA FirewallStep ==
    ASSUME FirewallInv, [FirewallNext]_firewallVars
    PROVE  FirewallInv'
<1>1. CASE UNCHANGED <<rules, global, mgr, reading, overlapped>>
  BY <1>1 DEF FirewallInv, FirewallTypes, KeysArePast, KeyIsPast, LoneCallerIsRight, Inside,
     Describes, CacheKey, CandidatePaths, MergeExcludePatterns
<1>2. ASSUME NEW p \in Projects, NEW fs \in Patterns, SaveRules(p, fs)
      PROVE  FirewallInv'
  BY <1>2, RulesChange DEF SaveRules, Excludes
<1>3. ASSUME NEW fs \in Patterns, SaveGlobal(fs)
      PROVE  FirewallInv'
  BY <1>3, RulesChange DEF SaveGlobal, Excludes
<1>4. ASSUME NEW p \in Projects, NEW fs \in Patterns, SaveIgnores(p, fs)
      PROVE  FirewallInv'
  BY <1>1, <1>4 DEF SaveIgnores
<1>5. ASSUME NEW fs \in Buffers, Ingest(fs)
      PROVE  FirewallInv'
  BY <1>1, <1>5 DEF Ingest
<1>6. CASE UNCHANGED firewallVars
  BY <1>1, <1>6 DEF firewallVars
<1> QED  BY <1>2, <1>3, <1>4, <1>5, <1>6, BeginKeeps, LoadKeeps, PublishKeeps, CompileKeeps,
         CallerKeeps, ReturnKeeps, AppendKeeps DEF FirewallNext

\* The rule cache is one unlocked singleton that the event loop and the worker
\* threads share, and its key is published before its spec is compiled: as long
\* as no two callers have been inside it at a time, whatever is saved meanwhile,
\* a key that matches a project's rule files stands for their patterns, and for
\* those of no other project (RuleManager, core/rules.py).
THEOREM CachedRulesFit == FirewallSpec => []CachedRulesAreTheirs
<1>1. FirewallInv => CachedRulesAreTheirs
  BY DEF FirewallInv, CachedRulesAreTheirs, LoneCallerIsRight, Describes, Inside
<1> QED  BY FirewallInitially, FirewallStep, <1>1, PTL DEF FirewallSpec

(****************************************************************************)
(* The shared-memory snapshot (Snapshot)                                   *)
(*                                                                         *)
(* For every number of clones, windows, exports and moments: a warm start  *)
(* is one moment of another clone.                                         *)
(****************************************************************************)
\* The paths there can be, and the rows of the tables and of the artifact.
FirstImports == UNION {UNION {t[f] : f \in SourceFiles} : t \in FirstTrees}
SnapshotPaths == [root : Clones \cup {"rel", "module"} \cup {p.root : p \in FirstImports},
                  name : SourceFiles \cup {"up", "m"} \cup {p.name : p \in FirstImports}]
EdgeRows == [src : SnapshotPaths, tgt : SnapshotPaths]
ScoreRows == [file : SnapshotPaths, score : {Cardinality(s) : s \in SUBSET SnapshotPaths}]
SourceTrees == [SourceFiles -> SUBSET {p \in SnapshotPaths : p.root \notin Clones}]

\* A clone's own rows, and rows that no clone's root is written in.
OwnEdges(c) == {r \in EdgeRows : /\ r.src.root = c /\ r.src.name # "up"
                                 /\ r.tgt.root \notin Clones \ {c}}
OwnScores(c) == {r \in ScoreRows : r.file.root \notin Clones \ {c}}
SharedEdges == {r \in EdgeRows : r.src.root \notin Clones /\ r.tgt.root \notin Clones}
SharedScores == {r \in ScoreRows : r.file.root \notin Clones}

\* The in-tree part of two portable tables is that of one moment; they are that
\* part and no more.
Moments == was \cup {[edges |-> {}, ppr |-> {}]}
OneMoment(W, E, P) == \E w \in W : /\ InsideEdges(E) = InsideEdges(w.edges)
                                     /\ InsideScores(P) = InsideScores(w.ppr)
JustOneMoment(W, E, P) == \E w \in W : E = InsideEdges(w.edges) /\ P = InsideScores(w.ppr)

SnapshotTypes ==
    /\ tree \in [Clones -> {<<>>} \cup SourceTrees]
    /\ edges \in [Clones -> SUBSET EdgeRows] /\ ppr \in [Clones -> SUBSET ScoreRows]
    /\ artifact \in [Clones -> [kind : {"none", "whole", "corrupt"},
                                edges : SUBSET SharedEdges, ppr : SUBSET SharedScores]]
    /\ export \in [Exporters -> [at : {"idle", "build", "write", "attrs"}, clone : Clones \cup {""},
                                 edges : SUBSET EdgeRows, ppr : SUBSET ScoreRows]]
    /\ open \in [Windows -> [at : {"idle", "parse", "store", "opened"}, clone : Clones \cup {""},
                             edges : SUBSET EdgeRows, ppr : SUBSET ScoreRows]]
    /\ crawling \in SUBSET Clones /\ warm \in SUBSET Clones

RowsBelong ==
    /\ \A c \in Clones : edges[c] \subseteq OwnEdges(c) /\ ppr[c] \subseteq OwnScores(c)
    /\ \A c \in crawling : tree[c] \in SourceTrees
    /\ \A e \in Exporters :
           /\ export[e].at \in {"build", "write"} => export[e].clone \in Clones
           /\ export[e].at = "build" => /\ export[e].edges \subseteq OwnEdges(export[e].clone)
                                        /\ export[e].ppr \subseteq OwnScores(export[e].clone)
           /\ export[e].at = "write" => /\ export[e].edges \subseteq SharedEdges
                                        /\ export[e].ppr \subseteq SharedScores
    /\ \A w \in Windows :
           /\ open[w].at \in {"parse", "store"} => /\ open[w].clone \in Clones
                                                   /\ tree[open[w].clone] \in SourceTrees
           /\ open[w].at = "store" => /\ open[w].edges \subseteq OwnEdges(open[w].clone)
                                      /\ open[w].ppr \subseteq OwnScores(open[w].clone)

MomentsHold ==
    /\ \A c \in Clones : OneMoment(Moments, PortableEdges(edges[c], c), PortableScores(ppr[c], c))
    /\ \A c \in Clones : artifact[c].kind = "whole" => OneMoment(Moments, artifact[c].edges, artifact[c].ppr)
    /\ \A e \in Exporters :
           /\ export[e].at = "build" => OneMoment(Moments, PortableEdges(export[e].edges, export[e].clone),
                                                  PortableScores(export[e].ppr, export[e].clone))
           /\ export[e].at = "write" => OneMoment(Moments, export[e].edges, export[e].ppr)
    /\ \A w \in Windows :
           open[w].at = "store" => JustOneMoment(Moments, PortableEdges(open[w].edges, open[w].clone),
                                                 PortableScores(open[w].ppr, open[w].clone))
    /\ \A c \in warm : JustOneMoment(Moments, PortableEdges(edges[c], c), PortableScores(ppr[c], c))

SnapshotInv == SnapshotTypes /\ RowsBelong /\ MomentsHold

(***************************************************************************)
(* The conversions of the paths.                                           *)
(***************************************************************************)
LEMMA PathParts ==
    ASSUME NEW p \in SnapshotPaths
    PROVE  /\ p = File(p.root, p.name)
           /\ \A c \in Clones : File(c, p.name) \in SnapshotPaths
           /\ File("rel", p.name) \in SnapshotPaths
BY DEF SnapshotPaths, File

LEMMA FileParts == \A root, name : File(root, name).root = root /\ File(root, name).name = name
BY DEF File

\* A shared path made local and portable again is the path, or was dropped.
LEMMA ThereAndBack ==
    ASSUME NEW c \in Clones, NEW p \in SnapshotPaths, p.root \notin Clones
    PROVE  /\ IF InOwnTree(p)
              THEN \E q \in SnapshotPaths : /\ AbsolutizeFile(p, c) = {q} /\ RelativizeFile(q, c) = p
                                            /\ q.root = c /\ q.name # "up" /\ IsPathTarget(q)
              ELSE AbsolutizeFile(p, c) = {}
           /\ IF InTree(p)
              THEN \E q \in SnapshotPaths : /\ LocalTarget(p, c) = {q} /\ PortableTarget(q, c) = p
                                            /\ q.root \notin Clones \ {c}
              ELSE LocalTarget(p, c) = {}
<1>0. c # "rel" /\ c # "module"
  BY SnapshotAssumption
<1>1. CASE InOwnTree(p)
  <2> DEFINE q == File(c, p.name)
  <2>1. q \in SnapshotPaths /\ q.root = c /\ q.name = p.name /\ p = File("rel", p.name)
    BY <1>1, PathParts, FileParts DEF InOwnTree
  <2>2. AbsolutizeFile(p, c) = {q} /\ RelativizeFile(q, c) = p
    BY <1>1, <2>1 DEF InOwnTree, AbsolutizeFile, RelativizeFile
  <2>3. LocalTarget(p, c) = {q} /\ PortableTarget(q, c) = p /\ IsPathTarget(q) /\ InTree(p)
    BY <1>0, <1>1, <2>1, <2>2 DEF InOwnTree, InTree, LocalTarget, PortableTarget, IsPathTarget
  <2> QED  BY <1>1, <2>1, <2>2, <2>3 DEF InOwnTree
<1>2. CASE ~InOwnTree(p)
  <2>1. AbsolutizeFile(p, c) = {}
    BY <1>2 DEF InOwnTree, AbsolutizeFile
  <2>2. CASE p.root = "module"
    BY <1>2, <2>1, <2>2 DEF InTree, LocalTarget, PortableTarget, IsPathTarget
  <2>3. CASE p.root # "module"
    BY <1>2, <2>1, <2>3 DEF InOwnTree, InTree, LocalTarget, IsPathTarget
  <2> QED  BY <1>2, <2>1, <2>2, <2>3
<1> QED  BY <1>1, <1>2

\* A path of a clone's table written in the portable form names no clone.
LEMMA MadePortable ==
    ASSUME NEW c \in Clones, NEW p \in SnapshotPaths, p.root \notin Clones \ {c}
    PROVE  /\ RelativizeFile(p, c) \in SnapshotPaths /\ RelativizeFile(p, c).root \notin Clones
           /\ PortableTarget(p, c) \in SnapshotPaths /\ PortableTarget(p, c).root \notin Clones
<1>1. "rel" \notin Clones /\ "module" \notin Clones
  BY SnapshotAssumption
<1> QED  BY <1>1, PathParts, FileParts DEF RelativizeFile, PortableTarget, IsPathTarget

\* The rows of a shared table, made local, are a clone's own, and written in the
\* portable form again they are the rows that lie inside the tree.
LEMMA EdgesThereAndBack ==
    ASSUME NEW c \in Clones, NEW E \in SUBSET SharedEdges
    PROVE  LocalEdges(E, c) \subseteq OwnEdges(c) /\ PortableEdges(LocalEdges(E, c), c) = InsideEdges(E)
<1>1. ASSUME NEW r \in E
      PROVE  \/ /\ InOwnTree(r.src) /\ InTree(r.tgt)
                /\ \E k \in OwnEdges(c) :
                      /\ {[src |-> s, tgt |-> t] : s \in AbsolutizeFile(r.src, c), t \in LocalTarget(r.tgt, c)} = {k}
                      /\ [src |-> RelativizeFile(k.src, c), tgt |-> PortableTarget(k.tgt, c)] = r
             \/ /\ ~(InOwnTree(r.src) /\ InTree(r.tgt))
                /\ {[src |-> s, tgt |-> t] : s \in AbsolutizeFile(r.src, c), t \in LocalTarget(r.tgt, c)} = {}
  <2>1. r \in SharedEdges /\ r.src \in SnapshotPaths /\ r.tgt \in SnapshotPaths
        /\ r.src.root \notin Clones /\ r.tgt.root \notin Clones /\ r = [src |-> r.src, tgt |-> r.tgt]
    BY DEF SharedEdges, EdgeRows
  <2>2. CASE InOwnTree(r.src) /\ InTree(r.tgt)
    <3>1. PICK q \in SnapshotPaths : /\ AbsolutizeFile(r.src, c) = {q} /\ RelativizeFile(q, c) = r.src
                                     /\ q.root = c /\ q.name # "up" /\ IsPathTarget(q)
      BY <2>1, <2>2, ThereAndBack
    <3>2. PICK u \in SnapshotPaths : /\ LocalTarget(r.tgt, c) = {u} /\ PortableTarget(u, c) = r.tgt
                                     /\ u.root \notin Clones \ {c}
      BY <2>1, <2>2, ThereAndBack
    <3>3. PICK k : k = [src |-> q, tgt |-> u]
      OBVIOUS
    <3>4. k \in OwnEdges(c) /\ k.src = q /\ k.tgt = u
      BY <3>1, <3>2, <3>3 DEF OwnEdges, EdgeRows
    <3>5. {[src |-> s, tgt |-> t] : s \in AbsolutizeFile(r.src, c), t \in LocalTarget(r.tgt, c)} = {k}
      BY <3>1, <3>2, <3>3
    <3> QED  BY <2>1, <2>2, <3>1, <3>2, <3>4, <3>5
  <2>3. CASE ~(InOwnTree(r.src) /\ InTree(r.tgt))
    <3>1. AbsolutizeFile(r.src, c) = {} \/ LocalTarget(r.tgt, c) = {}
      BY <2>1, <2>3, ThereAndBack
    <3> QED  BY <2>3, <3>1
  <2> QED  BY <2>2, <2>3
<1>2. LocalEdges(E, c) \subseteq OwnEdges(c)
  BY <1>1 DEF LocalEdges
<1>3. PortableEdges(LocalEdges(E, c), c) \subseteq InsideEdges(E)
  <2> SUFFICES ASSUME NEW k \in LocalEdges(E, c)
               PROVE  [src |-> RelativizeFile(k.src, c), tgt |-> PortableTarget(k.tgt, c)] \in InsideEdges(E)
    BY DEF PortableEdges
  <2>1. PICK r \in E : k \in {[src |-> s, tgt |-> t] : s \in AbsolutizeFile(r.src, c), t \in LocalTarget(r.tgt, c)}
    BY DEF LocalEdges
  <2> QED  BY <1>1, <2>1 DEF InsideEdges
<1>4. InsideEdges(E) \subseteq PortableEdges(LocalEdges(E, c), c)
  <2> SUFFICES ASSUME NEW r \in E, InOwnTree(r.src), InTree(r.tgt)
               PROVE  r \in PortableEdges(LocalEdges(E, c), c)
    BY DEF InsideEdges
  <2>1. PICK k \in OwnEdges(c) :
             /\ {[src |-> s, tgt |-> t] : s \in AbsolutizeFile(r.src, c), t \in LocalTarget(r.tgt, c)} = {k}
             /\ [src |-> RelativizeFile(k.src, c), tgt |-> PortableTarget(k.tgt, c)] = r
    BY <1>1
  <2>2. k \in LocalEdges(E, c)
    BY <2>1 DEF LocalEdges
  <2> QED  BY <2>1, <2>2 DEF PortableEdges
<1> QED  BY <1>2, <1>3, <1>4

LEMMA ScoresThereAndBack ==
    ASSUME NEW c \in Clones, NEW P \in SUBSET SharedScores
    PROVE  LocalScores(P, c) \subseteq OwnScores(c) /\ PortableScores(LocalScores(P, c), c) = InsideScores(P)
<1>1. ASSUME NEW r \in P
      PROVE  \/ /\ InOwnTree(r.file)
                /\ \E k \in OwnScores(c) :
                      /\ {[file |-> f, score |-> r.score] : f \in AbsolutizeFile(r.file, c)} = {k}
                      /\ [file |-> RelativizeFile(k.file, c), score |-> k.score] = r
             \/ /\ ~InOwnTree(r.file)
                /\ {[file |-> f, score |-> r.score] : f \in AbsolutizeFile(r.file, c)} = {}
  <2>1. r \in SharedScores /\ r.file \in SnapshotPaths /\ r.file.root \notin Clones
        /\ r = [file |-> r.file, score |-> r.score] /\ r \in ScoreRows
    BY DEF SharedScores, ScoreRows
  <2>2. CASE InOwnTree(r.file)
    <3>1. PICK q \in SnapshotPaths : /\ AbsolutizeFile(r.file, c) = {q} /\ RelativizeFile(q, c) = r.file
                                     /\ q.root = c
      BY <2>1, <2>2, ThereAndBack
    <3>3. PICK k : k = [file |-> q, score |-> r.score]
      OBVIOUS
    <3>4. k \in OwnScores(c) /\ k.file = q /\ k.score = r.score
      BY <2>1, <3>1, <3>3 DEF OwnScores, ScoreRows
    <3>5. {[file |-> f, score |-> r.score] : f \in AbsolutizeFile(r.file, c)} = {k}
      BY <3>1, <3>3
    <3> QED  BY <2>1, <2>2, <3>1, <3>4, <3>5
  <2>3. CASE ~InOwnTree(r.file)
    <3>1. AbsolutizeFile(r.file, c) = {}
      BY <2>1, <2>3, ThereAndBack
    <3> QED  BY <2>3, <3>1
  <2> QED  BY <2>2, <2>3
<1>2. LocalScores(P, c) \subseteq OwnScores(c)
  BY <1>1 DEF LocalScores
<1>3. PortableScores(LocalScores(P, c), c) \subseteq InsideScores(P)
  <2> SUFFICES ASSUME NEW k \in LocalScores(P, c)
               PROVE  [file |-> RelativizeFile(k.file, c), score |-> k.score] \in InsideScores(P)
    BY DEF PortableScores
  <2>1. PICK r \in P : k \in {[file |-> f, score |-> r.score] : f \in AbsolutizeFile(r.file, c)}
    BY DEF LocalScores
  <2> QED  BY <1>1, <2>1 DEF InsideScores
<1>4. InsideScores(P) \subseteq PortableScores(LocalScores(P, c), c)
  <2> SUFFICES ASSUME NEW r \in P, InOwnTree(r.file)
               PROVE  r \in PortableScores(LocalScores(P, c), c)
    BY DEF InsideScores
  <2>1. PICK k \in OwnScores(c) :
             /\ {[file |-> f, score |-> r.score] : f \in AbsolutizeFile(r.file, c)} = {k}
             /\ [file |-> RelativizeFile(k.file, c), score |-> k.score] = r
    BY <1>1
  <2>2. k \in LocalScores(P, c)
    BY <2>1 DEF LocalScores
  <2> QED  BY <2>1, <2>2 DEF PortableScores
<1> QED  BY <1>2, <1>3, <1>4

\* A clone's own rows written in the portable form name no clone.
LEMMA OwnRowsAreShared ==
    ASSUME NEW c \in Clones
    PROVE  /\ \A E \in SUBSET OwnEdges(c) : PortableEdges(E, c) \subseteq SharedEdges
           /\ \A P \in SUBSET OwnScores(c) : PortableScores(P, c) \subseteq SharedScores
<1>1. ASSUME NEW r \in OwnEdges(c)
      PROVE  [src |-> RelativizeFile(r.src, c), tgt |-> PortableTarget(r.tgt, c)] \in SharedEdges
  <2>1. r.src \in SnapshotPaths /\ r.tgt \in SnapshotPaths
        /\ r.src.root \notin Clones \ {c} /\ r.tgt.root \notin Clones \ {c}
    BY DEF OwnEdges, EdgeRows
  <2> QED  BY <2>1, MadePortable DEF SharedEdges, EdgeRows
<1>2. ASSUME NEW r \in OwnScores(c)
      PROVE  [file |-> RelativizeFile(r.file, c), score |-> r.score] \in SharedScores
  <2>1. r.file \in SnapshotPaths /\ r.file.root \notin Clones \ {c} /\ r \in ScoreRows
    BY DEF OwnScores, ScoreRows
  <2> QED  BY <2>1, MadePortable DEF SharedScores, ScoreRows
<1> QED  BY <1>1, <1>2 DEF PortableEdges, PortableScores

\* The in-tree part of an in-tree part is itself.
LEMMA InsideTwice == \A E, P : /\ InsideEdges(InsideEdges(E)) = InsideEdges(E)
                               /\ InsideScores(InsideScores(P)) = InsideScores(P)
BY DEF InsideEdges, InsideScores

LEMMA JustIsOne ==
    ASSUME NEW W, NEW E, NEW P, JustOneMoment(W, E, P) PROVE OneMoment(W, E, P)
BY InsideTwice DEF JustOneMoment, OneMoment

LEMMA MomentsGrow ==
    ASSUME NEW V, NEW W, V \subseteq W, NEW E, NEW P
    PROVE  /\ OneMoment(V, E, P) => OneMoment(W, E, P)
           /\ JustOneMoment(V, E, P) => JustOneMoment(W, E, P)
BY DEF OneMoment, JustOneMoment

(***************************************************************************)
(* Opening a workspace.                                                    *)
(***************************************************************************)
LEMMA SnapshotStarts == SnapshotInit => SnapshotInv
<1> SUFFICES ASSUME SnapshotInit PROVE SnapshotInv
  OBVIOUS
<1>1. PICK t \in FirstTrees : tree = [c \in Clones |-> IF c = FirstClone THEN t ELSE <<>>]
  BY DEF SnapshotInit
<1>2. t \in SourceTrees
  <2>1. t = [f \in SourceFiles |-> t[f]]
    BY SnapshotAssumption
  <2>2. ASSUME NEW f \in SourceFiles, NEW p \in t[f]
        PROVE  p \in SnapshotPaths /\ p.root \notin Clones
    <3>1. p = File(p.root, p.name) /\ p.root \notin Clones
      BY SnapshotAssumption
    <3>2. p \in FirstImports
      BY DEF FirstImports
    <3> QED  BY <3>1, <3>2 DEF SnapshotPaths, File
  <2>3. \A f \in SourceFiles : t[f] \in SUBSET {p \in SnapshotPaths : p.root \notin Clones}
    BY <2>2
  <2> QED  BY <2>1, <2>3 DEF SourceTrees
<1>3. SnapshotTypes
  <2>1. /\ tree \in [Clones -> {<<>>} \cup SourceTrees]
        /\ edges \in [Clones -> SUBSET EdgeRows] /\ ppr \in [Clones -> SUBSET ScoreRows]
        /\ crawling \in SUBSET Clones /\ warm \in SUBSET Clones
    BY <1>1, <1>2, SnapshotAssumption DEF SnapshotInit
  <2>2. /\ artifact \in [Clones -> [kind : {"none", "whole", "corrupt"},
                                    edges : SUBSET SharedEdges, ppr : SUBSET SharedScores]]
        /\ export \in [Exporters -> [at : {"idle", "build", "write", "attrs"}, clone : Clones \cup {""},
                                     edges : SUBSET EdgeRows, ppr : SUBSET ScoreRows]]
        /\ open \in [Windows -> [at : {"idle", "parse", "store", "opened"}, clone : Clones \cup {""},
                                 edges : SUBSET EdgeRows, ppr : SUBSET ScoreRows]]
    BY DEF SnapshotInit, NoArtifact, NoExport, NoWindow
  <2> QED  BY <2>1, <2>2 DEF SnapshotTypes
<1>4. RowsBelong
  BY <1>1, <1>2, SnapshotAssumption DEF SnapshotInit, RowsBelong, NoExport, NoWindow
<1>5. MomentsHold
  <2>1. \A c \in Clones : PortableEdges(edges[c], c) = {} /\ PortableScores(ppr[c], c) = {}
    BY DEF SnapshotInit, PortableEdges, PortableScores
  <2>2. OneMoment(Moments, {}, {})
    <3>1. PICK none : none = [edges |-> {}, ppr |-> {}]
      OBVIOUS
    <3>2. none \in Moments /\ none.edges = {} /\ none.ppr = {}
      BY <3>1 DEF Moments
    <3> QED  BY <3>2 DEF OneMoment
  <2>3. /\ \A c \in Clones : artifact[c].kind = "none"
        /\ \A e \in Exporters : export[e].at = "idle"
        /\ \A w \in Windows : open[w].at = "idle"
        /\ warm = {}
    BY DEF SnapshotInit, NoArtifact, NoExport, NoWindow
  <2> QED  BY <2>1, <2>2, <2>3 DEF MomentsHold
<1> QED  BY <1>3, <1>4, <1>5 DEF SnapshotInv

LEMMA OpenWorkspaceKeeps ==
    ASSUME SnapshotInv, NEW w \in Windows, OpenWorkspace(w) PROVE SnapshotInv'
<1>1. PICK c \in Clones : /\ tree[c] # <<>>
                          /\ \E at \in {"parse", "opened"} :
                                 WindowGoes(w, [NoWindow EXCEPT !.at = at, !.clone = c])
                          /\ crawling' \in {crawling, crawling \cup {c}}
  BY DEF OpenWorkspace, Checked
<1>2. PICK at \in {"parse", "opened"} : open' = [open EXCEPT ![w] = [NoWindow EXCEPT !.at = at, !.clone = c]]
  BY <1>1 DEF WindowGoes
<1>3. UNCHANGED <<tree, edges, ppr, artifact, attrs, export, warm, was>>
  BY DEF OpenWorkspace
<1>4. SnapshotTypes' /\ tree[c] \in SourceTrees
  BY <1>1, <1>2, <1>3 DEF SnapshotInv, SnapshotTypes, NoWindow
<1>5. RowsBelong'
  BY <1>1, <1>2, <1>3, <1>4 DEF SnapshotInv, SnapshotTypes, RowsBelong, NoWindow
<1>6. MomentsHold'
  BY <1>2, <1>3 DEF SnapshotInv, SnapshotTypes, MomentsHold, NoWindow, Moments
<1> QED  BY <1>4, <1>5, <1>6 DEF SnapshotInv

LEMMA DecompressKeeps ==
    ASSUME SnapshotInv, NEW w \in Windows, DecompressAndParse(w) PROVE SnapshotInv'
<1>0. UNCHANGED <<tree, edges, ppr, artifact, attrs, export, warm, was>>
  BY DEF DecompressAndParse
<1>1. PICK c : c = open[w].clone
  OBVIOUS
<1>2. c \in Clones /\ tree[c] \in SourceTrees /\ open[w].at = "parse"
  BY <1>1 DEF DecompressAndParse, SnapshotInv, RowsBelong
<1>3. CASE artifact[c].kind = "whole"
  <2>1. PICK E : E = LocalEdges(artifact[c].edges, c)
    OBVIOUS
  <2>2. PICK P : P = LocalScores(artifact[c].ppr, c)
    OBVIOUS
  <2>3. artifact[c].edges \in SUBSET SharedEdges /\ artifact[c].ppr \in SUBSET SharedScores
    BY <1>2 DEF SnapshotInv, SnapshotTypes
  <2>4. E \subseteq OwnEdges(c) /\ P \subseteq OwnScores(c)
        /\ PortableEdges(E, c) = InsideEdges(artifact[c].edges)
        /\ PortableScores(P, c) = InsideScores(artifact[c].ppr)
    BY <1>2, <2>1, <2>2, <2>3, EdgesThereAndBack, ScoresThereAndBack
  <2>5. open' = [open EXCEPT ![w] = [open[w] EXCEPT !.at = "store", !.edges = E, !.ppr = P]]
        /\ crawling' = crawling
    BY <1>1, <1>3, <2>1, <2>2 DEF DecompressAndParse, WindowGoes
  <2>6. JustOneMoment(Moments, PortableEdges(E, c), PortableScores(P, c))
    <3>1. OneMoment(Moments, artifact[c].edges, artifact[c].ppr)
      BY <1>2, <1>3 DEF SnapshotInv, MomentsHold
    <3> QED  BY <2>4, <3>1 DEF OneMoment, JustOneMoment
  <2>7. SnapshotTypes'
    BY <1>0, <1>2, <2>4, <2>5 DEF SnapshotInv, SnapshotTypes, OwnEdges, OwnScores
  <2>8. RowsBelong'
    <3>1. ASSUME NEW v \in Windows
          PROVE  open'[v] = IF v = w THEN [open[w] EXCEPT !.at = "store", !.edges = E, !.ppr = P]
                                     ELSE open[v]
      BY <2>5 DEF SnapshotInv, SnapshotTypes
    <3>2. open'[w].clone = c /\ open'[w].edges = E /\ open'[w].ppr = P
      BY <1>1, <3>1 DEF SnapshotInv, SnapshotTypes
    <3>3. ASSUME NEW v \in Windows
          PROVE  /\ open'[v].at \in {"parse", "store"} => /\ open'[v].clone \in Clones
                                                          /\ tree[open'[v].clone] \in SourceTrees
                 /\ open'[v].at = "store" => /\ open'[v].edges \subseteq OwnEdges(open'[v].clone)
                                             /\ open'[v].ppr \subseteq OwnScores(open'[v].clone)
      <4>1. CASE v = w
        BY <1>2, <2>4, <3>2, <4>1
      <4>2. CASE v # w
        BY <3>1, <4>2 DEF SnapshotInv, RowsBelong
      <4> QED  BY <4>1, <4>2
    <3> QED  BY <1>0, <2>5, <3>3 DEF SnapshotInv, RowsBelong
  <2>9. MomentsHold'
    BY <1>0, <1>1, <2>5, <2>6 DEF SnapshotInv, SnapshotTypes, MomentsHold, Moments
  <2> QED  BY <2>7, <2>8, <2>9 DEF SnapshotInv
<1>4. CASE artifact[c].kind # "whole"
  <2>1. open' = [open EXCEPT ![w] = [open[w] EXCEPT !.at = "opened"]] /\ crawling' = crawling \cup {c}
    BY <1>1, <1>4 DEF DecompressAndParse, WindowGoes
  <2>7. SnapshotTypes'
    BY <1>0, <1>2, <2>1 DEF SnapshotInv, SnapshotTypes
  <2>8. RowsBelong'
    <3>1. ASSUME NEW v \in Windows
          PROVE  \/ open'[v] = open[v]
                 \/ open'[v].at = "opened"
      BY <2>1 DEF SnapshotInv, SnapshotTypes
    <3>2. \A v \in Windows : open'[v].at \in {"parse", "store"} => open'[v] = open[v]
      BY <3>1
    <3>3. \A d \in crawling' : tree[d] \in SourceTrees
      BY <1>2, <2>1 DEF SnapshotInv, RowsBelong
    <3> QED  BY <1>0, <3>2, <3>3 DEF SnapshotInv, RowsBelong
  <2>9. MomentsHold'
    BY <1>0, <2>1 DEF SnapshotInv, SnapshotTypes, MomentsHold, Moments
  <2> QED  BY <2>7, <2>8, <2>9 DEF SnapshotInv
<1> QED  BY <1>3, <1>4

(***************************************************************************)
(* Tables that change.  A pair of tables that is not just an import is     *)
(* recorded as a moment of its own, and every earlier moment stays one.    *)
(***************************************************************************)
LEMMA RecordKeeps ==
    ASSUME SnapshotInv, NEW c \in Clones, NEW E \in SUBSET OwnEdges(c), NEW P \in SUBSET OwnScores(c),
           edges' = [edges EXCEPT ![c] = E], ppr' = [ppr EXCEPT ![c] = P],
           warm' = warm \ {c}, Records(c), UNCHANGED <<tree, artifact, export>>,
           \A v \in Windows : open'[v].at \in {"parse", "store"} => open'[v] = open[v],
           open' \in [Windows -> [at : {"idle", "parse", "store", "opened"}, clone : Clones \cup {""},
                                  edges : SUBSET EdgeRows, ppr : SUBSET ScoreRows]],
           crawling' \in {crawling, crawling \cup {c}}, tree[c] \in SourceTrees
    PROVE  SnapshotInv'
<1>1. edges'[c] = E /\ ppr'[c] = P
      /\ \A d \in Clones \ {c} : edges'[d] = edges[d] /\ ppr'[d] = ppr[d]
  BY DEF SnapshotInv, SnapshotTypes
<1>2. SnapshotTypes'
  BY DEF SnapshotInv, SnapshotTypes, OwnEdges, OwnScores
<1>3. RowsBelong'
  <2>1. \A d \in Clones : edges'[d] \subseteq OwnEdges(d) /\ ppr'[d] \subseteq OwnScores(d)
    BY <1>1 DEF SnapshotInv, RowsBelong
  <2>2. \A d \in crawling' : tree[d] \in SourceTrees
    BY DEF SnapshotInv, RowsBelong
  <2> QED  BY <2>1, <2>2 DEF SnapshotInv, RowsBelong
<1>4. Moments \subseteq Moments'
  BY DEF Moments, Records
<1>5. OneMoment(Moments', PortableEdges(E, c), PortableScores(P, c))
  <2>1. PICK m : m = [edges |-> PortableEdges(E, c), ppr |-> PortableScores(P, c)]
    OBVIOUS
  <2>2. m \in Moments' /\ m.edges = PortableEdges(E, c) /\ m.ppr = PortableScores(P, c)
    BY <1>1, <2>1 DEF Moments, Records
  <2> QED  BY <2>2 DEF OneMoment
<1>6. ASSUME NEW d \in Clones
      PROVE  OneMoment(Moments', PortableEdges(edges'[d], d), PortableScores(ppr'[d], d))
  <2>1. CASE d = c
    BY <1>1, <1>5, <2>1
  <2>2. CASE d # c
    <3>1. OneMoment(Moments, PortableEdges(edges[d], d), PortableScores(ppr[d], d))
      BY DEF SnapshotInv, MomentsHold
    <3>2. OneMoment(Moments', PortableEdges(edges[d], d), PortableScores(ppr[d], d))
      BY <1>4, <3>1, MomentsGrow
    <3> QED  BY <1>1, <2>2, <3>2
  <2> QED  BY <2>1, <2>2
<1>7. ASSUME NEW d \in warm'
      PROVE  JustOneMoment(Moments', PortableEdges(edges'[d], d), PortableScores(ppr'[d], d))
  <2>1. d \in warm /\ d \in Clones \ {c}
    BY DEF SnapshotInv, SnapshotTypes
  <2>2. JustOneMoment(Moments, PortableEdges(edges[d], d), PortableScores(ppr[d], d))
    BY <2>1 DEF SnapshotInv, MomentsHold
  <2>3. JustOneMoment(Moments', PortableEdges(edges[d], d), PortableScores(ppr[d], d))
    BY <1>4, <2>2, MomentsGrow
  <2> QED  BY <1>1, <2>1, <2>3
<1>8. ASSUME NEW d \in Clones, artifact[d].kind = "whole"
      PROVE  OneMoment(Moments', artifact[d].edges, artifact[d].ppr)
  <2>1. OneMoment(Moments, artifact[d].edges, artifact[d].ppr)
    BY <1>8 DEF SnapshotInv, MomentsHold
  <2> QED  BY <1>4, <2>1, MomentsGrow
<1>9. ASSUME NEW e \in Exporters
      PROVE  /\ export[e].at = "build" => OneMoment(Moments', PortableEdges(export[e].edges, export[e].clone),
                                                    PortableScores(export[e].ppr, export[e].clone))
             /\ export[e].at = "write" => OneMoment(Moments', export[e].edges, export[e].ppr)
  <2>1. /\ export[e].at = "build" => OneMoment(Moments, PortableEdges(export[e].edges, export[e].clone),
                                               PortableScores(export[e].ppr, export[e].clone))
        /\ export[e].at = "write" => OneMoment(Moments, export[e].edges, export[e].ppr)
    BY DEF SnapshotInv, MomentsHold
  <2> QED  BY <1>4, <2>1, MomentsGrow
<1>10. ASSUME NEW v \in Windows, open'[v].at = "store"
       PROVE  JustOneMoment(Moments', PortableEdges(open'[v].edges, open'[v].clone),
                                      PortableScores(open'[v].ppr, open'[v].clone))
  <2>1. open'[v] = open[v]
    BY <1>10
  <2>2. JustOneMoment(Moments, PortableEdges(open[v].edges, open[v].clone),
                               PortableScores(open[v].ppr, open[v].clone))
    BY <1>10, <2>1 DEF SnapshotInv, MomentsHold
  <2>3. JustOneMoment(Moments', PortableEdges(open[v].edges, open[v].clone),
                                PortableScores(open[v].ppr, open[v].clone))
    BY <1>4, <2>2, MomentsGrow
  <2> QED  BY <2>1, <2>3
<1>11. MomentsHold'
  BY <1>6, <1>7, <1>8, <1>9, <1>10 DEF MomentsHold
<1> QED  BY <1>2, <1>3, <1>11 DEF SnapshotInv

LEMMA ImportKeeps ==
    ASSUME SnapshotInv, NEW w \in Windows, ImportSnapshot(w) PROVE SnapshotInv'
<1>0. UNCHANGED <<tree, artifact, attrs, export>>
  BY DEF ImportSnapshot
<1>1. PICK c : c = open[w].clone
  OBVIOUS
<1>2. PICK E : E = open[w].edges
  OBVIOUS
<1>3. PICK P : P = open[w].ppr
  OBVIOUS
<1>4. /\ c \in Clones /\ tree[c] \in SourceTrees
      /\ E \subseteq OwnEdges(c) /\ P \subseteq OwnScores(c)
      /\ JustOneMoment(Moments, PortableEdges(E, c), PortableScores(P, c))
  BY <1>1, <1>2, <1>3 DEF ImportSnapshot, SnapshotInv, RowsBelong, MomentsHold
<1>5. /\ edges' = [edges EXCEPT ![c] = edges[c] \cup E]
      /\ ppr' = [ppr EXCEPT ![c] = {s \in ppr[c] : \A r \in P : r.file # s.file} \cup P]
      /\ crawling' = crawling \cup {c}
      /\ open' = [open EXCEPT ![w] = [NoWindow EXCEPT !.at = "opened", !.clone = c]]
  BY <1>1, <1>2, <1>3 DEF ImportSnapshot, BulkImportEdges, BulkImportScores, WindowGoes
<1>6. edges[c] \subseteq OwnEdges(c) /\ ppr[c] \subseteq OwnScores(c)
  BY <1>4 DEF SnapshotInv, RowsBelong
<1>7. /\ \A v \in Windows : open'[v].at \in {"parse", "store"} => open'[v] = open[v]
      /\ open' \in [Windows -> [at : {"idle", "parse", "store", "opened"}, clone : Clones \cup {""},
                                edges : SUBSET EdgeRows, ppr : SUBSET ScoreRows]]
  BY <1>4, <1>5 DEF SnapshotInv, SnapshotTypes, NoWindow
<1>8. CASE (E # {} \/ P # {}) /\ ~(edges[c] = {} /\ ppr[c] = {})
  <2>1. Records(c) /\ warm' = warm \ {c}
    BY <1>1, <1>2, <1>3, <1>8 DEF ImportSnapshot
  <2>2. PICK F : F = edges[c] \cup E
    OBVIOUS
  <2>3. PICK Q : Q = {s \in ppr[c] : \A r \in P : r.file # s.file} \cup P
    OBVIOUS
  <2>4. F \in SUBSET OwnEdges(c) /\ Q \in SUBSET OwnScores(c)
    BY <1>4, <1>6, <2>2, <2>3
  <2>5. edges' = [edges EXCEPT ![c] = F] /\ ppr' = [ppr EXCEPT ![c] = Q]
    BY <1>5, <2>2, <2>3
  <2> QED  BY <1>0, <1>4, <1>5, <1>7, <2>1, <2>4, <2>5, RecordKeeps
<1>9. CASE (E = {} /\ P = {}) \/ (edges[c] = {} /\ ppr[c] = {})
  <2>1. Moments' = Moments
    BY <1>1, <1>2, <1>3, <1>9 DEF ImportSnapshot, Moments
  <2>2. \/ edges' = edges /\ ppr' = ppr /\ warm' = warm
        \/ edges'[c] = E /\ ppr'[c] = P /\ warm' = warm \cup {c}
    <3>1. CASE E = {} /\ P = {}
      <4>1. edges[c] \cup E = edges[c] /\ {s \in ppr[c] : \A r \in P : r.file # s.file} \cup P = ppr[c]
        BY <3>1
      <4>2. edges' = edges /\ ppr' = ppr
        BY <1>4, <1>5, <4>1 DEF SnapshotInv, SnapshotTypes
      <4>3. warm' = warm
        BY <1>2, <1>3, <3>1 DEF ImportSnapshot
      <4> QED  BY <4>2, <4>3
    <3>2. CASE ~(E = {} /\ P = {}) /\ edges[c] = {} /\ ppr[c] = {}
      <4>1. edges'[c] = E /\ ppr'[c] = P
        BY <1>4, <1>5, <3>2 DEF SnapshotInv, SnapshotTypes
      <4>2. warm' = warm \cup {c}
        BY <1>1, <1>2, <1>3, <3>2 DEF ImportSnapshot
      <4> QED  BY <4>1, <4>2
    <3> QED  BY <1>9, <3>1, <3>2
  <2>3. \A d \in Clones \ {c} : edges'[d] = edges[d] /\ ppr'[d] = ppr[d]
    BY <1>5 DEF SnapshotInv, SnapshotTypes
  <2>4. SnapshotTypes'
    <3>1. edges[c] \cup E \subseteq EdgeRows
          /\ {s \in ppr[c] : \A r \in P : r.file # s.file} \cup P \subseteq ScoreRows
      BY <1>4, <1>6 DEF OwnEdges, OwnScores
    <3>2. warm' \in SUBSET Clones
      BY <1>4, <2>2 DEF SnapshotInv, SnapshotTypes
    <3> QED  BY <1>0, <1>4, <1>5, <1>7, <3>1, <3>2 DEF SnapshotInv, SnapshotTypes
  <2>5. RowsBelong'
    <3>1. \A d \in Clones : edges'[d] \subseteq OwnEdges(d) /\ ppr'[d] \subseteq OwnScores(d)
      BY <1>4, <1>6, <2>2, <2>3 DEF SnapshotInv, RowsBelong
    <3>2. \A d \in crawling' : tree[d] \in SourceTrees
      BY <1>4, <1>5 DEF SnapshotInv, RowsBelong
    <3> QED  BY <1>0, <1>7, <3>1, <3>2 DEF SnapshotInv, RowsBelong
  <2>6. ASSUME NEW d \in Clones
        PROVE  OneMoment(Moments, PortableEdges(edges'[d], d), PortableScores(ppr'[d], d))
    <3>1. OneMoment(Moments, PortableEdges(edges[d], d), PortableScores(ppr[d], d))
      BY DEF SnapshotInv, MomentsHold
    <3>2. OneMoment(Moments, PortableEdges(E, c), PortableScores(P, c))
      BY <1>4, JustIsOne
    <3> QED  BY <2>2, <2>3, <3>1, <3>2
  <2>7. ASSUME NEW d \in warm'
        PROVE  JustOneMoment(Moments, PortableEdges(edges'[d], d), PortableScores(ppr'[d], d))
    <3>1. d \in warm => JustOneMoment(Moments, PortableEdges(edges[d], d), PortableScores(ppr[d], d))
      BY DEF SnapshotInv, MomentsHold
    <3>2. d \in Clones
      BY <2>4 DEF SnapshotTypes
    <3> QED  BY <1>4, <2>2, <2>3, <3>1, <3>2
  <2>8. MomentsHold'
    <3>1. \A v \in Windows : open'[v].at = "store" => open'[v] = open[v]
      BY <1>7
    <3> QED  BY <1>0, <2>1, <2>6, <2>7, <3>1 DEF SnapshotInv, MomentsHold
  <2> QED  BY <2>4, <2>5, <2>8 DEF SnapshotInv
<1> QED  BY <1>8, <1>9

LEMMA CrawlFileKeeps ==
    ASSUME SnapshotInv, NEW c \in Clones, CrawlFile(c) PROVE SnapshotInv'
<1>1. PICK f \in SourceFiles : edges' = [edges EXCEPT ![c] = ReplaceOutgoing(edges[c], f, c)]
  BY DEF CrawlFile, SnapshotInv, SnapshotTypes
<1>2. c \in crawling /\ Records(c) /\ warm' = warm \ {c} /\ UNCHANGED <<tree, ppr, artifact, export, open, crawling>>
  BY DEF CrawlFile
<1>3. tree[c] \in SourceTrees /\ edges[c] \subseteq OwnEdges(c) /\ ppr[c] \subseteq OwnScores(c)
  BY <1>2 DEF SnapshotInv, RowsBelong
<1>4. PICK E : E = ReplaceOutgoing(edges[c], f, c)
  OBVIOUS
<1>5. E \subseteq OwnEdges(c)
  <2>1. ASSUME NEW t \in tree[c][f]
        PROVE  [src |-> File(c, f), tgt |-> RootedAt(t, c)] \in OwnEdges(c)
    <3>1. t \in SnapshotPaths /\ t.root \notin Clones
      BY <1>3 DEF SourceTrees
    <3>2. RootedAt(t, c) \in SnapshotPaths /\ RootedAt(t, c).root \notin Clones \ {c}
      BY <3>1, PathParts, FileParts DEF RootedAt
    <3>3. File(c, f) \in SnapshotPaths /\ File(c, f).root = c /\ File(c, f).name # "up"
      BY SnapshotAssumption DEF SnapshotPaths, File
    <3> QED  BY <3>2, <3>3 DEF OwnEdges, EdgeRows
  <2> QED  BY <1>3, <1>4, <2>1 DEF ReplaceOutgoing, Outgoing
<1>6. ppr' = [ppr EXCEPT ![c] = ppr[c]]
  BY <1>2 DEF SnapshotInv, SnapshotTypes
<1> QED  BY <1>1, <1>2, <1>3, <1>4, <1>5, <1>6, RecordKeeps DEF SnapshotInv, SnapshotTypes

LEMMA AnalyticsKeeps ==
    ASSUME SnapshotInv, NEW c \in Clones, Analytics(c) PROVE SnapshotInv'
<1>1. ppr' = [ppr EXCEPT ![c] = UpsertScores(ppr[c], edges[c])]
  BY DEF Analytics, SnapshotInv, SnapshotTypes
<1>2. c \in crawling /\ Records(c) /\ warm' = warm \ {c} /\ UNCHANGED <<tree, edges, artifact, export, open, crawling>>
  BY DEF Analytics
<1>3. tree[c] \in SourceTrees /\ edges[c] \subseteq OwnEdges(c) /\ ppr[c] \subseteq OwnScores(c)
  BY <1>2 DEF SnapshotInv, RowsBelong
<1>4. PICK P : P = UpsertScores(ppr[c], edges[c])
  OBVIOUS
<1>5. P \subseteq OwnScores(c)
  <2>1. ASSUME NEW p \in Nodes(edges[c])
        PROVE  [file |-> p, score |-> Importers(edges[c], p)] \in OwnScores(c)
    <3>1. p \in SnapshotPaths /\ p.root \notin Clones \ {c}
      BY <1>3 DEF Nodes, OwnEdges, EdgeRows
    <3>2. {r.src : r \in {q \in edges[c] : q.tgt = p}} \in SUBSET SnapshotPaths
      BY <1>3 DEF OwnEdges, EdgeRows
    <3>3. Importers(edges[c], p) \in {Cardinality(s) : s \in SUBSET SnapshotPaths}
      BY <3>2 DEF Importers
    <3> QED  BY <3>1, <3>3 DEF OwnScores, ScoreRows
  <2> QED  BY <1>3, <1>4, <2>1 DEF UpsertScores
<1>6. edges' = [edges EXCEPT ![c] = edges[c]]
  BY <1>2 DEF SnapshotInv, SnapshotTypes
<1> QED  BY <1>1, <1>2, <1>3, <1>4, <1>5, <1>6, RecordKeeps DEF SnapshotInv, SnapshotTypes

(***************************************************************************)
(* Exports: what was read together is built and written together.          *)
(***************************************************************************)
LEMMA ExportStepKeeps ==
    ASSUME SnapshotInv, NEW e \in Exporters,
           NEW r \in [at : {"idle", "build", "write", "attrs"}, clone : Clones \cup {""},
                      edges : SUBSET EdgeRows, ppr : SUBSET ScoreRows],
           Exports(e, r), UNCHANGED <<tree, edges, ppr, open, crawling, warm, was>>,
           artifact' \in [Clones -> [kind : {"none", "whole", "corrupt"},
                                     edges : SUBSET SharedEdges, ppr : SUBSET SharedScores]],
           \A c \in Clones : artifact'[c].kind = "whole" => OneMoment(Moments, artifact'[c].edges, artifact'[c].ppr),
           r.at \in {"build", "write"} => r.clone \in Clones,
           r.at = "build" => /\ r.edges \subseteq OwnEdges(r.clone) /\ r.ppr \subseteq OwnScores(r.clone)
                             /\ OneMoment(Moments, PortableEdges(r.edges, r.clone), PortableScores(r.ppr, r.clone)),
           r.at = "write" => /\ r.edges \subseteq SharedEdges /\ r.ppr \subseteq SharedScores
                             /\ OneMoment(Moments, r.edges, r.ppr)
    PROVE  SnapshotInv'
<1>1. \A d \in Exporters : export'[d] = IF d = e THEN r ELSE export[d]
  BY DEF Exports, SnapshotInv, SnapshotTypes
<1>2. SnapshotTypes'
  BY DEF Exports, SnapshotInv, SnapshotTypes
<1>3. ASSUME NEW d \in Exporters
      PROVE  /\ export'[d].at \in {"build", "write"} => export'[d].clone \in Clones
             /\ export'[d].at = "build" =>
                    /\ export'[d].edges \subseteq OwnEdges(export'[d].clone)
                    /\ export'[d].ppr \subseteq OwnScores(export'[d].clone)
                    /\ OneMoment(Moments, PortableEdges(export'[d].edges, export'[d].clone),
                                          PortableScores(export'[d].ppr, export'[d].clone))
             /\ export'[d].at = "write" =>
                    /\ export'[d].edges \subseteq SharedEdges /\ export'[d].ppr \subseteq SharedScores
                    /\ OneMoment(Moments, export'[d].edges, export'[d].ppr)
  <2>1. CASE d = e
    BY <1>1, <2>1
  <2>2. CASE d # e
    BY <1>1, <2>2 DEF SnapshotInv, RowsBelong, MomentsHold
  <2> QED  BY <2>1, <2>2
<1>4. Moments' = Moments
  BY DEF Moments
<1>5. RowsBelong'
  BY <1>3 DEF SnapshotInv, RowsBelong
<1>6. MomentsHold'
  BY <1>3, <1>4 DEF SnapshotInv, MomentsHold
<1> QED  BY <1>2, <1>5, <1>6 DEF SnapshotInv

LEMMA ReadProjectGraphKeeps ==
    ASSUME SnapshotInv, NEW e \in Exporters, ReadProjectGraph(e) PROVE SnapshotInv'
<1>1. PICK c \in Clones : Exports(e, [at |-> "build", clone |-> c, edges |-> edges[c], ppr |-> ppr[c]])
  BY DEF ReadProjectGraph
<1>2. PICK r : r = [at |-> "build", clone |-> c, edges |-> edges[c], ppr |-> ppr[c]]
  OBVIOUS
<1>3. r \in [at : {"idle", "build", "write", "attrs"}, clone : Clones \cup {""},
             edges : SUBSET EdgeRows, ppr : SUBSET ScoreRows]
      /\ r.at = "build" /\ r.clone = c /\ r.edges = edges[c] /\ r.ppr = ppr[c]
  BY <1>2 DEF SnapshotInv, SnapshotTypes
<1>4. /\ UNCHANGED <<tree, edges, ppr, artifact, open, crawling, warm, was>> /\ Exports(e, r)
  BY <1>1, <1>2 DEF ReadProjectGraph
<1>5. /\ edges[c] \subseteq OwnEdges(c) /\ ppr[c] \subseteq OwnScores(c)
      /\ OneMoment(Moments, PortableEdges(edges[c], c), PortableScores(ppr[c], c))
      /\ \A d \in Clones : artifact'[d].kind = "whole" => OneMoment(Moments, artifact'[d].edges, artifact'[d].ppr)
  BY <1>4 DEF SnapshotInv, RowsBelong, MomentsHold
<1>6. artifact' \in [Clones -> [kind : {"none", "whole", "corrupt"},
                                edges : SUBSET SharedEdges, ppr : SUBSET SharedScores]]
  BY <1>4 DEF SnapshotInv, SnapshotTypes
<1> QED  BY <1>3, <1>4, <1>5, <1>6, ExportStepKeeps

LEMMA BuildKeeps ==
    ASSUME SnapshotInv, NEW e \in Exporters, BuildAndCompress(e) PROVE SnapshotInv'
<1>1. PICK c : c = export[e].clone
  OBVIOUS
<1>2. PICK E : E = PortableEdges(export[e].edges, c)
  OBVIOUS
<1>3. PICK P : P = PortableScores(export[e].ppr, c)
  OBVIOUS
<1>4. c \in Clones /\ E \subseteq SharedEdges /\ P \subseteq SharedScores /\ OneMoment(Moments, E, P)
  BY <1>1, <1>2, <1>3, OwnRowsAreShared DEF BuildAndCompress, SnapshotInv, RowsBelong, MomentsHold
<1>5. PICK r : r = [export[e] EXCEPT !.at = "write", !.edges = E, !.ppr = P]
  OBVIOUS
<1>6. r \in [at : {"idle", "build", "write", "attrs"}, clone : Clones \cup {""},
             edges : SUBSET EdgeRows, ppr : SUBSET ScoreRows]
      /\ r.at = "write" /\ r.clone = c /\ r.edges = E /\ r.ppr = P
  BY <1>1, <1>4, <1>5 DEF SnapshotInv, SnapshotTypes, SharedEdges, SharedScores
<1>7. UNCHANGED <<tree, edges, ppr, artifact, open, crawling, warm, was>> /\ Exports(e, r)
  BY <1>1, <1>2, <1>3, <1>5 DEF BuildAndCompress, Built
<1>8. /\ \A d \in Clones : artifact'[d].kind = "whole" => OneMoment(Moments, artifact'[d].edges, artifact'[d].ppr)
      /\ artifact' \in [Clones -> [kind : {"none", "whole", "corrupt"},
                                   edges : SUBSET SharedEdges, ppr : SUBSET SharedScores]]
  BY <1>7 DEF SnapshotInv, SnapshotTypes, MomentsHold
<1> QED  BY <1>4, <1>6, <1>7, <1>8, ExportStepKeeps

LEMMA AtomicWriteKeeps ==
    ASSUME SnapshotInv, NEW e \in Exporters, AtomicWrite(e) PROVE SnapshotInv'
<1>1. PICK r : r = [export[e] EXCEPT !.at = "attrs"]
  OBVIOUS
<1>2. r \in [at : {"idle", "build", "write", "attrs"}, clone : Clones \cup {""},
             edges : SUBSET EdgeRows, ppr : SUBSET ScoreRows] /\ r.at = "attrs"
  BY <1>1 DEF SnapshotInv, SnapshotTypes
<1>3. PICK file : file = [kind |-> "whole", edges |-> export[e].edges, ppr |-> export[e].ppr]
  OBVIOUS
<1>4. /\ file.edges \subseteq SharedEdges /\ file.ppr \subseteq SharedScores /\ file.kind = "whole"
      /\ file = [kind |-> "whole", edges |-> file.edges, ppr |-> file.ppr]
      /\ OneMoment(Moments, file.edges, file.ppr) /\ export[e].clone \in Clones
  BY <1>3 DEF AtomicWrite, SnapshotInv, RowsBelong, MomentsHold
<1>5. /\ UNCHANGED <<tree, edges, ppr, open, crawling, warm, was>> /\ Exports(e, r)
      /\ artifact' = [artifact EXCEPT ![export[e].clone] = file]
  BY <1>1, <1>3 DEF AtomicWrite
<1>6. /\ \A d \in Clones : artifact'[d] = IF d = export[e].clone THEN file ELSE artifact[d]
      /\ artifact' \in [Clones -> [kind : {"none", "whole", "corrupt"},
                                   edges : SUBSET SharedEdges, ppr : SUBSET SharedScores]]
  BY <1>4, <1>5 DEF SnapshotInv, SnapshotTypes
<1>7. \A d \in Clones : artifact'[d].kind = "whole" => OneMoment(Moments, artifact'[d].edges, artifact'[d].ppr)
  BY <1>4, <1>6 DEF SnapshotInv, MomentsHold
<1> QED  BY <1>2, <1>5, <1>6, <1>7, ExportStepKeeps

LEMMA ExportEndKeeps ==
    ASSUME SnapshotInv, NEW e \in Exporters, EnsureGitattributes(e) \/ ExportFails(e) PROVE SnapshotInv'
<1>1. PICK r : r = NoExport
  OBVIOUS
<1>2. r \in [at : {"idle", "build", "write", "attrs"}, clone : Clones \cup {""},
             edges : SUBSET EdgeRows, ppr : SUBSET ScoreRows] /\ r.at = "idle"
  BY <1>1 DEF NoExport
<1>3. UNCHANGED <<tree, edges, ppr, artifact, open, crawling, warm, was>> /\ Exports(e, r)
  BY <1>1 DEF EnsureGitattributes, ExportFails
<1>4. /\ \A d \in Clones : artifact'[d].kind = "whole" => OneMoment(Moments, artifact'[d].edges, artifact'[d].ppr)
      /\ artifact' \in [Clones -> [kind : {"none", "whole", "corrupt"},
                                   edges : SUBSET SharedEdges, ppr : SUBSET SharedScores]]
  BY <1>3 DEF SnapshotInv, SnapshotTypes, MomentsHold
<1> QED  BY <1>2, <1>3, <1>4, ExportStepKeeps

(***************************************************************************)
(* The repository around it.                                               *)
(***************************************************************************)
LEMMA SaveSourceKeeps ==
    ASSUME SnapshotInv, NEW c \in Clones, SaveSource(c) PROVE SnapshotInv'
<1>1. PICK f \in SourceFiles, t \in {{}, {File("module", "m")}} :
           tree[c] # <<>> /\ tree' = [tree EXCEPT ![c][f] = t]
  BY DEF SaveSource, Checked
<1>2. UNCHANGED <<edges, ppr, artifact, export, open, crawling, warm, was>>
  BY DEF SaveSource
<1>3. File("module", "m") \in SnapshotPaths /\ File("module", "m").root \notin Clones
  BY SnapshotAssumption DEF SnapshotPaths, File
<1>4. tree[c] \in SourceTrees
  BY <1>1 DEF SnapshotInv, SnapshotTypes
<1>5. [tree[c] EXCEPT ![f] = t] \in SourceTrees
  BY <1>3, <1>4 DEF SourceTrees
<1>6. \A d \in Clones : tree'[d] = IF d = c THEN [tree[c] EXCEPT ![f] = t] ELSE tree[d]
  BY <1>1 DEF SnapshotInv, SnapshotTypes
<1>7. tree' \in [Clones -> {<<>>} \cup SourceTrees]
  BY <1>1, <1>5 DEF SnapshotInv, SnapshotTypes
<1>8. \A d \in Clones : tree[d] \in SourceTrees => tree'[d] \in SourceTrees
  BY <1>5, <1>6
<1>9. SnapshotTypes'
  BY <1>2, <1>7 DEF SnapshotInv, SnapshotTypes
<1>10. RowsBelong'
  BY <1>2, <1>8 DEF SnapshotInv, SnapshotTypes, RowsBelong
<1>11. MomentsHold'
  BY <1>2 DEF SnapshotInv, MomentsHold, Moments
<1> QED  BY <1>9, <1>10, <1>11 DEF SnapshotInv

LEMMA CloneKeeps ==
    ASSUME SnapshotInv, NEW c \in Clones, CloneRepository(c) PROVE SnapshotInv'
<1>1. PICK d \in Clones : /\ tree[d] # <<>> /\ tree[c] = <<>>
                          /\ tree' = [tree EXCEPT ![c] = tree[d]]
                          /\ artifact' = [artifact EXCEPT ![c] = artifact[d]]
  BY DEF CloneRepository, Checked
<1>2. UNCHANGED <<edges, ppr, export, open, crawling, warm, was>>
  BY DEF CloneRepository
<1>3. /\ \A b \in Clones : tree'[b] = IF b = c THEN tree[d] ELSE tree[b]
      /\ \A b \in Clones : artifact'[b] = IF b = c THEN artifact[d] ELSE artifact[b]
      /\ tree[d] \in SourceTrees
  BY <1>1 DEF SnapshotInv, SnapshotTypes
<1>4. SnapshotTypes'
  BY <1>1, <1>2 DEF SnapshotInv, SnapshotTypes
<1>5. \A b \in Clones : tree[b] \in SourceTrees => tree'[b] \in SourceTrees
  BY <1>3
<1>6. RowsBelong'
  BY <1>2, <1>5 DEF SnapshotInv, SnapshotTypes, RowsBelong
<1>7. \A b \in Clones : artifact'[b].kind = "whole" => OneMoment(Moments, artifact'[b].edges, artifact'[b].ppr)
  BY <1>3 DEF SnapshotInv, MomentsHold
<1>8. MomentsHold'
  BY <1>2, <1>7 DEF SnapshotInv, MomentsHold, Moments
<1> QED  BY <1>4, <1>6, <1>8 DEF SnapshotInv

LEMMA DamageKeeps ==
    ASSUME SnapshotInv, NEW c \in Clones, DamageArtifact(c) PROVE SnapshotInv'
<1>1. UNCHANGED <<tree, edges, ppr, export, open, crawling, warm, was>>
  BY DEF DamageArtifact
<1>2. Outside \in SharedEdges /\ ~InOwnTree(Outside.src)
  BY SnapshotAssumption DEF Outside, SharedEdges, EdgeRows, SnapshotPaths, File, InOwnTree
<1>3. PICK file \in {[artifact[c] EXCEPT !.kind = "corrupt"], [artifact[c] EXCEPT !.edges = @ \cup {Outside}]} :
           artifact' = [artifact EXCEPT ![c] = file]
  BY DEF DamageArtifact
<1>4. /\ file \in [kind : {"none", "whole", "corrupt"}, edges : SUBSET SharedEdges, ppr : SUBSET SharedScores]
      /\ file.ppr = artifact[c].ppr
      /\ file.kind = "whole" => artifact[c].kind = "whole" /\ file.edges = artifact[c].edges \cup {Outside}
  <2>1. artifact[c] \in [kind : {"none", "whole", "corrupt"}, edges : SUBSET SharedEdges, ppr : SUBSET SharedScores]
    BY DEF SnapshotInv, SnapshotTypes
  <2>2. CASE file = [artifact[c] EXCEPT !.kind = "corrupt"]
    BY <2>1, <2>2
  <2>3. CASE file = [artifact[c] EXCEPT !.edges = artifact[c].edges \cup {Outside}]
    <3>1. artifact[c].edges \cup {Outside} \in SUBSET SharedEdges
      BY <1>2, <2>1
    <3>2. file.edges = artifact[c].edges \cup {Outside} /\ file.kind = artifact[c].kind /\ file.ppr = artifact[c].ppr
      BY <2>1, <2>3
    <3> QED  BY <2>1, <2>3, <3>1, <3>2
  <2> QED  BY <1>3, <2>2, <2>3
<1>5. \A d \in Clones : artifact'[d] = IF d = c THEN file ELSE artifact[d]
  BY <1>3 DEF SnapshotInv, SnapshotTypes
<1>6. SnapshotTypes'
  BY <1>1, <1>3, <1>4 DEF SnapshotInv, SnapshotTypes
<1>7. RowsBelong'
  BY <1>1 DEF SnapshotInv, RowsBelong
<1>8. InsideEdges(artifact[c].edges \cup {Outside}) = InsideEdges(artifact[c].edges)
  BY <1>2 DEF InsideEdges
<1>9. ASSUME NEW d \in Clones, artifact'[d].kind = "whole"
      PROVE  OneMoment(Moments, artifact'[d].edges, artifact'[d].ppr)
  <2>1. CASE d = c
    <3>1. OneMoment(Moments, artifact[c].edges, artifact[c].ppr)
      BY <1>4, <1>5, <1>9, <2>1 DEF SnapshotInv, MomentsHold
    <3>2. OneMoment(Moments, file.edges, file.ppr)
      BY <1>4, <1>5, <1>8, <1>9, <2>1, <3>1 DEF OneMoment
    <3> QED  BY <1>5, <2>1, <3>2
  <2>2. CASE d # c
    BY <1>5, <1>9, <2>2 DEF SnapshotInv, MomentsHold
  <2> QED  BY <2>1, <2>2
<1>10. MomentsHold'
  BY <1>1, <1>9 DEF SnapshotInv, MomentsHold, Moments
<1> QED  BY <1>6, <1>7, <1>10 DEF SnapshotInv

LEMMA SnapshotStays == SnapshotInv /\ [SnapshotNext]_snapshotVars => SnapshotInv'
<1> SUFFICES ASSUME SnapshotInv, [SnapshotNext]_snapshotVars PROVE SnapshotInv'
  OBVIOUS
<1>1. CASE UNCHANGED snapshotVars
  BY <1>1 DEF snapshotVars, SnapshotInv, SnapshotTypes, RowsBelong, MomentsHold, Moments
<1>2. ASSUME NEW w \in Windows, OpenWorkspace(w) \/ DecompressAndParse(w) \/ ImportSnapshot(w)
      PROVE  SnapshotInv'
  BY <1>2, OpenWorkspaceKeeps, DecompressKeeps, ImportKeeps
<1>3. ASSUME NEW c \in Clones, CrawlFile(c) \/ Analytics(c)
      PROVE  SnapshotInv'
  BY <1>3, CrawlFileKeeps, AnalyticsKeeps
<1>4. ASSUME NEW e \in Exporters, \/ ReadProjectGraph(e) \/ BuildAndCompress(e) \/ AtomicWrite(e)
                                  \/ EnsureGitattributes(e) \/ ExportFails(e)
      PROVE  SnapshotInv'
  BY <1>4, ReadProjectGraphKeeps, BuildKeeps, AtomicWriteKeeps, ExportEndKeeps
<1>5. ASSUME NEW c \in Clones, SaveSource(c) \/ CloneRepository(c) \/ DamageArtifact(c)
      PROVE  SnapshotInv'
  BY <1>5, SaveSourceKeeps, CloneKeeps, DamageKeeps
<1> QED  BY <1>1, <1>2, <1>3, <1>4, <1>5 DEF SnapshotNext

\* What the invariant says of a warm clone is what the run checks of it.
LEMMA SnapshotMatches == SnapshotInv => WarmStartMatches
BY DEF SnapshotInv, SnapshotTypes, RowsBelong, MomentsHold, JustOneMoment, Moments, OwnEdges,
       WarmStartMatches, WarmIsOneMoment, RowsAreLocal

\* A clone that warm-started from the committed artifact holds the in-tree part of
\* one moment of another clone's two tables, at its own root, however exports,
\* crawls, the analytics pass, imports of several windows, clones and damage to
\* the artifact interleave (memory_snapshot.py:117, 330; db.py's one transaction).
THEOREM WarmStartsMatch == SnapshotSpec => []WarmStartMatches
<1> QED  BY SnapshotStarts, SnapshotStays, SnapshotMatches, PTL DEF SnapshotSpec
=============================================================================
