--------------------------- MODULE Dispatch_proofs ---------------------------
(***************************************************************************)
(* Proofs about the dynamic dispatch of subagents, for all plans, ceilings *)
(* and budgets: what is reserved, reported, digested and charged is exact. *)
(***************************************************************************)
EXTENDS Dispatch, FiniteSetTheorems, SequenceTheorems, WellFoundedInduction, TLAPS

USE DispatchAssumption

-----------------------------------------------------------------------------
(* The inductive invariant.                                                 *)

\* How a worker may end.
Statuses == {"ok", "done", "error", "denied", "budget_exhausted"}
\* The reports that workers leave.
Envelopes == [dispatch : Nat, round : Nat, task : Nat, status : Statuses, cost : Nat]
\* The nodes of the graph around the dispatch.
Spine == {"researcher_agent", "planner_agent", "step_dispatch"}

\* The types of the channels and of the history.
DispatchTypes ==
    /\ at \in Subgraph \cup Between \cup Spine
    /\ plan \in PlanType \cup {NoPlan}
    /\ emitted \in PlanType \cup {NoPlan}
    /\ returnNode \in {"none", "planner_agent", "step_dispatch"}
    /\ wave \in Nat /\ round \in Nat
    /\ results \in Seq(Envelopes)
    /\ consumed \in 0..Len(results)
    /\ cost \in Int /\ reserved \in Nat
    /\ reservedRound \in Int /\ reservedRound >= -1
    /\ opened \in Int
    /\ turn \in Nat /\ dispatch \in Nat /\ emittedIn \in Nat
    /\ closed \subseteq 0..dispatch

\* Whose the envelopes are: none is of a dispatch that is still to come, those
\* past the watermark are of dispatches that are not closed, and those before it
\* are not of the dispatch whose plan is on the state.
EnvelopesAreOwned ==
    /\ \A i \in 1..Len(results) : results[i].dispatch <= dispatch
    /\ \A i \in Fresh : results[i].dispatch \notin closed
    /\ plan # NoPlan => /\ dispatch \notin closed
                        /\ \A i \in 1..consumed : results[i].dispatch < dispatch

\* Where a plan may be found: the subgraph runs with one, and a plan that the
\* spine finds is left over from an earlier turn.
PlansInPlace ==
    /\ emittedIn <= turn
    /\ at \in Subgraph => plan # NoPlan
    /\ at = "researcher_agent" => emittedIn < turn
    /\ at \in {"planner_agent", "step_dispatch"} /\ plan # NoPlan => emittedIn < turn
    /\ at = "subagent_worker" => wave * Cap < plan.width

\* A dispatch is under way in the turn that emitted it.
OnCourse == at \in Subgraph /\ InItsTurn

\* The plan of each round: critics follow on the proposals of an adversarial plan.
PlanOfRound(r) == IF r > 0 /\ emitted.pattern = "adversarial" THEN CriticPlan ELSE emitted

\* Which plan the rounds run, and how far the waves of the current one have come.
RoundInv ==
    /\ emitted \in PlanType
    /\ plan = PlanOfRound(round)
    /\ round > 0 \/ at = "dispatch_advance" => emitted.pattern \in {"adversarial", "loop"}
    /\ at \in {"dispatch_fanout", "subagent_worker", "dispatch_gate", "dispatch_advance"}
          \/ wave > 0 \/ round > 0
       => MaxDepth # 0 /\ emitted.width <= MaxWidth
    /\ at \in {"dispatch_origin", "dispatch_fanout", "subagent_worker", "dispatch_gate"}
       => wave * Cap < plan.width
    /\ at = "dispatch_advance" => wave * Cap >= plan.width

\* One reservation for each round, made before its first wave.
LedgerInv ==
    /\ reserved = Estimated
    /\ cost = opened + reserved
    /\ reserved > 0 => cost <= Budget
    /\ Budget = 0 => reservedRound = -1
    /\ Budget # 0 /\ (at # "dispatch_synthesize" \/ wave # 0)
       => reservedRound = IF at = "dispatch_origin" /\ wave = 0 THEN round - 1 ELSE round

\* How many tasks of the current round have reported.
Reported ==
    CASE at = "dispatch_gate" -> Lesser((wave + 1) * Cap, plan.width)
      [] at = "dispatch_advance" -> plan.width
      [] at = "dispatch_synthesize" -> Lesser(plan.width, MaxWidth)
      [] OTHER -> wave * Cap

\* The reports that must be in: those of the rounds that are over, and of the waves of
\* this one that have joined.
Due(r, t) ==
    /\ t >= 1
    /\ \/ r < round /\ t <= PlanOfRound(r).width
       \/ r = round /\ t <= Reported

\* The places of the channel with the report of a task in a round.
Reports(r, t) ==
    {i \in Fresh : /\ results[i].dispatch = dispatch
                   /\ results[i].round = r
                   /\ results[i].task = t}

\* What is due is in the channel once, and nothing else is.
ReportInv ==
    \A r, t \in Nat : IF Due(r, t) THEN \E i \in Fresh : Reports(r, t) = {i}
                                   ELSE Reports(r, t) = {}

\* What holds while a dispatch is under way.
CourseInv == OnCourse => RoundInv /\ LedgerInv /\ ReportInv

\* The inductive invariant.
DispatchInv == DispatchTypes /\ EnvelopesAreOwned /\ PlansInPlace /\ CourseInv

-----------------------------------------------------------------------------
(* Sums of costs.                                                           *)

\* A nonempty set of numbers has a least one.
LEMMA Least ==
    ASSUME NEW S \in SUBSET Nat, S # {}
    PROVE  \E x \in S : \A y \in S : x <= y
<1> DEFINE less == {ss \in Nat \X Nat : ss[1] < ss[2]}
<1>1. IsWellFoundedOn(less, Nat)
  BY NatLessThanWellFounded DEF OpToRel
<1>2. \A j, k \in Nat : j < k => <<j, k>> \in less
  OBVIOUS
<1> HIDE DEF less
<1>3. PICK x \in S : \A y \in S : ~(<<y, x>> \in less)
  BY <1>1, WFMin
<1>4. ASSUME NEW y \in S
      PROVE  x <= y
  <2>1. x \in Nat /\ y \in Nat /\ ~(y < x)
    BY <1>2, <1>3
  <2> QED
    BY <2>1
<1> QED
  BY <1>4

\* The partial sums of a sequence of costs.
Tallies(c, n) == {f \in [0..n -> Nat] : f = [i \in 0..n |-> IF i = 0 THEN 0 ELSE f[i - 1] + c[i]]}

\* There are partial sums up to any number of costs.
LEMMA TalliesExist ==
    ASSUME NEW c \in [Nat -> Nat]
    PROVE  \A n \in Nat : Tallies(c, n) # {}
<1> DEFINE bad == {n \in Nat : Tallies(c, n) = {}}
<1> SUFFICES ASSUME bad # {}
             PROVE  FALSE
  OBVIOUS
<1>1. PICK n \in bad : \A m \in bad : n <= m
  BY Least
<1>2. CASE n = 0
  <2> DEFINE f == [i \in 0..0 |-> 0]
  <2>1. f \in [0..0 -> Nat] /\ f = [i \in 0..0 |-> IF i = 0 THEN 0 ELSE f[i - 1] + c[i]]
    OBVIOUS
  <2>2. f \in Tallies(c, 0)
    BY <2>1 DEF Tallies
  <2> QED
    BY <1>1, <1>2, <2>2
<1>3. CASE n # 0
  <2>1. n - 1 \in Nat /\ n - 1 \notin bad /\ n \in Nat
    BY <1>1, <1>3
  <2>2. PICK f : f \in Tallies(c, n - 1)
    BY <2>1
  <2> DEFINE g == [i \in 0..n |-> IF i = n THEN f[n - 1] + c[n] ELSE f[i]]
  <2>3. /\ f \in [0..n-1 -> Nat]
        /\ \A i \in 0..n-1 : f[i] = IF i = 0 THEN 0 ELSE f[i - 1] + c[i]
    BY <2>1, <2>2 DEF Tallies
  <2>4. \A i \in 0..n : i # n => i \in 0..n-1 /\ (i # 0 => i - 1 \in 0..n-1 /\ i - 1 # n)
    BY <2>1
  <2>5. n - 1 \in 0..n-1 /\ n - 1 # n /\ n \in 0..n /\ n - 1 \in 0..n /\ f[n - 1] + c[n] \in Nat
    <3>1. n - 1 \in 0..n-1 /\ n - 1 # n /\ n \in 0..n /\ n - 1 \in 0..n
      BY <2>1
    <3>2. f[n - 1] \in Nat /\ c[n] \in Nat
      BY <2>1, <2>3, <3>1
    <3> QED
      BY <3>1, <3>2
  <2>6. g \in [0..n -> Nat]
    BY <2>3, <2>4, <2>5
  <2>8. \A i \in 0..n : g[i] = IF i = 0 THEN 0 ELSE g[i - 1] + c[i]
    <3> SUFFICES ASSUME NEW i \in 0..n
                 PROVE  g[i] = IF i = 0 THEN 0 ELSE g[i - 1] + c[i]
      OBVIOUS
    <3>1. CASE i = n
      BY <1>3, <2>5, <3>1
    <3>2. CASE i # n
      <4>1. g[i] = f[i] /\ (i # 0 => g[i - 1] = f[i - 1])
        BY <2>4, <3>2
      <4> QED
        BY <2>3, <2>4, <3>2, <4>1
    <3> QED
      BY <3>1, <3>2
  <2> HIDE DEF g
  <2>9. g = [i \in 0..n |-> IF i = 0 THEN 0 ELSE g[i - 1] + c[i]]
    BY <2>6, <2>8
  <2>7. g \in Tallies(c, n)
    BY <2>6, <2>9 DEF Tallies
  <2> QED
    BY <1>1, <2>7
<1> QED
  BY <1>2, <1>3

\* The bill of any envelopes is a number.
LEMMA BillIsNumber ==
    ASSUME DispatchTypes, NEW positions
    PROVE  TotalCost(positions) \in Nat
<1> DEFINE N == Len(results)
           c == [n \in Nat |-> IF n \in positions /\ n \in 1..N THEN results[n].cost ELSE 0]
           D(f) == f = [n \in 0..N |-> IF n = 0 THEN 0
                                       ELSE f[n - 1] + (IF n \in positions THEN results[n].cost ELSE 0)]
           sum == CHOOSE f : D(f)
<1>1. N \in Nat /\ \A n \in 1..N : results[n] \in Envelopes
  BY DEF DispatchTypes
<1>2. \A n \in 1..N : results[n].cost \in Nat
  BY <1>1 DEF Envelopes
<1>3. c \in [Nat -> Nat]
  BY <1>2
<1>4. \A n \in 1..N : c[n] = IF n \in positions THEN results[n].cost ELSE 0
  BY <1>1
<1> HIDE DEF c
<1>5. \E f : D(f)
  <2>1. PICK f : f \in Tallies(c, N)
    BY <1>1, <1>3, TalliesExist
  <2>2. f = [n \in 0..N |-> IF n = 0 THEN 0 ELSE f[n - 1] + c[n]]
    BY <2>1 DEF Tallies
  <2>3. [n \in 0..N |-> IF n = 0 THEN 0 ELSE f[n - 1] + c[n]]
          = [n \in 0..N |-> IF n = 0 THEN 0
                            ELSE f[n - 1] + (IF n \in positions THEN results[n].cost ELSE 0)]
    BY <1>1, <1>4
  <2> QED
    BY <2>2, <2>3
<1>6. D(sum)
  BY <1>5
<1>7. \A n \in 0..N : sum[n] \in Nat
  <2> DEFINE bad == {n \in 0..N : sum[n] \notin Nat}
  <2> SUFFICES ASSUME bad # {}
               PROVE  FALSE
    OBVIOUS
  <2>1. bad \in SUBSET Nat
    BY <1>1
  <2>2. PICK n \in bad : \A m \in bad : n <= m
    BY <2>1, Least
  <2>3. n \in 0..N /\ n \in Nat
    BY <1>1, <2>2
  <2>4. sum[n] = IF n = 0 THEN 0 ELSE sum[n - 1] + c[n]
    <3>1. sum[n] = IF n = 0 THEN 0
                   ELSE sum[n - 1] + (IF n \in positions THEN results[n].cost ELSE 0)
      BY <1>6, <2>3, Zenon
    <3>2. n # 0 => n \in 1..N
      BY <1>1, <2>3
    <3> HIDE DEF sum
    <3> QED
      BY <1>4, <3>1, <3>2
  <2>5. n # 0 => n - 1 \in 0..N /\ n - 1 \notin bad
    <3> SUFFICES ASSUME n # 0
                 PROVE  n - 1 \in 0..N /\ n - 1 \notin bad
      OBVIOUS
    <3>1. n - 1 \in 0..N /\ ~(n <= n - 1)
      BY <1>1, <2>3
    <3> QED
      BY <2>2, <3>1
  <2>6. n # 0 => sum[n - 1] \in Nat /\ c[n] \in Nat
    BY <1>3, <2>3, <2>5
  <2> HIDE DEF sum
  <2>7. sum[n] \in Nat
    BY <2>4, <2>6
  <2> QED
    BY <2>2, <2>7
<1>8. TotalCost(positions) = sum[N]
  BY DEF TotalCost
<1> QED
  BY <1>1, <1>7, <1>8

-----------------------------------------------------------------------------
(* Envelopes.                                                               *)

\* rs reports the tasks first..last of the current round of the dispatch.
IsReport(rs, first, last) ==
    /\ rs \in Seq(Envelopes)
    /\ Len(rs) = last - first + 1
    /\ \A j \in 1..Len(rs) : /\ rs[j].dispatch = dispatch
                             /\ rs[j].round = round
                             /\ rs[j].task = first + j - 1

\* What the workers of a wave and the denials append is such a report.
LEMMA ReportIsReport ==
    ASSUME DispatchTypes, NEW first \in Nat \ {0}, NEW last \in Nat, first <= last + 1,
           NEW out, \A t \in first..last : out[t].status \in Statuses /\ out[t].cost \in Nat
    PROVE  IsReport(Report(first, last, out), first, last)
<1> DEFINE env(i) == [dispatch |-> dispatch, round |-> round, task |-> first + i - 1,
                      status |-> out[first + i - 1].status, cost |-> out[first + i - 1].cost]
           n == last - first + 1
           rs == [i \in 1..n |-> env(i)]
<1>1. n \in Nat /\ Report(first, last, out) = rs
  BY DEF Report
<1>2. ASSUME NEW i \in 1..n
      PROVE  env(i) \in Envelopes
  <2>1. first + i - 1 \in first..last /\ first + i - 1 \in Nat
    OBVIOUS
  <2>2. dispatch \in Nat /\ round \in Nat
    BY DEF DispatchTypes
  <2> QED
    BY <2>1, <2>2 DEF Envelopes
<1>3. \A i \in 1..n : env(i).dispatch = dispatch /\ env(i).round = round /\ env(i).task = first + i - 1
  OBVIOUS
<1> HIDE DEF env, n
<1>4. rs \in Seq(Envelopes) /\ Len(rs) = n /\ \A i \in 1..n : rs[i] = env(i)
  BY <1>1, <1>2
<1> QED
  BY <1>1, <1>3, <1>4 DEF IsReport, n

\* The denials report the tasks below the width ceiling.
LEMMA DenialsAreReports ==
    ASSUME DispatchTypes, plan # NoPlan, NEW status \in {"denied", "budget_exhausted"}
    PROVE  IsReport(DeniedEnvelopes(status), 1, Lesser(plan.width, MaxWidth))
<1> DEFINE last == Lesser(plan.width, MaxWidth)
           out == [t \in 1..last |-> [status |-> status, cost |-> 0]]
<1>1. last \in Nat \ {0}
  BY DEF DispatchTypes, PlanType, Lesser
<1>2. \A t \in 1..last : out[t].status \in Statuses /\ out[t].cost \in Nat
  BY DEF Statuses
<1>3. DeniedEnvelopes(status) = Report(1, last, out)
  BY DEF DeniedEnvelopes
<1> HIDE DEF last, out
<1>4. 1 \in Nat \ {0} /\ last \in Nat /\ 1 <= last + 1
  BY <1>1
<1>5. IsReport(Report(1, last, out), 1, last)
  BY <1>2, <1>4, ReportIsReport
<1>6. IsReport(DeniedEnvelopes(status), 1, last)
  BY <1>3, <1>5
<1> QED
  BY <1>6 DEF last

\* The positions past a watermark c, when l envelopes are appended to n.
LEMMA PastTheEnd ==
    \A c, n, l \in Nat : \A i \in (c + 1)..(n + l) :
        i \in (c + 1)..n \/ (i - n \in 1..l /\ i > n /\ i \in 1..(n + l))
  OBVIOUS

\* A report that is appended to the channel.
LEMMA AppendedTypes ==
    ASSUME DispatchTypes, EnvelopesAreOwned, plan # NoPlan,
           NEW rs, NEW first \in Nat \ {0}, NEW last \in Nat, IsReport(rs, first, last),
           results' = results \o rs, UNCHANGED <<plan, dispatch, consumed, closed>>
    PROVE  /\ results' \in Seq(Envelopes) /\ consumed \in 0..Len(results')
           /\ EnvelopesAreOwned'
<1>1. rs \in Seq(Envelopes) /\ \A j \in 1..Len(rs) : rs[j].dispatch = dispatch
  BY DEF IsReport
<1>2. results \in Seq(Envelopes) /\ consumed \in 0..Len(results)
  BY DEF DispatchTypes
<1>3. /\ results' \in Seq(Envelopes) /\ Len(results') = Len(results) + Len(rs)
      /\ Len(results) \in Nat /\ Len(rs) \in Nat
      /\ \A i \in 1..Len(results') : results'[i] = IF i <= Len(results) THEN results[i]
                                                   ELSE rs[i - Len(results)]
  BY <1>1, <1>2
<1>4. ASSUME NEW i \in 1..Len(results'), i > Len(results)
      PROVE  results'[i].dispatch = dispatch
  <2>1. i - Len(results) \in 1..Len(rs)
    BY <1>3, <1>4
  <2> QED
    BY <1>1, <1>3, <1>4, <2>1
<1>5. \A i \in 1..Len(results) : i \in 1..Len(results') /\ results'[i] = results[i]
  BY <1>3
<1>6. \A i \in 1..Len(results') : i \in 1..Len(results) \/ i > Len(results)
  BY <1>3
<1>7. dispatch \in Nat /\ dispatch <= dispatch
  BY DEF DispatchTypes
<1>8. \A i \in 1..Len(results') : results'[i].dispatch <= dispatch
  BY <1>4, <1>5, <1>6, <1>7 DEF EnvelopesAreOwned
<1>9. \A i \in Fresh' : i \in Fresh \/ (i \in 1..Len(results') /\ i > Len(results))
  <2>1. Fresh' = (consumed + 1)..(Len(results) + Len(rs)) /\ Fresh = (consumed + 1)..Len(results)
    BY <1>3 DEF Fresh
  <2> SUFFICES ASSUME NEW i \in Fresh'
               PROVE  i \in Fresh \/ (i \in 1..Len(results') /\ i > Len(results))
    OBVIOUS
  <2>2. Len(results) \in Nat /\ Len(rs) \in Nat /\ consumed \in Nat
        /\ Len(results') = Len(results) + Len(rs)
    BY <1>2, <1>3
  <2>3. i \in (consumed + 1)..(Len(results) + Len(rs))
    BY <2>1
  <2>4. i \in (consumed + 1)..Len(results)
        \/ (i \in 1..(Len(results) + Len(rs)) /\ i > Len(results))
    BY <2>2, <2>3, PastTheEnd
  <2> QED
    BY <2>1, <2>2, <2>4
<1>10. \A i \in Fresh : i \in 1..Len(results)
  BY <1>2 DEF Fresh
<1>11. \A i \in Fresh' : results'[i].dispatch \notin closed
  BY <1>4, <1>5, <1>9, <1>10 DEF EnvelopesAreOwned
<1>12. \A i \in 1..consumed : i \in 1..Len(results) /\ results'[i].dispatch < dispatch
  BY <1>2, <1>5 DEF EnvelopesAreOwned
<1>13. dispatch \notin closed
  BY DEF EnvelopesAreOwned
<1>14. consumed \in 0..Len(results')
  BY <1>2, <1>3
<1>15. EnvelopesAreOwned'
  BY <1>8, <1>11, <1>12, <1>13 DEF EnvelopesAreOwned
<1> QED
  BY <1>3, <1>14, <1>15

\* It adds one envelope for each of its tasks.
LEMMA AppendedReports ==
    ASSUME DispatchTypes,
           NEW rs, NEW first \in Nat \ {0}, NEW last \in Nat, IsReport(rs, first, last),
           results' = results \o rs, UNCHANGED <<dispatch, consumed>>,
           NEW r \in Nat, NEW t \in Nat
    PROVE  /\ r = round /\ t \in first..last =>
                 \E i \in Fresh' : Reports(r, t)' = Reports(r, t) \cup {i}
           /\ ~(r = round /\ t \in first..last) => Reports(r, t)' = Reports(r, t)
           /\ Fresh \subseteq Fresh'
<1>1. /\ rs \in Seq(Envelopes) /\ Len(rs) = last - first + 1
      /\ \A j \in 1..Len(rs) : /\ rs[j].dispatch = dispatch /\ rs[j].round = round
                               /\ rs[j].task = first + j - 1
  BY DEF IsReport
<1>2. results \in Seq(Envelopes) /\ consumed \in 0..Len(results) /\ consumed \in Nat
  BY DEF DispatchTypes
<1> DEFINE N == Len(results)
<1>3. /\ Len(results') = N + Len(rs) /\ N \in Nat /\ Len(rs) \in Nat
      /\ \A i \in 1..Len(results') : results'[i] = IF i <= N THEN results[i] ELSE rs[i - N]
  <2>1. rs \in Seq(Envelopes) /\ results \in Seq(Envelopes)
    BY <1>1, <1>2
  <2> QED
    BY <2>1
<1>0. Fresh' = (consumed + 1)..(N + Len(rs)) /\ Fresh = (consumed + 1)..N
  BY <1>3 DEF Fresh
<1> HIDE DEF N
<1>4. Fresh \subseteq Fresh' /\ \A i \in Fresh : results'[i] = results[i]
  BY <1>2, <1>3 DEF Fresh, N
<1>5. \A i \in Fresh' : i \in Fresh \/ (i - N \in 1..Len(rs) /\ i > N)
  <2> SUFFICES ASSUME NEW i \in Fresh'
               PROVE  i \in Fresh \/ (i - N \in 1..Len(rs) /\ i > N)
    OBVIOUS
  <2>1. i \in (consumed + 1)..(N + Len(rs))
    BY <1>0
  <2>2. N \in Nat /\ Len(rs) \in Nat /\ consumed \in Nat
    BY <1>2, <1>3
  <2>3. i \in (consumed + 1)..N \/ (i - N \in 1..Len(rs) /\ i > N)
    BY <2>1, <2>2, PastTheEnd
  <2> QED
    BY <1>0, <2>3
<1>6. ASSUME NEW i \in Fresh', i \notin Fresh
      PROVE  results'[i].dispatch = dispatch /\ results'[i].round = round
             /\ results'[i].task = first + (i - N) - 1 /\ i - N \in 1..Len(rs) /\ i \in Int
  <2>1. i - N \in 1..Len(rs) /\ i > N /\ i \in 1..Len(results') /\ i \in Int
    BY <1>2, <1>3, <1>5, <1>6 DEF Fresh
  <2>2. results'[i] = rs[i - N]
    BY <1>3, <2>1
  <2> QED
    BY <1>1, <2>1, <2>2
<1>7. \A i : i \in Reports(r, t) => i \in Reports(r, t)'
  BY <1>4 DEF Reports
<1>8. \A i : i \in Reports(r, t)' /\ i \in Fresh => i \in Reports(r, t)
  BY <1>4 DEF Reports
<1>9. CASE r = round /\ t \in first..last
  <2> DEFINE i == N + (t - first + 1)
  <2>1. i \in Fresh' /\ i \notin Fresh /\ i - N = t - first + 1 /\ i - N \in 1..Len(rs)
    BY <1>1, <1>2, <1>3, <1>9 DEF Fresh, N
  <2>2. results'[i].dispatch = dispatch /\ results'[i].round = round
        /\ results'[i].task = first + (i - N) - 1
    BY <1>6, <2>1
  <2>3. first + (i - N) - 1 = t
    BY <2>1
  <2>4. i \in Reports(r, t)'
    BY <1>9, <2>1, <2>2, <2>3 DEF Reports
  <2>5. ASSUME NEW j \in Reports(r, t)', j \notin Fresh
        PROVE  j = i
    <3>1. j \in Fresh' /\ results'[j].task = t
      BY DEF Reports
    <3>2. t = first + (j - N) - 1 /\ j \in Int
      BY <1>6, <2>5, <3>1
    <3> QED
      BY <1>3, <3>2
  <2> HIDE DEF i
  <2>6. Reports(r, t)' = Reports(r, t) \cup {i}
    BY <1>7, <1>8, <2>4, <2>5
  <2> QED
    BY <1>4, <1>9, <2>1, <2>6
<1>10. CASE ~(r = round /\ t \in first..last)
  <2>1. ASSUME NEW j \in Reports(r, t)', j \notin Fresh
        PROVE  FALSE
    <3>1. j \in Fresh' /\ results'[j].task = t /\ results'[j].round = r
      BY DEF Reports
    <3>2. t = first + (j - N) - 1 /\ r = round /\ j - N \in 1..Len(rs) /\ j \in Int
      BY <1>6, <2>1, <3>1
    <3> QED
      BY <1>1, <1>3, <1>10, <3>2
  <2>2. Reports(r, t)' = Reports(r, t)
    BY <1>7, <1>8, <2>1
  <2> QED
    BY <1>4, <1>10, <2>2
<1> QED
  BY <1>9, <1>10

-----------------------------------------------------------------------------
(* Types, envelopes and plans.                                              *)

\* The arithmetic of waves.
LEMMA Waves ==
    /\ 0 * Cap = 0
    /\ \A w \in Nat : w * Cap \in Nat /\ (w + 1) * Cap = w * Cap + Cap
  OBVIOUS

\* A step of the graph that leaves the envelopes alone, and the dispatch.
LEMMA EnvelopesFrame ==
    ASSUME EnvelopesAreOwned, UNCHANGED <<results, consumed, dispatch, closed>>,
           plan' # NoPlan => plan # NoPlan
    PROVE  EnvelopesAreOwned'
  BY DEF EnvelopesAreOwned, Fresh

\* A plan is emitted: no envelope is of the new dispatch.
LEMMA EnvelopesEmitted ==
    ASSUME DispatchTypes, EnvelopesAreOwned, NEW p \in Plans, NEW node, FreshChannels(p, node),
           UNCHANGED <<results, consumed>>
    PROVE  EnvelopesAreOwned'
<1>1. dispatch' = dispatch + 1 /\ dispatch \in Nat /\ closed' = closed /\ closed \subseteq 0..dispatch
  BY DEF FreshChannels, DispatchTypes
<1>2. results \in Seq(Envelopes) /\ consumed \in 0..Len(results)
  BY DEF DispatchTypes
<1>3. \A i \in 1..Len(results) : results[i].dispatch \in Nat
  <2>1. \A i \in 1..Len(results) : results[i] \in Envelopes
    BY <1>2
  <2> QED
    BY <2>1 DEF Envelopes
<1>4. \A i \in 1..Len(results) : results[i].dispatch <= dispatch'
  BY <1>1, <1>3 DEF EnvelopesAreOwned
<1>5. \A i \in 1..consumed : i \in 1..Len(results) /\ results[i].dispatch < dispatch'
  <2>1. \A i \in 1..consumed : i \in 1..Len(results)
    BY <1>2
  <2> QED
    BY <1>1, <1>3, <2>1 DEF EnvelopesAreOwned
<1>6. dispatch' \notin closed
  BY <1>1
<1> QED
  BY <1>1, <1>4, <1>5, <1>6 DEF EnvelopesAreOwned, Fresh

\* The dispatch is synthesised: it is closed, and everything is behind the
\* watermark.
LEMMA EnvelopesDigested ==
    ASSUME DispatchTypes, EnvelopesAreOwned, Synthesize
    PROVE  EnvelopesAreOwned' /\ consumed' \in 0..Len(results')
<1>1. results' = results /\ consumed' = Len(results) /\ plan' = NoPlan /\ dispatch' = dispatch
  BY DEF Synthesize
<1>2. Len(results) \in Nat
  BY DEF DispatchTypes
<1>3. Fresh' = {}
  BY <1>1, <1>2 DEF Fresh
<1> QED
  BY <1>1, <1>2, <1>3 DEF EnvelopesAreOwned

\* What a wave reports.
LEMMA WaveReport ==
    ASSUME DispatchTypes, plan # NoPlan, wave * Cap < plan.width,
           NEW out \in [WaveStart..WaveEnd -> Outcomes]
    PROVE  /\ WaveStart \in Nat \ {0} /\ WaveEnd \in Nat
           /\ IsReport(Report(WaveStart, WaveEnd, out), WaveStart, WaveEnd)
<1>1. wave \in Nat /\ plan.width \in Nat
  BY DEF DispatchTypes, PlanType
<1>2. wave * Cap \in Nat /\ (wave + 1) * Cap = wave * Cap + Cap
  BY <1>1, Waves
<1>3. WaveStart \in Nat \ {0} /\ WaveEnd \in Nat /\ WaveStart <= WaveEnd + 1
  <2> DEFINE a == wave * Cap
  <2>1. a \in Nat /\ (wave + 1) * Cap = a + Cap /\ a < plan.width
    BY <1>2
  <2>2. WaveStart = a + 1 /\ WaveEnd = IF a + Cap < plan.width THEN a + Cap ELSE plan.width
    BY <2>1 DEF WaveStart, WaveEnd, Lesser
  <2> HIDE DEF a
  <2> QED
    BY <1>1, <2>1, <2>2
<1>4. \A t \in WaveStart..WaveEnd : out[t].status \in Statuses /\ out[t].cost \in Nat
  BY DEF Statuses
<1> QED
  BY <1>3, <1>4, ReportIsReport

\* The types, and whose the envelopes are.
LEMMA OwnedStep ==
    ASSUME DispatchInv, [Next]_vars
    PROVE  DispatchTypes' /\ EnvelopesAreOwned'
<1> USE DEF DispatchInv, counters, ledger, history
<1>1. CASE UNCHANGED vars \/ Rest
  BY <1>1, EnvelopesFrame DEF vars, Rest, DispatchTypes
<1>2. CASE StartTurn
  <2>1. DispatchTypes'
    BY <1>2 DEF StartTurn, DispatchTypes, Spine, Between
  <2> QED
    BY <1>2, <2>1, EnvelopesFrame DEF StartTurn
<1>3. CASE PlannerFails \/ ExecuteSteps \/ Abort \/ Fanout \/ Gate
  <2>1. DispatchTypes'
    <3>1. at' \in Subgraph \cup Between \cup Spine
      BY <1>3 DEF PlannerFails, ExecuteSteps, Abort, Fanout, Gate, Between, Subgraph
    <3>2. cost' \in Int /\ wave' \in Nat
      <4>1. \A c \in StepCosts : c \in Int
        OBVIOUS
      <4>2. cost \in Int /\ wave \in Nat
        BY DEF DispatchTypes
      <4> QED
        BY <1>3, <4>1, <4>2 DEF PlannerFails, ExecuteSteps, Abort, Fanout, Gate
    <3>3. UNCHANGED <<plan, emitted, returnNode, round, results, consumed, reserved, reservedRound,
                      opened, turn, dispatch, emittedIn, closed>>
      BY <1>3 DEF PlannerFails, ExecuteSteps, Abort, Fanout, Gate
    <3> QED
      BY <3>1, <3>2, <3>3 DEF DispatchTypes
  <2>2. UNCHANGED <<results, consumed, dispatch, closed, plan>>
    BY <1>3 DEF PlannerFails, ExecuteSteps, Abort, Fanout, Gate
  <2> QED
    BY <2>1, <2>2, EnvelopesFrame
<1>4. ASSUME NEW node \in {"planner_agent", "step_dispatch"}, MaybeEmit(node),
             at' \in Subgraph \cup Between \cup Spine, UNCHANGED <<results, consumed, turn>>
      PROVE  DispatchTypes' /\ EnvelopesAreOwned'
  <2>1. CASE UNCHANGED <<plan, returnNode, counters, admission, ledger, history>>
    BY <1>4, <2>1, EnvelopesFrame DEF DispatchTypes
  <2>2. ASSUME NEW p \in Plans, FreshChannels(p, node)
        PROVE  DispatchTypes' /\ EnvelopesAreOwned'
    <3>1. DispatchTypes'
      BY <1>4, <2>2 DEF FreshChannels, DispatchTypes
    <3> QED
      BY <1>4, <2>2, <3>1, EnvelopesEmitted
  <2> QED
    BY <1>4, <2>1, <2>2 DEF MaybeEmit
<1>5. CASE Researcher \/ Planner \/ PlanOnly
  BY <1>4, <1>5 DEF Researcher, Planner, PlanOnly, Subgraph, Between, Spine
<1>6. plan # NoPlan => plan \in PlanType /\ plan.estimate \in Nat
  BY DEF DispatchTypes, PlanType
<1>7. CASE OriginDenies \/ OriginExhausted
  <2>1. PICK status \in {"denied", "budget_exhausted"} : results' = results \o DeniedEnvelopes(status)
    BY <1>7 DEF OriginDenies, OriginExhausted
  <2>2. /\ plan # NoPlan /\ at' = "dispatch_synthesize"
        /\ UNCHANGED <<plan, emitted, returnNode, wave, round, consumed, cost, reserved, reservedRound,
                       opened, turn, dispatch, emittedIn, closed>>
    BY <1>7 DEF OriginDenies, OriginExhausted, PlansInPlace, Subgraph
  <2>3. Lesser(plan.width, MaxWidth) \in Nat
    BY <2>2 DEF Lesser, DispatchTypes, PlanType
  <2>4. results' \in Seq(Envelopes) /\ consumed \in 0..Len(results') /\ EnvelopesAreOwned'
    BY <2>1, <2>2, <2>3, DenialsAreReports, AppendedTypes
  <2>5. DispatchTypes'
    BY <2>2, <2>4 DEF DispatchTypes, Subgraph
  <2> QED
    BY <2>4, <2>5
<1>8. CASE OriginPasses \/ OriginReserves
  <2>1. DispatchTypes'
    <3>1. plan.estimate \in Nat
      BY <1>6, <1>8 DEF OriginPasses, OriginReserves, Subgraph, PlansInPlace
    <3>2. CASE OriginPasses
      BY <3>2 DEF OriginPasses, DispatchTypes, Subgraph
    <3>3. CASE OriginReserves
      <4>1. cost' \in Int /\ reserved' \in Nat /\ reservedRound' \in Int /\ reservedRound' >= -1
        BY <3>1, <3>3 DEF OriginReserves, DispatchTypes
      <4> QED
        BY <3>3, <4>1 DEF OriginReserves, DispatchTypes, Subgraph
    <3> QED
      BY <1>8, <3>2, <3>3
  <2>2. UNCHANGED <<results, consumed, dispatch, closed, plan>>
    BY <1>8 DEF OriginPasses, OriginReserves
  <2> QED
    BY <2>1, <2>2, EnvelopesFrame
<1>9. CASE Advance
  <2>1. Followup \in PlanType
    BY <1>6, <1>9 DEF Advance, Followup, CriticPlan, PlanType, PlansInPlace, Subgraph
  <2>2. DispatchTypes'
    BY <1>9, <2>1 DEF Advance, DispatchTypes, Subgraph
  <2>3. plan # NoPlan /\ UNCHANGED <<results, consumed, dispatch, closed>>
    BY <1>9 DEF Advance, PlansInPlace, Subgraph
  <2> QED
    BY <2>2, <2>3, EnvelopesFrame
<1>10. CASE Synthesize
  <2>1. TotalCost(Fresh) \in Nat
    BY BillIsNumber
  <2>2. EnvelopesAreOwned' /\ consumed' \in 0..Len(results')
    BY <1>10, EnvelopesDigested
  <2>3. cost' \in Int
    BY <1>10, <2>1 DEF Synthesize, Refund, DispatchTypes
  <2>4. at' \in {"step_dispatch", "planner_agent"}
    BY <1>10 DEF Synthesize, DispatchTypes
  <2>5. closed' \subseteq 0..dispatch'
    BY <1>10 DEF Synthesize, DispatchTypes
  <2>6. DispatchTypes'
    BY <1>10, <2>2, <2>3, <2>4, <2>5 DEF Synthesize, DispatchTypes, Spine
  <2> QED
    BY <2>2, <2>6
<1>11. CASE Workers
  <2>1. wave * Cap < plan.width
    BY <1>11 DEF Workers, PlansInPlace
  <2>2. PICK out \in [WaveStart..WaveEnd -> Outcomes] :
            results' = results \o Report(WaveStart, WaveEnd, out)
    BY <1>11 DEF Workers
  <2>3. /\ plan # NoPlan /\ at' = "dispatch_gate"
        /\ UNCHANGED <<plan, emitted, returnNode, wave, round, consumed, cost, reserved, reservedRound,
                       opened, turn, dispatch, emittedIn, closed>>
    BY <1>11 DEF Workers, PlansInPlace, Subgraph
  <2>4. results' \in Seq(Envelopes) /\ consumed \in 0..Len(results') /\ EnvelopesAreOwned'
    BY <2>1, <2>2, <2>3, WaveReport, AppendedTypes
  <2>5. DispatchTypes'
    BY <2>3, <2>4 DEF DispatchTypes, Subgraph
  <2> QED
    BY <2>4, <2>5
<1> QED
  BY <1>1, <1>2, <1>3, <1>5, <1>7, <1>8, <1>9, <1>10, <1>11 DEF Next, SpineStep, SubgraphStep

\* Where plans are found: a turn is later than the emissions before it, and
\* synthesis leaves no plan.
LEMMA PlansStep ==
    ASSUME DispatchInv, [Next]_vars
    PROVE  PlansInPlace'
<1> USE DEF DispatchInv, counters, ledger, history
<1>1. turn \in Nat /\ emittedIn \in Nat /\ emittedIn <= turn
  BY DEF DispatchTypes, PlansInPlace
<1>2. CASE UNCHANGED vars \/ Rest
  BY <1>2 DEF vars, Rest, PlansInPlace
<1>3. CASE StartTurn
  BY <1>1, <1>3 DEF StartTurn, PlansInPlace, Subgraph
<1>4. CASE PlannerFails \/ ExecuteSteps \/ Abort
  BY <1>4 DEF PlannerFails, ExecuteSteps, Abort, PlansInPlace, Subgraph
<1>5. CASE Researcher \/ Planner
  <2>1. CASE plan' = NoPlan
    BY <1>1, <1>5, <2>1 DEF Researcher, Planner, MaybeEmit, FreshChannels, PlansInPlace, Subgraph
  <2>2. CASE plan' # NoPlan
    BY <1>1, <1>5, <2>2 DEF Researcher, Planner, MaybeEmit, FreshChannels, PlansInPlace, Subgraph
  <2> QED
    BY <2>1, <2>2
<1>6. CASE PlanOnly
  BY <1>1, <1>6 DEF PlanOnly, MaybeEmit, FreshChannels, PlansInPlace, Subgraph
<1>7. CASE OriginDenies \/ OriginPasses \/ OriginReserves \/ OriginExhausted
  BY <1>1, <1>7 DEF OriginDenies, OriginPasses, OriginReserves, OriginExhausted, PlansInPlace, Subgraph
<1>8. CASE Fanout
  <2>1. CASE WaveStart <= WaveEnd
    <3>1. wave * Cap + 1 <= plan.width
      BY <2>1, <1>8, Waves DEF Fanout, WaveStart, WaveEnd, Lesser, DispatchTypes, PlansInPlace, PlanType, Subgraph
    <3>2. wave * Cap < plan.width
      BY <3>1, <1>8, Waves DEF Fanout, DispatchTypes, PlansInPlace, PlanType, Subgraph
    <3> QED
      BY <1>8, <2>1, <3>2 DEF Fanout, PlansInPlace, Subgraph
  <2>2. CASE ~(WaveStart <= WaveEnd)
    BY <1>8, <2>2 DEF Fanout, PlansInPlace, Subgraph
  <2> QED
    BY <2>1, <2>2
<1>9. CASE Workers
  BY <1>9 DEF Workers, PlansInPlace, Subgraph
<1>10. CASE Gate
  <2>1. at' \in {"dispatch_origin", "dispatch_advance", "dispatch_synthesize"}
    BY <1>10 DEF Gate
  <2> QED
    BY <1>10, <2>1 DEF Gate, PlansInPlace, Subgraph
<1>11. CASE Advance
  BY <1>11 DEF Advance, PlansInPlace, Subgraph, Followup, CriticPlan, NoPlan
<1>12. CASE Synthesize
  <2>1. at' \in {"step_dispatch", "planner_agent"}
    BY <1>12 DEF Synthesize, DispatchTypes
  <2> QED
    BY <1>12, <2>1 DEF Synthesize, PlansInPlace, Subgraph
<1> QED
  BY <1>2, <1>3, <1>4, <1>5, <1>6, <1>7, <1>8, <1>9, <1>10, <1>11, <1>12
     DEF Next, SpineStep, SubgraphStep

-----------------------------------------------------------------------------
(* The course of a dispatch, action by action.                              *)

\* What holds while a dispatch is under way, and the types it rests on.
OnTrack == DispatchTypes /\ PlansInPlace /\ RoundInv /\ LedgerInv /\ ReportInv

\* The dispatch has just been emitted: nothing is reserved, due or reported.
LEMMA CourseEmitted ==
    ASSUME DispatchTypes, EnvelopesAreOwned, NEW p \in Plans, NEW node, FreshChannels(p, node),
           at' = "dispatch_origin", UNCHANGED <<results, consumed>>
    PROVE  RoundInv' /\ LedgerInv' /\ ReportInv'
<1> USE DEF FreshChannels
<1>1. p \in PlanType /\ p.width \in Nat \ {0}
  BY DEF PlanType
<1>2. RoundInv'
  BY <1>1, Waves DEF RoundInv, PlanOfRound
<1>3. LedgerInv'
  BY DEF LedgerInv, Estimated, DispatchTypes
<1>4. ASSUME NEW r \in Nat, NEW t \in Nat
      PROVE  ~Due(r, t)' /\ Reports(r, t)' = {}
  <2>1. ~Due(r, t)'
    BY Waves DEF Due, Reported
  <2>2. dispatch' = dispatch + 1 /\ dispatch \in Nat
    BY DEF DispatchTypes
  <2>3. Fresh' = Fresh /\ results' = results
    BY DEF Fresh
  <2>4. \A i \in Fresh : i \in 1..Len(results) /\ results[i].dispatch \in Nat
    <3>1. \A i \in Fresh : i \in 1..Len(results)
      BY DEF Fresh, DispatchTypes
    <3>2. \A i \in Fresh : results[i] \in Envelopes
      BY <3>1 DEF DispatchTypes
    <3> QED
      BY <3>1, <3>2 DEF Envelopes
  <2>5. \A i \in Fresh : results[i].dispatch # dispatch + 1
    BY <2>2, <2>4 DEF EnvelopesAreOwned
  <2> QED
    BY <2>1, <2>2, <2>3, <2>5 DEF Reports
<1>5. ReportInv'
  BY <1>4 DEF ReportInv
<1> QED
  BY <1>2, <1>3, <1>5

\* A step that reports nothing, and makes nothing due.
LEMMA ReportFrame ==
    ASSUME ReportInv, UNCHANGED <<results, consumed, dispatch>>,
           \A r, t \in Nat : Due(r, t)' <=> Due(r, t)
    PROVE  ReportInv'
<1>1. Fresh' = Fresh /\ \A r, t \in Nat : Reports(r, t)' = Reports(r, t)
  BY DEF Fresh, Reports
<1> QED
  BY <1>1 DEF ReportInv

\* A step that reports the tasks of the round that it makes due.
LEMMA ReportAppended ==
    ASSUME DispatchTypes, ReportInv,
           NEW rs, NEW first \in Nat \ {0}, NEW last \in Nat, IsReport(rs, first, last),
           results' = results \o rs, UNCHANGED <<dispatch, consumed>>,
           \A r, t \in Nat : Due(r, t)' <=> (Due(r, t) \/ (r = round /\ t \in first..last)),
           \A t \in first..last : ~Due(round, t)
    PROVE  ReportInv'
<1> SUFFICES ASSUME NEW r \in Nat, NEW t \in Nat
             PROVE  IF Due(r, t)' THEN \E i \in Fresh' : Reports(r, t)' = {i}
                                  ELSE Reports(r, t)' = {}
  BY DEF ReportInv
<1>0. /\ r = round /\ t \in first..last =>
              \E i \in Fresh' : Reports(r, t)' = Reports(r, t) \cup {i}
      /\ ~(r = round /\ t \in first..last) => Reports(r, t)' = Reports(r, t)
      /\ Fresh \subseteq Fresh'
  BY AppendedReports, SMTT(60)
<1>1. CASE r = round /\ t \in first..last
  <2>1. Reports(r, t) = {}
    BY <1>1 DEF ReportInv
  <2>2. \E i \in Fresh' : Reports(r, t)' = Reports(r, t) \cup {i}
    BY <1>0, <1>1
  <2> QED
    BY <1>1, <2>1, <2>2
<1>2. CASE ~(r = round /\ t \in first..last)
  <2>1. Reports(r, t)' = Reports(r, t) /\ Fresh \subseteq Fresh'
    BY <1>0, <1>2
  <2> QED
    BY <1>2, <2>1 DEF ReportInv
<1> QED
  BY <1>1, <1>2

\* The plan of a course, and its width.
LEMMA CoursePlan ==
    ASSUME OnTrack
    PROVE  /\ plan \in PlanType /\ plan.width \in Nat \ {0} /\ plan.estimate \in Nat
           /\ emitted.width \in Nat \ {0} /\ emitted.estimate \in Nat
           /\ wave \in Nat /\ round \in Nat
           /\ wave * Cap \in Nat /\ (wave + 1) * Cap = wave * Cap + Cap
<1>1. CriticPlan \in PlanType
  BY DEF CriticPlan, PlanType
<1>2. plan \in PlanType /\ emitted \in PlanType
  BY <1>1 DEF OnTrack, RoundInv, PlanOfRound
<1>3. wave \in Nat /\ round \in Nat
  BY DEF OnTrack, DispatchTypes
<1> QED
  BY <1>2, <1>3, Waves DEF PlanType

\* A plan that passes the ceilings once passes them in every round.
LEMMA CeilingHolds ==
    ASSUME OnTrack, wave > 0 \/ round > 0
    PROVE  ~OverCeiling
<1>1. MaxDepth # 0 /\ emitted.width <= MaxWidth /\ emitted.width \in Nat
  BY CoursePlan DEF OnTrack, RoundInv
<1>2. plan.width = 1 \/ plan = emitted
  BY DEF OnTrack, RoundInv, PlanOfRound, CriticPlan
<1> QED
  BY <1>1, <1>2 DEF OverCeiling

\* A dispatch over the ceilings is denied before its first wave.
LEMMA CourseDenied ==
    ASSUME OnTrack, OriginDenies
    PROVE  RoundInv' /\ LedgerInv' /\ ReportInv'
<1> USE DEF OriginDenies, counters, ledger, history
<1>1. wave = 0 /\ round = 0
  BY CeilingHolds, CoursePlan
<1>2. RoundInv'
  BY <1>1 DEF OnTrack, RoundInv, PlanOfRound
<1>3. LedgerInv'
  BY <1>1 DEF OnTrack, LedgerInv, Estimated
<1> DEFINE last == Lesser(plan.width, MaxWidth)
<1>4. last \in Nat
  BY CoursePlan DEF Lesser
<1>5. Reported = 0 /\ Reported' = last
  BY <1>1, Waves DEF Reported
<1>6. IsReport(DeniedEnvelopes("denied"), 1, last)
  BY DenialsAreReports DEF OnTrack, PlansInPlace, Subgraph
<1> HIDE DEF last
<1>7. \A r, t \in Nat : Due(r, t)' <=> (Due(r, t) \/ (r = round /\ t \in 1..last))
  BY <1>1, <1>4, <1>5 DEF Due
<1>8. \A t \in 1..last : ~Due(round, t)
  BY <1>1, <1>4, <1>5 DEF Due
<1>9. ReportInv'
  BY <1>4, <1>6, <1>7, <1>8, ReportAppended DEF OnTrack
<1> QED
  BY <1>2, <1>3, <1>9

\* A round that the budget cannot take is denied before its first wave.
LEMMA CourseExhausted ==
    ASSUME OnTrack, OriginExhausted
    PROVE  RoundInv' /\ LedgerInv' /\ ReportInv'
<1> USE DEF OriginExhausted, counters, ledger, history
<1>1. wave = 0 /\ plan.width <= MaxWidth /\ MaxDepth # 0
  BY CoursePlan DEF NothingToReserve, OverCeiling, OnTrack, DispatchTypes
<1>2. RoundInv'
  BY <1>1 DEF OnTrack, RoundInv, PlanOfRound
<1>3. LedgerInv'
  BY <1>1 DEF OnTrack, LedgerInv, Estimated
<1> DEFINE last == Lesser(plan.width, MaxWidth)
<1>4. last \in Nat
  BY CoursePlan DEF Lesser
<1>5. Reported = 0 /\ Reported' = last
  BY <1>1, Waves DEF Reported
<1>6. IsReport(DeniedEnvelopes("budget_exhausted"), 1, last)
  BY DenialsAreReports DEF OnTrack, PlansInPlace, Subgraph
<1> HIDE DEF last
<1>7. \A r \in Nat : PlanOfRound(r)' = PlanOfRound(r)
  BY DEF PlanOfRound
<1>8. \A r, t \in Nat : Due(r, t)' <=> (Due(r, t) \/ (r = round /\ t \in 1..last))
  BY <1>1, <1>4, <1>5, <1>7 DEF Due
<1>9. \A t \in 1..last : ~Due(round, t)
  BY <1>4, <1>5, CoursePlan DEF Due
<1>10. ReportInv'
  BY <1>4, <1>6, <1>8, <1>9, ReportAppended DEF OnTrack
<1> QED
  BY <1>2, <1>3, <1>10

\* A wave that is admitted without a reservation, or after the round's first.
LEMMA CoursePasses ==
    ASSUME OnTrack, OriginPasses
    PROVE  RoundInv' /\ LedgerInv' /\ ReportInv'
<1> USE DEF OriginPasses, counters, ledger, history
<1>0. \A r \in Nat : PlanOfRound(r)' = PlanOfRound(r)
  BY DEF PlanOfRound
<1>1. RoundInv'
  <2>1. CASE round > 0 \/ wave > 0
    BY <2>1, CoursePlan DEF OnTrack, RoundInv, PlanOfRound
  <2>2. CASE ~(round > 0 \/ wave > 0)
    <3>1. round = 0 /\ wave = 0
      BY <2>2, CoursePlan
    <3>2. plan = emitted /\ wave * Cap < plan.width
      BY <3>1 DEF OnTrack, RoundInv, PlanOfRound
    <3>3. MaxDepth # 0 /\ emitted.width <= MaxWidth
      BY <3>2, CoursePlan DEF OverCeiling
    <3> QED
      BY <3>1, <3>2, <3>3 DEF OnTrack, RoundInv, PlanOfRound
  <2> QED
    BY <2>1, <2>2
<1>2. LedgerInv'
  <2>1. CASE Budget = 0
    BY <2>1 DEF OnTrack, LedgerInv, Estimated
  <2>2. CASE Budget # 0
    <3>1. ~(wave = 0 /\ round - 1 >= round)
      BY CoursePlan
    <3>2. wave # 0 /\ reservedRound = round
      BY <2>2, CoursePlan DEF OnTrack, LedgerInv, NothingToReserve
    <3> QED
      BY <2>2, <3>2 DEF OnTrack, LedgerInv, Estimated
  <2> QED
    BY <2>1, <2>2
<1>3. \A r, t \in Nat : Due(r, t)' <=> Due(r, t)
  BY <1>0 DEF Due, Reported
<1>4. ReportInv'
  BY <1>3, ReportFrame DEF OnTrack
<1> QED
  BY <1>1, <1>2, <1>4

\* The arithmetic of reserving one more round.
LEMMA OneMoreRound == \A n, e \in Nat : (n + 1) * e = n * e + e /\ n * e \in Nat /\ 0 * e = 0
  OBVIOUS

\* A round is reserved, once, before its first wave.
LEMMA CourseReserves ==
    ASSUME OnTrack, OriginReserves
    PROVE  RoundInv' /\ LedgerInv' /\ ReportInv'
<1> USE DEF OriginReserves, counters, ledger, history
<1>0. \A r \in Nat : PlanOfRound(r)' = PlanOfRound(r)
  BY DEF PlanOfRound
<1>1. wave = 0 /\ Budget # 0 /\ reservedRound = round - 1 /\ round \in Nat
  BY CoursePlan DEF NothingToReserve, OnTrack, LedgerInv
<1>2. RoundInv'
  <2>1. CASE round > 0
    BY <2>1, <1>1, CoursePlan DEF OnTrack, RoundInv, PlanOfRound
  <2>2. CASE ~(round > 0)
    BY <2>2, <1>1, CoursePlan DEF OnTrack, RoundInv, PlanOfRound, OverCeiling
  <2> QED
    BY <2>1, <2>2
<1>3. Estimated' = Estimated + plan.estimate
  <2> DEFINE e == IF emitted.pattern = "adversarial" THEN CriticEstimate ELSE emitted.estimate
  <2>1. e \in Nat /\ emitted.estimate \in Nat
    BY CoursePlan
  <2>2. Estimated' = emitted.estimate + round * e
    BY <1>1 DEF Estimated
  <2>3. CASE round = 0
    <3>1. plan.estimate = emitted.estimate
      BY <2>3 DEF OnTrack, RoundInv, PlanOfRound
    <3>2. Estimated = 0
      BY <1>1, <2>3 DEF Estimated
    <3> HIDE DEF e
    <3> QED
      BY <2>1, <2>2, <2>3, <3>1, <3>2, OneMoreRound
  <2>4. CASE round # 0
    <3>1. plan.estimate = e
      BY <1>1, <2>4 DEF OnTrack, RoundInv, PlanOfRound, CriticPlan
    <3>2. Estimated = emitted.estimate + (round - 1) * e
      BY <1>1, <2>4 DEF Estimated
    <3>3. round - 1 \in Nat /\ (round - 1) + 1 = round
      BY <1>1, <2>4
    <3> HIDE DEF e
    <3>4. round * e = (round - 1) * e + e /\ (round - 1) * e \in Nat
      BY <2>1, <3>3, OneMoreRound
    <3> QED
      BY <2>1, <2>2, <3>1, <3>2, <3>4
  <2> QED
    BY <2>3, <2>4
<1>4. LedgerInv'
  <2>1. cost \in Int /\ opened \in Int /\ reserved \in Nat /\ plan.estimate \in Nat
    BY CoursePlan DEF OnTrack, DispatchTypes
  <2>2. reserved' = Estimated'
    BY <1>3 DEF OnTrack, LedgerInv
  <2>3. cost' = opened' + reserved'
    BY <2>1 DEF OnTrack, LedgerInv
  <2> QED
    BY <1>1, <2>2, <2>3 DEF LedgerInv, Affordable
<1>5. \A r, t \in Nat : Due(r, t)' <=> Due(r, t)
  BY <1>0 DEF Due, Reported
<1>6. ReportInv'
  BY <1>5, ReportFrame DEF OnTrack
<1> QED
  BY <1>2, <1>4, <1>6

\* A wave is sent to the workers.
LEMMA CourseFansOut ==
    ASSUME OnTrack, Fanout, at' = "subagent_worker"
    PROVE  RoundInv' /\ LedgerInv' /\ ReportInv'
<1> USE DEF Fanout, counters, ledger, history
<1>1. \A r \in Nat : PlanOfRound(r)' = PlanOfRound(r)
  BY DEF PlanOfRound
<1>2. RoundInv'
  BY DEF OnTrack, RoundInv, PlanOfRound
<1>3. LedgerInv'
  BY DEF OnTrack, LedgerInv, Estimated
<1>4. \A r, t \in Nat : Due(r, t)' <=> Due(r, t)
  BY <1>1 DEF Due, Reported
<1>5. ReportInv'
  BY <1>4, ReportFrame DEF OnTrack
<1> QED
  BY <1>2, <1>3, <1>5

\* The workers of a wave report.
LEMMA CourseWorks ==
    ASSUME OnTrack, Workers
    PROVE  RoundInv' /\ LedgerInv' /\ ReportInv'
<1> USE DEF Workers, counters, ledger, history
<1>1. \A r \in Nat : PlanOfRound(r)' = PlanOfRound(r)
  BY DEF PlanOfRound
<1>2. RoundInv'
  BY DEF OnTrack, RoundInv, PlanOfRound
<1>3. LedgerInv'
  BY DEF OnTrack, LedgerInv, Estimated
<1>4. PICK out \in [WaveStart..WaveEnd -> Outcomes] :
          results' = results \o Report(WaveStart, WaveEnd, out)
  OBVIOUS
<1>5. plan # NoPlan /\ wave * Cap < plan.width
  BY DEF OnTrack, PlansInPlace, Subgraph
<1>6. /\ WaveStart \in Nat \ {0} /\ WaveEnd \in Nat
      /\ IsReport(Report(WaveStart, WaveEnd, out), WaveStart, WaveEnd)
  BY <1>5, WaveReport DEF OnTrack
<1> DEFINE a == wave * Cap
<1>7. a \in Nat /\ Reported = a /\ Reported' = WaveEnd /\ WaveStart = a + 1 /\ a <= WaveEnd
  <2>1. a \in Nat /\ (wave + 1) * Cap = a + Cap /\ plan.width \in Nat /\ a < plan.width
    BY <1>5, CoursePlan
  <2>2. Reported = a /\ Reported' = WaveEnd
    BY DEF Reported, WaveEnd
  <2>3. WaveStart = a + 1 /\ WaveEnd = IF a + Cap < plan.width THEN a + Cap ELSE plan.width
    BY <2>1 DEF WaveStart, WaveEnd, Lesser
  <2> HIDE DEF a
  <2> QED
    BY <2>1, <2>2, <2>3
<1> HIDE DEF a
<1>8. round \in Nat
  BY CoursePlan
<1>9. \A r, t \in Nat : Due(r, t)' <=> (Due(r, t) \/ (r = round /\ t \in WaveStart..WaveEnd))
  <2> SUFFICES ASSUME NEW r \in Nat, NEW t \in Nat
               PROVE  Due(r, t)' <=> (Due(r, t) \/ (r = round /\ t \in WaveStart..WaveEnd))
    OBVIOUS
  <2>1. Due(r, t) <=> t >= 1 /\ ((r < round /\ t <= PlanOfRound(r).width) \/ (r = round /\ t <= a))
    BY <1>7 DEF Due
  <2>2. Due(r, t)' <=>
            t >= 1 /\ ((r < round /\ t <= PlanOfRound(r).width) \/ (r = round /\ t <= WaveEnd))
    BY <1>1, <1>7 DEF Due
  <2>3. t \in WaveStart..WaveEnd <=> t >= a + 1 /\ t <= WaveEnd
    BY <1>6, <1>7
  <2>4. t <= WaveEnd /\ t >= 1 <=> t >= 1 /\ (t <= a \/ (t >= a + 1 /\ t <= WaveEnd))
    BY <1>6, <1>7
  <2> QED
    BY <1>6, <1>7, <1>8, <2>1, <2>2, <2>3, <2>4
<1>10. \A t \in WaveStart..WaveEnd : ~Due(round, t)
  BY <1>6, <1>7, <1>8 DEF Due
<1>11. ReportInv'
  BY <1>4, <1>6, <1>9, <1>10, ReportAppended DEF OnTrack
<1> QED
  BY <1>2, <1>3, <1>11

\* A wave is over: the next one, another round or synthesis follows.
LEMMA CourseGates ==
    ASSUME OnTrack, Gate
    PROVE  RoundInv' /\ LedgerInv' /\ ReportInv'
<1> USE DEF Gate, counters, ledger, history
<1>0. at' \in {"dispatch_origin", "dispatch_advance", "dispatch_synthesize"} /\ at = "dispatch_gate"
  OBVIOUS
<1>1. \A r \in Nat : PlanOfRound(r)' = PlanOfRound(r)
  BY DEF PlanOfRound
<1> DEFINE b == (wave + 1) * Cap
           w == plan.width
<1>2. b \in Nat /\ w \in Nat /\ wave' * Cap = b /\ wave' > 0 /\ wave \in Nat
  BY CoursePlan
<1>3. w <= MaxWidth /\ emitted.width <= MaxWidth /\ MaxDepth # 0
  <2>1. emitted.width <= MaxWidth /\ MaxDepth # 0
    BY DEF OnTrack, RoundInv
  <2>2. w = 1 \/ w = emitted.width
    BY DEF OnTrack, RoundInv, PlanOfRound, CriticPlan
  <2> QED
    BY <2>1, <2>2
<1>4. /\ at' = "dispatch_origin" => b < w
      /\ at' = "dispatch_advance" => ~(b < w) /\ plan.pattern \in {"adversarial", "loop"}
      /\ at' = "dispatch_synthesize" => ~(b < w)
  BY DEF MoreWaves, NeedsAnotherRound
<1>5. plan.pattern \in {"adversarial", "loop"} => emitted.pattern \in {"adversarial", "loop"}
  BY DEF OnTrack, RoundInv, PlanOfRound, CriticPlan
<1>6. RoundInv'
  <2> HIDE DEF b, w
  <2>1. plan' = PlanOfRound(round)' /\ emitted' \in PlanType
    BY DEF OnTrack, RoundInv, PlanOfRound
  <2>2. round' > 0 \/ at' = "dispatch_advance" => emitted'.pattern \in {"adversarial", "loop"}
    BY <1>4, <1>5 DEF OnTrack, RoundInv
  <2>3. /\ at' = "dispatch_origin" => wave' * Cap < plan'.width
        /\ at' = "dispatch_advance" => wave' * Cap >= plan'.width
    BY <1>2, <1>4 DEF w
  <2> QED
    BY <1>0, <1>3, <2>1, <2>2, <2>3 DEF RoundInv
<1>7. LedgerInv'
  BY <1>0, <1>2 DEF OnTrack, LedgerInv, Estimated
<1>8. Reported' = Reported
  <2>1. Reported = IF b < w THEN b ELSE w
    BY <1>0 DEF Reported, Lesser
  <2>2. /\ at' = "dispatch_advance" => Reported' = w
        /\ at' = "dispatch_synthesize" => Reported' = IF w < MaxWidth THEN w ELSE MaxWidth
        /\ at' = "dispatch_origin" => Reported' = b
    BY <1>0, <1>2 DEF Reported, Lesser
  <2> HIDE DEF b, w
  <2>3. ASSUME w \in Nat, w <= MaxWidth
        PROVE  (IF w < MaxWidth THEN w ELSE MaxWidth) = w
    BY <2>3
  <2>4. CASE at' = "dispatch_origin"
    BY <1>4, <2>1, <2>2, <2>4
  <2>5. CASE at' = "dispatch_advance"
    BY <1>4, <2>1, <2>2, <2>5
  <2>6. CASE at' = "dispatch_synthesize"
    BY <1>2, <1>3, <1>4, <2>1, <2>2, <2>3, <2>6
  <2> QED
    BY <1>0, <2>4, <2>5, <2>6
<1>9. \A r, t \in Nat : Due(r, t)' <=> Due(r, t)
  BY <1>1, <1>8 DEF Due
<1>10. ReportInv'
  BY <1>9, ReportFrame DEF OnTrack
<1> QED
  BY <1>6, <1>7, <1>10

\* Another round opens: the last one has reported in full, the new one has not
\* been reserved.
LEMMA CourseAdvances ==
    ASSUME OnTrack, Advance
    PROVE  RoundInv' /\ LedgerInv' /\ ReportInv'
<1> USE DEF Advance, counters, ledger, history
<1>1. \A r \in Nat : PlanOfRound(r)' = PlanOfRound(r)
  BY DEF PlanOfRound
<1>2. round \in Nat /\ wave \in Nat /\ round' = round + 1 /\ wave' = 0 /\ 0 * Cap = 0
  BY CoursePlan, Waves
<1>3. emitted.pattern \in {"adversarial", "loop"} /\ emitted.width \in Nat \ {0} /\ plan.width \in Nat
  BY CoursePlan DEF OnTrack, RoundInv
<1>4. wave > 0
  <2>1. wave * Cap >= plan.width /\ plan.width > 0
    BY CoursePlan DEF OnTrack, RoundInv
  <2>2. wave # 0
    BY <1>2, <2>1, CoursePlan
  <2> QED
    BY <1>2, <2>2
<1>5. MaxDepth # 0 /\ emitted.width <= MaxWidth
  BY DEF OnTrack, RoundInv
<1>6. plan' = PlanOfRound(round + 1)
  BY <1>2, <1>3 DEF OnTrack, RoundInv, PlanOfRound, Followup, CriticPlan
<1>7. PlanOfRound(round + 1).width > 0
  BY <1>3 DEF PlanOfRound, CriticPlan
<1>8. RoundInv'
  <2>1. emitted' \in PlanType /\ plan' = PlanOfRound(round)'
    BY <1>1, <1>2, <1>6 DEF OnTrack, RoundInv, PlanOfRound
  <2> QED
    BY <1>2, <1>3, <1>5, <1>6, <1>7, <2>1 DEF RoundInv
<1>9. LedgerInv'
  BY <1>2, <1>4 DEF OnTrack, LedgerInv, Estimated
<1>10. Reported = plan.width /\ plan = PlanOfRound(round)
  BY DEF Reported, OnTrack, RoundInv
<1>11. Reported' = 0
  BY <1>2 DEF Reported
<1>12. \A r, t \in Nat : Due(r, t)' <=> Due(r, t)
  <2> SUFFICES ASSUME NEW r \in Nat, NEW t \in Nat
               PROVE  Due(r, t)' <=> Due(r, t)
    OBVIOUS
  <2>1. Due(r, t)' <=> t >= 1 /\ ((r < round + 1 /\ t <= PlanOfRound(r).width)
                                    \/ (r = round + 1 /\ t <= 0))
    BY <1>1, <1>2, <1>11 DEF Due
  <2>2. Due(r, t) <=> t >= 1 /\ ((r < round /\ t <= PlanOfRound(r).width)
                                    \/ (r = round /\ t <= PlanOfRound(r).width))
    BY <1>10 DEF Due
  <2> QED
    BY <1>2, <2>1, <2>2
<1>13. ReportInv'
  BY <1>12, ReportFrame DEF OnTrack
<1> QED
  BY <1>8, <1>9, <1>13

\* A course is kept by every step, until the dispatch is left.
LEMMA CourseStep ==
    ASSUME DispatchInv, [Next]_vars
    PROVE  CourseInv'
<1> SUFFICES ASSUME OnCourse'
             PROVE  RoundInv' /\ LedgerInv' /\ ReportInv'
  BY DEF CourseInv
<1> USE DEF counters, ledger, history
<1>1. CASE SubgraphStep /\ ~Synthesize
  <2>1. OnCourse
    BY <1>1 DEF SubgraphStep, OriginDenies, OriginPasses, OriginReserves, OriginExhausted, Fanout, Workers,
                Gate, Advance, OnCourse, InItsTurn, Subgraph
  <2>2. OnTrack
    BY <2>1 DEF DispatchInv, CourseInv, OnTrack
  <2>3. Fanout => at' = "subagent_worker"
    BY DEF Fanout, OnCourse, Subgraph
  <2> QED
    BY <1>1, <2>2, <2>3, CourseDenied, CoursePasses, CourseReserves, CourseExhausted, CourseFansOut,
       CourseWorks, CourseGates, CourseAdvances DEF SubgraphStep
<1>2. CASE Synthesize
  BY <1>2 DEF Synthesize, OnCourse, Subgraph, DispatchInv, DispatchTypes
<1>3. CASE Researcher \/ Planner
  <2>1. at' = "dispatch_origin" /\ plan' # NoPlan
    BY <1>3 DEF Researcher, Planner, OnCourse, Subgraph
  <2>2. PICK node : MaybeEmit(node)
    BY <1>3 DEF Researcher, Planner
  <2>3. UNCHANGED <<results, consumed, turn>>
    BY <1>3 DEF Researcher, Planner
  <2>4. CASE UNCHANGED <<plan, returnNode, counters, admission, ledger, history>>
    <3>1. emittedIn < turn
      BY <1>3, <2>1, <2>4 DEF Researcher, Planner, DispatchInv, PlansInPlace
    <3> QED
      BY <2>3, <2>4, <3>1 DEF OnCourse, InItsTurn, DispatchInv, DispatchTypes
  <2>5. ASSUME NEW p \in Plans, FreshChannels(p, node)
        PROVE  RoundInv' /\ LedgerInv' /\ ReportInv'
    BY <2>1, <2>3, <2>5, CourseEmitted DEF DispatchInv
  <2> QED
    BY <2>2, <2>4, <2>5 DEF MaybeEmit
<1>4. CASE StartTurn \/ PlanOnly \/ PlannerFails \/ ExecuteSteps \/ Abort
  BY <1>4 DEF StartTurn, PlanOnly, PlannerFails, ExecuteSteps, Abort, OnCourse, Subgraph
<1>5. CASE UNCHANGED vars \/ Rest
  <2>1. UNCHANGED vars
    BY <1>5 DEF Rest
  <2>2. OnCourse
    BY <2>1 DEF vars, OnCourse, InItsTurn
  <2>3. \A r \in Nat : PlanOfRound(r)' = PlanOfRound(r)
    BY <2>1 DEF vars, PlanOfRound
  <2>4. RoundInv' /\ LedgerInv'
    BY <2>1, <2>2 DEF vars, DispatchInv, CourseInv, RoundInv, LedgerInv, PlanOfRound, Estimated
  <2>5. \A r, t \in Nat : Due(r, t)' <=> Due(r, t)
    BY <2>1, <2>3 DEF vars, Due, Reported
  <2> QED
    BY <2>1, <2>2, <2>4, <2>5, ReportFrame DEF vars, DispatchInv, CourseInv
<1> QED
  BY <1>1, <1>2, <1>3, <1>4, <1>5 DEF Next, SpineStep, SubgraphStep

-----------------------------------------------------------------------------
(* The books are exact.                                                     *)

\* The invariant holds at first, and is kept.
LEMMA DispatchInvariant == Spec => []DispatchInv
<1>1. Init => DispatchInv
  BY DEF Init, DispatchInv, DispatchTypes, EnvelopesAreOwned, PlansInPlace, CourseInv, OnCourse, Subgraph,
         Between, Fresh
<1>2. DispatchInv /\ [Next]_vars => DispatchInv'
  BY OwnedStep, PlansStep, CourseStep DEF DispatchInv
<1> QED
  BY <1>1, <1>2, PTL DEF Spec

\* At synthesis, what is due of a round is what OneReportPerTask asks for.
LEMMA DueAtSynthesis ==
    ASSUME OnTrack, at = "dispatch_synthesize", NEW r \in 0..round, NEW t \in 1..emitted.width
    PROVE  r \in Nat /\ t \in Nat /\ (Due(r, t) <=> t <= Reporting(r))
<1>1. /\ r \in Nat /\ t \in Nat /\ t >= 1 /\ (r < round \/ r = round) /\ ~(r < round /\ r = round)
      /\ emitted.width \in Nat /\ round \in Nat
  BY CoursePlan
<1>2. Due(r, t) <=> (r < round /\ t <= PlanOfRound(r).width) \/ (r = round /\ t <= Lesser(plan.width, MaxWidth))
  BY <1>1 DEF Due, Reported
<1>3. CASE r < round
  <2>1. emitted.width <= MaxWidth
    BY <1>1, <1>3 DEF OnTrack, RoundInv
  <2>2. Lesser(emitted.width, MaxWidth) = emitted.width
    BY <1>1, <2>1 DEF Lesser
  <2> QED
    BY <1>1, <1>2, <1>3, <2>2 DEF PlanOfRound, CriticPlan, Reporting
<1>4. CASE r = round
  <2>1. plan = PlanOfRound(r)
    BY <1>4 DEF OnTrack, RoundInv
  <2>2. Lesser(1, MaxWidth) = 1
    BY DEF Lesser
  <2> QED
    BY <1>1, <1>2, <1>4, <2>1, <2>2 DEF PlanOfRound, CriticPlan, Reporting
<1> QED
  BY <1>1, <1>3, <1>4

\* The invariants of the books.
LEMMA BooksAreExact ==
    ASSUME DispatchInv
    PROVE  ReservedWithinBudget /\ OneReportPerTask /\ DigestedOnce
<1>1. OnCourse => OnTrack
  BY DEF DispatchInv, CourseInv, OnTrack
<1>2. ReservedWithinBudget
  BY <1>1 DEF OnCourse, OnTrack, LedgerInv, ReservedWithinBudget
<1>3. OneReportPerTask
  <2> SUFFICES ASSUME at = "dispatch_synthesize", InItsTurn,
                      NEW r \in 0..round, NEW t \in 1..emitted.width
               PROVE  Cardinality(Reports(r, t)) = IF t <= Reporting(r) THEN 1 ELSE 0
    BY DEF OneReportPerTask, Reports
  <2>1. OnTrack
    BY <1>1 DEF OnCourse, Subgraph
  <2>2. r \in Nat /\ t \in Nat /\ (Due(r, t) <=> t <= Reporting(r))
    BY <2>1, DueAtSynthesis
  <2>3. IF Due(r, t) THEN \E i \in Fresh : Reports(r, t) = {i} ELSE Reports(r, t) = {}
    BY <2>1, <2>2 DEF OnTrack, ReportInv
  <2>4. CASE Due(r, t)
    BY <2>2, <2>3, <2>4, FS_Singleton
  <2>5. CASE ~Due(r, t)
    BY <2>2, <2>3, <2>5, FS_EmptySet
  <2> QED
    BY <2>4, <2>5
<1>4. DigestedOnce
  BY DEF DispatchInv, EnvelopesAreOwned, DigestedOnce
<1> QED
  BY <1>2, <1>3, <1>4

\* The bill of a dispatch that is synthesised.
LEMMA ChargeIsExact ==
    ASSUME DispatchInv, [Next]_vars
    PROVE  [/\ at = "dispatch_synthesize" /\ at' # "aborted"
            /\ InItsTurn /\ BatchIsOwn
            => cost' = opened + Lesser(ActualCost, Estimated)]_vars
<1> SUFFICES ASSUME Next, at = "dispatch_synthesize", at' # "aborted", InItsTurn, BatchIsOwn
             PROVE  cost' = opened + Lesser(ActualCost, Estimated)
  OBVIOUS
<1>1. Synthesize
  BY DEF Next, StartTurn, SpineStep, Researcher, Planner, PlanOnly, PlannerFails, ExecuteSteps,
         SubgraphStep, OriginDenies, OriginPasses, OriginReserves, OriginExhausted, Fanout, Workers, Gate,
         Advance, Abort, Rest, Between
<1> DEFINE own == {i \in 1..Len(results) : results[i].dispatch = dispatch}
<1>2. DispatchTypes /\ EnvelopesAreOwned /\ plan # NoPlan
  BY DEF DispatchInv, PlansInPlace, Subgraph
<1>3. own = Fresh
  <2>1. Len(results) \in Nat /\ consumed \in Nat /\ consumed <= Len(results) /\ dispatch \in Nat
    BY <1>2 DEF DispatchTypes
  <2>2. ASSUME NEW i \in own
        PROVE  i \in Fresh
    <3>1. i \in 1..Len(results) /\ results[i].dispatch = dispatch
      OBVIOUS
    <3>2. i \notin 1..consumed
      BY <1>2, <2>1, <3>1 DEF EnvelopesAreOwned
    <3> QED
      BY <2>1, <3>1, <3>2 DEF Fresh
  <2>3. ASSUME NEW i \in Fresh
        PROVE  i \in own
    BY <2>1 DEF BatchIsOwn, Fresh
  <2> QED
    BY <2>2, <2>3
<1>4. ActualCost = TotalCost(Fresh) /\ TotalCost(Fresh) \in Nat
  BY <1>2, <1>3, BillIsNumber DEF ActualCost
<1>5. cost' = cost - Refund(TotalCost(Fresh))
  BY <1>1 DEF Synthesize
<1>6. reserved = Estimated /\ cost = opened + reserved /\ reserved \in Nat /\ opened \in Int
  BY <1>2 DEF DispatchInv, CourseInv, OnCourse, Subgraph, LedgerInv, DispatchTypes
<1> QED
  BY <1>4, <1>5, <1>6 DEF Refund, Lesser

\* The books of a dispatch are exact for all plans, ceilings, budgets and turns:
\* each round is reserved once and within the budget, each task reports once,
\* each report is digested once, and a dispatch that returns to the spine has
\* been charged for what its workers reported, up to its reservation.
THEOREM ExactBooks == Spec => DispatchIsExact
<1>1. Spec => []DispatchInv
  BY DispatchInvariant
<1>2. DispatchInv => ReservedWithinBudget /\ OneReportPerTask /\ DigestedOnce
  BY BooksAreExact
<1>3. DispatchInv /\ [Next]_vars =>
        [/\ at = "dispatch_synthesize" /\ at' # "aborted"
         /\ InItsTurn /\ BatchIsOwn
         => cost' = opened + Lesser(ActualCost, Estimated)]_vars
  BY ChargeIsExact
<1> QED
  BY <1>1, <1>2, <1>3, PTL DEF Spec, DispatchIsExact, ChargedForItsWork

=============================================================================
