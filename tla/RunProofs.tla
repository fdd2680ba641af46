------------------------------ MODULE RunProofs ------------------------------
(***************************************************************************)
(* Proofs about ExperimentPlan: what a plan consists of; and about         *)
(* DynamicRun: what the evidence of a run says about what happened on the  *)
(* emulator, and how it is shared out among the experiments, for any plan, *)
(* any log, and any faults and events.                                     *)
(***************************************************************************)
EXTENDS DynamicRun, EvidenceProofs

-----------------------------------------------------------------------------
(* The plan of experiments.                                                *)

\* Of numbers given to positions, each position has a place of its own among
\* them: the greater comes first, and of equal ones the earlier.
LEMMA PlacesAreTaken ==
  ASSUME NEW n \in Nat, NEW score \in [1 .. n -> Int], NEW k \in 1 .. n
  PROVE  \E i \in 1 .. n :
           Cardinality({j \in 1 .. n : score[j] > score[i] \/ (score[j] = score[i] /\ j < i)}) + 1 = k
  <1> DEFINE D == 1 .. n
             Ahead(i) == {j \in D : score[j] > score[i] \/ (score[j] = score[i] /\ j < i)}
             ahead == [i \in D |-> Ahead(i)]
  <1>1. IsFiniteSet(D) /\ Cardinality(D) = n
    <2>1. 1 \in Int /\ n \in Int
      OBVIOUS
    <2>2. IsFiniteSet(1 .. n) /\ Cardinality(1 .. n) = IF 1 > n THEN 0 ELSE n - 1 + 1
      BY ONLY <2>1, FS_Interval
    <2> QED
      BY <2>2
  <1>2. \A i \in D : ahead[i] = Ahead(i) /\ i \notin Ahead(i) /\ Ahead(i) \subseteq D
    OBVIOUS
  <1>3. \A i, j \in D : i # j => j \in Ahead(i) \/ i \in Ahead(j)
    OBVIOUS
  <1>4. \A i, j \in D : j \in Ahead(i) => Ahead(j) \subseteq Ahead(i)
    OBVIOUS
  <1>5. ahead \in [D -> SUBSET D]
    BY <1>2
  <1>6. k \in 1 .. Cardinality(D)
    BY <1>1
  <1> HIDE DEF Ahead, D, ahead
  <1>7. \A i \in D : i \notin ahead[i]
    BY <1>2
  <1>8. \A i, j \in D : i # j => j \in ahead[i] \/ i \in ahead[j]
    BY <1>2, <1>3
  <1>9. \A i, j \in D : j \in ahead[i] => ahead[j] \subseteq ahead[i]
    BY <1>2, <1>4
  <1>10. \E i \in D : Cardinality(ahead[i]) = k - 1
    <2>1. \A m \in 1 .. Cardinality(D) : \E i \in D : Cardinality(ahead[i]) = m - 1
      BY ONLY <1>1, <1>5, <1>7, <1>8, <1>9, PlacesInOrder
    <2> QED
      BY <1>6, <2>1
  <1>11. PICK i \in D : Cardinality(Ahead(i)) = k - 1
    BY <1>2, <1>10
  <1>12. Cardinality(Ahead(i)) + 1 = k
    BY <1>11
  <1> QED
    BY <1>12 DEF Ahead, D

LEMMA FirstType ==
  ASSUME NEW X, NEW s \in Seq(X), NEW n \in Nat
  PROVE  /\ First(s, n) \in Seq(X) /\ Len(First(s, n)) <= Len(s) /\ Len(First(s, n)) <= n
         /\ \A i \in 1 .. Len(First(s, n)) : i \in 1 .. Len(s) /\ First(s, n)[i] = s[i]
  <1> DEFINE m == IF Len(s) <= n THEN Len(s) ELSE n
  <1>1. m \in 0 .. Len(s) /\ m <= n /\ Len(s) \in Nat
    OBVIOUS
  <1> HIDE DEF m
  <1>2. /\ SubSeq(s, 1, m) \in Seq(X) /\ Len(SubSeq(s, 1, m)) = m
        /\ \A i \in 1 .. m : SubSeq(s, 1, m)[i] = s[i]
    BY <1>1
  <1> QED
    BY <1>1, <1>2 DEF First, m

\* Hypotheses and requests that passed their schemas.
ValidHypothesis(h) ==
  h.conf \in 0 .. 100 /\ h.missing \in 0 .. 12 /\ h.recommends \in Seq(ExperimentType)

ValidRequests(requests, hyps) ==
  /\ requests \in Seq(ToSet(requests))
  /\ \A i \in DOMAIN requests :
       /\ requests[i].type \in ExperimentType /\ requests[i].priority \in 1 .. 10
       /\ \E j \in DOMAIN hyps : hyps[j].id = requests[i].hyp
  /\ \A i, j \in DOMAIN requests : requests[i].id = requests[j].id => i = j

IsExperiment(e) == e = [id |-> e.id, hyp |-> e.hyp, type |-> e.type, status |-> e.status]

ValidPlan(list, capabilities) ==
  /\ list \in Seq(ToSet(list))
  /\ \A i \in DOMAIN list :
       /\ IsExperiment(list[i])
       /\ list[i].type \in ExperimentType
       /\ list[i].status = PlannedStatus(list[i].type, capabilities)
  /\ \A i, j \in DOMAIN list : list[i].id = list[j].id => i = j

LEMMA IsSequence ==
  ASSUME NEW X, NEW s \in Seq(X)
  PROVE  s \in Seq(ToSet(s)) /\ DOMAIN s = 1 .. Len(s) /\ ToSet(s) \subseteq X
  BY DEF ToSet

\* validate_hypothesis_payload keeps what is valid and grounded.
LEMMA GroundedType ==
  ASSUME NEW answer, TypedAnswer(answer)
  PROVE  Grounded(answer) \in Seq({h \in ToSet(answer.hypotheses) : h.valid /\ ValidHypothesis(h)})
  <1> DEFINE hs == answer.hypotheses
             X == ToSet(hs)
             keep == {i \in DOMAIN hs : hs[i].cites /\ hs[i].valid}
             Y == {h \in X : h.valid /\ ValidHypothesis(h)}
  <1>1. hs \in Seq(X)
    BY DEF TypedAnswer
  <1>2. \A h \in X : h.valid => ValidHypothesis(h)
    BY DEF TypedAnswer, ValidHypothesis
  <1> HIDE DEF hs, X
  <1>3. /\ First(hs, 20) \in Seq(X)
        /\ \A i \in 1 .. Len(First(hs, 20)) : i \in 1 .. Len(hs) /\ First(hs, 20)[i] = hs[i]
    BY <1>1, FirstType
  <1>4. ASSUME NEW i \in 1 .. Len(First(hs, 20)), i \in keep PROVE First(hs, 20)[i] \in Y
    <2>1. hs[i] \in X /\ hs[i].valid
      BY <1>1, <1>3, <1>4
    <2> QED
      BY <1>2, <1>3, <2>1
  <1> HIDE DEF Y, keep
  <1>5. Kept(First(hs, 20), keep) \in Seq(Y)
    BY <1>3, <1>4, KeptType
  <1> QED
    BY <1>5 DEF Grounded, hs, X, Y, keep

\* _validate_raw_requests: of two requests with one id, only one is accepted.
LEMMA AcceptedType ==
  ASSUME NEW raw, raw \in Seq(ToSet(raw)),
         \A r \in ToSet(raw) : r.valid => r.type \in ExperimentType /\ r.priority \in 1 .. 10,
         NEW hyps
  PROVE  ValidRequests(AcceptedRequests(raw, hyps), hyps)
  <1> DEFINE asked == First(raw, 30)
             known == {hyps[i].id : i \in DOMAIN hyps}
             fit == {i \in DOMAIN asked : asked[i].valid /\ asked[i].hyp \in known}
             first == {i \in fit : \A j \in fit : asked[j].id = asked[i].id => i <= j}
             Request(r) == [id |-> r.id, hyp |-> r.hyp, type |-> r.type, priority |-> r.priority]
             s == [i \in DOMAIN asked |-> Request(asked[i])]
             X == {s[i] : i \in DOMAIN asked}
             Y == {r \in X : /\ r.type \in ExperimentType /\ r.priority \in 1 .. 10
                             /\ r.hyp \in known}
             all == AcceptedRequests(raw, hyps)
  <1>1. /\ asked \in Seq(ToSet(raw)) /\ DOMAIN asked = 1 .. Len(asked) /\ Len(asked) \in Nat
    BY FirstType
  <1>2. all = Kept(s, first)
    BY DEF AcceptedRequests
  <1> HIDE DEF asked, all
  <1>3. s \in Seq(X) /\ Len(s) = Len(asked) /\ \A i \in 1 .. Len(s) : s[i] = Request(asked[i])
    BY <1>1
  <1>4. ASSUME NEW i \in 1 .. Len(s), i \in first PROVE s[i] \in Y
    <2>1. asked[i] \in ToSet(raw) /\ asked[i].valid /\ asked[i].hyp \in known /\ i \in DOMAIN asked
      BY <1>1, <1>3, <1>4
    <2> QED
      BY <1>3, <2>1
  <1>5. \A i, j \in 1 .. Len(s) : i \in first /\ j \in first /\ s[i].id = s[j].id => i = j
    <2> SUFFICES ASSUME NEW i \in 1 .. Len(s), NEW j \in 1 .. Len(s), i \in first, j \in first,
                        s[i].id = s[j].id
                 PROVE  i = j
      OBVIOUS
    <2>1. asked[i].id = asked[j].id
      BY <1>3
    <2> QED
      BY <2>1
  <1> HIDE DEF s, X, Y, first
  <1>6. all \in Seq(Y)
    BY <1>2, <1>3, <1>4, KeptType
  <1>7. \A a, b \in DOMAIN all : all[a].id = all[b].id => a = b
    BY <1>2, <1>3, <1>5, KeptDistinct
  <1>8. all \in Seq(ToSet(all)) /\ \A i \in DOMAIN all : all[i] \in Y
    BY <1>6, IsSequence
  <1> QED
    BY <1>7, <1>8 DEF ValidRequests, Y, all

\* _requests_from_hypotheses numbers what it makes.
LEMMA RecommendedType ==
  ASSUME NEW X, NEW hyps \in Seq(X), \A h \in X : ValidHypothesis(h)
  PROVE  ValidRequests(RecommendedRequests(hyps), hyps)
  <1> DEFINE slots == [n \in 1 .. 5 * Len(hyps) |->
                        [of |-> (n - 1) \div 5 + 1, nth |-> ((n - 1) % 5) + 1]]
             keep == {n \in DOMAIN slots : slots[n].nth <= Len(hyps[slots[n].of].recommends)}
             given == Kept(slots, keep)
             Slot == [of : Nat, nth : Nat]
             Y == {r \in Slot : /\ r.of \in 1 .. Len(hyps)
                               /\ r.nth \in 1 .. Len(hyps[r.of].recommends)}
             Request(k, h, nth) ==
               [id |-> k, hyp |-> h.id, type |-> h.recommends[nth], priority |-> PriorityOf(h)]
             all == RecommendedRequests(hyps)
  <1>1. all = [k \in DOMAIN given |-> Request(k, hyps[given[k].of], given[k].nth)]
    BY DEF RecommendedRequests
  <1>2. Len(hyps) \in Nat
    OBVIOUS
  <1>3. \A n \in 1 .. 5 * Len(hyps) :
          (n - 1) \div 5 + 1 \in 1 .. Len(hyps) /\ ((n - 1) % 5) + 1 \in 1 .. 5
    BY <1>2
  <1>4. /\ slots \in Seq(Slot) /\ Len(slots) = 5 * Len(hyps)
        /\ \A n \in 1 .. Len(slots) : slots[n].of \in 1 .. Len(hyps) /\ slots[n].nth \in 1 .. 5
    BY <1>2, <1>3
  <1> HIDE DEF slots, all
  <1>5. ASSUME NEW n \in 1 .. Len(slots), n \in keep PROVE slots[n] \in Y
    <2> DEFINE slot == slots[n]
    <2>1. slot \in Slot
      <3> HIDE DEF Slot
      <3> QED
        BY <1>4
    <2>2. slot.of \in 1 .. Len(hyps) /\ slot.nth \in 1 .. 5
      BY <1>4
    <2>3. slot.nth <= Len(hyps[slot.of].recommends)
      BY <1>5
    <2> HIDE DEF slot, Slot
    <2>4. ValidHypothesis(hyps[slot.of])
      BY <2>2
    <2>5. Len(hyps[slot.of].recommends) \in Nat
      BY <2>4 DEF ValidHypothesis
    <2>6. slot.nth \in 1 .. Len(hyps[slot.of].recommends)
      BY <2>2, <2>3, <2>5
    <2>7. slot \in Y
      BY <2>1, <2>2, <2>6
    <2> QED
      BY <2>7 DEF slot
  <1> HIDE DEF keep, Slot, Y
  <1>6. given \in Seq(Y)
    BY <1>4, <1>5, KeptType
  <1> HIDE DEF given
  <1>7. DOMAIN all = 1 .. Len(given) /\ Len(given) \in Nat
    BY <1>1, <1>6
  <1>8. all \in Seq(ToSet(all))
    BY <1>1, <1>7 DEF ToSet
  <1>9. ASSUME NEW k \in DOMAIN all
        PROVE  /\ all[k].type \in ExperimentType /\ all[k].priority \in 1 .. 10
               /\ \E j \in DOMAIN hyps : hyps[j].id = all[k].hyp
               /\ all[k].id = k
    <2>1. given[k] \in Y /\ k \in DOMAIN given
      BY <1>6, <1>7
    <2> DEFINE of == given[k].of
               nth == given[k].nth
    <2>2. of \in 1 .. Len(hyps) /\ nth \in 1 .. Len(hyps[of].recommends)
      BY <2>1 DEF Y
    <2>3. all[k] = Request(k, hyps[of], nth)
      BY <1>1, <2>1
    <2> HIDE DEF of, nth
    <2>4. of \in DOMAIN hyps /\ hyps[of] \in X
      BY <2>2
    <2>5. hyps[of].recommends \in Seq(ExperimentType)
      BY <2>4 DEF ValidHypothesis
    <2>6. hyps[of].recommends[nth] \in ExperimentType
      BY <2>2, <2>5
    <2>7. PriorityOf(hyps[of]) \in 1 .. 10
      BY DEF PriorityOf
    <2> HIDE DEF ExperimentType
    <2> QED
      BY <2>3, <2>4, <2>6, <2>7
  <1>10. \A i, j \in DOMAIN all : all[i].id = all[j].id => i = j
    BY <1>9
  <1>11. \A i \in DOMAIN all : all[i].type \in ExperimentType /\ all[i].priority \in 1 .. 10
    BY <1>9
  <1>12. \A i \in DOMAIN all : \E j \in DOMAIN hyps : hyps[j].id = all[i].hyp
    BY <1>9
  <1>13. ValidRequests(all, hyps)
    BY <1>8, <1>10, <1>11, <1>12 DEF ValidRequests
  <1> QED
    BY <1>13 DEF all

\* Every request is scored by a number.
LEMMA ScoreIsNumber ==
  ASSUME NEW X, NEW hyps \in Seq(X), \A h \in X : ValidHypothesis(h), NEW r,
         r.type \in ExperimentType, r.priority \in 1 .. 10,
         \E j \in DOMAIN hyps : hyps[j].id = r.hyp,
         NEW capabilities
  PROVE  RequestScore(r, hyps, capabilities) \in Int
  <1> DEFINE T == {i \in 1 .. Len(hyps) : hyps[i].id = r.hyp}
             of == HypothesisOf(r.hyp, hyps)
  <1>0. DOMAIN hyps = 1 .. Len(hyps) /\ Len(hyps) \in Nat
    OBVIOUS
  <1>1. T # {} /\ T \in SUBSET (1 .. Len(hyps))
    BY <1>0
  <1>2. PICK i \in T : \A j \in T : j <= i
    BY <1>0, <1>1, Greatest
  <1>3. i \in DOMAIN hyps /\ hyps[i].id = r.hyp
        /\ \A j \in DOMAIN hyps : hyps[j].id = r.hyp => j <= i
    BY <1>0, <1>2
  <1>4. \E k \in DOMAIN hyps : of = hyps[k]
    BY <1>3 DEF HypothesisOf
  <1> HIDE DEF of
  <1>5. of \in X
    BY <1>4
  <1>6. ValidHypothesis(of)
    BY <1>5
  <1>7. of.conf \in Int /\ of.missing \in Int
    <2> DEFINE conf == of.conf
               missing == of.missing
    <2>1. conf \in 0 .. 100 /\ missing \in 0 .. 12
      BY <1>6 DEF ValidHypothesis
    <2> HIDE DEF conf, missing
    <2>2. conf \in Int /\ missing \in Int
      BY <2>1
    <2> QED
      BY <2>2 DEF conf, missing
  <1>8. Impact(of.category) \in Int
    BY DEF Impact
  <1>9. Timeout(r.type) \in {30, 45, 60, 90, 120}
    BY DEF Timeout
  <1>10. Timeout(r.type) \div 15 \in Int
    BY <1>9
  <1> DEFINE impact == Impact(of.category)
             slow == Timeout(r.type) \div 15
             base == IF PlannedStatus(r.type, capabilities) = "PLANNED" THEN 1000 ELSE 0
             missing == IF of.missing <= 5 THEN of.missing ELSE 5
             conf == of.conf
             priority == r.priority
  <1>11. RequestScore(r, hyps, capabilities)
           = base + conf + 10 * impact + 5 * missing + 4 * (11 - priority) - slow
    BY DEF RequestScore, of
  <1>12. base \in Int /\ missing \in Int /\ conf \in Int /\ priority \in Int
         /\ impact \in Int /\ slow \in Int
    BY <1>7, <1>8, <1>10
  <1> HIDE DEF base, missing, conf, impact, slow, priority
  <1> QED
    BY <1>11, <1>12

\* plan_requests reorders and cuts: no request comes twice, and each has the
\* status that its own type and the capabilities give it.
LEMMA PlanOfType ==
  ASSUME NEW X, NEW hyps \in Seq(X), \A h \in X : ValidHypothesis(h), NEW requests,
         ValidRequests(requests, hyps), NEW capabilities
  PROVE  /\ ValidPlan(PlanOf(requests, hyps, capabilities), capabilities)
         /\ Len(PlanOf(requests, hyps, capabilities)) <= PlanLimit
  <1> DEFINE n == Len(requests)
             Score(i) == RequestScore(requests[i], hyps, capabilities)
             score == [i \in 1 .. n |-> Score(i)]
             Place(i) == Cardinality({j \in DOMAIN requests :
                           Score(j) > Score(i) \/ (Score(j) = Score(i) /\ j < i)}) + 1
             at == [k \in 1 .. n |-> CHOOSE i \in DOMAIN requests : Place(i) = k]
             AsPlanned(r) == [id |-> r.id, hyp |-> r.hyp, type |-> r.type,
                              status |-> PlannedStatus(r.type, capabilities)]
             s == [k \in DOMAIN requests |-> AsPlanned(requests[at[k]])]
             all == PlanOf(requests, hyps, capabilities)
  <1>1. n \in Nat /\ DOMAIN requests = 1 .. n
    BY DEF ValidRequests
  <1>2. all = First(s, PlanLimit)
    BY <1>1 DEF PlanOf
  <1>3. \A i \in 1 .. n : Score(i) \in Int
    BY <1>1, ScoreIsNumber DEF ValidRequests
  <1> HIDE DEF all, Score
  <1>4. ASSUME NEW k \in 1 .. n PROVE at[k] \in 1 .. n /\ Place(at[k]) = k
    <2>1. score \in [1 .. n -> Int]
      BY <1>3
    <2>2. \E i \in 1 .. n :
            Cardinality({j \in 1 .. n : score[j] > score[i] \/ (score[j] = score[i] /\ j < i)}) + 1 = k
      <3> HIDE DEF score, n
      <3> QED
        BY <1>1, <2>1, PlacesAreTaken
    <2>3. \A i \in 1 .. n :
            {j \in DOMAIN requests : Score(j) > Score(i) \/ (Score(j) = Score(i) /\ j < i)}
              = {j \in 1 .. n : score[j] > score[i] \/ (score[j] = score[i] /\ j < i)}
      BY <1>1
    <2>4. \E i \in DOMAIN requests : Place(i) = k
      BY <1>1, <2>2, <2>3
    <2> HIDE DEF Place
    <2> QED
      BY <1>1, <2>4
  <1> HIDE DEF at, Place
  <1>5. ASSUME NEW k \in 1 .. n
        PROVE  /\ s[k].type \in ExperimentType /\ s[k].id = requests[at[k]].id
               /\ s[k].status = PlannedStatus(s[k].type, capabilities)
               /\ IsExperiment(s[k])
    <2>1. requests[at[k]].type \in ExperimentType
      BY <1>1, <1>4 DEF ValidRequests
    <2>2. s[k] = AsPlanned(requests[at[k]])
      BY <1>1
    <2> HIDE DEF ExperimentType, s
    <2>3. IsExperiment(s[k])
      BY <2>2 DEF IsExperiment
    <2> QED
      BY <2>1, <2>2, <2>3
  <1>6. ASSUME NEW k \in 1 .. n, NEW l \in 1 .. n, s[k].id = s[l].id PROVE k = l
    <2>1. requests[at[k]].id = requests[at[l]].id
      BY <1>5, <1>6
    <2>2. at[k] = at[l]
      BY <1>1, <1>4, <2>1 DEF ValidRequests
    <2> QED
      BY <1>4, <2>2
  <1>7. s \in Seq(ToSet(s)) /\ Len(s) = n
    BY <1>1 DEF ToSet
  <1> HIDE DEF s, n
  <1>8. /\ all \in Seq(ToSet(s)) /\ Len(all) <= PlanLimit
        /\ \A i \in 1 .. Len(all) : i \in 1 .. n /\ all[i] = s[i]
    BY <1>2, <1>7, PlanAssumption, FirstType
  <1>9. all \in Seq(ToSet(all)) /\ DOMAIN all = 1 .. Len(all)
    BY <1>8, IsSequence
  <1>10. ValidPlan(all, capabilities)
    BY <1>5, <1>6, <1>8, <1>9 DEF ValidPlan
  <1> QED
    BY <1>8, <1>10 DEF all

\* Whatever the language model answers, the plan is valid.
LEMMA PlanType ==
  ASSUME NEW answer, TypedAnswer(answer), NEW capabilities
  PROVE  ValidPlan(Plan(answer, Grounded(answer), capabilities), capabilities)
  <1> DEFINE X == {h \in ToSet(answer.hypotheses) : h.valid /\ ValidHypothesis(h)}
             hyps == Grounded(answer)
             requests == IF answer.requests = NULL THEN RecommendedRequests(hyps)
                         ELSE AcceptedRequests(answer.requests, hyps)
  <1>1. hyps \in Seq(X) /\ \A h \in X : ValidHypothesis(h)
    BY GroundedType
  <1> HIDE DEF X, hyps
  <1>2. ValidRequests(RecommendedRequests(hyps), hyps)
    BY <1>1, RecommendedType
  <1>3. answer.requests # NULL => ValidRequests(AcceptedRequests(answer.requests, hyps), hyps)
    BY AcceptedType DEF TypedAnswer
  <1>4. ValidRequests(requests, hyps)
    BY <1>2, <1>3
  <1> HIDE DEF requests
  <1>5. ValidPlan(PlanOf(requests, hyps, capabilities), capabilities)
    BY <1>1, <1>4, PlanOfType
  <1> QED
    BY <1>5 DEF Plan, requests, hyps


-----------------------------------------------------------------------------
(* Genuine evidence.                                                       *)

\* What an observation, or an item made of it, says truly happened: "happened"
\* and "taken" stand for hist and received.  Nothing of a run is correlated, and
\* what a log alone shows is neither trusted nor strong.
Genuine(s, happened, taken) ==
  /\ s.trust # "PAYLOAD_CORRELATED" /\ s.src # "lineage"
  /\ s.type = "synthetic_sms_delivered" => "delivered" \in happened
  /\ s.type = "sms_access" => s.trust = "LOG_OBSERVED" \/ "sms" \in happened
  /\ s.type = "synthetic_marker_correlation" => s.trust = "LOG_OBSERVED"
  /\ s.type = "accessibility_behavior" =>
       s.trust = "LOG_OBSERVED" \/ happened \cap {"accessibility", "bound"} # {}
  /\ s.type \in NetworkType => s.conf < 70 \/ happened \cap {"network", "body", "url"} # {}
  /\ s.body => "body" \in happened /\ taken

Truths(happened, taken) == {s \in Observation : Genuine(s, happened, taken)}

\* Evidence that is numbered in order, and genuine.
Sound(list, happened, taken) ==
  /\ list \in Seq(Item)
  /\ \A i \in DOMAIN list : list[i].id = i /\ Genuine(list[i], happened, taken)

\* What happened stays so: what was genuine is.
LEMMA GenuineStays ==
  ASSUME NEW s, NEW h1, NEW h2, h1 \subseteq h2, NEW t1, NEW t2, t1 => t2, Genuine(s, h1, t1)
  PROVE  Genuine(s, h2, t2)
  BY DEF Genuine

LEMMA NumberedIsGenuine ==
  ASSUME NEW s, NEW h, NEW t, Genuine(s, h, t), NEW n, NEW time
  PROVE  Genuine(Numbered(s, n, time), h, t)
  BY DEF Genuine, Numbered

\* Evidence that grows by genuine observations stays sound.
LEMMA SoundGrows ==
  ASSUME NEW h1, NEW h2, h1 \subseteq h2, NEW t1, NEW t2, t1 => t2,
         NEW old, Sound(old, h1, t1), NEW all, Extends(old, all, Truths(h2, t2))
  PROVE  Sound(all, h2, t2)
  <1>1. old \in Seq(Item) /\ all \in Seq(Item) /\ Len(old) \in Nat /\ Len(all) \in Nat
        /\ DOMAIN old = 1 .. Len(old) /\ DOMAIN all = 1 .. Len(all)
    BY DEF Sound, Extends
  <1>2. ASSUME NEW i \in 1 .. Len(all) PROVE all[i].id = i /\ Genuine(all[i], h2, t2)
    <2>1. CASE i \in 1 .. Len(old)
      <3>1. all[i] = old[i]
        BY <2>1 DEF Extends
      <3>2. old[i].id = i /\ Genuine(old[i], h1, t1)
        BY <1>1, <2>1 DEF Sound
      <3>3. Genuine(old[i], h2, t2)
        BY <3>2, GenuineStays
      <3> QED
        BY <3>1, <3>2, <3>3
    <2>2. CASE i \in Len(old) + 1 .. Len(all)
      <3>1. PICK s \in Truths(h2, t2), time \in Nat : all[i] = Numbered(s, i, time)
        BY <2>2 DEF Extends
      <3>2. Genuine(s, h2, t2)
        BY <3>1 DEF Truths
      <3>3. Genuine(Numbered(s, i, time), h2, t2)
        BY <3>2, NumberedIsGenuine
      <3>4. Numbered(s, i, time).id = i
        BY DEF Numbered
      <3> QED
        BY <3>1, <3>3, <3>4
    <2> QED
      BY <1>1, <2>1, <2>2
  <1> QED
    BY <1>1, <1>2 DEF Sound

\* What the log shows is genuine, whatever the log.
LEMMA LogIsGenuine ==
  ASSUME NEW log0, NEW types, NEW h, NEW t
  PROVE  FromLog(log0, types) \in Seq(Truths(h, t))
  <1>1. LogObservation(types) \subseteq Truths(h, t)
    <2> SUFFICES ASSUME NEW s \in LogObservation(types) PROVE s \in Truths(h, t)
      OBVIOUS
    <2>1. /\ s \in Observation /\ s.trust = "LOG_OBSERVED" /\ ~s.body /\ s.src \in Line
          /\ s.type \in TokenType \cup NetworkType /\ (s.type \in NetworkType => s.conf = 60)
      BY DEF LogObservation
    <2>2. s.src # "lineage"
      BY <2>1, EvidenceAssumption
    <2>3. s.type # "synthetic_sms_delivered"
      BY <2>1, LogTypesAre DEF TokenType, NetworkType
    <2> HIDE DEF NetworkType
    <2>4. Genuine(s, h, t)
      BY <2>1, <2>2, <2>3 DEF Genuine
    <2> QED
      BY <2>1, <2>4 DEF Truths
  <1>2. FromLog(log0, types) \in Seq(LogObservation(types))
    BY LogIsObserved
  <1> HIDE DEF Truths
  <1> DEFINE L == LogObservation(types)
             T == Truths(h, t)
  <1>3. \A s \in Seq(L) : L \subseteq T => s \in Seq(T)
    OBVIOUS
  <1> QED
    BY <1>1, <1>2, <1>3

\* What the collectors hand over of their own.
Plain(type, trust, conf, src) ==
  /\ type \in {"app_launch", "activity_change", "package_state", "permission_state",
               "filesystem_change", "ui_screenshot", "process_creation"}
  /\ trust \in {"SYSTEM_OBSERVED", "INSTRUMENTED"} /\ conf \in 0 .. 100
  /\ src \in {"pidof", "started", "attached", "activities", "package", "monkey", "few files",
              "more files", "screencap"}

LEMMA PlainIsGenuine ==
  ASSUME NEW type, NEW trust, NEW conf, NEW src, Plain(type, trust, conf, src), NEW h, NEW t
  PROVE  Seen(type, trust, conf, src) \in Truths(h, t)
  <1>1. /\ type \in EvidenceType /\ trust \in TrustLevel /\ conf \in 0 .. 100 /\ src \in Source
    BY DEF Plain, EvidenceType, TrustLevel, Source
  <1>2. Seen(type, trust, conf, src) \in Observation
    BY <1>1 DEF Seen, Observation
  <1>3. Genuine(Seen(type, trust, conf, src), h, t)
    BY DEF Plain, Seen, Genuine, NetworkType
  <1> QED
    BY <1>2, <1>3 DEF Truths

Told(type, trust, conf, src, marked, no) ==
  [type |-> type, trust |-> trust, conf |-> conf, src |-> src,
   marked |-> marked, body |-> no, dump |-> no]

LEMMA ItsOwnIsGenuine ==
  ASSUME NEW type \in EvidenceType, NEW trust \in TrustLevel, NEW conf \in 0 .. 100,
         NEW src \in Source, NEW marked, NEW no, marked \in BOOLEAN, no \in BOOLEAN, ~no,
         NEW h, NEW t,
         trust # "PAYLOAD_CORRELATED", src # "lineage", type \notin NetworkType \cup {"sms_access"},
         type = "synthetic_sms_delivered" => "delivered" \in h,
         type = "synthetic_marker_correlation" => trust = "LOG_OBSERVED",
         type = "accessibility_behavior" => "bound" \in h
  PROVE  Told(type, trust, conf, src, marked, no) \in Truths(h, t)
  <1> DEFINE s == Told(type, trust, conf, src, marked, no)
  <1>2. s \in Observation
    BY DEF Observation, Told
  <1>3. Genuine(s, h, t)
    BY DEF Genuine, Told
  <1> QED
    BY <1>2, <1>3 DEF Truths

\* _collect_synthetic_sms reports a delivery once the emulator took it.
LEMMA DeliveryIsGenuine ==
  ASSUME NEW h, "delivered" \in h, NEW t
  PROVE  DeliveryItem \in Truths(h, t)
  <1> DEFINE type == "synthetic_sms_delivered"
             trust == "INSTRUMENTED"
             src == "marker"
             yes == TRUE
             no == FALSE
  <1>0. yes \in BOOLEAN /\ no \in BOOLEAN /\ ~no
    OBVIOUS
  <1>1. /\ type \in EvidenceType /\ trust \in TrustLevel /\ src \in Source
        /\ trust # "PAYLOAD_CORRELATED" /\ src # "lineage"
        /\ type \notin NetworkType \cup {"sms_access"}
        /\ type # "synthetic_marker_correlation" /\ type # "accessibility_behavior"
    BY DEF EvidenceType, TrustLevel, Source, NetworkType
  <1>2. DeliveryItem = [Seen(type, trust, 100, src) EXCEPT !.marked = yes]
    BY DEF DeliveryItem
  <1>3. Seen(type, trust, 100, src) = [type |-> type, trust |-> trust, conf |-> 100, src |-> src,
                                       marked |-> no, body |-> no, dump |-> no]
    BY DEF Seen
  <1> HIDE DEF type, trust, src, yes, no
  <1>4. DeliveryItem = [type |-> type, trust |-> trust, conf |-> 100, src |-> src,
                        marked |-> yes, body |-> no, dump |-> no]
    BY <1>2, <1>3
  <1>5. Told(type, trust, 100, src, yes, no) \in Truths(h, t)
    BY <1>0, <1>1, ItsOwnIsGenuine
  <1> QED
    BY <1>4, <1>5 DEF Told

\* _collect_accessibility reports a service that the system lists.
LEMMA DumpIsGenuine ==
  ASSUME NEW h, "bound" \in h, NEW t
  PROVE  DumpItem \in Truths(h, t)
  <1> DEFINE type == "accessibility_behavior"
             trust == "SYSTEM_OBSERVED"
             src == "accessibility state"
             no == FALSE
  <1>0. no \in BOOLEAN /\ ~no
    OBVIOUS
  <1>1. /\ trust \in TrustLevel /\ src \in Source
        /\ trust # "PAYLOAD_CORRELATED" /\ src # "lineage"
        /\ type \notin NetworkType \cup {"sms_access"}
        /\ type # "synthetic_marker_correlation" /\ type # "synthetic_sms_delivered"
    BY DEF TrustLevel, Source, NetworkType
  <1>2. type \in EvidenceType
    BY LogTypesAre
  <1>3. DumpItem = [type |-> type, trust |-> trust, conf |-> 85, src |-> src,
                    marked |-> no, body |-> no, dump |-> no]
    BY DEF DumpItem, Seen
  <1> HIDE DEF type, trust, src, no
  <1>4. Told(type, trust, 85, src, no, no) \in Truths(h, t)
    BY <1>0, <1>1, <1>2, ItsOwnIsGenuine
  <1> QED
    BY <1>3, <1>4 DEF Told

\* The marker in a log proves nothing by itself.
LEMMA MarkerIsGenuine ==
  ASSUME NEW c, NEW h, NEW t
  PROVE  MarkerInLog(c) \in Seq(Truths(h, t))
  <1> DEFINE type == "synthetic_marker_correlation"
             trust == "LOG_OBSERVED"
             src == "logcat"
             yes == TRUE
             no == FALSE
             item == [Seen(type, trust, 100, src) EXCEPT !.marked = yes]
             T == Truths(h, t)
  <1>0. yes \in BOOLEAN /\ no \in BOOLEAN /\ ~no
    OBVIOUS
  <1>1. /\ type \in EvidenceType /\ trust \in TrustLevel /\ src \in Source
        /\ trust # "PAYLOAD_CORRELATED" /\ src # "lineage"
        /\ type \notin NetworkType \cup {"sms_access"}
        /\ type # "accessibility_behavior" /\ type # "synthetic_sms_delivered"
        /\ trust = "LOG_OBSERVED"
    BY DEF EvidenceType, TrustLevel, Source, NetworkType
  <1>2. MarkerInLog(c) = <<>> \/ MarkerInLog(c) = <<item>>
    BY DEF MarkerInLog
  <1>3. item \in T
    <2>1. Seen(type, trust, 100, src) = [type |-> type, trust |-> trust, conf |-> 100, src |-> src,
                                         marked |-> no, body |-> no, dump |-> no]
      BY DEF Seen
    <2> HIDE DEF type, trust, src, yes, no
    <2>2. item = [type |-> type, trust |-> trust, conf |-> 100, src |-> src,
                  marked |-> yes, body |-> no, dump |-> no]
      BY <2>1
    <2>3. Told(type, trust, 100, src, yes, no) \in Truths(h, t)
      BY <1>0, <1>1, ItsOwnIsGenuine
    <2> QED
      BY <2>2, <2>3 DEF Told
  <1> HIDE DEF item, T
  <1>4. MarkerInLog(c) \in Seq(T)
    <2>1. <<>> \in Seq(T) /\ <<item>> \in Seq(T)
      BY <1>3
    <2> QED
      BY <1>2, <2>1
  <1> QED
    BY <1>4 DEF T

\* What a hook reports happened.
LEMMA EventIsGenuine ==
  ASSUME NEW e \in Event, NEW h, e \in h, NEW t, e \in {"body", "url"} => t
  PROVE  FromEvent(e) \in Truths(h, t)
  <1> DEFINE marked == e \in {"body", "url"}
             body == e = "body"
             type == TypeOfEvent(e)
  <1>0. FromEvent(e) = [Seen(type, "INSTRUMENTED", 95, e) EXCEPT !.marked = marked, !.body = body]
    BY DEF FromEvent
  <1>2. marked \in BOOLEAN /\ body \in BOOLEAN /\ (body <=> e = "body")
    OBVIOUS
  <1>3. type \in ToSet(LogTypes)
    BY LogTypesAre DEF TypeOfEvent
  <1>4. type \in EvidenceType
    BY <1>3, LogTypesAre
  <1>5. /\ type = "sms_access" => e = "sms"
        /\ type = "accessibility_behavior" => e = "accessibility"
        /\ type \in NetworkType => e \in {"network", "body", "url"}
        /\ type \notin {"synthetic_sms_delivered", "synthetic_marker_correlation"}
    BY DEF TypeOfEvent, Event, NetworkType
  <1>6. e \in Source /\ e # "lineage"
    BY DEF Source, Event
  <1> HIDE DEF marked, body, type
  <1>1. FromEvent(e) = [type |-> type, trust |-> "INSTRUMENTED", conf |-> 95, src |-> e,
                        marked |-> marked, body |-> body, dump |-> FALSE]
    BY <1>0 DEF Seen
  <1>7. FromEvent(e) \in Observation
    BY <1>1, <1>2, <1>4, <1>6 DEF Observation, TrustLevel
  <1>8. Genuine(FromEvent(e), h, t)
    <2> HIDE DEF NetworkType
    <2> QED
      BY <1>1, <1>2, <1>5, <1>6 DEF Genuine
  <1> QED
    BY <1>7, <1>8 DEF Truths

\* SetToSeq gives every element of a set of events its place.
LEMMA EventsInOrder ==
  ASSUME NEW S \in SUBSET Event
  PROVE  /\ SetToSeq(S) \in Seq(S)
         /\ \A e \in S : \E n \in 1 .. Len(SetToSeq(S)) : SetToSeq(S)[n] = e
  <1> DEFINE N == Cardinality(S)
             f == SetToSeq(S)
  <1>1. IsFiniteSet(Event)
    <2>1. Event = {"sms", "accessibility"} \cup {"dynamic_dex"} \cup {"webview"} \cup {"network"}
                    \cup {"body"} \cup {"url"}
      BY DEF Event
    <2> DEFINE E2 == {"sms"} \cup {"accessibility"}
               E3 == E2 \cup {"dynamic_dex"}
               E4 == E3 \cup {"webview"}
               E5 == E4 \cup {"network"}
               E6 == E5 \cup {"body"}
    <2>2. IsFiniteSet({"sms"})
      BY FS_Singleton
    <2>3. IsFiniteSet(E2)
      BY <2>2, FS_AddElement
    <2>4. IsFiniteSet(E3)
      <3> HIDE DEF E2
      <3> QED
        BY <2>3, FS_AddElement
    <2>5. IsFiniteSet(E4)
      <3> HIDE DEF E3
      <3> QED
        BY <2>4, FS_AddElement
    <2>6. IsFiniteSet(E5)
      <3> HIDE DEF E4
      <3> QED
        BY <2>5, FS_AddElement
    <2>7. IsFiniteSet(E6)
      <3> HIDE DEF E5
      <3> QED
        BY <2>6, FS_AddElement
    <2>8. IsFiniteSet(E6 \cup {"url"})
      <3> HIDE DEF E6
      <3> QED
        BY <2>7, FS_AddElement
    <2>9. Event = E6 \cup {"url"}
      BY DEF Event
    <2> QED
      BY <2>8, <2>9
  <1>2. IsFiniteSet(S)
    BY <1>1, FS_Subset
  <1>3. N \in Nat /\ ExistsBijection(1 .. N, S)
    BY <1>2, FS_CardinalityType
  <1>4. \E g \in [1 .. N -> S] : IsInjective(g)
    BY <1>3 DEF ExistsBijection, Bijection, Injection, IsInjective
  <1>5. f = CHOOSE g \in [1 .. N -> S] : IsInjective(g)
    BY DEF SetToSeq
  <1>6. f \in [1 .. N -> S] /\ IsInjective(f)
    BY <1>4, <1>5
  <1> HIDE DEF f
  <1>7. f \in Injection(1 .. N, S)
    BY <1>6 DEF Injection
  <1>8. Cardinality(1 .. N) = N
    <2> HIDE DEF N
    <2> QED
      BY <1>3, FS_Interval
  <1>9. f \in Surjection(1 .. N, S)
    BY <1>2, <1>7, <1>8, FS_Injection
  <1>10. \A e \in S : \E n \in 1 .. N : f[n] = e
    BY <1>9 DEF Surjection
  <1> HIDE DEF N
  <1>11. f \in Seq(S) /\ Len(f) = N
    BY <1>3, <1>6
  <1> QED
    BY <1>10, <1>11 DEF f

-----------------------------------------------------------------------------
(* What the steps of a run add to the evidence.                            *)

\* What is handed over is added (AddAll).
LEMMA Adds ==
  ASSUME NEW h, NEW t, NEW old \in Seq(Item), NEW new \in Seq(Truths(h, t))
  PROVE  Extends(old, AddAll(old, new), Truths(h, t))
  <1> DEFINE T == Truths(h, t)
  <1>1. T \in SUBSET Observation
    BY DEF Truths
  <1> HIDE DEF T
  <1>2. \A s \in Seq(T) : Extends(old, AddEach(old, s, FALSE), T)
    BY <1>1, AddEachExtends
  <1> QED
    BY <1>2 DEF AddAll, T

LEMMA AddsNothing ==
  ASSUME NEW old \in Seq(Item), NEW S
  PROVE  Extends(old, old, S)
  <1>1. \A i \in Len(old) + 1 .. Len(old) : FALSE
    OBVIOUS
  <1> QED
    BY <1>1 DEF Extends

\* The sequences that collectors put together.
LEMMA Joined ==
  ASSUME NEW T
  PROVE  /\ <<>> \in Seq(T)
         /\ \A s \in T : <<s>> \in Seq(T)
         /\ \A a, b \in Seq(T) : a \o b \in Seq(T)
  OBVIOUS

LEMMA ProcessIsGenuine ==
  ASSUME NEW p \in BOOLEAN, NEW h, NEW t
  PROVE  ProcessSeen(p) \in Seq(Truths(h, t))
  <1> DEFINE s == Seen("process_creation", "SYSTEM_OBSERVED", 90, "pidof")
             T == Truths(h, t)
  <1>1. s \in T
    <2>1. Plain("process_creation", "SYSTEM_OBSERVED", 90, "pidof")
      BY DEF Plain
    <2> QED
      BY <2>1, PlainIsGenuine
  <1>2. ProcessSeen(p) = <<s>> \/ ProcessSeen(p) = <<>>
    BY DEF ProcessSeen
  <1> HIDE DEF s, T
  <1>3. ProcessSeen(p) \in Seq(T)
    BY <1>1, <1>2, Joined
  <1> QED
    BY <1>3 DEF T

LEMMA LaunchIsGenuine ==
  ASSUME NEW injected \in BOOLEAN, NEW p \in BOOLEAN, NEW h, NEW t
  PROVE  LaunchSeen(injected, p) \in Seq(Truths(h, t))
  <1> DEFINE s == Seen("app_launch", "SYSTEM_OBSERVED", 100, "monkey")
             T == Truths(h, t)
  <1>1. s \in T
    <2>1. Plain("app_launch", "SYSTEM_OBSERVED", 100, "monkey")
      BY DEF Plain
    <2> QED
      BY <2>1, PlainIsGenuine
  <1>2. ProcessSeen(p) \in Seq(T)
    BY ProcessIsGenuine
  <1>3. LaunchSeen(injected, p) = <<s>> \o ProcessSeen(p) \/ LaunchSeen(injected, p) = <<>>
    BY DEF LaunchSeen
  <1> HIDE DEF s, T
  <1>4. LaunchSeen(injected, p) \in Seq(T)
    BY <1>1, <1>2, <1>3, Joined
  <1> QED
    BY <1>4 DEF T

\* Whatever a collector adds is genuine, by what the emulator then did.
LEMMA CollectGrows ==
  ASSUME items \in Seq(Item), Collect
  PROVE  Extends(items, items', Truths(hist', received'))
  <1> DEFINE T == Truths(hist', received')
  <1>0. \A new \in Seq(T) : Extends(items, AddAll(items, new), T)
    BY Adds
  <1>a. Extends(items, items, T)
    BY AddsNothing
  <1>b. \A p \in BOOLEAN : ProcessSeen(p) \in Seq(T)
    BY ProcessIsGenuine
  <1>c. \A injected, p \in BOOLEAN : LaunchSeen(injected, p) \in Seq(T)
    BY LaunchIsGenuine
  <1>d. \A c, types : FromLog(c, types) \in Seq(T)
    BY LogIsGenuine
  <1>e. \A c : MarkerInLog(c) \in Seq(T)
    BY MarkerIsGenuine
  <1>f. \A type, trust, conf, src : Plain(type, trust, conf, src) => Seen(type, trust, conf, src) \in T
    BY PlainIsGenuine
  <1>g. "delivered" \in hist' => DeliveryItem \in T
    BY DeliveryIsGenuine
  <1>h. "bound" \in hist' => DumpItem \in T
    BY DumpIsGenuine
  <1>j. /\ <<>> \in Seq(T) /\ (\A s \in T : <<s>> \in Seq(T))
        /\ \A a, b \in Seq(T) : a \o b \in Seq(T)
    BY Joined
  <1> HIDE DEF T
  <1> SUFFICES items' = items \/ \E new \in Seq(T) : items' = AddAll(items, new)
    BY <1>0, <1>a DEF T
  <1> DEFINE Goal == items' = items \/ \E new \in Seq(T) : items' = AddAll(items, new)
  <1>k. ASSUME NEW types, NEW more \in Seq(T), FromLatestLog(types, more) PROVE Goal
    <2>1. \A c : FromLog(c, types) \o more \in Seq(T)
      BY <1>d, <1>j
    <2> QED
      BY <1>k, <2>1 DEF FromLatestLog
  <1>1. CASE CollectLaunch
    <2> DEFINE conf == IF session.started THEN 100 ELSE 90
               src == IF session.started THEN "started" ELSE "attached"
    <2>1. Plain("app_launch", "INSTRUMENTED", conf, src)
      BY DEF Plain
    <2>2. PICK p \in BOOLEAN :
            items' = AddAll(items, <<Seen("app_launch", "INSTRUMENTED", conf, src)>> \o ProcessSeen(p))
      BY <1>1 DEF CollectLaunch
    <2> HIDE DEF conf, src
    <2>3. <<Seen("app_launch", "INSTRUMENTED", conf, src)>> \o ProcessSeen(p) \in Seq(T)
      BY <1>b, <1>f, <1>j, <2>1
    <2> QED
      BY <2>2, <2>3
  <1>2. CASE CollectStartup
    <2> DEFINE seen == Seen("activity_change", "SYSTEM_OBSERVED", 85, "activities")
    <2>1. Plain("activity_change", "SYSTEM_OBSERVED", 85, "activities")
      BY DEF Plain
    <2>2. seen \in T
      BY <1>f, <2>1
    <2>3. items' = items \/ \E resumed, p \in BOOLEAN :
            items' = AddAll(items, (IF resumed THEN <<seen>> ELSE <<>>) \o ProcessSeen(p))
      BY <1>2 DEF CollectStartup
    <2> HIDE DEF seen
    <2>4. \A resumed, p \in BOOLEAN : (IF resumed THEN <<seen>> ELSE <<>>) \o ProcessSeen(p) \in Seq(T)
      BY <1>b, <1>j, <2>2
    <2> QED
      BY <2>3, <2>4
  <1>3. CASE CollectPackageState
    <2> DEFINE state == Seen("package_state", "SYSTEM_OBSERVED", 90, "package")
               perms == Seen("permission_state", "SYSTEM_OBSERVED", 85, "package")
    <2>1. /\ Plain("package_state", "SYSTEM_OBSERVED", 90, "package")
          /\ Plain("permission_state", "SYSTEM_OBSERVED", 85, "package")
      BY DEF Plain
    <2>2. state \in T /\ perms \in T
      BY <1>f, <2>1
    <2>3. items' = items \/ \E granted \in BOOLEAN :
            items' = AddAll(items, <<state>> \o (IF granted THEN <<perms>> ELSE <<>>))
      BY <1>3 DEF CollectPackageState
    <2> HIDE DEF state, perms
    <2>4. \A granted \in BOOLEAN : <<state>> \o (IF granted THEN <<perms>> ELSE <<>>) \in Seq(T)
      BY <1>j, <2>2
    <2> QED
      BY <2>3, <2>4
  <1>4. CASE SmsNotSent
    BY <1>4 DEF SmsNotSent
  <1>5. CASE CollectSms
    <2>1. DeliveryItem \in T
      BY <1>5, <1>g DEF CollectSms
    <2>2. \/ items' = AddAll(items, <<DeliveryItem>>)
          \/ \E c \in SUBSET Line : items' = AddAll(items,
               <<DeliveryItem>> \o FromLog(c, ToSet(LogTypes)) \o MarkerInLog(c))
      BY <1>5 DEF CollectSms
    <2>3. <<DeliveryItem>> \in Seq(T)
      BY <1>j, <2>1
    <2>4. \A c : <<DeliveryItem>> \o FromLog(c, ToSet(LogTypes)) \o MarkerInLog(c) \in Seq(T)
      BY <1>d, <1>e, <1>j, <2>3
    <2> QED
      BY <2>2, <2>3, <2>4
  <1>6. CASE CollectLogcat
    BY <1>6, <1>d DEF CollectLogcat
  <1>7. CASE CollectNetwork
    BY <1>7, <1>j, <1>k DEF CollectNetwork
  <1>8. CASE CollectAccessibility
    <2>1. PICK bound \in BOOLEAN :
            /\ FromLatestLog({"accessibility_behavior"}, IF bound THEN <<DumpItem>> ELSE <<>>)
            /\ hist' = IF bound /\ ~outcome'.raised THEN hist \cup {"bound"} ELSE hist
      BY <1>8 DEF CollectAccessibility
    <2>2. CASE ~bound \/ ~outcome'.raised
      <3>1. (IF bound THEN <<DumpItem>> ELSE <<>>) \in Seq(T)
        BY <1>h, <1>j, <2>1, <2>2
      <3> QED
        BY <1>k, <2>1, <3>1
    <2>3. CASE outcome'.raised
      BY <2>1, <2>3 DEF FromLatestLog, Done
    <2> QED
      BY <2>2, <2>3
  <1>9. CASE CollectToken
    BY <1>9, <1>j, <1>k DEF CollectToken
  <1>10. CASE FilesUnavailable
    BY <1>10 DEF FilesUnavailable
  <1>11. CASE CollectFiles
    <2>1. PICK r \in LaunchReply, injected \in BOOLEAN, p \in BOOLEAN, after \in Snapshot :
            items' = items \/ items' = AddAll(items,
              LaunchSeen(injected, p) \o (IF after = NULL THEN <<>> ELSE Change(snapshot', after)))
      BY <1>11 DEF CollectFiles
    <2>2. after # NULL => Plain("filesystem_change", "SYSTEM_OBSERVED", 80, after)
      <3>1. after # NULL => after = "few files" \/ after = "more files"
        BY <2>1 DEF Snapshot
      <3>2. Plain("filesystem_change", "SYSTEM_OBSERVED", 80, "few files")
        BY DEF Plain
      <3>3. Plain("filesystem_change", "SYSTEM_OBSERVED", 80, "more files")
        BY DEF Plain
      <3> QED
        BY <3>1, <3>2, <3>3
    <2>3. after # NULL => Change(snapshot', after) \in Seq(T)
      BY <1>f, <1>j, <2>2 DEF Change
    <2>4. LaunchSeen(injected, p) \o (IF after = NULL THEN <<>> ELSE Change(snapshot', after)) \in Seq(T)
      BY <1>c, <1>j, <2>3
    <2> QED
      BY <2>1, <2>4
  <1>12. CASE ScreenshotNotTried
    BY <1>12 DEF ScreenshotNotTried
  <1>13. CASE CollectScreenshot
    <2> DEFINE seen == Seen("ui_screenshot", "SYSTEM_OBSERVED", 75, "screencap")
    <2>1. Plain("ui_screenshot", "SYSTEM_OBSERVED", 75, "screencap")
      BY DEF Plain
    <2>2. seen \in T
      BY <1>f, <2>1
    <2>3. \E injected, p \in BOOLEAN, r \in Reply :
            items' = AddAll(items, LaunchSeen(injected, p) \o (IF r = "ok" THEN <<seen>> ELSE <<>>))
      BY <1>13 DEF CollectScreenshot
    <2> HIDE DEF seen
    <2>4. \A injected, p \in BOOLEAN, r \in Reply :
            LaunchSeen(injected, p) \o (IF r = "ok" THEN <<seen>> ELSE <<>>) \in Seq(T)
      BY <1>c, <1>j, <2>2
    <2> QED
      BY <2>3, <2>4
  <1> QED
    BY <1>1, <1>2, <1>3, <1>4, <1>5, <1>6, <1>7, <1>8, <1>9, <1>10, <1>11, <1>12, <1>13
       DEF Collect

-----------------------------------------------------------------------------
(* The invariant of a run.                                                 *)

RunTypeInv ==
  /\ phase \in {"idle", "preflight", "install", "next", "collect", "exit", "uninstall",
                "returned", "raised"}
  /\ app \in {"stopped", "running", "frozen"} /\ faults \in 0 .. MaxFaults

\* Nothing is observed before the install.
StartInv ==
  phase \in {"idle", "preflight", "install", "raised"} => items = <<>> /\ results = <<>> /\ acted = {}

\* Evidence is genuine, and a hook on SMS leaves an item of its own.
ItemsInv ==
  /\ Sound(items, hist, received)
  /\ "sms" \in hist => \E i \in DOMAIN items : items[i].type = "sms_access"

EndStatus == {"UNAVAILABLE", "COMPLETED", "FAILED", "TIMED_OUT"}

\* An observation of the network, or of accessibility, is complete only if it
\* left an item.
Showed(type, status, list) ==
  status = "COMPLETED" =>
    /\ type = "NETWORK_OBSERVATION" => \E i \in DOMAIN list : list[i].type \in NetworkType
    /\ type = "ACCESSIBILITY_OBSERVATION" =>
         \E i \in DOMAIN list : list[i].type = "accessibility_behavior"

TodoInv ==
  /\ todo \in Seq(ToSet(todo)) /\ \A k \in DOMAIN todo : todo[k].type \in ExperimentType
  /\ Len(results) <= Len(todo)
  /\ phase \in {"collect", "exit"} => Len(results) < Len(todo)
  /\ phase \in {"uninstall", "returned"} => Len(results) = Len(todo)

\* Results tell the experiments in order, and how each ended.
ResultsInv ==
  /\ results \in Seq(ToSet(results))
  /\ \A k \in DOMAIN results :
       /\ results[k].id = todo[k].id /\ results[k].type = todo[k].type
       /\ results[k].status \in EndStatus
       /\ Showed(results[k].type, results[k].status, items)
  /\ phase = "exit" =>
       outcome.status \in EndStatus /\ Showed(Current.type, outcome.status, items)

\* Each item up to the last one counted is the share of one experiment.
SharesInv ==
  /\ Counted \in 0 .. Len(items)
  /\ phase \notin {"collect", "exit"} => Counted = Len(items)
  /\ UNION {results[k].ids : k \in DOMAIN results} = 1 .. Counted
  /\ \A j, k \in DOMAIN results : j # k => results[j].ids \cap results[k].ids = {}

\* Only experiments that may act did, or are about to.
MayAct(k) == todo[k].type \notin FridaDependent \/ env.frida = "ready"

ActedInv ==
  /\ acted \subseteq {todo[k].id : k \in {j \in DOMAIN todo : MayAct(j)}}
  /\ phase = "collect" => MayAct(Len(results) + 1)

RunInv ==
  /\ RunTypeInv /\ StartInv /\ ItemsInv /\ TodoInv /\ ResultsInv /\ SharesInv /\ ActedInv

-----------------------------------------------------------------------------
(* The three kinds of steps.                                               *)

\* A step that observes nothing.
Quiet ==
  /\ UNCHANGED <<env, todo, items, results, acted, received>>
  /\ hist \subseteq hist' /\ ("sms" \in hist' => "sms" \in hist)
  /\ \/ phase = "preflight" /\ phase' \in {"install", "raised"}
     \/ phase = "install" /\ phase' \in {"next", "raised"}
     \/ phase = "next" /\ phase' = "collect" /\ Len(results) < Len(todo) /\ MayAct(Len(results) + 1)
     \/ phase = "next" /\ phase' = "uninstall" /\ Len(results) = Len(todo)
     \/ phase = "uninstall" /\ phase' = "returned"

\* A step that ends an experiment.
Concludes(status) ==
  /\ phase \in {"next", "exit"} /\ phase' = "next"
  /\ UNCHANGED <<env, todo, acted, received>>
  /\ results' = Append(results, Result(status, Len(items')))
  /\ Len(results) < Len(todo)
  /\ hist \subseteq hist'
  /\ Extends(items, items', Truths(hist', received'))
  /\ "sms" \in hist' => "sms" \in hist \/ \E i \in DOMAIN items' : items'[i].type = "sms_access"
  /\ status \in EndStatus /\ Showed(Current.type, status, items')

\* A collector, up to its end.
Gathers ==
  /\ phase = "collect" /\ phase' = "exit"
  /\ UNCHANGED <<env, todo, results>>
  /\ acted' = acted \cup {Current.id}
  /\ hist \subseteq hist' /\ ("sms" \in hist' => "sms" \in hist) /\ (received => received')
  /\ Extends(items, items', Truths(hist', received'))
  /\ outcome'.status \in EndStatus /\ Showed(Current.type, outcome'.status, items')

LEMMA QuietSteps ==
  ASSUME Preflight \/ Install \/ BeginPlain \/ EnterSession \/ Finish \/ Uninstall
  PROVE  Quiet
  <1> USE DEF Quiet, deviceVars
  <1>1. CASE Preflight
    BY <1>1 DEF Preflight
  <1>2. CASE Install
    BY <1>2 DEF Install
  <1>3. CASE BeginPlain
    BY <1>3 DEF BeginPlain, More, MayAct, Current
  <1>4. CASE EnterSession
    BY <1>4 DEF EnterSession, More, MayAct, Instrumentable
  <1>5. CASE Finish
    BY <1>5 DEF Finish
  <1>6. CASE Uninstall
    BY <1>6 DEF Uninstall
  <1> QED
    BY <1>1, <1>2, <1>3, <1>4, <1>5, <1>6

\* Items that were shown stay, so a log that was read leaves its kind of item.
LEMMA NewItemsAre ==
  ASSUME NEW S, NEW S1, NEW old \in Seq(Item), NEW all, Extends(old, all, S), Len(all) > Len(old)
  PROVE  \E i \in DOMAIN all, s \in S : all[i].type = s.type
  <1>1. all \in Seq(Item) /\ Len(all) \in Nat /\ Len(old) \in Nat
    BY DEF Extends
  <1>2. PICK s \in S, t \in Nat : all[Len(all)] = Numbered(s, Len(all), t)
    BY <1>1 DEF Extends
  <1>3. all[Len(all)].type = s.type
    BY <1>2 DEF Numbered
  <1> QED
    BY <1>1, <1>3

\* A log that is read again completes an experiment only by an item of its kind.
LEMMA LatestLogShows ==
  ASSUME NEW types, NEW S \in SUBSET Observation, LogObservation(types) \subseteq S,
         NEW more \in Seq(S),
         items \in Seq(Item), FromLatestLog(types, more), outcome'.status = "COMPLETED"
  PROVE  \E i \in DOMAIN items', s \in S : items'[i].type = s.type
  <1>1. PICK c : items' = AddAll(items, FromLog(c, types) \o more) /\ Len(items') > Len(items)
    BY DEF FromLatestLog, Done, Raise, StatusOf
  <1>2. FromLog(c, types) \in Seq(S)
    <2> DEFINE L == LogObservation(types)
    <2>1. FromLog(c, types) \in Seq(L) /\ L \subseteq S
      BY LogIsObserved
    <2> HIDE DEF L
    <2> QED
      BY <2>1
  <1>3. FromLog(c, types) \o more \in Seq(S)
    BY <1>2, Joined
  <1>4. Extends(items, items', S)
    BY <1>1, <1>3, AddEachExtends DEF AddAll
  <1> QED
    BY <1>1, <1>4, NewItemsAre

\* What a collector does to all but the evidence.
Moves ==
  /\ phase = "collect" /\ phase' = "exit"
  /\ UNCHANGED <<env, todo, results>>
  /\ acted' = acted \cup {Current.id}
  /\ hist \subseteq hist' /\ ("sms" \in hist' => "sms" \in hist)
  /\ received => received'
  /\ outcome'.status \in EndStatus

LatestKinds == {"NETWORK_OBSERVATION", "ACCESSIBILITY_OBSERVATION"}

LEMMA CollectMoves ==
  ASSUME Collect
  PROVE  Moves /\ (Current.type \notin LatestKinds \/ CollectNetwork \/ CollectAccessibility)
  <1> USE DEF Moves, LatestKinds, Collects, Done, Raise, StatusOf, deviceVars, EndStatus
  <1>1. CASE CollectLaunch
    BY <1>1 DEF CollectLaunch
  <1>2. CASE CollectStartup
    BY <1>2 DEF CollectStartup
  <1>3. CASE CollectPackageState
    BY <1>3 DEF CollectPackageState
  <1>4. CASE SmsNotSent
    <2>1. received => received'
      <3>1. received' = received \/ received' = TRUE
        BY <1>4 DEF SmsNotSent
      <3> QED
        BY <3>1
    <2> QED
      BY <1>4, <2>1 DEF SmsNotSent
  <1>5. CASE CollectSms
    <2>1. received => received'
      BY <1>5, Zenon DEF CollectSms
    <2>2. \E r \in Reply : IF r = "ok" THEN Done("COMPLETED") ELSE Raise(r)
      BY <1>5 DEF CollectSms
    <2>3. phase' = "exit" /\ outcome'.status \in EndStatus
      BY <2>2
    <2>4. /\ phase = "collect" /\ UNCHANGED <<env, todo, results>>
          /\ acted' = acted \cup {Current.id} /\ hist' = hist \cup {"delivered"}
          /\ Current.type = "SYNTHETIC_SMS"
      BY <1>5 DEF CollectSms
    <2> QED
      BY <2>1, <2>3, <2>4
  <1>6. CASE CollectLogcat
    BY <1>6 DEF CollectLogcat
  <1>7. CASE CollectNetwork
    BY <1>7 DEF CollectNetwork, LogCollector, FromLatestLog
  <1>8. CASE CollectAccessibility
    BY <1>8 DEF CollectAccessibility, LogCollector, FromLatestLog
  <1>9. CASE CollectToken
    BY <1>9 DEF CollectToken, LogCollector, FromLatestLog
  <1>10. CASE FilesUnavailable
    BY <1>10 DEF FilesUnavailable
  <1>11. CASE CollectFiles
    BY <1>11 DEF CollectFiles
  <1>12. CASE ScreenshotNotTried
    BY <1>12 DEF ScreenshotNotTried
  <1>13. CASE CollectScreenshot
    <2> HIDE DEF Done, Raise
    <2>1. \E r \in Reply : IF r = "ok" THEN Done("COMPLETED") ELSE Raise(r)
      BY <1>13, Zenon DEF CollectScreenshot
    <2>2. \E kept \in BOOLEAN : hist' = IF kept THEN hist \cup {"rm failed"} ELSE hist
      BY <1>13, Zenon DEF CollectScreenshot
    <2>3. phase' = "exit" /\ outcome'.status \in EndStatus
      BY <2>1 DEF Done, Raise
    <2>4. /\ phase = "collect" /\ UNCHANGED <<env, todo, results, received>>
          /\ acted' = acted \cup {Current.id} /\ Current.type = "UI_SCREENSHOT"
      BY <1>13 DEF CollectScreenshot
    <2>5. received => received'
      BY <2>4
    <2>6. hist \subseteq hist' /\ ("sms" \in hist' => "sms" \in hist)
      BY <2>2
    <2> QED
      BY <2>3, <2>4, <2>5, <2>6
  <1> QED
    BY <1>1, <1>2, <1>3, <1>4, <1>5, <1>6, <1>7, <1>8, <1>9, <1>10, <1>11, <1>12, <1>13
       DEF Collect

\* _collect_network and _collect_accessibility are complete only by an item.
LEMMA NetworkShows ==
  ASSUME items \in Seq(Item), CollectNetwork
  PROVE  Showed(Current.type, outcome'.status, items')
  <1>1. Current.type = "NETWORK_OBSERVATION"
    BY DEF CollectNetwork, Collects
  <1>2. ASSUME outcome'.status = "COMPLETED"
        PROVE  \E i \in DOMAIN items' : items'[i].type \in NetworkType
    <2> DEFINE S == LogObservation(NetworkType)
    <2>1. FromLatestLog(NetworkType, <<>>)
      BY <1>2 DEF CollectNetwork, Done
    <2>2. S \in SUBSET Observation /\ <<>> \in Seq(S) /\ LogObservation(NetworkType) \subseteq S
      BY DEF LogObservation
    <2>3. \A s \in S : s.type \in NetworkType
      BY DEF LogObservation
    <2> HIDE DEF S, NetworkType
    <2>4. \E i \in DOMAIN items', s \in S : items'[i].type = s.type
      BY <1>2, <2>1, <2>2, LatestLogShows
    <2> QED
      BY <2>3, <2>4
  <1> QED
    BY <1>1, <1>2 DEF Showed

LEMMA AccessibilityShows ==
  ASSUME items \in Seq(Item), CollectAccessibility
  PROVE  Showed(Current.type, outcome'.status, items')
  <1>1. Current.type = "ACCESSIBILITY_OBSERVATION"
    BY DEF CollectAccessibility, Collects
  <1>2. ASSUME outcome'.status = "COMPLETED"
        PROVE  \E i \in DOMAIN items' : items'[i].type = "accessibility_behavior"
    <2> DEFINE types == {"accessibility_behavior"}
               S == {o \in Observation : o.type = "accessibility_behavior"}
    <2>1. PICK bound \in BOOLEAN : FromLatestLog(types, IF bound THEN <<DumpItem>> ELSE <<>>)
      BY DEF CollectAccessibility
    <2>2. S \in SUBSET Observation /\ LogObservation(types) \subseteq S
      BY DEF LogObservation
    <2>3. \A s \in S : s.type = "accessibility_behavior"
      OBVIOUS
    <2>4. DumpItem \in S
      <3>1. DumpItem \in Truths({"bound"}, TRUE)
        BY DumpIsGenuine
      <3>2. DumpItem.type = "accessibility_behavior"
        BY DEF DumpItem, Seen
      <3> QED
        BY <3>1, <3>2 DEF Truths
    <2> HIDE DEF S, types
    <2>5. (IF bound THEN <<DumpItem>> ELSE <<>>) \in Seq(S)
      BY <2>4, Joined
    <2>6. \E i \in DOMAIN items', s \in S : items'[i].type = s.type
      BY <1>2, <2>1, <2>2, <2>5, LatestLogShows
    <2> QED
      BY <2>3, <2>6
  <1> QED
    BY <1>1, <1>2 DEF Showed

LEMMA CollectGathers ==
  ASSUME items \in Seq(Item), Collect
  PROVE  Gathers
  <1>1. Moves /\ (Current.type \notin LatestKinds \/ CollectNetwork \/ CollectAccessibility)
    BY CollectMoves
  <1>2. Showed(Current.type, outcome'.status, items')
    <2>1. CASE Current.type \notin LatestKinds
      BY <2>1 DEF LatestKinds, Showed
    <2> QED
      BY <1>1, <2>1, NetworkShows, AccessibilityShows
  <1> QED
    BY <1>1, <1>2, CollectGrows DEF Gathers, Moves

\* What ends an experiment: nothing was seen, or the session's events came in.
LEMMA ConcludeSteps ==
  ASSUME items \in Seq(Item), TodoInv, ResultsInv,
         SkipUninstrumented \/ SessionFails \/ EndExperiment
  PROVE  \E status \in EndStatus : Concludes(status)
  <1> DEFINE T == Truths(hist', received')
  <1>a. Extends(items, items, T)
    BY AddsNothing
  <1>1. CASE SkipUninstrumented
    <2>1. Showed(Current.type, "UNAVAILABLE", items')
      BY DEF Showed
    <2>2. Extends(items, items', T)
      BY <1>1, <1>a DEF SkipUninstrumented
    <2> HIDE DEF T
    <2>3. Concludes("UNAVAILABLE")
      BY <1>1, <2>1, <2>2
         DEF SkipUninstrumented, More, Conclude, Concludes, deviceVars, EndStatus, T
    <2> QED
      BY <2>3 DEF EndStatus
  <1>2. CASE SessionFails
    <2>1. Showed(Current.type, "UNAVAILABLE", items') /\ Showed(Current.type, "FAILED", items')
      BY DEF Showed
    <2>2. Extends(items, items', T)
      BY <1>2, <1>a DEF SessionFails
    <2> HIDE DEF T
    <2>3. Concludes("UNAVAILABLE") \/ Concludes("FAILED")
      BY <1>2, <2>1, <2>2
         DEF SessionFails, More, Conclude, Concludes, EndStatus, T
    <2> QED
      BY <2>3 DEF EndStatus
  <1>3. CASE EndExperiment
    <2> DEFINE status == outcome.status
    <2>1. PICK events \in SUBSET Reported :
            /\ items' = IF outcome.raised THEN items ELSE AddEvents(items, SetToSeq(events))
            /\ hist' = hist \cup (IF outcome.raised THEN {} ELSE events)
      BY <1>3 DEF EndExperiment
    <2>2. received' = received
      BY <1>3 DEF EndExperiment, deviceVars
    <2>3. /\ Extends(items, items', T)
          /\ "sms" \in hist' => "sms" \in hist \/ \E i \in DOMAIN items' : items'[i].type = "sms_access"
      <3>1. CASE outcome.raised
        BY <1>a, <2>1, <3>1
      <3>2. CASE ~outcome.raised
        <4> DEFINE order == SetToSeq(events)
                   new == [n \in DOMAIN order |-> FromEvent(order[n])]
        <4>1. events \in SUBSET Event /\ events \subseteq hist'
              /\ \A e \in events : e \in {"body", "url"} => received'
          BY <2>1, <2>2, <3>2 DEF Reported
        <4>2. order \in Seq(events) /\ \A e \in events : \E n \in 1 .. Len(order) : order[n] = e
          BY <4>1, EventsInOrder
        <4>3. \A e \in events : FromEvent(e) \in T
          BY <4>1, EventIsGenuine
        <4>4. items' = AddEach(items, new, TRUE)
          BY <2>1, <3>2 DEF AddEvents
        <4>5. T \in SUBSET Observation
          BY DEF Truths
        <4> HIDE DEF T, order
        <4>9. \A n \in 1 .. Len(order) : order[n] \in events
          BY <4>2
        <4>10. DOMAIN order = 1 .. Len(order) /\ Len(order) \in Nat
          BY <4>2
        <4>11. \A n \in 1 .. Len(order) : FromEvent(order[n]) \in T
          BY <4>3, <4>9
        <4>6. /\ new \in Seq(T) /\ Len(new) = Len(order) /\ DOMAIN order = 1 .. Len(order)
              /\ \A n \in 1 .. Len(order) : new[n] = FromEvent(order[n])
          BY <4>10, <4>11
        <4> HIDE DEF new
        <4>7. /\ Extends(items, items', T)
              /\ \A n \in 1 .. Len(new) : Shows(items', new[n])
          BY <4>4, <4>5, <4>6, AddEachExtends
        <4>8. ASSUME "sms" \in events PROVE \E i \in DOMAIN items' : items'[i].type = "sms_access"
          <5>1. PICK n \in 1 .. Len(order) : order[n] = "sms"
            BY <4>2, <4>8
          <5>2. Shows(items', FromEvent("sms"))
            BY <4>6, <4>7, <5>1
          <5>3. FromEvent("sms").type = "sms_access"
            BY DEF FromEvent, Seen, TypeOfEvent
          <5>4. items' \in Seq(Item)
            BY <4>7 DEF Extends
          <5> QED
            BY <5>2, <5>3, <5>4 DEF Shows, Same
        <4> QED
          BY <2>1, <3>2, <4>7, <4>8
      <3> QED
        BY <3>1, <3>2
    <2>4. status \in EndStatus /\ Showed(Current.type, status, items) /\ Len(results) < Len(todo)
      BY <1>3 DEF EndExperiment, ResultsInv, TodoInv
    <2>5. Showed(Current.type, status, items')
      <3>1. /\ \A i \in DOMAIN items : i \in DOMAIN items' /\ items'[i] = items[i]
        BY <2>3 DEF Extends
      <3> HIDE DEF T, status
      <3> QED
        BY <2>4, <3>1 DEF Showed
    <2>6. Concludes(status)
      <3> HIDE DEF T
      <3> QED
        BY <1>3, <2>1, <2>2, <2>3, <2>4, <2>5 DEF EndExperiment, Conclude, Concludes, T
    <2> QED
      BY <2>4, <2>6
  <1> QED
    BY <1>1, <1>2, <1>3

LEMMA RunShapes ==
  ASSUME RunInv, RunStep
  PROVE  Quiet \/ Gathers \/ \E status \in EndStatus : Concludes(status)
  <1>1. items \in Seq(Item) /\ TodoInv /\ ResultsInv
    BY DEF RunInv, ItemsInv, Sound
  <1> QED
    BY <1>1, QuietSteps, CollectGathers, ConcludeSteps DEF RunStep

-----------------------------------------------------------------------------
(* Each step keeps each part of the invariant.                             *)

\* The emulator and the budget of faults.
LEMMA CollectKeepsTypes ==
  ASSUME RunTypeInv, Collect
  PROVE  phase' = "exit" /\ app' \in {"stopped", "running", "frozen"} /\ faults' \in 0 .. MaxFaults
  <1> USE RunAssumption DEF RunTypeInv, Collects, Done, Raise, Charge, Reply, deviceVars
  <1>1. CASE CollectLaunch
    BY <1>1 DEF CollectLaunch
  <1>2. CASE CollectStartup
    BY <1>2 DEF CollectStartup
  <1>3. CASE CollectPackageState
    BY <1>3 DEF CollectPackageState
  <1>4. CASE SmsNotSent
    BY <1>4 DEF SmsNotSent
  <1>5. CASE CollectSms
    BY <1>5 DEF CollectSms
  <1>6. CASE CollectLogcat
    BY <1>6 DEF CollectLogcat
  <1>7. CASE CollectNetwork
    BY <1>7 DEF CollectNetwork, LogCollector, FromLatestLog
  <1>8. CASE CollectAccessibility
    BY <1>8 DEF CollectAccessibility, LogCollector, FromLatestLog
  <1>9. CASE CollectToken
    BY <1>9 DEF CollectToken, LogCollector, FromLatestLog
  <1>10. CASE FilesUnavailable
    BY <1>10 DEF FilesUnavailable
  <1>11. CASE CollectFiles
    BY <1>11 DEF CollectFiles, LaunchReply, LaunchEffect
  <1>12. CASE ScreenshotNotTried
    BY <1>12 DEF ScreenshotNotTried, LaunchReply, LaunchEffect
  <1>13. CASE CollectScreenshot
    <2> HIDE DEF Reply, Charge, Done, Raise
    <2>1. \E injected \in BOOLEAN : LaunchEffect("ok", injected)
      BY <1>13, Zenon DEF CollectScreenshot
    <2>2. \E r \in Reply : IF r = "ok" THEN Done("COMPLETED") ELSE Raise(r)
      BY <1>13, Zenon DEF CollectScreenshot
    <2>3. \E r \in Reply, kept \in BOOLEAN :
            /\ kept => faults < MaxFaults - (IF r = "ok" THEN 0 ELSE 1)
            /\ faults' = faults + (IF r = "ok" THEN 0 ELSE 1) + (IF kept THEN 1 ELSE 0)
      BY <1>13, Zenon DEF CollectScreenshot
    <2>4. phase' = "exit"
      BY <2>2 DEF Done, Raise
    <2>5. app' \in {"stopped", "running", "frozen"}
      BY <2>1 DEF LaunchEffect
    <2>6. faults' \in 0 .. MaxFaults
      <3>1. \E k \in {0, 1}, l \in {0, 1} :
              /\ l = 1 => faults < MaxFaults - k
              /\ k = 1 => faults < MaxFaults
              /\ faults' = faults + k + l
        <4>1. PICK r \in Reply, kept \in BOOLEAN :
                /\ kept => faults < MaxFaults - (IF r = "ok" THEN 0 ELSE 1)
                /\ faults' = faults + (IF r = "ok" THEN 0 ELSE 1) + (IF kept THEN 1 ELSE 0)
          BY <2>3
        <4>2. r # "ok" => faults < MaxFaults
          BY <4>1 DEF Reply
        <4> DEFINE k == IF r = "ok" THEN 0 ELSE 1
                   l == IF kept THEN 1 ELSE 0
        <4>3. k \in {0, 1} /\ l \in {0, 1} /\ (k = 1 => faults < MaxFaults)
              /\ (l = 1 => faults < MaxFaults - k) /\ faults' = faults + k + l
          BY <4>1, <4>2
        <4> QED
          BY <4>3
      <3> QED
        BY <3>1
    <2> QED
      BY <2>4, <2>5, <2>6
  <1> QED
    BY <1>1, <1>2, <1>3, <1>4, <1>5, <1>6, <1>7, <1>8, <1>9, <1>10, <1>11, <1>12, <1>13
       DEF Collect

LEMMA RunKeepsTypes ==
  ASSUME RunTypeInv, RunStep
  PROVE  RunTypeInv'
  <1> USE RunAssumption DEF RunTypeInv, Charge, Reply, deviceVars
  <1>1. CASE Preflight
    BY <1>1 DEF Preflight
  <1>2. CASE Install
    <2>1. \E r \in Reply : Charge(r) /\ phase' = IF r = "ok" THEN "next" ELSE "raised"
      BY <1>2, Zenon DEF Install
    <2>2. phase' \in {"next", "raised"} /\ faults' \in 0 .. MaxFaults
      BY <2>1
    <2> QED
      BY <1>2, <2>2 DEF Install
  <1>3. CASE SkipUninstrumented
    BY <1>3 DEF SkipUninstrumented, Conclude
  <1>4. CASE BeginPlain
    BY <1>4 DEF BeginPlain
  <1>5. CASE EnterSession
    BY <1>5 DEF EnterSession
  <1>6. CASE SessionFails
    BY <1>6 DEF SessionFails, Conclude
  <1>7. CASE Collect
    BY <1>7, CollectKeepsTypes
  <1>8. CASE EndExperiment
    BY <1>8 DEF EndExperiment, Conclude
  <1>9. CASE Finish
    BY <1>9 DEF Finish
  <1>10. CASE Uninstall
    <2>1. \E r \in Reply : Charge(r) /\ app' = IF installed' THEN app ELSE "stopped"
      BY <1>10, Zenon DEF Uninstall
    <2>2. phase' = "returned"
      BY <1>10 DEF Uninstall
    <2>3. app' \in {app, "stopped"} /\ faults' \in 0 .. MaxFaults
      BY <2>1
    <2> QED
      BY <2>2, <2>3
  <1> QED
    BY <1>1, <1>2, <1>3, <1>4, <1>5, <1>6, <1>7, <1>8, <1>9, <1>10 DEF RunStep

LEMMA RunKeepsStart ==
  ASSUME RunInv, RunStep
  PROVE  StartInv'
  <1>1. StartInv
    BY DEF RunInv
  <1>2. CASE Quiet
    BY <1>1, <1>2 DEF Quiet, StartInv
  <1>3. CASE Gathers
    BY <1>3 DEF Gathers, StartInv
  <1>4. CASE \E status \in EndStatus : Concludes(status)
    BY <1>4 DEF Concludes, StartInv
  <1> QED
    BY <1>2, <1>3, <1>4, RunShapes

LEMMA RunKeepsItems ==
  ASSUME RunInv, RunStep
  PROVE  ItemsInv'
  <1> DEFINE T == Truths(hist', received')
             SmsItem(list) == \E i \in DOMAIN list : list[i].type = "sms_access"
  <1>1. Sound(items, hist, received) /\ ("sms" \in hist => SmsItem(items)) /\ items \in Seq(Item)
    BY DEF RunInv, ItemsInv, Sound
  <1>2. /\ hist \subseteq hist' /\ (received => received') /\ Extends(items, items', T)
        /\ "sms" \in hist' => "sms" \in hist \/ SmsItem(items')
    <2>1. CASE Quiet
      <3>1. Extends(items, items, T)
        BY <1>1, AddsNothing
      <3> HIDE DEF T
      <3> QED
        BY <2>1, <3>1 DEF Quiet
    <2>2. CASE Gathers
      BY <2>2 DEF Gathers
    <2>3. CASE \E status \in EndStatus : Concludes(status)
      <3>1. PICK status \in EndStatus : Concludes(status)
        BY <2>3
      <3>2. received' = received
        BY <3>1 DEF Concludes
      <3> QED
        BY <3>1, <3>2 DEF Concludes
    <2> QED
      BY <2>1, <2>2, <2>3, RunShapes
  <1>3. Sound(items', hist', received')
    BY <1>1, <1>2, SoundGrows
  <1>4. SmsItem(items) => SmsItem(items')
    <2>1. \A i \in DOMAIN items : i \in DOMAIN items' /\ items'[i] = items[i]
      BY <1>2 DEF Extends
    <2> HIDE DEF T
    <2> QED
      BY <2>1
  <1>5. "sms" \in hist' => SmsItem(items')
    BY <1>1, <1>2, <1>4
  <1> QED
    BY <1>3, <1>5 DEF ItemsInv

LEMMA RunKeepsTodo ==
  ASSUME RunInv, RunStep
  PROVE  TodoInv'
  <1>1. TodoInv /\ results \in Seq(ToSet(results))
    BY DEF RunInv, ResultsInv
  <1>2. CASE Quiet
    <2>1. todo' = todo /\ results' = results
      BY <1>2 DEF Quiet
    <2>2. /\ phase' \in {"collect", "exit"} => Len(results) < Len(todo)
          /\ phase' \in {"uninstall", "returned"} => Len(results) = Len(todo)
      BY <1>1, <1>2 DEF Quiet, TodoInv
    <2> QED
      BY <1>1, <2>1, <2>2 DEF TodoInv
  <1>3. CASE Gathers
    BY <1>1, <1>3 DEF Gathers, TodoInv
  <1>4. CASE \E status \in EndStatus : Concludes(status)
    <2>1. PICK status \in EndStatus : Concludes(status)
      BY <1>4
    <2> DEFINE r == Result(status, Len(items'))
    <2>2. /\ todo' = todo /\ phase' = "next" /\ Len(results) < Len(todo)
          /\ results' = Append(results, r)
      BY <2>1 DEF Concludes
    <2> HIDE DEF r
    <2>3. Len(results') = Len(results) + 1 /\ Len(results) \in Nat
      BY <1>1, <2>2
    <2>4. Len(todo) \in Nat
      BY <1>1 DEF TodoInv
    <2>5. Len(results') <= Len(todo)
      BY <2>2, <2>3, <2>4
    <2> QED
      BY <1>1, <2>2, <2>5 DEF TodoInv
  <1> QED
    BY <1>2, <1>3, <1>4, RunShapes

LEMMA ShowedStays ==
  ASSUME NEW S, NEW old \in Seq(Item), NEW all, Extends(old, all, S), NEW type, NEW status,
         Showed(type, status, old)
  PROVE  Showed(type, status, all)
  <1>1. \A i \in DOMAIN old : i \in DOMAIN all /\ all[i] = old[i]
    BY DEF Extends
  <1> QED
    BY <1>1 DEF Showed

\* Evidence only grows.
LEMMA RunExtends ==
  ASSUME RunInv, RunStep
  PROVE  items \in Seq(Item) /\ Extends(items, items', Truths(hist', received'))
  <1>1. items \in Seq(Item)
    BY DEF RunInv, ItemsInv, Sound
  <1>2. Extends(items, items, Truths(hist', received'))
    BY <1>1, AddsNothing
  <1>3. CASE Quiet
    BY <1>1, <1>2, <1>3 DEF Quiet
  <1>4. CASE Gathers
    BY <1>1, <1>4 DEF Gathers
  <1>5. CASE \E status \in EndStatus : Concludes(status)
    BY <1>1, <1>5 DEF Concludes
  <1> QED
    BY <1>3, <1>4, <1>5, RunShapes

LEMMA RunKeepsResults ==
  ASSUME RunInv, RunStep
  PROVE  ResultsInv'
  <1> DEFINE Tells(list, k, all) ==
               /\ list[k].id = todo[k].id /\ list[k].type = todo[k].type
               /\ list[k].status \in EndStatus
               /\ Showed(list[k].type, list[k].status, all)
             T == Truths(hist', received')
  <1>1. /\ results \in Seq(ToSet(results)) /\ (\A k \in DOMAIN results : Tells(results, k, items))
        /\ items \in Seq(Item) /\ Extends(items, items', T)
    BY RunExtends DEF RunInv, ResultsInv
  <1> HIDE DEF T
  <1>2. \A k \in DOMAIN results : Tells(results, k, items')
    BY <1>1, ShowedStays
  <1> HIDE DEF Tells
  <1>3. CASE Quiet
    <2>1. todo' = todo /\ results' = results /\ phase' # "exit"
      BY <1>3 DEF Quiet
    <2> QED
      BY <1>1, <1>2, <2>1 DEF ResultsInv, Tells
  <1>4. CASE Gathers
    <2>1. todo' = todo /\ results' = results /\ Current' = Current
      BY <1>4 DEF Gathers, Current
    <2>2. outcome'.status \in EndStatus /\ Showed((Current.type)', outcome'.status, items')
      BY <1>4, <2>1 DEF Gathers
    <2> QED
      BY <1>1, <1>2, <2>1, <2>2 DEF ResultsInv, Tells
  <1>5. CASE \E status \in EndStatus : Concludes(status)
    <2>1. PICK status \in EndStatus : Concludes(status)
      BY <1>5
    <2> DEFINE r == Result(status, Len(items'))
    <2>2. /\ r.id = Current.id /\ r.type = Current.type /\ r.status = status
      BY DEF Result
    <2>3. /\ todo' = todo /\ phase' = "next" /\ results' = Append(results, r)
          /\ Showed(Current.type, status, items')
      BY <2>1 DEF Concludes
    <2> HIDE DEF r
    <2> DEFINE n == Len(results) + 1
    <2>4. /\ n \in Nat /\ DOMAIN results' = 1 .. n /\ results'[n] = r
          /\ \A k \in 1 .. n : k = n \/ (k \in DOMAIN results /\ results'[k] = results[k])
      BY <1>1, <2>3
    <2>5. results' \in Seq(ToSet(results'))
      <3>1. \A k \in 1 .. n : results'[k] \in ToSet(results')
        BY <2>4 DEF ToSet
      <3>2. Len(results') = n /\ results' \in Seq(ToSet(results) \cup {r})
        BY <1>1, <2>3
      <3> HIDE DEF n
      <3> QED
        BY <2>4, <3>1, <3>2
    <2>6. Current = todo[n]
      BY DEF Current
    <2> HIDE DEF n
    <2>7. Tells(results', n, items')
      BY <2>2, <2>3, <2>4, <2>6 DEF Tells
    <2>8. \A k \in 1 .. n : Tells(results', k, items')
      BY <1>2, <2>4, <2>7 DEF Tells
    <2> QED
      BY <2>3, <2>4, <2>5, <2>8 DEF ResultsInv, Tells
  <1> QED
    BY <1>3, <1>4, <1>5, RunShapes

\* An experiment is given the items since the last one.
LEMMA RunKeepsShares ==
  ASSUME RunInv, RunStep, ItemsInv'
  PROVE  SharesInv'
  <1>1. /\ SharesInv /\ results \in Seq(ToSet(results)) /\ items \in Seq(Item)
        /\ items' \in Seq(Item) /\ Len(items) <= Len(items')
    BY RunExtends DEF RunInv, ResultsInv, Extends
  <1>2. CASE Quiet
    <2>1. results' = results /\ items' = items /\ Counted' = Counted
      BY <1>2 DEF Quiet, Counted
    <2>2. phase' \notin {"collect", "exit"} => phase \notin {"collect", "exit"}
      BY <1>2 DEF Quiet
    <2> QED
      BY <1>1, <2>1, <2>2 DEF SharesInv
  <1>3. CASE Gathers
    <2>1. results' = results /\ Counted' = Counted /\ phase' = "exit"
      BY <1>3 DEF Gathers, Counted
    <2>2. Counted \in 0 .. Len(items')
      BY <1>1 DEF SharesInv
    <2> QED
      BY <1>1, <2>1, <2>2 DEF SharesInv
  <1>4. CASE \E status \in EndStatus : Concludes(status)
    <2>1. PICK status \in EndStatus : Concludes(status)
      BY <1>4
    <2> DEFINE r == Result(status, Len(items'))
               m == Len(items')
    <2>2. /\ r.upto = m /\ r.ids = {items'[i].id : i \in Counted + 1 .. m}
      BY DEF Result
    <2>3. phase' = "next" /\ results' = Append(results, r)
      BY <2>1 DEF Concludes
    <2> HIDE DEF r
    <2> DEFINE n == Len(results) + 1
    <2>4. /\ n \in Nat /\ DOMAIN results' = 1 .. n /\ results'[n] = r /\ Len(results') = n
          /\ n \notin DOMAIN results
          /\ \A k \in 1 .. n : k = n \/ (k \in DOMAIN results /\ results'[k] = results[k])
      BY <1>1, <2>3
    <2>5. results' # <<>>
      BY <2>4
    <2> HIDE DEF n
    <2>6. Counted' = m
      BY <2>2, <2>4, <2>5 DEF Counted
    <2>7. m \in Nat /\ Counted \in 0 .. m /\ DOMAIN items' = 1 .. m
      BY <1>1 DEF SharesInv
    <2>8. \A i \in 1 .. m : items'[i].id = i
      BY <2>7 DEF ItemsInv, Sound
    <2>9. r.ids = Counted + 1 .. m
      BY <2>2, <2>7, <2>8
    <2> DEFINE Old == UNION {results[k].ids : k \in DOMAIN results}
               New == UNION {results'[k].ids : k \in DOMAIN results'}
    <2>10. Old = 1 .. Counted
      BY <1>1 DEF SharesInv
    <2>11. \A k \in DOMAIN results : results[k].ids \subseteq 1 .. Counted
      BY <2>10
    <2>12. New = 1 .. m
      <3>1. New = Old \cup r.ids
        <4>1. \A k \in DOMAIN results : k \in 1 .. n /\ results'[k] = results[k]
          BY <1>1, <2>3, <2>4 DEF n
        <4>2. \A x \in New : x \in Old \/ x \in r.ids
          BY <2>4
        <4>3. \A x \in Old : x \in New
          BY <2>4, <4>1
        <4>4. n \in 1 .. n
          BY <2>4 DEF n
        <4>5. \A x \in r.ids : x \in New
          BY <2>4, <4>4
        <4> HIDE DEF New, Old
        <4> QED
          BY <4>2, <4>3, <4>5
      <3> HIDE DEF New, Old
      <3> QED
        BY <2>7, <2>9, <2>10, <3>1
    <2>13. \A j, k \in DOMAIN results' : j # k => results'[j].ids \cap results'[k].ids = {}
      <3> SUFFICES ASSUME NEW j \in 1 .. n, NEW k \in 1 .. n, j # k
                   PROVE  results'[j].ids \cap results'[k].ids = {}
        BY <2>4
      <3>1. \A x \in 1 .. Counted : x \notin Counted + 1 .. m
        BY <2>7
      <3>2. CASE j \in DOMAIN results /\ k \in DOMAIN results
        <4>1. results'[j] = results[j] /\ results'[k] = results[k]
          BY <2>4, <3>2
        <4> QED
          BY <1>1, <3>2, <4>1 DEF SharesInv
      <3>3. CASE j = n /\ k \in DOMAIN results
        <4>1. results'[j].ids = Counted + 1 .. m /\ results'[k].ids \subseteq 1 .. Counted
          BY <2>4, <2>9, <2>11, <3>3
        <4> QED
          BY <3>1, <4>1
      <3>4. CASE k = n /\ j \in DOMAIN results
        <4>1. results'[k].ids = Counted + 1 .. m /\ results'[j].ids \subseteq 1 .. Counted
          BY <2>4, <2>9, <2>11, <3>4
        <4> QED
          BY <3>1, <4>1
      <3> QED
        BY <2>4, <3>2, <3>3, <3>4
    <2> HIDE DEF m
    <2>14. m = Len(items')
      BY DEF m
    <2>15. Counted' \in 0 .. Len(items') /\ Counted' = Len(items')
      BY <2>6, <2>7, <2>14
    <2>16. UNION {results'[k].ids : k \in DOMAIN results'} = 1 .. Counted'
      BY <2>6, <2>12
    <2> QED
      BY <2>13, <2>15, <2>16 DEF SharesInv
  <1> QED
    BY <1>2, <1>3, <1>4, RunShapes

LEMMA RunKeepsActed ==
  ASSUME RunInv, RunStep
  PROVE  ActedInv'
  <1> DEFINE May == {todo[k].id : k \in {j \in DOMAIN todo : MayAct(j)}}
  <1>1. /\ acted \subseteq May /\ (phase = "collect" => MayAct(Len(results) + 1))
        /\ todo \in Seq(ToSet(todo)) /\ results \in Seq(ToSet(results))
        /\ phase = "collect" => Len(results) < Len(todo)
    BY DEF RunInv, ActedInv, TodoInv, ResultsInv
  <1>2. todo' = todo /\ env' = env
    BY RunShapes DEF Quiet, Gathers, Concludes
  <1>3. \A k : MayAct(k)' <=> MayAct(k)
    BY <1>2 DEF MayAct
  <1>4. May' = May
    BY <1>2, <1>3
  <1>5. CASE Quiet
    <2>1. acted' = acted /\ results' = results /\ (phase' = "collect" => MayAct(Len(results) + 1))
      BY <1>5 DEF Quiet
    <2>2. acted' \subseteq May'
      BY <1>1, <1>4, <2>1
    <2>3. phase' = "collect" => (MayAct(Len(results) + 1))'
      BY <1>2, <2>1 DEF MayAct
    <2> QED
      BY <2>2, <2>3 DEF ActedInv
  <1>6. CASE Gathers
    <2>1. acted' = acted \cup {Current.id} /\ phase' = "exit" /\ phase = "collect"
      BY <1>6 DEF Gathers
    <2>2. Len(results) + 1 \in DOMAIN todo
      BY <1>1, <2>1
    <2>3. Current.id \in May
      BY <1>1, <2>1, <2>2 DEF Current
    <2> HIDE DEF May
    <2>4. acted' \subseteq May'
      BY <1>1, <1>4, <2>1, <2>3
    <2> QED
      BY <2>1, <2>4 DEF ActedInv, May
  <1>7. CASE \E status \in EndStatus : Concludes(status)
    <2>1. acted' = acted /\ phase' = "next"
      BY <1>7 DEF Concludes
    <2> QED
      BY <1>1, <1>4, <2>1 DEF ActedInv
  <1> QED
    BY <1>5, <1>6, <1>7, RunShapes

\* A run keeps its invariant.
LEMMA RunKeepsInv ==
  ASSUME RunInv, RunStep
  PROVE  RunInv'
  <1>1. ItemsInv'
    BY RunKeepsItems
  <1>2. RunTypeInv'
    BY RunKeepsTypes DEF RunInv
  <1> QED
    BY <1>1, <1>2, RunKeepsStart, RunKeepsTodo, RunKeepsResults, RunKeepsShares, RunKeepsActed
       DEF RunInv

=============================================================================
