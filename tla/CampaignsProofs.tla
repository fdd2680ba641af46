-------------------------- MODULE CampaignsProofs --------------------------
(***************************************************************************)
(* Proofs about Campaigns and Similarity, for any samples, fingerprints,   *)
(* processes and numbers of campaigns.  What concerns one transaction on   *)
(* its own holds on both backends; that campaigns hang together and lose   *)
(* nothing is proved where transactions are serial (Isolated), and         *)
(* CampaignsMerged shows that it fails where they are not.                 *)
(***************************************************************************)
EXTENDS Campaigns, FiniteSetTheorems, WellFoundedInduction, TLAPS

-----------------------------------------------------------------------------
(* Similarity.                                                             *)

\* A fingerprint has finitely many things of each kind to compare.
LEMMA Counts ==
  ASSUME NEW f, NEW g, NEW part, IsFiniteSet(f[part]), IsFiniteSet(g[part])
  PROVE  /\ Common(f, g, part) \in Nat
         /\ Whole(f, g, part) \in Nat \ {0}
         /\ Common(f, g, part) <= Whole(f, g, part)
         /\ Common(f, g, part) = Common(g, f, part)
         /\ Whole(f, g, part) = Whole(g, f, part)
  <1>1. IsFiniteSet(f[part] \cup g[part]) /\ IsFiniteSet(f[part] \cap g[part])
    BY FS_Union, FS_Intersection
  <1>2. /\ Common(f, g, part) \in Nat /\ Size(f, g, part) \in Nat
        /\ Common(f, g, part) <= Size(f, g, part)
    <2>1. f[part] \cap g[part] \in SUBSET (f[part] \cup g[part])
      OBVIOUS
    <2> QED
      BY <1>1, <2>1, FS_CardinalityType, FS_Subset DEF Common, Size
  <1>3. f[part] \cup g[part] = g[part] \cup f[part] /\ f[part] \cap g[part] = g[part] \cap f[part]
    OBVIOUS
  <1>4. Size(f, g, part) = Size(g, f, part) /\ Common(f, g, part) = Common(g, f, part)
    BY <1>3 DEF Size, Common
  <1>5. \A n \in Nat : If(n = 0, 1) + n \in Nat \ {0} /\ n <= If(n = 0, 1) + n
    BY DEF If
  <1>6. /\ Whole(f, g, part) \in Nat \ {0}
        /\ Size(f, g, part) <= Whole(f, g, part)
    BY <1>2, <1>5 DEF Whole
  <1>7. Whole(f, g, part) = Whole(g, f, part)
    BY <1>4 DEF Whole
  <1> QED
    BY <1>2, <1>4, <1>6, <1>7

\* Fingerprints that an analysis may extract are finite in every part.
Finite(f) == \A part \in {"signer", "firebase", "payload", "dex", "behavior", "infra"} :
               IsFiniteSet(f[part])

\* What is not an anchor adds up to 30 percent at most, below the 45 that found a
\* campaign.
LEMMA StrongIsAnchored ==
  ASSUME NEW f, NEW g, Finite(f), Finite(g), Strong(f, g)
  PROVE  Anchored(f, g)
  <1> DEFINE d == Whole(f, g, "dex")
             b == Whole(f, g, "behavior")
             i == Whole(f, g, "infra")
             x == Common(f, g, "dex")
             y == Common(f, g, "behavior")
             z == Common(f, g, "infra")
             a == If(Shares(f, g, "signer"), 25) + If(Shares(f, g, "firebase"), 25)
                    + If(Shares(f, g, "payload"), 20)
  <1>1. /\ d \in Nat \ {0} /\ b \in Nat \ {0} /\ i \in Nat \ {0}
        /\ x \in Nat /\ y \in Nat /\ z \in Nat /\ x <= d /\ y <= b /\ z <= i
    BY Counts DEF Finite
  <1>2. a * d * b * i + 15 * x * b * i + 10 * y * d * i + 5 * z * d * b >= 45 * d * b * i
    BY DEF Strong, Overall
  <1>3. ASSUME ~Shares(f, g, "signer"), ~Shares(f, g, "firebase"), ~Shares(f, g, "payload")
        PROVE  a = 0
    BY <1>3 DEF If
  <1> HIDE DEF a, d, b, i, x, y, z
  <1>4. \A m, n, k \in Nat : m <= n => m * k <= n * k
    OBVIOUS
  <1>5. ASSUME a = 0 PROVE FALSE
    <2> DEFINE bi == b * i
               di == d * i
               db == d * b
               all == d * bi
    <2>1. bi \in Nat /\ di \in Nat /\ db \in Nat /\ bi > 0
      BY <1>1
    <2>2. all \in Nat /\ all > 0
      BY <1>1, <2>1
    <2>3. b * di = all /\ i * db = all /\ d * b * i = all
      BY <1>1
    <2>4. x * bi <= all /\ y * di <= all /\ z * db <= all
      BY <1>1, <1>4, <2>1, <2>3
    <2>5. /\ 15 * x * b * i = 15 * (x * bi) /\ 10 * y * d * i = 10 * (y * di)
          /\ 5 * z * d * b = 5 * (z * db) /\ 45 * d * b * i = 45 * all
          /\ a * d * b * i = 0
      BY <1>1, <1>5
    <2>6. x * bi \in Nat /\ y * di \in Nat /\ z * db \in Nat
      BY <1>1, <2>1
    <2>7. 15 * (x * bi) + 10 * (y * di) + 5 * (z * db) >= 45 * all
      <3> HIDE DEF bi, di, db, all
      <3> QED
        BY <1>2, <2>2, <2>5, <2>6
    <2> HIDE DEF bi, di, db, all
    <2>8. \A p, q, r, t \in Nat : p <= t /\ q <= t /\ r <= t /\ t > 0 =>
            ~(15 * p + 10 * q + 5 * r >= 45 * t)
      OBVIOUS
    <2> QED
      BY ONLY <2>2, <2>4, <2>6, <2>7, <2>8
  <1> QED
    BY <1>3, <1>5 DEF Anchored

-----------------------------------------------------------------------------
(* Types, on both backends.                                                *)

Tx == [pc : {"idle", "compare", "decide", "commit"}, sample : Sample \cup {NULL},
       fp : Fingerprint \cup {NULL}, hard : SUBSET Sample, strong : SUBSET Sample,
       linked : SUBSET Sample, target : 0 .. MaxCampaign, merged : SUBSET Attribute,
       joins : SUBSET Sample]

Analysed == {s \in Sample : corpus[s] # NULL}

Tables ==
  /\ corpus \in [Sample -> Fingerprint \cup {NULL}]
  /\ DOMAIN shared \subseteq 1 .. MaxCampaign
  /\ \A c \in DOMAIN shared : shared[c] \subseteq Attribute
  /\ members \subseteq (DOMAIN shared) \X Analysed
  /\ links \subseteq SUBSET Sample

\* A transaction refers to samples that have a fingerprint, or have one when it
\* commits, and puts nobody into no campaign.
Refers(t) ==
  /\ t.pc # "idle" => t.sample \in Sample /\ t.fp \in Fingerprint
  /\ t.strong \subseteq Analysed
  /\ t.joins \subseteq Analysed \cup {t.sample}
  /\ t.target = 0 \/ t.pc # "commit" => t.joins = {}

TypeInv ==
  /\ Tables
  /\ tx \in [Process -> Tx]
  /\ \A p \in Process : Refers(tx[p])

\* A set of numbers that is bounded has a largest one.
LEMMA LargestExists ==
  ASSUME NEW S, S \subseteq 1 .. MaxCampaign, S # {}, CampaignAssumption
  PROVE  \E n \in S : \A c \in S : c <= n
  <1> DEFINE T == {MaxCampaign - c : c \in S}
  <1>1. T \subseteq Nat /\ T # {}
    <2>1. \A c \in S : c \in Nat /\ MaxCampaign - c \in Nat
      BY DEF CampaignAssumption
    <2>2. \E c \in S : TRUE
      OBVIOUS
    <2> QED
      BY <2>1, <2>2
  <1>2. PICK least \in T : \A u \in T : <<u, least>> \notin OpToRel(<, Nat)
    <2> HIDE DEF T
    <2> QED
      BY <1>1, NatLessThanWellFounded, WFMin
  <1>3. PICK n \in S : least = MaxCampaign - n
    BY <1>2
  <1>4. ASSUME NEW c \in S PROVE c <= n
    <2>1. MaxCampaign - c \in T /\ MaxCampaign - c \in Nat /\ least \in Nat
      BY <1>1, <1>2
    <2>2. ~(MaxCampaign - c < least)
      BY <1>2, <2>1 DEF OpToRel
    <2> QED
      BY <1>3, <2>2 DEF CampaignAssumption
  <1> QED
    BY <1>4

\* The next number is not used.
LEMMA NextIsNew ==
  ASSUME Tables, CampaignAssumption
  PROVE  NextId \in Nat \ {0} /\ NextId \notin DOMAIN shared
  <1>1. CASE DOMAIN shared = {}
    BY <1>1 DEF NextId
  <1>2. CASE DOMAIN shared # {}
    <2> DEFINE n == CHOOSE n \in DOMAIN shared : \A c \in DOMAIN shared : c <= n
    <2>1. n \in DOMAIN shared /\ \A c \in DOMAIN shared : c <= n
      BY <1>2, LargestExists DEF Tables
    <2>2. n \in Nat /\ NextId = 1 + n
      BY <1>2, <2>1 DEF Tables, NextId
    <2> HIDE DEF n
    <2>3. 1 + n \in Nat \ {0} /\ ~(1 + n <= n)
      BY <2>2
    <2> QED
      BY <2>1, <2>2, <2>3
  <1> QED
    BY <1>1, <1>2

LEMMA TypeStart ==
  ASSUME CampaignAssumption, Init PROVE TypeInv
  <1>1. Tables
    BY DEF Init, Tables, Analysed
  <1>2. NoTx \in Tx /\ Refers(NoTx)
    BY DEF NoTx, Tx, Refers, CampaignAssumption
  <1> HIDE DEF NoTx
  <1> QED
    BY <1>1, <1>2 DEF Init, TypeInv

\* A step that writes no table and replaces one transaction.
LEMMA LocalTypes ==
  ASSUME TypeInv, NEW p \in Process, NEW t \in Tx, Refers(t),
         tx' = [tx EXCEPT ![p] = t], UNCHANGED <<corpus, shared, members, links>>
  PROVE  TypeInv'
  <1>1. Tables' /\ Analysed' = Analysed
    BY DEF TypeInv, Tables, Analysed
  <1>2. ASSUME NEW q \in Process PROVE Refers(tx[q])'
    <2>1. tx'[q] = IF q = p THEN t ELSE tx[q]
      BY DEF TypeInv
    <2> QED
      BY <1>1, <2>1 DEF TypeInv, Refers
  <1> QED
    BY <1>1, <1>2 DEF TypeInv

LEMMA BeginTypes ==
  ASSUME TypeInv, NEW p \in Process, Begin(p) PROVE TypeInv'
  <1>1. PICK s \in Sample, f \in Fingerprint :
          tx' = [tx EXCEPT ![p] = [tx[p] EXCEPT !.pc = "compare", !.sample = s, !.fp = f]]
    BY DEF Begin
  <1> DEFINE t == [tx[p] EXCEPT !.pc = "compare", !.sample = s, !.fp = f]
  <1>2. tx[p] \in Tx /\ Refers(tx[p])
    BY DEF TypeInv
  <1>3. t \in Tx
    BY <1>2 DEF Tx
  <1>4. Refers(t)
    <2>1. /\ t.pc = "compare" /\ t.sample = s /\ t.fp = f
          /\ t.strong = tx[p].strong /\ t.joins = tx[p].joins /\ t.target = tx[p].target
      BY <1>2 DEF Tx
    <2>2. tx[p].pc = "idle"
      BY DEF Begin
    <2> HIDE DEF t
    <2> QED
      BY <1>2, <2>1, <2>2 DEF Refers
  <1> HIDE DEF t
  <1> QED
    BY <1>1, <1>3, <1>4, LocalTypes DEF Begin, t

LEMMA CompareTypes ==
  ASSUME TypeInv, NEW p \in Process, Compare(p) PROVE TypeInv'
  <1> DEFINE hard == {s \in Known(p) : HardLinked(tx[p].fp, corpus[s])}
             strong == {s \in Known(p) : Strong(tx[p].fp, corpus[s])}
             linked == {s \in Known(p) : Anchored(tx[p].fp, corpus[s])}
             t == [tx[p] EXCEPT !.pc = "decide", !.hard = hard, !.strong = strong,
                                !.linked = linked]
  <1>1. tx[p] \in Tx /\ Refers(tx[p])
    BY DEF TypeInv
  <1>2. tx' = [tx EXCEPT ![p] = t]
    BY DEF Compare
  <1>3. Known(p) \subseteq Analysed
    BY DEF Known, Analysed
  <1>4. hard \subseteq Analysed /\ strong \subseteq Analysed /\ linked \subseteq Analysed
    BY <1>3
  <1> HIDE DEF hard, strong, linked
  <1>5. t \in Tx
    BY <1>1, <1>4 DEF Tx, Analysed
  <1>6. Refers(t)
    <2>1. /\ t.pc = "decide" /\ t.sample = tx[p].sample /\ t.fp = tx[p].fp
          /\ t.strong = strong /\ t.joins = tx[p].joins /\ t.target = tx[p].target
      BY <1>1 DEF Tx
    <2>2. tx[p].pc = "compare"
      BY DEF Compare
    <2> HIDE DEF t
    <2> QED
      BY <1>1, <1>4, <2>1, <2>2 DEF Refers
  <1> HIDE DEF t
  <1> QED
    BY <1>2, <1>5, <1>6, LocalTypes DEF Compare

\* A decision: the campaign, what its columns will be and who joins it.
LEMMA DecisionTypes ==
  ASSUME TypeInv, NEW p \in Process, tx[p].pc = "decide",
         NEW c \in 1 .. MaxCampaign, NEW m \in SUBSET Attribute, NEW j \in SUBSET Sample,
         j \subseteq Analysed \cup {tx[p].sample}, CampaignAssumption,
         tx' = [tx EXCEPT ![p] = [@ EXCEPT !.pc = "commit", !.target = c,
                                           !.merged = m, !.joins = j]],
         UNCHANGED <<corpus, shared, members, links>>
  PROVE  TypeInv'
  <1> DEFINE t == [tx[p] EXCEPT !.pc = "commit", !.target = c, !.merged = m, !.joins = j]
  <1>1. tx[p] \in Tx /\ Refers(tx[p]) /\ tx' = [tx EXCEPT ![p] = t]
    BY DEF TypeInv
  <1>2. t \in Tx
    <2>1. c \in 0 .. MaxCampaign
      BY DEF CampaignAssumption
    <2> QED
      BY <1>1, <2>1 DEF Tx
  <1>3. Refers(t)
    <2>1. /\ t.pc = "commit" /\ t.sample = tx[p].sample /\ t.fp = tx[p].fp
          /\ t.strong = tx[p].strong /\ t.joins = j /\ t.target = c
      BY <1>1 DEF Tx
    <2>2. c # 0
      OBVIOUS
    <2> HIDE DEF t
    <2> QED
      BY <1>1, <2>1, <2>2 DEF Refers
  <1> HIDE DEF t
  <1> QED
    BY <1>1, <1>2, <1>3, LocalTypes

LEMMA Contributes ==
  ASSUME NEW f \in Fingerprint PROVE Contribution(f) \subseteq Attribute
  BY DEF Attribute

LEMMA JoinTypes ==
  ASSUME TypeInv, NEW p \in Process, Join(p), CampaignAssumption PROVE TypeInv'
  <1>1. PICK c \in Targets(p) :
          tx' = [tx EXCEPT ![p] = [@ EXCEPT !.pc = "commit", !.target = c,
                                            !.merged = Enriched(c, tx[p].fp),
                                            !.joins = {tx[p].sample}]]
    BY DEF Join
  <1>2. c \in DOMAIN shared
    BY DEF Targets, CampaignsOf
  <1>3. tx[p].sample \in Sample /\ tx[p].fp \in Fingerprint /\ tx[p].pc = "decide"
    BY DEF TypeInv, Refers, Join
  <1>4. Enriched(c, tx[p].fp) \in SUBSET Attribute /\ c \in 1 .. MaxCampaign
    BY <1>2, <1>3, Contributes DEF TypeInv, Tables, Enriched
  <1>5. UNCHANGED <<corpus, shared, members, links>>
    BY DEF Join
  <1> DEFINE m == Enriched(c, tx[p].fp)
             j == {tx[p].sample}
  <1>6. j \in SUBSET Sample /\ j \subseteq Analysed \cup {tx[p].sample}
    BY <1>3
  <1>7. m \in SUBSET Attribute
    BY <1>4
  <1>8. tx' = [tx EXCEPT ![p] = [@ EXCEPT !.pc = "commit", !.target = c,
                                          !.merged = m, !.joins = j]]
    BY <1>1
  <1> HIDE DEF m, j
  <1> QED
    BY <1>3, <1>4, <1>5, <1>6, <1>7, <1>8, DecisionTypes

LEMMA FoundTypes ==
  ASSUME TypeInv, NEW p \in Process, Found(p), CampaignAssumption PROVE TypeInv'
  <1> DEFINE m == Contribution(tx[p].fp)
             j == {tx[p].sample} \cup tx[p].strong
             c == NextId
  <1>1. tx[p].sample \in Sample /\ tx[p].fp \in Fingerprint /\ tx[p].pc = "decide"
    BY DEF TypeInv, Refers, Found
  <1>2. j \in SUBSET Sample /\ j \subseteq Analysed \cup {tx[p].sample}
    BY <1>1 DEF TypeInv, Refers, Analysed
  <1>3. m \in SUBSET Attribute
    BY <1>1, Contributes
  <1>4. c \in 1 .. MaxCampaign
    BY NextIsNew DEF TypeInv, Found, CampaignAssumption
  <1>5. tx' = [tx EXCEPT ![p] = [@ EXCEPT !.pc = "commit", !.target = c,
                                          !.merged = m, !.joins = j]]
    BY DEF Found
  <1>6. UNCHANGED <<corpus, shared, members, links>>
    BY DEF Found
  <1> HIDE DEF m, j, c
  <1> QED
    BY <1>1, <1>2, <1>3, <1>4, <1>5, <1>6, DecisionTypes

LEMMA PassTypes ==
  ASSUME TypeInv, NEW p \in Process, Pass(p) PROVE TypeInv'
  <1> DEFINE t == [tx[p] EXCEPT !.pc = "commit"]
  <1>1. tx[p] \in Tx /\ Refers(tx[p]) /\ tx' = [tx EXCEPT ![p] = t]
    BY DEF TypeInv, Pass
  <1>2. t \in Tx
    BY <1>1 DEF Tx
  <1>3. Refers(t)
    <2>1. /\ t.pc = "commit" /\ t.sample = tx[p].sample /\ t.fp = tx[p].fp
          /\ t.strong = tx[p].strong /\ t.joins = tx[p].joins /\ t.target = tx[p].target
      BY <1>1 DEF Tx
    <2>2. tx[p].pc = "decide"
      BY DEF Pass
    <2> HIDE DEF t
    <2> QED
      BY <1>1, <2>1, <2>2 DEF Refers
  <1> HIDE DEF t
  <1> QED
    BY <1>1, <1>2, <1>3, LocalTypes DEF Pass

LEMMA EmptyTx == CampaignAssumption => NoTx \in Tx /\ Refers(NoTx)
  BY DEF NoTx, Tx, Refers, CampaignAssumption

LEMMA RollbackTypes ==
  ASSUME TypeInv, NEW p \in Process, Rollback(p), CampaignAssumption PROVE TypeInv'
  <1>1. tx' = [tx EXCEPT ![p] = NoTx] /\ UNCHANGED <<corpus, shared, members, links>>
    BY DEF Rollback
  <1> HIDE DEF NoTx
  <1> QED
    BY <1>1, EmptyTx, LocalTypes

\* What a commit writes.
LEMMA CommitTables ==
  ASSUME TypeInv, NEW p \in Process, Commit(p), CampaignAssumption
  PROVE  Tables' /\ Analysed \cup {tx[p].sample} = Analysed'
  <1> DEFINE t == tx[p]
             c == t.target
  <1>1. /\ t \in Tx /\ Refers(t) /\ t.pc = "commit"
        /\ t.sample \in Sample /\ t.fp \in Fingerprint /\ c \in 0 .. MaxCampaign
        /\ t.joins \subseteq Analysed \cup {t.sample}
        /\ t.merged \subseteq Attribute /\ t.linked \subseteq Sample
        /\ c = 0 => t.joins = {}
    BY DEF TypeInv, Refers, Commit, Tx
  <1>2. /\ corpus' = [corpus EXCEPT ![t.sample] = t.fp]
        /\ shared' = IF c = 0 THEN shared
                     ELSE [i \in DOMAIN shared \cup {c} |-> IF i = c THEN t.merged ELSE shared[i]]
        /\ members' = members \cup ({c} \X t.joins)
        /\ links' = links \cup {{t.sample, s} : s \in t.linked}
    BY DEF Commit
  <1>3. corpus \in [Sample -> Fingerprint \cup {NULL}] /\ NULL \notin Fingerprint
    BY DEF TypeInv, Tables, CampaignAssumption
  <1> HIDE DEF t, c
  <1>4. corpus' \in [Sample -> Fingerprint \cup {NULL}]
    BY <1>1, <1>2, <1>3
  <1>5. Analysed \cup {t.sample} = Analysed'
    BY <1>1, <1>2, <1>3 DEF Analysed
  <1>6. /\ DOMAIN shared' \subseteq 1 .. MaxCampaign
        /\ DOMAIN shared' = IF c = 0 THEN DOMAIN shared ELSE DOMAIN shared \cup {c}
    BY <1>1, <1>2 DEF TypeInv, Tables, CampaignAssumption
  <1>7. \A i \in DOMAIN shared' : shared'[i] \subseteq Attribute
    BY <1>1, <1>2, <1>6 DEF TypeInv, Tables
  <1>8. members' \subseteq (DOMAIN shared') \X Analysed'
    <2>1. members \subseteq (DOMAIN shared) \X Analysed
      BY DEF TypeInv, Tables
    <2>2. {c} \X t.joins \subseteq (DOMAIN shared') \X Analysed'
      <3>1. CASE c = 0
        BY <1>1, <3>1
      <3>2. CASE c # 0
        BY <1>1, <1>5, <1>6, <3>2
      <3> QED
        BY <3>1, <3>2
    <2> QED
      BY <1>2, <1>5, <1>6, <2>1, <2>2
  <1>9. links' \subseteq SUBSET Sample
    BY <1>1, <1>2 DEF TypeInv, Tables
  <1>10. Attribute' = Attribute
    BY DEF Attribute, Contribution
  <1> QED
    BY <1>4, <1>5, <1>6, <1>7, <1>8, <1>9, <1>10 DEF Tables, t

LEMMA CommitTypes ==
  ASSUME TypeInv, NEW p \in Process, Commit(p), CampaignAssumption PROVE TypeInv'
  <1>1. Tables' /\ Analysed \subseteq Analysed'
    BY CommitTables
  <1>2. tx' = [tx EXCEPT ![p] = NoTx]
    BY DEF Commit
  <1>3. NoTx \in Tx /\ Refers(NoTx)
    BY EmptyTx
  <1> HIDE DEF NoTx
  <1>4. tx' \in [Process -> Tx]
    BY <1>2, <1>3 DEF TypeInv
  <1>5. ASSUME NEW q \in Process PROVE Refers(tx[q])'
    <2>1. tx'[q] = IF q = p THEN NoTx ELSE tx[q]
      BY <1>2 DEF TypeInv
    <2>2. Refers(tx'[q])
      BY <1>3, <2>1 DEF TypeInv
    <2> QED
      BY <1>1, <2>2 DEF Refers
  <1> QED
    BY <1>1, <1>4, <1>5 DEF TypeInv, Tx, Attribute

LEMMA TypeStep ==
  ASSUME TypeInv, [Next]_vars, CampaignAssumption PROVE TypeInv'
  <1>1. CASE UNCHANGED vars
    BY <1>1 DEF vars, TypeInv, Tables, Refers, Analysed
  <1>2. CASE Next
    <2>1. PICK p \in Process :
            \/ Begin(p) \/ Compare(p) \/ Join(p) \/ Found(p) \/ Pass(p)
            \/ Commit(p) \/ Rollback(p)
      BY <1>2 DEF Next
    <2> QED
      BY <2>1, BeginTypes, CompareTypes, JoinTypes, FoundTypes, PassTypes, CommitTypes,
         RollbackTypes
  <1> QED
    BY <1>1, <1>2

\* What every state of either backend satisfies.
THEOREM CampaignInvariance == Spec => []TypeInv
  <1>1. Init => TypeInv
    BY TypeStart, CampaignAssumption
  <1>2. TypeInv /\ [Next]_vars => TypeInv'
    BY TypeStep, CampaignAssumption
  <1> QED
    BY <1>1, <1>2, PTL DEF Spec

\* Tables and transactions keep their types: campaigns are numbered 1 to 999, and only
\* samples with a fingerprint are members.
THEOREM CampaignTypesCorrect == Spec => []CampaignTypeOK
  <1>1. TypeInv => CampaignTypeOK
    <2>1. ASSUME TypeInv, NEW p \in Process
          PROVE  /\ tx[p].pc \in {"idle", "compare", "decide", "commit"}
                 /\ tx[p].target \in 0 .. MaxCampaign
                 /\ tx[p].joins \subseteq Sample
      BY <2>1 DEF TypeInv, Tx
    <2> QED
      BY <2>1 DEF TypeInv, Tables, CampaignTypeOK, Analysed
  <1> QED
    BY <1>1, CampaignInvariance, PTL

\* Two samples whose similarity would found a campaign share an anchor, whatever the
\* fingerprints are and however the analyses were interleaved.
THEOREM StrongPairsAreAnchored == Spec => []UnanchoredNeverStrong
  <1>1. TypeInv /\ CampaignAssumption => UnanchoredNeverStrong
    <2>1. ASSUME TypeInv, CampaignAssumption, NEW s \in Sample, corpus[s] # NULL
          PROVE  Finite(corpus[s])
      BY <2>1 DEF TypeInv, Tables, CampaignAssumption, Finite
    <2> QED
      BY <2>1, StrongIsAnchored DEF UnanchoredNeverStrong
  <1> QED
    BY <1>1, CampaignInvariance, CampaignAssumption, PTL

-----------------------------------------------------------------------------
(* One transaction at a time.                                              *)

\* What a transaction compared is still the whole corpus.
Compared(t) ==
  /\ t.hard = {s \in Analysed \ {t.sample} : HardLinked(t.fp, corpus[s])}
  /\ t.strong = {s \in Analysed \ {t.sample} : Strong(t.fp, corpus[s])}
  /\ t.linked = {s \in Analysed \ {t.sample} : Anchored(t.fp, corpus[s])}

StaysAlone(t) == t.target = 0 /\ t.strong = {}

Joins(t) ==
  /\ t.target \in DOMAIN shared
  /\ t.merged = Enriched(t.target, t.fp)
  /\ t.joins = {t.sample}
  /\ <<t.target, t.sample>> \in members \/ \E h \in t.hard : <<t.target, h>> \in members

Founds(t) ==
  /\ t.target \in (1 .. MaxCampaign) \ DOMAIN shared
  /\ t.merged = Contribution(t.fp)
  /\ t.joins = {t.sample} \cup t.strong

Holds(t) ==
  /\ t.pc # "commit" => t.target = 0
  /\ t.pc \in {"decide", "commit"} => Compared(t)
  /\ t.pc = "commit" => StaysAlone(t) \/ Joins(t) \/ Founds(t)

SerialInv ==
  /\ \A p, q \in Process : tx[p].pc # "idle" /\ tx[q].pc # "idle" => p = q
  /\ \A p \in Process : Holds(tx[p])

BroughtInv ==
  /\ DOMAIN brought = 1 .. MaxCampaign
  /\ \A c \in (1 .. MaxCampaign) \ DOMAIN shared : brought[c] = {}

DataInv == BroughtInv /\ AttributesKept /\ StrongPairIsFound /\ MembersAreLinked

SerialIInv == TypeInv /\ SerialInv /\ DataInv

LEMMA SerialStart ==
  ASSUME CampaignAssumption, Init PROVE SerialIInv
  <1>1. TypeInv
    BY TypeStart
  <1>2. Holds(NoTx) /\ NoTx.pc = "idle"
    BY DEF NoTx, Holds
  <1> HIDE DEF NoTx
  <1>3. SerialInv
    BY <1>2 DEF Init, SerialInv
  <1>4. DataInv
    BY DEF Init, DataInv, BroughtInv, AttributesKept, StrongPairIsFound, MembersAreLinked
  <1> QED
    BY <1>1, <1>3, <1>4 DEF SerialIInv

\* A step of one process that writes no table.
LEMMA SerialLocal ==
  ASSUME TypeInv, SerialInv, DataInv, NEW p \in Process, NEW t, Holds(t),
         \A q \in Process : q # p => tx[q].pc = "idle",
         tx' = [tx EXCEPT ![p] = t],
         UNCHANGED <<corpus, shared, members, links, brought>>
  PROVE  SerialInv' /\ DataInv'
  <1>1. \A q \in Process : tx'[q] = IF q = p THEN t ELSE tx[q]
    BY DEF TypeInv
  <1>2. ASSUME NEW q \in Process PROVE Holds(tx[q])'
    <2>1. Holds(tx'[q])
      BY <1>1 DEF SerialInv
    <2> QED
      BY <2>1 DEF Holds, Compared, StaysAlone, Joins, Founds, Analysed, Enriched
  <1>3. SerialInv'
    BY <1>1, <1>2 DEF SerialInv
  <1>4. DataInv'
    <2>1. BroughtInv' /\ AttributesKept'
      BY DEF DataInv, BroughtInv, AttributesKept
    <2>2. StrongPairIsFound'
      BY DEF DataInv, StrongPairIsFound, CampaignsOf
    <2>3. MembersAreLinked'
      <3>1. \A c : MembersOf(c)' = MembersOf(c)
        BY DEF MembersOf
      <3>2. MembersAreLinked
        BY DEF DataInv
      <3> QED
        BY <3>1, <3>2 DEF MembersAreLinked
    <2> QED
      BY <2>1, <2>2, <2>3 DEF DataInv
  <1> QED
    BY <1>3, <1>4

LEMMA OthersIdle ==
  ASSUME SerialInv, NEW p \in Process, tx[p].pc # "idle"
  PROVE  \A q \in Process : q # p => tx[q].pc = "idle"
  BY DEF SerialInv

LEMMA BeginSerial ==
  ASSUME SerialIInv, Isolated, NEW p \in Process, Begin(p) PROVE SerialInv' /\ DataInv'
  <1>1. PICK s \in Sample, f \in Fingerprint :
          tx' = [tx EXCEPT ![p] = [tx[p] EXCEPT !.pc = "compare", !.sample = s, !.fp = f]]
    BY DEF Begin
  <1> DEFINE t == [tx[p] EXCEPT !.pc = "compare", !.sample = s, !.fp = f]
  <1>2. tx[p] \in Tx /\ Holds(tx[p]) /\ tx[p].pc = "idle"
    BY DEF SerialIInv, SerialInv, TypeInv, Begin
  <1>3. t.pc = "compare" /\ t.target = tx[p].target
    BY <1>2 DEF Tx
  <1>4. \A q \in Process : tx[q].pc = "idle"
    BY DEF Begin
  <1> HIDE DEF t
  <1>5. Holds(t)
    BY <1>2, <1>3 DEF Holds
  <1> QED
    BY <1>1, <1>4, <1>5, SerialLocal DEF Begin, SerialIInv, t

LEMMA CompareSerial ==
  ASSUME SerialIInv, NEW p \in Process, Compare(p) PROVE SerialInv' /\ DataInv'
  <1> DEFINE hard == {s \in Known(p) : HardLinked(tx[p].fp, corpus[s])}
             strong == {s \in Known(p) : Strong(tx[p].fp, corpus[s])}
             linked == {s \in Known(p) : Anchored(tx[p].fp, corpus[s])}
             t == [tx[p] EXCEPT !.pc = "decide", !.hard = hard, !.strong = strong,
                                !.linked = linked]
  <1>1. tx[p] \in Tx /\ Holds(tx[p]) /\ tx[p].pc = "compare"
    BY DEF SerialIInv, SerialInv, TypeInv, Compare
  <1>2. tx' = [tx EXCEPT ![p] = t]
    BY DEF Compare
  <1>3. Known(p) = Analysed \ {tx[p].sample}
    BY DEF Known, Analysed
  <1>4. /\ t.pc = "decide" /\ t.sample = tx[p].sample /\ t.fp = tx[p].fp
        /\ t.target = tx[p].target
        /\ t.hard = hard /\ t.strong = strong /\ t.linked = linked
    <2> HIDE DEF hard, strong, linked
    <2> QED
      BY <1>1 DEF Tx
  <1> HIDE DEF t
  <1>5. Compared(t)
    BY <1>3, <1>4 DEF Compared
  <1>6. Holds(t)
    BY <1>1, <1>4, <1>5 DEF Holds
  <1>7. \A q \in Process : q # p => tx[q].pc = "idle"
    BY <1>1, OthersIdle DEF SerialIInv
  <1> QED
    BY <1>2, <1>6, <1>7, SerialLocal DEF Compare, SerialIInv

LEMMA JoinSerial ==
  ASSUME SerialIInv, NEW p \in Process, Join(p) PROVE SerialInv' /\ DataInv'
  <1>1. PICK c \in Targets(p) :
          tx' = [tx EXCEPT ![p] = [@ EXCEPT !.pc = "commit", !.target = c,
                                            !.merged = Enriched(c, tx[p].fp),
                                            !.joins = {tx[p].sample}]]
    BY DEF Join
  <1> DEFINE m == Enriched(c, tx[p].fp)
             j == {tx[p].sample}
             t == [tx[p] EXCEPT !.pc = "commit", !.target = c, !.merged = m, !.joins = j]
  <1>2. tx[p] \in Tx /\ Holds(tx[p]) /\ tx[p].pc = "decide" /\ tx' = [tx EXCEPT ![p] = t]
    BY <1>1 DEF SerialIInv, SerialInv, TypeInv, Join
  <1>3. /\ c \in DOMAIN shared
        /\ <<c, tx[p].sample>> \in members \/ \E h \in tx[p].hard : <<c, h>> \in members
    BY DEF Targets, CampaignsOf
  <1>4. /\ t.pc = "commit" /\ t.sample = tx[p].sample /\ t.fp = tx[p].fp /\ t.target = c
        /\ t.hard = tx[p].hard /\ t.strong = tx[p].strong /\ t.linked = tx[p].linked
        /\ t.merged = m /\ t.joins = j
    <2> HIDE DEF m, j
    <2> QED
      BY <1>2 DEF Tx
  <1>5. tx' = [tx EXCEPT ![p] = t]
    BY <1>2
  <1> HIDE DEF t
  <1>6. Compared(t)
    BY <1>2, <1>4 DEF Compared, Holds
  <1>7. Joins(t)
    BY <1>3, <1>4 DEF Joins
  <1>8. Holds(t)
    BY <1>4, <1>6, <1>7 DEF Holds
  <1>9. \A q \in Process : q # p => tx[q].pc = "idle"
    BY <1>2, OthersIdle DEF SerialIInv
  <1> QED
    BY <1>5, <1>8, <1>9, SerialLocal DEF Join, SerialIInv

LEMMA FoundSerial ==
  ASSUME SerialIInv, CampaignAssumption, NEW p \in Process, Found(p)
  PROVE  SerialInv' /\ DataInv'
  <1> DEFINE m == Contribution(tx[p].fp)
             j == {tx[p].sample} \cup tx[p].strong
             c == NextId
             t == [tx[p] EXCEPT !.pc = "commit", !.target = c, !.merged = m, !.joins = j]
  <1>1. tx[p] \in Tx /\ Holds(tx[p]) /\ tx[p].pc = "decide" /\ tx' = [tx EXCEPT ![p] = t]
    BY DEF SerialIInv, SerialInv, TypeInv, Found
  <1>2. c \in (1 .. MaxCampaign) \ DOMAIN shared
    BY NextIsNew DEF SerialIInv, TypeInv, Found, CampaignAssumption
  <1>3. /\ t.pc = "commit" /\ t.sample = tx[p].sample /\ t.fp = tx[p].fp /\ t.target = c
        /\ t.hard = tx[p].hard /\ t.strong = tx[p].strong /\ t.linked = tx[p].linked
        /\ t.merged = m /\ t.joins = j
    <2> HIDE DEF m, j, c
    <2> QED
      BY <1>1 DEF Tx
  <1>4. tx' = [tx EXCEPT ![p] = t]
    BY <1>1
  <1> HIDE DEF t, c
  <1>5. Compared(t)
    BY <1>1, <1>3 DEF Compared, Holds
  <1>6. Founds(t)
    BY <1>2, <1>3 DEF Founds
  <1>7. Holds(t)
    BY <1>3, <1>5, <1>6 DEF Holds
  <1>8. \A q \in Process : q # p => tx[q].pc = "idle"
    BY <1>1, OthersIdle DEF SerialIInv
  <1> QED
    BY <1>4, <1>7, <1>8, SerialLocal DEF Found, SerialIInv

LEMMA PassSerial ==
  ASSUME SerialIInv, NEW p \in Process, Pass(p) PROVE SerialInv' /\ DataInv'
  <1> DEFINE t == [tx[p] EXCEPT !.pc = "commit"]
  <1>1. /\ tx[p] \in Tx /\ Holds(tx[p]) /\ tx[p].pc = "decide" /\ tx[p].strong = {}
        /\ tx' = [tx EXCEPT ![p] = t]
    BY DEF SerialIInv, SerialInv, TypeInv, Pass
  <1>2. /\ t.pc = "commit" /\ t.sample = tx[p].sample /\ t.fp = tx[p].fp
        /\ t.target = tx[p].target
        /\ t.hard = tx[p].hard /\ t.strong = tx[p].strong /\ t.linked = tx[p].linked
    BY <1>1 DEF Tx
  <1> HIDE DEF t
  <1>3. Compared(t)
    BY <1>1, <1>2 DEF Compared, Holds
  <1>4. StaysAlone(t)
    BY <1>1, <1>2 DEF StaysAlone, Holds
  <1>5. Holds(t)
    BY <1>2, <1>3, <1>4 DEF Holds
  <1>6. \A q \in Process : q # p => tx[q].pc = "idle"
    BY <1>1, OthersIdle DEF SerialIInv
  <1> QED
    BY <1>1, <1>5, <1>6, SerialLocal DEF Pass, SerialIInv

LEMMA RollbackSerial ==
  ASSUME SerialIInv, NEW p \in Process, Rollback(p) PROVE SerialInv' /\ DataInv'
  <1>1. Holds(NoTx)
    BY DEF NoTx, Holds
  <1>2. \A q \in Process : q # p => tx[q].pc = "idle"
    BY OthersIdle DEF SerialIInv, Rollback
  <1> HIDE DEF NoTx
  <1> QED
    BY <1>1, <1>2, SerialLocal DEF Rollback, SerialIInv

\* What a commit of process p writes, in terms of its transaction t.
Writes(t, c) ==
  /\ corpus' = [corpus EXCEPT ![t.sample] = t.fp]
  /\ shared' = IF c = 0 THEN shared
               ELSE [i \in DOMAIN shared \cup {c} |-> IF i = c THEN t.merged ELSE shared[i]]
  /\ members' = members \cup ({c} \X t.joins)
  /\ links' = links \cup {{t.sample, s} : s \in t.linked}
  /\ brought' = IF c = 0 THEN brought
                ELSE [brought EXCEPT ![c] = @ \cup Contribution(t.fp)]

\* What is known of a transaction when it commits.
Ready(t) ==
  /\ t \in Tx /\ Refers(t) /\ t.pc = "commit" /\ Compared(t)
  /\ t.sample \in Sample /\ t.fp \in Fingerprint
  /\ StaysAlone(t) \/ Joins(t) \/ Founds(t)

LEMMA CommitReady ==
  ASSUME SerialIInv, NEW p \in Process, Commit(p)
  PROVE  Ready(tx[p]) /\ Writes(tx[p], tx[p].target)
  <1>1. Ready(tx[p])
    BY DEF SerialIInv, TypeInv, SerialInv, Refers, Holds, Ready, Commit
  <1>2. Writes(tx[p], tx[p].target)
    BY DEF Commit, Writes
  <1> QED
    BY <1>1, <1>2

\* A campaign that exists before the commit or is founded by it.
LEMMA CommitCampaigns ==
  ASSUME SerialIInv, CampaignAssumption, NEW t, Ready(t), Writes(t, t.target)
  PROVE  /\ DOMAIN shared' = IF t.target = 0 THEN DOMAIN shared
                             ELSE DOMAIN shared \cup {t.target}
         /\ \A i \in DOMAIN shared' :
              shared'[i] = IF i = t.target THEN t.merged ELSE shared[i]
         /\ t.target = 0 <=> StaysAlone(t)
  <1>1. 0 \notin DOMAIN shared /\ 0 \notin 1 .. MaxCampaign
    BY DEF SerialIInv, TypeInv, Tables, CampaignAssumption
  <1>2. t.target = 0 <=> StaysAlone(t)
    BY <1>1 DEF Ready, StaysAlone, Joins, Founds
  <1>3. CASE t.target = 0
    BY <1>1, <1>2, <1>3 DEF Writes
  <1>4. CASE t.target # 0
    BY <1>2, <1>4 DEF Writes
  <1> QED
    BY <1>2, <1>3, <1>4

LEMMA CommitKeeps ==
  ASSUME SerialIInv, CampaignAssumption, NEW t, Ready(t), Writes(t, t.target)
  PROVE  BroughtInv' /\ AttributesKept'
  <1> DEFINE c == t.target
             b == Contribution(t.fp)
  <1>1. /\ DOMAIN shared' = IF c = 0 THEN DOMAIN shared ELSE DOMAIN shared \cup {c}
        /\ \A i \in DOMAIN shared' : shared'[i] = IF i = c THEN t.merged ELSE shared[i]
    BY CommitCampaigns
  <1>2. /\ BroughtInv /\ AttributesKept
        /\ DOMAIN shared \subseteq 1 .. MaxCampaign /\ 0 \notin 1 .. MaxCampaign
    BY DEF SerialIInv, DataInv, TypeInv, Tables, CampaignAssumption
  <1>3. CASE c = 0
    <2>1. brought' = brought
      BY <1>3 DEF Writes
    <2> QED
      BY <1>1, <1>2, <1>3, <2>1 DEF BroughtInv, AttributesKept
  <1>4. CASE c # 0
    <2>1. /\ c \in 1 .. MaxCampaign
          /\ t.merged = (IF c \in DOMAIN shared THEN shared[c] ELSE {}) \cup b
      BY <1>2, <1>4 DEF Ready, StaysAlone, Joins, Founds, Enriched
    <2>2. /\ DOMAIN brought' = 1 .. MaxCampaign
          /\ \A i \in 1 .. MaxCampaign :
               brought'[i] = IF i = c THEN brought[i] \cup b ELSE brought[i]
      BY <1>2, <1>4, <2>1 DEF Writes, BroughtInv
    <2> HIDE DEF b
    <2>3. BroughtInv'
      BY <1>1, <1>2, <1>4, <2>2 DEF BroughtInv
    <2>4. brought[c] \subseteq IF c \in DOMAIN shared THEN shared[c] ELSE {}
      BY <1>2, <2>1 DEF BroughtInv, AttributesKept
    <2>5. ASSUME NEW i \in DOMAIN shared' PROVE brought'[i] \subseteq shared'[i]
      <3>1. CASE i = c
        BY <1>1, <2>1, <2>2, <2>4, <2>5, <3>1
      <3>2. CASE i # c
        BY <1>1, <1>2, <1>4, <2>2, <2>5, <3>2 DEF AttributesKept
      <3> QED
        BY <3>1, <3>2
    <2> QED
      BY <2>3, <2>5 DEF AttributesKept
  <1> QED
    BY <1>3, <1>4

LEMMA StrongBothWays ==
  ASSUME NEW f, NEW g, Finite(f), Finite(g)
  PROVE  Strong(f, g) <=> Strong(g, f)
  <1>1. \A part \in {"dex", "behavior", "infra"} :
          Whole(f, g, part) = Whole(g, f, part) /\ Common(f, g, part) = Common(g, f, part)
    BY Counts DEF Finite
  <1>2. \A part : Shares(f, g, part) <=> Shares(g, f, part)
    BY DEF Shares
  <1> QED
    BY <1>1, <1>2 DEF Strong, Overall, If

\* Whoever the sample is similar enough to was compared with it.
LEMMA CommitFinds ==
  ASSUME SerialIInv, CampaignAssumption, NEW t, Ready(t), Writes(t, t.target)
  PROVE  StrongPairIsFound'
  <1> DEFINE s == t.sample
  <1>1. /\ corpus \in [Sample -> Fingerprint \cup {NULL}] /\ s \in Sample
        /\ t.fp \in Fingerprint /\ NULL \notin Fingerprint
    BY DEF SerialIInv, TypeInv, Tables, Ready, CampaignAssumption
  <1>2. \A r \in Sample : corpus'[r] = IF r = s THEN t.fp ELSE corpus[r]
    BY <1>1 DEF Writes
  <1>3. \A r \in Sample : CampaignsOf(r) \subseteq CampaignsOf(r)'
    BY CommitCampaigns DEF CampaignsOf, Writes
  <1>4. \A f \in Fingerprint : Finite(f)
    BY DEF CampaignAssumption, Finite
  <1>5. ASSUME NEW r \in Sample, r # s, corpus[r] # NULL, Strong(t.fp, corpus[r])
        PROVE  CampaignsOf(s)' # {}
    <2>1. r \in t.strong
      BY <1>5 DEF Ready, Compared, Analysed
    <2>2. /\ t.target # 0 /\ t.sample \in t.joins /\ t.target \in DOMAIN shared'
      BY <2>1, CommitCampaigns DEF Ready, StaysAlone, Joins, Founds
    <2>3. <<t.target, s>> \in members'
      BY <2>2 DEF Writes
    <2> QED
      BY <2>2, <2>3 DEF CampaignsOf
  <1> HIDE DEF s
  <1>6. ASSUME NEW q \in Sample, NEW r \in Sample, corpus'[q] # NULL, corpus'[r] # NULL,
               q # r, Strong(corpus'[q], corpus'[r])
        PROVE  CampaignsOf(q)' \cup CampaignsOf(r)' # {}
    <2>1. CASE q = s
      BY <1>2, <1>5, <1>6, <2>1
    <2>2. CASE r = s
      <3>1. corpus[q] # NULL /\ corpus[q] \in Fingerprint /\ Strong(corpus[q], t.fp)
        BY <1>1, <1>2, <1>6, <2>2
      <3>2. Strong(t.fp, corpus[q])
        BY <1>1, <1>4, <3>1, StrongBothWays
      <3> QED
        BY <1>5, <1>6, <2>2, <3>1, <3>2
    <2>3. CASE q # s /\ r # s
      <3>1. corpus[q] # NULL /\ corpus[r] # NULL /\ Strong(corpus[q], corpus[r])
        BY <1>2, <1>6, <2>3
      <3>2. CampaignsOf(q) \cup CampaignsOf(r) # {}
        BY <1>6, <3>1 DEF SerialIInv, DataInv, StrongPairIsFound
      <3> QED
        BY <1>3, <3>2
    <2> QED
      BY <2>1, <2>2, <2>3
  <1> QED
    BY <1>6 DEF StrongPairIsFound

\* A set hangs together in l: whoever is split off from it is linked to the rest.
Together(M, l) ==
  \A part \in (SUBSET M) \ {{}, M} : \E s \in part, r \in M \ part : {s, r} \in l

LEMMA LinkedIsTogether ==
  MembersAreLinked <=> \A c \in DOMAIN shared : Together(MembersOf(c), links)
  BY DEF MembersAreLinked, Together

LEMMA MoreLinks ==
  ASSUME NEW M, NEW l, NEW k, l \subseteq k, Together(M, l)
  PROVE  Together(M, k)
  BY DEF Together

\* One more that is linked to a member.
LEMMA OneMore ==
  ASSUME NEW M, NEW l, Together(M, l), NEW s, NEW h \in M, {s, h} \in l
  PROVE  Together(M \cup {s}, l)
  <1> SUFFICES ASSUME NEW part \in (SUBSET (M \cup {s})) \ {{}, M \cup {s}}
               PROVE  \E q \in part, r \in (M \cup {s}) \ part : {q, r} \in l
    BY DEF Together
  <1>1. CASE part \cap M \notin {{}, M}
    <2>1. part \cap M \in (SUBSET M) \ {{}, M}
      BY <1>1
    <2>2. PICK q \in part \cap M, r \in M \ (part \cap M) : {q, r} \in l
      BY <2>1 DEF Together
    <2>3. q \in part /\ r \in (M \cup {s}) \ part
      OBVIOUS
    <2> QED
      BY <2>2, <2>3
  <1>2. CASE part \cap M = {}
    <2>1. s \in part /\ h \in (M \cup {s}) \ part
      BY <1>2
    <2> QED
      BY <2>1
  <1>3. CASE part \cap M = M
    <2>1. h \in part /\ s \in (M \cup {s}) \ part
      BY <1>3
    <2>2. {h, s} = {s, h}
      OBVIOUS
    <2> QED
      BY <2>1, <2>2
  <1> QED
    BY <1>1, <1>2, <1>3

\* A founder and those that are linked to it.
LEMMA AroundOne ==
  ASSUME NEW S, NEW l, NEW s, \A r \in S : {s, r} \in l
  PROVE  Together({s} \cup S, l)
  <1> SUFFICES ASSUME NEW part \in (SUBSET ({s} \cup S)) \ {{}, {s} \cup S}
               PROVE  \E q \in part, r \in ({s} \cup S) \ part : {q, r} \in l
    BY DEF Together
  <1>1. CASE s \in part
    <2>1. PICK r \in ({s} \cup S) \ part : TRUE
      OBVIOUS
    <2>2. r \in S
      BY <1>1
    <2> QED
      BY <1>1, <2>1, <2>2
  <1>2. CASE s \notin part
    <2>1. PICK q \in part : q \in S
      BY <1>2
    <2>2. {s, q} \in l /\ {q, s} = {s, q} /\ s \in ({s} \cup S) \ part
      BY <1>2, <2>1
    <2> QED
      BY <2>1, <2>2
  <1> QED
    BY <1>1, <1>2

LEMMA CommitLinks ==
  ASSUME SerialIInv, CampaignAssumption, NEW t, Ready(t), Writes(t, t.target)
  PROVE  MembersAreLinked'
  <1> DEFINE s == t.sample
             k == t.target
  <1>1. DOMAIN shared' = IF k = 0 THEN DOMAIN shared ELSE DOMAIN shared \cup {k}
    BY CommitCampaigns
  <1>2. /\ \A c \in DOMAIN shared : Together(MembersOf(c), links)
        /\ links \subseteq links'
        /\ \A h \in t.linked : {s, h} \in links'
    BY LinkedIsTogether DEF SerialIInv, DataInv, Writes
  <1>3. t.joins \subseteq Sample /\ s \in Sample /\ members' = members \cup ({k} \X t.joins)
    BY DEF Ready, Tx, Writes
  <1>4. \A c : MembersOf(c)' = IF c = k THEN MembersOf(c) \cup t.joins ELSE MembersOf(c)
    BY <1>3 DEF MembersOf
  <1>5. \A c \in DOMAIN shared : Together(MembersOf(c), links')
    BY <1>2, MoreLinks
  <1>6. CASE StaysAlone(t)
    <2>1. k = 0 /\ t.joins = {}
      BY <1>6 DEF StaysAlone, Ready, Refers
    <2>2. \A c : MembersOf(c)' = MembersOf(c)
      BY <1>4, <2>1
    <2>3. \A c \in DOMAIN shared' : Together(MembersOf(c)', links')
      BY <1>1, <1>5, <2>1, <2>2
    <2> QED
      BY <2>3 DEF MembersAreLinked, Together
  <1>7. CASE Joins(t)
    <2>1. /\ k \in DOMAIN shared /\ t.joins = {s}
          /\ <<k, s>> \in members \/ \E h \in t.hard : <<k, h>> \in members
      BY <1>7 DEF Joins
    <2>2. t.hard = t.linked /\ t.hard \subseteq Sample
      BY DEF Ready, Compared, Analysed, HardLinked, Anchored
    <2>3. Together(MembersOf(k) \cup {s}, links')
      <3>1. CASE <<k, s>> \in members
        <4>1. MembersOf(k) \cup {s} = MembersOf(k)
          BY <1>3, <3>1 DEF MembersOf
        <4> QED
          BY <1>5, <2>1, <4>1
      <3>2. CASE \E h \in t.hard : <<k, h>> \in members
        <4>1. PICK h \in t.hard : <<k, h>> \in members
          BY <3>2
        <4>2. h \in MembersOf(k) /\ {s, h} \in links'
          BY <1>2, <2>2, <4>1 DEF MembersOf
        <4> QED
          BY <1>5, <2>1, <4>2, OneMore
      <3> QED
        BY <2>1, <3>1, <3>2
    <2>4. \A c \in DOMAIN shared' : Together(MembersOf(c)', links')
      BY <1>1, <1>4, <1>5, <2>1, <2>3
    <2> QED
      BY <2>4 DEF MembersAreLinked, Together
  <1>8. CASE Founds(t)
    <2>1. k \notin DOMAIN shared /\ t.joins = {s} \cup t.strong
      BY <1>8 DEF Founds
    <2>2. MembersOf(k) = {}
      BY <2>1 DEF SerialIInv, TypeInv, Tables, MembersOf
    <2>3. t.strong \subseteq t.linked
      <3>1. \A f \in Fingerprint : Finite(f)
        BY DEF CampaignAssumption, Finite
      <3>2. \A r \in Analysed : Finite(corpus[r])
        BY <3>1 DEF SerialIInv, TypeInv, Tables, Analysed
      <3>3. \A r \in Analysed : Strong(t.fp, corpus[r]) => Anchored(t.fp, corpus[r])
        BY <3>1, <3>2, StrongIsAnchored DEF Ready
      <3> QED
        BY <3>3 DEF Ready, Compared
    <2>4. Together({s} \cup t.strong, links')
      BY <1>2, <2>3, AroundOne
    <2>5. MembersOf(k)' = {s} \cup t.strong
      BY <1>4, <2>1, <2>2
    <2>6. \A c \in DOMAIN shared' : Together(MembersOf(c)', links')
      BY <1>1, <1>4, <1>5, <2>4, <2>5
    <2> QED
      BY <2>6 DEF MembersAreLinked, Together
  <1> QED
    BY <1>6, <1>7, <1>8 DEF Ready

LEMMA CommitSerial ==
  ASSUME SerialIInv, CampaignAssumption, NEW p \in Process, Commit(p)
  PROVE  SerialInv' /\ DataInv'
  <1>1. Ready(tx[p]) /\ Writes(tx[p], tx[p].target)
    BY CommitReady
  <1>2. DataInv'
    BY <1>1, CommitKeeps, CommitFinds, CommitLinks DEF DataInv
  <1>3. /\ tx' = [tx EXCEPT ![p] = NoTx] /\ tx \in [Process -> Tx]
        /\ \A q \in Process : q # p => tx[q].pc = "idle" /\ tx[q].target = 0
    BY OthersIdle DEF Commit, SerialIInv, SerialInv, TypeInv, Holds
  <1>4. NoTx.pc = "idle" /\ NoTx.target = 0
    BY DEF NoTx
  <1> HIDE DEF NoTx
  <1>5. \A q \in Process : tx'[q].pc = "idle" /\ tx'[q].target = 0
    BY <1>3, <1>4
  <1>6. SerialInv'
    BY <1>5 DEF SerialInv, Holds
  <1> QED
    BY <1>2, <1>6

LEMMA SerialStep ==
  ASSUME SerialIInv, [Next]_vars, CampaignAssumption, Isolated
  PROVE  SerialIInv'
  <1>1. TypeInv'
    BY TypeStep DEF SerialIInv
  <1>2. CASE UNCHANGED vars
    <2>1. \A c : MembersOf(c)' = MembersOf(c) /\ CampaignsOf(c)' = CampaignsOf(c)
      BY <1>2 DEF vars, MembersOf, CampaignsOf
    <2>2. BroughtInv' /\ AttributesKept'
      BY <1>2 DEF vars, SerialIInv, DataInv, BroughtInv, AttributesKept
    <2>3. StrongPairIsFound' /\ MembersAreLinked'
      <3>1. StrongPairIsFound /\ MembersAreLinked
        BY DEF SerialIInv, DataInv
      <3>2. StrongPairIsFound'
        BY <1>2, <2>1, <3>1 DEF vars, StrongPairIsFound
      <3>3. MembersAreLinked'
        BY <1>2, <2>1, <3>1 DEF vars, MembersAreLinked
      <3> QED
        BY <3>2, <3>3
    <2>4. SerialInv'
      BY <1>2 DEF vars, SerialIInv, SerialInv, Holds, Compared, StaysAlone, Joins, Founds,
                  Analysed, Enriched
    <2> QED
      BY <1>1, <2>2, <2>3, <2>4 DEF SerialIInv, DataInv
  <1>3. CASE Next
    <2>1. PICK p \in Process :
            \/ Begin(p) \/ Compare(p) \/ Join(p) \/ Found(p) \/ Pass(p)
            \/ Commit(p) \/ Rollback(p)
      BY <1>3 DEF Next
    <2>2. SerialInv' /\ DataInv'
      BY <2>1, BeginSerial, CompareSerial, JoinSerial, FoundSerial, PassSerial,
         CommitSerial, RollbackSerial
    <2> QED
      BY <1>1, <2>2 DEF SerialIInv
  <1> QED
    BY <1>2, <1>3

\* What every state satisfies where transactions are serial.
THEOREM SerialInvariance ==
  ASSUME Isolated
  PROVE  Spec => []SerialIInv
  <1>1. Init => SerialIInv
    BY SerialStart, CampaignAssumption
  <1>2. SerialIInv /\ [Next]_vars => SerialIInv'
    BY SerialStep, CampaignAssumption, Isolated
  <1> QED
    BY <1>1, <1>2, PTL DEF Spec

\* Where transactions are serial the columns of a campaign keep what every analysis of a
\* member brought: no number is given twice and no column is written from a stale row.
THEOREM NothingIsLost ==
  ASSUME Isolated
  PROVE  Spec => []AttributesKept
  <1>1. SerialIInv => AttributesKept
    BY DEF SerialIInv, DataInv
  <1> QED
    BY <1>1, SerialInvariance, PTL

\* Where transactions are serial, of two samples similar enough to found a campaign the
\* one that was analysed last was compared with the other: one of them is in a campaign.
THEOREM StrongPairsAreFound ==
  ASSUME Isolated
  PROVE  Spec => []StrongPairIsFound
  <1>1. SerialIInv => StrongPairIsFound
    BY DEF SerialIInv, DataInv
  <1> QED
    BY <1>1, SerialInvariance, PTL

\* Where transactions are serial the members of a campaign hang together by anchors,
\* those included that were put into it when it was founded, which asks for none.
THEOREM CampaignsHangTogether ==
  ASSUME Isolated
  PROVE  Spec => []MembersAreLinked
  <1>1. SerialIInv => MembersAreLinked
    BY DEF SerialIInv, DataInv
  <1> QED
    BY <1>1, SerialInvariance, PTL
=============================================================================
