----------------------------- MODULE Similarity -----------------------------
(***************************************************************************)
(* How alike two FraudDNA fingerprints are: class                          *)
(* FraudDNASimilarityCalculator (deceptiscope/frauddna/similarity.py) and  *)
(* the thresholds of CampaignCorrelator (frauddna/campaigns.py).           *)
(*                                                                         *)
(* A fingerprint is a record of sets.  Ratios are compared exactly, by     *)
(* cross-multiplication; the code adds floats, which may put a sum that is *)
(* exactly a threshold one unit below it.  The package name and the icon   *)
(* add nothing to the score and are no anchors: they are left out.         *)
(***************************************************************************)
EXTENDS Naturals, FiniteSets

Size(f, g, part) == Cardinality(f[part] \cup g[part])

Common(f, g, part) == Cardinality(f[part] \cap g[part])

Shares(f, g, part) == f[part] \cap g[part] # {}

\* Jaccard similarity of at least n percent; two empty sets have none.
Alike(f, g, part, n) == Size(f, g, part) > 0 /\ 100 * Common(f, g, part) >= n * Size(f, g, part)

If(b, n) == IF b THEN n ELSE 0

\* A denominator: 1 where both sets are empty, so that nothing is divided.
Whole(f, g, part) == If(Size(f, g, part) = 0, 1) + Size(f, g, part)

\* A bug: the weights of the anchors and of the supporting signals are exchanged.
WeightsExchanged(f, g, n) ==
  LET d == Whole(f, g, "dex")  b == Whole(f, g, "behavior")  i == Whole(f, g, "infra") IN
    (If(Shares(f, g, "signer"), 10) + If(Shares(f, g, "firebase"), 5)
       + If(Shares(f, g, "payload"), 20)) * d * b * i
    + 15 * Common(f, g, "dex") * b * i
    + 25 * Common(f, g, "behavior") * d * i
    + 25 * Common(f, g, "infra") * d * b
    >= n * d * b * i

\* overall_similarity of at least n percent: signer 0.25, Firebase 0.25,
\* payload 0.20, DEX 0.15, behaviour 0.10, infrastructure 0.05.
Overall(f, g, n) ==
  LET d == Whole(f, g, "dex")  b == Whole(f, g, "behavior")  i == Whole(f, g, "infra") IN
    (If(Shares(f, g, "signer"), 25) + If(Shares(f, g, "firebase"), 25)
       + If(Shares(f, g, "payload"), 20)) * d * b * i
    + 15 * Common(f, g, "dex") * b * i
    + 10 * Common(f, g, "behavior") * d * i
    + 5 * Common(f, g, "infra") * d * b
    >= n * d * b * i

\* A bug: a behaviour overlap that is worth a match reason links as well.
ReasonIsLink(f, g) ==
  \/ Shares(f, g, "firebase") \/ Shares(f, g, "signer") \/ Shares(f, g, "payload")
  \/ Alike(f, g, "behavior", 60)

\* is_hard_linked of the correlator.
HardLinked(f, g) ==
  \/ Shares(f, g, "firebase")
  \/ Shares(f, g, "signer")
  \/ Shares(f, g, "payload")
  \/ Alike(f, g, "dex", 85)

\* Similar enough to found a campaign with.
Strong(f, g) == Overall(f, g, 45)
=============================================================================
