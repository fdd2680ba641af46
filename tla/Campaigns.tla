----------------------------- MODULE Campaigns -----------------------------
(***************************************************************************)
(* Campaign correlation: CampaignCorrelator.correlate with a repository    *)
(* (deceptiscope/frauddna/campaigns.py) and the tables of class            *)
(* FraudDNARepository (core/repository.py), for analyses that end at the   *)
(* same time in several workers.                                           *)
(*                                                                         *)
(* A correlation is one transaction of several statements.  SQLite runs it *)
(* under BEGIN IMMEDIATE, one at a time; PostgreSQL runs it at its default *)
(* level READ COMMITTED, where every statement sees what others have       *)
(* committed by then.  What a transaction writes is written at its commit: *)
(* nobody else sees it before, and its own later reads exclude or do not   *)
(* need it.                                                                *)
(***************************************************************************)
EXTENDS Similarity

CONSTANTS
  Sample,       \* APK digests
  Fingerprint,  \* what an analysis may extract from a sample
  Process,      \* workers that analyse
  NULL,
  MaxCampaign,  \* the last number that fits CAMP-ddd: 999
  Isolated      \* TRUE on SQLite, FALSE on PostgreSQL

ASSUME CampaignAssumption ==
  /\ NULL \notin Sample \cup Fingerprint
  /\ MaxCampaign \in Nat \ {0}
  /\ Isolated \in BOOLEAN
  /\ \A f \in Fingerprint, p \in {"signer", "firebase", "payload", "dex", "behavior", "infra"} :
       IsFiniteSet(f[p])

VARIABLES
  corpus,   \* frauddna_fingerprints: [Sample -> fingerprint or NULL]
  shared,   \* campaigns: their numbers -> what their members share
  members,  \* campaign_members: pairs <<number, sample>>
  tx,       \* [Process -> its transaction]
  links,    \* history: samples that a committed correlation found anchored
  brought   \* history: [1 .. MaxCampaign -> what was ever merged into it]

vars == <<corpus, shared, members, tx, links, brought>>

NoTx == [pc |-> "idle", sample |-> NULL, fp |-> NULL, hard |-> {}, strong |-> {},
         linked |-> {}, target |-> 0, merged |-> {}, joins |-> {}]

Init ==
  /\ corpus = [s \in Sample |-> NULL]
  /\ shared = <<>>
  /\ members = {}
  /\ tx = [p \in Process |-> NoTx]
  /\ links = {}
  /\ brought = [c \in 1 .. MaxCampaign |-> {}]

-----------------------------------------------------------------------------

\* What a fingerprint contributes to the columns of its campaign (of the
\* infrastructure, the domains and URLs).
Contribution(f) == {"signer"} \X f.signer \cup {"firebase"} \X f.firebase
                   \cup {"behavior"} \X f.behavior \cup {"infra"} \X f.infra

CampaignsOf(s) == {c \in DOMAIN shared : <<c, s>> \in members}

\* A bug: the sample's own contribution replaces the campaign's.
EnrichedAnew(c, f) == Contribution(f)

Enriched(c, f) == shared[c] \cup Contribution(f)

\* generate_next_campaign_id: one more than the largest number.
NextId ==
  IF DOMAIN shared = {} THEN 1
  ELSE 1 + CHOOSE n \in DOMAIN shared : \A c \in DOMAIN shared : c <= n

\* The anchors that the documentation of CampaignCorrelator requires for
\* joining a campaign (campaigns.py:24-28).
Anchored(f, g) ==
  \/ \E part \in {"firebase", "signer", "payload"} : Shares(f, g, part)
  \/ Alike(f, g, "dex", 85)

-----------------------------------------------------------------------------

\* A digest determines the file, and with it all that is read from the file;
\* behaviour, traffic and recovered payloads may differ between two analyses.
SameFile(f, g) == f.signer = g.signer /\ f.firebase = g.firebase /\ f.dex = g.dex

\* BEGIN; save_fingerprint.  The row of the sample is locked until the end; on
\* SQLite the database is.
Begin(p) ==
  /\ tx[p].pc = "idle"
  /\ \E s \in Sample, f \in Fingerprint :
       /\ corpus[s] # NULL => SameFile(f, corpus[s])
       /\ \A q \in Process : tx[q].sample # s
       /\ Isolated => \A q \in Process : tx[q].pc = "idle"
       /\ tx' = [tx EXCEPT ![p] = [@ EXCEPT !.pc = "compare", !.sample = s, !.fp = f]]
  /\ UNCHANGED <<corpus, shared, members, links, brought>>

Known(p) == {s \in Sample \ {tx[p].sample} : corpus[s] # NULL}

\* A bug: only samples that are in a campaign are compared.
CompareMembers(p) ==
  LET f == tx[p].fp
      others == {s \in Known(p) : CampaignsOf(s) # {}} IN
  /\ tx[p].pc = "compare"
  /\ tx' = [tx EXCEPT ![p] = [@ EXCEPT
       !.pc = "decide",
       !.hard = {s \in others : HardLinked(f, corpus[s])},
       !.strong = {s \in others : Strong(f, corpus[s])},
       !.linked = {s \in others : Anchored(f, corpus[s])}]]
  /\ UNCHANGED <<corpus, shared, members, links, brought>>

\* list_fingerprints, and the comparison with each of them.
Compare(p) ==
  LET f == tx[p].fp IN
  /\ tx[p].pc = "compare"
  /\ tx' = [tx EXCEPT ![p] = [@ EXCEPT
       !.pc = "decide",
       !.hard = {s \in Known(p) : HardLinked(f, corpus[s])},
       !.strong = {s \in Known(p) : Strong(f, corpus[s])},
       !.linked = {s \in Known(p) : Anchored(f, corpus[s])}]]
  /\ UNCHANGED <<corpus, shared, members, links, brought>>

\* The campaigns the sample may be put into: those of samples it is hard-linked
\* to, or else its own.  The first one in the order of the corpus is taken, and
\* of several campaigns of one sample any (LIMIT 1).
Targets(p) ==
  LET anchors == UNION {CampaignsOf(s) : s \in tx[p].hard}
  IN IF anchors # {} THEN anchors ELSE CampaignsOf(tx[p].sample)

\* The sample joins a campaign, whose columns are read to be merged.
Join(p) ==
  /\ tx[p].pc = "decide"
  /\ \E c \in Targets(p) :
       tx' = [tx EXCEPT ![p] = [@ EXCEPT !.pc = "commit", !.target = c,
                                         !.merged = Enriched(c, tx[p].fp),
                                         !.joins = {tx[p].sample}]]
  /\ UNCHANGED <<corpus, shared, members, links, brought>>

\* The sample founds a campaign with those that are similar enough.
Found(p) ==
  /\ tx[p].pc = "decide"
  /\ Targets(p) = {} /\ tx[p].strong # {}
  /\ NextId <= MaxCampaign
  /\ tx' = [tx EXCEPT ![p] = [@ EXCEPT !.pc = "commit", !.target = NextId,
                                       !.merged = Contribution(tx[p].fp),
                                       !.joins = {tx[p].sample} \cup tx[p].strong]]
  /\ UNCHANGED <<corpus, shared, members, links, brought>>

\* The sample stays alone.
Pass(p) ==
  /\ tx[p].pc = "decide"
  /\ Targets(p) = {} /\ tx[p].strong = {}
  /\ tx' = [tx EXCEPT ![p] = [@ EXCEPT !.pc = "commit"]]
  /\ UNCHANGED <<corpus, shared, members, links, brought>>

\* save_campaign, which inserts the row or overwrites it, and COMMIT.
Commit(p) ==
  LET t == tx[p]  c == t.target IN
  /\ t.pc = "commit"
  /\ corpus' = [corpus EXCEPT ![t.sample] = t.fp]
  /\ shared' = IF c = 0 THEN shared
               ELSE [i \in DOMAIN shared \cup {c} |-> IF i = c THEN t.merged ELSE shared[i]]
  /\ members' = members \cup ({c} \X t.joins)
  /\ links' = links \cup {{t.sample, s} : s \in t.linked}
  /\ brought' = IF c = 0 THEN brought
                ELSE [brought EXCEPT ![c] = @ \cup Contribution(t.fp)]
  /\ tx' = [tx EXCEPT ![p] = NoTx]

\* A bug: the statements are not one transaction.
RollbackKeepsMembers(p) ==
  /\ tx[p].pc # "idle"
  /\ members' = members \cup ({tx[p].target} \X tx[p].joins)
  /\ tx' = [tx EXCEPT ![p] = NoTx]
  /\ UNCHANGED <<corpus, shared, links, brought>>

\* The worker dies or the database is away, or the 1000th campaign does not fit
\* the pattern of campaign_id: the transaction is rolled back.
Rollback(p) ==
  /\ tx[p].pc # "idle"
  /\ tx' = [tx EXCEPT ![p] = NoTx]
  /\ UNCHANGED <<corpus, shared, members, links, brought>>

Next ==
  \E p \in Process :
    \/ Begin(p) \/ Compare(p) \/ Join(p) \/ Found(p) \/ Pass(p)
    \/ Commit(p) \/ Rollback(p)

Spec == Init /\ [][Next]_vars

-----------------------------------------------------------------------------
(* Properties *)

Attribute == UNION {Contribution(f) : f \in Fingerprint}

CampaignTypeOK ==
  /\ corpus \in [Sample -> Fingerprint \cup {NULL}]
  /\ DOMAIN shared \subseteq 1 .. MaxCampaign
  /\ \A c \in DOMAIN shared : shared[c] \subseteq Attribute
  /\ members \subseteq (DOMAIN shared) \X {s \in Sample : corpus[s] # NULL}
  /\ \A p \in Process :
       /\ tx[p].pc \in {"idle", "compare", "decide", "commit"}
       /\ tx[p].target \in 0 .. MaxCampaign
       /\ tx[p].joins \subseteq Sample
  /\ links \subseteq SUBSET Sample

MembersOf(c) == {s \in Sample : <<c, s>> \in members}

\* campaigns.py:24-31, "Hard Link Anchors (Required for campaign joining)": the
\* members of a campaign hang together by anchors that were found between
\* them; a campaign never holds two families that no anchor links.
MembersAreLinked ==
  \A c \in DOMAIN shared :
    \A part \in (SUBSET MembersOf(c)) \ {{}, MembersOf(c)} :
      \E s \in part, r \in MembersOf(c) \ part : {s, r} \in links

\* The columns of a campaign keep what every analysis of a member brought.
AttributesKept == \A c \in DOMAIN shared : brought[c] \subseteq shared[c]

\* Of two samples that are similar enough to found a campaign, whichever was
\* analysed last is in one.
StrongPairIsFound ==
  \A s, r \in {i \in Sample : corpus[i] # NULL} :
    s # r /\ Strong(corpus[s], corpus[r]) => CampaignsOf(s) \cup CampaignsOf(r) # {}

\* The weights leave no way to the founding threshold without an anchor, so
\* that founding, which does not ask for one, is as strict as joining.
UnanchoredNeverStrong ==
  \A s, r \in {i \in Sample : corpus[i] # NULL} :
    s # r /\ Strong(corpus[s], corpus[r]) => Anchored(corpus[s], corpus[r])
=============================================================================
