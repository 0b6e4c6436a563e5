-------------------------- MODULE ReplayMetaProofs --------------------------
(***************************************************************************)
(* Facts about the metadata operators, and about what the vault's calls do *)
(* with the metadata, for every set of accounts, versions and patches.     *)
(***************************************************************************)
EXTENDS VaultOps, TLAPS

\* Two Metas with the same fields are the same.
LEMMA MetaEquality ==
  ASSUME NEW a \in Meta, NEW b \in Meta,
         a.kind = b.kind, a.also = b.also, a.accounts = b.accounts, a.patch = b.patch,
         a.source = b.source, a.stamp = b.stamp, a.sha = b.sha,
         a.bad = b.bad, a.badVer = b.badVer, a.corrupt = b.corrupt
  PROVE  a = b
BY DEF Meta

\* Reading back what ToS3 wrote gives a Meta.
LEMMA StoredType ==
  ASSUME NEW m \in Meta
  PROVE  Stored(m) \in Meta
BY MetaAssumption DEF Stored, Meta, ProtectedOf

\* A second round trip through the store changes nothing.
LEMMA StoredIdempotent ==
  ASSUME NEW m \in Meta
  PROVE  Stored(Stored(m)) = Stored(m)
BY DEF Stored, Meta, ProtectedOf

\* The kind and the Also list of a merge, as Merge computes them.
LEMMA MergeKind ==
  ASSUME NEW a \in Meta, NEW b \in Meta
  PROVE  LET kind == IF Class(b.kind) > Class(a.kind) THEN b.kind ELSE a.kind
         IN  /\ Merge(a, b).kind = kind
             /\ Merge(a, b).also = ProtectedOf(a.also \cup b.also \cup {a.kind, b.kind}) \ {kind}
BY DEF Merge, Meta

\* Merge of two Metas is a Meta.
LEMMA MergeType ==
  ASSUME NEW a \in Meta, NEW b \in Meta
  PROVE  Merge(a, b) \in Meta
<1> DEFINE kind == IF Class(b.kind) > Class(a.kind) THEN b.kind ELSE a.kind
           also == ProtectedOf(a.also \cup b.also \cup {a.kind, b.kind}) \ {kind}
           bad == a.bad \/ b.bad
           badVer == IF b.bad /\ (b.badVer # None \/ ~a.bad) THEN b.badVer ELSE a.badVer
           corrupt == a.corrupt \/ b.corrupt
<1>1. kind \in Kinds /\ also \in SUBSET Kinds
  BY DEF Meta, ProtectedOf
<1>2. bad \in BOOLEAN /\ corrupt \in BOOLEAN
  OBVIOUS
<1>3. badVer \in {None} \cup Versions
  BY DEF Meta
<1>4. /\ a.accounts \cup b.accounts \in SUBSET Accounts
      /\ (IF a.patch = 0 THEN b.patch ELSE a.patch) \in {0} \cup Patches
      /\ (IF a.source = None THEN b.source ELSE a.source) \in {None} \cup Sources
      /\ (IF a.stamp = None THEN b.stamp ELSE a.stamp) \in {None} \cup Bodies
      /\ (IF a.sha = None THEN b.sha ELSE a.sha) \in {None} \cup Bodies
  BY DEF Meta
<1>5. QED
  BY <1>1, <1>2, <1>3, <1>4 DEF Merge, Meta

\* Writing and reading back keeps the protected kinds.
LEMMA StoredClaims ==
  ASSUME NEW m \in Meta
  PROVE  Claims(Stored(m)) = Claims(m)
BY DEF Claims, Stored, Meta, ProtectedOf

\* Merge forgets no protected kind and invents none: the kinds a replay is kept
\* for after a merge are exactly those of the two sides (Merge and its Also list).
THEOREM MergeKeepsClaims ==
  ASSUME NEW a \in Meta, NEW b \in Meta
  PROVE  Claims(Merge(a, b)) = Claims(a) \cup Claims(b)
<1> DEFINE kind == IF Class(b.kind) > Class(a.kind) THEN b.kind ELSE a.kind
           all == a.also \cup b.also \cup {a.kind, b.kind}
<1>1. Merge(a, b).kind = kind /\ Merge(a, b).also = ProtectedOf(all) \ {kind}
  BY MergeKind
<1>2. kind \in all
  OBVIOUS
<1>3. Claims(Merge(a, b)) = ProtectedOf(all)
  BY <1>1, <1>2 DEF Claims, ProtectedOf
<1>4. QED
  BY <1>3 DEF Claims, ProtectedOf

\* Merging the same hint again changes nothing, so repeating an update whose
\* response was lost is harmless.
THEOREM MergeIdempotent ==
  ASSUME NEW a \in Meta, NEW b \in Meta
  PROVE  Merge(Merge(a, b), b) = Merge(a, b)
<1> DEFINE m == Merge(a, b)
           kind == IF Class(b.kind) > Class(a.kind) THEN b.kind ELSE a.kind
<1>1. m \in Meta /\ Merge(m, b) \in Meta
  BY MergeType
<1>2. /\ m.kind = kind
      /\ m.also = ProtectedOf(a.also \cup b.also \cup {a.kind, b.kind}) \ {kind}
  BY MergeKind
<1>3. Class(a.kind) \in Int /\ Class(b.kind) \in Int
  BY DEF Class
<1>4. ~(Class(b.kind) > Class(kind))
  BY <1>3
<1>5. /\ Merge(m, b).accounts = m.accounts
      /\ Merge(m, b).patch = m.patch
      /\ Merge(m, b).source = m.source
      /\ Merge(m, b).stamp = m.stamp
      /\ Merge(m, b).sha = m.sha
      /\ Merge(m, b).bad = m.bad
      /\ Merge(m, b).badVer = m.badVer
      /\ Merge(m, b).corrupt = m.corrupt
  BY DEF Merge, Meta
<1> HIDE DEF m
<1>6. /\ Merge(m, b).kind = kind
      /\ Merge(m, b).also = ProtectedOf(m.also \cup b.also \cup {kind, b.kind}) \ {kind}
  BY <1>1, <1>2, <1>4, MergeKind
<1>7. Merge(m, b).also = m.also
  <2> HIDE DEF kind
  <2>1. \A x : x \in Merge(m, b).also <=> x \in m.also
    BY <1>2, <1>6 DEF ProtectedOf
  <2>2. QED
    BY <2>1, <1>2, <1>6, Zenon DEF ProtectedOf
<1>8. Merge(m, b).kind = m.kind
  BY <1>2, <1>6
<1>9. QED
  BY <1>1, <1>5, <1>7, <1>8, MetaEquality DEF m

\* The kind a merge keeps has the higher class of the two, in either order.
THEOREM MergeClass ==
  ASSUME NEW a \in Meta, NEW b \in Meta
  PROVE  /\ Class(Merge(a, b).kind) >= Class(a.kind)
         /\ Class(Merge(a, b).kind) >= Class(b.kind)
         /\ Class(Merge(a, b).kind) = Class(Merge(b, a).kind)
<1>1. Class(a.kind) \in Int /\ Class(b.kind) \in Int
  BY DEF Class
<1>2. /\ Merge(a, b).kind = IF Class(b.kind) > Class(a.kind) THEN b.kind ELSE a.kind
      /\ Merge(b, a).kind = IF Class(a.kind) > Class(b.kind) THEN a.kind ELSE b.kind
  BY MergeKind
<1>3. QED
  BY <1>1, <1>2

\* HighestKind of a set of kinds is one of them, and coach for none.
LEMMA HighestKindIn ==
  ASSUME NEW ks \in SUBSET Kinds
  PROVE  IF ks = {} THEN HighestKind(ks) = "coach" ELSE HighestKind(ks) \in ks
<1> DEFINE Best(k) == \A j \in ks \ {k} :
                        \/ Class(j) < Class(k)
                        \/ Class(j) = Class(k) /\ <<k, j>> \in {<<"audit", "camp">>, <<"ladder", "pro">>}
<1>1. CASE ks = {}
  BY <1>1 DEF HighestKind
<1>2. CASE ks # {}
  <2>1. \E k \in ks : Best(k)
    <3>1. CASE "student" \in ks
      BY <3>1 DEF Kinds, Class
    <3>2. CASE "student" \notin ks /\ "audit" \in ks
      BY <3>2 DEF Kinds, Class
    <3>3. CASE ks \cap {"student", "audit"} = {} /\ "camp" \in ks
      BY <3>3 DEF Kinds, Class
    <3>4. CASE ks \cap {"student", "audit", "camp"} = {} /\ "ladder" \in ks
      BY <3>4 DEF Kinds, Class
    <3>5. CASE ks \cap {"student", "audit", "camp", "ladder"} = {} /\ "pro" \in ks
      BY <3>5 DEF Kinds, Class
    <3>6. CASE ks \subseteq {"coach", "unknown"} /\ "coach" \in ks
      BY <3>6 DEF Class
    <3>7. CASE ks = {"unknown"}
      BY <3>7
    <3>8. QED
      BY <1>2, <3>1, <3>2, <3>3, <3>4, <3>5, <3>6, <3>7 DEF Kinds
  <2>2. HighestKind(ks) = CHOOSE k \in ks : Best(k)
    BY <1>2 DEF HighestKind
  <2>3. QED
    BY <1>2, <2>1, <2>2
<1>3. QED
  BY <1>1, <1>2

\* Every function handed to MutateMeta returns a Meta.
LEMMA MutateType ==
  ASSUME NEW o \in Op, NEW m \in Meta
  PROVE  Mutate(o, m) \in Meta
<1>1. o.type \in MutateTypes \cup RemoveTypes \cup {"put"} /\ o.want \in Meta /\ o.ver \in {None} \cup Versions
  BY DEF Op
<1>2. Merge(m, o.want) \in Meta
  BY <1>1, MergeType
<1>3. /\ [m EXCEPT !.bad = TRUE, !.badVer = o.ver] \in Meta
      /\ [m EXCEPT !.bad = FALSE, !.badVer = None] \in Meta
      /\ [m EXCEPT !.corrupt = TRUE] \in Meta
  BY <1>1 DEF Meta
<1>4. Detach(m, o.account) \in Meta
  <2>1. m.also \in SUBSET Kinds /\ m.kind \in Kinds /\ m.accounts \in SUBSET Accounts
    BY DEF Meta
  <2>2. HighestKind(m.also) \in Kinds
    BY <2>1, HighestKindIn DEF Kinds
  <2>3. QED
    BY <2>1, <2>2 DEF Detach, Meta
<1>5. QED
  BY <1>2, <1>3, <1>4 DEF Mutate

\* What a replacement keeps of the old metadata is a Meta.
LEMMA CarryOverType ==
  ASSUME NEW m \in Meta
  PROVE  CarryOver(m) \in Meta
BY DEF CarryOver, Meta
=============================================================================
