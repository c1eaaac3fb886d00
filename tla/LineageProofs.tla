--------------------------- MODULE LineageProofs ---------------------------
(***************************************************************************)
(* What holds of the lineage of any book: how documents are ordered, what  *)
(* staleness is, and what an unchanged guard says of two books.            *)
(***************************************************************************)
EXTENDS Lineage, FiniteSetTheorems, TLAPS

\* What a slot is made of.
LEMMA SlotParts ==
  ASSUME NEW s \in Slots
  PROVE  /\ s = <<Chapter(s), Kind(s), PageNo(s)>>
         /\ Chapter(s) \in Nat /\ Kind(s) \in Kinds /\ PageNo(s) \in Nat
         /\ Chapter(s) = 0 <=> s = Settings
         /\ Kind(s) = "settings" <=> s = Settings
         /\ s # Settings => Chapter(s) \in Chapters
         /\ Kind(s) = "page_prompt" => PageNo(s) \in Pages
         /\ Kind(s) # "page_prompt" => PageNo(s) = 0
<1>1. Chapters \subseteq Nat \ {0} /\ Pages \subseteq Nat \ {0}
  BY LineageAssumption
<1>2. CASE s = Settings
  BY <1>1, <1>2 DEF Settings, Chapter, Kind, PageNo, Kinds
<1>3. CASE s \in Chapters \X {"script", "storyboard"} \X {0}
  <2>1. PICK c \in Chapters, k \in {"script", "storyboard"} : s = <<c, k, 0>>
    BY <1>3
  <2> QED BY <2>1, <1>1 DEF Settings, Chapter, Kind, PageNo, Kinds
<1>4. CASE s \in Chapters \X {"page_prompt"} \X Pages
  <2>1. PICK c \in Chapters, p \in Pages : s = <<c, "page_prompt", p>>
    BY <1>4
  <2> QED BY <2>1, <1>1 DEF Settings, Chapter, Kind, PageNo, Kinds
<1> QED BY <1>2, <1>3, <1>4 DEF Slots

\* The rank of each stage.
LEMMA Ranks ==
  /\ stageRank["settings"] = 0 /\ stageRank["script"] = 1
  /\ stageRank["storyboard"] = 2 /\ stageRank["page_prompt"] = 3
  BY DEF stageRank

\* Upstream documents are saved documents that precede.
LEMMA UpstreamPrecedes ==
  ASSUME NEW b, NEW s \in Slots, NEW t \in upstream(b, s)
  PROVE  t \in Slots /\ Exists(b, t) /\ Precedes(t, s)
<1>1. t \in Slots /\ Exists(b, t) /\ DependsOn(b, s, t)
  BY DEF upstream
<1>2. Precedes(t, s)
  BY <1>1, SlotParts, Ranks, LineageAssumption DEF DependsOn, Precedes, Kinds, Settings, Chapter, Kind, PageNo
<1> QED BY <1>1, <1>2

\* Two steps up are one step up, but for the storyboard of an earlier page.
LEMMA UpstreamHops ==
  ASSUME NEW b, NEW s \in Slots, NEW t \in upstream(b, s), NEW u \in upstream(b, t),
         u \notin upstream(b, s)
  PROVE  Kind(t) = "page_prompt" /\ u = Storyboard(Chapter(t))
<1>1. /\ t \in Slots /\ Exists(b, t) /\ DependsOn(b, s, t)
      /\ u \in Slots /\ Exists(b, u) /\ DependsOn(b, t, u) /\ ~DependsOn(b, s, u)
  BY DEF upstream
<1> HIDE DEF upstream
<1>2. Kind(t) # "settings" /\ Kind(s) # "settings" /\ u # Settings /\ Kind(u) # "settings"
  BY <1>1, SlotParts DEF DependsOn
<1>3. Chapter(t) \in Nat /\ Chapter(s) \in Nat /\ Chapter(u) \in Nat /\ PageNo(t) \in Nat /\ PageNo(s) \in Nat /\ PageNo(u) \in Nat
      /\ Kind(t) \in Kinds /\ Kind(u) \in Kinds /\ Kind(s) \in Kinds
  BY <1>1, SlotParts
<1>4. t # Settings
  BY <1>1, <1>2, SlotParts
<1>5. Kind(t) = "page_prompt" /\ Chapter(u) = Chapter(t) /\ Kind(u) = "storyboard"
  BY <1>1, <1>2, <1>3, <1>4, Ranks DEF DependsOn, Kinds
<1>6. u = <<Chapter(u), Kind(u), PageNo(u)>> /\ PageNo(u) = 0
  BY <1>1, <1>5, SlotParts
<1> QED BY <1>5, <1>6 DEF Storyboard

\* What is upstream of a storyboard is upstream of its pages.
LEMMA StoryboardIsInherited ==
  ASSUME NEW b, NEW t \in Slots, Kind(t) = "page_prompt", NEW v \in upstream(b, Storyboard(Chapter(t)))
  PROVE  v \in upstream(b, t)
<1>1. v \in Slots /\ Exists(b, v) /\ DependsOn(b, Storyboard(Chapter(t)), v)
  BY DEF upstream
<1>2. Kind(v) \in Kinds
  BY <1>1, SlotParts
<1>3. DependsOn(b, t, v)
  BY <1>1, <1>2, Ranks DEF DependsOn, Kinds, Storyboard, Chapter, Kind
<1> QED BY <1>1, <1>3 DEF upstream

---------------------------------------------------------------------------
(* Documents in pipeline order.                                            *)

\* A work has finitely many slots.
LEMMA FiniteSlots ==
  /\ IsFiniteSet(Slots)
  /\ \A S \in SUBSET Slots : IsFiniteSet(S) /\ Cardinality(S) \in Nat
<1> DEFINE T == ((Chapters \cup {0}) \X Kinds) \X (Pages \cup {0})
           f == [s \in Slots |-> <<<<Chapter(s), Kind(s)>>, PageNo(s)>>]
<1>1. IsFiniteSet(Chapters \cup {0}) /\ IsFiniteSet(Pages \cup {0})
  BY LineageAssumption, FS_AddElement
<1>2. IsFiniteSet(Kinds)
  <2>1. Kinds = {} \cup {"settings"} \cup {"script"} \cup {"storyboard"} \cup {"page_prompt"}
    BY DEF Kinds
  <2> QED BY <2>1, FS_EmptySet, FS_AddElement
<1>3. IsFiniteSet(T)
  BY <1>1, <1>2, FS_Product
<1>4. f \in [Slots -> T]
  <2> SUFFICES ASSUME NEW s \in Slots PROVE <<<<Chapter(s), Kind(s)>>, PageNo(s)>> \in T
    OBVIOUS
  <2>1. Chapter(s) \in Chapters \cup {0} /\ Kind(s) \in Kinds /\ PageNo(s) \in Pages \cup {0}
    BY SlotParts
  <2> QED BY <2>1
<1>5. ASSUME NEW s \in Slots, NEW t \in Slots, f[s] = f[t] PROVE s = t
  <2>1. Chapter(s) = Chapter(t) /\ Kind(s) = Kind(t) /\ PageNo(s) = PageNo(t)
    BY <1>5
  <2> QED BY <2>1, SlotParts
<1> HIDE DEF T, f
<1>6. f \in Injection(Slots, T)
  BY <1>4, <1>5 DEF Injection, IsInjective
<1>7. IsFiniteSet(Slots)
  BY <1>3, <1>6, FS_Injection
<1>8. \A S \in SUBSET Slots : IsFiniteSet(S)
  BY <1>7, FS_Subset
<1>9. \A S \in SUBSET Slots : Cardinality(S) \in Nat
  BY <1>8, FS_CardinalityType
<1> QED BY <1>7, <1>8, <1>9

\* Pipeline order is a strict total order on slots.
LEMMA PipelineOrder ==
  /\ \A s \in Slots : ~Precedes(s, s)
  /\ \A s, t \in Slots : s = t \/ Precedes(s, t) \/ Precedes(t, s)
  /\ \A s, t, u \in Slots : Precedes(s, t) /\ Precedes(t, u) => Precedes(s, u)
<1>1. \A s \in Slots : /\ Chapter(s) \in Nat /\ PageNo(s) \in Nat /\ Kind(s) \in Kinds
                       /\ s = <<Chapter(s), Kind(s), PageNo(s)>>
                       /\ stageRank[Kind(s)] \in Nat
  BY SlotParts, Ranks DEF Kinds
<1>2. \A k, l \in Kinds : stageRank[k] = stageRank[l] => k = l
  BY Ranks DEF Kinds
<1>3. \A s \in Slots : ~Precedes(s, s)
  BY <1>1 DEF Precedes
<1>4. ASSUME NEW s \in Slots, NEW t \in Slots, ~Precedes(s, t), ~Precedes(t, s) PROVE s = t
  <2>1. Chapter(s) = Chapter(t)
    BY <1>1, <1>4 DEF Precedes
  <2>2. Kind(s) = Kind(t)
    BY <1>1, <1>2, <1>4, <2>1 DEF Precedes
  <2>3. PageNo(s) = PageNo(t)
    BY <1>1, <1>4, <2>1, <2>2 DEF Precedes
  <2> QED BY <1>1, <2>1, <2>2, <2>3
<1>5. ASSUME NEW s \in Slots, NEW t \in Slots, NEW u \in Slots, Precedes(s, t), Precedes(t, u)
      PROVE  Precedes(s, u)
  BY <1>1, <1>2, <1>5 DEF Precedes
<1> QED BY <1>3, <1>4, <1>5

\* inOrder lists a set of slots, each once, in pipeline order.
LEMMA InOrder ==
  ASSUME NEW S \in SUBSET Slots
  PROVE  /\ inOrder(S) \in Seq(Slots) /\ Len(inOrder(S)) = Cardinality(S)
         /\ \A i \in DOMAIN inOrder(S) : inOrder(S)[i] \in S
         /\ \A s \in S : \E i \in DOMAIN inOrder(S) : inOrder(S)[i] = s
         /\ \A i, k \in DOMAIN inOrder(S) : i < k => Precedes(inOrder(S)[i], inOrder(S)[k])
<1> DEFINE before(s) == {t \in S : Precedes(t, s)}
           n == Cardinality(S)
           ranks == 1..n
           rank == [s \in S |-> Cardinality(before(s)) + 1]
<1>1. IsFiniteSet(S) /\ n \in Nat
  BY FiniteSlots
<1>2. \A s \in S : IsFiniteSet(before(s)) /\ Cardinality(before(s)) \in Nat
  <2> TAKE s \in S
  <2>1. before(s) \in SUBSET Slots
    OBVIOUS
  <2> QED BY <2>1, FiniteSlots
<1>3. rank \in [S -> ranks]
  <2> SUFFICES ASSUME NEW s \in S PROVE Cardinality(before(s)) + 1 <= n
    BY <1>1, <1>2
  <2>1. before(s) \in SUBSET (S \ {s})
    BY PipelineOrder
  <2>2. IsFiniteSet(S \ {s}) /\ Cardinality(S \ {s}) = n - 1
    BY <1>1, FS_RemoveElement
  <2> HIDE DEF before
  <2>3. Cardinality(before(s)) <= Cardinality(S \ {s})
    BY <2>1, <2>2, FS_Subset
  <2> QED BY <1>1, <1>2, <2>2, <2>3
<1>4. ASSUME NEW s \in S, NEW t \in S, Precedes(s, t) PROVE rank[s] < rank[t]
  <2>1. before(s) \in SUBSET before(t) /\ s \in before(t) /\ s \notin before(s)
    BY <1>4, PipelineOrder
  <2> HIDE DEF before
  <2>2. Cardinality(before(s)) <= Cardinality(before(t)) /\ Cardinality(before(s)) # Cardinality(before(t))
    BY <2>1, <1>2, FS_Subset
  <2> QED BY <2>2, <1>2
<1>5. \A s \in S : rank[s] \in ranks
  BY <1>3
<1>6. \A s, t \in S : rank[s] = rank[t] => s = t
  <2> TAKE s, t \in S
  <2> HAVE rank[s] = rank[t]
  <2>1. rank[s] \in Int /\ rank[t] \in Int
    BY <1>1, <1>5
  <2>2. ~Precedes(s, t) /\ ~Precedes(t, s)
    BY <2>1, <1>4
  <2> QED BY <2>2, PipelineOrder
<1>7. \A i \in ranks : \E s \in S : rank[s] = i
  <2> HIDE DEF rank, before
  <2>1. rank \in Injection(S, ranks)
    BY <1>3, <1>6 DEF Injection, IsInjective
  <2>2. IsFiniteSet(ranks) /\ Cardinality(ranks) = n
    BY <1>1, FS_Interval
  <2> HIDE DEF ranks
  <2>3. rank \in Surjection(S, ranks)
    BY <1>1, <2>1, <2>2, FS_Injection
  <2> QED BY <2>3 DEF Surjection
<1>8. ASSUME NEW i \in ranks PROVE inOrder(S)[i] \in S /\ rank[inOrder(S)[i]] = i
  <2>1. PICK s \in S : rank[s] = i
    BY <1>7
  <2>2. Cardinality(before(s)) = i - 1
    BY <1>1, <1>2, <2>1
  <2>3. inOrder(S)[i] = CHOOSE x \in S : Cardinality(before(x)) = i - 1
    BY DEF inOrder
  <2> HIDE DEF before
  <2>4. inOrder(S)[i] \in S /\ Cardinality(before(inOrder(S)[i])) = i - 1
    BY <2>2, <2>3
  <2> QED BY <1>1, <2>4
<1>9. inOrder(S) \in Seq(Slots) /\ Len(inOrder(S)) = n /\ DOMAIN inOrder(S) = ranks
  <2>1. DOMAIN inOrder(S) = 1..n /\ inOrder(S) = [i \in 1..n |-> inOrder(S)[i]]
    BY DEF inOrder
  <2>2. inOrder(S) \in [1..n -> Slots]
    BY <2>1, <1>8
  <2> QED BY <1>1, <2>1, <2>2
<1> HIDE DEF rank, before
<1>10. \A s \in S : \E i \in DOMAIN inOrder(S) : inOrder(S)[i] = s
  BY <1>5, <1>6, <1>8, <1>9
<1>11. \A i, k \in DOMAIN inOrder(S) : i < k => Precedes(inOrder(S)[i], inOrder(S)[k])
  <2> TAKE i, k \in DOMAIN inOrder(S)
  <2> HAVE i < k
  <2> DEFINE s == inOrder(S)[i]
             t == inOrder(S)[k]
  <2>1. s \in S /\ t \in S /\ rank[s] = i /\ rank[t] = k /\ i \in Int /\ k \in Int
    BY <1>1, <1>8, <1>9
  <2> HIDE DEF s, t
  <2>2. s # t /\ ~Precedes(t, s)
    BY <2>1, <1>4
  <2>3. Precedes(s, t)
    BY <2>1, <2>2, PipelineOrder
  <2> QED BY <2>3 DEF s, t
<1> QED BY <1>8, <1>9, <1>10, <1>11

\* A set of slots has a first one.
LEMMA FirstInOrder ==
  ASSUME NEW S \in SUBSET Slots, S # {}
  PROVE  inOrder(S)[1] \in S /\ \A s \in S : ~Precedes(s, inOrder(S)[1])
<1>1. /\ \A i \in DOMAIN inOrder(S) : inOrder(S)[i] \in S
      /\ \A s \in S : \E i \in DOMAIN inOrder(S) : inOrder(S)[i] = s
      /\ \A i, k \in DOMAIN inOrder(S) : i < k => Precedes(inOrder(S)[i], inOrder(S)[k])
      /\ inOrder(S) \in Seq(Slots)
  BY InOrder
<1>2. 1 \in DOMAIN inOrder(S) /\ \A i \in DOMAIN inOrder(S) : i \in Nat /\ i >= 1
  BY <1>1
<1>3. inOrder(S)[1] \in S
  BY <1>1, <1>2
<1>4. ASSUME NEW s \in S, Precedes(s, inOrder(S)[1]) PROVE FALSE
  <2>1. PICK i \in DOMAIN inOrder(S) : inOrder(S)[i] = s
    BY <1>1
  <2>2. i = 1 \/ Precedes(inOrder(S)[1], s)
    BY <1>1, <1>2, <2>1
  <2> QED BY <1>3, <1>4, <2>1, <2>2, PipelineOrder
<1> QED BY <1>3, <1>4

---------------------------------------------------------------------------
(* Staleness.                                                              *)

changedDocuments(b) == {s \in Slots : Exists(b, s) /\ b.docs[s].receipt # receipt(b, s)}

\* The documents whose own receipt, or that of something at most two steps up,
\* no longer holds.
brokenWithin2(b, s) ==
  \/ s \in changedDocuments(b)
  \/ \E t \in upstream(b, s) : \/ t \in changedDocuments(b)
                              \/ \E u \in upstream(b, t) : u \in changedDocuments(b)

\* Broken is what has changed or stands on something broken.
LEMMA BrokenEquation ==
  ASSUME NEW b, NEW s \in Slots
  PROVE  brokenWithin2(b, s) <=>
           s \in changedDocuments(b) \/ \E t \in upstream(b, s) : brokenWithin2(b, t)
<1>1. \A t \in upstream(b, s) : t \in Slots
  BY UpstreamPrecedes
<1>2. ASSUME NEW t \in upstream(b, s), NEW u \in upstream(b, t), NEW v \in upstream(b, u),
             v \in changedDocuments(b)
      PROVE  brokenWithin2(b, s)
  <2>1. CASE u \in upstream(b, s)
    BY <2>1, <1>2 DEF brokenWithin2
  <2>2. CASE u \notin upstream(b, s)
    <3>1. v \in upstream(b, t)
      BY <2>2, <1>1, UpstreamHops, StoryboardIsInherited
    <3> QED BY <3>1, <1>2 DEF brokenWithin2
  <2> QED BY <2>1, <2>2
<1> QED BY <1>1, <1>2 DEF brokenWithin2

\* loadBook's loop has this one outcome: staleness spreads two steps at most.
THEOREM StaleIsBroken ==
  ASSUME NEW b
  PROVE  staleDocuments(b) = {s \in Slots : Exists(b, s) /\ brokenWithin2(b, s)}
<1> DEFINE changed == changedDocuments(b)
           F == [s \in Slots |-> brokenWithin2(b, s)]
           stale == CHOOSE f : f = [s \in Slots |-> s \in changed \/ \E t \in upstream(b, s) : f[t]]
           wrong == {s \in Slots : stale[s] # brokenWithin2(b, s)}
<1>1. F = [s \in Slots |-> s \in changed \/ \E t \in upstream(b, s) : F[t]]
  <2> SUFFICES ASSUME NEW s \in Slots PROVE F[s] <=> (s \in changed \/ \E t \in upstream(b, s) : F[t])
    BY DEF brokenWithin2
  <2>1. \A t \in upstream(b, s) : t \in Slots
    BY UpstreamPrecedes
  <2> QED BY <2>1, BrokenEquation
<1> HIDE DEF F
<1>2. stale = [s \in Slots |-> s \in changed \/ \E t \in upstream(b, s) : stale[t]]
  BY <1>1
<1>3. staleDocuments(b) = {s \in Slots : Exists(b, s) /\ stale[s]}
  BY DEF staleDocuments, changedDocuments
<1> HIDE DEF stale
<1>4. wrong = {}
  <2> SUFFICES ASSUME wrong # {} PROVE FALSE
    OBVIOUS
  <2>1. PICK m \in wrong : \A s \in wrong : ~Precedes(s, m)
    <3>1. wrong \in SUBSET Slots
      OBVIOUS
    <3> HIDE DEF wrong
    <3> QED BY <3>1, FirstInOrder
  <2>2. \A t \in upstream(b, m) : t \in Slots /\ stale[t] = brokenWithin2(b, t)
    BY <2>1, UpstreamPrecedes
  <2>3. stale[m] = (m \in changed \/ \E t \in upstream(b, m) : stale[t])
    BY <1>2
  <2>4. brokenWithin2(b, m) <=> (m \in changed \/ \E t \in upstream(b, m) : brokenWithin2(b, t))
    BY BrokenEquation
  <2>5. stale[m] \in BOOLEAN /\ brokenWithin2(b, m) \in BOOLEAN
    BY <2>3 DEF brokenWithin2
  <2> HIDE DEF changed
  <2> QED BY <2>1, <2>2, <2>3, <2>4, <2>5
<1> QED BY <1>3, <1>4

\* loadBook's loop decides each document from those upstream of it.
LEMMA StaleEquation ==
  ASSUME NEW b, NEW s \in Slots
  PROVE  s \in staleDocuments(b) <=>
           /\ Exists(b, s)
           /\ s \in changedDocuments(b) \/ upstream(b, s) \cap staleDocuments(b) # {}
<1>1. \A t \in upstream(b, s) : t \in Slots /\ Exists(b, t)
  BY UpstreamPrecedes
<1> QED BY <1>1, StaleIsBroken, BrokenEquation

\* The settings, written against nothing, never become stale.
LEMMA SettingsAreCurrent ==
  ASSUME NEW b, b.docs[Settings].receipt = {}
  PROVE  Settings \notin staleDocuments(b)
<1>1. Settings \in Slots /\ Kind(Settings) = "settings"
  BY DEF Slots, Settings, Kind
<1>2. upstream(b, Settings) = {} /\ receipt(b, Settings) = {}
  BY <1>1 DEF upstream, DependsOn, receipt
<1> QED BY <1>1, <1>2, StaleEquation DEF changedDocuments

---------------------------------------------------------------------------
(* What the code computes of a book has the type it is kept in.            *)

NewBodies == [Slots -> Texts \cup {0}]

\* A book's parts.
LEMMA BookParts ==
  ASSUME NEW b \in Books
  PROVE  /\ \A s \in Slots : /\ b.docs[s] \in Document
                             /\ b.docs[s].revision \in Nat /\ Text(b, s) \in Texts \cup {0}
                             /\ b.docs[s].receipt \in Receipts
                             /\ Exists(b, s) <=> Text(b, s) # 0
                             /\ Text(b, s) \in Nat /\ StatePart(b, s) \in Nat
                             /\ StatePart(b, s) # 0 <=> Exists(b, s)
                             /\ Issues(b, s) \in BOOLEAN
         /\ \A c \in Chapters : /\ b.source[c] \in Sourced
                                /\ b.source[c].revision \in Nat /\ b.source[c].text \in Nat
         /\ b.docs[Settings].receipt = {}
         /\ b.docs \in [Slots -> Document] /\ b.source \in [Chapters -> Sourced]
         /\ b = [docs |-> b.docs, source |-> b.source]
<1>1. Texts \subseteq Nat \ {0} /\ Part \in [Texts -> Nat \ {0}] /\ Complete \in [Texts -> BOOLEAN]
  BY LineageAssumption
<1>2. /\ b \in [docs : [Slots -> Document], source : [Chapters -> Sourced]]
      /\ \A s \in Slots : Exists(b, s) <=> Text(b, s) # 0
      /\ b.docs[Settings].receipt = {}
  BY DEF Books
<1>3. /\ b.docs \in [Slots -> Document] /\ b.source \in [Chapters -> Sourced]
      /\ b = [docs |-> b.docs, source |-> b.source]
  BY <1>2
<1>4. ASSUME NEW s \in Slots
      PROVE  /\ b.docs[s] \in Document
             /\ b.docs[s].revision \in Nat /\ Text(b, s) \in Texts \cup {0}
             /\ b.docs[s].receipt \in Receipts /\ Text(b, s) \in Nat
  <2>1. b.docs[s] \in Document
    BY <1>3
  <2>2. /\ b.docs[s].revision \in Nat /\ b.docs[s].text \in Texts \cup {0}
        /\ b.docs[s].receipt \in Receipts
    BY <2>1 DEF Document
  <2>3. Texts \cup {0} \subseteq Nat
    BY <1>1
  <2> QED BY <2>1, <2>2, <2>3 DEF Text
<1>5. ASSUME NEW s \in Slots
      PROVE  StatePart(b, s) \in Nat /\ (StatePart(b, s) # 0 <=> Exists(b, s))
  BY <1>1, <1>2, <1>4 DEF StatePart
<1>6. ASSUME NEW c \in Chapters
      PROVE  /\ b.source[c] \in Sourced
             /\ b.source[c].revision \in Nat /\ b.source[c].text \in Nat
  <2>1. b.source[c] \in Sourced
    BY <1>3
  <2>2. Texts \cup {0} \subseteq Nat
    BY <1>1
  <2> QED BY <2>1, <2>2 DEF Sourced
<1>7. \A s \in Slots : Issues(b, s) \in BOOLEAN
  BY DEF Issues
<1> QED BY <1>2, <1>3, <1>4, <1>5, <1>6, <1>7

\* A plan lists pages.
LEMMA PlannedPages ==
  ASSUME NEW b \in Books, NEW c \in Chapters
  PROVE  Plan(b, c) \subseteq Pages
<1> SUFFICES ASSUME NEW p \in Plan(b, c) PROVE p \in Pages
  OBVIOUS
<1>1. HasPlan(b, c) /\ p \in ToSet(PageList[Text(b, Storyboard(c))])
  BY DEF Plan
<1>2. Text(b, Storyboard(c)) \in Texts
  <2>1. Exists(b, Storyboard(c)) /\ Storyboard(c) \in Slots
    BY <1>1 DEF HasPlan, Storyboard, Slots
  <2>2. Text(b, Storyboard(c)) \in Texts \cup {0} /\ Text(b, Storyboard(c)) # 0
    BY <2>1, BookParts
  <2> QED BY <2>2
<1>3. PageList[Text(b, Storyboard(c))] \in Seq(Pages)
  BY <1>2, LineageAssumption
<1> QED BY <1>1, <1>3 DEF ToSet

\* Today's upstream content is a receipt.
LEMMA ReceiptIsTyped ==
  ASSUME NEW b, NEW s, Kind(s) = "settings" \/ (Kind(s) \in Kinds /\ Chapter(s) \in Chapters),
         \A t \in Slots : Text(b, t) \in Nat /\ StatePart(b, t) \in Nat,
         \A c \in Chapters : b.source[c].text \in Nat
  PROVE  receipt(b, s) \in Receipts
<1> DEFINE Inputs1 == {"source", "settings", "script", "storyboard", "state"}
           All == Inputs1 \X (Chapters \cup {0}) \X (Pages \cup {0}) \X Nat
           A == {<<"source", Chapter(s), 0, b.source[Chapter(s)].text>>}
           U == {u \in Slots : /\ Chapter(u) \in {0, Chapter(s)}
                                /\ stageRank[Kind(u)] < stageRank[Kind(s)]}
           B == {<<Kind(t), Chapter(t), 0, Text(b, t)>> : t \in U}
           C == {<<"script", c, 0, StatePart(b, <<c, "script", 0>>)>> :
                   c \in {d \in Chapters : d < Chapter(s)}}
           V == {u \in upstream(b, s) : Kind(u) = "page_prompt"}
           D == {<<"state", Chapter(t), PageNo(t), StatePart(b, t)>> : t \in V}
<1>1. CASE Kind(s) = "settings"
  BY <1>1 DEF receipt, Receipts
<1>2. CASE Kind(s) # "settings"
  <2>1. Chapter(s) \in Chapters /\ Kind(s) \in Kinds
    BY <1>2
  <2>2. A \subseteq All
    BY <2>1
  <2>3. B \subseteq All
    <3> SUFFICES ASSUME NEW t \in U PROVE <<Kind(t), Chapter(t), 0, Text(b, t)>> \in All
      OBVIOUS
    <3>1. Kind(t) \in Kinds /\ Kind(t) # "page_prompt"
      BY <2>1, SlotParts, Ranks DEF Kinds
    <3>2. Kind(t) \in Inputs1 /\ Chapter(t) \in Chapters \cup {0}
      BY <2>1, <3>1 DEF Kinds
    <3> QED BY <3>2
  <2>4. C \subseteq All
    <3> SUFFICES ASSUME NEW c \in Chapters PROVE <<"script", c, 0, StatePart(b, <<c, "script", 0>>)>> \in All
      OBVIOUS
    <3>1. <<c, "script", 0>> \in Slots
      BY DEF Slots
    <3> QED BY <3>1
  <2>5. D \subseteq All
    <3> SUFFICES ASSUME NEW t \in V PROVE <<"state", Chapter(t), PageNo(t), StatePart(b, t)>> \in All
      OBVIOUS
    <3>1. t \in Slots /\ Kind(t) = "page_prompt"
      BY DEF upstream
    <3>2. Chapter(t) \in Chapters \cup {0} /\ PageNo(t) \in Pages \cup {0}
      BY <3>1, SlotParts
    <3> QED BY <3>1, <3>2
  <2>6. receipt(b, s) = A \cup B \cup C \cup D
    BY <1>2 DEF receipt
  <2> HIDE DEF A, B, C, D, All
  <2>7. receipt(b, s) \subseteq All
    BY <2>2, <2>3, <2>4, <2>5, <2>6
  <2> QED BY <2>7 DEF Receipts, All
<1> QED BY <1>1, <1>2

\* A guard is what a task keeps of it.
LEMMA GuardIsTyped ==
  ASSUME NEW b \in Books, NEW c \in Chapters
  PROVE  guard(b, c) \in Guards
<1> DEFINE stale == staleDocuments(b)
           up(t) == <<t, fingerprint(b, t), t \in stale, Issues(b, t)>>
<1>1. localState(b, c) \subseteq Slots \X Nat
  BY BookParts DEF localState, chapterDocuments, documents
<1>2. ASSUME NEW t \in inherited(b, c) PROVE up(t) \in Slots \X Nat \X BOOLEAN \X BOOLEAN
  <2>1. t \in Slots
    BY DEF inherited
  <2>2. fingerprint(b, t) \in Nat /\ Issues(b, t) \in BOOLEAN
    BY <2>1, BookParts DEF fingerprint
  <2>3. (t \in stale) \in BOOLEAN
    OBVIOUS
  <2> HIDE DEF stale
  <2> QED BY <2>1, <2>2, <2>3
<1>3. {up(t) : t \in inherited(b, c)} \subseteq Slots \X Nat \X BOOLEAN \X BOOLEAN
  BY <1>2
<1>4. b.source[c].revision \in Nat
  BY BookParts
<1>5. guard(b, c) = [source |-> b.source[c].revision, local |-> localState(b, c),
                     upstream |-> {up(t) : t \in inherited(b, c)}]
  BY DEF guard
<1> HIDE DEF up
<1> QED BY <1>1, <1>3, <1>4, <1>5 DEF Guards

---------------------------------------------------------------------------
(* What a document's lineage looks at.                                     *)

SameContent(b1, b2, s) == Exists(b1, s) = Exists(b2, s) /\ Text(b1, s) = Text(b2, s)

\* The upstream of a document looks at nothing that does not precede it.
LEMMA UpstreamLooksBack ==
  ASSUME NEW b1, NEW b2, NEW s \in Slots,
         \A u \in Slots : Precedes(u, s) => SameContent(b1, b2, u)
  PROVE  upstream(b1, s) = upstream(b2, s)
<1>1. ASSUME NEW t \in Slots, Precedes(t, s) PROVE OutOfPlan(b1, t) = OutOfPlan(b2, t)
  <2>1. CASE Kind(t) # "page_prompt"
    BY <2>1 DEF OutOfPlan
  <2>2. CASE Kind(t) = "page_prompt"
    <3> DEFINE board == Storyboard(Chapter(t))
    <3>1. /\ Chapter(t) \in Chapters /\ board \in Slots
      BY <1>1, <2>2, SlotParts, LineageAssumption DEF Slots, Storyboard, Settings, Kind
    <3>2. Precedes(board, t)
      BY <2>2, Ranks DEF Precedes, Storyboard, Chapter, Kind
    <3>3. Precedes(board, s)
      BY <1>1, <3>1, <3>2, PipelineOrder
    <3>4. SameContent(b1, b2, board)
      BY <3>1, <3>3
    <3> QED BY <3>4 DEF OutOfPlan, HasPlan, Plan, Issues, SameContent
  <2> QED BY <2>1, <2>2
<1>2. ASSUME NEW b, NEW t \in Slots, Exists(b, t), DependsOn(b, s, t) PROVE Precedes(t, s)
  BY <1>2, UpstreamPrecedes DEF upstream
<1>3. ASSUME NEW t \in Slots, Precedes(t, s)
      PROVE  (Exists(b1, t) /\ DependsOn(b1, s, t)) <=> (Exists(b2, t) /\ DependsOn(b2, s, t))
  BY <1>1, <1>3 DEF DependsOn, SameContent
<1> QED BY <1>2, <1>3 DEF upstream

\* Nor does its receipt, but for the chapter's text.
LEMMA ReceiptLooksBack ==
  ASSUME NEW b1, NEW b2, NEW s \in Slots,
         \A u \in Slots : Precedes(u, s) => SameContent(b1, b2, u),
         b1.source[Chapter(s)].text = b2.source[Chapter(s)].text
  PROVE  receipt(b1, s) = receipt(b2, s)
<1>1. CASE Kind(s) = "settings"
  BY <1>1 DEF receipt
<1>2. CASE Kind(s) # "settings"
  <2> DEFINE U == {u \in Slots : /\ Chapter(u) \in {0, Chapter(s)}
                                 /\ stageRank[Kind(u)] < stageRank[Kind(s)]}
             C == {d \in Chapters : d < Chapter(s)}
             V(b) == {u \in upstream(b, s) : Kind(u) = "page_prompt"}
  <2>1. Chapter(s) \in Chapters /\ Chapter(s) \in Nat \ {0}
    BY <1>2, SlotParts, LineageAssumption
  <2>2. \A t \in U : Text(b1, t) = Text(b2, t)
    <3> TAKE t \in U
    <3>1. Precedes(t, s)
      BY <2>1 DEF Precedes
    <3> QED BY <3>1 DEF SameContent
  <2>3. \A c \in C : StatePart(b1, <<c, "script", 0>>) = StatePart(b2, <<c, "script", 0>>)
    <3> TAKE c \in C
    <3>1. <<c, "script", 0>> \in Slots /\ Precedes(<<c, "script", 0>>, s)
      BY DEF Slots, Precedes, Chapter
    <3> QED BY <3>1 DEF SameContent, StatePart
  <2>4. V(b1) = V(b2)
    BY UpstreamLooksBack
  <2>5. \A t \in V(b1) : StatePart(b1, t) = StatePart(b2, t)
    <3> TAKE t \in V(b1)
    <3>1. t \in Slots /\ Precedes(t, s)
      BY UpstreamPrecedes
    <3> QED BY <3>1 DEF SameContent, StatePart
  <2>6. \A b : receipt(b, s) =
          {<<"source", Chapter(s), 0, b.source[Chapter(s)].text>>}
            \cup {<<Kind(t), Chapter(t), 0, Text(b, t)>> : t \in U}
            \cup {<<"script", c, 0, StatePart(b, <<c, "script", 0>>)>> : c \in C}
            \cup {<<"state", Chapter(t), PageNo(t), StatePart(b, t)>> : t \in V(b)}
    BY <1>2 DEF receipt
  <2> HIDE DEF U, C, V
  <2>7. {<<Kind(t), Chapter(t), 0, Text(b1, t)>> : t \in U} = {<<Kind(t), Chapter(t), 0, Text(b2, t)>> : t \in U}
    BY <2>2
  <2>8. {<<"script", c, 0, StatePart(b1, <<c, "script", 0>>)>> : c \in C}
          = {<<"script", c, 0, StatePart(b2, <<c, "script", 0>>)>> : c \in C}
    BY <2>3
  <2>9. {<<"state", Chapter(t), PageNo(t), StatePart(b1, t)>> : t \in V(b1)}
          = {<<"state", Chapter(t), PageNo(t), StatePart(b2, t)>> : t \in V(b2)}
    BY <2>4, <2>5
  <2> QED BY <2>6, <2>7, <2>8, <2>9
<1> QED BY <1>1, <1>2

\* Nor does its staleness.
LEMMA StalenessLooksBack ==
  ASSUME NEW b1, NEW b2, NEW s \in Slots,
         \A u \in Slots : Precedes(u, s) \/ u = s =>
           SameContent(b1, b2, u) /\ b1.docs[u].receipt = b2.docs[u].receipt,
         \A c \in Chapters \cup {0} : b1.source[c].text = b2.source[c].text
  PROVE  s \in staleDocuments(b1) <=> s \in staleDocuments(b2)
<1> DEFINE Back == {u \in Slots : Precedes(u, s) \/ u = s}
<1>1. ASSUME NEW u \in Back PROVE upstream(b1, u) = upstream(b2, u) /\ upstream(b1, u) \subseteq Back
  <2>1. \A v \in Slots : Precedes(v, u) => v \in Back
    BY PipelineOrder
  <2> QED BY <2>1, UpstreamLooksBack, UpstreamPrecedes
<1>2. ASSUME NEW u \in Back PROVE u \in changedDocuments(b1) <=> u \in changedDocuments(b2)
  <2>1. \A v \in Slots : Precedes(v, u) => v \in Back
    BY PipelineOrder
  <2>2. b1.source[Chapter(u)].text = b2.source[Chapter(u)].text
    BY SlotParts
  <2>3. receipt(b1, u) = receipt(b2, u)
    BY <2>1, <2>2, ReceiptLooksBack
  <2> QED BY <2>3 DEF changedDocuments, SameContent
<1>3. s \in Back
  OBVIOUS
<1>4. SameContent(b1, b2, s)
  OBVIOUS
<1> HIDE DEF Back
<1>5. brokenWithin2(b1, s) <=> brokenWithin2(b2, s)
  BY <1>1, <1>2, <1>3 DEF brokenWithin2
<1> QED BY <1>4, <1>5, StaleIsBroken DEF SameContent

---------------------------------------------------------------------------
(* Saving documents.                                                       *)

\* What a save leaves: a new revision and body, the receipt of today's
\* upstream unless the document keeps its own, and nothing else.
LEMMA SaveEffect ==
  ASSUME NEW b \in Books, NEW texts \in NewBodies, NEW acknowledge \in BOOLEAN
  PROVE  LET after == saveDocuments(b, texts, acknowledge)
         IN /\ after \in Books
            /\ after.source = b.source
            /\ \A s \in Slots : texts[s] = 0 => after.docs[s] = b.docs[s]
            /\ \A s \in Slots : texts[s] # 0 =>
                 /\ after.docs[s].revision = b.docs[s].revision + 1
                 /\ Text(after, s) = texts[s]
                 /\ acknowledge => after.docs[s].receipt = receipt(after, s)
<1> DEFINE revised(s) == IF texts[s] # 0 THEN [b.docs[s] EXCEPT !.revision = @ + 1, !.text = texts[s]]
                                          ELSE b.docs[s]
           written == [b EXCEPT !.docs = [s \in Slots |-> revised(s)]]
           stored(s) == IF texts[s] # 0 /\ (acknowledge \/ ~Exists(b, s))
                          THEN [written.docs[s] EXCEPT !.receipt = receipt(written, s)]
                          ELSE written.docs[s]
           after == saveDocuments(b, texts, acknowledge)
<1>1. Texts \subseteq Nat \ {0} /\ \A s \in Slots : texts[s] \in Texts \cup {0}
  BY LineageAssumption DEF NewBodies
<1>2. after = [b EXCEPT !.docs = [s \in Slots |-> stored(s)]]
  BY DEF saveDocuments
<1>3. /\ b.docs \in [Slots -> Document] /\ b.source \in [Chapters -> Sourced]
      /\ b = [docs |-> b.docs, source |-> b.source]
  BY BookParts
<1>0. \A docs : [b EXCEPT !.docs = docs] = [docs |-> docs, source |-> b.source]
  BY <1>3
<1>4. written = [docs |-> [s \in Slots |-> revised(s)], source |-> b.source]
  <2> HIDE DEF revised
  <2> QED BY <1>0
<1>5. after = [docs |-> [s \in Slots |-> stored(s)], source |-> b.source]
  <2> HIDE DEF after, stored
  <2> QED BY <1>2, <1>0
<1>6. ASSUME NEW s \in Slots
      PROVE  /\ revised(s) \in Document
             /\ texts[s] # 0 => /\ revised(s).revision = b.docs[s].revision + 1
                                /\ revised(s).text = texts[s]
             /\ texts[s] = 0 => revised(s) = b.docs[s]
             /\ revised(s).receipt = b.docs[s].receipt
             /\ revised(s).revision > 0 <=> revised(s).text # 0
  <2>1. b.docs[s] \in Document /\ b.docs[s].revision \in Nat /\ (b.docs[s].revision > 0 <=> b.docs[s].text # 0)
    BY BookParts DEF Exists, Text
  <2>2. CASE texts[s] = 0
    BY <2>1, <2>2
  <2>3. CASE texts[s] # 0
    <3>1. revised(s) = [b.docs[s] EXCEPT !.revision = @ + 1, !.text = texts[s]]
      BY <2>3
    <3>2. revised(s) = [revision |-> b.docs[s].revision + 1, text |-> texts[s], receipt |-> b.docs[s].receipt]
      BY <2>1, <3>1 DEF Document
    <3>3. b.docs[s].receipt \in Receipts /\ texts[s] \in Texts
      BY <1>1, <2>1, <2>3 DEF Document
    <3> HIDE DEF revised
    <3> QED BY <2>1, <2>3, <3>2, <3>3 DEF Document
  <2> QED BY <2>2, <2>3
<1>7. \A s \in Slots : written.docs[s] = revised(s) /\ written.source = b.source
  BY <1>4
<1> HIDE DEF revised, written
<1>8. \A s \in Slots : Text(written, s) \in Nat /\ StatePart(written, s) \in Nat
  <2> TAKE s \in Slots
  <2>1. /\ written.docs[s] \in Document /\ (written.docs[s].revision > 0 <=> written.docs[s].text # 0)
    BY <1>6, <1>7
  <2>2. Texts \cup {0} \subseteq Nat /\ Part \in [Texts -> Nat \ {0}]
    BY LineageAssumption
  <2> QED BY <2>1, <2>2 DEF Document, Text, StatePart, Exists
<1>9. \A s \in Slots : receipt(written, s) \in Receipts
  <2>1. \A c \in Chapters : written.source[c].text \in Nat
    BY <1>4, BookParts DEF written
  <2>2. \A s \in Slots : Kind(s) = "settings" \/ (Kind(s) \in Kinds /\ Chapter(s) \in Chapters)
    BY SlotParts
  <2> QED BY <1>8, <2>1, <2>2, ReceiptIsTyped
<1>10. ASSUME NEW s \in Slots
       PROVE  /\ stored(s) \in Document
              /\ stored(s).revision = revised(s).revision /\ stored(s).text = revised(s).text
              /\ stored(s).receipt \in {revised(s).receipt, receipt(written, s)}
              /\ texts[s] = 0 => stored(s) = b.docs[s]
              /\ texts[s] # 0 /\ acknowledge => stored(s).receipt = receipt(written, s)
  <2>1. written.docs[s] = revised(s) /\ revised(s) \in Document /\ receipt(written, s) \in Receipts
    BY <1>6, <1>7, <1>9
  <2>2. CASE texts[s] # 0 /\ (acknowledge \/ ~Exists(b, s))
    <3>1. stored(s) = [revised(s) EXCEPT !.receipt = receipt(written, s)]
      BY <2>1, <2>2
    <3>2. stored(s) = [revision |-> revised(s).revision, text |-> revised(s).text, receipt |-> receipt(written, s)]
      BY <2>1, <3>1 DEF Document
    <3>3. revised(s).revision \in Nat /\ revised(s).text \in Texts \cup {0}
      BY <2>1 DEF Document
    <3> HIDE DEF stored
    <3> QED BY <2>1, <2>2, <3>2, <3>3 DEF Document
  <2>3. CASE ~(texts[s] # 0 /\ (acknowledge \/ ~Exists(b, s)))
    BY <2>1, <2>3, <1>6
  <2> QED BY <2>2, <2>3
<1>11. \A s \in Slots : after.docs[s] = stored(s) /\ after.source = b.source
  BY <1>5
<1> HIDE DEF stored, after
<1>12. after \in Books
  <2>1. after \in [docs : [Slots -> Document], source : [Chapters -> Sourced]]
    BY <1>3, <1>5, <1>10
  <2>2. \A s \in Slots : Exists(after, s) <=> Text(after, s) # 0
    BY <1>6, <1>10, <1>11 DEF Exists, Text
  <2>3. after.docs[Settings].receipt = {}
    <3>1. Settings \in Slots /\ Kind(Settings) = "settings"
      BY DEF Slots, Settings, Kind
    <3>2. receipt(written, Settings) = {} /\ b.docs[Settings].receipt = {}
      BY <3>1, BookParts DEF receipt
    <3> QED BY <3>1, <3>2, <1>6, <1>10, <1>11
  <2> QED BY <2>1, <2>2, <2>3 DEF Books
<1>13. ASSUME NEW s \in Slots PROVE receipt(written, s) = receipt(after, s)
  <2>1. \A u \in Slots : SameContent(written, after, u)
    BY <1>7, <1>10, <1>11 DEF SameContent, Exists, Text
  <2>2. written.source[Chapter(s)].text = after.source[Chapter(s)].text
    BY <1>7, <1>11
  <2> QED BY <2>1, <2>2, ReceiptLooksBack
<1>14. \A s \in Slots : texts[s] = 0 => after.docs[s] = b.docs[s]
  BY <1>10, <1>11
<1>15. \A s \in Slots : texts[s] # 0 =>
         /\ after.docs[s].revision = b.docs[s].revision + 1
         /\ Text(after, s) = texts[s]
         /\ acknowledge => after.docs[s].receipt = receipt(after, s)
  BY <1>6, <1>10, <1>11, <1>13 DEF Text
<1>16. after.source = b.source
  BY <1>5 DEF after
<1> QED BY <1>12, <1>14, <1>15, <1>16 DEF after

---------------------------------------------------------------------------
(* Two books with the same guard: b2 is b1 after further saves, none of    *)
(* which the guard of chapter c shows.                                     *)

\* Saving only adds revisions: one revision of a document is one document.
Older(b1, b2) ==
  /\ \A s \in Slots :
       /\ b1.docs[s].revision <= b2.docs[s].revision
       /\ b1.docs[s].revision = b2.docs[s].revision => b1.docs[s] = b2.docs[s]
  /\ \A c \in Chapters :
       /\ b1.source[c].revision <= b2.source[c].revision
       /\ b1.source[c].revision = b2.source[c].revision => b1.source[c] = b2.source[c]

SameGuard(b1, b2, c) ==
  /\ b1 \in Books /\ b2 \in Books /\ Older(b1, b2)
  /\ guard(b1, c) = guard(b2, c)

\* Books only grow older one way.
LEMMA OlderIsTransitive ==
  ASSUME NEW b1 \in Books, NEW b2 \in Books, NEW b3 \in Books, Older(b1, b2), Older(b2, b3)
  PROVE  Older(b1, b3)
<1>1. \A b \in {b1, b2, b3} : /\ \A s \in Slots : b.docs[s].revision \in Nat
                              /\ \A c \in Chapters : b.source[c].revision \in Nat
  BY BookParts
<1>2. ASSUME NEW s \in Slots
      PROVE  /\ b1.docs[s].revision <= b3.docs[s].revision
             /\ b1.docs[s].revision = b3.docs[s].revision => b1.docs[s] = b3.docs[s]
  BY <1>1 DEF Older
<1>3. ASSUME NEW c \in Chapters
      PROVE  /\ b1.source[c].revision <= b3.source[c].revision
             /\ b1.source[c].revision = b3.source[c].revision => b1.source[c] = b3.source[c]
  BY <1>1 DEF Older
<1> QED BY <1>2, <1>3 DEF Older

\* A book is as old as itself.
LEMMA OlderIsReflexive ==
  ASSUME NEW b \in Books
  PROVE  Older(b, b)
<1>1. /\ \A s \in Slots : b.docs[s].revision \in Nat
      /\ \A c \in Chapters : b.source[c].revision \in Nat
  BY BookParts
<1> QED BY <1>1 DEF Older

\* A save leaves an older book behind.
LEMMA SavesGrow ==
  ASSUME NEW b \in Books, NEW texts \in NewBodies, NEW acknowledge \in BOOLEAN
  PROVE  Older(b, saveDocuments(b, texts, acknowledge))
<1> DEFINE after == saveDocuments(b, texts, acknowledge)
<1>1. /\ \A s \in Slots : b.docs[s].revision \in Nat
      /\ \A c \in Chapters : b.source[c].revision \in Nat
  BY BookParts
<1>2. /\ after.source = b.source
      /\ \A s \in Slots : texts[s] = 0 => after.docs[s] = b.docs[s]
      /\ \A s \in Slots : texts[s] # 0 => after.docs[s].revision = b.docs[s].revision + 1
  BY SaveEffect
<1> HIDE DEF after
<1>3. Older(b, after)
  BY <1>1, <1>2 DEF Older
<1> QED BY <1>3 DEF after

\* The chapter's own text and documents are the same.
LEMMA GuardedChapter ==
  ASSUME NEW c \in Chapters, NEW b1, NEW b2, SameGuard(b1, b2, c)
  PROVE  /\ b1.source[c] = b2.source[c]
         /\ \A s \in Slots : Chapter(s) = c => b1.docs[s] = b2.docs[s]
<1>1. /\ b1.source[c].revision = b2.source[c].revision
      /\ localState(b1, c) = localState(b2, c)
  BY DEF SameGuard, guard
<1>2. b1.source[c] = b2.source[c]
  BY <1>1 DEF SameGuard, Older
<1>3. \A s \in Slots : /\ b1.docs[s].revision \in Nat /\ b2.docs[s].revision \in Nat
                       /\ b1.docs[s].revision <= b2.docs[s].revision
  BY BookParts DEF SameGuard, Older
<1>4. ASSUME NEW s \in Slots, Chapter(s) = c PROVE b1.docs[s] = b2.docs[s]
  <2>1. CASE Exists(b2, s)
    <3>1. <<s, b2.docs[s].revision>> \in localState(b2, c)
      BY <2>1, <1>4 DEF localState, chapterDocuments, documents
    <3>2. <<s, b2.docs[s].revision>> \in localState(b1, c)
      BY <3>1, <1>1
    <3>3. PICK t \in chapterDocuments(b1, c) : <<s, b2.docs[s].revision>> = <<t, b1.docs[t].revision>>
      BY <3>2 DEF localState
    <3>4. b1.docs[s].revision = b2.docs[s].revision
      BY <3>3
    <3> QED BY <3>4 DEF SameGuard, Older
  <2>2. CASE ~Exists(b2, s)
    <3>1. b1.docs[s].revision = b2.docs[s].revision
      BY <2>2, <1>3 DEF Exists
    <3> QED BY <3>1 DEF SameGuard, Older
  <2> QED BY <2>1, <2>2
<1> QED BY <1>2, <1>4

\* What it inherits of earlier chapters and the settings is the same.
LEMMA GuardedInheritance ==
  ASSUME NEW c \in Chapters, NEW b1, NEW b2, SameGuard(b1, b2, c)
  PROVE  /\ inherited(b1, c) = inherited(b2, c)
         /\ \A t \in inherited(b1, c) :
              /\ fingerprint(b1, t) = fingerprint(b2, t)
              /\ t \in staleDocuments(b1) <=> t \in staleDocuments(b2)
              /\ Issues(b1, t) <=> Issues(b2, t)
<1> DEFINE up(b, t) == <<t, fingerprint(b, t), t \in staleDocuments(b), Issues(b, t)>>
           ups(b) == {up(b, t) : t \in inherited(b, c)}
<1>1. ups(b1) = ups(b2)
  <2>1. \A b : guard(b, c).upstream = ups(b)
    BY DEF guard
  <2> QED BY <2>1 DEF SameGuard
<1>2. \A a, b : \A t, u : up(a, t) = up(b, u) =>
        /\ t = u /\ fingerprint(a, t) = fingerprint(b, u)
        /\ (t \in staleDocuments(a)) = (u \in staleDocuments(b))
        /\ Issues(a, t) = Issues(b, u)
  OBVIOUS
<1> HIDE DEF up
<1>3. ASSUME NEW t \in inherited(b1, c) PROVE t \in inherited(b2, c) /\ up(b1, t) = up(b2, t)
  <2>1. up(b1, t) \in ups(b2)
    BY <1>1
  <2>2. PICK u \in inherited(b2, c) : up(b1, t) = up(b2, u)
    BY <2>1
  <2> QED BY <2>2, <1>2
<1>4. ASSUME NEW t \in inherited(b2, c) PROVE t \in inherited(b1, c)
  <2>1. up(b2, t) \in ups(b1)
    BY <1>1
  <2>2. PICK u \in inherited(b1, c) : up(b2, t) = up(b1, u)
    BY <2>1
  <2> QED BY <2>2, <1>2
<1> QED BY <1>2, <1>3, <1>4

\* So are the settings and the inherited parts of earlier chapters.
LEMMA GuardedParts ==
  ASSUME NEW c \in Chapters, NEW b1, NEW b2, SameGuard(b1, b2, c)
  PROVE  /\ SameContent(b1, b2, Settings)
         /\ \A s \in Slots : Chapter(s) = c => SameContent(b1, b2, s)
         /\ \A s \in Slots : Kind(s) = "script" /\ Chapter(s) < c =>
              Exists(b1, s) = Exists(b2, s) /\ StatePart(b1, s) = StatePart(b2, s)
         /\ \A s \in Slots : Kind(s) = "page_prompt" /\ Chapter(s) < c =>
              /\ (Exists(b1, s) /\ ~OutOfPlan(b1, s)) = (Exists(b2, s) /\ ~OutOfPlan(b2, s))
              /\ Exists(b1, s) /\ ~OutOfPlan(b1, s) => StatePart(b1, s) = StatePart(b2, s)
<1>1. b1 \in Books /\ b2 \in Books /\ c \in Nat \ {0}
  BY LineageAssumption DEF SameGuard
<1>2. inherited(b1, c) = inherited(b2, c)
      /\ \A t \in inherited(b1, c) : fingerprint(b1, t) = fingerprint(b2, t)
  BY GuardedInheritance
<1>3. SameContent(b1, b2, Settings)
  <2>1. Settings \in Slots /\ Kind(Settings) = "settings" /\ Chapter(Settings) = 0
    BY DEF Slots, Settings, Kind, Chapter
  <2>2. \A b : Settings \in inherited(b, c) <=> Exists(b, Settings)
    BY <1>1, <2>1 DEF inherited, OutOfPlan
  <2>3. \A b \in {b1, b2} : Exists(b, Settings) \in BOOLEAN /\ (Exists(b, Settings) <=> Text(b, Settings) # 0)
    BY <1>1, <2>1, BookParts DEF Exists
  <2>4. Exists(b1, Settings) => Text(b1, Settings) = Text(b2, Settings)
    BY <1>2, <2>2 DEF fingerprint
  <2> QED BY <1>2, <2>2, <2>3, <2>4 DEF SameContent
<1>4. \A s \in Slots : Chapter(s) = c => SameContent(b1, b2, s)
  BY GuardedChapter DEF SameContent, Exists, Text
<1>5. \A s \in Slots : \A b \in {b1, b2} :
        Exists(b, s) \in BOOLEAN /\ OutOfPlan(b, s) \in BOOLEAN /\ (StatePart(b, s) # 0 <=> Exists(b, s))
  BY <1>1, BookParts DEF Exists, OutOfPlan
<1>6. ASSUME NEW s \in Slots, Kind(s) = "script", Chapter(s) < c
      PROVE  Exists(b1, s) = Exists(b2, s) /\ StatePart(b1, s) = StatePart(b2, s)
  <2>1. s # Settings
    BY <1>6 DEF Settings, Kind
  <2>2. \A b : s \in inherited(b, c) <=> Exists(b, s)
    BY <1>6 DEF inherited, OutOfPlan
  <2>3. Exists(b1, s) => StatePart(b1, s) = StatePart(b2, s)
    BY <1>2, <2>1, <2>2 DEF fingerprint
  <2> QED BY <1>2, <1>5, <2>2, <2>3
<1>7. ASSUME NEW s \in Slots, Kind(s) = "page_prompt", Chapter(s) < c
      PROVE  /\ (Exists(b1, s) /\ ~OutOfPlan(b1, s)) = (Exists(b2, s) /\ ~OutOfPlan(b2, s))
             /\ Exists(b1, s) /\ ~OutOfPlan(b1, s) => StatePart(b1, s) = StatePart(b2, s)
  <2>1. s # Settings
    BY <1>7 DEF Settings, Kind
  <2>2. \A b : s \in inherited(b, c) <=> Exists(b, s) /\ ~OutOfPlan(b, s)
    BY <1>7 DEF inherited
  <2>3. Exists(b1, s) /\ ~OutOfPlan(b1, s) => StatePart(b1, s) = StatePart(b2, s)
    BY <1>2, <2>1, <2>2 DEF fingerprint
  <2> QED BY <1>2, <2>2, <2>3
<1> QED BY <1>3, <1>4, <1>6, <1>7

\* The chapter's page plan is the same, and which of its pages are in it.
LEMMA GuardedPages ==
  ASSUME NEW c \in Chapters, NEW b1, NEW b2, SameGuard(b1, b2, c)
  PROVE  /\ HasPlan(b1, c) = HasPlan(b2, c) /\ Plan(b1, c) = Plan(b2, c)
         /\ \A s \in Slots : Chapter(s) = c => OutOfPlan(b1, s) = OutOfPlan(b2, s)
         /\ missingPages(b1, c) = missingPages(b2, c)
         /\ documents(b1, c) = documents(b2, c)
         /\ inPlanDocuments(b1, c) = inPlanDocuments(b2, c)
<1>1. Storyboard(c) \in Slots /\ Chapter(Storyboard(c)) = c
  BY DEF Slots, Storyboard, Chapter
<1>2. /\ SameContent(b1, b2, Settings)
      /\ \A s \in Slots : Chapter(s) = c => SameContent(b1, b2, s)
  BY GuardedParts
<1>3. HasPlan(b1, c) = HasPlan(b2, c) /\ Plan(b1, c) = Plan(b2, c)
  BY <1>1, <1>2 DEF HasPlan, Plan, SameContent, Issues
<1>4. \A s \in Slots : Chapter(s) = c => OutOfPlan(b1, s) = OutOfPlan(b2, s)
  BY <1>3 DEF OutOfPlan
<1>5. missingPages(b1, c) = missingPages(b2, c)
  <2>1. ASSUME NEW p \in Plan(b1, c)
        PROVE  Exists(b1, <<c, "page_prompt", p>>) = Exists(b2, <<c, "page_prompt", p>>)
    <3>1. p \in Pages
      BY PlannedPages DEF SameGuard
    <3>2. <<c, "page_prompt", p>> \in Slots /\ Chapter(<<c, "page_prompt", p>>) = c
      BY <3>1 DEF Slots, Chapter
    <3> QED BY <3>2, <1>2 DEF SameContent
  <2> QED BY <1>3, <2>1 DEF missingPages
<1>6. documents(b1, c) = documents(b2, c)
  <2>1. \A s \in Slots : Chapter(s) = 0 => s = Settings
    BY SlotParts
  <2> QED BY <1>2, <2>1 DEF documents, SameContent
<1>7. inPlanDocuments(b1, c) = inPlanDocuments(b2, c)
  <2>1. OutOfPlan(b1, Settings) = FALSE /\ OutOfPlan(b2, Settings) = FALSE
    BY DEF OutOfPlan, Settings, Kind
  <2>2. \A s \in documents(b1, c) : s \in Slots /\ (Chapter(s) = c \/ s = Settings)
    BY SlotParts DEF documents
  <2> QED BY <1>4, <1>6, <2>1, <2>2 DEF inPlanDocuments
<1> QED BY <1>3, <1>4, <1>5, <1>6, <1>7

\* What is upstream of a document of the chapter, and today's receipt for it.
LEMMA GuardedUpstream ==
  ASSUME NEW c \in Chapters, NEW b1, NEW b2, SameGuard(b1, b2, c),
         NEW s \in Slots, Chapter(s) = c
  PROVE  upstream(b1, s) = upstream(b2, s)
<1>1. /\ SameContent(b1, b2, Settings)
      /\ \A t \in Slots : Chapter(t) = c => SameContent(b1, b2, t)
      /\ \A t \in Slots : Kind(t) = "script" /\ Chapter(t) < c => Exists(b1, t) = Exists(b2, t)
      /\ \A t \in Slots : Kind(t) = "page_prompt" /\ Chapter(t) < c =>
           (Exists(b1, t) /\ ~OutOfPlan(b1, t)) = (Exists(b2, t) /\ ~OutOfPlan(b2, t))
  BY GuardedParts
<1>2. \A t \in Slots : Chapter(t) = c => OutOfPlan(b1, t) = OutOfPlan(b2, t)
  BY GuardedPages
<1>3. ASSUME NEW t \in Slots
      PROVE  (Exists(b1, t) /\ DependsOn(b1, s, t)) <=> (Exists(b2, t) /\ DependsOn(b2, s, t))
  <2>1. CASE t = Settings
    BY <2>1, <1>1 DEF DependsOn, SameContent
  <2>2. CASE t # Settings /\ Chapter(t) = c
    BY <2>2, <1>1, <1>2 DEF DependsOn, SameContent
  <2>3. CASE t # Settings /\ Chapter(t) # c /\ Kind(t) = "page_prompt"
    BY <2>3, <1>1 DEF DependsOn
  <2>4. CASE t # Settings /\ Chapter(t) # c /\ Kind(t) # "page_prompt"
    BY <2>4, <1>1 DEF DependsOn
  <2> QED BY <2>1, <2>2, <2>3, <2>4
<1> QED BY <1>3 DEF upstream

\* Today's receipt of a document of the chapter is the same.
LEMMA GuardedReceipt ==
  ASSUME NEW c \in Chapters, NEW b1, NEW b2, SameGuard(b1, b2, c),
         NEW s \in Slots, Chapter(s) = c
  PROVE  receipt(b1, s) = receipt(b2, s)
<1> DEFINE U == {u \in Slots : /\ Chapter(u) \in {0, Chapter(s)}
                               /\ stageRank[Kind(u)] < stageRank[Kind(s)]}
           C == {d \in Chapters : d < Chapter(s)}
           V(b) == {u \in upstream(b, s) : Kind(u) = "page_prompt"}
<1>1. c \in Nat \ {0} /\ Kind(s) # "settings"
  BY LineageAssumption DEF Slots, Settings, Chapter, Kind
<1>2. /\ SameContent(b1, b2, Settings)
      /\ \A t \in Slots : Chapter(t) = c => SameContent(b1, b2, t)
      /\ \A t \in Slots : Kind(t) = "script" /\ Chapter(t) < c => StatePart(b1, t) = StatePart(b2, t)
      /\ \A t \in Slots : Kind(t) = "page_prompt" /\ Chapter(t) < c =>
           (Exists(b1, t) /\ ~OutOfPlan(b1, t) => StatePart(b1, t) = StatePart(b2, t))
  BY GuardedParts
<1>3. \A t \in U : Text(b1, t) = Text(b2, t)
  <2> TAKE t \in U
  <2>1. t = Settings \/ Chapter(t) = c
    BY SlotParts
  <2> QED BY <2>1, <1>2 DEF SameContent
<1>4. \A d \in C : StatePart(b1, <<d, "script", 0>>) = StatePart(b2, <<d, "script", 0>>)
  <2> TAKE d \in C
  <2>1. <<d, "script", 0>> \in Slots /\ Kind(<<d, "script", 0>>) = "script" /\ Chapter(<<d, "script", 0>>) = d
    BY DEF Slots, Kind, Chapter
  <2> QED BY <2>1, <1>2
<1>5. V(b1) = V(b2)
  BY GuardedUpstream
<1>6. \A t \in V(b1) : StatePart(b1, t) = StatePart(b2, t)
  <2> TAKE t \in V(b1)
  <2>1. /\ t \in Slots /\ Kind(t) = "page_prompt" /\ Exists(b1, t) /\ ~OutOfPlan(b1, t)
        /\ Chapter(t) < c \/ Chapter(t) = c
    <3>1. /\ t \in Slots /\ Kind(t) = "page_prompt" /\ Exists(b1, t) /\ DependsOn(b1, s, t)
          /\ Kind(s) \in Kinds
      BY SlotParts DEF upstream
    <3>2. t # Settings /\ ~(stageRank[Kind(t)] < stageRank[Kind(s)])
      BY <3>1, Ranks DEF Settings, Kind, Kinds
    <3> QED BY <3>1, <3>2 DEF DependsOn
  <2>2. CASE Chapter(t) = c
    BY <2>1, <2>2, <1>2 DEF SameContent, StatePart
  <2> QED BY <2>1, <2>2, <1>2
<1>7. \A b : receipt(b, s) =
        {<<"source", Chapter(s), 0, b.source[Chapter(s)].text>>}
          \cup {<<Kind(t), Chapter(t), 0, Text(b, t)>> : t \in U}
          \cup {<<"script", d, 0, StatePart(b, <<d, "script", 0>>)>> : d \in C}
          \cup {<<"state", Chapter(t), PageNo(t), StatePart(b, t)>> : t \in V(b)}
  BY <1>1 DEF receipt
<1>8. b1.source[Chapter(s)].text = b2.source[Chapter(s)].text
  BY GuardedChapter
<1> HIDE DEF U, C, V
<1>9. {<<Kind(t), Chapter(t), 0, Text(b1, t)>> : t \in U} = {<<Kind(t), Chapter(t), 0, Text(b2, t)>> : t \in U}
  BY <1>3
<1>10. {<<"script", d, 0, StatePart(b1, <<d, "script", 0>>)>> : d \in C}
         = {<<"script", d, 0, StatePart(b2, <<d, "script", 0>>)>> : d \in C}
  BY <1>4
<1>11. {<<"state", Chapter(t), PageNo(t), StatePart(b1, t)>> : t \in V(b1)}
         = {<<"state", Chapter(t), PageNo(t), StatePart(b2, t)>> : t \in V(b2)}
  BY <1>5, <1>6
<1> QED BY <1>7, <1>8, <1>9, <1>10, <1>11

---------------------------------------------------------------------------
(* Staleness within a chapter.                                             *)

\* Inside its chapter a document looks at receipts, outside at staleness.
LEMMA StaleInChapter ==
  ASSUME NEW b, NEW s \in Slots
  PROVE  s \in staleDocuments(b) <=>
           /\ Exists(b, s)
           /\ \/ s \in changedDocuments(b)
              \/ \E t \in upstream(b, s) : IF Chapter(t) = Chapter(s) THEN t \in changedDocuments(b)
                                                                      ELSE t \in staleDocuments(b)
<1>1. \A x \in Slots : \A t \in upstream(b, x) : t \in Slots /\ Exists(b, t)
  BY UpstreamPrecedes
<1>2. ASSUME Exists(b, s), NEW t \in upstream(b, s), t \in changedDocuments(b) \/ t \in staleDocuments(b)
      PROVE  s \in staleDocuments(b)
  BY <1>1, <1>2, StaleEquation
<1>3. \A t \in upstream(b, s) : t \in changedDocuments(b) => t \in staleDocuments(b)
  BY <1>1, StaleEquation
<1>4. ASSUME NEW t \in upstream(b, s), NEW u \in upstream(b, t), u \in changedDocuments(b)
      PROVE  \E v \in upstream(b, s) : IF Chapter(v) = Chapter(s) THEN v \in changedDocuments(b)
                                                                  ELSE v \in staleDocuments(b)
  <2>1. CASE Chapter(t) # Chapter(s)
    <3>1. t \in staleDocuments(b)
      BY <1>1, <1>4, StaleEquation
    <3> QED BY <2>1, <3>1
  <2>2. CASE Chapter(t) = Chapter(s)
    <3>1. u \in upstream(b, s)
      <4> SUFFICES ASSUME u \notin upstream(b, s) PROVE FALSE
        OBVIOUS
      <4>1. Kind(t) = "page_prompt" /\ u = Storyboard(Chapter(t)) /\ t \in Slots /\ u \in Slots /\ Exists(b, u)
        BY <1>1, UpstreamHops
      <4>2. DependsOn(b, s, t) /\ Kind(s) \in Kinds /\ Kind(t) # "settings" /\ t # Settings
        BY <4>1, SlotParts DEF upstream
      <4>3. Kind(s) = "page_prompt"
        BY <4>1, <4>2, <2>2, Ranks, SlotParts DEF DependsOn, Kinds
      <4>4. DependsOn(b, s, u)
        BY <4>1, <4>3, <2>2, Ranks DEF DependsOn, Storyboard, Chapter, Kind
      <4> QED BY <4>1, <4>4 DEF upstream
    <3> QED BY <3>1, <1>3, <1>4
  <2> QED BY <2>1, <2>2
<1>5. ASSUME s \in staleDocuments(b)
      PROVE  /\ Exists(b, s)
             /\ \/ s \in changedDocuments(b)
                \/ \E t \in upstream(b, s) : IF Chapter(t) = Chapter(s) THEN t \in changedDocuments(b)
                                                                        ELSE t \in staleDocuments(b)
  <2>1. Exists(b, s) /\ brokenWithin2(b, s)
    BY <1>5, StaleIsBroken
  <2> QED BY <2>1, <1>3, <1>4 DEF brokenWithin2
<1>6. ASSUME Exists(b, s), s \in changedDocuments(b) PROVE s \in staleDocuments(b)
  BY <1>6, StaleEquation
<1> QED BY <1>2, <1>5, <1>6

\* So the same guard leaves the same documents of the chapter stale.
LEMMA GuardedStaleness ==
  ASSUME NEW c \in Chapters, NEW b1, NEW b2, SameGuard(b1, b2, c),
         NEW s \in Slots, Chapter(s) = c \/ s = Settings
  PROVE  s \in staleDocuments(b1) <=> s \in staleDocuments(b2)
<1>0. CASE s = Settings
  BY <1>0, SettingsAreCurrent, BookParts DEF SameGuard
<1> SUFFICES ASSUME Chapter(s) = c PROVE s \in staleDocuments(b1) <=> s \in staleDocuments(b2)
  BY <1>0
<1>1. \A t \in Slots : Chapter(t) = c => (t \in changedDocuments(b1) <=> t \in changedDocuments(b2))
  BY GuardedReceipt, GuardedChapter DEF changedDocuments, Exists
<1>2. upstream(b1, s) = upstream(b2, s)
  BY GuardedUpstream
<1>3. ASSUME NEW t \in upstream(b1, s), Chapter(t) # c
      PROVE  t \in staleDocuments(b1) <=> t \in staleDocuments(b2)
  <2>1. t \in Slots /\ Exists(b1, t) /\ DependsOn(b1, s, t) /\ c \in Nat \ {0}
    BY LineageAssumption DEF upstream
  <2>2. CASE t = Settings
    BY <2>2, SettingsAreCurrent, BookParts DEF SameGuard
  <2>3. CASE t # Settings
    <3>1. t \in inherited(b1, c)
      BY <2>1, <2>3, <1>3 DEF inherited, DependsOn, OutOfPlan
    <3> QED BY <3>1, GuardedInheritance
  <2> QED BY <2>2, <2>3
<1>4. Exists(b1, s) = Exists(b2, s)
  BY GuardedChapter DEF Exists
<1>5. \A t \in upstream(b1, s) : t \in Slots
  BY UpstreamPrecedes
<1>6. \A t \in upstream(b1, s) :
        (IF Chapter(t) = Chapter(s) THEN t \in changedDocuments(b1) ELSE t \in staleDocuments(b1))
          <=> (IF Chapter(t) = Chapter(s) THEN t \in changedDocuments(b2) ELSE t \in staleDocuments(b2))
  BY <1>1, <1>3, <1>5
<1> QED BY <1>1, <1>2, <1>4, <1>6, StaleInChapter

\* And asks for the same sync.
THEOREM GuardedPlan ==
  ASSUME NEW c \in Chapters, NEW b1, NEW b2, SameGuard(b1, b2, c)
  PROVE  /\ planTargets(b1, c) = planTargets(b2, c)
         /\ planEmpty(b1, c) = planEmpty(b2, c)
         /\ \A s \in Slots : Chapter(s) = c => ContextReady(b1, s) = ContextReady(b2, s)
<1>1. inPlanDocuments(b1, c) = inPlanDocuments(b2, c) /\ missingPages(b1, c) = missingPages(b2, c)
  BY GuardedPages
<1>2. \A s \in inPlanDocuments(b1, c) : s \in staleDocuments(b1) <=> s \in staleDocuments(b2)
  <2>1. \A s \in inPlanDocuments(b1, c) : s \in Slots /\ (Chapter(s) = c \/ s = Settings)
    BY SlotParts DEF inPlanDocuments, documents
  <2> QED BY <2>1, GuardedStaleness
<1>3. planTargets(b1, c) = planTargets(b2, c)
  BY <1>1, <1>2 DEF planTargets
<1>4. planEmpty(b1, c) = planEmpty(b2, c)
  BY <1>1, <1>3 DEF planEmpty
<1>5. ASSUME NEW s \in Slots, Chapter(s) = c PROVE ContextReady(b1, s) = ContextReady(b2, s)
  <2>1. upstream(b1, s) = upstream(b2, s)
    BY <1>5, GuardedUpstream
  <2>2. ASSUME NEW t \in upstream(b1, s)
        PROVE  /\ t \in staleDocuments(b1) <=> t \in staleDocuments(b2)
               /\ Issues(b1, t) <=> Issues(b2, t)
    <3>1. t \in Slots /\ Exists(b1, t) /\ DependsOn(b1, s, t) /\ c \in Nat \ {0}
      BY LineageAssumption DEF upstream
    <3>2. CASE Chapter(t) = c
      BY <3>1, <3>2, GuardedStaleness, GuardedParts DEF Issues, SameContent
    <3>3. CASE Chapter(t) # c
      <4>1. t \in inherited(b1, c)
        <5>1. CASE t = Settings
          BY <3>1, <5>1 DEF inherited, OutOfPlan, Settings, Kind, Chapter
        <5>2. CASE t # Settings
          BY <3>1, <3>3, <5>2, <1>5 DEF inherited, DependsOn, OutOfPlan
        <5> QED BY <5>1, <5>2
      <4> QED BY <4>1, GuardedInheritance
    <3> QED BY <3>2, <3>3
  <2> QED BY <2>1, <2>2 DEF ContextReady
<1> QED BY <1>3, <1>4, <1>5

---------------------------------------------------------------------------
(* What an unchanged receipt tells.                                        *)

\* While today's receipt of a document is the one written down, everything it
\* was written against reads as it did: the documents of earlier stages, and
\* what earlier chapters' scripts hand on.
THEOREM ReceiptTells ==
  ASSUME NEW b1 \in Books, NEW b2 \in Books, NEW s, Chapter(s) \in Chapters, Kind(s) \in Kinds,
         Kind(s) # "settings", receipt(b1, s) = receipt(b2, s)
  PROVE  /\ \A t \in Slots : Chapter(t) \in {0, Chapter(s)} /\ stageRank[Kind(t)] < stageRank[Kind(s)]
                               => SameContent(b1, b2, t)
         /\ \A t \in Slots : Kind(t) = "script" /\ Chapter(t) < Chapter(s)
                               => Exists(b1, t) = Exists(b2, t) /\ StatePart(b1, t) = StatePart(b2, t)
<1>0. /\ \A t \in Slots : /\ Exists(b1, t) <=> Text(b1, t) # 0
                          /\ Exists(b2, t) <=> Text(b2, t) # 0
                          /\ StatePart(b1, t) # 0 <=> Exists(b1, t)
                          /\ StatePart(b2, t) # 0 <=> Exists(b2, t)
  BY BookParts
<1>1. \A t \in Slots : /\ t = <<Chapter(t), Kind(t), PageNo(t)>>
                       /\ Chapter(t) \in Nat /\ Kind(t) \in Kinds
                       /\ Kind(t) # "page_prompt" => PageNo(t) = 0
                       /\ Chapter(t) = 0 <=> t = Settings
                       /\ t # Settings => Chapter(t) \in Chapters
  BY SlotParts
<1>2. Chapters \subseteq Nat \ {0}
  BY LineageAssumption
<1>3. ASSUME NEW t \in Slots, Chapter(t) \in {0, Chapter(s)}, stageRank[Kind(t)] < stageRank[Kind(s)]
      PROVE  SameContent(b1, b2, t)
  <2> DEFINE entry == <<Kind(t), Chapter(t), 0, Text(b1, t)>>
  <2>1. entry \in receipt(b1, s)
    BY <1>3 DEF receipt
  <2>2. entry \in receipt(b2, s)
    BY <2>1
  <2>3. Kind(t) \notin {"source", "state"} /\ Kind(t) # "page_prompt"
    <3>1. stageRank[Kind(s)] <= 3
      BY Ranks DEF Kinds
    <3> QED BY <1>1, <1>3, <3>1, Ranks DEF Kinds
  <2>4. \A d \in Chapters : d < Chapter(s) => d # Chapter(t)
    BY <1>2, <1>3
  <2>5. entry \in {<<Kind(u), Chapter(u), 0, Text(b2, u)>> :
                     u \in {v \in Slots : /\ Chapter(v) \in {0, Chapter(s)}
                                          /\ stageRank[Kind(v)] < stageRank[Kind(s)]}}
    BY <2>2, <2>3, <2>4 DEF receipt
  <2>6. PICK u \in Slots : /\ stageRank[Kind(u)] < stageRank[Kind(s)]
                           /\ entry = <<Kind(u), Chapter(u), 0, Text(b2, u)>>
    BY <2>5
  <2>7. Kind(u) = Kind(t) /\ Chapter(u) = Chapter(t) /\ Text(b1, t) = Text(b2, u)
    BY <2>6
  <2>8. u = t
    BY <1>1, <2>3, <2>7
  <2> QED BY <1>0, <2>7, <2>8 DEF SameContent, Exists
<1>4. ASSUME NEW t \in Slots, Kind(t) = "script", Chapter(t) < Chapter(s)
      PROVE  StatePart(b1, t) = StatePart(b2, t)
  <2>1. t # Settings /\ PageNo(t) = 0 /\ Chapter(t) \in Chapters
    BY <1>1, <1>4 DEF Settings, Kind
  <2>2. t = <<Chapter(t), "script", 0>>
    BY <1>1, <1>4, <2>1
  <2> DEFINE entry == <<"script", Chapter(t), 0, StatePart(b1, t)>>
  <2>3. entry \in {<<"script", c, 0, StatePart(b1, <<c, "script", 0>>)>> :
                     c \in {d \in Chapters : d < Chapter(s)}}
    BY <1>4, <2>1, <2>2
  <2>4. entry \in receipt(b2, s)
    BY <2>3 DEF receipt
  <2>5. \A u \in Slots : Chapter(u) \in {0, Chapter(s)} => Chapter(u) # Chapter(t)
    BY <1>1, <1>2, <1>4, <2>1
  <2>6. entry \in {<<"script", c, 0, StatePart(b2, <<c, "script", 0>>)>> :
                     c \in {d \in Chapters : d < Chapter(s)}}
    BY <2>4, <2>5 DEF receipt
  <2>7. PICK c \in Chapters : entry = <<"script", c, 0, StatePart(b2, <<c, "script", 0>>)>>
    BY <2>6
  <2>8. c = Chapter(t) /\ StatePart(b1, t) = StatePart(b2, <<c, "script", 0>>)
    BY <2>7
  <2> QED BY <2>2, <2>8
<1> QED BY <1>0, <1>3, <1>4 DEF Exists

\* A document saved on top of complete and current upstream documents is
\* current: the save writes today's receipt, and nothing it looks at moves.
LEMMA SaveIsCurrent ==
  ASSUME NEW b \in Books, NEW s \in Slots, NEW texts \in NewBodies, texts[s] # 0,
         \A t \in Slots : t # s => texts[t] = 0, ContextReady(b, s)
  PROVE  s \notin staleDocuments(saveDocuments(b, texts, TRUE))
<1> DEFINE after == saveDocuments(b, texts, TRUE)
<1>1. /\ after.source = b.source
      /\ \A t \in Slots : t # s => after.docs[t] = b.docs[t]
      /\ after.docs[s].receipt = receipt(after, s)
  BY SaveEffect
<1> HIDE DEF after
<1>2. \A u \in Slots : Precedes(u, s) => after.docs[u] = b.docs[u]
  BY <1>1, PipelineOrder
<1>3. \A u \in Slots : Precedes(u, s) => SameContent(b, after, u)
  BY <1>2 DEF SameContent, Exists, Text
<1>4. upstream(after, s) = upstream(b, s)
  BY <1>3, UpstreamLooksBack
<1>5. ASSUME NEW t \in upstream(b, s)
      PROVE  t \notin staleDocuments(after)
  <2>1. t \in Slots /\ Precedes(t, s) /\ t \notin staleDocuments(b)
    BY <1>5, UpstreamPrecedes DEF ContextReady
  <2>2. \A u \in Slots : Precedes(u, t) \/ u = t => Precedes(u, s)
    BY <2>1, PipelineOrder
  <2>3. \A u \in Slots : Precedes(u, t) \/ u = t =>
          SameContent(b, after, u) /\ b.docs[u].receipt = after.docs[u].receipt
    BY <1>2, <1>3, <2>2
  <2>4. \A c \in Chapters \cup {0} : b.source[c].text = after.source[c].text
    BY <1>1
  <2> QED BY <2>1, <2>3, <2>4, StalenessLooksBack
<1>6. upstream(after, s) \cap staleDocuments(after) = {}
  BY <1>4, <1>5
<1>7. s \notin changedDocuments(after)
  BY <1>1 DEF changedDocuments
<1> QED BY <1>6, <1>7, StaleEquation DEF after

\* After such a save what is left of a chapter's sync is behind the saved
\* document, but for what was left before it already.
THEOREM SaveMovesForward ==
  ASSUME NEW b \in Books, NEW c \in Chapters, NEW s \in Slots, Chapter(s) = c, NEW texts \in NewBodies,
         texts[s] # 0, \A t \in Slots : t # s => texts[t] = 0, ContextReady(b, s)
  PROVE  LET after == saveDocuments(b, texts, TRUE)
         IN /\ \A u \in planTargets(after, c) : Precedes(s, u) \/ (Precedes(u, s) /\ u \in planTargets(b, c))
            /\ \A u \in missingPages(after, c) : Precedes(s, u) \/ (Precedes(u, s) /\ u \in missingPages(b, c))
<1> DEFINE after == saveDocuments(b, texts, TRUE)
           board == Storyboard(c)
<1>1. /\ after.source = b.source /\ after \in Books
      /\ \A t \in Slots : t # s => after.docs[t] = b.docs[t]
      /\ Text(after, s) # 0
  BY SaveEffect
<1>2. s \notin staleDocuments(after)
  BY SaveIsCurrent
<1> HIDE DEF after
<1>3. Exists(after, s)
  BY <1>1, BookParts
<1>4. board \in Slots /\ Chapter(board) = c /\ Kind(board) = "storyboard" /\ PageNo(board) = 0
  BY DEF Storyboard, Slots, Chapter, Kind, PageNo
<1>5. \A u \in Slots : Precedes(u, s) => after.docs[u] = b.docs[u]
  BY <1>1, PipelineOrder
<1>6. \A u \in Slots : Kind(u) = "page_prompt" /\ Chapter(u) = c => Precedes(board, u)
  BY <1>4, Ranks DEF Precedes
<1>7. ASSUME NEW u \in Slots, Kind(u) = "page_prompt", Chapter(u) = c, Precedes(u, s)
      PROVE  HasPlan(after, c) = HasPlan(b, c) /\ Plan(after, c) = Plan(b, c)
  <2>1. Precedes(board, s)
    BY <1>4, <1>6, <1>7, PipelineOrder
  <2>2. after.docs[board] = b.docs[board]
    BY <1>4, <1>5, <2>1
  <2> QED BY <2>2 DEF HasPlan, Plan, Exists, Issues, Text, board
<1>8. ASSUME NEW u \in Slots, Precedes(u, s)
      PROVE  u \in staleDocuments(after) => u \in staleDocuments(b)
  <2>1. \A v \in Slots : Precedes(v, u) \/ v = u => after.docs[v] = b.docs[v]
    BY <1>5, <1>8, PipelineOrder
  <2>2. \A v \in Slots : Precedes(v, u) \/ v = u =>
          SameContent(after, b, v) /\ after.docs[v].receipt = b.docs[v].receipt
    BY <2>1 DEF SameContent, Exists, Text
  <2>3. \A d \in Chapters \cup {0} : after.source[d].text = b.source[d].text
    BY <1>1
  <2> QED BY <2>2, <2>3, StalenessLooksBack
<1>9. ASSUME NEW u \in planTargets(after, c), ~Precedes(s, u)
      PROVE  Precedes(u, s) /\ u \in planTargets(b, c)
  <2>1. u \in Slots /\ Exists(after, u) /\ Chapter(u) \in {0, c} /\ ~OutOfPlan(after, u) /\ u \in staleDocuments(after)
    BY DEF planTargets, inPlanDocuments, documents
  <2>2. Precedes(u, s)
    BY <1>2, <1>9, <2>1, PipelineOrder
  <2>3. Exists(b, u) /\ u \in staleDocuments(b)
    BY <1>5, <1>8, <2>1, <2>2 DEF Exists
  <2>4. ~OutOfPlan(b, u)
    <3>1. CASE Kind(u) # "page_prompt"
      BY <3>1 DEF OutOfPlan
    <3>2. CASE Kind(u) = "page_prompt"
      <4>1. Chapter(u) = c
        BY <2>1, <3>2, SlotParts DEF Settings, Kind
      <4>2. HasPlan(after, c) = HasPlan(b, c) /\ Plan(after, c) = Plan(b, c)
        BY <1>7, <2>1, <2>2, <3>2, <4>1
      <4> QED BY <2>1, <3>2, <4>1, <4>2 DEF OutOfPlan
    <3> QED BY <3>1, <3>2
  <2> QED BY <2>1, <2>2, <2>3, <2>4 DEF planTargets, inPlanDocuments, documents
<1>10. ASSUME NEW u \in missingPages(after, c), ~Precedes(s, u)
       PROVE  Precedes(u, s) /\ u \in missingPages(b, c)
  <2>1. PICK p \in Plan(after, c) : u = <<c, "page_prompt", p>> /\ ~Exists(after, u)
    BY DEF missingPages
  <2>2. u \in Slots /\ Kind(u) = "page_prompt" /\ Chapter(u) = c
    BY <1>1, <2>1, PlannedPages DEF Slots, Kind, Chapter
  <2>3. u # s
    BY <1>3, <2>1
  <2>4. Precedes(u, s)
    BY <1>10, <2>2, <2>3, PipelineOrder
  <2>5. p \in Plan(b, c) /\ ~Exists(b, u)
    <3>1. Plan(after, c) = Plan(b, c)
      BY <1>7, <2>2, <2>4
    <3> QED BY <1>5, <2>1, <2>2, <2>4, <3>1 DEF Exists
  <2> QED BY <2>1, <2>4, <2>5 DEF missingPages
<1> QED BY <1>9, <1>10 DEF after
=============================================================================
