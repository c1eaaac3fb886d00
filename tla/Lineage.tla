------------------------------ MODULE Lineage ------------------------------
(***************************************************************************)
(* Lineage of the comic documents of one novel work (internal/comic        *)
(* lineage.go): which upstream content a document was written against (its *)
(* receipt), which documents are therefore stale, what a chapter sync      *)
(* would rewrite (its plan) and what a running task relies on (the guard). *)
(*                                                                         *)
(* A Markdown body is a number; what the code reads out of it is given by  *)
(* constants: the section later documents inherit (Part), whether it is    *)
(* complete (Complete) and the pages a storyboard lists (PageList).  Equal *)
(* hashes stand for equal content.  Zero is the body that does not exist.  *)
(***************************************************************************)
EXTENDS Naturals, FiniteSets, Sequences, SequencesExt

CONSTANTS
  Chapters,   \* chapters of the work, by their sequence number (from 1)
  Pages,      \* page numbers of page prompts (from 1)
  Texts,      \* Markdown bodies and chapter texts
  Part,       \* [Texts -> Nat \ {0}]: hash of a body's inherited section
  Complete,   \* [Texts -> BOOLEAN]: validate finds no issue in the body
  PageList    \* [Texts -> Seq(Pages)]: the "# page N" headings of a body

ASSUME LineageAssumption ==
  /\ IsFiniteSet(Chapters) /\ IsFiniteSet(Pages)
  /\ Chapters \subseteq Nat \ {0}
  /\ Pages \subseteq Nat \ {0}
  /\ Texts \subseteq Nat \ {0}
  /\ Part \in [Texts -> Nat \ {0}]
  /\ Complete \in [Texts -> BOOLEAN]
  /\ PageList \in [Texts -> Seq(Pages)]

---------------------------------------------------------------------------
(* Documents.  A slot <<chapter, kind, page>> is a row of                  *)
(* comic_md_documents: its unique key, and so its document id.  Settings   *)
(* belong to the work (chapter 0), only page prompts have a page.          *)

Kinds == {"settings", "script", "storyboard", "page_prompt"}

stageRank == [settings |-> 0, script |-> 1, storyboard |-> 2, page_prompt |-> 3]

Settings == <<0, "settings", 0>>

Slots == {Settings}
           \cup Chapters \X {"script", "storyboard"} \X {0}
           \cup Chapters \X {"page_prompt"} \X Pages

Chapter(s) == s[1]
Kind(s) == s[2]
PageNo(s) == s[3]

\* A stored document; revision 0 is a slot without a row.  The receipt is a
\* set of <<input, chapter, page, hash>>.
Receipts == SUBSET ({"source", "settings", "script", "storyboard", "state"}
                      \X (Chapters \cup {0}) \X (Pages \cup {0}) \X Nat)
Document == [revision : Nat, text : Texts \cup {0}, receipt : Receipts]
NoDocument == [revision |-> 0, text |-> 0, receipt |-> {}]

\* A book: every document of the work and every chapter's source revision.
Exists(b, s) == b.docs[s].revision > 0
Text(b, s) == b.docs[s].text
Issues(b, s) == Exists(b, s) /\ ~Complete[Text(b, s)]
StatePart(b, s) == IF Exists(b, s) THEN Part[Text(b, s)] ELSE 0

\* A row has a body, and the settings were written against nothing.
Sourced == [revision : Nat, text : Texts \cup {0}]
Books == {b \in [docs : [Slots -> Document], source : [Chapters -> Sourced]] :
            /\ \A s \in Slots : Exists(b, s) <=> Text(b, s) # 0
            /\ b.docs[Settings].receipt = {}}

\* loadBook's order: settings, then by chapter, pipeline stage and page.
Precedes(s, t) ==
  \/ Chapter(s) < Chapter(t)
  \/ /\ Chapter(s) = Chapter(t)
     /\ \/ stageRank[Kind(s)] < stageRank[Kind(t)]
        \/ Kind(s) = Kind(t) /\ PageNo(s) < PageNo(t)

inOrder(S) ==
  [i \in 1..Cardinality(S) |->
     CHOOSE s \in S : Cardinality({t \in S : Precedes(t, s)}) = i - 1]

---------------------------------------------------------------------------
(* Page plan and upstream.                                                 *)

Storyboard(c) == <<c, "storyboard", 0>>

\* pagePlan: a chapter has a plan while its storyboard is complete.
HasPlan(b, c) == Exists(b, Storyboard(c)) /\ ~Issues(b, Storyboard(c))
Plan(b, c) == IF HasPlan(b, c) THEN ToSet(PageList[Text(b, Storyboard(c))])
                               ELSE {}

OutOfPlan(b, s) ==
  /\ Kind(s) = "page_prompt"
  /\ HasPlan(b, Chapter(s))
  /\ PageNo(s) \notin Plan(b, Chapter(s))

\* upstream: what a document of this kind and page depends on.
DependsOn(b, s, t) ==
  /\ Kind(s) # "settings"
  /\ \/ t = Settings
     \/ Chapter(t) = Chapter(s) /\ stageRank[Kind(t)] < stageRank[Kind(s)]
     \/ Chapter(t) < Chapter(s) /\ Kind(t) = "script"
     \/ /\ Kind(t) = "page_prompt" /\ ~OutOfPlan(b, t)
        /\ \/ Chapter(t) < Chapter(s)
           \/ /\ Kind(s) = "page_prompt"
              /\ Chapter(t) = Chapter(s)
              /\ PageNo(t) < PageNo(s)

upstream(b, s) == {t \in Slots : Exists(b, t) /\ DependsOn(b, s, t)}

---------------------------------------------------------------------------
(* Receipts and staleness.                                                 *)

\* receipt: today's upstream content of a document.  Settings stay valid
\* when a chapter changes; an earlier chapter's script counts with its
\* supplement only, an earlier page with its character state only.
receipt(b, s) ==
  IF Kind(s) = "settings" THEN {}
  ELSE {<<"source", Chapter(s), 0, b.source[Chapter(s)].text>>}
       \cup {<<Kind(t), Chapter(t), 0, Text(b, t)>> :
               t \in {u \in Slots : /\ Chapter(u) \in {0, Chapter(s)}
                                    /\ stageRank[Kind(u)] < stageRank[Kind(s)]}}
       \cup {<<"script", c, 0, StatePart(b, <<c, "script", 0>>)>> :
               c \in {d \in Chapters : d < Chapter(s)}}
       \cup {<<"state", Chapter(t), PageNo(t), StatePart(b, t)>> :
               t \in {u \in upstream(b, s) : Kind(u) = "page_prompt"}}

\* loadBook's loop: a document is stale when its receipt differs from today's
\* or an upstream document is stale.  Everything upstream of a document
\* precedes it, so the loop has decided it before.
staleDocuments(b) ==
  LET changed == {s \in Slots : Exists(b, s) /\ b.docs[s].receipt # receipt(b, s)}
      isStale[s \in Slots] == s \in changed \/ \E t \in upstream(b, s) : isStale[t]
  IN {s \in Slots : Exists(b, s) /\ isStale[s]}

\* readyDocument: complete and current.
Ready(b, s) == Exists(b, s) /\ ~Issues(b, s) /\ s \notin staleDocuments(b)

\* context refuses while any upstream document is stale or incomplete.
ContextReady(b, s) ==
  /\ upstream(b, s) \cap staleDocuments(b) = {}
  /\ \A t \in upstream(b, s) : ~Issues(b, t)

---------------------------------------------------------------------------
(* What a chapter task sees: documents, guard and plan.                    *)

documents(b, c) == {s \in Slots : Exists(b, s) /\ Chapter(s) \in {0, c}}

inPlanDocuments(b, c) == {s \in documents(b, c) : ~OutOfPlan(b, s)}

\* guard: the chapter's source revision, its own document revisions and the
\* inherited state of the settings and of earlier chapters.
chapterDocuments(b, c) == {s \in documents(b, c) : Chapter(s) = c}

localExistence(b, c) == {<<s, 1>> : s \in chapterDocuments(b, c)}   \* mutant
localState(b, c) == {<<s, b.docs[s].revision>> : s \in chapterDocuments(b, c)}

\* An earlier chapter counts with what later prompts inherit of it.
sourceOnly(b, t) == 1   \* mutant
fingerprint(b, t) == IF t = Settings THEN Text(b, t) ELSE StatePart(b, t)

inherited(b, c) ==
  {t \in Slots : /\ Exists(b, t) /\ Chapter(t) < c
                 /\ Kind(t) # "storyboard" /\ ~OutOfPlan(b, t)}

Guards == [source : Nat, local : SUBSET (Slots \X Nat),
           upstream : SUBSET (Slots \X Nat \X BOOLEAN \X BOOLEAN)]

guard(b, c) ==
  LET stale == staleDocuments(b)
  IN [source   |-> b.source[c].revision,
      local    |-> localState(b, c),
      upstream |-> {<<t, fingerprint(b, t), t \in stale, Issues(b, t)>> :
                      t \in inherited(b, c)}]

planTargets(b, c) == inPlanDocuments(b, c) \cap staleDocuments(b)

missingPages(b, c) ==
  {<<c, "page_prompt", p>> : p \in {q \in Plan(b, c) :
                                      ~Exists(b, <<c, "page_prompt", q>>)}}

obsoletePages(b, c) == {s \in documents(b, c) : OutOfPlan(b, s)}

\* A plan is blocked by a stale earlier chapter, or by an incomplete
\* upstream document that the plan itself does not rewrite.
planBlocked(b, c) ==
  LET stale == staleDocuments(b)
      targets == inPlanDocuments(b, c) \cap stale
  IN \E s \in targets : \E t \in upstream(b, s) :
       \/ Chapter(t) \notin {0, c} /\ t \in stale
       \/ Issues(b, t) /\ t \notin targets

planEmpty(b, c) == planTargets(b, c) = {} /\ missingPages(b, c) = {}

---------------------------------------------------------------------------
(* saveDocument: a new revision; a plain save of an existing document      *)
(* keeps its stored receipt, an acknowledging or first save records        *)
(* today's upstream.  texts gives the saved slots their new bodies: a      *)
(* page's receipt only looks at earlier pages, so saving a generation's    *)
(* pages one by one in order leaves what saving them together does.        *)

saveDocuments(b, texts, acknowledge) ==
  LET written == [b EXCEPT !.docs = [s \in Slots |->
                    IF texts[s] # 0
                      THEN [b.docs[s] EXCEPT !.revision = @ + 1,
                                             !.text = texts[s]]
                      ELSE b.docs[s]]]
  IN [b EXCEPT !.docs = [s \in Slots |->
        IF texts[s] # 0 /\ (acknowledge \/ ~Exists(b, s))
          THEN [written.docs[s] EXCEPT !.receipt = receipt(written, s)]
          ELSE written.docs[s]]]

\* The new body of one document; 0 leaves a document alone.
Only(s, text) == [t \in Slots |-> IF t = s THEN text ELSE 0]
=============================================================================
