--------------------------- MODULE NovelCommands ---------------------------
(***************************************************************************)
(* The writing commands of internal/novel: creating a work and saving a    *)
(* chapter text.  Each runs as one IMMEDIATE transaction of several        *)
(* statements, guarded by a receipt per idempotency key (withReceipt); a   *)
(* statement may fail, the process may be killed between any two, and a    *)
(* caller who heard nothing may call again.                                *)
(*                                                                         *)
(* An identifier made by newID is named by the call that made it: a call   *)
(* makes at most one work, one chapter and one revision.                   *)
(***************************************************************************)
EXTENDS Naturals, Sequences, FiniteSetsExt

CONSTANTS
  Calls,      \* calls of the two commands, over any number of processes
  Keys,       \* idempotency keys
  Texts,      \* chapter texts
  Places,     \* places in a work (sequence_no)
  OldWorks,   \* works that earlier calls made, active or archived
  none

WorkIds == Calls \cup OldWorks

\* novel_work_create, and novel_chapter_revision_create for a chapter that
\* exists or for a new one.
Requests ==
  {[command |-> "work", work |-> none, chapter |-> none, place |-> 0, text |-> none]}
  \cup [command : {"text"}, work : WorkIds, chapter : Calls, place : {0}, text : Texts]
  \cup [command : {"text"}, work : WorkIds, chapter : {none}, place : Places, text : Texts]

ASSUME NovelCommandsAssumption ==
  /\ Calls \cap OldWorks = {}
  /\ none \notin Calls \cup OldWorks \cup [key : Keys, request : Requests]

VARIABLES
  calls,      \* what each call asks for, how far it is and what it answers
  db,         \* the tables, as committed
  draft,      \* the tables as the open transaction sees them
  tx          \* the open transaction: its call, its next statement, its findings

commandVars == <<calls, db, draft, tx>>

NoTx == [call |-> none, at |-> "idle", chapter |-> none, answer |-> none]
NotMade == [phase |-> "new", key |-> none, request |-> none, answer |-> none]

CommandsInit ==
  /\ calls = [c \in Calls |-> NotMade]
  /\ \E status \in [OldWorks -> {"active", "archived"}] :
       db = [works |-> {[id |-> w, status |-> status[w]] : w \in OldWorks},
             chapters |-> {}, revisions |-> {}, receipts |-> {}]
  /\ draft = db
  /\ tx = NoTx

---------------------------------------------------------------------------
(* The statements, as functions from tables to tables.                     *)

RevisionsOf(store, chapter) == {r \in store.revisions : r.chapter = chapter}

\* COALESCE(MAX(version), 0) + 1
NextVersion(store, chapter) ==
  Max({0} \cup {r.version : r \in RevisionsOf(store, chapter)}) + 1

WithWork(store, c) ==
  [store EXCEPT !.works = @ \cup {[id |-> c, status |-> "active"]}]

WithChapter(store, c, request) ==
  [store EXCEPT !.chapters = @ \cup
     {[id |-> c, work |-> request.work, place |-> request.place, current |-> none]}]

WithRevision(store, c, chapter, text) ==
  [store EXCEPT !.revisions = @ \cup
     {[id |-> c, chapter |-> chapter, version |-> NextVersion(store, chapter),
       text |-> text]}]

\* The chapter shows the revision.
Pointed(store, c, chapter) ==
  [store EXCEPT !.chapters =
     {IF row.id = chapter THEN [row EXCEPT !.current = c] ELSE row : row \in @}]

WithReceipt(store, key, request, answer) ==
  [store EXCEPT !.receipts = @ \cup
     {[command |-> request.command, key |-> key, request |-> request, answer |-> answer]}]

---------------------------------------------------------------------------
(* One call: the statements of its transaction, in order.                  *)

\* A caller names works and chapters it has been shown.
Named(request) ==
  /\ request.work # none => \E row \in db.works : row.id = request.work
  /\ request.chapter # none => \E row \in db.chapters : row.id = request.chapter

Send(c) ==
  /\ calls[c].phase = "new"
  /\ \E key \in Keys, request \in Requests :
       /\ Named(request)
       /\ calls' = [calls EXCEPT ![c] =
                      [phase |-> "sent", key |-> key, request |-> request, answer |-> none]]
  /\ UNCHANGED <<db, draft, tx>>

\* Tx: the write lock is taken up front.  A text is checked before its receipt
\* is looked up, a work has nothing to check.
Begin(c) ==
  /\ calls[c].phase = "sent"
  /\ tx.call = none
  /\ tx' = [NoTx EXCEPT !.call = c,
              !.at = IF calls[c].request.command = "text" THEN "check" ELSE "receipt"]
  /\ UNCHANGED <<calls, db, draft>>

\* The input is refused before any transaction, or none could be opened.
RefuseCall(c) ==
  /\ calls[c].phase = "sent" /\ tx.call # c
  /\ calls' = [calls EXCEPT ![c].phase = "failed"]
  /\ UNCHANGED <<db, draft, tx>>

\* The open transaction's call and request.
mine == calls[tx.call]
asks == mine.request

Rollback ==
  /\ calls' = [calls EXCEPT ![tx.call].phase = "failed"]
  /\ draft' = db
  /\ tx' = NoTx
  /\ UNCHANGED db

\* A check or a statement fails: an asset, a parent context or a volume that is
\* not this work's, a broken constraint, a full disk.
StatementFails == tx.call # none /\ Rollback

\* getWork, and only an active work is written to.
CheckWork ==
  /\ tx.at = "check"
  /\ IF [id |-> asks.work, status |-> "active"] \in draft.works
       THEN tx' = [tx EXCEPT !.at = "receipt"] /\ UNCHANGED <<calls, db, draft>>
       ELSE Rollback

ReceiptsOfPayload(store, request, key) ==   \* mutant
  {r \in store.receipts : r.command = request.command /\ r.request = request}

\* The receipt of the command under this key.
Receipts(store, request, key) ==
  {r \in store.receipts : r.command = request.command /\ r.key = key}

\* withReceipt: a repeat answers what is stored, another payload is refused.
LookUpReceipt ==
  /\ tx.at = "receipt"
  /\ LET found == Receipts(draft, asks, mine.key) IN
     \/ /\ found = {}
        /\ tx' = [tx EXCEPT !.at = IF asks.command = "work" THEN "work" ELSE "chapter"]
        /\ UNCHANGED <<calls, db, draft>>
     \/ \E r \in found :
          /\ r.request = asks
          /\ tx' = [tx EXCEPT !.at = "commit", !.answer = r.answer]
          /\ UNCHANGED <<calls, db, draft>>
     \/ (\E r \in found : r.request # asks) /\ Rollback

\* insertWork: the work and the genesis rows it points to.
InsertWork ==
  /\ tx.at = "work"
  /\ draft' = WithWork(draft, tx.call)
  /\ tx' = [tx EXCEPT !.at = "save",
              !.answer = [id |-> tx.call, chapter |-> none, version |-> 0]]
  /\ UNCHANGED <<calls, db>>

\* resolveChapter: a chapter of this work, or a new one at a free place.
ResolveChapter ==
  /\ tx.at = "chapter"
  /\ \/ /\ asks.chapter # none
        /\ \E row \in draft.chapters : row.id = asks.chapter /\ row.work = asks.work
        /\ tx' = [tx EXCEPT !.at = "revision", !.chapter = asks.chapter]
        /\ UNCHANGED <<calls, db, draft>>
     \/ /\ asks.chapter # none
        /\ \A row \in draft.chapters : ~ (row.id = asks.chapter /\ row.work = asks.work)
        /\ Rollback
     \/ /\ asks.chapter = none
        /\ \A row \in draft.chapters : <<row.work, row.place>> # <<asks.work, asks.place>>
        /\ draft' = WithChapter(draft, tx.call, asks)
        /\ tx' = [tx EXCEPT !.at = "revision", !.chapter = tx.call]
        /\ UNCHANGED <<calls, db>>
     \/ /\ asks.chapter = none
        /\ \E row \in draft.chapters : <<row.work, row.place>> = <<asks.work, asks.place>>
        /\ Rollback

InsertRevision ==
  /\ tx.at = "revision"
  /\ draft' = WithRevision(draft, tx.call, tx.chapter, asks.text)
  /\ tx' = [tx EXCEPT !.at = "point",
              !.answer = [id |-> tx.call, chapter |-> tx.chapter,
                          version |-> NextVersion(draft, tx.chapter)]]
  /\ UNCHANGED <<calls, db>>

PointChapter ==
  /\ tx.at = "point"
  /\ draft' = Pointed(draft, tx.call, tx.chapter)
  /\ tx' = [tx EXCEPT !.at = "save"]
  /\ UNCHANGED <<calls, db>>

SaveReceipt ==
  /\ tx.at = "save"
  /\ draft' = WithReceipt(draft, mine.key, asks, tx.answer)
  /\ tx' = [tx EXCEPT !.at = "commit"]
  /\ UNCHANGED <<calls, db>>

Commit ==
  /\ tx.at = "commit"
  /\ db' = draft
  /\ calls' = [calls EXCEPT ![tx.call].phase = "committed", ![tx.call].answer = tx.answer]
  /\ tx' = NoTx
  /\ UNCHANGED draft

\* The answer reaches the caller.
Deliver(c) ==
  /\ calls[c].phase = "committed"
  /\ calls' = [calls EXCEPT ![c].phase = "answered"]
  /\ UNCHANGED <<db, draft, tx>>

\* The process dies: the open transaction is rolled back and no call of it is
\* ever answered.  The next process finds the committed tables.
Crash ==
  /\ calls' = [c \in Calls |-> IF calls[c].phase \in {"sent", "committed"}
                                 THEN [calls[c] EXCEPT !.phase = "lost"] ELSE calls[c]]
  /\ draft' = db
  /\ tx' = NoTx
  /\ UNCHANGED db

CommandsNext ==
  \/ \E c \in Calls : Send(c) \/ RefuseCall(c) \/ Begin(c) \/ Deliver(c)
  \/ StatementFails \/ CheckWork \/ LookUpReceipt \/ InsertWork \/ ResolveChapter
  \/ InsertRevision \/ PointChapter \/ SaveReceipt \/ Commit
  \/ Crash

CommandsSpec == CommandsInit /\ [][CommandsNext]_commandVars

---------------------------------------------------------------------------
(* Properties.                                                             *)

Answers == [id : Calls, chapter : Calls \cup {none}, version : Nat]

Store ==
  [works : SUBSET [id : WorkIds, status : {"active", "archived"}],
   chapters : SUBSET [id : Calls, work : WorkIds, place : Places \cup {0},
                      current : Calls \cup {none}],
   revisions : SUBSET [id : Calls, chapter : Calls, version : Nat \ {0}, text : Texts],
   receipts : SUBSET [command : {"work", "text"}, key : Keys, request : Requests,
                      answer : Answers]]

\* The calls, the tables and the transaction keep their shapes.
CommandsTypeOK ==
  /\ calls \in [Calls -> {NotMade} \cup
       [phase : {"sent", "committed", "answered", "failed", "lost"},
        key : Keys, request : Requests, answer : Answers \cup {none}]]
  /\ db \in Store /\ draft \in Store
  /\ tx \in [call : Calls \cup {none}, chapter : Calls \cup {none}, answer : Answers \cup {none},
             at : {"idle", "check", "receipt", "work", "chapter", "revision", "point", "save",
                   "commit"}]

TextsOf(store, chapter) ==
  [v \in 1..(NextVersion(store, chapter) - 1) |->
     (CHOOSE r \in RevisionsOf(store, chapter) : r.version = v).text]

\* The number of the revision the chapter points to.
ShownOf(store, chapter) ==
  IF \E row \in store.chapters : row.id = chapter
    THEN LET row == CHOOSE row \in store.chapters : row.id = chapter
         IN (CHOOSE r \in store.revisions : r.id = row.current).version
    ELSE 0

Failed == [id |-> none, chapter |-> none, version |-> 0]

bookAsked == [c \in Calls |->
  IF calls[c].phase = "new" THEN none
    ELSE [key |-> calls[c].key, request |-> calls[c].request]]

bookReplies == [c \in Calls |->
  IF calls[c].phase = "answered" THEN calls[c].answer
    ELSE IF calls[c].phase \in {"failed", "lost"} THEN Failed ELSE none]

bookChapters ==
  {[id |-> row.id, work |-> row.work, place |-> row.place] : row \in db.chapters}

bookTexts == [c \in Calls |-> TextsOf(db, c)]
bookShown == [c \in Calls |-> ShownOf(db, c)]

Book == INSTANCE ReceiptBook WITH
  asked <- bookAsked, replies <- bookReplies, works <- db.works,
  chapters <- bookChapters, texts <- bookTexts, shown <- bookShown,
  applied <- db.receipts

\* The commands keep the book of receipts: however calls are repeated, refused,
\* rolled back or lost with the process, a command takes effect at most once
\* under its key, every repeat hears its one answer or an error, and each saved
\* text is its chapter's next revision and the one shown (withReceipt,
\* insertChapterRevision).
KeepsTheBook == Book!Spec
=============================================================================
