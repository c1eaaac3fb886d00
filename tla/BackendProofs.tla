--------------------------- MODULE BackendProofs ---------------------------
(***************************************************************************)
(* What the backend's components promise holds for any number of jobs,     *)
(* works, calls, keys, texts, versions of a file and builds.               *)
(*                                                                         *)
(*   - JobLedger: two jobs of one work never run together and a running    *)
(*     row is attended; inductive only with the fact that no goroutine     *)
(*     survives its process.                                               *)
(*   - NovelCommands implements ReceiptBook.  The invariant says, for each *)
(*     statement of the open transaction, how its draft follows from the   *)
(*     committed tables; then a commit is one step of the book, a rollback *)
(*     or a crash is a caller giving up, and every other statement is      *)
(*     hidden.                                                             *)
(*   - VideoTask: what was received is always the beginning of the version *)
(*     its validator names, so that a resumed body is never a join of two. *)
(*   - SchemaUpgrade: the backup of the last upgrade is the newest one, so *)
(*     that pruning, which keeps at least one, never takes it.             *)
(***************************************************************************)
EXTENDS JobLedger, NovelCommands, VideoTask, SchemaUpgrade, SequenceTheorems,
        FiniteSetTheorems, TLAPS

---------------------------------------------------------------------------
(* Comic background jobs (JobLedger).                                      *)

\* A dead process has no goroutines.
DownIsIdle == app = "down" => \A j \in JobIds : worker[j] = "idle"

IInv ==
  /\ TypeOK
  /\ OneJobPerWork
  /\ RunningIsAttended
  /\ DownIsIdle

\* The initial states satisfy the inductive invariant.
LEMMA InitIInv == Init => IInv
  BY DEF Init, IInv, TypeOK, OneJobPerWork,
         RunningIsAttended, DownIsIdle

\* Every step of the service and of the process keeps the inductive invariant.
LEMMA StepIInv == IInv /\ [Next]_vars => IInv'
<1> SUFFICES ASSUME IInv, [Next]_vars
             PROVE  IInv'
  OBVIOUS
<1> USE DEF IInv, TypeOK, Terminal, OneJobPerWork,
            RunningIsAttended, DownIsIdle
<1>1. ASSUME NEW j \in JobIds, NEW w \in Works, Admit(j, w)
      PROVE  IInv'
  BY <1>1 DEF Admit, RunningIn
<1>2. ASSUME NEW j \in JobIds, Start(j)
      PROVE  IInv'
  <2>1. CASE app = "closing"
    BY <1>2, <2>1 DEF Start, FinishJob
  <2>2. CASE app # "closing"
    BY <1>2, <2>2 DEF Start
  <2> QED BY <2>1, <2>2
<1>3. ASSUME NEW j \in JobIds, Submit(j)
      PROVE  IInv'
  BY <1>3 DEF Submit
<1>4. ASSUME NEW j \in JobIds, Answer(j)
      PROVE  IInv'
  BY <1>4 DEF Answer
<1>5. ASSUME NEW j \in JobIds, NEW outcome \in Terminal, End(j, outcome)
      PROVE  IInv'
  BY <1>5 DEF End, FinishJob
<1>6. ASSUME NEW j \in JobIds, LoseJob(j)
      PROVE  IInv'
  BY <1>6 DEF LoseJob
<1>7. CASE Close
  BY <1>7 DEF Close
<1>8. CASE Stop
  BY <1>8 DEF Stop
<1>9. CASE Restart
  BY <1>9 DEF Restart
<1>10. CASE UNCHANGED vars
  BY <1>10 DEF vars
<1> QED
  BY <1>1, <1>2, <1>3, <1>4, <1>5, <1>6, <1>7, <1>8, <1>9, <1>10 DEF Next, JobStep

\* The inductive invariant holds in every reachable state.
THEOREM Invariance == Spec => []IInv
  BY InitIInv, StepIInv, PTL DEF Spec

\* The rows, goroutines and process states keep their types.
THEOREM TypeCorrect == Spec => []TypeOK
  BY Invariance, PTL DEF IInv

\* However jobs are admitted, end, panic or are recovered, two jobs of one
\* novel work never run together.
THEOREM AtMostOneJobPerWork == Spec => []OneJobPerWork
  BY Invariance, PTL DEF IInv

\* A goroutine, and the paid call it makes, always belongs to a running row, and
\* a running row always has somebody left to end it.
THEOREM RunningRowsAreAttended == Spec => []RunningIsAttended
  BY Invariance, PTL DEF IInv

\* A step taken under the inductive invariant leaves every ended job as it is.
LEMMA StepTerminal ==
  IInv /\ [Next]_vars =>
    [\A j \in JobIds : status[j] \in Terminal =>
       status'[j] = status[j] /\ worker'[j] # "calling"]_vars
<1> SUFFICES ASSUME IInv, [Next]_vars, NEW i \in JobIds, status[i] \in Terminal,
                    ~ UNCHANGED vars
             PROVE  status'[i] = status[i] /\ worker'[i] # "calling"
  OBVIOUS
<1> USE DEF IInv, TypeOK, Terminal, RunningIsAttended
<1>1. worker[i] = "idle" /\ status[i] # "running" /\ status[i] # "none"
  OBVIOUS
<1>2. ASSUME NEW j \in JobIds, NEW w \in Works, Admit(j, w)
      PROVE  status'[i] = status[i] /\ worker'[i] # "calling"
  BY <1>1, <1>2 DEF Admit
<1>3. ASSUME NEW j \in JobIds, Start(j)
      PROVE  status'[i] = status[i] /\ worker'[i] # "calling"
  BY <1>1, <1>3 DEF Start, FinishJob
<1>4. ASSUME NEW j \in JobIds, Submit(j) \/ Answer(j) \/ LoseJob(j)
      PROVE  status'[i] = status[i] /\ worker'[i] # "calling"
  BY <1>1, <1>4 DEF Submit, Answer, LoseJob
<1>5. ASSUME NEW j \in JobIds, NEW outcome \in Terminal, End(j, outcome)
      PROVE  status'[i] = status[i] /\ worker'[i] # "calling"
  BY <1>1, <1>5 DEF End, FinishJob
<1>6. CASE Close \/ Stop \/ Restart
  BY <1>1, <1>6 DEF Close, Stop, Restart
<1> QED
  BY <1>2, <1>3, <1>4, <1>5, <1>6 DEF Next, JobStep

\* No late answer, panic or recovery revives a job that has ended.
THEOREM EndedJobsStayEnded == Spec => TerminalIsForever
<1>1. IInv /\ [Next]_vars =>
        [\A j \in JobIds : status[j] \in Terminal =>
           status'[j] = status[j] /\ worker'[j] # "calling"]_vars
  BY StepTerminal
<1> QED
  BY <1>1, Invariance, PTL DEF Spec, TerminalIsForever

---------------------------------------------------------------------------
(* Saved texts: the tables and what the book reads from them.              *)

\* The rows of the two tables have their shapes and keys, and the revisions of
\* a chapter are numbered without a gap.
RowsOK(store) ==
  /\ store.chapters \subseteq
       [id : Calls, work : WorkIds, place : Places \cup {0}, current : Calls \cup {none}]
  /\ store.revisions \subseteq [id : Calls, chapter : Calls, version : Nat \ {0}, text : Texts]
  /\ \A a, b \in store.chapters : a.id = b.id => a = b
  /\ \A r, s \in store.revisions :
       r.id = s.id \/ (r.chapter = s.chapter /\ r.version = s.version) => r = s
  /\ \A ch \in Calls : \E n \in Nat :
       {r.version : r \in RevisionsOf(store, ch)} = 1..n

\* A chapter points to its newest revision.
PointsToNewest(store, row) ==
  \E r \in store.revisions :
    r.id = row.current /\ r.chapter = row.id /\ r.version = NextVersion(store, row.id) - 1

TablesOK(store) ==
  RowsOK(store) /\ \A row \in store.chapters : PointsToNewest(store, row)

\* A call whose identifier no row bears.
Unused(store, c) ==
  /\ \A row \in store.chapters : row.id # c
  /\ \A r \in store.revisions : r.id # c

\* Numbered revisions: the next version is the count of the earlier ones plus one.
LEMMA NextOfCount ==
  ASSUME NEW store, NEW ch, NEW n \in Nat,
         {r.version : r \in RevisionsOf(store, ch)} = 1..n
  PROVE  NextVersion(store, ch) = n + 1
<1> DEFINE S == {0} \cup 1..n
<1>1. n \in S /\ \A y \in S : n >= y
  OBVIOUS
<1>2. \A x \in S : (\A y \in S : x >= y) => x = n
  <2> SUFFICES ASSUME NEW x \in S, \A y \in S : x >= y PROVE x = n
    OBVIOUS
  <2> QED BY <1>1
<1>3. Max(S) = n
  BY <1>1, <1>2 DEF Max
<1> QED BY <1>3 DEF NextVersion

\* The next version is a positive number.
LEMMA NextIsPositive ==
  ASSUME NEW store, RowsOK(store), NEW ch \in Calls
  PROVE  /\ NextVersion(store, ch) \in Nat \ {0}
         /\ {r.version : r \in RevisionsOf(store, ch)} = 1..(NextVersion(store, ch) - 1)
<1>1. PICK n \in Nat : {r.version : r \in RevisionsOf(store, ch)} = 1..n
  BY DEF RowsOK
<1>2. NextVersion(store, ch) = n + 1
  BY <1>1, NextOfCount
<1> QED BY <1>1, <1>2

\* The tables that differ only in chapters, or only in other columns, agree on
\* the revisions of a chapter.
LEMMA SameRevisions ==
  ASSUME NEW s, NEW t, s.revisions = t.revisions, NEW ch
  PROVE  /\ RevisionsOf(s, ch) = RevisionsOf(t, ch)
         /\ NextVersion(s, ch) = NextVersion(t, ch)
         /\ TextsOf(s, ch) = TextsOf(t, ch)
  BY DEF RevisionsOf, NextVersion, TextsOf

\* The texts of a chapter are the texts of its revisions, in their order.
LEMMA TextsAreNumbered ==
  ASSUME NEW store, RowsOK(store), NEW ch \in Calls
  PROVE  /\ TextsOf(store, ch) \in Seq(Texts)
         /\ Len(TextsOf(store, ch)) = NextVersion(store, ch) - 1
         /\ \A r \in RevisionsOf(store, ch) : TextsOf(store, ch)[r.version] = r.text
<1> DEFINE n == NextVersion(store, ch) - 1
           R == RevisionsOf(store, ch)
           at(v) == CHOOSE r \in R : r.version = v
<1>1. n \in Nat /\ {r.version : r \in R} = 1..n
  BY NextIsPositive
<1>2. R \subseteq [id : Calls, chapter : Calls, version : Nat \ {0}, text : Texts]
  BY DEF RevisionsOf, RowsOK
<1>3. ASSUME NEW r \in R PROVE at(r.version) = r
  <2>1. \A q \in R : q.version = r.version => q = r
    BY DEF RevisionsOf, RowsOK
  <2>2. at(r.version) \in R /\ at(r.version).version = r.version
    OBVIOUS
  <2> QED BY <2>1, <2>2
<1>4. TextsOf(store, ch) = [v \in 1..n |-> at(v).text]
  BY DEF TextsOf
<1>5. ASSUME NEW v \in 1..n PROVE at(v).text \in Texts
  <2>1. PICK r \in R : r.version = v
    BY <1>1
  <2>2. at(v) = r
    BY <2>1, <1>3
  <2> QED BY <2>2, <1>2
<1> HIDE DEF n, at, R
<1>6. TextsOf(store, ch) \in Seq(Texts) /\ Len(TextsOf(store, ch)) = n
  BY <1>1, <1>4, <1>5
<1>7. ASSUME NEW r \in R PROVE TextsOf(store, ch)[r.version] = r.text
  <2>1. r.version \in 1..n
    BY <1>1
  <2> QED BY <2>1, <1>3, <1>4
<1> QED BY <1>6, <1>7 DEF n, R

\* What one more revision does to the numbering.
LEMMA OneMoreRevision ==
  ASSUME NEW s, NEW t, NEW c \in Calls, NEW ch \in Calls, NEW text \in Texts,
         RowsOK(s), \A r \in s.revisions : r.id # c,
         t.chapters = s.chapters,
         t.revisions = s.revisions \cup
           {[id |-> c, chapter |-> ch, version |-> NextVersion(s, ch), text |-> text]}
  PROVE  /\ RowsOK(t)
         /\ NextVersion(t, ch) = NextVersion(s, ch) + 1
         /\ \A d \in Calls \ {ch} :
              RevisionsOf(t, d) = RevisionsOf(s, d) /\ NextVersion(t, d) = NextVersion(s, d)
         /\ TextsOf(t, ch) = Append(TextsOf(s, ch), text)
         /\ \A d \in Calls \ {ch} : TextsOf(t, d) = TextsOf(s, d)
<1> DEFINE N == NextVersion(s, ch)
           new == [id |-> c, chapter |-> ch, version |-> N, text |-> text]
<1>1. N \in Nat \ {0} /\ {r.version : r \in RevisionsOf(s, ch)} = 1..(N - 1)
  BY NextIsPositive
<1>11. new.id = c /\ new.chapter = ch /\ new.version = N /\ new.text = text
      /\ new \in [id : Calls, chapter : Calls, version : Nat \ {0}, text : Texts]
  BY <1>1
<1> HIDE DEF new
<1>2. t.revisions = s.revisions \cup {new}
  BY DEF new
<1> HIDE DEF N
<1>3. RevisionsOf(t, ch) = RevisionsOf(s, ch) \cup {new}
  BY <1>11, <1>2 DEF RevisionsOf
<1>4. {r.version : r \in RevisionsOf(t, ch)} = 1..N
  <2>1. {r.version : r \in RevisionsOf(t, ch)}
          = {r.version : r \in RevisionsOf(s, ch)} \cup {N}
    BY <1>3, <1>11
  <2>2. 1..N = 1..(N - 1) \cup {N}
    BY <1>1
  <2> QED BY <2>1, <2>2, <1>1
<1>5. NextVersion(t, ch) = N + 1
  BY <1>1, <1>4, NextOfCount
<1>6. ASSUME NEW d \in Calls \ {ch}
      PROVE  RevisionsOf(t, d) = RevisionsOf(s, d)
  BY <1>11, <1>2 DEF RevisionsOf
<1>7. ASSUME NEW d \in Calls \ {ch}
      PROVE  NextVersion(t, d) = NextVersion(s, d) /\ TextsOf(t, d) = TextsOf(s, d)
  <2>1. RevisionsOf(t, d) = RevisionsOf(s, d)
    BY <1>6
  <2>2. NextVersion(t, d) = NextVersion(s, d)
    BY <2>1 DEF NextVersion
  <2>3. TextsOf(t, d) = TextsOf(s, d)
    BY <2>1, <2>2 DEF TextsOf
  <2> QED BY <2>2, <2>3
<1>8. \A r \in s.revisions : ~ (r.chapter = ch /\ r.version = N)
  <2> SUFFICES ASSUME NEW r \in s.revisions, r.chapter = ch, r.version = N PROVE FALSE
    OBVIOUS
  <2>1. r \in RevisionsOf(s, ch)
    BY DEF RevisionsOf
  <2>2. N \in 1..(N - 1)
    BY <2>1, <1>1
  <2> QED BY <2>2, <1>1
<1>9. RowsOK(t)
  <2>1. t.chapters \subseteq
          [id : Calls, work : WorkIds, place : Places \cup {0}, current : Calls \cup {none}]
        /\ \A a, b \in t.chapters : a.id = b.id => a = b
    BY DEF RowsOK
  <2>2. t.revisions \subseteq [id : Calls, chapter : Calls, version : Nat \ {0}, text : Texts]
    BY <1>2, <1>11 DEF RowsOK
  <2>3. ASSUME NEW r \in t.revisions, NEW q \in t.revisions,
               r.id = q.id \/ (r.chapter = q.chapter /\ r.version = q.version)
        PROVE  r = q
    BY <2>3, <1>2, <1>11, <1>8 DEF RowsOK
  <2>4. ASSUME NEW d \in Calls
        PROVE  \E n \in Nat : {r.version : r \in RevisionsOf(t, d)} = 1..n
    <3>1. CASE d = ch
      BY <3>1, <1>4, <1>1
    <3>2. CASE d # ch
      BY <3>2, <1>6 DEF RowsOK
    <3> QED BY <3>1, <3>2
  <2> QED BY <2>1, <2>2, <2>3, <2>4 DEF RowsOK
<1>10. TextsOf(t, ch) = Append(TextsOf(s, ch), text)
  <2>1. TextsOf(s, ch) \in Seq(Texts) /\ Len(TextsOf(s, ch)) = N - 1
    BY TextsAreNumbered DEF N
  <2>2. TextsOf(t, ch) \in Seq(Texts) /\ Len(TextsOf(t, ch)) = N
    BY TextsAreNumbered, <1>9, <1>5, <1>1
  <2>3. Append(TextsOf(s, ch), text) \in Seq(Texts)
        /\ Len(Append(TextsOf(s, ch), text)) = N
        /\ Append(TextsOf(s, ch), text)[N] = text
        /\ \A v \in 1..(N - 1) : Append(TextsOf(s, ch), text)[v] = TextsOf(s, ch)[v]
    BY <2>1, <1>1, AppendProperties
  <2>4. ASSUME NEW v \in 1..N
        PROVE  TextsOf(t, ch)[v] = Append(TextsOf(s, ch), text)[v]
    <3>1. CASE v = N
      <4>1. TextsOf(t, ch)[N] = new.text
        BY TextsAreNumbered, <1>9, <1>3, <1>11
      <4> QED BY <4>1, <3>1, <1>11, <2>3
    <3>2. CASE v # N
      <4>1. PICK r \in RevisionsOf(s, ch) : r.version = v
        BY <1>1, <3>2
      <4>2. TextsOf(s, ch)[v] = r.text
        BY <4>1, TextsAreNumbered
      <4>3. TextsOf(t, ch)[v] = r.text
        BY <4>1, <1>3, <1>9, TextsAreNumbered
      <4> QED BY <4>2, <4>3, <2>3, <3>2, <1>1
    <3> QED BY <3>1, <3>2
  <2> QED BY <2>2, <2>3, <2>4, SeqEqual
<1> QED BY <1>5, <1>6, <1>7, <1>9, <1>10 DEF N

\* A chapter shows its newest revision.
LEMMA ShownIsNewest ==
  ASSUME NEW store, TablesOK(store), NEW ch \in Calls
  PROVE  ShownOf(store, ch) =
           IF \E row \in store.chapters : row.id = ch THEN NextVersion(store, ch) - 1 ELSE 0
<1>1. CASE \E row \in store.chapters : row.id = ch
  <2>1. PICK row \in store.chapters : row.id = ch
    BY <1>1
  <2>2. (CHOOSE x \in store.chapters : x.id = ch) = row
    <3>1. \A x \in store.chapters : x.id = ch => x = row
      BY <2>1 DEF TablesOK, RowsOK
    <3> QED BY <2>1, <3>1
  <2>3. PICK r \in store.revisions :
          r.id = row.current /\ r.version = NextVersion(store, ch) - 1
    BY <2>1 DEF TablesOK, PointsToNewest
  <2>4. (CHOOSE x \in store.revisions : x.id = row.current) = r
    <3>1. \A x \in store.revisions : x.id = row.current => x = r
      BY <2>3 DEF TablesOK, RowsOK
    <3> QED BY <2>3, <3>1
  <2>5. ShownOf(store, ch) =
          (CHOOSE x \in store.revisions :
             x.id = (CHOOSE y \in store.chapters : y.id = ch).current).version
    BY <1>1 DEF ShownOf
  <2> QED BY <1>1, <2>2, <2>3, <2>4, <2>5
<1>2. CASE ~ \E row \in store.chapters : row.id = ch
  BY <1>2 DEF ShownOf
<1> QED BY <1>1, <1>2

\* The four tables.
IsStore(s) ==
  s = [works |-> s.works, chapters |-> s.chapters,
       revisions |-> s.revisions, receipts |-> s.receipts]

\* What the statements leave alone.
LEMMA StatementsAre ==
  ASSUME NEW s, IsStore(s), NEW c, NEW request, NEW ch, NEW text, NEW key, NEW answer
  PROVE  /\ WithWork(s, c) = [works |-> s.works \cup {[id |-> c, status |-> "active"]},
              chapters |-> s.chapters, revisions |-> s.revisions, receipts |-> s.receipts]
         /\ WithChapter(s, c, request) = [works |-> s.works,
              chapters |-> s.chapters \cup {[id |-> c, work |-> request.work,
                                             place |-> request.place, current |-> none]},
              revisions |-> s.revisions, receipts |-> s.receipts]
         /\ WithRevision(s, c, ch, text) = [works |-> s.works, chapters |-> s.chapters,
              revisions |-> s.revisions \cup {[id |-> c, chapter |-> ch,
                              version |-> NextVersion(s, ch), text |-> text]},
              receipts |-> s.receipts]
         /\ Pointed(s, c, ch) = [works |-> s.works,
              chapters |-> {IF row.id = ch THEN [row EXCEPT !.current = c] ELSE row :
                              row \in s.chapters},
              revisions |-> s.revisions, receipts |-> s.receipts]
         /\ WithReceipt(s, key, request, answer) = [works |-> s.works,
              chapters |-> s.chapters, revisions |-> s.revisions,
              receipts |-> s.receipts \cup
                {[command |-> request.command, key |-> key, request |-> request,
                  answer |-> answer]}]
<1>1. WithWork(s, c) = [works |-> s.works \cup {[id |-> c, status |-> "active"]},
        chapters |-> s.chapters, revisions |-> s.revisions, receipts |-> s.receipts]
  BY DEF IsStore, WithWork
<1>2. WithChapter(s, c, request) = [works |-> s.works,
        chapters |-> s.chapters \cup {[id |-> c, work |-> request.work,
                                       place |-> request.place, current |-> none]},
        revisions |-> s.revisions, receipts |-> s.receipts]
  BY DEF IsStore, WithChapter
<1>3. WithRevision(s, c, ch, text) = [works |-> s.works, chapters |-> s.chapters,
        revisions |-> s.revisions \cup {[id |-> c, chapter |-> ch,
                        version |-> NextVersion(s, ch), text |-> text]},
        receipts |-> s.receipts]
  BY DEF IsStore, WithRevision
<1>4. Pointed(s, c, ch) = [works |-> s.works,
        chapters |-> {IF row.id = ch THEN [row EXCEPT !.current = c] ELSE row :
                        row \in s.chapters},
        revisions |-> s.revisions, receipts |-> s.receipts]
  BY DEF IsStore, Pointed
<1>5. WithReceipt(s, key, request, answer) = [works |-> s.works,
        chapters |-> s.chapters, revisions |-> s.revisions,
        receipts |-> s.receipts \cup
          {[command |-> request.command, key |-> key, request |-> request,
            answer |-> answer]}]
  BY DEF IsStore, WithReceipt
<1> QED BY <1>1, <1>2, <1>3, <1>4, <1>5

\* The identifier, work and place of a chapter.
Place(row) == [id |-> row.id, work |-> row.work, place |-> row.place]
PlacesIn(store) == {Place(row) : row \in store.chapters}

\* Tables t are o after a text was saved to chapter ch by call c: its next
\* revision, which the chapter shows, and nothing else.
TextSaved(o, t, c, ch, text) ==
  /\ TablesOK(t) /\ IsStore(t)
  /\ t.works = o.works /\ t.receipts = o.receipts
  /\ PlacesIn(t) = PlacesIn(o)
  /\ TextsOf(t, ch) = Append(TextsOf(o, ch), text)
  /\ ShownOf(t, ch) = NextVersion(o, ch)
  /\ \A d \in Calls \ {ch} :
       TextsOf(t, d) = TextsOf(o, d) /\ NextVersion(t, d) = NextVersion(o, d)
  /\ \A d : (\E row \in t.chapters : row.id = d) <=> (\E row \in o.chapters : row.id = d)
  /\ \A r \in t.revisions : r.id = c \/ r \in o.revisions

\* A chapter's next revision, once the chapter points to it, is a saved text.
LEMMA SavedText ==
  ASSUME NEW o, IsStore(o), RowsOK(o), NEW c \in Calls, NEW ch \in Calls, NEW text \in Texts,
         \A r \in o.revisions : r.id # c,
         \A row \in o.chapters : row.id # ch => PointsToNewest(o, row),
         \E row \in o.chapters : row.id = ch,
         NEW t, t = Pointed(WithRevision(o, c, ch, text), c, ch)
  PROVE  TextSaved(o, t, c, ch, text)
<1> DEFINE m == WithRevision(o, c, ch, text)
           N == NextVersion(o, ch)
           new == [id |-> c, chapter |-> ch, version |-> N, text |-> text]
           pointed(row) == IF row.id = ch THEN [row EXCEPT !.current = c] ELSE row
<1>1. /\ IsStore(m) /\ m.works = o.works /\ m.chapters = o.chapters
      /\ m.revisions = o.revisions \cup {new} /\ m.receipts = o.receipts
  BY StatementsAre DEF IsStore
<1>2. /\ IsStore(t) /\ t.works = m.works /\ t.revisions = m.revisions
      /\ t.receipts = m.receipts /\ t.chapters = {pointed(row) : row \in o.chapters}
  <2> HIDE DEF m
  <2>1. t = Pointed(m, c, ch)
    BY DEF m
  <2>2. t = [works |-> m.works,
             chapters |-> {IF row.id = ch THEN [row EXCEPT !.current = c] ELSE row :
                             row \in m.chapters},
             revisions |-> m.revisions, receipts |-> m.receipts]
    BY <1>1, <2>1 DEF IsStore, Pointed
  <2>3. {IF row.id = ch THEN [row EXCEPT !.current = c] ELSE row : row \in m.chapters}
          = {pointed(row) : row \in o.chapters}
    BY <1>1
  <2> HIDE DEF pointed
  <2>4. t = [works |-> m.works, chapters |-> {pointed(row) : row \in o.chapters},
             revisions |-> m.revisions, receipts |-> m.receipts]
    BY <2>2, <2>3
  <2> QED BY <2>4 DEF IsStore
<1>3. /\ RowsOK(m) /\ NextVersion(m, ch) = N + 1
      /\ TextsOf(m, ch) = Append(TextsOf(o, ch), text)
      /\ \A d \in Calls \ {ch} : TextsOf(m, d) = TextsOf(o, d)
                                  /\ NextVersion(m, d) = NextVersion(o, d)
  BY <1>1, OneMoreRevision
<1> HIDE DEF m
<1>4. \A d : TextsOf(t, d) = TextsOf(m, d) /\ NextVersion(t, d) = NextVersion(m, d)
             /\ RevisionsOf(t, d) = RevisionsOf(m, d)
  BY <1>2, SameRevisions
<1>5. ASSUME NEW row \in o.chapters
      PROVE  /\ pointed(row).id = row.id /\ Place(pointed(row)) = Place(row)
             /\ pointed(row) \in [id : Calls, work : WorkIds, place : Places \cup {0},
                                  current : Calls \cup {none}]
             /\ row.id = ch => pointed(row).current = c
             /\ row.id # ch => pointed(row) = row
  BY DEF RowsOK, Place
<1> HIDE DEF pointed
<1>6. RowsOK(t)
  <2>1. t.chapters \subseteq
          [id : Calls, work : WorkIds, place : Places \cup {0}, current : Calls \cup {none}]
    BY <1>2, <1>5
  <2>2. \A a, b \in t.chapters : a.id = b.id => a = b
    <3> SUFFICES ASSUME NEW a \in o.chapters, NEW b \in o.chapters,
                        pointed(a).id = pointed(b).id
                 PROVE  pointed(a) = pointed(b)
      BY <1>2
    <3>1. a = b
      BY <1>5 DEF RowsOK
    <3> QED BY <3>1
  <2>3. /\ t.revisions \subseteq [id : Calls, chapter : Calls, version : Nat \ {0}, text : Texts]
        /\ \A r, s \in t.revisions :
             r.id = s.id \/ (r.chapter = s.chapter /\ r.version = s.version) => r = s
        /\ \A d \in Calls : \E n \in Nat : {r.version : r \in RevisionsOf(t, d)} = 1..n
    BY <1>2, <1>3, <1>4 DEF RowsOK
  <2> QED BY <2>1, <2>2, <2>3 DEF RowsOK
<1>7. PlacesIn(t) = PlacesIn(o)
  <2>1. PlacesIn(t) = {Place(pointed(row)) : row \in o.chapters}
    BY <1>2 DEF PlacesIn
  <2> QED BY <2>1, <1>5 DEF PlacesIn
<1>8. \A d : (\E row \in t.chapters : row.id = d) <=> (\E row \in o.chapters : row.id = d)
  BY <1>2, <1>5
<1>9. new \in t.revisions /\ new.id = c /\ new.chapter = ch /\ new.version = N
  BY <1>1, <1>2
<1>10. N \in Nat \ {0}
  BY NextIsPositive
<1>11. ASSUME NEW row \in t.chapters PROVE PointsToNewest(t, row)
  <2>1. PICK old \in o.chapters : row = pointed(old)
    BY <1>2
  <2>2. CASE old.id = ch
    <3>1. row.id = ch /\ row.current = c
      BY <2>1, <2>2, <1>5
    <3>2. NextVersion(t, row.id) - 1 = N
      BY <3>1, <1>3, <1>4, <1>10
    <3> QED BY <3>1, <3>2, <1>9 DEF PointsToNewest
  <2>3. CASE old.id # ch
    <3>1. row = old /\ row.id \in Calls \ {ch}
      BY <2>1, <2>3, <1>5 DEF RowsOK
    <3>2. PointsToNewest(o, row)
      BY <3>1
    <3>3. NextVersion(t, row.id) = NextVersion(o, row.id)
      BY <3>1, <1>3, <1>4
    <3>4. o.revisions \subseteq t.revisions
      BY <1>1, <1>2
    <3> QED BY <3>2, <3>3, <3>4 DEF PointsToNewest
  <2> QED BY <2>2, <2>3
<1>12. TablesOK(t)
  BY <1>6, <1>11 DEF TablesOK
<1>13. ShownOf(t, ch) = N
  <2>1. NextVersion(t, ch) = N + 1
    BY <1>3, <1>4
  <2>2. \E row \in t.chapters : row.id = ch
    BY <1>8
  <2>3. ShownOf(t, ch) = NextVersion(t, ch) - 1
    BY <2>2, <1>12, ShownIsNewest
  <2> QED BY <2>1, <2>3, <1>10
<1>14. \A r \in t.revisions : r.id = c \/ r \in o.revisions
  BY <1>1, <1>2
<1> QED
  BY <1>1, <1>2, <1>3, <1>4, <1>7, <1>8, <1>12, <1>13, <1>14 DEF TextSaved

---------------------------------------------------------------------------
(* The open transaction: how far its draft is from the committed tables.   *)

\* What a request asks for.
LEMMA RequestsAre ==
  ASSUME NEW q \in Requests
  PROVE  /\ q.command \in {"work", "text"}
         /\ q.command = "text" => /\ q.work \in WorkIds /\ q.text \in Texts
                                  /\ q.chapter \in Calls \cup {none}
                                  /\ q.chapter = none => q.place \in Places
BY NovelCommandsAssumption DEF Requests

\* The statements keep the tables' shapes.
LEMMA StatementsKeepTypes ==
  ASSUME NEW s \in Store, NEW c \in Calls
  PROVE  /\ WithWork(s, c) \in Store
         /\ \A q \in Requests :
              q.command = "text" /\ q.chapter = none => WithChapter(s, c, q) \in Store
         /\ \A ch \in Calls, text \in Texts :
              NextVersion(s, ch) \in Nat \ {0} => WithRevision(s, c, ch, text) \in Store
         /\ \A ch \in Calls : Pointed(s, c, ch) \in Store
         /\ \A key \in Keys, q \in Requests, answer \in Answers :
              WithReceipt(s, key, q, answer) \in Store
<1>1. WithWork(s, c) \in Store
  BY DEF Store, WithWork, WorkIds
<1>2. ASSUME NEW q \in Requests, q.command = "text", q.chapter = none
      PROVE  WithChapter(s, c, q) \in Store
  <2>1. [id |-> c, work |-> q.work, place |-> q.place, current |-> none]
          \in [id : Calls, work : WorkIds, place : Places \cup {0}, current : Calls \cup {none}]
    BY <1>2, RequestsAre
  <2> QED BY <2>1 DEF Store, WithChapter
<1>3. ASSUME NEW ch \in Calls, NEW text \in Texts, NextVersion(s, ch) \in Nat \ {0}
      PROVE  WithRevision(s, c, ch, text) \in Store
  BY <1>3 DEF Store, WithRevision
<1>4. ASSUME NEW ch \in Calls PROVE Pointed(s, c, ch) \in Store
  <2> DEFINE pointed(row) == IF row.id = ch THEN [row EXCEPT !.current = c] ELSE row
  <2>1. \A row \in s.chapters : pointed(row) \in
          [id : Calls, work : WorkIds, place : Places \cup {0}, current : Calls \cup {none}]
    BY DEF Store
  <2>2. Pointed(s, c, ch) = [s EXCEPT !.chapters = {pointed(row) : row \in s.chapters}]
    BY DEF Store, Pointed
  <2> HIDE DEF pointed
  <2> QED BY <2>1, <2>2 DEF Store
<1>5. ASSUME NEW key \in Keys, NEW q \in Requests, NEW answer \in Answers
      PROVE  WithReceipt(s, key, q, answer) \in Store
  <2>1. [command |-> q.command, key |-> key, request |-> q, answer |-> answer]
          \in [command : {"work", "text"}, key : Keys, request : Requests, answer : Answers]
    BY RequestsAre
  <2> QED BY <2>1 DEF Store, WithReceipt
<1> QED BY <1>1, <1>2, <1>3, <1>4, <1>5

\* The chapter a text goes to, the tables with that chapter, and the tables with
\* the text saved and shown.
Target(c, q) == IF q.chapter = none THEN c ELSE q.chapter
Opened(s, c, q) == IF q.chapter = none THEN WithChapter(s, c, q) ELSE s
Revised(s, c, q) == WithRevision(Opened(s, c, q), c, Target(c, q), q.text)
Saved(s, c, q) == Pointed(Revised(s, c, q), c, Target(c, q))

WorkAnswer(c) == [id |-> c, chapter |-> none, version |-> 0]
TextAnswer(s, c, q) ==
  [id |-> c, chapter |-> Target(c, q), version |-> NextVersion(s, Target(c, q))]

\* The work is active; the chapter is the work's, or its place is free.
Writable(s, q) == [id |-> q.work, status |-> "active"] \in s.works
Fits(s, q) ==
  IF q.chapter = none
    THEN \A row \in s.chapters : <<row.work, row.place>> # <<q.work, q.place>>
    ELSE \E row \in s.chapters : row.id = q.chapter /\ row.work = q.work

\* Call c, asking q under key, is at statement at of its transaction: what its
\* draft d is to the committed tables s, and what the statements before found.
Progress(s, d, c, key, q, at, ch, answer) ==
  LET new == Receipts(s, q, key) = {}
      text == q.command = "text" IN
  \/ at = "check" /\ text /\ d = s
  \/ at = "receipt" /\ d = s /\ (text => Writable(s, q))
  \/ at = "work" /\ ~ text /\ new /\ d = s
  \/ at = "chapter" /\ text /\ new /\ Writable(s, q) /\ d = s
  \/ /\ at = "revision" /\ text /\ new /\ Writable(s, q) /\ Fits(s, q)
     /\ d = Opened(s, c, q) /\ ch = Target(c, q)
  \/ /\ at = "point" /\ text /\ new /\ Writable(s, q) /\ Fits(s, q)
     /\ d = Revised(s, c, q) /\ ch = Target(c, q) /\ answer = TextAnswer(s, c, q)
  \/ /\ at = "save" /\ ~ text /\ new
     /\ d = WithWork(s, c) /\ answer = WorkAnswer(c)
  \/ /\ at = "save" /\ text /\ new /\ Writable(s, q) /\ Fits(s, q)
     /\ d = Saved(s, c, q) /\ answer = TextAnswer(s, c, q)
  \/ /\ at = "commit" /\ d = s
     /\ \E r \in Receipts(s, q, key) : r.request = q /\ r.answer = answer
  \/ /\ at = "commit" /\ ~ text /\ new
     /\ d = WithReceipt(WithWork(s, c), key, q, WorkAnswer(c)) /\ answer = WorkAnswer(c)
  \/ /\ at = "commit" /\ text /\ new /\ Writable(s, q) /\ Fits(s, q)
     /\ d = WithReceipt(Saved(s, c, q), key, q, TextAnswer(s, c, q))
     /\ answer = TextAnswer(s, c, q)

\* The call heard, or will hear, what a receipt says.
Receipted(s, call) ==
  \E r \in Receipts(s, call.request, call.key) :
    r.request = call.request /\ r.answer = call.answer

\* What every statement keeps.
CommandsInv ==
  /\ CommandsTypeOK
  /\ TablesOK(db)
  /\ \A c \in Calls : calls[c].phase \in {"new", "sent"} => Unused(db, c)
  /\ \A c \in Calls : calls[c].phase = "committed" => Receipted(db, calls[c])
  /\ tx.call = none => tx = NoTx /\ draft = db
  /\ tx.call # none =>
       /\ calls[tx.call].phase = "sent"
       /\ Progress(db, draft, tx.call, calls[tx.call].key, calls[tx.call].request,
                   tx.at, tx.chapter, tx.answer)

\* The chapter of a text is a call's identifier, its version a number, and the
\* tables up to its revision have their rows in order.
LEMMA OpenedIsInOrder ==
  ASSUME NEW s \in Store, TablesOK(s), NEW c \in Calls, Unused(s, c),
         NEW q \in Requests, q.command = "text", Fits(s, q)
  PROVE  /\ Target(c, q) \in Calls
         /\ NextVersion(s, Target(c, q)) \in Nat \ {0}
         /\ NextVersion(Opened(s, c, q), Target(c, q)) = NextVersion(s, Target(c, q))
         /\ Opened(s, c, q) \in Store
         /\ RowsOK(Opened(s, c, q))
         /\ \A row \in Opened(s, c, q).chapters :
              row.id # Target(c, q) => PointsToNewest(Opened(s, c, q), row)
         /\ \E row \in Opened(s, c, q).chapters : row.id = Target(c, q)
         /\ Opened(s, c, q).revisions = s.revisions
         /\ Opened(s, c, q).works = s.works
         /\ Opened(s, c, q).receipts = s.receipts
         /\ \A d \in Calls \ {Target(c, q)} :
              (\E row \in Opened(s, c, q).chapters : row.id = d)
                <=> (\E row \in s.chapters : row.id = d)
         /\ PlacesIn(Opened(s, c, q)) =
              IF q.chapter = none
                THEN PlacesIn(s) \cup
                       {[id |-> c, work |-> q.work, place |-> q.place]}
                ELSE PlacesIn(s)
<1>1. Target(c, q) \in Calls
  BY RequestsAre DEF Target
<1>2. NextVersion(s, Target(c, q)) \in Nat \ {0}
  BY <1>1, NextIsPositive DEF TablesOK
<1>3. CASE q.chapter = none
  <2> DEFINE new == [id |-> c, work |-> q.work, place |-> q.place, current |-> none]
             o == Opened(s, c, q)
  <2>1. o \in Store
    BY <1>3, StatementsKeepTypes DEF Opened
  <2>2. o.chapters = s.chapters \cup {new} /\ o.revisions = s.revisions
        /\ o.works = s.works /\ o.receipts = s.receipts
    BY <1>3 DEF Opened, WithChapter, Store
  <2>3. Target(c, q) = c
    BY <1>3 DEF Target
  <2>4. new.id = c /\ Place(new) = [id |-> c, work |-> q.work, place |-> q.place]
    BY DEF Place
  <2> HIDE DEF o, new
  <2>5. \A ch : RevisionsOf(o, ch) = RevisionsOf(s, ch) /\ NextVersion(o, ch) = NextVersion(s, ch)
    BY <2>2, SameRevisions
  <2>6. RowsOK(o)
    <3>1. o.chapters \subseteq
            [id : Calls, work : WorkIds, place : Places \cup {0}, current : Calls \cup {none}]
          /\ o.revisions \subseteq
            [id : Calls, chapter : Calls, version : Nat \ {0}, text : Texts]
      BY <2>1 DEF Store
    <3>2. \A a, b \in o.chapters : a.id = b.id => a = b
      BY <2>2, <2>4 DEF TablesOK, RowsOK, Unused
    <3>3. \A r, x \in o.revisions :
            r.id = x.id \/ (r.chapter = x.chapter /\ r.version = x.version) => r = x
      BY <2>2 DEF TablesOK, RowsOK
    <3>4. \A ch \in Calls : \E n \in Nat : {r.version : r \in RevisionsOf(o, ch)} = 1..n
      BY <2>5 DEF TablesOK, RowsOK
    <3> QED BY <3>1, <3>2, <3>3, <3>4 DEF RowsOK
  <2>7. ASSUME NEW row \in o.chapters, row.id # c
        PROVE  PointsToNewest(o, row)
    <3>1. row \in s.chapters
      BY <2>7, <2>2, <2>4
    <3>2. PointsToNewest(s, row)
      BY <3>1 DEF TablesOK
    <3> QED BY <3>2, <2>2, <2>5 DEF PointsToNewest
  <2>8. PlacesIn(o) = PlacesIn(s) \cup {Place(new)}
    BY <2>2 DEF PlacesIn
  <2>9. \A d \in Calls \ {c} :
          (\E row \in o.chapters : row.id = d) <=> (\E row \in s.chapters : row.id = d)
    BY <2>2, <2>4
  <2>10. \E row \in o.chapters : row.id = c
    BY <2>2, <2>4
  <2> QED BY <1>2, <1>3, <2>1, <2>2, <2>3, <2>4, <2>5, <2>6, <2>7, <2>8, <2>9, <2>10 DEF o
<1>4. CASE q.chapter # none
  <2>1. Opened(s, c, q) = s /\ Target(c, q) = q.chapter
    BY <1>4 DEF Opened, Target
  <2>2. \E row \in s.chapters : row.id = q.chapter
    BY <1>4 DEF Fits
  <2> QED BY <1>1, <1>2, <1>4, <2>1, <2>2 DEF TablesOK
<1> QED BY <1>3, <1>4

\* What the draft of an open transaction may be is typed like the tables, and so
\* is its answer.
LEMMA DraftIsTyped ==
  ASSUME NEW s \in Store, TablesOK(s), NEW c \in Calls, Unused(s, c),
         NEW q \in Requests, NEW key \in Keys
  PROVE  /\ WorkAnswer(c) \in Answers
         /\ WithWork(s, c) \in Store
         /\ WithReceipt(WithWork(s, c), key, q, WorkAnswer(c)) \in Store
         /\ q.command = "text" /\ Fits(s, q) =>
              /\ Target(c, q) \in Calls /\ TextAnswer(s, c, q) \in Answers
              /\ Opened(s, c, q) \in Store /\ Revised(s, c, q) \in Store
              /\ Saved(s, c, q) \in Store
              /\ WithReceipt(Saved(s, c, q), key, q, TextAnswer(s, c, q)) \in Store
<1>1. WorkAnswer(c) \in Answers
  BY DEF WorkAnswer, Answers
<1>2. WithWork(s, c) \in Store
  BY StatementsKeepTypes
<1>3. WithReceipt(WithWork(s, c), key, q, WorkAnswer(c)) \in Store
  BY <1>1, <1>2, StatementsKeepTypes
<1>4. ASSUME q.command = "text", Fits(s, q)
      PROVE  /\ Target(c, q) \in Calls /\ TextAnswer(s, c, q) \in Answers
             /\ Opened(s, c, q) \in Store /\ Revised(s, c, q) \in Store
             /\ Saved(s, c, q) \in Store
             /\ WithReceipt(Saved(s, c, q), key, q, TextAnswer(s, c, q)) \in Store
  <2>1. /\ Target(c, q) \in Calls /\ NextVersion(s, Target(c, q)) \in Nat \ {0}
        /\ NextVersion(Opened(s, c, q), Target(c, q)) = NextVersion(s, Target(c, q))
        /\ Opened(s, c, q) \in Store
    BY <1>4, OpenedIsInOrder
  <2>2. TextAnswer(s, c, q) \in Answers
    BY <2>1 DEF TextAnswer, Answers
  <2>3. q.text \in Texts
    BY <1>4, RequestsAre
  <2>4. Revised(s, c, q) \in Store
    BY <2>1, <2>3, StatementsKeepTypes DEF Revised
  <2>5. Saved(s, c, q) \in Store
    BY <2>1, <2>4, StatementsKeepTypes DEF Saved
  <2>6. WithReceipt(Saved(s, c, q), key, q, TextAnswer(s, c, q)) \in Store
    BY <2>2, <2>5, StatementsKeepTypes
  <2> QED BY <2>1, <2>2, <2>4, <2>5, <2>6
<1> QED BY <1>1, <1>2, <1>3, <1>4

\* Tables that differ in works and receipts alone are in order together.
LEMMA OrderOfRevisions ==
  ASSUME NEW s, NEW t, s.chapters = t.chapters, s.revisions = t.revisions
  PROVE  /\ TablesOK(s) => TablesOK(t)
         /\ \A ch : TextsOf(s, ch) = TextsOf(t, ch) /\ ShownOf(s, ch) = ShownOf(t, ch)
         /\ \A c : Unused(s, c) <=> Unused(t, c)
BY SameRevisions DEF TablesOK, RowsOK, PointsToNewest, ShownOf, Unused

\* What the committed tables of a new work are.
LEMMA WorkIsSaved ==
  ASSUME NEW s \in Store, TablesOK(s), NEW c \in Calls, NEW q \in Requests, NEW key,
         NEW t, t = WithReceipt(WithWork(s, c), key, q, WorkAnswer(c))
  PROVE  /\ TablesOK(t)
         /\ t.works = s.works \cup {[id |-> c, status |-> "active"]}
         /\ t.chapters = s.chapters /\ t.revisions = s.revisions
         /\ t.receipts = s.receipts \cup
              {[command |-> q.command, key |-> key, request |-> q, answer |-> WorkAnswer(c)]}
<1>1. /\ t.works = s.works \cup {[id |-> c, status |-> "active"]}
      /\ t.chapters = s.chapters /\ t.revisions = s.revisions
      /\ t.receipts = s.receipts \cup
           {[command |-> q.command, key |-> key, request |-> q, answer |-> WorkAnswer(c)]}
  BY DEF WithWork, WithReceipt, Store
<1>2. TablesOK(t)
  BY <1>1, OrderOfRevisions
<1> QED BY <1>1, <1>2

\* What the committed tables of a saved text are.
LEMMA TextIsSaved ==
  ASSUME NEW s \in Store, TablesOK(s), NEW c \in Calls, Unused(s, c),
         NEW q \in Requests, q.command = "text", Fits(s, q), NEW key,
         NEW t, t = WithReceipt(Saved(s, c, q), key, q, TextAnswer(s, c, q))
  PROVE  /\ TablesOK(t)
         /\ t.works = s.works
         /\ t.receipts = s.receipts \cup
              {[command |-> q.command, key |-> key, request |-> q,
                answer |-> TextAnswer(s, c, q)]}
         /\ PlacesIn(t) =
              IF q.chapter = none
                THEN PlacesIn(s) \cup
                       {[id |-> c, work |-> q.work, place |-> q.place]}
                ELSE PlacesIn(s)
         /\ Target(c, q) \in Calls
         /\ Len(TextsOf(s, Target(c, q))) + 1 = NextVersion(s, Target(c, q))
         /\ TextsOf(t, Target(c, q)) = Append(TextsOf(s, Target(c, q)), q.text)
         /\ ShownOf(t, Target(c, q)) = NextVersion(s, Target(c, q))
         /\ \A d \in Calls \ {Target(c, q)} :
              TextsOf(t, d) = TextsOf(s, d) /\ ShownOf(t, d) = ShownOf(s, d)
         /\ \A d \in Calls \ {c} : Unused(s, d) => Unused(t, d)
<1> DEFINE o == Opened(s, c, q)
           ch == Target(c, q)
           v == Saved(s, c, q)
<1>1. /\ ch \in Calls /\ NextVersion(s, ch) \in Nat \ {0}
      /\ NextVersion(o, ch) = NextVersion(s, ch)
      /\ o \in Store /\ RowsOK(o)
      /\ \A row \in o.chapters : row.id # ch => PointsToNewest(o, row)
      /\ \E row \in o.chapters : row.id = ch
      /\ o.revisions = s.revisions /\ o.works = s.works /\ o.receipts = s.receipts
      /\ \A d \in Calls \ {ch} :
           (\E row \in o.chapters : row.id = d) <=> (\E row \in s.chapters : row.id = d)
      /\ PlacesIn(o) =
           IF q.chapter = none
             THEN PlacesIn(s) \cup
                    {[id |-> c, work |-> q.work, place |-> q.place]}
             ELSE PlacesIn(s)
  BY OpenedIsInOrder
<1>2. q.text \in Texts
  BY RequestsAre
<1>3. v = Pointed(WithRevision(o, c, ch, q.text), c, ch)
  BY DEF Saved, Revised
<1>4. IsStore(o)
  BY <1>1 DEF Store, IsStore
<1>5. \A r \in o.revisions : r.id # c
  BY <1>1 DEF Unused
<1> HIDE DEF o, ch, v
<1>6. /\ TablesOK(v) /\ IsStore(v)
      /\ v.works = o.works /\ v.receipts = o.receipts
      /\ PlacesIn(v) = PlacesIn(o)
      /\ TextsOf(v, ch) = Append(TextsOf(o, ch), q.text)
      /\ ShownOf(v, ch) = NextVersion(o, ch)
      /\ \A d \in Calls \ {ch} :
           TextsOf(v, d) = TextsOf(o, d) /\ NextVersion(v, d) = NextVersion(o, d)
      /\ \A d : (\E row \in v.chapters : row.id = d) <=> (\E row \in o.chapters : row.id = d)
      /\ \A r \in v.revisions : r.id = c \/ r \in o.revisions
  <2>1. RowsOK(o) /\ ch \in Calls /\ \E row \in o.chapters : row.id = ch
    BY <1>1
  <2>2. \A row \in o.chapters : row.id # ch => PointsToNewest(o, row)
    BY <1>1
  <2>3. TextSaved(o, v, c, ch, q.text)
    BY <2>1, <2>2, <1>2, <1>3, <1>4, <1>5, SavedText
  <2> QED BY <2>3 DEF TextSaved
<1>7. /\ t.works = v.works /\ t.chapters = v.chapters /\ t.revisions = v.revisions
      /\ t.receipts = v.receipts \cup
           {[command |-> q.command, key |-> key, request |-> q,
             answer |-> TextAnswer(s, c, q)]}
  <2>1. t = WithReceipt(v, key, q, TextAnswer(s, c, q))
    BY DEF v
  <2> QED BY <2>1, <1>6 DEF WithReceipt, IsStore
<1>8. /\ TablesOK(t)
      /\ \A d : TextsOf(t, d) = TextsOf(v, d) /\ ShownOf(t, d) = ShownOf(v, d)
  BY <1>6, <1>7, OrderOfRevisions
<1>9. \A d : TextsOf(o, d) = TextsOf(s, d) /\ NextVersion(o, d) = NextVersion(s, d)
  BY <1>1, SameRevisions
<1>10. Len(TextsOf(s, ch)) + 1 = NextVersion(s, ch)
  BY <1>1, TextsAreNumbered DEF TablesOK
<1>11. ASSUME NEW d \in Calls \ {ch}
       PROVE  ShownOf(v, d) = ShownOf(s, d)
  <2>1. (\E row \in v.chapters : row.id = d) <=> (\E row \in s.chapters : row.id = d)
    BY <1>1, <1>6
  <2>2. NextVersion(v, d) = NextVersion(s, d)
    BY <1>6, <1>9
  <2> QED BY <2>1, <2>2, <1>6, ShownIsNewest
<1>12. ASSUME NEW d \in Calls \ {c}, Unused(s, d) PROVE Unused(t, d)
  <2>1. \A r \in t.revisions : r.id # d
    BY <1>12, <1>1, <1>6, <1>7 DEF Unused
  <2>2. ~ \E row \in t.chapters : row.id = d
    <3>1. CASE d # ch
      BY <3>1, <1>12, <1>1, <1>6, <1>7 DEF Unused
    <3>2. CASE d = ch
      <4>1. q.chapter # none /\ d = q.chapter
        BY <3>2 DEF ch, Target
      <4>2. \E row \in s.chapters : row.id = d
        BY <4>1 DEF Fits
      <4> QED BY <4>2, <1>12 DEF Unused
    <3> QED BY <3>1, <3>2
  <2> QED BY <2>1, <2>2 DEF Unused
<1>13. /\ t.works = s.works
       /\ t.receipts = s.receipts \cup
            {[command |-> q.command, key |-> key, request |-> q,
              answer |-> TextAnswer(s, c, q)]}
       /\ PlacesIn(t) = PlacesIn(o)
  <2>1. t.works = s.works /\ v.receipts = s.receipts
    BY <1>1, <1>6, <1>7
  <2>2. PlacesIn(t) = PlacesIn(v)
    BY <1>7 DEF PlacesIn
  <2> QED BY <2>1, <2>2, <1>6, <1>7
<1>14. TextsOf(t, ch) = Append(TextsOf(s, ch), q.text) /\ ShownOf(t, ch) = NextVersion(s, ch)
  BY <1>1, <1>6, <1>8, <1>9
<1>15. \A d \in Calls \ {ch} : TextsOf(t, d) = TextsOf(s, d) /\ ShownOf(t, d) = ShownOf(s, d)
  BY <1>6, <1>8, <1>9, <1>11
<1> QED
  BY <1>1, <1>8, <1>10, <1>12, <1>13, <1>14, <1>15 DEF ch

\* The shapes of an open transaction and of a call.
TxShape ==
  [call : Calls \cup {none}, chapter : Calls \cup {none}, answer : Answers \cup {none},
   at : {"idle", "check", "receipt", "work", "chapter", "revision", "point", "save", "commit"}]

\* The open transaction is a sent call's, and its identifiers and request are known.
LEMMA OpenTransaction ==
  ASSUME CommandsInv, tx.at # "idle" \/ tx.call # none
  PROVE  /\ tx.call \in Calls /\ calls[tx.call].phase = "sent"
         /\ mine.key \in Keys /\ asks \in Requests /\ Unused(db, tx.call)
         /\ db \in Store /\ draft \in Store /\ tx \in TxShape /\ TablesOK(db)
         /\ Progress(db, draft, tx.call, mine.key, asks, tx.at, tx.chapter, tx.answer)
<1>1. tx.call # none
  BY DEF CommandsInv, NoTx
<1>2. tx.call \in Calls /\ calls[tx.call].phase = "sent"
      /\ db \in Store /\ draft \in Store /\ tx \in TxShape /\ TablesOK(db)
  BY <1>1 DEF CommandsInv, CommandsTypeOK, TxShape
<1>3. calls[tx.call].key \in Keys /\ calls[tx.call].request \in Requests
  <2>1. calls[tx.call] # NotMade
    BY <1>2 DEF NotMade
  <2> QED BY <1>2, <2>1 DEF CommandsInv, CommandsTypeOK
<1>4. Unused(db, tx.call)
  BY <1>2 DEF CommandsInv
<1>5. Progress(db, draft, tx.call, calls[tx.call].key, calls[tx.call].request,
               tx.at, tx.chapter, tx.answer)
  BY <1>1 DEF CommandsInv
<1> QED BY <1>2, <1>3, <1>4, <1>5 DEF mine, asks

\* A statement of the open transaction that goes on.
LEMMA StatementStep ==
  ASSUME CommandsInv, tx.at # "idle", UNCHANGED <<calls, db>>,
         draft' \in Store, tx' \in TxShape, tx'.call = tx.call,
         Progress(db, draft', tx.call, mine.key, asks, tx'.at, tx'.chapter, tx'.answer)
  PROVE  CommandsInv'
<1>1. tx.call \in Calls /\ calls[tx.call].phase = "sent"
  BY OpenTransaction
<1>2. CommandsTypeOK'
  BY DEF CommandsInv, CommandsTypeOK, TxShape
<1>3. TablesOK(db')
  BY DEF CommandsInv
<1>4. \A c \in Calls : calls'[c].phase \in {"new", "sent"} => Unused(db', c)
  BY DEF CommandsInv
<1>5. \A c \in Calls : calls'[c].phase = "committed" => Receipted(db', calls'[c])
  BY DEF CommandsInv
<1>6. tx'.call # none
  BY <1>1, NovelCommandsAssumption
<1>7. Progress(db', draft', tx'.call, calls'[tx'.call].key, calls'[tx'.call].request,
               tx'.at, tx'.chapter, tx'.answer)
  BY DEF mine, asks
<1> QED BY <1>1, <1>2, <1>3, <1>4, <1>5, <1>6, <1>7 DEF CommandsInv

CallShape ==
  {NotMade} \cup
    [phase : {"sent", "committed", "answered", "failed", "lost"},
     key : Keys, request : Requests, answer : Answers \cup {none}]

\* The transaction is rolled back, or none is open, and some calls end.
LEMMA EndingStep ==
  ASSUME CommandsInv, UNCHANGED db, draft' = db, tx' = NoTx,
         calls' \in [Calls -> CallShape],
         \A c \in Calls : calls'[c] = calls[c] \/ calls'[c].phase \in {"failed", "lost"}
  PROVE  CommandsInv'
<1>1. CommandsTypeOK'
  BY DEF CommandsInv, CommandsTypeOK, CallShape, NoTx
<1>2. TablesOK(db')
  BY DEF CommandsInv
<1>3. \A c \in Calls : calls'[c].phase \in {"new", "sent"} => Unused(db', c)
  BY DEF CommandsInv
<1>4. \A c \in Calls : calls'[c].phase = "committed" => Receipted(db', calls'[c])
  BY DEF CommandsInv
<1>5. tx'.call = none
  BY DEF NoTx
<1> QED BY <1>1, <1>2, <1>3, <1>4, <1>5 DEF CommandsInv

\* A rolled back transaction.
LEMMA RollbackStep ==
  ASSUME CommandsInv, tx.call # none, Rollback
  PROVE  CommandsInv'
<1>1. tx.call \in Calls /\ calls \in [Calls -> CallShape] /\ calls[tx.call].phase = "sent"
  BY OpenTransaction DEF CommandsInv, CommandsTypeOK, CallShape
<1>2. calls[tx.call] # NotMade
  BY <1>1 DEF NotMade
<1>3. calls' = [calls EXCEPT ![tx.call].phase = "failed"]
  BY DEF Rollback
<1>4. [calls[tx.call] EXCEPT !.phase = "failed"] \in CallShape
  BY <1>1, <1>2 DEF CallShape
<1>5. calls' \in [Calls -> CallShape]
  BY <1>1, <1>3, <1>4
<1>6. \A c \in Calls : calls'[c] = calls[c] \/ calls'[c].phase \in {"failed", "lost"}
  BY <1>1, <1>2, <1>3 DEF CallShape
<1> QED BY <1>5, <1>6, EndingStep DEF Rollback

\* The process dies.
LEMMA CrashStep ==
  ASSUME CommandsInv, Crash
  PROVE  CommandsInv'
<1>1. calls \in [Calls -> CallShape]
  BY DEF CommandsInv, CommandsTypeOK, CallShape
<1>2. ASSUME NEW c \in Calls, calls[c].phase \in {"sent", "committed"}
      PROVE  [calls[c] EXCEPT !.phase = "lost"] \in CallShape
             /\ [calls[c] EXCEPT !.phase = "lost"].phase = "lost"
  <2>1. calls[c] # NotMade
    BY <1>2 DEF NotMade
  <2> QED BY <1>1, <2>1 DEF CallShape
<1>3. calls' \in [Calls -> CallShape]
  BY <1>1, <1>2 DEF Crash
<1>4. \A c \in Calls : calls'[c] = calls[c] \/ calls'[c].phase \in {"failed", "lost"}
  BY <1>2 DEF Crash
<1> QED BY <1>3, <1>4, EndingStep DEF Crash

\* A call is sent, refused or answered: no transaction is touched.
LEMMA CallStep ==
  ASSUME CommandsInv, NEW c \in Calls, Send(c) \/ RefuseCall(c) \/ Deliver(c)
  PROVE  CommandsInv'
<1>1. calls \in [Calls -> CallShape] /\ UNCHANGED <<db, draft, tx>>
  BY DEF CommandsInv, CommandsTypeOK, CallShape, Send, RefuseCall, Deliver
<1>2. \E call \in CallShape :
        /\ calls' = [calls EXCEPT ![c] = call]
        /\ call.phase \in {"sent", "failed", "answered"}
        /\ call.phase = "sent" => calls[c].phase = "new"
  <2>1. CASE Send(c)
    <3>1. PICK key \in Keys, request \in Requests :
            calls' = [calls EXCEPT ![c] =
              [phase |-> "sent", key |-> key, request |-> request, answer |-> none]]
      BY <2>1 DEF Send
    <3>2. [phase |-> "sent", key |-> key, request |-> request, answer |-> none] \in CallShape
      BY DEF CallShape
    <3> QED BY <3>1, <3>2, <2>1 DEF Send
  <2>2. CASE RefuseCall(c)
    <3>1. calls[c] # NotMade
      BY <2>2 DEF RefuseCall, NotMade
    <3>2. [calls[c] EXCEPT !.phase = "failed"] \in CallShape
          /\ [calls[c] EXCEPT !.phase = "failed"].phase = "failed"
      BY <1>1, <3>1 DEF CallShape
    <3> QED BY <3>2, <2>2 DEF RefuseCall
  <2>3. CASE Deliver(c)
    <3>1. calls[c] # NotMade
      BY <2>3 DEF Deliver, NotMade
    <3>2. [calls[c] EXCEPT !.phase = "answered"] \in CallShape
          /\ [calls[c] EXCEPT !.phase = "answered"].phase = "answered"
      BY <1>1, <3>1 DEF CallShape
    <3> QED BY <3>2, <2>3 DEF Deliver
  <2> QED BY <2>1, <2>2, <2>3
<1>3. PICK call \in CallShape :
        /\ calls' = [calls EXCEPT ![c] = call]
        /\ call.phase \in {"sent", "failed", "answered"}
        /\ call.phase = "sent" => calls[c].phase = "new"
  BY <1>2
<1>4. CommandsTypeOK'
  BY <1>1, <1>3 DEF CommandsInv, CommandsTypeOK, CallShape
<1>5. \A d \in Calls : calls'[d].phase \in {"new", "sent"} => Unused(db', d)
  BY <1>1, <1>3 DEF CommandsInv
<1>6. \A d \in Calls : calls'[d].phase = "committed" => Receipted(db', calls'[d])
  BY <1>1, <1>3 DEF CommandsInv
<1>7. ASSUME tx.call # none
      PROVE  calls'[tx.call] = calls[tx.call]
  <2>1. tx.call \in Calls /\ calls[tx.call].phase = "sent"
    BY <1>7, OpenTransaction
  <2>2. tx.call # c
    BY <2>1 DEF Send, RefuseCall, Deliver
  <2> QED BY <1>1, <1>3, <2>1, <2>2
<1> QED BY <1>1, <1>4, <1>5, <1>6, <1>7 DEF CommandsInv

\* A transaction opens.
LEMMA BeginStep ==
  ASSUME CommandsInv, NEW c \in Calls, Begin(c)
  PROVE  CommandsInv'
<1>1. /\ calls[c].phase = "sent" /\ tx.call = none /\ UNCHANGED <<calls, db, draft>>
      /\ tx' = [NoTx EXCEPT !.call = c,
                  !.at = IF calls[c].request.command = "text" THEN "check" ELSE "receipt"]
  BY DEF Begin
<1>2. tx = NoTx /\ draft = db
  BY <1>1 DEF CommandsInv
<1>3. tx' \in TxShape /\ tx'.call = c
      /\ tx'.at = IF calls[c].request.command = "text" THEN "check" ELSE "receipt"
  BY <1>1 DEF NoTx, TxShape
<1>4. CommandsTypeOK'
  BY <1>1, <1>3 DEF CommandsInv, CommandsTypeOK, TxShape
<1>5. Progress(db, draft, c, calls[c].key, calls[c].request, tx'.at, tx'.chapter, tx'.answer)
  BY <1>2, <1>3 DEF Progress
<1>6. c # none
  BY NovelCommandsAssumption
<1> QED BY <1>1, <1>3, <1>4, <1>5, <1>6 DEF CommandsInv

\* The work is checked.
LEMMA CheckStep ==
  ASSUME CommandsInv, CheckWork
  PROVE  CommandsInv'
<1>1. tx.at = "check" /\ tx.call # none
  BY DEF CheckWork, CommandsInv, NoTx
<1>2. CASE [id |-> asks.work, status |-> "active"] \in draft.works
  <2>1. tx' = [tx EXCEPT !.at = "receipt"] /\ UNCHANGED <<calls, db, draft>>
    BY <1>2 DEF CheckWork
  <2>2. tx' \in TxShape /\ tx'.at = "receipt" /\ tx'.call = tx.call /\ draft' \in Store
    BY <1>1, <2>1, OpenTransaction DEF TxShape
  <2>3. draft = db
    BY <1>1, OpenTransaction DEF Progress
  <2>4. Progress(db, draft', tx.call, mine.key, asks, tx'.at, tx'.chapter, tx'.answer)
    BY <1>2, <2>1, <2>2, <2>3 DEF Progress, Writable
  <2> QED BY <1>1, <2>1, <2>2, <2>4, StatementStep
<1>3. CASE ~ [id |-> asks.work, status |-> "active"] \in draft.works
  BY <1>1, <1>3, RollbackStep DEF CheckWork
<1> QED BY <1>2, <1>3

\* The receipt is looked up.
LEMMA LookUpStep ==
  ASSUME CommandsInv, LookUpReceipt
  PROVE  CommandsInv'
<1> DEFINE found == Receipts(draft, asks, mine.key)
<1>1. tx.at = "receipt" /\ tx.call # none
  <2>1. tx.at = "receipt"
    BY DEF LookUpReceipt
  <2> QED BY <2>1 DEF CommandsInv, NoTx
<1>2. /\ draft = db /\ (asks.command = "text" => Writable(db, asks))
      /\ tx \in TxShape /\ draft \in Store /\ asks \in Requests
  BY <1>1, OpenTransaction DEF Progress
<1>3. asks.command \in {"work", "text"}
  BY <1>2, RequestsAre
<1>4. ASSUME found = {}, UNCHANGED <<calls, db, draft>>,
             tx' = [tx EXCEPT !.at = IF asks.command = "work" THEN "work" ELSE "chapter"]
      PROVE  CommandsInv'
  <2>1. tx' \in TxShape /\ tx'.call = tx.call
        /\ tx'.at = IF asks.command = "work" THEN "work" ELSE "chapter"
    BY <1>2, <1>4 DEF TxShape
  <2>2. Progress(db, draft', tx.call, mine.key, asks, tx'.at, tx'.chapter, tx'.answer)
    BY <1>2, <1>3, <1>4, <2>1 DEF Progress
  <2> QED BY <1>1, <1>2, <1>4, <2>1, <2>2, StatementStep
<1>5. ASSUME NEW r \in found, r.request = asks, UNCHANGED <<calls, db, draft>>,
             tx' = [tx EXCEPT !.at = "commit", !.answer = r.answer]
      PROVE  CommandsInv'
  <2>1. r.answer \in Answers
    BY <1>2 DEF Receipts, Store
  <2>2. tx' \in TxShape /\ tx'.call = tx.call /\ tx'.at = "commit" /\ tx'.answer = r.answer
    BY <1>2, <1>5, <2>1 DEF TxShape
  <2>3. Progress(db, draft', tx.call, mine.key, asks, tx'.at, tx'.chapter, tx'.answer)
    BY <1>2, <1>5, <2>2 DEF Progress
  <2> QED BY <1>1, <1>2, <1>5, <2>2, <2>3, StatementStep
<1>6. ASSUME Rollback PROVE CommandsInv'
  BY <1>1, <1>6, RollbackStep
<1> QED BY <1>4, <1>5, <1>6 DEF LookUpReceipt

\* A work is inserted.
LEMMA InsertWorkStep ==
  ASSUME CommandsInv, InsertWork
  PROVE  CommandsInv'
<1>1. /\ tx.at = "work" /\ UNCHANGED <<calls, db>>
      /\ draft' = WithWork(draft, tx.call)
      /\ tx' = [tx EXCEPT !.at = "save", !.answer = WorkAnswer(tx.call)]
  BY DEF InsertWork, WorkAnswer
<1>2. /\ draft = db /\ asks.command # "text" /\ Receipts(db, asks, mine.key) = {}
      /\ tx \in TxShape /\ draft \in Store /\ tx.call \in Calls
  BY <1>1, OpenTransaction DEF Progress
<1>3. WorkAnswer(tx.call) \in Answers /\ draft' \in Store
  BY <1>1, <1>2, StatementsKeepTypes DEF WorkAnswer, Answers
<1>4. tx' \in TxShape /\ tx'.call = tx.call /\ tx'.at = "save" /\ tx'.answer = WorkAnswer(tx.call)
  BY <1>1, <1>2, <1>3 DEF TxShape
<1>5. Progress(db, draft', tx.call, mine.key, asks, tx'.at, tx'.chapter, tx'.answer)
  BY <1>1, <1>2, <1>4 DEF Progress
<1> QED BY <1>1, <1>3, <1>4, <1>5, StatementStep

\* The chapter is resolved, or made.
LEMMA ResolveStep ==
  ASSUME CommandsInv, ResolveChapter
  PROVE  CommandsInv'
<1>1. tx.at = "chapter" /\ tx.call # none
  BY DEF ResolveChapter, CommandsInv, NoTx
<1>2. /\ draft = db /\ asks.command = "text" /\ Receipts(db, asks, mine.key) = {}
      /\ Writable(db, asks) /\ tx \in TxShape /\ db \in Store /\ TablesOK(db)
      /\ tx.call \in Calls /\ asks \in Requests /\ Unused(db, tx.call) /\ mine.key \in Keys
  BY <1>1, OpenTransaction DEF Progress
<1>3. ASSUME UNCHANGED <<calls, db>>, Fits(db, asks),
             draft' = Opened(db, tx.call, asks),
             tx' = [tx EXCEPT !.at = "revision", !.chapter = Target(tx.call, asks)]
      PROVE  CommandsInv'
  <2>1. Target(tx.call, asks) \in Calls /\ draft' \in Store
    BY <1>2, <1>3, DraftIsTyped
  <2>2. /\ tx' \in TxShape /\ tx'.call = tx.call /\ tx'.at = "revision"
        /\ tx'.chapter = Target(tx.call, asks)
    BY <1>2, <1>3, <2>1 DEF TxShape
  <2>3. Progress(db, draft', tx.call, mine.key, asks, tx'.at, tx'.chapter, tx'.answer)
    BY <1>2, <1>3, <2>2 DEF Progress
  <2> QED BY <1>1, <1>3, <2>1, <2>2, <2>3, StatementStep
<1>4. ASSUME asks.chapter # none,
             \E row \in draft.chapters : row.id = asks.chapter /\ row.work = asks.work,
             tx' = [tx EXCEPT !.at = "revision", !.chapter = asks.chapter],
             UNCHANGED <<calls, db, draft>>
      PROVE  CommandsInv'
  BY <1>2, <1>3, <1>4 DEF Fits, Opened, Target
<1>5. ASSUME asks.chapter = none,
             \A row \in draft.chapters : <<row.work, row.place>> # <<asks.work, asks.place>>,
             draft' = WithChapter(draft, tx.call, asks),
             tx' = [tx EXCEPT !.at = "revision", !.chapter = tx.call],
             UNCHANGED <<calls, db>>
      PROVE  CommandsInv'
  BY <1>2, <1>3, <1>5 DEF Fits, Opened, Target
<1>6. ASSUME Rollback PROVE CommandsInv'
  BY <1>1, <1>6, RollbackStep
<1> QED BY <1>4, <1>5, <1>6 DEF ResolveChapter

\* A revision is inserted.
LEMMA InsertRevisionStep ==
  ASSUME CommandsInv, InsertRevision
  PROVE  CommandsInv'
<1>1. /\ tx.at = "revision" /\ UNCHANGED <<calls, db>>
      /\ draft' = WithRevision(draft, tx.call, tx.chapter, asks.text)
      /\ tx' = [tx EXCEPT !.at = "point",
                  !.answer = [id |-> tx.call, chapter |-> tx.chapter,
                              version |-> NextVersion(draft, tx.chapter)]]
  BY DEF InsertRevision
<1>2. /\ draft = Opened(db, tx.call, asks) /\ tx.chapter = Target(tx.call, asks)
      /\ asks.command = "text" /\ Receipts(db, asks, mine.key) = {}
      /\ Writable(db, asks) /\ Fits(db, asks)
      /\ tx \in TxShape /\ db \in Store /\ TablesOK(db)
      /\ tx.call \in Calls /\ asks \in Requests /\ Unused(db, tx.call) /\ mine.key \in Keys
  BY <1>1, OpenTransaction DEF Progress
<1>3. draft' = Revised(db, tx.call, asks)
  BY <1>1, <1>2 DEF Revised
<1>4. NextVersion(draft, tx.chapter) = NextVersion(db, tx.chapter)
  BY <1>2, OpenedIsInOrder
<1>5. tx' = [tx EXCEPT !.at = "point", !.answer = TextAnswer(db, tx.call, asks)]
  BY <1>1, <1>2, <1>4 DEF TextAnswer
<1>6. draft' \in Store /\ TextAnswer(db, tx.call, asks) \in Answers
  BY <1>2, <1>3, DraftIsTyped
<1>7. /\ tx' \in TxShape /\ tx'.call = tx.call /\ tx'.at = "point"
      /\ tx'.chapter = tx.chapter /\ tx'.answer = TextAnswer(db, tx.call, asks)
  BY <1>2, <1>5, <1>6 DEF TxShape
<1>8. Progress(db, draft', tx.call, mine.key, asks, tx'.at, tx'.chapter, tx'.answer)
  BY <1>2, <1>3, <1>7 DEF Progress
<1> QED BY <1>1, <1>6, <1>7, <1>8, StatementStep

\* The chapter is pointed to its revision.
LEMMA PointStep ==
  ASSUME CommandsInv, PointChapter
  PROVE  CommandsInv'
<1>1. /\ tx.at = "point" /\ UNCHANGED <<calls, db>>
      /\ draft' = Pointed(draft, tx.call, tx.chapter)
      /\ tx' = [tx EXCEPT !.at = "save"]
  BY DEF PointChapter
<1>2. /\ draft = Revised(db, tx.call, asks) /\ tx.chapter = Target(tx.call, asks)
      /\ tx.answer = TextAnswer(db, tx.call, asks)
      /\ asks.command = "text" /\ Receipts(db, asks, mine.key) = {}
      /\ Writable(db, asks) /\ Fits(db, asks)
      /\ tx \in TxShape /\ db \in Store /\ TablesOK(db)
      /\ tx.call \in Calls /\ asks \in Requests /\ Unused(db, tx.call) /\ mine.key \in Keys
  BY <1>1, OpenTransaction DEF Progress
<1>3. draft' = Saved(db, tx.call, asks)
  BY <1>1, <1>2 DEF Saved
<1>4. draft' \in Store
  BY <1>2, <1>3, DraftIsTyped
<1>5. tx' \in TxShape /\ tx'.call = tx.call /\ tx'.at = "save" /\ tx'.answer = tx.answer
  BY <1>1, <1>2 DEF TxShape
<1>6. Progress(db, draft', tx.call, mine.key, asks, tx'.at, tx'.chapter, tx'.answer)
  BY <1>2, <1>3, <1>5 DEF Progress
<1> QED BY <1>1, <1>4, <1>5, <1>6, StatementStep

\* The receipt is saved.
LEMMA SaveStep ==
  ASSUME CommandsInv, SaveReceipt
  PROVE  CommandsInv'
<1>1. /\ tx.at = "save" /\ UNCHANGED <<calls, db>>
      /\ draft' = WithReceipt(draft, mine.key, asks, tx.answer)
      /\ tx' = [tx EXCEPT !.at = "commit"]
  BY DEF SaveReceipt
<1>2. /\ Receipts(db, asks, mine.key) = {}
      /\ \/ /\ asks.command # "text"
            /\ draft = WithWork(db, tx.call) /\ tx.answer = WorkAnswer(tx.call)
         \/ /\ asks.command = "text" /\ Writable(db, asks) /\ Fits(db, asks)
            /\ draft = Saved(db, tx.call, asks) /\ tx.answer = TextAnswer(db, tx.call, asks)
      /\ tx \in TxShape /\ db \in Store /\ TablesOK(db)
      /\ tx.call \in Calls /\ asks \in Requests /\ Unused(db, tx.call) /\ mine.key \in Keys
  BY <1>1, OpenTransaction DEF Progress
<1>3. draft' \in Store
  BY <1>1, <1>2, DraftIsTyped
<1>4. tx' \in TxShape /\ tx'.call = tx.call /\ tx'.at = "commit" /\ tx'.answer = tx.answer
  BY <1>1, <1>2 DEF TxShape
<1>5. Progress(db, draft', tx.call, mine.key, asks, tx'.at, tx'.chapter, tx'.answer)
  BY <1>1, <1>2, <1>4 DEF Progress
<1> QED BY <1>1, <1>3, <1>4, <1>5, StatementStep

\* What a commit does: nothing but an answer for a repeat, a work, or a text.
LEMMA CommitDoes ==
  ASSUME CommandsInv, Commit
  PROVE  /\ tx.call \in Calls /\ db' = draft /\ tx' = NoTx /\ UNCHANGED draft
         /\ calls' = [calls EXCEPT ![tx.call] =
              [phase |-> "committed", key |-> mine.key, request |-> asks, answer |-> tx.answer]]
         /\ Receipted(db', [key |-> mine.key, request |-> asks, answer |-> tx.answer])
         /\ TablesOK(db') /\ db.receipts \subseteq db'.receipts
         /\ \A d \in Calls \ {tx.call} : Unused(db, d) => Unused(db', d)
         /\ \/ db' = db
            \/ /\ asks.command = "work" /\ Receipts(db, asks, mine.key) = {}
               /\ db' = WithReceipt(WithWork(db, tx.call), mine.key, asks, WorkAnswer(tx.call))
            \/ /\ asks.command = "text" /\ Receipts(db, asks, mine.key) = {}
               /\ Writable(db, asks) /\ Fits(db, asks)
               /\ db' = WithReceipt(Saved(db, tx.call, asks), mine.key, asks,
                                    TextAnswer(db, tx.call, asks))
<1> DEFINE c == tx.call
           q == asks
           key == mine.key
<1>1. tx.at = "commit" /\ db' = draft /\ tx' = NoTx /\ UNCHANGED draft
      /\ calls' = [calls EXCEPT ![c].phase = "committed", ![c].answer = tx.answer]
  BY DEF Commit
<1>2. /\ c \in Calls /\ q \in Requests /\ key \in Keys /\ db \in Store /\ TablesOK(db)
      /\ Unused(db, c) /\ calls[c].phase = "sent"
      /\ Progress(db, draft, c, key, q, tx.at, tx.chapter, tx.answer)
  BY <1>1, OpenTransaction
<1>3. calls' = [calls EXCEPT ![c] =
        [phase |-> "committed", key |-> key, request |-> q, answer |-> tx.answer]]
  <2>1. calls[c] # NotMade
    BY <1>2 DEF NotMade
  <2>2. calls[c] \in [phase : {"sent", "committed", "answered", "failed", "lost"},
                      key : Keys, request : Requests, answer : Answers \cup {none}]
    BY <1>2, <2>1 DEF CommandsInv, CommandsTypeOK
  <2>3. [[calls[c] EXCEPT !.phase = "committed"] EXCEPT !.answer = tx.answer] =
          [phase |-> "committed", key |-> key, request |-> q, answer |-> tx.answer]
    <3>1. PICK x \in [phase : {"sent", "committed", "answered", "failed", "lost"},
                      key : Keys, request : Requests, answer : Answers \cup {none}] :
            x = calls[c]
      BY <2>2
    <3>2. x.key = key /\ x.request = q
      BY <3>1 DEF mine, asks
    <3> HIDE DEF c, key, q
    <3>3. [[x EXCEPT !.phase = "committed"] EXCEPT !.answer = tx.answer] =
            [phase |-> "committed", key |-> key, request |-> q, answer |-> tx.answer]
      <4>1. [x EXCEPT !.phase = "committed"] =
              [phase |-> "committed", key |-> key, request |-> q, answer |-> x.answer]
        BY <3>2
      <4>2. PICK y : y = [x EXCEPT !.phase = "committed"]
        OBVIOUS
      <4>3. y = [phase |-> "committed", key |-> key, request |-> q, answer |-> x.answer]
        BY <4>1, <4>2
      <4>4. [y EXCEPT !.answer = tx.answer] =
              [phase |-> "committed", key |-> key, request |-> q, answer |-> tx.answer]
        BY <4>3
      <4> QED BY <4>2, <4>4
    <3> QED BY <3>1, <3>3
  <2>4. calls' = [calls EXCEPT ![c] =
          [[calls[c] EXCEPT !.phase = "committed"] EXCEPT !.answer = tx.answer]]
    BY <1>1, <1>2 DEF CommandsInv, CommandsTypeOK
  <2> QED BY <2>3, <2>4
<1>4. \/ draft = db /\ \E r \in Receipts(db, q, key) : r.request = q /\ r.answer = tx.answer
      \/ /\ q.command # "text" /\ Receipts(db, q, key) = {} /\ tx.answer = WorkAnswer(c)
         /\ draft = WithReceipt(WithWork(db, c), key, q, WorkAnswer(c))
      \/ /\ q.command = "text" /\ Receipts(db, q, key) = {} /\ Writable(db, q) /\ Fits(db, q)
         /\ tx.answer = TextAnswer(db, c, q)
         /\ draft = WithReceipt(Saved(db, c, q), key, q, TextAnswer(db, c, q))
  BY <1>1, <1>2 DEF Progress
<1> HIDE DEF c, q, key
<1>5. ASSUME NEW answer, NEW old,
             db'.receipts = old \cup
               {[command |-> q.command, key |-> key, request |-> q, answer |-> answer]}
      PROVE  Receipted(db', [key |-> key, request |-> q, answer |-> answer])
             /\ old \subseteq db'.receipts
  <2>1. PICK r : r = [command |-> q.command, key |-> key, request |-> q, answer |-> answer]
    OBVIOUS
  <2>2. PICK call : call = [key |-> key, request |-> q, answer |-> answer]
    OBVIOUS
  <2>3. r.command = q.command /\ r.key = key /\ r.request = q /\ r.answer = answer
        /\ call.key = key /\ call.request = q /\ call.answer = answer
    BY <2>1, <2>2
  <2>4. r \in Receipts(db', call.request, call.key) /\ old \subseteq db'.receipts
    BY <1>5, <2>1, <2>3 DEF Receipts
  <2> QED BY <2>2, <2>3, <2>4 DEF Receipted
<1>6. CASE draft = db /\ \E r \in Receipts(db, q, key) : r.request = q /\ r.answer = tx.answer
  <2>1. Receipted(db', [key |-> key, request |-> q, answer |-> tx.answer])
    BY <1>1, <1>6 DEF Receipted
  <2> QED BY <1>1, <1>2, <1>3, <1>6, <2>1 DEF c, q, key
<1>7. CASE /\ q.command # "text" /\ Receipts(db, q, key) = {} /\ tx.answer = WorkAnswer(c)
           /\ draft = WithReceipt(WithWork(db, c), key, q, WorkAnswer(c))
  <2>1. /\ TablesOK(draft) /\ draft.chapters = db.chapters /\ draft.revisions = db.revisions
        /\ draft.receipts = db.receipts \cup
             {[command |-> q.command, key |-> key, request |-> q, answer |-> WorkAnswer(c)]}
    BY <1>2, <1>7, WorkIsSaved
  <2>2. \A d \in Calls \ {c} : Unused(db, d) => Unused(db', d)
    BY <1>1, <2>1 DEF Unused
  <2>3. q.command = "work"
    BY <1>2, <1>7, RequestsAre
  <2>4. /\ Receipted(db', [key |-> key, request |-> q, answer |-> tx.answer])
        /\ db.receipts \subseteq db'.receipts
    BY <1>1, <1>5, <1>7, <2>1
  <2>5. TablesOK(db') /\ db' = WithReceipt(WithWork(db, c), key, q, WorkAnswer(c))
    BY <1>1, <1>7, <2>1
  <2> QED BY <1>1, <1>2, <1>3, <1>7, <2>2, <2>3, <2>4, <2>5 DEF c, q, key
<1>8. CASE /\ q.command = "text" /\ Receipts(db, q, key) = {} /\ Writable(db, q) /\ Fits(db, q)
           /\ tx.answer = TextAnswer(db, c, q)
           /\ draft = WithReceipt(Saved(db, c, q), key, q, TextAnswer(db, c, q))
  <2>1. /\ TablesOK(draft)
        /\ draft.receipts = db.receipts \cup
             {[command |-> q.command, key |-> key, request |-> q,
               answer |-> TextAnswer(db, c, q)]}
        /\ \A d \in Calls \ {c} : Unused(db, d) => Unused(draft, d)
    BY <1>2, <1>8, TextIsSaved
  <2>2. /\ Receipted(db', [key |-> key, request |-> q, answer |-> tx.answer])
        /\ db.receipts \subseteq db'.receipts
    BY <1>1, <1>5, <1>8, <2>1
  <2>3. TablesOK(db') /\ db' = WithReceipt(Saved(db, c, q), key, q, TextAnswer(db, c, q))
    BY <1>1, <1>8, <2>1
  <2> QED BY <1>1, <1>2, <1>3, <1>8, <2>1, <2>2, <2>3 DEF c, q, key
<1> QED BY <1>4, <1>6, <1>7, <1>8

\* The transaction commits.
LEMMA CommitStep ==
  ASSUME CommandsInv, Commit
  PROVE  CommandsInv'
<1> DEFINE c == tx.call
           made == [phase |-> "committed", key |-> mine.key, request |-> asks,
                    answer |-> tx.answer]
<1>1. /\ c \in Calls /\ db' = draft /\ tx' = NoTx /\ draft' = draft
      /\ calls' = [calls EXCEPT ![c] = made]
      /\ Receipted(db', [key |-> mine.key, request |-> asks, answer |-> tx.answer])
      /\ TablesOK(db') /\ db.receipts \subseteq db'.receipts
      /\ \A d \in Calls \ {c} : Unused(db, d) => Unused(db', d)
  BY CommitDoes
<1>2. /\ draft \in Store /\ tx.answer \in Answers \cup {none}
      /\ asks \in Requests /\ mine.key \in Keys
  BY <1>1, OpenTransaction, NovelCommandsAssumption DEF TxShape
<1>3. made \in CallShape /\ made.phase = "committed" /\ Receipted(db', made)
  BY <1>1, <1>2 DEF CallShape, Receipted
<1> HIDE DEF c, made
<1>4. CommandsTypeOK'
  BY <1>1, <1>2, <1>3 DEF CommandsInv, CommandsTypeOK, CallShape, NoTx
<1>5. \A d \in Calls : calls'[d].phase \in {"new", "sent"} => Unused(db', d)
  BY <1>1, <1>3 DEF CommandsInv, CommandsTypeOK
<1>6. ASSUME NEW d \in Calls, calls'[d].phase = "committed"
      PROVE  Receipted(db', calls'[d])
  <2>1. CASE d = c
    BY <2>1, <1>1, <1>3 DEF CommandsInv, CommandsTypeOK
  <2>2. CASE d # c
    <3>1. calls'[d] = calls[d]
      BY <2>2, <1>1 DEF CommandsInv, CommandsTypeOK
    <3>2. Receipted(db, calls[d])
      BY <3>1, <1>6 DEF CommandsInv
    <3> QED BY <3>1, <3>2, <1>1 DEF Receipted, Receipts
  <2> QED BY <2>1, <2>2
<1>7. tx'.call = none
  BY <1>1 DEF NoTx
<1> QED BY <1>1, <1>4, <1>5, <1>6, <1>7 DEF CommandsInv

\* The initial states satisfy the commands' invariant.
LEMMA CommandsInitInv == CommandsInit => CommandsInv
<1> SUFFICES ASSUME CommandsInit PROVE CommandsInv
  OBVIOUS
<1>1. PICK state \in [OldWorks -> {"active", "archived"}] :
        db = [works |-> {[id |-> w, status |-> state[w]] : w \in OldWorks},
              chapters |-> {}, revisions |-> {}, receipts |-> {}]
  BY DEF CommandsInit
<1>2. db \in Store
  BY <1>1 DEF Store, WorkIds
<1>3. CommandsTypeOK
  BY <1>2 DEF CommandsInit, CommandsTypeOK, NoTx
<1>4. TablesOK(db)
  <2>1. \A ch \in Calls : {r.version : r \in RevisionsOf(db, ch)} = 1..0
    BY <1>1 DEF RevisionsOf
  <2> QED BY <1>1, <2>1 DEF TablesOK, RowsOK
<1>5. \A c \in Calls : Unused(db, c) /\ calls[c].phase = "new"
  BY <1>1 DEF Unused, CommandsInit, NotMade
<1> QED BY <1>3, <1>4, <1>5 DEF CommandsInv, CommandsInit, NoTx

\* Every step keeps the commands' invariant.
LEMMA CommandsStepInv == CommandsInv /\ [CommandsNext]_commandVars => CommandsInv'
<1> SUFFICES ASSUME CommandsInv, [CommandsNext]_commandVars PROVE CommandsInv'
  OBVIOUS
<1>1. CASE UNCHANGED commandVars
  BY <1>1 DEF commandVars, CommandsInv, CommandsTypeOK
<1>2. CASE CommandsNext
  BY <1>2, CallStep, BeginStep, RollbackStep, CheckStep, LookUpStep, InsertWorkStep, ResolveStep,
     InsertRevisionStep, PointStep, SaveStep, CommitStep, CrashStep
     DEF CommandsNext, StatementFails
<1> QED BY <1>1, <1>2

\* The commands' invariant holds in every reachable state.
LEMMA CommandsInvariance == CommandsSpec => []CommandsInv
BY CommandsInitInv, CommandsStepInv, PTL DEF CommandsSpec

---------------------------------------------------------------------------
(* The commands keep the book of receipts.                                 *)

\* What the callers hear does not concern the tables.
LEMMA SameTables ==
  ASSUME UNCHANGED db
  PROVE  UNCHANGED <<db.works, bookChapters, bookTexts, bookShown, db.receipts>>
BY DEF bookChapters, bookTexts, bookShown

\* A step that neither commits nor answers is hidden.
LEMMA BookStutters ==
  ASSUME UNCHANGED <<calls, db>>
  PROVE  UNCHANGED Book!vars
<1>1. UNCHANGED <<bookAsked, bookReplies>>
  BY DEF bookAsked, bookReplies
<1> QED BY <1>1, SameTables DEF Book!vars

\* A call that was sent or committed waits for its answer.
LEMMA BookWaits ==
  ASSUME CommandsInv, NEW c \in Calls, calls[c].phase \in {"sent", "committed"}
  PROVE  /\ Book!Waiting(c)
         /\ bookAsked[c] = [key |-> calls[c].key, request |-> calls[c].request]
         /\ calls[c].key \in Keys /\ calls[c].request \in Requests
<1>1. calls[c] # NotMade
  BY DEF NotMade
<1>2. calls[c].key \in Keys /\ calls[c].request \in Requests
  BY <1>1 DEF CommandsInv, CommandsTypeOK
<1>3. bookAsked[c] = [key |-> calls[c].key, request |-> calls[c].request]
  BY DEF bookAsked
<1>4. bookAsked[c] # none
  BY <1>2, <1>3, NovelCommandsAssumption
<1>5. bookReplies[c] = none
  BY DEF bookReplies
<1> QED BY <1>2, <1>3, <1>4, <1>5 DEF Book!Waiting

\* Calls that end without an answer.
LEMMA BookGivesUp ==
  ASSUME CommandsInv, UNCHANGED db, NEW some \in SUBSET Calls,
         DOMAIN calls' = Calls,
         \A c \in some : /\ calls[c].phase \in {"sent", "committed"}
                         /\ calls'[c].phase \in {"failed", "lost"}
                         /\ calls'[c].key = calls[c].key
                         /\ calls'[c].request = calls[c].request,
         \A c \in Calls \ some : calls'[c] = calls[c]
  PROVE  Book!GiveUp
<1>1. \A c \in some : Book!Waiting(c)
  BY BookWaits
<1>2. bookAsked' = bookAsked
  <2>1. ASSUME NEW c \in Calls
        PROVE  (IF calls'[c].phase = "new" THEN none
                  ELSE [key |-> calls'[c].key, request |-> calls'[c].request])
               = (IF calls[c].phase = "new" THEN none
                    ELSE [key |-> calls[c].key, request |-> calls[c].request])
    BY <2>1
  <2> QED BY <2>1 DEF bookAsked
<1>3. bookReplies' = [c \in Calls |-> IF c \in some THEN Book!Failed ELSE bookReplies[c]]
  <2>1. ASSUME NEW c \in Calls
        PROVE  (IF calls'[c].phase = "answered" THEN calls'[c].answer
                  ELSE IF calls'[c].phase \in {"failed", "lost"} THEN Failed ELSE none)
               = (IF c \in some THEN Failed ELSE bookReplies[c])
    BY <2>1 DEF bookReplies
  <2>2. Book!Failed = Failed
    BY DEF Book!Failed, Failed
  <2> QED BY <2>1, <2>2 DEF bookReplies
<1>4. some \in SUBSET {c \in Calls : Book!Waiting(c)}
  BY <1>1
<1> QED BY <1>2, <1>3, <1>4, SameTables DEF Book!GiveUp

\* A rollback is its caller giving up.
LEMMA RollbackGivesUp ==
  ASSUME CommandsInv, tx.call # none, Rollback
  PROVE  Book!GiveUp
<1>1. tx.call \in Calls /\ calls[tx.call].phase = "sent" /\ UNCHANGED db
  BY OpenTransaction DEF Rollback
<1>2. calls' = [calls EXCEPT ![tx.call].phase = "failed"]
  BY DEF Rollback
<1>3. calls[tx.call] \in CallShape /\ calls[tx.call] # NotMade /\ DOMAIN calls = Calls
  BY <1>1 DEF CommandsInv, CommandsTypeOK, CallShape, NotMade
<1>4. /\ DOMAIN calls' = Calls /\ \A c \in Calls \ {tx.call} : calls'[c] = calls[c]
      /\ calls'[tx.call] = [calls[tx.call] EXCEPT !.phase = "failed"]
  BY <1>1, <1>2, <1>3
<1>5. /\ calls'[tx.call].phase = "failed"
      /\ calls'[tx.call].key = calls[tx.call].key
      /\ calls'[tx.call].request = calls[tx.call].request
  BY <1>3, <1>4 DEF CallShape
<1>6. \A c \in {tx.call} : /\ calls[c].phase \in {"sent", "committed"}
                           /\ calls'[c].phase \in {"failed", "lost"}
                           /\ calls'[c].key = calls[c].key
                           /\ calls'[c].request = calls[c].request
  BY <1>1, <1>5
<1>7. PICK some \in SUBSET Calls : some = {tx.call}
  BY <1>1
<1> QED BY <1>1, <1>4, <1>6, <1>7, BookGivesUp

\* A crash is every waiting caller giving up.
LEMMA CrashGivesUp ==
  ASSUME CommandsInv, Crash
  PROVE  Book!GiveUp
<1> DEFINE some == {c \in Calls : calls[c].phase \in {"sent", "committed"}}
<1>1. UNCHANGED db /\ calls' = [c \in Calls |-> IF c \in some
                                   THEN [calls[c] EXCEPT !.phase = "lost"] ELSE calls[c]]
  BY DEF Crash
<1>2. ASSUME NEW c \in some
      PROVE  /\ calls[c].phase \in {"sent", "committed"}
             /\ calls'[c].phase \in {"failed", "lost"}
             /\ calls'[c].key = calls[c].key
             /\ calls'[c].request = calls[c].request
  <2>1. calls[c] \in CallShape /\ calls[c] # NotMade
    BY DEF CommandsInv, CommandsTypeOK, CallShape, NotMade
  <2>2. calls'[c] = [calls[c] EXCEPT !.phase = "lost"]
    BY <1>1
  <2> QED BY <2>1, <2>2 DEF CallShape
<1>3. DOMAIN calls' = Calls /\ \A c \in Calls \ some : calls'[c] = calls[c]
  BY <1>1
<1> QED BY <1>1, <1>2, <1>3, BookGivesUp

\* A refused call is its caller giving up.
LEMMA RefusalGivesUp ==
  ASSUME CommandsInv, NEW c \in Calls, RefuseCall(c)
  PROVE  Book!GiveUp
<1>1. calls[c].phase = "sent" /\ calls' = [calls EXCEPT ![c].phase = "failed"] /\ UNCHANGED db
  BY DEF RefuseCall
<1>2. calls[c] \in CallShape /\ calls[c] # NotMade /\ DOMAIN calls = Calls
  BY <1>1 DEF CommandsInv, CommandsTypeOK, CallShape, NotMade
<1>3. /\ DOMAIN calls' = Calls /\ \A d \in Calls \ {c} : calls'[d] = calls[d]
      /\ calls'[c] = [calls[c] EXCEPT !.phase = "failed"]
  BY <1>1, <1>2
<1>4. \A d \in {c} : /\ calls[d].phase \in {"sent", "committed"}
                     /\ calls'[d].phase \in {"failed", "lost"}
                     /\ calls'[d].key = calls[d].key
                     /\ calls'[d].request = calls[d].request
  BY <1>1, <1>2, <1>3 DEF CallShape
<1>7. PICK some \in SUBSET Calls : some = {c}
  BY <1>1
<1> QED BY <1>1, <1>3, <1>4, <1>7, BookGivesUp

\* Sending a call asks.
LEMMA SendAsks ==
  ASSUME CommandsInv, NEW c \in Calls, Send(c)
  PROVE  Book!Ask(c)
<1>1. PICK key \in Keys, request \in Requests :
        calls' = [calls EXCEPT ![c] =
          [phase |-> "sent", key |-> key, request |-> request, answer |-> none]]
  BY DEF Send
<1>2. calls[c].phase = "new" /\ UNCHANGED db /\ DOMAIN calls = Calls
  BY DEF Send, CommandsInv, CommandsTypeOK
<1>3. PICK call : call = [phase |-> "sent", key |-> key, request |-> request, answer |-> none]
  OBVIOUS
<1>4. calls' = [calls EXCEPT ![c] = call]
      /\ call.phase = "sent" /\ call.key = key /\ call.request = request
  BY <1>1, <1>3
<1>5. bookAsked' = [bookAsked EXCEPT ![c] = [key |-> key, request |-> request]]
  BY <1>2, <1>4 DEF bookAsked
<1>6. bookReplies' = bookReplies
  BY <1>2, <1>4 DEF bookReplies
<1>7. bookAsked[c] = none
  BY <1>2 DEF bookAsked
<1> QED BY <1>2, <1>5, <1>6, <1>7, SameTables DEF Book!Ask

\* An answer that reaches its caller is what a receipt says.
LEMMA DeliverReplies ==
  ASSUME CommandsInv, NEW c \in Calls, Deliver(c)
  PROVE  Book!Reply(c)
<1>1. /\ calls[c].phase = "committed" /\ UNCHANGED db
      /\ calls' = [calls EXCEPT ![c].phase = "answered"] /\ DOMAIN calls = Calls
  BY DEF Deliver, CommandsInv, CommandsTypeOK
<1>2. calls[c] \in CallShape /\ calls[c] # NotMade
  BY <1>1 DEF CommandsInv, CommandsTypeOK, CallShape, NotMade
<1>3. PICK call : call = [calls[c] EXCEPT !.phase = "answered"]
  OBVIOUS
<1>4. /\ calls' = [calls EXCEPT ![c] = call]
      /\ call.phase = "answered" /\ call.key = calls[c].key
      /\ call.request = calls[c].request /\ call.answer = calls[c].answer
  BY <1>1, <1>2, <1>3 DEF CallShape
<1>5. bookAsked' = bookAsked
  BY <1>1, <1>4 DEF bookAsked
<1>6. bookReplies' = [bookReplies EXCEPT ![c] = calls[c].answer]
  BY <1>1, <1>4 DEF bookReplies
<1>7. Receipted(db, calls[c])
  BY <1>1 DEF CommandsInv
<1>8. PICK r \in db.receipts :
        /\ r.command = calls[c].request.command /\ r.key = calls[c].key
        /\ r.request = calls[c].request /\ r.answer = calls[c].answer
  BY <1>7 DEF Receipted, Receipts
<1>9. /\ Book!Waiting(c)
      /\ bookAsked[c] = [key |-> calls[c].key, request |-> calls[c].request]
  BY <1>1, BookWaits
<1>10. Book!Under(c, r) /\ r.request = bookAsked[c].request
  BY <1>8, <1>9 DEF Book!Under
<1>11. bookReplies' = [bookReplies EXCEPT ![c] = r.answer]
  BY <1>6, <1>8
<1>12. UNCHANGED <<db.works, bookChapters, bookTexts, bookShown, db.receipts>>
  BY <1>1, SameTables
<1> QED BY <1>5, <1>9, <1>10, <1>11, <1>12 DEF Book!Reply

\* A commit applies its command, or repeats nothing.
LEMMA CommitApplies ==
  ASSUME CommandsInv, Commit
  PROVE  Book!Apply(tx.call) \/ UNCHANGED Book!vars
<1>1. PICK c \in Calls : c = tx.call
  BY CommitDoes
<1>2. PICK q \in Requests : q = asks
  BY OpenTransaction DEF Commit
<1>3. PICK key \in Keys : key = mine.key
  BY OpenTransaction DEF Commit
<1>4. /\ calls' = [calls EXCEPT ![c] =
            [phase |-> "committed", key |-> key, request |-> q, answer |-> tx.answer]]
      /\ \/ db' = db
         \/ /\ q.command = "work" /\ Receipts(db, q, key) = {}
            /\ db' = WithReceipt(WithWork(db, c), key, q, WorkAnswer(c))
         \/ /\ q.command = "text" /\ Receipts(db, q, key) = {}
            /\ Writable(db, q) /\ Fits(db, q)
            /\ db' = WithReceipt(Saved(db, c, q), key, q, TextAnswer(db, c, q))
  BY <1>1, <1>2, <1>3, CommitDoes
<1>5. /\ calls[c].phase = "sent" /\ calls[c].key = key /\ calls[c].request = q
      /\ DOMAIN calls = Calls /\ db \in Store /\ TablesOK(db) /\ Unused(db, c)
  BY <1>1, <1>2, <1>3, OpenTransaction DEF Commit, mine, asks, CommandsInv, CommandsTypeOK
<1>6. PICK call : call = [phase |-> "committed", key |-> key, request |-> q,
                          answer |-> tx.answer]
  OBVIOUS
<1>7. /\ calls' = [calls EXCEPT ![c] = call]
      /\ call.phase = "committed" /\ call.key = key /\ call.request = q
  BY <1>4, <1>6
<1>8. bookAsked' = bookAsked /\ bookReplies' = bookReplies
  BY <1>5, <1>7 DEF bookAsked, bookReplies
<1>9. Book!Waiting(c) /\ bookAsked[c] = [key |-> key, request |-> q]
  BY <1>5, BookWaits
<1>10. bookAsked[c].key = key /\ bookAsked[c].request = q
  BY <1>9
<1>11. ASSUME Receipts(db, q, key) = {}
       PROVE  \A r \in db.receipts : ~ Book!Under(c, r)
  BY <1>10, <1>11 DEF Receipts, Book!Under
<1>12. CASE db' = db
  BY <1>8, <1>12, SameTables DEF Book!vars
<1>13. CASE /\ q.command = "work" /\ Receipts(db, q, key) = {}
            /\ db' = WithReceipt(WithWork(db, c), key, q, WorkAnswer(c))
  <2>1. /\ db'.works = db.works \cup {[id |-> c, status |-> "active"]}
        /\ db'.chapters = db.chapters /\ db'.revisions = db.revisions
        /\ db'.receipts = db.receipts \cup
             {[command |-> q.command, key |-> key, request |-> q, answer |-> WorkAnswer(c)]}
    BY <1>5, <1>13, WorkIsSaved
  <2>2. \A d : TextsOf(db', d) = TextsOf(db, d) /\ ShownOf(db', d) = ShownOf(db, d)
    BY <2>1, OrderOfRevisions
  <2>3. UNCHANGED <<bookChapters, bookTexts, bookShown>>
    BY <2>1, <2>2 DEF bookChapters, bookTexts, bookShown
  <2>4. Book!Record(c, WorkAnswer(c))
    BY <1>10, <2>1 DEF Book!Record
  <2>5. Book!ApplyWork(c)
    BY <1>10, <1>13, <2>1, <2>3, <2>4 DEF Book!ApplyWork, WorkAnswer
  <2> QED BY <1>1, <1>8, <1>9, <1>11, <1>13, <2>5 DEF Book!Apply
<1>14. CASE /\ q.command = "text" /\ Receipts(db, q, key) = {}
            /\ Writable(db, q) /\ Fits(db, q)
            /\ db' = WithReceipt(Saved(db, c, q), key, q, TextAnswer(db, c, q))
  <2>1. PICK ch : ch = Target(c, q)
    OBVIOUS
  <2>2. /\ db'.works = db.works
        /\ db'.receipts = db.receipts \cup
             {[command |-> q.command, key |-> key, request |-> q,
               answer |-> TextAnswer(db, c, q)]}
        /\ PlacesIn(db') =
             IF q.chapter = none
               THEN PlacesIn(db) \cup
                      {[id |-> c, work |-> q.work, place |-> q.place]}
               ELSE PlacesIn(db)
        /\ ch \in Calls
        /\ Len(TextsOf(db, ch)) + 1 = NextVersion(db, ch)
        /\ TextsOf(db', ch) = Append(TextsOf(db, ch), q.text)
        /\ ShownOf(db', ch) = NextVersion(db, ch)
        /\ \A d \in Calls \ {ch} :
             TextsOf(db', d) = TextsOf(db, d) /\ ShownOf(db', d) = ShownOf(db, d)
    BY <1>5, <1>14, <2>1, TextIsSaved
  <2>3. bookTexts[ch] = TextsOf(db, ch)
    BY <2>2 DEF bookTexts
  <2>4. bookTexts' = [bookTexts EXCEPT ![ch] = Append(@, q.text)]
    BY <2>2 DEF bookTexts
  <2>5. bookShown' = [bookShown EXCEPT ![ch] = Len(bookTexts[ch]) + 1]
    BY <2>2, <2>3 DEF bookShown
  <2>6. TextAnswer(db, c, q) = [id |-> c, chapter |-> ch, version |-> Len(bookTexts[ch]) + 1]
    BY <2>1, <2>2, <2>3 DEF TextAnswer
  <2>7. Book!Record(c, [id |-> c, chapter |-> ch, version |-> Len(bookTexts[ch]) + 1])
    BY <1>10, <2>2, <2>6 DEF Book!Record
  <2>8. bookChapters = PlacesIn(db) /\ bookChapters' = PlacesIn(db')
    BY DEF bookChapters, PlacesIn, Place
  <2>9. \/ /\ \E row \in bookChapters : row.id = ch /\ row.work = q.work
           /\ q.chapter = ch
           /\ UNCHANGED bookChapters
        \/ /\ q.chapter = none /\ ch = c
           /\ \A row \in bookChapters : <<row.work, row.place>> # <<q.work, q.place>>
           /\ bookChapters' = bookChapters \cup
                {[id |-> c, work |-> q.work, place |-> q.place]}
    <3>1. CASE q.chapter = none
      <4>1. ch = c
        BY <3>1, <2>1 DEF Target
      <4>2. \A row \in bookChapters : <<row.work, row.place>> # <<q.work, q.place>>
        <5>1. \A row \in db.chapters : <<row.work, row.place>> # <<q.work, q.place>>
          BY <1>14, <3>1 DEF Fits
        <5> QED BY <5>1 DEF bookChapters
      <4> QED BY <3>1, <4>1, <4>2, <2>2, <2>8
    <3>2. CASE q.chapter # none
      <4>1. ch = q.chapter
        BY <3>2, <2>1 DEF Target
      <4>2. PICK row \in db.chapters : row.id = ch /\ row.work = q.work
        BY <1>14, <3>2, <4>1 DEF Fits
      <4>3. Place(row) \in bookChapters /\ Place(row).id = ch /\ Place(row).work = q.work
        BY <2>8, <4>2 DEF PlacesIn, Place
      <4> QED BY <3>2, <4>1, <4>3, <2>2, <2>8
    <3> QED BY <3>1, <3>2
  <2>10. [id |-> q.work, status |-> "active"] \in db.works
    BY <1>14 DEF Writable
  <2>11. Book!ApplyText(c)
    BY <1>10, <1>14, <2>2, <2>4, <2>5, <2>7, <2>9, <2>10 DEF Book!ApplyText
  <2> QED BY <1>1, <1>8, <1>9, <1>11, <1>14, <2>11 DEF Book!Apply
<1> QED BY <1>4, <1>12, <1>13, <1>14

\* The commands start with an empty book.
LEMMA BookStarts == CommandsInit => Book!Init
<1> SUFFICES ASSUME CommandsInit PROVE Book!Init
  OBVIOUS
<1>1. PICK state \in [OldWorks -> {"active", "archived"}] :
        db = [works |-> {[id |-> w, status |-> state[w]] : w \in OldWorks},
              chapters |-> {}, revisions |-> {}, receipts |-> {}]
  BY DEF CommandsInit
<1>2. \A w \in db.works : w.id \notin Calls
  BY <1>1, NovelCommandsAssumption
<1>3. bookAsked = [c \in Calls |-> none] /\ bookReplies = [c \in Calls |-> none]
  BY DEF CommandsInit, NotMade, bookAsked, bookReplies
<1>4. ASSUME NEW c \in Calls PROVE TextsOf(db, c) = << >> /\ ShownOf(db, c) = 0
  <2>1. PICK n \in Nat : n = 0 /\ {r.version : r \in RevisionsOf(db, c)} = 1..n
    BY <1>1 DEF RevisionsOf
  <2>2. NextVersion(db, c) = n + 1
    BY <2>1, NextOfCount
  <2>5. NextVersion(db, c) = 1
    BY <2>1, <2>2
  <2>3. TextsOf(db, c) = << >>
    BY <2>5 DEF TextsOf
  <2>4. ShownOf(db, c) = 0
    BY <1>1 DEF ShownOf
  <2> QED BY <2>3, <2>4
<1>5. bookTexts = [c \in Calls |-> << >>] /\ bookShown = [c \in Calls |-> 0]
  BY <1>4 DEF bookTexts, bookShown
<1>6. bookChapters = {} /\ db.receipts = {}
  BY <1>1 DEF bookChapters
<1> QED BY <1>2, <1>3, <1>5, <1>6 DEF Book!Init

\* Statements before the commit change nothing a caller could hear of.
LEMMA StatementsAreHidden ==
  ASSUME CommandsInv,
         \/ \E c \in Calls : Begin(c)
         \/ StatementFails \/ CheckWork \/ LookUpReceipt \/ InsertWork \/ ResolveChapter
         \/ InsertRevision \/ PointChapter \/ SaveReceipt
  PROVE  Book!GiveUp \/ UNCHANGED Book!vars
<1>1. ASSUME NEW c \in Calls, Begin(c)
      PROVE  UNCHANGED Book!vars
  BY <1>1, BookStutters DEF Begin
<1>2. CASE InsertWork \/ InsertRevision \/ PointChapter \/ SaveReceipt
  BY <1>2, BookStutters DEF InsertWork, InsertRevision, PointChapter, SaveReceipt
<1>3. CASE CheckWork \/ LookUpReceipt \/ ResolveChapter \/ StatementFails
  <2>1. tx.call # none
    <3>1. tx.at # "idle" \/ tx.call # none
      BY <1>3 DEF CheckWork, LookUpReceipt, ResolveChapter, StatementFails
    <3> QED BY <3>1 DEF CommandsInv, NoTx
  <2>2. Rollback \/ UNCHANGED <<calls, db>>
    BY <1>3 DEF CheckWork, LookUpReceipt, ResolveChapter, StatementFails
  <2> QED BY <2>1, <2>2, RollbackGivesUp, BookStutters
<1> QED BY <1>1, <1>2, <1>3

\* Every step of the commands is a step of the book, or hidden from it.
LEMMA BookSteps == CommandsInv /\ [CommandsNext]_commandVars => [Book!Next]_(Book!vars)
<1> SUFFICES ASSUME CommandsInv, [CommandsNext]_commandVars
             PROVE  [Book!Next]_(Book!vars)
  OBVIOUS
<1>1. CASE UNCHANGED commandVars
  BY <1>1, BookStutters DEF commandVars
<1>2. ASSUME NEW c \in Calls, Send(c) \/ RefuseCall(c) \/ Deliver(c)
      PROVE  Book!Next
  BY <1>2, SendAsks, RefusalGivesUp, DeliverReplies DEF Book!Next
<1>3. CASE \/ \E c \in Calls : Begin(c)
           \/ StatementFails \/ CheckWork \/ LookUpReceipt \/ InsertWork \/ ResolveChapter
           \/ InsertRevision \/ PointChapter \/ SaveReceipt
  BY <1>3, StatementsAreHidden DEF Book!Next
<1>4. CASE Commit
  <2>1. tx.call \in Calls
    BY <1>4, CommitDoes
  <2> QED BY <1>4, <2>1, CommitApplies DEF Book!Next
<1>5. CASE Crash
  BY <1>5, CrashGivesUp DEF Book!Next
<1> QED BY <1>1, <1>2, <1>3, <1>4, <1>5 DEF CommandsNext

\* The commands implement the book of receipts: whatever is repeated, refused,
\* rolled back or lost with the process, a command takes effect at most once under
\* its key, every repeat hears its one answer or an error, and each saved text is
\* its chapter's next revision and the one shown.
THEOREM CommandsKeepTheBook == CommandsSpec => KeepsTheBook
BY BookStarts, BookSteps, CommandsInvariance, PTL DEF CommandsSpec, KeepsTheBook, Book!Spec

\* The calls, the tables and the open transaction keep their shapes: every row,
\* receipt and answer holds an identifier a call made or an old work has.
THEOREM CommandsAreTyped == CommandsSpec => []CommandsTypeOK
BY CommandsInvariance, PTL DEF CommandsInv


---------------------------------------------------------------------------
(* Video tasks and their downloads (VideoTask).                            *)

\* A body is the beginning of one version.
BeginningOf(v, body) ==
  /\ Len(body) <= Size[v]
  /\ \A i \in 1..Len(body) : body[i] = <<v, i>>

\* What was received is of the version its validator names; a version without a
\* validator is still the one served.
From(v) ==
  /\ BeginningOf(v, fetch.body)
  /\ fetch.validator = Tag[v]
  /\ Tag[v] = noTag => served = v

FetchShape ==
  [phase : {"idle", "asking", "reading", "done", "failed"}, attempt : 0..Attempts,
   body : Seq(Units), validator : Validators,
   version : Versions \cup {noTag}, next : Nat]

\* What the download alone keeps.
FetchInv ==
  /\ served \in Versions /\ fetch \in FetchShape /\ Len(fetch.body) <= Limit
  /\ fetch.body # << >> => \E v \in Versions : From(v)
  /\ fetch.phase = "reading" =>
       /\ fetch.version \in Versions /\ From(fetch.version)
       /\ fetch.next = Len(fetch.body) + 1
  /\ fetch.phase = "done" => \E v \in Versions : fetch.body = Whole(v)

\* A download from its parts, and the parts of one.
DownloadOf(phase, attempt, body, validator, version, next) ==
  [phase |-> phase, attempt |-> attempt, body |-> body, validator |-> validator,
   version |-> version, next |-> next]

\* The parts of a download, typed.
LEMMA FetchParts ==
  ASSUME FetchInv
  PROVE  /\ fetch = DownloadOf(fetch.phase, fetch.attempt, fetch.body, fetch.validator,
                              fetch.version, fetch.next)
         /\ fetch.attempt \in 0..Attempts /\ fetch.body \in Seq(Units)
         /\ fetch.validator \in Validators /\ fetch.version \in Versions \cup {noTag}
         /\ fetch.next \in Nat
BY DEF FetchInv, FetchShape, DownloadOf

\* A download made of typed parts is typed.
LEMMA FetchIsTyped ==
  ASSUME NEW phase \in {"idle", "asking", "reading", "done", "failed"},
         NEW attempt \in 0..Attempts, NEW body \in Seq(Units), NEW validator \in Validators,
         NEW version \in Versions \cup {noTag}, NEW next \in Nat
  PROVE  DownloadOf(phase, attempt, body, validator, version, next) \in FetchShape
BY DEF FetchShape, DownloadOf

\* A served version without a validator is not replaced.
LEMMA ReplaceStep ==
  ASSUME FetchInv, Replace
  PROVE  FetchInv'
<1>1. fetch' = fetch /\ served' \in Versions /\ Tag[served] # noTag
  BY DEF Replace
<1>2. ASSUME NEW v \in Versions, From(v) PROVE From(v)'
  BY <1>1, <1>2 DEF From
<1> QED BY <1>1, <1>2 DEF FetchInv

\* An attempt that goes on later keeps nothing, or what it had.
LEMMA RetryKeeps ==
  ASSUME FetchInv, UNCHANGED served, fetch.phase \in {"asking", "reading"},
         NEW body, NEW validator, Retry(body, validator),
         (body = fetch.body /\ validator = fetch.validator) \/ (body = << >> /\ validator = noTag)
  PROVE  FetchInv'
<1>1. /\ body \in Seq(Units) /\ Len(body) <= Limit
      /\ validator \in Validators
  <2>1. << >> \in Seq(Units) /\ Len(<< >>) <= Limit /\ noTag \in Validators
    BY DownloadAssumption, EmptySeq DEF Validators
  <2>2. fetch.body \in Seq(Units) /\ Len(fetch.body) <= Limit /\ fetch.validator \in Validators
    BY DEF FetchInv, FetchShape
  <2> QED BY <2>1, <2>2
<1>2. /\ fetch' \in FetchShape /\ fetch'.body = body /\ fetch'.validator = validator
      /\ fetch'.phase \in {"asking", "failed"}
  <2>1. PICK phase \in {"asking", "failed"}, attempt \in 0..Attempts :
          fetch' = [fetch EXCEPT !.body = body, !.validator = validator, !.phase = phase,
                                 !.attempt = attempt]
    <3>1. fetch.attempt \in 0..Attempts
      BY FetchParts
    <3>2. CASE fetch.attempt < Attempts
      <4>1. fetch.attempt + 1 \in 0..Attempts
        BY <3>1, <3>2, DownloadAssumption
      <4> QED BY <3>2, <4>1, FetchParts DEF Retry, DownloadOf
    <3>3. CASE ~ fetch.attempt < Attempts
      BY <3>1, <3>3, FetchParts DEF Retry, DownloadOf
    <3> QED BY <3>2, <3>3
  <2>2. fetch' = DownloadOf(phase, attempt, body, validator, fetch.version, fetch.next)
    BY <2>1, FetchParts DEF DownloadOf
  <2>3. fetch' \in FetchShape
    BY <1>1, <2>2, FetchParts, FetchIsTyped
  <2> QED BY <2>2, <2>3 DEF DownloadOf
<1>3. body # << >> => \E v \in Versions : From(v)'
  BY <1>2 DEF FetchInv, From
<1> QED BY <1>1, <1>2, <1>3 DEF FetchInv

\* A download that fails keeps what it received.
LEMMA FatalKeeps ==
  ASSUME FetchInv, UNCHANGED served, Fatal
  PROVE  FetchInv'
<1>1. fetch' \in FetchShape /\ fetch'.phase = "failed"
      /\ fetch'.body = fetch.body /\ fetch'.validator = fetch.validator
  BY DEF Fatal, FetchInv, FetchShape
<1> QED BY <1>1 DEF FetchInv, From

\* A response whose units continue what was received, or start afresh.
LEMMA ReadKeeps ==
  ASSUME FetchInv, UNCHANGED served, NEW body, NEW validator, Read(body, validator, served),
         \/ body = << >> /\ validator = Tag[served]
         \/ body = fetch.body /\ validator = fetch.validator /\ From(served)
  PROVE  FetchInv'
<1>1. CASE Fatal
  BY <1>1, FatalKeeps
<1>2. CASE fetch' = [fetch EXCEPT !.phase = "reading", !.body = body, !.validator = validator,
                       !.version = served, !.next = Len(body) + 1]
  <2>1. /\ body \in Seq(Units) /\ Len(body) \in Nat /\ Len(body) <= Limit
        /\ validator = Tag[served] /\ served \in Versions
    <3>1. << >> \in Seq(Units) /\ Len(<< >>) = 0 /\ 0 <= Limit
      BY DownloadAssumption, EmptySeq
    <3>2. /\ fetch.body \in Seq(Units) /\ Len(fetch.body) \in Nat /\ Len(fetch.body) <= Limit
          /\ served \in Versions
      BY DEF FetchInv, FetchShape
    <3> QED BY <3>1, <3>2 DEF From
  <2>2. fetch' \in FetchShape
    <3>1. Tag[served] \in Validators
      BY <2>1 DEF Validators
    <3>2. fetch' = DownloadOf("reading", fetch.attempt, body, validator, served, Len(body) + 1)
      BY <1>2, FetchParts DEF DownloadOf
    <3> QED BY <2>1, <3>1, <3>2, FetchParts, FetchIsTyped
  <2>3. /\ fetch'.body = body /\ fetch'.validator = Tag[served] /\ fetch'.version = served
        /\ fetch'.phase = "reading" /\ fetch'.next = Len(body) + 1
    BY <1>2, <2>1 DEF FetchInv, FetchShape
  <2>4. BeginningOf(served, body)
    BY <2>1, DownloadAssumption DEF BeginningOf, From
  <2>5. From(served)'
    BY <2>3, <2>4 DEF From
  <2> QED BY <2>1, <2>2, <2>3, <2>5 DEF FetchInv
<1> QED BY <1>1, <1>2 DEF Read

\* A resumed body is of the version that is served now.
LEMMA ResumeIsSafe ==
  ASSUME FetchInv, GivesTheRest
  PROVE  From(served)
<1>1. PICK v \in Versions : From(v)
  BY DEF FetchInv, GivesTheRest, resuming
<1>2. v = served
  BY <1>1, DownloadAssumption DEF From, GivesTheRest, FetchInv
<1> QED BY <1>1, <1>2

\* A piece that arrives is the next unit of the same version.
LEMMA ReceiveStep ==
  ASSUME FetchInv, Receive
  PROVE  FetchInv'
<1>1. fetch.phase = "reading" /\ fetch.next <= Size[fetch.version] /\ UNCHANGED served
  BY DEF Receive
<1>2. CASE Len(fetch.body) + 1 > Limit
  BY <1>1, <1>2, FatalKeeps DEF Receive
<1>3. CASE ~ Len(fetch.body) + 1 > Limit
  <2>1. PICK v : v = fetch.version
    OBVIOUS
  <2>2. PICK n : n = Len(fetch.body)
    OBVIOUS
  <2>3. PICK body : body = Append(fetch.body, <<v, n + 1>>)
    OBVIOUS
  <2>4. /\ v \in Versions /\ n \in Nat /\ fetch.next = n + 1 /\ n + 1 <= Size[v]
        /\ From(v) /\ fetch.body \in Seq(Units) /\ n + 1 <= Limit
    BY <1>1, <1>3, <2>1, <2>2, DownloadAssumption DEF FetchInv, FetchShape
  <2>5. <<v, n + 1>> \in Units
    BY <2>4 DEF Units
  <2>6. /\ body \in Seq(Units) /\ Len(body) = n + 1 /\ body[n + 1] = <<v, n + 1>>
        /\ \A i \in 1..n : body[i] = fetch.body[i]
    BY <2>2, <2>3, <2>4, <2>5, AppendProperties
  <2>7. fetch' = [fetch EXCEPT !.body = body, !.next = n + 2]
    <3>1. fetch' = [fetch EXCEPT !.body = Append(@, <<fetch.version, fetch.next>>),
                                 !.next = @ + 1]
      BY <1>3 DEF Receive
    <3>2. fetch' = [fetch EXCEPT !.body = Append(fetch.body, <<fetch.version, fetch.next>>),
                                 !.next = fetch.next + 1]
      BY <3>1 DEF FetchInv, FetchShape
    <3>3. fetch.next + 1 = n + 2
      BY <2>4
    <3> QED BY <3>2, <3>3, <2>1, <2>3, <2>4
  <2>8. fetch' \in FetchShape
    <3>1. fetch' = DownloadOf(fetch.phase, fetch.attempt, body, fetch.validator,
                              fetch.version, n + 2)
      BY <2>7, FetchParts DEF DownloadOf
    <3> QED BY <1>1, <2>4, <2>6, <3>1, FetchParts, FetchIsTyped
  <2>9. /\ fetch'.body = body /\ fetch'.next = n + 2 /\ fetch'.version = v
        /\ fetch'.validator = fetch.validator /\ fetch'.phase = "reading"
    BY <1>1, <2>1, <2>7 DEF FetchInv, FetchShape
  <2>10. BeginningOf(v, body)
    BY <2>2, <2>4, <2>6 DEF BeginningOf, From
  <2>11. From(v)'
    BY <1>1, <2>4, <2>9, <2>10 DEF From
  <2> QED BY <1>1, <2>4, <2>6, <2>8, <2>9, <2>11 DEF FetchInv
<1> QED BY <1>2, <1>3

\* A body read to the end is the whole version.
LEMMA FinishStep ==
  ASSUME FetchInv, Finish
  PROVE  FetchInv'
<1>1. /\ fetch.phase = "reading" /\ fetch.next > Size[fetch.version] /\ UNCHANGED served
      /\ fetch' = [fetch EXCEPT !.phase = "done"]
  BY DEF Finish
<1>2. PICK v \in Versions : v = fetch.version
  BY <1>1 DEF FetchInv
<1>3. /\ fetch.next = Len(fetch.body) + 1 /\ From(v) /\ fetch.body \in Seq(Units)
      /\ Len(fetch.body) \in Nat /\ Size[v] \in Nat
  BY <1>1, <1>2, DownloadAssumption DEF FetchInv, FetchShape
<1>4. Len(fetch.body) = Size[v] /\ \A i \in 1..Size[v] : fetch.body[i] = <<v, i>>
  BY <1>1, <1>2, <1>3 DEF From, BeginningOf
<1>5. fetch.body = Whole(v)
  <2>1. fetch.body = [i \in 1..Size[v] |-> fetch.body[i]]
    BY <1>3, <1>4
  <2> QED BY <1>4, <2>1 DEF Whole
<1>6. fetch' \in FetchShape /\ fetch'.body = fetch.body /\ fetch'.validator = fetch.validator
      /\ fetch'.phase = "done"
  BY <1>1 DEF FetchInv, FetchShape
<1> QED BY <1>1, <1>5, <1>6 DEF FetchInv, From, Whole

\* Every step of a download.
LEMMA DownloadKeeps ==
  ASSUME FetchInv, DownloadStep
  PROVE  FetchInv'
<1>1. CASE AttemptFails
  BY <1>1, RetryKeeps DEF AttemptFails
<1>2. CASE Refused
  BY <1>2, FatalKeeps DEF Refused
<1>3. CASE Resume
  BY <1>3, ResumeIsSafe, ReadKeeps DEF Resume
<1>4. CASE StartAfresh
  BY <1>4, RetryKeeps DEF StartAfresh
<1>5. CASE FullBody
  BY <1>5, ReadKeeps DEF FullBody
<1>6. CASE Break
  BY <1>6, RetryKeeps DEF Break
<1> QED BY <1>1, <1>2, <1>3, <1>4, <1>5, <1>6, ReceiveStep, FinishStep DEF DownloadStep

\* Opening a download starts with nothing received.
LEMMA OpenKeeps ==
  ASSUME FetchInv, Open
  PROVE  FetchInv'
<1>1. /\ UNCHANGED served
      /\ fetch' = DownloadOf("asking", 1, << >>, noTag, noTag, 0)
  BY DEF Open, NotStarted, DownloadOf
<1>2. << >> \in Seq(Units) /\ Len(<< >>) <= Limit /\ noTag \in Validators /\ 1 \in 0..Attempts
  BY DownloadAssumption, EmptySeq DEF Validators
<1>3. fetch' \in FetchShape
  BY <1>1, <1>2, FetchIsTyped
<1>4. fetch'.phase = "asking" /\ fetch'.body = << >>
  BY <1>1 DEF DownloadOf
<1> QED BY <1>1, <1>2, <1>3, <1>4 DEF FetchInv

\* The run and the provider's task.
RunInv ==
  /\ run \in [phase : {"new", "polling", "fetching", "done", "failed"},
              cause : {"none", "create", "deadline", "refused", "provider", "stored", "download"}]
  /\ task \in [count : Nat, state : {"none", "running", "completed", "failed"}]
  /\ late \in BOOLEAN
  /\ run.phase = "new" => task.count = 0
  /\ task.count <= 1
  /\ run.phase \in {"fetching", "done"} => task.state = "completed"
  /\ run.phase = "done" => fetch.phase = "done"
  /\ run.cause = "deadline" => late

\* The initial states satisfy the invariants of the download and the run.
LEMMA TaskInitInv == TaskInit => FetchInv /\ RunInv
<1> SUFFICES ASSUME TaskInit PROVE FetchInv /\ RunInv
  OBVIOUS
<1>1. fetch = DownloadOf("idle", 0, << >>, noTag, noTag, 0) /\ served \in Versions
  BY DEF TaskInit, DownloadInit, NotStarted, DownloadOf
<1>2. << >> \in Seq(Units) /\ Len(<< >>) <= Limit /\ noTag \in Validators /\ 0 \in 0..Attempts
  BY DownloadAssumption, EmptySeq DEF Validators
<1>3. fetch \in FetchShape
  BY <1>1, <1>2, FetchIsTyped
<1>4. FetchInv
  BY <1>1, <1>2, <1>3 DEF FetchInv, DownloadOf
<1>5. RunInv
  <2>1. /\ run = [phase |-> "new", cause |-> "none"] /\ task = [count |-> 0, state |-> "none"]
        /\ late = FALSE
    BY DEF TaskInit
  <2>2. late \in BOOLEAN
    BY <2>1
  <2>3. run.phase = "new" /\ run.cause = "none" /\ task.count = 0
    BY <2>1
  <2> QED BY <2>1, <2>2, <2>3 DEF RunInv
<1> QED BY <1>4, <1>5

\* What happens to the download alone.
LEMMA DownloadsKeep ==
  ASSUME FetchInv, RunInv, Downloads \/ (Replace /\ UNCHANGED taskVars)
  PROVE  FetchInv' /\ RunInv'
<1>1. FetchInv'
  BY DownloadKeeps, ReplaceStep DEF Downloads
<1>2. run.phase = "done" => fetch'.phase = "done"
  BY DEF Downloads, Replace, RunInv
<1> QED BY <1>1, <1>2 DEF Downloads, taskVars, RunInv

\* What happens to the run and the task, while the download waits or opens.
LEMMA RunKeeps ==
  ASSUME FetchInv, RunInv,
         \/ Create \/ PollTroubled \/ PollRefused \/ PollAnswered \/ Ends
         \/ ProviderEnds \/ DeadlinePasses
  PROVE  FetchInv' /\ RunInv'
<1>1. CASE Create
  BY <1>1 DEF Create, Fails, RunInv, FetchInv, From, downloadVars
<1>2. CASE PollTroubled
  BY <1>2 DEF PollTroubled, Fails, RunInv, FetchInv, From, downloadVars
<1>3. CASE PollRefused
  BY <1>3 DEF PollRefused, Fails, RunInv, FetchInv, From, downloadVars
<1>4. CASE PollAnswered
  <2>1. CASE task.state = "completed" /\ run' = [run EXCEPT !.phase = "fetching"] /\ Open
    <3>1. RunInv'
      BY <1>4, <2>1 DEF PollAnswered, RunInv
    <3> QED BY <2>1, <3>1, OpenKeeps
  <2>2. CASE task.state # "completed"
    BY <1>4, <2>2 DEF PollAnswered, Fails, RunInv, FetchInv, From, downloadVars
  <2> QED BY <1>4, <2>1, <2>2 DEF PollAnswered
<1>5. CASE Ends
  BY <1>5 DEF Ends, Fails, RunInv, FetchInv, From, downloadVars
<1>6. CASE ProviderEnds
  BY <1>6 DEF ProviderEnds, RunInv, FetchInv, From, downloadVars
<1>7. CASE DeadlinePasses
  BY <1>7 DEF DeadlinePasses, RunInv, FetchInv, From, downloadVars
<1> QED BY <1>1, <1>2, <1>3, <1>4, <1>5, <1>6, <1>7

\* Every step keeps the invariants of the download and the run.
LEMMA TaskStepInv ==
  FetchInv /\ RunInv /\ [TaskNext]_videoTaskVars => FetchInv' /\ RunInv'
<1> SUFFICES ASSUME FetchInv, RunInv, [TaskNext]_videoTaskVars PROVE FetchInv' /\ RunInv'
  OBVIOUS
<1>1. CASE UNCHANGED videoTaskVars
  BY <1>1 DEF videoTaskVars, downloadVars, taskVars, FetchInv, From, RunInv
<1>2. CASE TaskNext
  BY <1>2, DownloadsKeep, RunKeeps DEF TaskNext
<1> QED BY <1>1, <1>2

\* The invariants of the download and the run hold in every reachable state.
LEMMA TaskInvariance == TaskSpec => [](FetchInv /\ RunInv)
BY TaskInitInv, TaskStepInv, PTL DEF TaskSpec

\* A finished video is one whole version of the file of a completed task, a task is
\* made at most once, and only the deadline ends the polling of a living one.
THEOREM VideosAreWhole == TaskSpec => []VideoIsWhole
<1>1. FetchInv /\ RunInv => VideoIsWhole
  BY DEF FetchInv, RunInv, VideoIsWhole
<1> QED BY <1>1, TaskInvariance, PTL

\* The run, the task and the download keep their shapes, and no body outgrows the
\* limit, however often it is resumed.
THEOREM TasksAreTyped == TaskSpec => []TaskTypeOK
<1>1. FetchInv /\ RunInv => TaskTypeOK
  BY DEF FetchInv, RunInv, TaskTypeOK, FetchShape
<1> QED BY <1>1, TaskInvariance, PTL

---------------------------------------------------------------------------
(* Opening and upgrading the database (SchemaUpgrade).                     *)

\* A whole backup of the database as the last backed-up upgrade found it, which no
\* other backup is newer than.
NewestKeeps(store) ==
  \E b \in backups :
    /\ b.whole /\ b.version = store.version /\ b.edits = store.edits
    /\ \A x \in backups : x.stamp <= b.stamp

\* What every step of a start and of the program keeps.
UpgradeInv ==
  /\ UpgradeTypeOK
  /\ \A b \in backups : b.stamp <= clock
  /\ origin.exists => NewestKeeps(origin)
  /\ boot.at # "closed" => file.exists /\ file.version <= boot.build
  /\ boot.at \in {"copying", "verifying", "renaming", "pruning"} => boot.from = file.version
  /\ boot.at \in {"verifying", "renaming"} => copy.edits = file.edits
  /\ boot.at = "renaming" => copy.whole /\ copy.version = boot.from
  /\ boot.at = "pruning" => origin = file
  /\ boot.at = "migrating" /\ boot.existed /\ boot.from < boot.build =>
       origin.exists /\ origin.version = boot.from /\ origin.edits = file.edits

\* The initial states satisfy the upgrade's invariant.
LEMMA UpgradeInitInv == UpgradeInit => UpgradeInv
BY DEF UpgradeInit, UpgradeInv, UpgradeTypeOK, NoFile, NoCopy, Closed

\* A start finds the database, and refuses one that is newer than the build.
LEMMA LaunchStep ==
  ASSUME UpgradeInv, NEW build \in Builds, Launch(build)
  PROVE  UpgradeInv'
<1>1. build \in Nat /\ UNCHANGED <<backups, copy, origin>> /\ clock' = clock + 1
      /\ file' = [file EXCEPT !.exists = TRUE]
  BY SchemaUpgradeAssumption DEF Launch
<1>2. file' \in [exists : BOOLEAN, version : Nat, edits : Nat] /\ clock' \in Nat
  <2>1. clock \in Nat /\ file.version \in Nat /\ file.edits \in Nat
    BY DEF UpgradeInv, UpgradeTypeOK
  <2>2. file' = [exists |-> TRUE, version |-> file.version, edits |-> file.edits]
    BY <1>1 DEF UpgradeInv, UpgradeTypeOK
  <2>3. file' \in [exists : BOOLEAN, version : Nat, edits : Nat]
    BY <2>1, <2>2, Zenon
  <2>4. clock' \in Nat
    BY <1>1, <2>1
  <2> QED BY <2>3, <2>4
<1>3. CASE file.version > build
  <2>1. boot' = Closed
    BY <1>3 DEF Launch
  <2>2. UpgradeTypeOK'
    BY <1>1, <1>2, <2>1 DEF UpgradeInv, UpgradeTypeOK, Closed
  <2>3. \A b \in backups : b.stamp <= clock'
    BY <1>1 DEF UpgradeInv, UpgradeTypeOK, Backup
  <2> QED BY <1>1, <2>1, <2>2, <2>3 DEF UpgradeInv, NewestKeeps, Closed
<1>4. CASE ~ file.version > build
  <2>1. boot' = [at |-> IF file.exists /\ file.version < build THEN "copying" ELSE "migrating",
                 build |-> build, from |-> file.version, existed |-> file.exists]
    BY <1>4 DEF Launch
  <2>2. /\ file.version \in Nat /\ file.exists \in BOOLEAN /\ file'.version = file.version
        /\ file'.exists /\ file'.edits = file.edits
    BY <1>1 DEF UpgradeInv, UpgradeTypeOK
  <2>3. UpgradeTypeOK'
    <3>1. boot' \in [at : {"closed", "copying", "verifying", "renaming", "pruning",
                           "migrating", "open"},
                     build : Nat, from : Nat, existed : BOOLEAN]
      BY <1>1, <2>1, <2>2
    <3> QED BY <1>1, <1>2, <3>1 DEF UpgradeInv, UpgradeTypeOK
  <2>4. \A b \in backups : b.stamp <= clock'
    BY <1>1 DEF UpgradeInv, UpgradeTypeOK, Backup
  <2>5. file'.version <= boot'.build
    BY <1>1, <1>4, <2>1, <2>2
  <2> QED BY <1>1, <1>4, <2>1, <2>2, <2>3, <2>4, <2>5 DEF UpgradeInv, NewestKeeps
<1> QED BY <1>3, <1>4

\* The verified copy becomes the newest backup.
LEMMA RenameStep ==
  ASSUME UpgradeInv, Rename
  PROVE  UpgradeInv'
<1>1. PICK b : b = [version |-> copy.version, edits |-> copy.edits,
                    whole |-> copy.whole, stamp |-> clock]
  OBVIOUS
<1>2. /\ b.version = file.version /\ b.edits = file.edits /\ b.whole /\ b.stamp = clock
      /\ b \in Backup
  BY <1>1 DEF Rename, UpgradeInv, UpgradeTypeOK, Backup
<1>3. /\ backups' = backups \cup {b} /\ origin' = file /\ copy' = NoCopy
      /\ boot' = [boot EXCEPT !.at = "pruning"] /\ UNCHANGED <<file, clock>>
      /\ boot.at = "renaming"
  BY <1>1 DEF Rename, Goes
<1>4. UpgradeTypeOK'
  BY <1>2, <1>3 DEF UpgradeInv, UpgradeTypeOK, NoCopy
<1>5. \A x \in backups' : x.stamp <= b.stamp
  BY <1>2, <1>3 DEF UpgradeInv, UpgradeTypeOK
<1>6. NewestKeeps(origin)'
  BY <1>2, <1>3, <1>5 DEF NewestKeeps
<1>7. boot'.at = "pruning" /\ boot'.from = boot.from /\ boot'.build = boot.build
  BY <1>3 DEF UpgradeInv, UpgradeTypeOK
<1> QED BY <1>2, <1>3, <1>4, <1>5, <1>6, <1>7 DEF UpgradeInv

\* A pruned backup has newer ones, so it is not the last upgrade's.
LEMMA PruneStep ==
  ASSUME UpgradeInv, Prune
  PROVE  UpgradeInv'
<1>1. boot.at = "pruning" /\ UNCHANGED <<file, copy, clock, origin>>
  BY DEF Prune
<1>2. ASSUME NEW old \in backups, Cardinality(Newer(old)) = BackupsKept,
             backups' = backups \ {old}, UNCHANGED boot
      PROVE  UpgradeInv'
  <2>1. PICK b \in backups :
          /\ b.whole /\ b.version = origin.version /\ b.edits = origin.edits
          /\ \A x \in backups : x.stamp <= b.stamp
    BY <1>1 DEF UpgradeInv, NewestKeeps
  <2>2. Newer(b) = {}
    <3> SUFFICES ASSUME NEW x \in backups, x.stamp > b.stamp PROVE FALSE
      BY DEF Newer
    <3>1. x.stamp \in Nat /\ b.stamp \in Nat
      BY DEF UpgradeInv, UpgradeTypeOK, Backup
    <3> QED BY <2>1, <3>1
  <2>3. b # old
    BY <1>2, <2>2, FS_EmptySet, SchemaUpgradeAssumption
  <2>4. NewestKeeps(origin)'
    BY <1>1, <1>2, <2>1, <2>3 DEF NewestKeeps
  <2>5. UpgradeTypeOK'
    BY <1>1, <1>2 DEF UpgradeInv, UpgradeTypeOK
  <2> QED BY <1>1, <1>2, <2>4, <2>5 DEF UpgradeInv
<1>3. ASSUME Goes("migrating"), UNCHANGED backups
      PROVE  UpgradeInv'
  <2>1. /\ boot' = [boot EXCEPT !.at = "migrating"]
        /\ boot'.at = "migrating" /\ boot'.build = boot.build /\ boot'.from = boot.from
    BY <1>3 DEF Goes, UpgradeInv, UpgradeTypeOK
  <2>2. UpgradeTypeOK'
    BY <1>1, <1>3, <2>1 DEF UpgradeInv, UpgradeTypeOK
  <2> QED BY <1>1, <1>3, <2>1, <2>2 DEF UpgradeInv, NewestKeeps
<1> QED BY <1>2, <1>3 DEF Prune

\* The copy is taken and verified.
LEMMA CopyStep ==
  ASSUME UpgradeInv, TakeCopy \/ Verify
  PROVE  UpgradeInv'
<1>1. UNCHANGED <<file, backups, clock, origin>>
  BY DEF TakeCopy, Verify
<1>2. CASE TakeCopy
  <2>1. PICK whole \in BOOLEAN :
          copy' = [version |-> file.version, edits |-> file.edits, whole |-> whole]
    BY <1>2 DEF TakeCopy
  <2>2. /\ boot' = [boot EXCEPT !.at = "verifying"] /\ boot.at = "copying"
        /\ boot'.at = "verifying" /\ boot'.build = boot.build /\ boot'.from = boot.from
    BY <1>2 DEF TakeCopy, Goes, UpgradeInv, UpgradeTypeOK
  <2>3. UpgradeTypeOK' /\ copy'.edits = file.edits
    BY <1>1, <2>1, <2>2 DEF UpgradeInv, UpgradeTypeOK
  <2> QED BY <1>1, <2>2, <2>3 DEF UpgradeInv, NewestKeeps
<1>3. CASE Verify /\ copy.whole /\ copy.version = boot.from
  <2>1. /\ boot' = [boot EXCEPT !.at = "renaming"] /\ boot.at = "verifying" /\ copy' = copy
        /\ boot'.at = "renaming" /\ boot'.build = boot.build /\ boot'.from = boot.from
    BY <1>3 DEF Verify, Goes, UpgradeInv, UpgradeTypeOK
  <2>2. UpgradeTypeOK'
    BY <1>1, <2>1 DEF UpgradeInv, UpgradeTypeOK
  <2> QED BY <1>1, <1>3, <2>1, <2>2 DEF UpgradeInv, NewestKeeps
<1>4. CASE Verify /\ ~ (copy.whole /\ copy.version = boot.from)
  <2>1. boot' = Closed /\ copy' = NoCopy
    BY <1>4 DEF Verify, Gone
  <2>2. UpgradeTypeOK'
    BY <1>1, <2>1 DEF UpgradeInv, UpgradeTypeOK, Closed, NoCopy
  <2> QED BY <1>1, <2>1, <2>2 DEF UpgradeInv, NewestKeeps, Closed
<1> QED BY <1>2, <1>3, <1>4

\* A migration, the user's work, or the end of the process.
LEMMA OpenStep ==
  ASSUME UpgradeInv, Migrate \/ Edit \/ Quit
  PROVE  UpgradeInv'
<1>1. UNCHANGED <<backups, clock, origin>>
  BY DEF Migrate, Edit, Quit
<1>2. CASE Migrate /\ file.version < boot.build
  <2>1. /\ file' = [file EXCEPT !.version = @ + 1] /\ boot.at = "migrating"
        /\ UNCHANGED <<boot, copy>>
    BY <1>2 DEF Migrate
  <2>2. /\ file'.exists = file.exists /\ file'.edits = file.edits
        /\ file'.version = file.version + 1 /\ file'.version \in Nat
        /\ file'.version <= boot.build
    BY <1>2, <2>1 DEF UpgradeInv, UpgradeTypeOK
  <2>3. UpgradeTypeOK'
    BY <1>1, <2>1, <2>2 DEF UpgradeInv, UpgradeTypeOK
  <2> QED BY <1>1, <2>1, <2>2, <2>3 DEF UpgradeInv, NewestKeeps
<1>3. CASE Migrate /\ ~ file.version < boot.build
  <2>1. /\ boot' = [boot EXCEPT !.at = "open"] /\ UNCHANGED <<file, copy>>
        /\ boot'.at = "open" /\ boot'.build = boot.build /\ boot.at = "migrating"
    BY <1>3 DEF Migrate, Goes, UpgradeInv, UpgradeTypeOK
  <2>2. UpgradeTypeOK'
    BY <1>1, <2>1 DEF UpgradeInv, UpgradeTypeOK
  <2> QED BY <1>1, <2>1, <2>2 DEF UpgradeInv, NewestKeeps
<1>4. CASE Edit
  <2>1. /\ file' = [file EXCEPT !.edits = @ + 1] /\ boot.at = "open" /\ UNCHANGED <<boot, copy>>
        /\ file'.exists = file.exists /\ file'.version = file.version
    BY <1>4 DEF Edit, UpgradeInv, UpgradeTypeOK
  <2>2. UpgradeTypeOK'
    BY <1>1, <2>1 DEF UpgradeInv, UpgradeTypeOK
  <2> QED BY <1>1, <2>1, <2>2 DEF UpgradeInv, NewestKeeps
<1>5. CASE Quit
  <2>1. boot' = Closed /\ copy' = NoCopy /\ file' = file
    BY <1>5 DEF Quit, Gone
  <2>2. UpgradeTypeOK'
    BY <1>1, <2>1 DEF UpgradeInv, UpgradeTypeOK, Closed, NoCopy
  <2> QED BY <1>1, <2>1, <2>2 DEF UpgradeInv, NewestKeeps, Closed
<1> QED BY <1>2, <1>3, <1>4, <1>5

\* Every step keeps the upgrade's invariant.
LEMMA UpgradeStepInv == UpgradeInv /\ [UpgradeNext]_upgradeVars => UpgradeInv'
<1> SUFFICES ASSUME UpgradeInv, [UpgradeNext]_upgradeVars PROVE UpgradeInv'
  OBVIOUS
<1>1. CASE UNCHANGED upgradeVars
  BY <1>1 DEF upgradeVars, UpgradeInv, UpgradeTypeOK, NewestKeeps
<1>2. CASE UpgradeNext
  BY <1>2, LaunchStep, CopyStep, RenameStep, PruneStep, OpenStep DEF UpgradeNext
<1> QED BY <1>1, <1>2

\* The upgrade's invariant holds in every reachable state.
LEMMA UpgradeInvariance == UpgradeSpec => []UpgradeInv
BY UpgradeInitInv, UpgradeStepInv, PTL DEF UpgradeSpec

\* A migration never touches a database that has no whole backup of what the start
\* found, that backup outlives crashes and pruning until the next upgrade's, and a
\* database newer than the build is never opened.
THEOREM UpgradeIsUndoable == UpgradeSpec => []UpgradeCanBeUndone
<1>1. UpgradeInv => UpgradeCanBeUndone
  BY DEF UpgradeInv, UpgradeCanBeUndone, NewestKeeps, Kept
<1> QED BY <1>1, UpgradeInvariance, PTL

\* The database, its backups and the start under way keep their shapes.
THEOREM UpgradeIsTyped == UpgradeSpec => []UpgradeTypeOK
BY UpgradeInvariance, PTL DEF UpgradeInv
=============================================================================
