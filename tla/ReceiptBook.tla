---------------------------- MODULE ReceiptBook ----------------------------
(***************************************************************************)
(* What the novel commands promise their callers, whatever is repeated,    *)
(* lost or cut short: a command takes effect at most once under its        *)
(* idempotency key, in one step; whoever repeats it hears that one answer  *)
(* or an error; and every text saved to a chapter becomes its next         *)
(* revision and the one the chapter shows.                                 *)
(***************************************************************************)
EXTENDS Naturals, Sequences

CONSTANTS Calls, Keys, Requests, none

VARIABLES
  asked,     \* what each call asks for, none before it is made
  replies,   \* what its caller heard: none, Failed, or the answer
  works,     \* the works: their identifiers and status
  chapters,  \* the chapters: their identifiers, works and places
  texts,     \* the texts saved to each chapter, oldest first
  shown,     \* the revision number each chapter shows
  applied    \* the commands that took effect, with their answers

vars == <<asked, replies, works, chapters, texts, shown, applied>>

Init ==
  /\ asked = [c \in Calls |-> none]
  /\ replies = [c \in Calls |-> none]
  /\ \A w \in works : w.id \notin Calls
  /\ chapters = {}
  /\ texts = [c \in Calls |-> <<>>]
  /\ shown = [c \in Calls |-> 0]
  /\ applied = {}

Failed == [id |-> none, chapter |-> none, version |-> 0]

Waiting(c) == asked[c] # none /\ replies[c] = none

Ask(c) ==
  /\ asked[c] = none
  /\ \E key \in Keys, request \in Requests :
       asked' = [asked EXCEPT ![c] = [key |-> key, request |-> request]]
  /\ UNCHANGED <<replies, works, chapters, texts, shown, applied>>

Under(c, r) == r.command = asked[c].request.command /\ r.key = asked[c].key

Record(c, answer) ==
  applied' = applied \cup
    {[command |-> asked[c].request.command, key |-> asked[c].key,
      request |-> asked[c].request, answer |-> answer]}

\* A new work.
ApplyWork(c) ==
  /\ asked[c].request.command = "work"
  /\ works' = works \cup {[id |-> c, status |-> "active"]}
  /\ Record(c, [id |-> c, chapter |-> none, version |-> 0])
  /\ UNCHANGED <<chapters, texts, shown>>

\* A text saved to a chapter of the work, or to a new chapter at a free place.
ApplyText(c) ==
  LET request == asked[c].request IN
  /\ request.command = "text"
  /\ [id |-> request.work, status |-> "active"] \in works
  /\ \E chapter \in Calls :
       /\ \/ /\ \E row \in chapters : row.id = chapter /\ row.work = request.work
             /\ request.chapter = chapter
             /\ UNCHANGED chapters
          \/ /\ request.chapter = none /\ chapter = c
             /\ \A row \in chapters : <<row.work, row.place>> # <<request.work, request.place>>
             /\ chapters' = chapters \cup
                  {[id |-> c, work |-> request.work, place |-> request.place]}
       /\ texts' = [texts EXCEPT ![chapter] = Append(@, request.text)]
       /\ shown' = [shown EXCEPT ![chapter] = Len(texts[chapter]) + 1]
       /\ Record(c, [id |-> c, chapter |-> chapter, version |-> Len(texts[chapter]) + 1])
  /\ UNCHANGED works

\* The command takes effect: once under its key, and in one step.
Apply(c) ==
  /\ Waiting(c)
  /\ \A r \in applied : ~ Under(c, r)
  /\ ApplyWork(c) \/ ApplyText(c)
  /\ UNCHANGED <<asked, replies>>

\* The caller hears what the command answered when it took effect, for this
\* call or for an earlier one with the same request.
Reply(c) ==
  /\ Waiting(c)
  /\ \E r \in applied :
       /\ Under(c, r) /\ r.request = asked[c].request
       /\ replies' = [replies EXCEPT ![c] = r.answer]
  /\ UNCHANGED <<asked, works, chapters, texts, shown, applied>>

\* Callers hear an error, or nothing any more: several when the process dies.
GiveUp ==
  /\ \E some \in SUBSET {c \in Calls : Waiting(c)} :
       replies' = [c \in Calls |-> IF c \in some THEN Failed ELSE replies[c]]
  /\ UNCHANGED <<asked, works, chapters, texts, shown, applied>>

Next == GiveUp \/ \E c \in Calls : Ask(c) \/ Apply(c) \/ Reply(c)

Spec == Init /\ [][Next]_vars
=============================================================================
