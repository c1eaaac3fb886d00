----------------------------- MODULE Download -----------------------------
(***************************************************************************)
(* Download (internal/platform/download.go): a GET that is retried and     *)
(* resumed from the bytes already received, while the server may replace   *)
(* what it serves, drop the connection, answer the whole body, another     *)
(* range, or an error.                                                     *)
(*                                                                         *)
(* Bytes are counted in units.  The i-th unit of a version v of the        *)
(* content is <<v, i>>, so that a body joined from two versions, or one    *)
(* with a gap, shows.  The server is external: it honours If-Range, names  *)
(* two versions by two validators, and does not replace what it names by   *)
(* none (the code: "result URLs name immutable files").                    *)
(***************************************************************************)
EXTENDS Naturals, Sequences

CONSTANTS
  Versions,   \* what the address may serve in turn
  Size,       \* the length of each version
  Tag,        \* its strong ETag or Last-Modified, noTag if it has neither
  noTag,
  Attempts,   \* DownloadPolicy.Attempts
  Limit       \* DownloadPolicy.Limit

ASSUME DownloadAssumption ==
  /\ Size \in [Versions -> Nat \ {0}]
  /\ Attempts \in Nat \ {0} /\ Limit \in Nat
  /\ \A v, w \in Versions : Tag[v] = Tag[w] /\ Tag[v] # noTag => v = w

VARIABLES
  served,     \* external: the version the address serves now
  fetch       \* the download: its phase, attempt, body, validator, and the
              \* version and next unit of the response being read

downloadVars == <<served, fetch>>

NotStarted == [phase |-> "idle", attempt |-> 0, body |-> <<>>, validator |-> noTag,
               version |-> noTag, next |-> 0]

DownloadInit == served \in Versions /\ fetch = NotStarted

Whole(v) == [i \in 1..Size[v] |-> <<v, i>>]

\* The address serves another version.
Replace ==
  /\ Tag[served] # noTag
  /\ served' \in Versions \ {served}
  /\ UNCHANGED fetch

Open ==
  /\ fetch' = [NotStarted EXCEPT !.phase = "asking", !.attempt = 1]
  /\ UNCHANGED served

\* The attempt failed: the next one starts after a delay, or there is none.
Retry(body, validator) ==
  fetch' = [fetch EXCEPT !.body = body, !.validator = validator,
              !.phase = IF fetch.attempt < Attempts THEN "asking" ELSE "failed",
              !.attempt = IF fetch.attempt < Attempts THEN @ + 1 ELSE @]

Fatal == fetch' = [fetch EXCEPT !.phase = "failed"]

resuming == fetch.body # <<>>

\* A network error, a timeout, 408, 429 or 5xx: what was received is kept.
AttemptFails ==
  /\ fetch.phase = "asking"
  /\ Retry(fetch.body, fetch.validator)
  /\ UNCHANGED served

\* Any other status, or the context ended.
Refused ==
  /\ fetch.phase \in {"asking", "reading"}
  /\ Fatal
  /\ UNCHANGED served

\* Content-Length, which the server may leave out, is checked before reading.
Read(body, validator, v) ==
  \/ /\ Size[v] <= Limit
     /\ fetch' = [fetch EXCEPT !.phase = "reading", !.body = body, !.validator = validator,
                    !.version = v, !.next = Len(body) + 1]
  \/ /\ Size[v] > Limit
     /\ \/ Fatal
        \/ fetch' = [fetch EXCEPT !.phase = "reading", !.body = body, !.validator = validator,
                       !.version = v, !.next = Len(body) + 1]

RestWhatever ==   \* mutant
  /\ resuming
  /\ Len(fetch.body) < Size[served]

\* The server gives the rest: the units asked for exist, and If-Range, when it
\* is sent, names what is served.
GivesTheRest ==
  /\ resuming
  /\ Len(fetch.body) < Size[served]
  /\ fetch.validator = noTag \/ fetch.validator = Tag[served]

\* 206 from exactly where the body stops.
Resume ==
  /\ fetch.phase = "asking"
  /\ GivesTheRest
  /\ Read(fetch.body, fetch.validator, served)
  /\ UNCHANGED served

\* 206 from somewhere else, or 416: start afresh.
StartAfresh ==
  /\ fetch.phase = "asking"
  /\ resuming
  /\ Retry(<<>>, noTag)
  /\ UNCHANGED served

\* Any other 2xx is a full body: a first attempt, or the Range was ignored.
FullBody ==
  /\ fetch.phase = "asking"
  /\ Read(<<>>, Tag[served], served)
  /\ UNCHANGED served

\* ReadLimited: a piece arrives.
Receive ==
  /\ fetch.phase = "reading"
  /\ fetch.next <= Size[fetch.version]
  /\ IF Len(fetch.body) + 1 > Limit
       THEN Fatal
       ELSE fetch' = [fetch EXCEPT !.body = Append(@, <<fetch.version, fetch.next>>),
                                   !.next = @ + 1]
  /\ UNCHANGED served

\* The connection drops or stalls in the middle of the body.
Break ==
  /\ fetch.phase = "reading"
  /\ Retry(fetch.body, fetch.validator)
  /\ UNCHANGED served

Finish ==
  /\ fetch.phase = "reading"
  /\ fetch.next > Size[fetch.version]
  /\ fetch' = [fetch EXCEPT !.phase = "done"]
  /\ UNCHANGED served

DownloadStep ==
  \/ AttemptFails \/ Refused \/ Resume \/ StartAfresh \/ FullBody
  \/ Receive \/ Break \/ Finish
=============================================================================
