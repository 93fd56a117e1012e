--------------------------- MODULE ExporterContract ---------------------------
(***************************************************************************)
(* What the exporter's HTTP server promises its clients, with the scrape  *)
(* itself abstracted away: connections wait in one queue in the order     *)
(* they arrive; the server takes them one at a time from the front and    *)
(* answers each exactly once, with the status its path calls for (a       *)
(* /metrics scrape 200, or closed without a status line, 0, when the       *)
(* handler fails; /health 200; any other path 404).  How long an answer   *)
(* takes and what the body holds are not part of this contract.           *)
(***************************************************************************)
EXTENDS Naturals, Sequences

CONSTANTS
  MaxRequests,  \* connections in one behaviour
  Paths         \* the paths clients request

VARIABLES
  queue,     \* requests taken by the server's socket and not yet answered
  answered,  \* what was sent, in order: [id, status]
  arrived    \* how many requests have arrived

cvars == <<queue, answered, arrived>>

\* the statuses a request for path p may be answered with
StatusFor(p) ==
  IF p = "/metrics" THEN {200, 0} ELSE IF p = "/health" THEN {200} ELSE {404}

Init ==
  /\ queue = <<>>
  /\ answered = <<>>
  /\ arrived = 0

Arrive(p) ==
  /\ arrived < MaxRequests
  /\ arrived' = arrived + 1
  /\ queue' = Append(queue, [id |-> arrived + 1, path |-> p])
  /\ UNCHANGED answered

\* the request at the front is answered and leaves the queue
Serve ==
  /\ queue # <<>>
  /\ \E st \in StatusFor(Head(queue).path) :
        answered' = Append(answered, [id |-> Head(queue).id, status |-> st])
  /\ queue' = Tail(queue)
  /\ UNCHANGED arrived

Next == (\E p \in Paths : Arrive(p)) \/ Serve

Spec == Init /\ [][Next]_cvars

=============================================================================
