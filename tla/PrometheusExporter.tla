------------------------- MODULE PrometheusExporter -------------------------
(***************************************************************************)
(* scripts/prometheus-exporter.py: one HTTPServer on 127.0.0.1:9100 that   *)
(* serves requests one at a time (serve_forever).  A GET /metrics runs     *)
(* `systemctl show` for each service in SERVICES order                     *)
(* (collect_all_metrics), formats the four metric families                *)
(* (format_metrics) and sends them; /health answers OK; any other path    *)
(* 404.  The systemd units change between and during scrapes: a unit     *)
(* accrues CPU time, its memory moves, it fails and systemd restarts it.  *)
(*                                                                         *)
(* Values are abstracted as follows.  CPU time is counted in              *)
(* microseconds of CPUUsageNSec, so int(cpu_ns) / 1e9 printed with :.6f   *)
(* is exact.  Memory is a small number of bytes, or "[not set]" for a     *)
(* unit that is not running.  The exposition text is the record of the    *)
(* values it prints for each service.                                      *)
(***************************************************************************)
EXTENDS Integers, Sequences, FiniteSets

CONSTANTS
  SERVICES,      \* the unit names, in the order of the SERVICES list
  Outcomes,      \* how a systemctl run may end: "ok", "error"
                 \* (TimeoutExpired or CalledProcessError), "oserror"
                 \* (no systemctl binary: FileNotFoundError)
  MaxRequests,   \* requests clients send in one behaviour
  MaxCpu,        \* bound on a unit's CPUUsageNSec, in microseconds
  MaxRestarts    \* bound on a unit's NRestarts

Services == {SERVICES[i] : i \in DOMAIN SERVICES}

Paths == {"/metrics", "/health", "/favicon.ico"}

\* the text systemctl prints for a property: a numeral, or a word
Num(n) == [num |-> n]
Word(w) == [word |-> w]

NotSet == Word("[not set]")

MemValues == {0, 1}

ASSUME ExporterAssumption ==
  /\ SERVICES \in Seq(STRING) /\ Len(SERVICES) > 0
  /\ \A i, j \in DOMAIN SERVICES : i # j => SERVICES[i] # SERVICES[j]
  /\ Outcomes \subseteq {"ok", "error", "oserror"} /\ "ok" \in Outcomes
  /\ MaxRequests \in Nat /\ MaxCpu \in Nat /\ MaxRestarts \in Nat

VARIABLES
  unit,       \* what systemd holds for each unit
  pending,    \* connections accepted by the listen socket, not yet served
  arrived,    \* requests sent so far
  srv,        \* the request the server thread is handling, and its progress
  responses   \* what the server has sent, in order

vars == <<unit, pending, arrived, srv, responses>>

Units == [active : BOOLEAN, cpu : 0..MaxCpu, mem : MemValues,
          restarts : 0..MaxRestarts]

Requests == [id : 1..MaxRequests, path : Paths]

\* dict.get(k, default)
DGet(m, k, dflt) == IF k \in DOMAIN m THEN m[k] ELSE dflt

\* int(v) in a try whose except ValueError yields 0
ParseInt(v) == IF "num" \in DOMAIN v THEN v.num ELSE 0

NoRequest == [id |-> 0, path |-> "none"]

Idle == [st |-> "idle", req |-> NoRequest, data |-> <<>>, seen |-> <<>>]

Init ==
  /\ unit \in [Services -> {u \in Units : u.cpu = 0 /\ u.restarts = 0 /\ u.active}]
  /\ pending = <<>>
  /\ arrived = 0
  /\ srv = Idle
  /\ responses = <<>>

-----------------------------------------------------------------------------
(* The environment: clients and systemd.                                   *)

\* a client connects and sends GET path
Arrive(p) ==
  /\ arrived < MaxRequests
  /\ arrived' = arrived + 1
  /\ pending' = Append(pending, [id |-> arrived + 1, path |-> p])
  /\ UNCHANGED <<unit, srv, responses>>

\* a running unit uses CPU and memory
UnitWork(s) ==
  /\ unit[s].active
  /\ unit[s].cpu < MaxCpu
  /\ \E m \in MemValues :
        unit' = [unit EXCEPT ![s].cpu = @ + 1, ![s].mem = m]
  /\ UNCHANGED <<pending, arrived, srv, responses>>

\* the unit's process dies
UnitFail(s) ==
  /\ unit[s].active
  /\ unit' = [unit EXCEPT ![s].active = FALSE]
  /\ UNCHANGED <<pending, arrived, srv, responses>>

\* Restart= brings it back: NRestarts counts the restart, and the new
\* cgroup starts its CPU accounting from zero
UnitRestart(s) ==
  /\ ~unit[s].active
  /\ unit[s].restarts < MaxRestarts
  /\ unit' = [unit EXCEPT ![s] = [active |-> TRUE, cpu |-> 0, mem |-> 0,
                                  restarts |-> @.restarts + 1]]
  /\ UNCHANGED <<pending, arrived, srv, responses>>

-----------------------------------------------------------------------------
(* The server thread.                                                      *)

\* what `systemctl show s --property=...` prints for unit u, as the dict
\* get_service_metrics builds from its KEY=VALUE lines (SubState and
\* LoadState are printed too and never read)
ShowOutput(u) ==
  [ActiveState |-> Word(IF u.active THEN "active" ELSE "failed"),
   CPUUsageNSec |-> Num(u.cpu),
   MemoryCurrent |-> IF u.active THEN Num(u.mem) ELSE NotSet,
   NRestarts |-> Num(u.restarts)]

EmptyMetrics == [p \in {} |-> 0]

\* mutant: httpd.handle_request() in place of serve_forever(): one
\* request is served and run_server returns
HandleRequestOnce ==
  /\ srv.st = "idle"
  /\ pending # <<>>
  /\ responses = <<>>
  /\ LET r == Head(pending) IN
     IF r.path = "/metrics"
     THEN /\ srv' = [st |-> "collecting", req |-> r, data |-> <<>>, seen |-> <<>>]
          /\ UNCHANGED responses
     ELSE /\ responses' = Append(responses,
                           [id |-> r.id, status |-> IF r.path = "/health" THEN 200 ELSE 404,
                            body |-> <<>>, seen |-> <<>>, failed |-> {}])
          /\ UNCHANGED srv
  /\ pending' = Tail(pending)
  /\ UNCHANGED <<unit, arrived>>

\* mutant: do_GET answering every path other than /metrics with 200
HandleRequestAll200 ==
  /\ srv.st = "idle"
  /\ pending # <<>>
  /\ LET r == Head(pending) IN
     IF r.path = "/metrics"
     THEN /\ srv' = [st |-> "collecting", req |-> r, data |-> <<>>, seen |-> <<>>]
          /\ UNCHANGED responses
     ELSE /\ responses' = Append(responses,
                           [id |-> r.id, status |-> 200,
                            body |-> <<>>, seen |-> <<>>, failed |-> {}])
          /\ UNCHANGED srv
  /\ pending' = Tail(pending)
  /\ UNCHANGED <<unit, arrived>>

\* serve_forever takes the next connection and BaseHTTPRequestHandler
\* dispatches to do_GET: /health and unknown paths are answered at once,
\* /metrics starts collect_all_metrics
HandleRequest ==
  /\ srv.st = "idle"
  /\ pending # <<>>
  /\ LET r == Head(pending) IN
     IF r.path = "/metrics"
     THEN /\ srv' = [st |-> "collecting", req |-> r, data |-> <<>>, seen |-> <<>>]
          /\ UNCHANGED responses
     ELSE /\ responses' = Append(responses,
                           [id |-> r.id, status |-> IF r.path = "/health" THEN 200 ELSE 404,
                            body |-> <<>>, seen |-> <<>>, failed |-> {}])
          /\ UNCHANGED srv
  /\ pending' = Tail(pending)
  /\ UNCHANGED <<unit, arrived>>

\* one iteration of collect_all_metrics: get_service_metrics runs
\* systemctl for the next service (timeout=5, check=True).  Its output is
\* the unit's state at that moment; a SubprocessError gives {}; an
\* OSError escapes do_GET, and socketserver closes the connection without
\* a response and goes on serving.  seen records the unit's true restart
\* count at the call, for the properties only.
GetServiceMetrics ==
  /\ srv.st = "collecting"
  /\ Len(srv.data) < Len(SERVICES)
  /\ LET s == SERVICES[Len(srv.data) + 1] IN
     \E o \in Outcomes :
       CASE o = "ok" ->
              /\ srv' = [srv EXCEPT !.data = Append(@, ShowOutput(unit[s])),
                                    !.seen = Append(@, unit[s].restarts)]
              /\ UNCHANGED responses
         [] o = "error" ->
              /\ srv' = [srv EXCEPT !.data = Append(@, EmptyMetrics),
                                    !.seen = Append(@, unit[s].restarts)]
              /\ UNCHANGED responses
         [] o = "oserror" ->
              /\ responses' = Append(responses, [id |-> srv.req.id, status |-> 0,
                                                 body |-> <<>>, seen |-> <<>>,
                                                 failed |-> {}])
              /\ srv' = Idle
  /\ UNCHANGED <<unit, pending, arrived>>

\* mutant: the CPU block copied from the memory block, reading MemoryCurrent
FormatMetricsCpuFromMemory(data) ==
  [i \in DOMAIN data |->
     [state |-> IF DGet(data[i], "ActiveState", Word("unknown")) = Word("active")
                THEN 1 ELSE 0,
      cpu |-> ParseInt(DGet(data[i], "MemoryCurrent", Num(0))),
      mem |-> ParseInt(DGet(data[i], "MemoryCurrent", Num(0))),
      restarts |-> ParseInt(DGet(data[i], "NRestarts", Num(0)))]]

\* mutant: CPUUsageNSec divided by 1_000_000 in place of 1_000_000_000
FormatMetricsMillis(data) ==
  [i \in DOMAIN data |->
     [state |-> IF DGet(data[i], "ActiveState", Word("unknown")) = Word("active")
                THEN 1 ELSE 0,
      cpu |-> 1000 * ParseInt(DGet(data[i], "CPUUsageNSec", Num(0))),
      mem |-> ParseInt(DGet(data[i], "MemoryCurrent", Num(0))),
      restarts |-> ParseInt(DGet(data[i], "NRestarts", Num(0)))]]

\* format_metrics: per service, mxrc_service_state is 1 for ActiveState
\* active, and the CPU seconds, memory bytes and restart count are int()
\* of the printed values, 0 for a missing key (default "0") or a value
\* int() rejects ("[not set]")
FormatMetrics(data) ==
  [i \in DOMAIN data |->
     [state |-> IF DGet(data[i], "ActiveState", Word("unknown")) = Word("active")
                THEN 1 ELSE 0,
      cpu |-> ParseInt(DGet(data[i], "CPUUsageNSec", Num(0))),
      mem |-> ParseInt(DGet(data[i], "MemoryCurrent", Num(0))),
      restarts |-> ParseInt(DGet(data[i], "NRestarts", Num(0)))]]

\* do_GET sends 200 and the exposition text once every service is read
SendMetrics ==
  /\ srv.st = "collecting"
  /\ Len(srv.data) = Len(SERVICES)
  /\ responses' = Append(responses, [id |-> srv.req.id, status |-> 200,
                                     body |-> FormatMetrics(srv.data),
                                     seen |-> srv.seen,
                                     failed |-> {k \in DOMAIN srv.data :
                                                   srv.data[k] = EmptyMetrics}])
  /\ srv' = Idle
  /\ UNCHANGED <<unit, pending, arrived>>

\* every client has been served; serve_forever waits on the socket
Quiescent ==
  /\ arrived = MaxRequests /\ pending = <<>> /\ srv = Idle
  /\ UNCHANGED vars

ServerStep == HandleRequest \/ GetServiceMetrics \/ SendMetrics

Environment ==
  \/ \E p \in Paths : Arrive(p)
  \/ \E s \in Services : UnitWork(s) \/ UnitFail(s) \/ UnitRestart(s)

Next == Environment \/ ServerStep \/ Quiescent

\* serve_forever never stops taking connections, and every systemctl run
\* ends within its 5 s timeout, so the server thread cannot stall with
\* work to do: weak fairness of its steps.  Clients and systemd are not
\* obliged to do anything.
Spec == Init /\ [][Next]_vars /\ WF_vars(ServerStep)

-----------------------------------------------------------------------------
(* Type invariant.                                                         *)

Samples == [state : {0, 1}, cpu : 0..MaxCpu, mem : MemValues,
            restarts : 0..MaxRestarts]

Responses == [id : 1..MaxRequests, status : {0, 200, 404},
              body : Seq(Samples), seen : Seq(0..MaxRestarts),
              failed : SUBSET DOMAIN SERVICES]

TypeOK ==
  /\ unit \in [Services -> Units]
  /\ pending \in Seq(Requests)
  /\ arrived \in 0..MaxRequests
  /\ srv.st \in {"idle", "collecting"}
  /\ Len(srv.data) <= Len(SERVICES)
  /\ responses \in Seq(Responses)

-----------------------------------------------------------------------------
(* Properties.                                                             *)

\* the positions in responses of the /metrics answers
MetricsAnswers == {i \in DOMAIN responses : responses[i].body # <<>>}

\* mxrc_cpu_usage_seconds_total and mxrc_restart_count_total are declared
\* counters.  A counter a later scrape reports lower than an earlier one
\* is explained by the unit: it was restarted in between (a new cgroup
\* starts its CPU time at zero), or systemctl failed for it in the later
\* scrape, where get_service_metrics returns {} and format_metrics prints
\* 0.  Nothing else, in any interleaving of scrapes with units working,
\* failing and restarting, makes a counter go down.
CounterDropsExplained ==
  \A i, j \in MetricsAnswers : i < j =>
    \A k \in DOMAIN SERVICES :
      LET a == responses[i].body[k]
          b == responses[j].body[k]
      IN (b.cpu < a.cpu \/ b.restarts < a.restarts)
           => \/ k \in responses[j].failed
              \/ responses[j].seen[k] > responses[i].seen[k]

\* A request is answered at most once, and the answers go out in the
\* order the requests arrived: serve_forever takes connections from the
\* listen queue one at a time, and a request abandoned by an OSError in
\* do_GET is never taken up again.
AnswersOnceInOrder ==
  \A i, j \in DOMAIN responses : i < j => responses[i].id < responses[j].id

\* Every request a client sends is eventually answered (200 or 404) or
\* its connection closed: the single server thread handles connections
\* one at a time, each systemctl run ends within its timeout, and an
\* exception in do_GET ends only that request.
EveryRequestAnswered ==
  \A n \in 1..MaxRequests :
    (arrived >= n) ~> (\E i \in DOMAIN responses : responses[i].id = n)

-----------------------------------------------------------------------------
(* The server as a FIFO queue of connections (ExporterContract).           *)

\* the request the server thread holds while collect_all_metrics runs
InHand == IF srv.st = "collecting" THEN <<srv.req>> ELSE <<>>

\* what was sent, with the body and the bookkeeping of the properties
\* left out
Sent == [i \in DOMAIN responses |-> [id |-> responses[i].id,
                                     status |-> responses[i].status]]

Contract == INSTANCE ExporterContract
              WITH queue <- InHand \o pending, answered <- Sent

\* The exporter is a FIFO server: every behaviour, with systemd's changes
\* and the steps of a scrape as stutters, is one of ExporterContract.
\* serve_forever takes the request at the front of the listen queue and
\* answers it once, with the status do_GET gives its path (/metrics 200,
\* or the connection closed by an OSError; /health 200; otherwise 404),
\* before it takes the next one.
ExporterContractSpec == Contract!Spec

=============================================================================
