---------------------- MODULE PrometheusExporterProofs ----------------------
(***************************************************************************)
(* Proofs about PrometheusExporter for every list of services and every   *)
(* bound: the exporter's answers are well typed, and a counter it reports *)
(* goes down between two scrapes only when the unit was restarted in      *)
(* between or systemctl failed for it in the later scrape.                 *)
(*                                                                         *)
(* CounterDropsExplained speaks of two answers; it is not inductive,      *)
(* since the later answer is assembled one systemctl call at a time while *)
(* the units move.  EInv ties every sample the server holds, sent or      *)
(* being collected, to the unit's present state: a sample is Behind the    *)
(* unit (its restart count is at most the unit's, and within the same     *)
(* restart count its CPU time is at most the unit's).  Units only move     *)
(* forward in that order (UnitWork adds CPU time, UnitRestart adds a      *)
(* restart), so Behind is kept; and a sample taken later is at least each *)
(* sample already sent, which is the property.                             *)
(***************************************************************************)
EXTENDS PrometheusExporter, SequenceTheorems, TLAPS

N == Len(SERVICES)

\* the unit systemd holds for the k-th service
Cur(k) == unit[SERVICES[k]]

\* what format_metrics makes of one entry of collect_all_metrics' result
CpuOf(d) == ParseInt(DGet(d, "CPUUsageNSec", Num(0)))
RestartsOf(d) == ParseInt(DGet(d, "NRestarts", Num(0)))

\* the entries get_service_metrics can return
Raw == {EmptyMetrics} \cup {ShowOutput(u) : u \in Units}

\* a sample with restart count r and CPU time c is not ahead of unit k
Behind(c, r, k) ==
  /\ r <= Cur(k).restarts
  /\ r = Cur(k).restarts => c <= Cur(k).cpu

\* a /metrics answer: each sample failed and printed as zeros, or it is
\* the unit's state at the call, which the unit has not gone back from
AnswerOK(r) ==
  /\ DOMAIN r.body = 1..N
  /\ DOMAIN r.seen = 1..N
  /\ \A k \in 1..N :
       /\ r.seen[k] <= Cur(k).restarts
       /\ k \in r.failed => r.body[k].cpu = 0 /\ r.body[k].restarts = 0
       /\ k \notin r.failed =>
            r.body[k].restarts = r.seen[k] /\ Behind(r.body[k].cpu, r.seen[k], k)

\* the samples collect_all_metrics has gathered so far, each at least
\* every sample of the same service already sent
CollectingOK ==
  srv.st = "collecting" =>
    /\ srv.req \in Requests
    /\ srv.data \in Seq(Raw)
    /\ srv.seen \in Seq(0..MaxRestarts)
    /\ Len(srv.data) = Len(srv.seen)
    /\ Len(srv.data) <= N
    /\ \A k \in 1..Len(srv.data) :
         /\ srv.seen[k] <= Cur(k).restarts
         /\ srv.data[k] # EmptyMetrics =>
              /\ RestartsOf(srv.data[k]) = srv.seen[k]
              /\ Behind(CpuOf(srv.data[k]), srv.seen[k], k)
         /\ \A i \in MetricsAnswers :
              /\ responses[i].seen[k] <= srv.seen[k]
              /\ /\ responses[i].seen[k] = srv.seen[k]
                 /\ k \notin responses[i].failed
                 /\ srv.data[k] # EmptyMetrics
                 => responses[i].body[k].cpu <= CpuOf(srv.data[k])

EInv ==
  /\ TypeOK
  /\ srv.st = "idle" => srv = Idle
  /\ \A i \in MetricsAnswers : AnswerOK(responses[i])
  /\ CollectingOK
  /\ CounterDropsExplained

-----------------------------------------------------------------------------
(* What format_metrics makes of an entry.                                  *)

LEMMA RawEntry ==
  ASSUME NEW x \in Raw
  PROVE  /\ x = EmptyMetrics => CpuOf(x) = 0 /\ RestartsOf(x) = 0
         /\ CpuOf(x) \in 0..MaxCpu
         /\ RestartsOf(x) \in 0..MaxRestarts
         /\ FormatMetrics(<<x>>)[1] \in Samples
<1>1. CASE x = EmptyMetrics
  <2>1. CpuOf(x) = 0 /\ RestartsOf(x) = 0
    BY <1>1 DEF CpuOf, RestartsOf, EmptyMetrics, ParseInt, DGet, Num
  <2>2. FormatMetrics(<<x>>)[1] = [state |-> 0, cpu |-> 0, mem |-> 0, restarts |-> 0]
    BY <1>1 DEF EmptyMetrics, ParseInt, DGet, Num, Word, FormatMetrics
  <2>3. QED
    BY <2>1, <2>2, ExporterAssumption DEF Samples, MemValues
<1>2. CASE x # EmptyMetrics
  <2>1. PICK u \in Units : x = ShowOutput(u)
    BY <1>2 DEF Raw
  <2>2. CpuOf(x) = u.cpu /\ RestartsOf(x) = u.restarts
    BY <2>1 DEF CpuOf, RestartsOf, ShowOutput, ParseInt, DGet, Num
  <2>3. FormatMetrics(<<x>>)[1] =
          [state |-> IF u.active THEN 1 ELSE 0, cpu |-> u.cpu,
           mem |-> IF u.active THEN u.mem ELSE 0, restarts |-> u.restarts]
    <3>1. CASE u.active
      <4>1. x = [ActiveState |-> Word("active"), CPUUsageNSec |-> Num(u.cpu),
                 MemoryCurrent |-> Num(u.mem), NRestarts |-> Num(u.restarts)]
        BY <2>1, <3>1 DEF ShowOutput
      <4>2. QED
        BY <3>1, <4>1 DEF ParseInt, DGet, Num, Word, FormatMetrics
    <3>2. CASE ~u.active
      <4>1. x = [ActiveState |-> Word("failed"), CPUUsageNSec |-> Num(u.cpu),
                 MemoryCurrent |-> NotSet, NRestarts |-> Num(u.restarts)]
        BY <2>1, <3>2 DEF ShowOutput
      <4>2. Word("failed") # Word("active")
        BY DEF Word
      <4>3. /\ DGet(x, "ActiveState", Word("unknown")) = Word("failed")
            /\ ParseInt(DGet(x, "CPUUsageNSec", Num(0))) = u.cpu
            /\ ParseInt(DGet(x, "MemoryCurrent", Num(0))) = 0
            /\ ParseInt(DGet(x, "NRestarts", Num(0))) = u.restarts
        BY <4>1 DEF ParseInt, DGet, Num, NotSet, Word
      <4>5. FormatMetrics(<<x>>)[1] =
              [state |-> 0, cpu |-> u.cpu, mem |-> 0, restarts |-> u.restarts]
        BY <4>2, <4>3 DEF FormatMetrics
      <4>4. QED
        BY <3>2, <4>5
    <3>3. u.active \in BOOLEAN
      BY DEF Units
    <3>4. QED
      BY <3>1, <3>2, <3>3
  <2>4. FormatMetrics(<<x>>)[1] \in Samples
    BY <2>3 DEF Samples, Units, MemValues
  <2>5. QED
    BY <1>2, <2>1, <2>2, <2>4 DEF Units
<1>3. QED
  BY <1>1, <1>2

\* a sample taken of unit u is not empty and prints u's counters
LEMMA ShowEntry ==
  ASSUME NEW u \in Units
  PROVE  /\ ShowOutput(u) \in Raw
         /\ ShowOutput(u) # EmptyMetrics
         /\ CpuOf(ShowOutput(u)) = u.cpu
         /\ RestartsOf(ShowOutput(u)) = u.restarts
BY DEF Raw, ShowOutput, EmptyMetrics, CpuOf, RestartsOf, ParseInt, DGet, Num, Word,
       NotSet

LEMMA FormatSeq ==
  ASSUME NEW d \in Seq(Raw)
  PROVE  /\ FormatMetrics(d) \in Seq(Samples)
         /\ Len(FormatMetrics(d)) = Len(d)
         /\ \A k \in 1..Len(d) :
              /\ FormatMetrics(d)[k].cpu = CpuOf(d[k])
              /\ FormatMetrics(d)[k].restarts = RestartsOf(d[k])
<1>1. \A k \in 1..Len(d) : FormatMetrics(d)[k] \in Samples
  <2> SUFFICES ASSUME NEW k \in 1..Len(d) PROVE FormatMetrics(d)[k] \in Samples
    OBVIOUS
  <2>1. d[k] \in Raw
    OBVIOUS
  <2>2. FormatMetrics(d)[k] = FormatMetrics(<<d[k]>>)[1]
    BY DEF FormatMetrics
  <2>3. QED
    BY <2>1, <2>2, RawEntry
<1>2. FormatMetrics(d) = [k \in 1..Len(d) |-> FormatMetrics(d)[k]]
  BY DEF FormatMetrics
<1>3. QED
  BY <1>1, <1>2 DEF FormatMetrics, CpuOf, RestartsOf

-----------------------------------------------------------------------------
(* The initial state, and the steps of clients and systemd.                *)

LEMMA InitEInv == Init => EInv
<1> SUFFICES ASSUME Init PROVE EInv
  OBVIOUS
<1>1. TypeOK
  <2>1. unit \in [Services -> Units]
    BY DEF Init
  <2>2. QED
    BY <2>1, ExporterAssumption DEF Init, TypeOK, Idle, NoRequest
<1>2. MetricsAnswers = {}
  BY DEF Init, MetricsAnswers
<1>3. QED
  BY <1>1, <1>2 DEF EInv, Init, Idle, CollectingOK, CounterDropsExplained

\* every unit has moved forward in (restarts, cpu) order
Forward ==
  \A s \in Services :
    \/ unit'[s].restarts > unit[s].restarts
    \/ unit'[s].restarts = unit[s].restarts /\ unit'[s].cpu >= unit[s].cpu

\* the services' indices name services
LEMMA ServiceIndex == \A k \in 1..N : SERVICES[k] \in Services
BY ExporterAssumption DEF N, Services

LEMMA BehindForward ==
  ASSUME NEW c \in Int, NEW r \in Int, NEW k \in 1..N,
         unit \in [Services -> Units], unit' \in [Services -> Units],
         Forward, Behind(c, r, k)
  PROVE  Behind(c, r, k)'
<1>1. SERVICES[k] \in Services
  BY ServiceIndex
<1>2. Cur(k) \in Units /\ Cur(k)' \in Units
  BY <1>1 DEF Cur
<1>3. \/ Cur(k)'.restarts > Cur(k).restarts
      \/ Cur(k)'.restarts = Cur(k).restarts /\ Cur(k)'.cpu >= Cur(k).cpu
  BY <1>1 DEF Forward, Cur
<1>4. QED
  BY <1>2, <1>3 DEF Behind, Units

LEMMA RestartsForward ==
  ASSUME NEW r \in Int, NEW k \in 1..N,
         unit \in [Services -> Units], unit' \in [Services -> Units],
         Forward, r <= Cur(k).restarts
  PROVE  r <= Cur(k)'.restarts
<1>1. SERVICES[k] \in Services
  BY ServiceIndex
<1>2. Cur(k) \in Units /\ Cur(k)' \in Units
  BY <1>1 DEF Cur
<1>3. Cur(k)'.restarts >= Cur(k).restarts
  BY <1>1, <1>2 DEF Forward, Cur, Units
<1>4. QED
  BY <1>2, <1>3 DEF Units

\* a step of systemd alone keeps EInv
LEMMA ForwardEInv ==
  ASSUME EInv, Forward, unit' \in [Services -> Units],
         UNCHANGED <<pending, arrived, srv, responses>>
  PROVE  EInv'
<1>1. TypeOK'
  BY DEF EInv, TypeOK
<1>2. MetricsAnswers' = MetricsAnswers
  BY DEF MetricsAnswers
<1>0. unit \in [Services -> Units]
  BY DEF EInv, TypeOK
<1>3. ASSUME NEW i \in MetricsAnswers PROVE AnswerOK(responses[i])'
  <2>1. AnswerOK(responses[i]) /\ responses[i] \in Responses
    BY DEF EInv, TypeOK, MetricsAnswers
  <2>2. ASSUME NEW k \in 1..N PROVE
          /\ responses[i].seen[k] <= Cur(k)'.restarts
          /\ k \notin responses[i].failed =>
               Behind(responses[i].body[k].cpu, responses[i].seen[k], k)'
    <3>0. /\ responses[i].seen \in Seq(0..MaxRestarts)
          /\ responses[i].body \in Seq(Samples)
          /\ k \in DOMAIN responses[i].seen /\ k \in DOMAIN responses[i].body
      BY <2>1 DEF AnswerOK, Responses
    <3>a. k \in 1..Len(responses[i].seen) /\ k \in 1..Len(responses[i].body)
      BY <3>0, LenProperties
    <3>b. responses[i].seen[k] \in 0..MaxRestarts /\ responses[i].body[k] \in Samples
      BY <3>0, <3>a, ElementOfSeq
    <3>1. responses[i].seen[k] \in Int /\ responses[i].body[k].cpu \in Int
      BY <3>b DEF Samples
    <3>2. responses[i].seen[k] <= Cur(k).restarts
      BY <2>1 DEF AnswerOK
    <3>3. responses[i].seen[k] <= Cur(k)'.restarts
      BY <1>0, <3>1, <3>2, RestartsForward
    <3>4. k \notin responses[i].failed =>
            Behind(responses[i].body[k].cpu, responses[i].seen[k], k)'
      BY <1>0, <2>1, <3>1, BehindForward DEF AnswerOK
    <3>5. QED
      BY <3>3, <3>4
  <2>3. QED
    BY <2>1, <2>2, <1>0 DEF AnswerOK
<1>4. CollectingOK'
  <2> SUFFICES ASSUME srv.st = "collecting" PROVE CollectingOK'
    BY DEF CollectingOK
  <2>1. ASSUME NEW k \in 1..Len(srv.data) PROVE
          /\ srv.seen[k] <= Cur(k)'.restarts
          /\ srv.data[k] # EmptyMetrics => Behind(CpuOf(srv.data[k]), srv.seen[k], k)'
    <3>0. /\ srv.data \in Seq(Raw) /\ srv.seen \in Seq(0..MaxRestarts)
          /\ Len(srv.data) = Len(srv.seen) /\ Len(srv.data) <= N
      BY DEF EInv, CollectingOK
    <3>a. k \in 1..Len(srv.seen) /\ k \in 1..N
      BY <3>0, LenProperties, ExporterAssumption DEF N
    <3>1. srv.data[k] \in Raw /\ srv.seen[k] \in 0..MaxRestarts /\ k \in 1..N
      BY <3>0, <3>a, ElementOfSeq
    <3>2. CpuOf(srv.data[k]) \in Int
      <4>1. CpuOf(srv.data[k]) \in 0..MaxCpu
        BY <3>1, RawEntry
      <4>2. QED
        BY <4>1, ExporterAssumption
    <3>3. srv.seen[k] <= Cur(k).restarts
      BY DEF EInv, CollectingOK
    <3>4. srv.seen[k] <= Cur(k)'.restarts
      BY <1>0, <3>1, <3>3, RestartsForward
    <3>5. srv.data[k] # EmptyMetrics => Behind(CpuOf(srv.data[k]), srv.seen[k], k)'
      BY <1>0, <3>1, <3>2, BehindForward DEF EInv, CollectingOK
    <3>6. QED
      BY <3>4, <3>5
  <2>2. QED
    BY <2>1, <1>2 DEF EInv, CollectingOK
<1>5. QED
  BY <1>1, <1>2, <1>3, <1>4 DEF EInv, CounterDropsExplained

LEMMA UnitStepEInv ==
  ASSUME EInv, NEW s \in Services, UnitWork(s) \/ UnitFail(s) \/ UnitRestart(s)
  PROVE  EInv'
<1>1. unit \in [Services -> Units]
  BY DEF EInv, TypeOK
<1>2. UNCHANGED <<pending, arrived, srv, responses>>
  BY DEF UnitWork, UnitFail, UnitRestart
<1>3. CASE UnitWork(s)
  <2>1. PICK m \in MemValues : unit' = [unit EXCEPT ![s].cpu = @ + 1, ![s].mem = m]
    BY <1>3 DEF UnitWork
  <2>2. unit[s].cpu < MaxCpu
    BY <1>3 DEF UnitWork
  <2>3. unit' \in [Services -> Units]
    <3>1. unit'[s] = [active |-> unit[s].active, cpu |-> unit[s].cpu + 1, mem |-> m,
                      restarts |-> unit[s].restarts]
      BY <1>1, <2>1 DEF Units
    <3>2. unit'[s] \in Units
      BY <1>1, <2>2, <3>1, ExporterAssumption DEF Units
    <3>3. QED
      BY <1>1, <2>1, <3>2
  <2>4. Forward
    BY <1>1, <2>1 DEF Forward, Units
  <2>5. QED
    BY <1>2, <2>3, <2>4, ForwardEInv
<1>4. CASE UnitFail(s)
  <2>1. unit' = [unit EXCEPT ![s].active = FALSE]
    BY <1>4 DEF UnitFail
  <2>2. unit' \in [Services -> Units]
    BY <1>1, <2>1 DEF Units
  <2>3. Forward
    BY <1>1, <2>1 DEF Forward, Units
  <2>4. QED
    BY <1>2, <2>2, <2>3, ForwardEInv
<1>5. CASE UnitRestart(s)
  <2>1. unit' = [unit EXCEPT ![s] = [active |-> TRUE, cpu |-> 0, mem |-> 0,
                                     restarts |-> unit[s].restarts + 1]]
    BY <1>5 DEF UnitRestart
  <2>2. unit[s].restarts < MaxRestarts
    BY <1>5 DEF UnitRestart
  <2>3. unit' \in [Services -> Units]
    BY <1>1, <2>1, <2>2, ExporterAssumption DEF Units, MemValues
  <2>4. Forward
    BY <1>1, <2>1 DEF Forward, Units
  <2>5. QED
    BY <1>2, <2>3, <2>4, ForwardEInv
<1>6. QED
  BY <1>3, <1>4, <1>5

LEMMA ArriveEInv ==
  ASSUME EInv, NEW p \in Paths, Arrive(p)
  PROVE  EInv'
<1>1. pending' \in Seq(Requests) /\ arrived' \in 0..MaxRequests
  <2>1. [id |-> arrived + 1, path |-> p] \in Requests
    BY ExporterAssumption DEF Arrive, EInv, TypeOK, Requests
  <2>2. QED
    BY <2>1, AppendProperties, ExporterAssumption DEF Arrive, EInv, TypeOK
<1>2. UNCHANGED <<unit, srv, responses>>
  BY DEF Arrive
<1>3. MetricsAnswers' = MetricsAnswers
  BY <1>2 DEF MetricsAnswers
<1>4. QED
  BY <1>1, <1>2, <1>3 DEF EInv, TypeOK, AnswerOK, Behind, Cur, CollectingOK,
                          CounterDropsExplained

-----------------------------------------------------------------------------
(* The server's steps.                                                     *)

\* an answer without a body (200 for /health, 404, or a closed
\* connection) leaves the /metrics answers as they were
LEMMA QuietAnswer ==
  ASSUME EInv, NEW r \in Responses, r.body = <<>>,
         responses' = Append(responses, r), UNCHANGED unit
  PROVE  /\ responses' \in Seq(Responses)
         /\ MetricsAnswers' = MetricsAnswers
         /\ \A i \in MetricsAnswers : responses'[i] = responses[i]
         /\ \A i \in MetricsAnswers : AnswerOK(responses[i])'
         /\ CounterDropsExplained'
<1>1. responses \in Seq(Responses)
  BY DEF EInv, TypeOK
<1>2. responses' \in Seq(Responses) /\ Len(responses') = Len(responses) + 1
  BY <1>1, AppendProperties
<1>3. \A i \in 1..Len(responses) : responses'[i] = responses[i]
  BY <1>1, AppendProperties
<1>4. MetricsAnswers' = MetricsAnswers
  BY <1>1, <1>2, <1>3, LenProperties DEF MetricsAnswers
<1>5. \A i \in MetricsAnswers : responses'[i] = responses[i]
  BY <1>1, <1>3, LenProperties DEF MetricsAnswers
<1>6. \A i \in MetricsAnswers : AnswerOK(responses[i])'
  <2> SUFFICES ASSUME NEW i \in MetricsAnswers PROVE AnswerOK(responses[i])'
    OBVIOUS
  <2>1. AnswerOK(responses[i])
    BY DEF EInv
  <2>2. QED
    BY <1>5, <2>1 DEF AnswerOK, Behind, Cur
<1>7. CounterDropsExplained'
  <2> SUFFICES ASSUME NEW i \in MetricsAnswers, NEW j \in MetricsAnswers, i < j,
                      NEW k \in DOMAIN SERVICES
               PROVE  LET a == responses'[i].body[k]
                          b == responses'[j].body[k]
                      IN (b.cpu < a.cpu \/ b.restarts < a.restarts)
                           => \/ k \in responses'[j].failed
                              \/ responses'[j].seen[k] > responses'[i].seen[k]
    BY <1>4 DEF CounterDropsExplained
  <2>1. responses'[i] = responses[i] /\ responses'[j] = responses[j]
    BY <1>5
  <2>2. QED
    BY <2>1 DEF EInv, CounterDropsExplained
<1>8. QED
  BY <1>2, <1>4, <1>5, <1>6, <1>7

LEMMA HandleEInv ==
  ASSUME EInv, HandleRequest
  PROVE  EInv'
<1>1. srv = Idle /\ pending # <<>> /\ pending \in Seq(Requests)
  BY DEF HandleRequest, EInv, TypeOK
<1>2. Head(pending) \in Requests /\ pending' = Tail(pending)
      /\ pending' \in Seq(Requests) /\ UNCHANGED <<unit, arrived>>
  BY <1>1, HeadTailProperties DEF HandleRequest
<1>3. CASE Head(pending).path = "/metrics"
  <2>1. srv' = [st |-> "collecting", req |-> Head(pending), data |-> <<>>, seen |-> <<>>]
        /\ UNCHANGED responses
    BY <1>3 DEF HandleRequest
  <2>2. MetricsAnswers' = MetricsAnswers
    BY <2>1 DEF MetricsAnswers
  <2>3. TypeOK'
    BY <1>2, <2>1, ExporterAssumption DEF EInv, TypeOK, N
  <2>4. CollectingOK'
    BY <1>2, <2>1, EmptySeq, ExporterAssumption DEF CollectingOK, N
  <2>5. QED
    BY <1>2, <2>1, <2>2, <2>3, <2>4 DEF EInv, AnswerOK, Behind, Cur,
                                        CounterDropsExplained
<1>4. CASE Head(pending).path # "/metrics"
  <2> DEFINE r == Head(pending)
             R == [id |-> r.id, status |-> IF r.path = "/health" THEN 200 ELSE 404,
                   body |-> <<>>, seen |-> <<>>, failed |-> {}]
  <2>1. responses' = Append(responses, R) /\ UNCHANGED srv
    BY <1>4 DEF HandleRequest
  <2>2. R \in Responses
    BY <1>2, EmptySeq DEF Requests, Responses
  <2>3. /\ responses' \in Seq(Responses)
        /\ MetricsAnswers' = MetricsAnswers
        /\ \A i \in MetricsAnswers : AnswerOK(responses[i])'
        /\ CounterDropsExplained'
    <3>1. R.body = <<>> /\ UNCHANGED unit
      BY <1>2
    <3>2. QED
      BY <2>1, <2>2, <3>1, QuietAnswer, ZenonT(60)
  <2>4. TypeOK'
    BY <1>1, <1>2, <2>1, <2>3, EmptySeq, ExporterAssumption DEF EInv, TypeOK, Idle, N
  <2>5. CollectingOK' /\ (srv'.st = "idle" => srv' = Idle)
    BY <1>1, <2>1 DEF Idle, CollectingOK
  <2>6. QED
    BY <2>3, <2>4, <2>5 DEF EInv
<1>5. QED
  BY <1>3, <1>4

\* get_service_metrics returned entry e for the next service, which is
\* {} or the unit's state at the call
LEMMA CollectStep ==
  ASSUME EInv, srv.st = "collecting", Len(srv.data) < N,
         NEW e \in Raw,
         e # EmptyMetrics =>
           /\ RestartsOf(e) = Cur(Len(srv.data) + 1).restarts
           /\ CpuOf(e) = Cur(Len(srv.data) + 1).cpu,
         srv' = [srv EXCEPT !.data = Append(@, e),
                            !.seen = Append(@, Cur(Len(srv.data) + 1).restarts)],
         UNCHANGED <<unit, pending, arrived, responses>>
  PROVE  EInv'
<1> DEFINE L == Len(srv.data)
           k0 == L + 1
<1>1. /\ srv.req \in Requests
      /\ srv.data \in Seq(Raw) /\ srv.seen \in Seq(0..MaxRestarts)
      /\ Len(srv.seen) = L /\ L \in Nat
  BY LenProperties DEF EInv, CollectingOK
<1>2. k0 \in 1..N /\ Cur(k0) \in Units
  <2>1. k0 \in 1..N
    BY <1>1, ExporterAssumption DEF N
  <2>2. SERVICES[k0] \in Services
    BY <2>1, ServiceIndex
  <2>3. QED
    BY <2>1, <2>2 DEF Cur, EInv, TypeOK
<1>3. /\ srv'.data \in Seq(Raw) /\ Len(srv'.data) = k0
      /\ srv'.seen \in Seq(0..MaxRestarts) /\ Len(srv'.seen) = k0
      /\ srv'.data[k0] = e /\ srv'.seen[k0] = Cur(k0).restarts
      /\ \A k \in 1..L : srv'.data[k] = srv.data[k] /\ srv'.seen[k] = srv.seen[k]
      /\ srv'.st = "collecting" /\ srv'.req = srv.req
  BY <1>1, <1>2, AppendProperties DEF Units
<1>4. MetricsAnswers' = MetricsAnswers
  BY DEF MetricsAnswers
<1>5. TypeOK'
  BY <1>2, <1>3 DEF EInv, TypeOK, N
<1>6. \A i \in MetricsAnswers : AnswerOK(responses[i])'
  BY DEF EInv, AnswerOK, Behind, Cur
<1>7. ASSUME NEW i \in MetricsAnswers
      PROVE  /\ responses[i].seen[k0] <= srv'.seen[k0]
             /\ /\ responses[i].seen[k0] = srv'.seen[k0]
                /\ k0 \notin responses[i].failed
                /\ srv'.data[k0] # EmptyMetrics
                => responses[i].body[k0].cpu <= CpuOf(srv'.data[k0])
  <2>1. AnswerOK(responses[i])
    BY DEF EInv
  <2>2. /\ responses[i].seen[k0] <= Cur(k0).restarts
        /\ k0 \notin responses[i].failed =>
             Behind(responses[i].body[k0].cpu, responses[i].seen[k0], k0)
    BY <1>2, <2>1 DEF AnswerOK
  <2>3. QED
    BY <1>3, <2>2 DEF Behind
<1>8. ASSUME NEW k \in 1..k0
      PROVE  /\ srv'.seen[k] <= Cur(k).restarts
             /\ srv'.data[k] # EmptyMetrics =>
                  /\ RestartsOf(srv'.data[k]) = srv'.seen[k]
                  /\ Behind(CpuOf(srv'.data[k]), srv'.seen[k], k)
             /\ \A i \in MetricsAnswers :
                  /\ responses[i].seen[k] <= srv'.seen[k]
                  /\ /\ responses[i].seen[k] = srv'.seen[k]
                     /\ k \notin responses[i].failed
                     /\ srv'.data[k] # EmptyMetrics
                     => responses[i].body[k].cpu <= CpuOf(srv'.data[k])
  <2>1. CASE k = k0
    <3>1. CpuOf(e) \in Int /\ Cur(k0).cpu \in Int
      <4>1. CpuOf(e) \in 0..MaxCpu
        BY RawEntry
      <4>2. QED
        BY <1>2, <4>1, ExporterAssumption DEF Units
    <3>2. QED
      BY <1>3, <1>7, <2>1, <3>1 DEF Behind
  <2>2. CASE k \in 1..L
    <3>1. /\ srv.seen[k] <= Cur(k).restarts
          /\ srv.data[k] # EmptyMetrics =>
               /\ RestartsOf(srv.data[k]) = srv.seen[k]
               /\ Behind(CpuOf(srv.data[k]), srv.seen[k], k)
          /\ \A i \in MetricsAnswers :
               /\ responses[i].seen[k] <= srv.seen[k]
               /\ /\ responses[i].seen[k] = srv.seen[k]
                  /\ k \notin responses[i].failed
                  /\ srv.data[k] # EmptyMetrics
                  => responses[i].body[k].cpu <= CpuOf(srv.data[k])
      BY <2>2 DEF EInv, CollectingOK
    <3>2. srv'.data[k] = srv.data[k] /\ srv'.seen[k] = srv.seen[k]
      BY <1>3, <2>2
    <3>3. QED
      BY <3>1, <3>2
  <2>3. QED
    BY <1>1, <2>1, <2>2
<1>9. CollectingOK'
  <2>1. ASSUME NEW k \in 1..Len(srv'.data)
        PROVE  (/\ srv.seen[k] <= Cur(k).restarts
                /\ srv.data[k] # EmptyMetrics =>
                     /\ RestartsOf(srv.data[k]) = srv.seen[k]
                     /\ Behind(CpuOf(srv.data[k]), srv.seen[k], k)
                /\ \A i \in MetricsAnswers :
                     /\ responses[i].seen[k] <= srv.seen[k]
                     /\ /\ responses[i].seen[k] = srv.seen[k]
                        /\ k \notin responses[i].failed
                        /\ srv.data[k] # EmptyMetrics
                        => responses[i].body[k].cpu <= CpuOf(srv.data[k]))'
    <3>1. k \in 1..k0
      BY <1>3
    <3>2. QED
      BY <1>4, <1>8, <3>1 DEF Behind, Cur
  <2>2. QED
    BY <1>1, <1>2, <1>3, <2>1 DEF CollectingOK
<1>10. QED
  BY <1>3, <1>4, <1>5, <1>6, <1>9 DEF EInv, CounterDropsExplained

LEMMA GetEInv ==
  ASSUME EInv, GetServiceMetrics
  PROVE  EInv'
<1> DEFINE L == Len(srv.data)
           s == SERVICES[L + 1]
<1>1. srv.st = "collecting" /\ L < N /\ UNCHANGED <<unit, pending, arrived>>
  BY DEF GetServiceMetrics, N
<1>2. s = SERVICES[L + 1] /\ unit[s] = Cur(L + 1) /\ Cur(L + 1) \in Units
  <2>1. L \in Nat
    BY <1>1, LenProperties DEF EInv, CollectingOK
  <2>2. L + 1 \in 1..N
    BY <1>1, <2>1, ExporterAssumption DEF N
  <2>3. QED
    BY <2>2, ServiceIndex DEF Cur, EInv, TypeOK
<1>3. PICK o \in Outcomes :
        CASE o = "ok" ->
               /\ srv' = [srv EXCEPT !.data = Append(@, ShowOutput(unit[s])),
                                     !.seen = Append(@, unit[s].restarts)]
               /\ UNCHANGED responses
          [] o = "error" ->
               /\ srv' = [srv EXCEPT !.data = Append(@, EmptyMetrics),
                                     !.seen = Append(@, unit[s].restarts)]
               /\ UNCHANGED responses
          [] o = "oserror" ->
               /\ responses' = Append(responses, [id |-> srv.req.id, status |-> 0,
                                                  body |-> <<>>, seen |-> <<>>,
                                                  failed |-> {}])
               /\ srv' = Idle
  BY DEF GetServiceMetrics
<1>4. o \in {"ok", "error", "oserror"}
  BY ExporterAssumption
<1>5. CASE o = "ok"
  <2>1. /\ srv' = [srv EXCEPT !.data = Append(@, ShowOutput(Cur(L + 1))),
                              !.seen = Append(@, Cur(L + 1).restarts)]
        /\ UNCHANGED responses
    BY <1>2, <1>3, <1>5
  <2>2. /\ ShowOutput(Cur(L + 1)) \in Raw
        /\ RestartsOf(ShowOutput(Cur(L + 1))) = Cur(L + 1).restarts
        /\ CpuOf(ShowOutput(Cur(L + 1))) = Cur(L + 1).cpu
    BY <1>2, ShowEntry
  <2>3. QED
    BY <1>1, <2>1, <2>2, CollectStep
<1>6. CASE o = "error"
  <2>1. /\ srv' = [srv EXCEPT !.data = Append(@, EmptyMetrics),
                              !.seen = Append(@, Cur(L + 1).restarts)]
        /\ UNCHANGED responses
    BY <1>2, <1>3, <1>6
  <2>2. EmptyMetrics \in Raw
    BY DEF Raw
  <2>3. QED
    BY <1>1, <2>1, <2>2, CollectStep
<1>7. CASE o = "oserror"
  <2> DEFINE R == [id |-> srv.req.id, status |-> 0, body |-> <<>>, seen |-> <<>>,
                   failed |-> {}]
  <2>1. responses' = Append(responses, R) /\ srv' = Idle
    BY <1>3, <1>7
  <2>2. R \in Responses
    BY <1>1, EmptySeq DEF EInv, CollectingOK, Requests, Responses
  <2>3. /\ responses' \in Seq(Responses)
        /\ MetricsAnswers' = MetricsAnswers
        /\ \A i \in MetricsAnswers : AnswerOK(responses[i])'
        /\ CounterDropsExplained'
    <3>1. R.body = <<>> /\ UNCHANGED unit
      BY <1>1
    <3>2. QED
      BY <2>1, <2>2, <3>1, QuietAnswer, ZenonT(60)
  <2>4. TypeOK'
    BY <1>1, <2>1, <2>3, EmptySeq, ExporterAssumption DEF EInv, TypeOK, Idle, N
  <2>5. CollectingOK' /\ (srv'.st = "idle" => srv' = Idle)
    BY <2>1 DEF Idle, CollectingOK
  <2>6. QED
    BY <2>3, <2>4, <2>5 DEF EInv
<1>8. QED
  BY <1>4, <1>5, <1>6, <1>7

\* the answer do_GET sends once every service is read
LEMMA SendEInv ==
  ASSUME EInv, SendMetrics
  PROVE  EInv'
<1> DEFINE R == [id |-> srv.req.id, status |-> 200,
                 body |-> FormatMetrics(srv.data),
                 seen |-> srv.seen,
                 failed |-> {k \in DOMAIN srv.data : srv.data[k] = EmptyMetrics}]
           L == Len(responses)
<1>1. /\ srv.st = "collecting" /\ Len(srv.data) = N
      /\ responses' = Append(responses, R) /\ srv' = Idle
      /\ UNCHANGED <<unit, pending, arrived>>
  BY DEF SendMetrics, N
<1>2. /\ srv.req \in Requests
      /\ srv.data \in Seq(Raw) /\ srv.seen \in Seq(0..MaxRestarts)
      /\ Len(srv.seen) = N
      /\ DOMAIN srv.data = 1..N /\ DOMAIN srv.seen = 1..N
      /\ N \in Nat \ {0}
  BY <1>1, LenProperties, ExporterAssumption DEF EInv, CollectingOK, N
<1>3. /\ R.body \in Seq(Samples) /\ DOMAIN R.body = 1..N
      /\ \A k \in 1..N : R.body[k].cpu = CpuOf(srv.data[k])
                         /\ R.body[k].restarts = RestartsOf(srv.data[k])
  BY <1>2, FormatSeq, LenProperties
<1>4. R \in Responses /\ R.body # <<>>
  <2>1. DOMAIN SERVICES = 1..N
    BY ExporterAssumption, LenProperties DEF N
  <2>2. R.body # <<>>
    BY <1>2, <1>3
  <2>3. QED
    BY <1>2, <1>3, <2>1, <2>2 DEF Requests, Responses
<1>5. /\ responses \in Seq(Responses) /\ L \in Nat
      /\ responses' \in Seq(Responses) /\ DOMAIN responses' = 1..L + 1
      /\ responses'[L + 1] = R
      /\ \A i \in 1..L : responses'[i] = responses[i]
  BY <1>1, <1>4, AppendProperties, LenProperties DEF EInv, TypeOK
<1>6. MetricsAnswers' = MetricsAnswers \cup {L + 1}
      /\ MetricsAnswers \subseteq 1..L
  BY <1>4, <1>5, LenProperties DEF MetricsAnswers
<1>7. AnswerOK(R)
  <2>1. ASSUME NEW k \in 1..N
        PROVE  /\ R.seen[k] <= Cur(k).restarts
               /\ k \in R.failed => R.body[k].cpu = 0 /\ R.body[k].restarts = 0
               /\ k \notin R.failed =>
                    R.body[k].restarts = R.seen[k] /\ Behind(R.body[k].cpu, R.seen[k], k)
    <3>1. srv.data[k] \in Raw
      BY <1>2, ElementOfSeq
    <3>2. /\ srv.seen[k] <= Cur(k).restarts
          /\ srv.data[k] # EmptyMetrics =>
               /\ RestartsOf(srv.data[k]) = srv.seen[k]
               /\ Behind(CpuOf(srv.data[k]), srv.seen[k], k)
      BY <1>1, <1>2 DEF EInv, CollectingOK
    <3>3. srv.data[k] = EmptyMetrics => CpuOf(srv.data[k]) = 0 /\ RestartsOf(srv.data[k]) = 0
      BY <3>1, RawEntry
    <3>4. k \in R.failed <=> srv.data[k] = EmptyMetrics
      BY <1>2
    <3>5. QED
      BY <1>3, <3>2, <3>3, <3>4
  <2>2. QED
    BY <1>2, <1>3, <2>1 DEF AnswerOK
<1>8. \A i \in MetricsAnswers' : AnswerOK(responses[i])'
  <2> SUFFICES ASSUME NEW i \in MetricsAnswers' PROVE AnswerOK(responses[i])'
    OBVIOUS
  <2>1. CASE i = L + 1
    <3>1. responses'[i] = R
      BY <1>5, <2>1
    <3>2. \A k \in 1..N : Cur(k)' = Cur(k)
      BY <1>1 DEF Cur
    <3>3. QED
      BY <1>7, <3>1, <3>2 DEF AnswerOK, Behind
  <2>2. CASE i \in MetricsAnswers
    <3>1. AnswerOK(responses[i]) /\ responses'[i] = responses[i]
      BY <1>5, <1>6, <2>2 DEF EInv
    <3>2. unit' = unit
      BY <1>1
    <3>3. QED
      BY <3>1, <3>2 DEF AnswerOK, Behind, Cur
  <2>3. QED
    BY <1>6, <2>1, <2>2
\* the heart of the property: a sample taken after an answer was sent is
\* not behind it unless the unit restarted or systemctl failed
<1>9. ASSUME NEW i \in MetricsAnswers, NEW k \in DOMAIN SERVICES
      PROVE  /\ \/ R.body[k].cpu < responses[i].body[k].cpu
                \/ R.body[k].restarts < responses[i].body[k].restarts
             /\ k \notin R.failed
             => R.seen[k] > responses[i].seen[k]
  <2> SUFFICES ASSUME \/ R.body[k].cpu < responses[i].body[k].cpu
                      \/ R.body[k].restarts < responses[i].body[k].restarts,
                      k \notin R.failed
               PROVE  R.seen[k] > responses[i].seen[k]
    OBVIOUS
  <2> DEFINE a == responses[i].body[k]
             b == R.body[k]
  <2>1. k \in 1..N /\ k \in 1..Len(srv.data)
    BY <1>1, ExporterAssumption, LenProperties DEF N
  <2>2. AnswerOK(responses[i]) /\ responses[i] \in Responses
    BY <1>5, <1>6 DEF EInv, MetricsAnswers
  <2>3. /\ responses[i].seen[k] \in Int /\ a \in Samples
        /\ srv.seen[k] \in 0..MaxRestarts
    <3>1. /\ responses[i].seen \in Seq(0..MaxRestarts)
          /\ responses[i].body \in Seq(Samples)
      BY <2>2 DEF Responses
    <3>2. /\ DOMAIN responses[i].seen = 1..Len(responses[i].seen)
          /\ DOMAIN responses[i].body = 1..Len(responses[i].body)
      BY <3>1, LenProperties
    <3>3. k \in 1..Len(responses[i].seen) /\ k \in 1..Len(responses[i].body)
      BY <2>1, <2>2, <3>2 DEF AnswerOK
    <3>4. responses[i].seen[k] \in 0..MaxRestarts
      BY <3>1, <3>3, ElementOfSeq
    <3>5. a \in Samples
      BY <3>1, <3>3, ElementOfSeq
    <3>6. srv.seen[k] \in 0..MaxRestarts
      BY <1>2, <2>1, ElementOfSeq
    <3>7. QED
      BY <3>4, <3>5, <3>6
  <2>4. srv.data[k] # EmptyMetrics /\ srv.data[k] \in Raw
    <3>1. srv.data[k] \in Raw
      BY <1>2, <2>1, ElementOfSeq
    <3>2. srv.data[k] # EmptyMetrics
      BY <1>2, <2>1
    <3>3. QED
      BY <3>1, <3>2
  <2>5. /\ b.cpu = CpuOf(srv.data[k]) /\ b.restarts = srv.seen[k]
        /\ b.cpu \in 0..MaxCpu
    <3>1. RestartsOf(srv.data[k]) = srv.seen[k]
      BY <1>1, <2>1, <2>4 DEF EInv, CollectingOK
    <3>2. QED
      BY <1>3, <2>1, <2>4, <3>1, RawEntry
  <2>6. /\ responses[i].seen[k] <= srv.seen[k]
        /\ /\ responses[i].seen[k] = srv.seen[k]
           /\ k \notin responses[i].failed
           => a.cpu <= CpuOf(srv.data[k])
    BY <1>1, <2>1, <2>4 DEF EInv, CollectingOK
  <2>7. /\ k \in responses[i].failed => a.cpu = 0 /\ a.restarts = 0
        /\ k \notin responses[i].failed => a.restarts = responses[i].seen[k]
    BY <2>1, <2>2 DEF AnswerOK
  <2>8. R.seen[k] = srv.seen[k] /\ a.cpu \in Int /\ a.restarts \in Int
    BY <2>3 DEF Samples
  <2>9. SUFFICES ASSUME responses[i].seen[k] = srv.seen[k] PROVE FALSE
    BY <2>3, <2>6, <2>8
  <2>10. CASE k \in responses[i].failed
    <3>1. a.cpu = 0 /\ a.restarts = 0
      BY <2>7, <2>10
    <3>2. b.cpu \in Nat /\ b.restarts \in Nat
      BY <2>3, <2>5
    <3>3. QED
      BY <3>1, <3>2 DEF a, b
  <2>11. CASE k \notin responses[i].failed
    BY <2>3, <2>5, <2>6, <2>7, <2>8, <2>9, <2>11
  <2>12. QED
    BY <2>10, <2>11
<1>10. CounterDropsExplained'
  <2> SUFFICES ASSUME NEW i \in MetricsAnswers', NEW j \in MetricsAnswers', i < j,
                      NEW k \in DOMAIN SERVICES
               PROVE  LET a == responses'[i].body[k]
                          b == responses'[j].body[k]
                      IN (b.cpu < a.cpu \/ b.restarts < a.restarts)
                           => \/ k \in responses'[j].failed
                              \/ responses'[j].seen[k] > responses'[i].seen[k]
    BY DEF CounterDropsExplained
  <2>1. i \in MetricsAnswers
    BY <1>5, <1>6
  <2>2. CASE j = L + 1
    <3>1. responses'[i] = responses[i] /\ responses'[j] = R
      BY <1>5, <1>6, <2>1, <2>2
    <3>2. QED
      BY <3>1, <1>9, <2>1
  <2>3. CASE j \in MetricsAnswers
    <3>1. responses'[i] = responses[i] /\ responses'[j] = responses[j]
      BY <1>5, <1>6, <2>1, <2>3
    <3>2. QED
      BY <2>1, <2>3, <3>1 DEF EInv, CounterDropsExplained
  <2>4. QED
    BY <1>6, <2>2, <2>3
<1>11. TypeOK' /\ CollectingOK' /\ (srv'.st = "idle" => srv' = Idle)
  BY <1>1, <1>5, EmptySeq, ExporterAssumption DEF EInv, TypeOK, Idle, N, CollectingOK
<1>12. QED
  BY <1>8, <1>10, <1>11 DEF EInv

-----------------------------------------------------------------------------
(* The invariant, and what follows from it.                                *)

LEMMA NextEInv == EInv /\ [Next]_vars => EInv'
<1> SUFFICES ASSUME EInv, [Next]_vars PROVE EInv'
  OBVIOUS
<1>1. CASE \E p \in Paths : Arrive(p)
  BY <1>1, ArriveEInv
<1>2. CASE \E s \in Services : UnitWork(s) \/ UnitFail(s) \/ UnitRestart(s)
  BY <1>2, UnitStepEInv
<1>3. CASE HandleRequest
  BY <1>3, HandleEInv
<1>4. CASE GetServiceMetrics
  BY <1>4, GetEInv
<1>5. CASE SendMetrics
  BY <1>5, SendEInv
<1>6. CASE Quiescent \/ UNCHANGED vars
  <2>1. UNCHANGED vars
    BY <1>6 DEF Quiescent
  <2>2. MetricsAnswers' = MetricsAnswers
    BY <2>1 DEF vars, MetricsAnswers
  <2>3. TypeOK' /\ (srv'.st = "idle" => srv' = Idle)
    BY <2>1 DEF vars, EInv, TypeOK
  <2>4. \A i \in MetricsAnswers' : AnswerOK(responses[i])'
    BY <2>1, <2>2 DEF vars, EInv, AnswerOK, Behind, Cur
  <2>5. CollectingOK'
    BY <2>1, <2>2 DEF vars, EInv, Behind, Cur, CollectingOK
  <2>6. CounterDropsExplained'
    BY <2>1, <2>2 DEF vars, EInv, CounterDropsExplained
  <2>7. QED
    BY <2>3, <2>4, <2>5, <2>6 DEF EInv
<1>7. QED
  BY <1>1, <1>2, <1>3, <1>4, <1>5, <1>6 DEF Next, Environment, ServerStep

\* The exporter's state keeps its type through every interleaving of
\* scrapes, health checks and unit changes: in particular an answer
\* carries one sample per service of SERVICES and only the values
\* format_metrics can print.
THEOREM TypeCorrect == Spec => []TypeOK
<1>1. EInv => TypeOK
  BY DEF EInv
<1>2. QED
  BY <1>1, InitEInv, NextEInv, PTL DEF Spec

\* For every list of services and every bound: a counter a later
\* /metrics answer reports below an earlier one is explained by a restart
\* of the unit in between or a failed systemctl call in the later scrape
\* (get_service_metrics and format_metrics).
THEOREM CountersMonotone == Spec => []CounterDropsExplained
<1>1. EInv => CounterDropsExplained
  BY DEF EInv
<1>2. QED
  BY <1>1, InitEInv, NextEInv, PTL DEF Spec


-----------------------------------------------------------------------------
(* Answers go out once each, in arrival order.                             *)
(*                                                                         *)
(* AnswersOnceInOrder compares two answers; it follows from where the ids *)
(* stand.  Served requests have been taken off the listen queue; the ones  *)
(* still queued carry the next ids in order, the one in hand (while       *)
(* collect_all_metrics runs) is the last one taken, and every answer sent *)
(* so far is for an earlier request than any not yet answered.            *)
(***************************************************************************)

\* the number of requests serve_forever has taken off the listen queue
Served == arrived - Len(pending)

\* the highest id an answer sent so far can carry
Answered == IF srv.st = "collecting" THEN Served - 1 ELSE Served

OInv ==
  /\ Len(pending) <= arrived
  /\ \A k \in 1..Len(pending) : pending[k].id = Served + k
  /\ srv.st = "collecting" => srv.req.id = Served
  /\ \A i \in DOMAIN responses : responses[i].id <= Answered
  /\ AnswersOnceInOrder

LEMMA InitOInv == Init => OInv
  BY EmptySeq DEF Init, OInv, Served, Answered, Idle, AnswersOnceInOrder

\* an answer for request n appended after answers to earlier requests
LEMMA AppendAnswer ==
  ASSUME EInv, OInv, NEW r, r.id \in Nat, \A i \in DOMAIN responses : responses[i].id < r.id,
         responses' = Append(responses, r)
  PROVE  /\ AnswersOnceInOrder'
         /\ \A i \in DOMAIN responses' : responses'[i].id <= r.id
<1>1. /\ responses \in Seq(Responses) /\ Len(responses) \in Nat
      /\ DOMAIN responses' = 1..Len(responses) + 1
      /\ responses'[Len(responses) + 1] = r
      /\ \A i \in 1..Len(responses) : responses'[i] = responses[i]
  BY AppendProperties DEF EInv, TypeOK
<1>2. \A i \in DOMAIN responses : responses[i].id \in Nat
  <2>1. SUFFICES ASSUME NEW i \in 1..Len(responses) PROVE responses[i].id \in Nat
    BY <1>1
  <2>2. responses[i] \in Responses
    BY <1>1, ElementOfSeq
  <2>3. QED
    BY <2>2 DEF Responses
<1>3. QED
  BY <1>1, <1>2 DEF OInv, AnswersOnceInOrder

LEMMA ArriveOInv ==
  ASSUME EInv, OInv, NEW p \in Paths, Arrive(p)
  PROVE  OInv'
<1>1. /\ pending \in Seq(Requests) /\ Len(pending) \in Nat /\ arrived \in Nat
      /\ pending' = Append(pending, [id |-> arrived + 1, path |-> p])
      /\ arrived' = arrived + 1 /\ UNCHANGED <<srv, responses>>
  BY DEF EInv, TypeOK, Arrive
<1>2. /\ Len(pending') = Len(pending) + 1
      /\ pending'[Len(pending) + 1].id = arrived + 1
      /\ \A k \in 1..Len(pending) : pending'[k] = pending[k]
  BY <1>1, AppendProperties
<1>3. Served' = Served /\ Answered' = Answered
  BY <1>1, <1>2 DEF Served, Answered
<1>4. QED
  BY <1>1, <1>2, <1>3 DEF OInv, AnswersOnceInOrder, Served

LEMMA HandleOInv ==
  ASSUME EInv, OInv, HandleRequest
  PROVE  OInv'
<1> DEFINE r == Head(pending)
<1>1. /\ srv = Idle /\ pending # <<>> /\ pending \in Seq(Requests)
      /\ pending' = Tail(pending) /\ UNCHANGED arrived
  BY DEF HandleRequest, EInv, TypeOK
<1>2. /\ Len(pending) \in Nat /\ Len(pending) > 0 /\ arrived \in Nat
      /\ Len(pending') = Len(pending) - 1
      /\ \A k \in 1..Len(pending') : pending'[k] = pending[k + 1]
      /\ r = pending[1] /\ r \in Requests
  BY <1>1, HeadTailProperties, EmptySeq DEF EInv, TypeOK
<1>3. /\ Served' = Served + 1 /\ r.id = Served + 1
      /\ Served \in Nat /\ Len(pending') <= arrived'
      /\ \A k \in 1..Len(pending') : pending'[k].id = Served' + k
  BY <1>1, <1>2 DEF OInv, Served
<1>4. \A i \in DOMAIN responses : responses[i].id <= Served
  BY <1>1 DEF OInv, Answered, Idle
<1>5b. \A i \in DOMAIN responses : responses[i].id \in Int
  <2>1. SUFFICES ASSUME NEW i \in 1..Len(responses) PROVE responses[i].id \in Int
    BY DEF EInv, TypeOK
  <2>2. responses[i] \in Responses
    BY ElementOfSeq DEF EInv, TypeOK
  <2>3. QED
    BY <2>2 DEF Responses
<1>5. CASE r.path = "/metrics"
  <2>1. srv' = [st |-> "collecting", req |-> r, data |-> <<>>, seen |-> <<>>]
        /\ UNCHANGED responses
    BY <1>5 DEF HandleRequest
  <2>2. Answered' = Served
    BY <1>3, <2>1 DEF Answered
  <2>3. QED
    BY <1>3, <1>4, <2>1, <2>2 DEF OInv, AnswersOnceInOrder
<1>6. CASE r.path # "/metrics"
  <2> DEFINE R == [id |-> r.id, status |-> IF r.path = "/health" THEN 200 ELSE 404,
                   body |-> <<>>, seen |-> <<>>, failed |-> {}]
  <2>1. responses' = Append(responses, R) /\ UNCHANGED srv
    BY <1>6 DEF HandleRequest
  <2>2. Answered' = Served'
    BY <1>1, <2>1 DEF Answered, Idle
  <2>3. /\ AnswersOnceInOrder'
        /\ \A i \in DOMAIN responses' : responses'[i].id <= R.id
    <3>1. R.id \in Nat /\ \A i \in DOMAIN responses : responses[i].id < R.id
      BY <1>3, <1>4, <1>5b
    <3>2. QED
      BY <2>1, <3>1, AppendAnswer
  <2>4. QED
    BY <1>1, <1>3, <2>1, <2>2, <2>3 DEF OInv, Idle
<1>7. QED
  BY <1>5, <1>6

\* the request in hand is answered (200 with the samples, or closed by an
\* OSError) and the server goes back to the listen queue
LEMMA FinishOInv ==
  ASSUME EInv, OInv, srv.st = "collecting", NEW R, R.id = srv.req.id,
         responses' = Append(responses, R), srv' = Idle,
         UNCHANGED <<pending, arrived>>
  PROVE  OInv'
<1>1. /\ srv.req.id = Served /\ Served \in Nat
      /\ \A i \in DOMAIN responses : responses[i].id < Served
  <2>1. srv.req \in Requests
    BY DEF EInv, CollectingOK
  <2>2. /\ pending \in Seq(Requests) /\ arrived \in Nat /\ Len(pending) <= arrived
    BY DEF EInv, TypeOK, OInv
  <2>3. Served \in Nat
    BY <2>2, LenProperties DEF Served
  <2>4. \A i \in DOMAIN responses : responses[i].id \in Int
    <3>1. SUFFICES ASSUME NEW i \in 1..Len(responses) PROVE responses[i].id \in Int
      BY DEF EInv, TypeOK
    <3>2. responses[i] \in Responses
      BY ElementOfSeq DEF EInv, TypeOK
    <3>3. QED
      BY <3>2 DEF Responses
  <2>5. QED
    BY <2>1, <2>3, <2>4 DEF OInv, Answered, Requests
<1>2. Served' = Served /\ Answered' = Served
  BY DEF Served, Answered, Idle
<1>3. QED
  BY <1>1, <1>2, AppendAnswer DEF OInv, Idle

LEMMA GetOInv ==
  ASSUME EInv, OInv, GetServiceMetrics
  PROVE  OInv'
<1> DEFINE L == Len(srv.data)
           s == SERVICES[L + 1]
<1>1. srv.st = "collecting" /\ UNCHANGED <<unit, pending, arrived>>
  BY DEF GetServiceMetrics
<1>2. PICK o \in Outcomes :
        CASE o = "ok" ->
               /\ srv' = [srv EXCEPT !.data = Append(@, ShowOutput(unit[s])),
                                     !.seen = Append(@, unit[s].restarts)]
               /\ UNCHANGED responses
          [] o = "error" ->
               /\ srv' = [srv EXCEPT !.data = Append(@, EmptyMetrics),
                                     !.seen = Append(@, unit[s].restarts)]
               /\ UNCHANGED responses
          [] o = "oserror" ->
               /\ responses' = Append(responses, [id |-> srv.req.id, status |-> 0,
                                                  body |-> <<>>, seen |-> <<>>,
                                                  failed |-> {}])
               /\ srv' = Idle
  BY ZenonT(60) DEF GetServiceMetrics
<1>3. o \in {"ok", "error", "oserror"}
  BY ExporterAssumption
<1>4. CASE o \in {"ok", "error"}
  <2>1. /\ srv'.st = srv.st /\ srv'.req = srv.req
        /\ UNCHANGED responses
    <3>1. CASE o = "ok"
      <4>1. /\ srv' = [srv EXCEPT !.data = Append(@, ShowOutput(unit[s])),
                                  !.seen = Append(@, unit[s].restarts)]
            /\ UNCHANGED responses
        BY <1>2, <3>1
      <4>2. QED
        BY <4>1
    <3>2. CASE o = "error"
      <4>1. /\ srv' = [srv EXCEPT !.data = Append(@, EmptyMetrics),
                                  !.seen = Append(@, unit[s].restarts)]
            /\ UNCHANGED responses
        BY <1>2, <3>2
      <4>2. QED
        BY <4>1
    <3>3. QED
      BY <1>4, <3>1, <3>2
  <2>2. Served' = Served /\ Answered' = Answered
    BY <1>1, <2>1 DEF Served, Answered
  <2>3. QED
    BY <1>1, <2>1, <2>2 DEF OInv, AnswersOnceInOrder
<1>5. CASE o = "oserror"
  <2>1. /\ responses' = Append(responses, [id |-> srv.req.id, status |-> 0,
                                           body |-> <<>>, seen |-> <<>>,
                                           failed |-> {}])
        /\ srv' = Idle
    BY <1>2, <1>5
  <2>2. QED
    BY <1>1, <2>1, FinishOInv
<1>6. QED
  BY <1>3, <1>4, <1>5

LEMMA NextOInv == EInv /\ OInv /\ [Next]_vars => OInv'
<1> SUFFICES ASSUME EInv, OInv, [Next]_vars PROVE OInv'
  OBVIOUS
<1>1. CASE \E p \in Paths : Arrive(p)
  BY <1>1, ArriveOInv
<1>2. CASE \E s \in Services : UnitWork(s) \/ UnitFail(s) \/ UnitRestart(s)
  <2>1. UNCHANGED <<pending, arrived, srv, responses>>
    BY <1>2 DEF UnitWork, UnitFail, UnitRestart
  <2>2. QED
    BY <2>1 DEF OInv, Served, Answered, AnswersOnceInOrder
<1>3. CASE HandleRequest
  BY <1>3, HandleOInv
<1>4. CASE GetServiceMetrics
  BY <1>4, GetOInv
<1>5. CASE SendMetrics
  <2>1. /\ srv.st = "collecting" /\ srv' = Idle /\ UNCHANGED <<pending, arrived>>
        /\ \E R : R.id = srv.req.id /\ responses' = Append(responses, R)
    BY <1>5 DEF SendMetrics
  <2>2. QED
    BY <2>1, FinishOInv
<1>6. CASE Quiescent \/ UNCHANGED vars
  <2>1. UNCHANGED vars
    BY <1>6 DEF Quiescent
  <2>2. QED
    BY <2>1 DEF vars, OInv, Served, Answered, AnswersOnceInOrder
<1>7. QED
  BY <1>1, <1>2, <1>3, <1>4, <1>5, <1>6 DEF Next, Environment, ServerStep

\* For every list of services and every bound: serve_forever answers each
\* request at most once and in the order the requests arrived, whatever
\* /metrics collections, OSErrors in do_GET and health checks interleave
\* with new connections.
THEOREM AnswersOnce == Spec => []AnswersOnceInOrder
<1>1. EInv /\ OInv => AnswersOnceInOrder
  BY DEF OInv
<1>2. Init => EInv /\ OInv
  BY InitEInv, InitOInv
<1>3. EInv /\ OInv /\ [Next]_vars => EInv' /\ OInv'
  BY NextEInv, NextOInv
<1>4. QED
  BY <1>1, <1>2, <1>3, PTL DEF Spec

-----------------------------------------------------------------------------
(* The exporter implements ExporterContract.                               *)
(*                                                                         *)
(* The contract's queue is the request in hand followed by the listen     *)
(* queue, and its answers are the ids and statuses sent.  Taking a        *)
(* /metrics request and each systemctl call of its scrape leave both as   *)
(* they were; an answer, whether at once (/health, 404), after the scrape  *)
(* (200) or by an OSError (0), is the contract's Serve of the request at  *)
(* the front.  The status fits the path because the request in hand is   *)
(* always a /metrics request: CInv.                                       *)
(***************************************************************************)

CInv == srv.st = "collecting" => srv.req.path = "/metrics"

\* a sequence with x in front of s
LEMMA ConsSeq ==
  ASSUME NEW S, NEW x \in S, NEW s \in Seq(S), NEW y \in S
  PROVE  /\ <<x>> \o s \in Seq(S)
         /\ <<x>> \o s # <<>>
         /\ Head(<<x>> \o s) = x
         /\ Tail(<<x>> \o s) = s
         /\ Append(<<x>> \o s, y) = <<x>> \o Append(s, y)
<1>1. <<x>> \in Seq(S) /\ Len(<<x>>) = 1
  OBVIOUS
<1>2. /\ <<x>> \o s \in Seq(S) /\ Len(<<x>> \o s) = 1 + Len(s)
      /\ \A i \in 1..1 + Len(s) : (<<x>> \o s)[i] = IF i = 1 THEN x ELSE s[i - 1]
  BY <1>1, ConcatProperties
<1>3. <<x>> \o s # <<>> /\ Head(<<x>> \o s) = x
  BY <1>2
<1>4. Tail(<<x>> \o s) = s
  BY <1>2, <1>3, HeadTailProperties
<1>5. Append(<<x>> \o s, y) = <<x>> \o Append(s, y)
  <2>1. /\ Append(s, y) \in Seq(S) /\ Len(Append(s, y)) = Len(s) + 1
        /\ \A i \in 1..Len(s) : Append(s, y)[i] = s[i]
        /\ Append(s, y)[Len(s) + 1] = y
    BY AppendProperties
  <2>2. /\ <<x>> \o Append(s, y) \in Seq(S)
        /\ Len(<<x>> \o Append(s, y)) = Len(s) + 2
        /\ \A i \in 1..Len(s) + 2 :
             (<<x>> \o Append(s, y))[i] = IF i = 1 THEN x ELSE Append(s, y)[i - 1]
    BY <1>1, <2>1, ConcatProperties
  <2>3. /\ Append(<<x>> \o s, y) \in Seq(S)
        /\ Len(Append(<<x>> \o s, y)) = Len(s) + 2
        /\ \A i \in 1..Len(s) + 1 : Append(<<x>> \o s, y)[i] = (<<x>> \o s)[i]
        /\ Append(<<x>> \o s, y)[Len(s) + 2] = y
    BY <1>2, AppendProperties
  <2>4. QED
    BY <1>2, <2>1, <2>2, <2>3
<1>6. QED
  BY <1>2, <1>3, <1>4, <1>5

\* a nonempty sequence is its head in front of its tail
LEMMA HeadTailCons ==
  ASSUME NEW S, NEW s \in Seq(S), s # <<>>
  PROVE  <<Head(s)>> \o Tail(s) = s
<1>1. Head(s) \in S /\ Tail(s) \in Seq(S) /\ Len(Tail(s)) = Len(s) - 1
      /\ \A i \in 1..Len(s) - 1 : Tail(s)[i] = s[i + 1]
  BY HeadTailProperties
<1>2. /\ <<Head(s)>> \o Tail(s) \in Seq(S)
      /\ Len(<<Head(s)>> \o Tail(s)) = Len(s)
      /\ \A i \in 1..Len(s) :
           (<<Head(s)>> \o Tail(s))[i] = IF i = 1 THEN Head(s) ELSE Tail(s)[i - 1]
  BY <1>1, ConcatProperties, EmptySeq
<1>3. Len(s) > 0 /\ Head(s) = s[1]
  BY EmptySeq
<1>4. QED
  BY <1>1, <1>2, <1>3

\* the ids and statuses sent, once one more answer is sent
LEMMA SentAppend ==
  ASSUME responses \in Seq(Responses), NEW r, responses' = Append(responses, r)
  PROVE  Sent' = Append(Sent, [id |-> r.id, status |-> r.status])
<1>1. /\ DOMAIN responses' = 1..Len(responses) + 1
      /\ \A i \in 1..Len(responses) : responses'[i] = responses[i]
      /\ responses'[Len(responses) + 1] = r
      /\ DOMAIN responses = 1..Len(responses) /\ Len(responses) \in Nat
  BY AppendProperties, LenProperties
<1>2. /\ Sent \in Seq([id : {responses[i].id : i \in DOMAIN responses},
                      status : {responses[i].status : i \in DOMAIN responses}])
      /\ Len(Sent) = Len(responses)
  BY <1>1 DEF Sent
<1>3. /\ DOMAIN Append(Sent, [id |-> r.id, status |-> r.status]) = 1..Len(responses) + 1
      /\ \A i \in 1..Len(responses) :
           Append(Sent, [id |-> r.id, status |-> r.status])[i] = Sent[i]
      /\ Append(Sent, [id |-> r.id, status |-> r.status])[Len(responses) + 1]
           = [id |-> r.id, status |-> r.status]
  BY <1>2, AppendProperties, LenProperties
<1>4. QED
  BY <1>1, <1>3 DEF Sent

\* one systemctl call either leaves the scrape in hand or ends it with the
\* connection closed
LEMMA GetOutcome ==
  ASSUME GetServiceMetrics
  PROVE  \/ /\ srv'.st = srv.st /\ srv'.req = srv.req
            /\ UNCHANGED responses
         \/ /\ responses' = Append(responses, [id |-> srv.req.id, status |-> 0,
                                               body |-> <<>>, seen |-> <<>>,
                                               failed |-> {}])
            /\ srv' = Idle
<1> DEFINE s == SERVICES[Len(srv.data) + 1]
<1>1. PICK o \in Outcomes :
        CASE o = "ok" ->
               /\ srv' = [srv EXCEPT !.data = Append(@, ShowOutput(unit[s])),
                                     !.seen = Append(@, unit[s].restarts)]
               /\ UNCHANGED responses
          [] o = "error" ->
               /\ srv' = [srv EXCEPT !.data = Append(@, EmptyMetrics),
                                     !.seen = Append(@, unit[s].restarts)]
               /\ UNCHANGED responses
          [] o = "oserror" ->
               /\ responses' = Append(responses, [id |-> srv.req.id, status |-> 0,
                                                  body |-> <<>>, seen |-> <<>>,
                                                  failed |-> {}])
               /\ srv' = Idle
  BY ZenonT(60) DEF GetServiceMetrics
<1>2. o \in {"ok", "error", "oserror"}
  BY ExporterAssumption
<1>3. CASE o = "ok"
  <2>1. /\ srv' = [srv EXCEPT !.data = Append(@, ShowOutput(unit[s])),
                              !.seen = Append(@, unit[s].restarts)]
        /\ UNCHANGED responses
    BY <1>1, <1>3
  <2>2. QED
    BY <2>1
<1>4. CASE o = "error"
  <2>1. /\ srv' = [srv EXCEPT !.data = Append(@, EmptyMetrics),
                              !.seen = Append(@, unit[s].restarts)]
        /\ UNCHANGED responses
    BY <1>1, <1>4
  <2>2. QED
    BY <2>1
<1>5. CASE o = "oserror"
  BY <1>1, <1>5
<1>6. QED
  BY <1>2, <1>3, <1>4, <1>5

LEMMA NextCInv == EInv /\ CInv /\ [Next]_vars => CInv'
<1> SUFFICES ASSUME EInv, CInv, [Next]_vars PROVE CInv'
  OBVIOUS
<1>1. CASE \E p \in Paths : Arrive(p)
  BY <1>1 DEF Arrive, CInv
<1>2. CASE \E s \in Services : UnitWork(s) \/ UnitFail(s) \/ UnitRestart(s)
  BY <1>2 DEF UnitWork, UnitFail, UnitRestart, CInv
<1>3. CASE HandleRequest
  BY <1>3 DEF HandleRequest, CInv
<1>4. CASE GetServiceMetrics
  BY <1>4, GetOutcome DEF CInv, Idle
<1>5. CASE SendMetrics
  BY <1>5 DEF SendMetrics, CInv, Idle
<1>6. CASE Quiescent \/ UNCHANGED vars
  BY <1>6 DEF Quiescent, vars, CInv
<1>7. QED
  BY <1>1, <1>2, <1>3, <1>4, <1>5, <1>6 DEF Next, Environment, ServerStep

\* the contract's queue and answers start empty
LEMMA InitRefinesContract == Init => Contract!Init
<1> SUFFICES ASSUME Init PROVE Contract!Init
  OBVIOUS
<1>1. InHand \o pending = <<>>
  BY DEF Init, InHand, Idle
<1>2. Sent = <<>>
  BY DEF Init, Sent
<1>3. QED
  BY <1>1, <1>2 DEF Init, Contract!Init

\* answering request r at the front of the contract's queue with status st
LEMMA ServeStep ==
  ASSUME NEW r, NEW st, NEW rest,
         InHand \o pending # <<>>,
         Head(InHand \o pending) = r, Tail(InHand \o pending) = rest,
         (InHand \o pending)' = rest,
         st \in Contract!StatusFor(r.path),
         Sent' = Append(Sent, [id |-> r.id, status |-> st]),
         UNCHANGED arrived
  PROVE  Contract!Serve
<1>1. \E s2 \in Contract!StatusFor(Head(InHand \o pending).path) :
        Sent' = Append(Sent, [id |-> Head(InHand \o pending).id, status |-> s2])
  <2>1. /\ st \in Contract!StatusFor(Head(InHand \o pending).path)
        /\ Sent' = Append(Sent, [id |-> Head(InHand \o pending).id, status |-> st])
    OBVIOUS
  <2>2. QED
    BY <2>1, Zenon
<1>2. QED
  BY <1>1, Zenon DEF Contract!Serve

\* the scrape in hand ends: a 200 after the last systemctl call, or the
\* connection closed by an OSError
LEMMA FinishServes ==
  ASSUME EInv, CInv, srv.st = "collecting", NEW R, R.id = srv.req.id,
         R.status \in {200, 0}, responses' = Append(responses, R), srv' = Idle,
         UNCHANGED <<pending, arrived>>
  PROVE  Contract!Serve
<1>1. /\ srv.req \in Requests /\ srv.req.path = "/metrics"
      /\ pending \in Seq(Requests) /\ responses \in Seq(Responses)
  BY DEF EInv, CollectingOK, TypeOK, CInv
<1>2. InHand = <<srv.req>> /\ InHand' = <<>>
  BY DEF InHand, Idle
<1>3. /\ InHand \o pending # <<>>
      /\ Head(InHand \o pending) = srv.req
      /\ Tail(InHand \o pending) = pending
  BY <1>1, <1>2, ConsSeq
<1>4. (InHand \o pending)' = pending
  BY <1>1, <1>2, ConcatEmptySeq
<1>5. Sent' = Append(Sent, [id |-> srv.req.id, status |-> R.status])
  BY <1>1, SentAppend
<1>6. R.status \in Contract!StatusFor(srv.req.path)
  BY <1>1 DEF Contract!StatusFor
<1>7. QED
  BY <1>3, <1>4, <1>5, <1>6, ServeStep

\* a connection arrives at the back of the contract's queue
LEMMA ArriveRefines ==
  ASSUME EInv, NEW p \in Paths, Arrive(p)
  PROVE  Contract!Arrive(p)
<1> DEFINE new == [id |-> arrived + 1, path |-> p]
<1>0. /\ TypeOK
      /\ (srv.st = "collecting" => srv.req \in Requests)
  BY DEF EInv, CollectingOK
<1>1. /\ pending \in Seq(Requests) /\ new \in Requests
      /\ pending' = Append(pending, new) /\ arrived' = arrived + 1
      /\ arrived < MaxRequests /\ UNCHANGED <<srv, responses>>
      /\ (srv.st = "collecting" => srv.req \in Requests)
  <2>1. pending \in Seq(Requests) /\ arrived \in 0..MaxRequests
    BY <1>0 DEF TypeOK
  <2>2. arrived < MaxRequests /\ arrived' = arrived + 1
        /\ pending' = Append(pending, new) /\ UNCHANGED <<srv, responses>>
    BY DEF Arrive, new
  <2>3. new \in Requests
    <3>1. arrived + 1 \in 1..MaxRequests
      BY <2>1, <2>2, ExporterAssumption
    <3>2. QED
      BY <3>1 DEF Requests, new
  <2>4. QED
    BY <1>0, <2>1, <2>2, <2>3
<1>2. (InHand \o pending)' = Append(InHand \o pending, new)
  <2>1. CASE srv.st = "collecting"
    <3>1. InHand = <<srv.req>> /\ InHand' = <<srv.req>>
      BY <1>1, <2>1 DEF InHand
    <3>2. Append(<<srv.req>> \o pending, new) = <<srv.req>> \o Append(pending, new)
      <4>1. srv.req \in Requests /\ pending \in Seq(Requests) /\ new \in Requests
        BY <1>1, <2>1
      <4>2. QED
        BY <4>1, ConsSeq
    <3>3. QED
      BY <1>1, <3>1, <3>2
  <2>2. CASE srv.st # "collecting"
    <3>1. InHand = <<>> /\ InHand' = <<>>
      BY <1>1, <2>2 DEF InHand
    <3>2. Append(pending, new) \in Seq(Requests)
      BY <1>1, AppendProperties
    <3>3. QED
      BY <1>1, <3>1, <3>2, ConcatEmptySeq
  <2>3. QED
    BY <2>1, <2>2
<1>3. Sent' = Sent
  BY <1>1 DEF Sent
<1>4. QED
  BY <1>1, <1>2, <1>3 DEF Contract!Arrive

\* serve_forever takes the next connection: a /metrics request moves from
\* the listen queue into the server's hands, any other is answered
LEMMA HandleRefines ==
  ASSUME EInv, HandleRequest
  PROVE  [Contract!Next]_Contract!cvars
<1> DEFINE r == Head(pending)
<1>1. /\ srv = Idle /\ pending # <<>> /\ pending \in Seq(Requests)
      /\ responses \in Seq(Responses)
      /\ pending' = Tail(pending) /\ UNCHANGED arrived
  BY DEF HandleRequest, EInv, TypeOK
<1>2. /\ InHand = <<>>
      /\ InHand \o pending = pending
      /\ r \in Requests /\ Tail(pending) \in Seq(Requests)
  BY <1>1, ConcatEmptySeq, HeadTailProperties DEF InHand, Idle
<1>3. CASE r.path = "/metrics"
  <2>1. srv'.st = "collecting" /\ srv'.req = r /\ UNCHANGED responses
    BY <1>3 DEF HandleRequest
  <2>2. (InHand \o pending)' = <<r>> \o Tail(pending)
    BY <1>1, <2>1 DEF InHand
  <2>3. <<r>> \o Tail(pending) = pending
    BY <1>1, HeadTailCons
  <2>4. Sent' = Sent
    BY <2>1 DEF Sent
  <2>5. QED
    BY <1>1, <1>2, <2>2, <2>3, <2>4 DEF Contract!cvars
<1>4. CASE r.path # "/metrics"
  <2> DEFINE R == [id |-> r.id, status |-> IF r.path = "/health" THEN 200 ELSE 404,
                   body |-> <<>>, seen |-> <<>>, failed |-> {}]
  <2>1. responses' = Append(responses, R) /\ UNCHANGED srv
    BY <1>4 DEF HandleRequest
  <2>2. (InHand \o pending)' = Tail(pending)
    BY <1>1, <1>2, <2>1, ConcatEmptySeq DEF InHand, Idle
  <2>3. Sent' = Append(Sent, [id |-> r.id, status |-> R.status])
    BY <1>1, <2>1, SentAppend
  <2>4. R.status \in Contract!StatusFor(r.path)
    BY <1>4 DEF Contract!StatusFor
  <2>5. Contract!Serve
    <3>1. /\ InHand \o pending # <<>>
          /\ Head(InHand \o pending) = r /\ Tail(InHand \o pending) = Tail(pending)
      BY <1>1, <1>2
    <3>2. QED
      BY <1>1, <2>2, <2>3, <2>4, <3>1, ServeStep, Zenon
  <2>6. QED
    BY <2>5 DEF Contract!Next
<1>5. QED
  BY <1>3, <1>4

\* a systemctl call of the scrape in hand: a stutter, or the connection
\* closed by an OSError
LEMMA GetRefines ==
  ASSUME EInv, CInv, GetServiceMetrics
  PROVE  [Contract!Next]_Contract!cvars
<1>1. srv.st = "collecting" /\ UNCHANGED <<pending, arrived>>
  BY DEF GetServiceMetrics
<1>2. CASE /\ srv'.st = srv.st /\ srv'.req = srv.req
           /\ UNCHANGED responses
  <2>1. InHand' = InHand /\ Sent' = Sent
    BY <1>2 DEF InHand, Sent
  <2>2. QED
    BY <1>1, <2>1 DEF Contract!cvars
<1>3. CASE /\ responses' = Append(responses, [id |-> srv.req.id, status |-> 0,
                                              body |-> <<>>, seen |-> <<>>,
                                              failed |-> {}])
           /\ srv' = Idle
  <2>1. Contract!Serve
    BY <1>1, <1>3, FinishServes
  <2>2. QED
    BY <2>1 DEF Contract!Next
<1>4. QED
  BY <1>2, <1>3, GetOutcome

LEMMA StepRefinesContract ==
  ASSUME EInv, CInv, [Next]_vars
  PROVE  [Contract!Next]_Contract!cvars
<1>1. CASE \E p \in Paths : Arrive(p)
  BY <1>1, ArriveRefines DEF Contract!Next
<1>2. CASE \E s \in Services : UnitWork(s) \/ UnitFail(s) \/ UnitRestart(s)
  <2>1. UNCHANGED <<pending, srv, responses, arrived>>
    BY <1>2 DEF UnitWork, UnitFail, UnitRestart
  <2>2. QED
    BY <2>1 DEF Contract!cvars, InHand, Sent
<1>3. CASE HandleRequest
  BY <1>3, HandleRefines
<1>4. CASE GetServiceMetrics
  BY <1>4, GetRefines
<1>5. CASE SendMetrics
  <2>1. /\ srv.st = "collecting" /\ srv' = Idle /\ UNCHANGED <<pending, arrived>>
        /\ \E R : /\ R.id = srv.req.id /\ R.status \in {200, 0}
                  /\ responses' = Append(responses, R)
    BY <1>5 DEF SendMetrics
  <2>2. Contract!Serve
    BY <2>1, FinishServes
  <2>3. QED
    BY <2>2 DEF Contract!Next
<1>6. CASE Quiescent \/ UNCHANGED vars
  <2>1. UNCHANGED vars
    BY <1>6 DEF Quiescent
  <2>2. QED
    BY <2>1 DEF vars, Contract!cvars, InHand, Sent
<1>7. QED
  BY <1>1, <1>2, <1>3, <1>4, <1>5, <1>6 DEF Next, Environment, ServerStep

\* For every SERVICES list and every bound, the exporter implements
\* ExporterContract: serve_forever answers the connections of its listen
\* queue one at a time, in arrival order, each once, and do_GET gives each
\* the status its path calls for, whatever systemd does meanwhile.
THEOREM ContractRefinement == Spec => ExporterContractSpec
<1>1. Init => EInv /\ CInv
  BY InitEInv DEF Init, CInv, Idle
<1>2. EInv /\ CInv /\ [Next]_vars => EInv' /\ CInv'
  BY NextEInv, NextCInv
<1>3. EInv /\ CInv /\ [Next]_vars => [Contract!Next]_Contract!cvars
  BY StepRefinesContract
<1>4. QED
  BY <1>1, <1>2, <1>3, InitRefinesContract, PTL DEF Spec, ExporterContractSpec,
     Contract!Spec

=============================================================================
