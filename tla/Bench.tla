-------------------------------- MODULE Bench ---------------------------------
(* The load generator of go/bench: workers replay requests against a server  *)
(* until the duration is over, a client gives a request up after Timeout,    *)
(* and the run is judged when all workers are done. Time is counted in ticks *)
(* and no step of the generator itself takes any; a round trip takes one or  *)
(* more. The counters are read after wg.Wait() only, so the additions a      *)
(* worker makes for one answer are one step.                                 *)
EXTENDS Integers, Sequences, FiniteSets

CONSTANTS
    Workers,
    Dur, Warm, Slo,   (* -d, -warm and -slo                                    *)
    MinPct,           (* 99: the percentage that has to be within Slo          *)
    Timeout,          (* of the http.Client                                    *)
    Cap               (* how many latencies latCh holds                        *)

ASSUME BenchAssumption ==
    /\ IsFiniteSet(Workers)
    /\ Dur \in Nat /\ Warm \in Nat /\ Slo \in Nat
    /\ MinPct \in 0..100
    /\ Timeout \in Nat \ {0} /\ Cap \in Nat

VARIABLES
    now,
    phase,         (* of a worker: "loop", "post", "read" or "done"            *)
    req,           (* the request a worker is at: what idx gave it             *)
    status,        (* of its response                                          *)
    idx, ok, failed, sloOK,
    lats,          (* how many latencies latCh has taken                       *)
    verdict,       (* Pending until the report                                 *)
    log            (* of every request: from, lat, and when and how it ended   *)

counters == <<idx, ok, failed, sloOK, lats>>
benchVars == <<now, phase, req, status, counters, verdict, log>>

Pending == "nil"

BenchInit ==
    /\ now = 0
    /\ phase = [w \in Workers |-> "loop"]
    /\ req = [w \in Workers |-> 0]
    /\ status = [w \in Workers |-> 0]
    /\ idx = 0 /\ ok = 0 /\ failed = 0 /\ sloOK = 0 /\ lats = 0
    /\ verdict = Pending
    /\ log = <<>>

-----------------------------------------------------------------------------
(* A worker *)

(* idx.Add, t0 and the call.                                                 *)
Start(w) ==
    /\ phase[w] = "loop" /\ now < Dur
    /\ idx' = idx + 1
    /\ req' = [req EXCEPT ![w] = idx + 1]
    /\ log' = Append(log, [from |-> now, lat |-> 0, to |-> 0, res |-> Pending])
    /\ phase' = [phase EXCEPT ![w] = "post"]
    /\ UNCHANGED <<now, status, ok, failed, sloOK, lats, verdict>>

Leave(w) ==
    /\ phase[w] = "loop" /\ now >= Dur
    /\ phase' = [phase EXCEPT ![w] = "done"]
    /\ UNCHANGED <<now, req, status, counters, verdict, log>>

Elapsed(w) == now - log[req[w]].from

EndsAs(w, res) == log' = [log EXCEPT ![req[w]].to = now, ![req[w]].res = res]

(* The call returns an error: refused, broken or given up.                   *)
CallFails(w) ==
    /\ phase[w] = "post" /\ Elapsed(w) > 0
    /\ failed' = failed + 1
    /\ EndsAs(w, "failed")
    /\ phase' = [phase EXCEPT ![w] = "loop"]
    /\ UNCHANGED <<now, req, status, idx, ok, sloOK, lats, verdict>>

(* Fault: the client waits for as long as the server does.                   *)
GivesUpNever(w) == CallFails(w) /\ Elapsed(w) > Timeout

GivesUp(w) == CallFails(w) /\ Elapsed(w) = Timeout

Responds(w) ==
    /\ phase[w] = "post" /\ Elapsed(w) > 0
    /\ \E s \in {200, 503} : status' = [status EXCEPT ![w] = s]
    /\ log' = [log EXCEPT ![req[w]].lat = Elapsed(w)]
    /\ phase' = [phase EXCEPT ![w] = "read"]
    /\ UNCHANGED <<now, req, counters, verdict>>

(* The body is read, or reading it fails: nobody looks at that error.        *)
BodyRead(w, measured, sampled) ==
    /\ phase[w] = "read"
    /\ EndsAs(w, IF status[w] = 200 THEN "ok" ELSE "failed")
    /\ failed' = IF status[w] # 200 THEN failed + 1 ELSE failed
    /\ IF status[w] = 200 /\ measured
       THEN /\ ok' = ok + 1
            /\ sloOK' = IF log[req[w]].lat <= Slo THEN sloOK + 1 ELSE sloOK
       ELSE UNCHANGED <<ok, sloOK>>
    /\ lats' = IF status[w] = 200 /\ sampled /\ lats < Cap THEN lats + 1 ELSE lats
    /\ phase' = [phase EXCEPT ![w] = "loop"]
    /\ UNCHANGED <<now, req, status, idx, verdict>>

(* Fault: latencies are taken during the warm-up.                            *)
ReadEndsSampled(w) == BodyRead(w, now > Warm, TRUE)

ReadEnds(w) == BodyRead(w, now > Warm, now > Warm)

ReadCut(w) == ReadEnds(w) /\ Elapsed(w) = Timeout

Worker(w) == Start(w) \/ Leave(w) \/ CallFails(w) \/ Responds(w) \/ ReadEnds(w)

(* Time passes while every worker waits for the server, which Timeout ends.  *)
Tick ==
    /\ \E w \in Workers : phase[w] # "done"
    /\ \A w \in Workers : phase[w] # "loop" /\ (phase[w] # "done" => Elapsed(w) < Timeout)
    /\ now' = now + 1
    /\ UNCHANGED <<phase, req, status, counters, verdict, log>>

-----------------------------------------------------------------------------
(* The report *)

(* Fault: a run without an answer passes.                                    *)
VerdictOfShare == IF ok = 0 \/ 100 * sloOK >= MinPct * ok THEN "PASS" ELSE "FAIL"

Verdict == IF lats > 0 /\ (ok = 0 \/ 100 * sloOK >= MinPct * ok) THEN "PASS" ELSE "FAIL"

Judge ==
    /\ verdict = Pending /\ \A w \in Workers : phase[w] = "done"
    /\ verdict' = Verdict
    /\ UNCHANGED <<now, phase, req, status, counters, log>>

BenchRest == verdict # Pending /\ UNCHANGED benchVars

BenchNext == (\E w \in Workers : Worker(w)) \/ Tick \/ Judge \/ BenchRest

BenchSpec == BenchInit /\ [][BenchNext]_benchVars

(* The generator runs and time passes; the server need not answer. The       *)
(* timeout of http.Client covers the call and the reading of the body.       *)
Fairness ==
    /\ WF_benchVars(Tick) /\ WF_benchVars(Judge)
    /\ \A w \in Workers : /\ WF_benchVars(Start(w) \/ Leave(w))
                          /\ WF_benchVars(GivesUp(w) \/ ReadCut(w))

BenchFairSpec == BenchSpec /\ Fairness

-----------------------------------------------------------------------------
(* Properties *)

Ended(res) == {r \in DOMAIN log : log[r].res = res}
Measured == {r \in Ended("ok") : log[r].to > Warm}

(* Every request sent is in flight, answered within the warm-up or in        *)
(* exactly one of the counts, and those within the SLO are counted once. A   *)
(* latency is dropped only when latCh has no room: percentiles are of all the*)
(* answers counted, or of the first Cap of them.                             *)
InFlight == {w \in Workers : phase[w] \in {"post", "read"}}
CountersAddUp ==
    /\ ok = Cardinality(Measured)
    /\ failed = Cardinality(Ended("failed"))
    /\ sloOK = Cardinality({r \in Measured : log[r].lat <= Slo})
    /\ idx = ok + failed + Cardinality(Ended("ok") \ Measured) + Cardinality(InFlight)
    /\ lats = IF ok < Cap THEN ok ELSE Cap

(* A run passes exactly when some answer was counted and at least MinPct     *)
(* percent of those counted came within the SLO, whatever happened while it  *)
(* warmed up. Requests that failed are not weighed at all.                   *)
PassIsEarned ==
    verdict # Pending =>
        (verdict = "PASS" <=>
            /\ Measured # {} /\ Cap > 0
            /\ 100 * Cardinality({r \in Measured : log[r].lat > Slo})
                 <= (100 - MinPct) * Cardinality(Measured))

(* The gate as it is documented: a run passes only if MinPct percent of its  *)
(* requests, those that ended after the warm-up, were completed within Slo.  *)
(* The code weighs answers only, so this does not hold.                      *)
Tried == {r \in Ended("ok") \cup Ended("failed") : log[r].to > Warm}
GateAsDocumented ==
    verdict = "PASS" =>
        100 * Cardinality({r \in Measured : log[r].lat <= Slo}) >= MinPct * Cardinality(Tried)

(* A server that stops answering cannot keep the generator from reporting.   *)
Reports == <>(verdict # Pending)

=============================================================================
