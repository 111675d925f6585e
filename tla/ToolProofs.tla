----------------------------- MODULE ToolProofs -------------------------------
(* go/bench and go/paritycheck: what the tools report is true, of any number *)
(* of workers, any durations and any room for latencies, and for files of    *)
(* any lengths.                                                              *)
EXTENDS ParityCheck, Bench, ListLemmas, FiniteSetTheorems

Logged == [from : Nat, lat : Int, to : Nat, res : {Pending, "ok", "failed"}]

BenchTypeOK ==
    /\ now \in Nat
    /\ phase \in [Workers -> {"loop", "post", "read", "done"}]
    /\ req \in [Workers -> Nat] /\ status \in [Workers -> Nat]
    /\ idx \in Nat /\ ok \in Nat /\ failed \in Nat /\ sloOK \in Nat /\ lats \in Nat
    /\ log \in Seq(Logged)

(* The requests in flight are entries of the log that have not ended, and no *)
(* two workers are at the same one: a request ends once.                     *)
FlightOK ==
    /\ idx = Len(log)
    /\ \A w \in InFlight : req[w] \in DOMAIN log /\ log[req[w]].res = Pending
    /\ \A v, w \in InFlight : req[v] = req[w] => v = w

(* The report is made when nothing changes any more.                         *)
VerdictOK == verdict # Pending => verdict = Verdict /\ \A w \in Workers : phase[w] = "done"

BenchInv == BenchTypeOK /\ FlightOK /\ CountersAddUp /\ VerdictOK

-----------------------------------------------------------------------------
(* The sets that are counted *)

Timely == {r \in Measured : log[r].lat <= Slo}
WarmUp == Ended("ok") \ Measured

Counts ==
    /\ ok = Cardinality(Measured)
    /\ failed = Cardinality(Ended("failed"))
    /\ sloOK = Cardinality(Timely)
    /\ idx = ok + failed + Cardinality(WarmUp) + Cardinality(InFlight)
    /\ lats = IF ok < Cap THEN ok ELSE Cap

LEMMA CountsAddUp == CountersAddUp = Counts /\ CountersAddUp' = Counts'
  BY DEF CountersAddUp, Counts, Timely, WarmUp

LEMMA LogFinite ==
    ASSUME log \in Seq(Logged)
    PROVE  /\ DOMAIN log = 1..Len(log) /\ Len(log) \in Nat
           /\ \A T : T \subseteq DOMAIN log => IsFiniteSet(T)
<1>1. DOMAIN log = 1..Len(log) /\ Len(log) \in Nat
  OBVIOUS
<1>2. IsFiniteSet(DOMAIN log)
  BY <1>1, FS_Interval
<1> QED
  BY <1>1, <1>2, FS_Subset

LEMMA FlightFinite == IsFiniteSet(InFlight)
  BY BenchAssumption, FS_Subset DEF InFlight

LEMMA SetsFinite ==
    ASSUME log \in Seq(Logged)
    PROVE  /\ IsFiniteSet(Measured) /\ IsFiniteSet(Ended("failed"))
           /\ IsFiniteSet(Timely) /\ IsFiniteSet(WarmUp)
<1>1. /\ Ended("ok") \subseteq DOMAIN log /\ Ended("failed") \subseteq DOMAIN log
  BY DEF Ended
<1>2. /\ Measured \subseteq DOMAIN log /\ Timely \subseteq DOMAIN log
      /\ WarmUp \subseteq DOMAIN log
  BY <1>1 DEF Measured, Timely, WarmUp
<1> QED
  BY <1>1, <1>2, LogFinite

(* Sending a request, or its answer, ends none.                              *)
LEMMA SetsKept ==
    ASSUME DOMAIN log \subseteq DOMAIN log',
           \A r \in DOMAIN log : log'[r].res = log[r].res /\ log'[r].to = log[r].to,
           \A r \in DOMAIN log : log[r].res # Pending => log'[r].lat = log[r].lat,
           \A r \in DOMAIN log' \ DOMAIN log : log'[r].res = Pending
    PROVE  /\ Measured' = Measured /\ Ended("failed")' = Ended("failed")
           /\ Timely' = Timely /\ WarmUp' = WarmUp
<1>1. Ended("ok")' = Ended("ok") /\ Ended("failed")' = Ended("failed")
  BY DEF Ended, Pending
<1>2. Measured' = Measured
  BY <1>1 DEF Measured, Ended
<1>3. Timely' = Timely
  BY <1>2 DEF Timely, Measured, Ended, Pending
<1> QED
  BY <1>1, <1>2, <1>3 DEF WarmUp

(* The request of w ends.                                                    *)
LEMMA LogEntryEnds ==
    ASSUME BenchInv, NEW w \in InFlight, NEW res \in {"ok", "failed"}, EndsAs(w, res)
    PROVE  /\ log' \in Seq(Logged) /\ Len(log') = Len(log) /\ DOMAIN log' = DOMAIN log
           /\ req[w] \in DOMAIN log /\ log[req[w]].res = Pending
           /\ log'[req[w]].res = res /\ log'[req[w]].to = now
           /\ log'[req[w]].lat = log[req[w]].lat
           /\ \A r \in DOMAIN log : r # req[w] => log'[r] = log[r]
<1> DEFINE q == req[w]
           e == [log[q] EXCEPT !.to = now, !.res = res]
<1>1. q \in DOMAIN log /\ log[q].res = Pending /\ log \in Seq(Logged) /\ now \in Nat
  BY DEF BenchInv, FlightOK, BenchTypeOK
<1>2. log[q] \in Logged
  BY <1>1
<1>3. /\ e \in Logged /\ e.to = now /\ e.res = res /\ e.lat = log[q].lat
  BY <1>1, <1>2 DEF Logged
<1>4. log' = [log EXCEPT ![q] = e]
  BY <1>1, <1>2 DEF EndsAs, Logged
<1> HIDE DEF e
<1>5. log' \in Seq(Logged) /\ Len(log') = Len(log) /\ DOMAIN log' = DOMAIN log
  BY <1>1, <1>3, <1>4
<1> QED
  BY <1>1, <1>3, <1>4, <1>5

LEMMA SetsEnd ==
    ASSUME BenchInv, NEW w \in InFlight, NEW res \in {"ok", "failed"}, EndsAs(w, res)
    PROVE  /\ req[w] \notin Measured \cup Ended("failed") \cup Timely \cup WarmUp
           /\ Ended("failed")' = IF res = "failed" THEN Ended("failed") \cup {req[w]}
                                                   ELSE Ended("failed")
           /\ Measured' = IF res = "ok" /\ now > Warm THEN Measured \cup {req[w]}
                                                      ELSE Measured
           /\ WarmUp' = IF res = "ok" /\ ~(now > Warm) THEN WarmUp \cup {req[w]}
                                                       ELSE WarmUp
           /\ Timely' = IF res = "ok" /\ now > Warm /\ log[req[w]].lat <= Slo
                        THEN Timely \cup {req[w]} ELSE Timely
<1> DEFINE q == req[w]
<1>1. /\ DOMAIN log' = DOMAIN log /\ q \in DOMAIN log /\ log[q].res = Pending
      /\ log'[q].res = res /\ log'[q].to = now /\ log'[q].lat = log[q].lat
      /\ \A r \in DOMAIN log : r # q => log'[r] = log[r]
  BY LogEntryEnds
<1> HIDE DEF q
<1>2. q \notin Ended("ok") /\ q \notin Ended("failed")
  BY <1>1 DEF Ended, Pending
<1>3. /\ Ended("ok")' = IF res = "ok" THEN Ended("ok") \cup {q} ELSE Ended("ok")
      /\ Ended("failed")' = IF res = "failed" THEN Ended("failed") \cup {q} ELSE Ended("failed")
  BY <1>1 DEF Ended, Pending
<1>4. Measured' = IF res = "ok" /\ now > Warm THEN Measured \cup {q} ELSE Measured
  <2>1. \A r \in Ended("ok") : r # q /\ log'[r] = log[r]
    BY <1>1, <1>2 DEF Ended
  <2> QED
    BY <1>1, <1>3, <2>1 DEF Measured
<1>5. Timely' = IF res = "ok" /\ now > Warm /\ log[q].lat <= Slo THEN Timely \cup {q} ELSE Timely
  <2>1. \A r \in Measured : r # q /\ log'[r] = log[r]
    BY <1>1, <1>2 DEF Measured, Ended
  <2> QED
    BY <1>1, <1>4, <2>1 DEF Timely
<1>6. WarmUp' = IF res = "ok" /\ ~(now > Warm) THEN WarmUp \cup {q} ELSE WarmUp
  BY <1>2, <1>3, <1>4 DEF WarmUp, Measured
<1>7. q \notin Measured \cup Ended("failed") \cup Timely \cup WarmUp
  BY <1>2 DEF Measured, Timely, WarmUp
<1> QED
  BY <1>3, <1>4, <1>5, <1>6, <1>7 DEF q

-----------------------------------------------------------------------------
(* The steps *)

LEMMA BenchStart == BenchInit => BenchInv
<1> SUFFICES ASSUME BenchInit PROVE BenchInv
  OBVIOUS
<1>1. /\ log = <<>> /\ DOMAIN log = {} /\ InFlight = {}
      /\ now = 0 /\ idx = 0 /\ ok = 0 /\ failed = 0 /\ sloOK = 0 /\ lats = 0
  BY DEF BenchInit, InFlight
<1>2. Ended("ok") = {} /\ Ended("failed") = {}
  BY <1>1 DEF Ended
<1>3. Measured = {} /\ Timely = {} /\ WarmUp = {}
  BY <1>2 DEF Measured, Timely, WarmUp
<1>4. BenchTypeOK /\ FlightOK /\ VerdictOK
  BY <1>1 DEF BenchInit, BenchTypeOK, FlightOK, VerdictOK, InFlight, Pending
<1>5. CountersAddUp
  <2>1. /\ Cardinality(Measured) = 0 /\ Cardinality(Ended("failed")) = 0
        /\ Cardinality(Timely) = 0 /\ Cardinality(WarmUp) = 0 /\ Cardinality(InFlight) = 0
    BY <1>1, <1>2, <1>3, FS_EmptySet
  <2>2. lats = IF ok < Cap THEN ok ELSE Cap
    BY <1>1, BenchAssumption
  <2>3. Counts
    BY <1>1, <2>1, <2>2 DEF Counts
  <2> QED
    BY <2>3, CountsAddUp
<1> QED
  BY <1>4, <1>5 DEF BenchInv

LEMMA StartStep == ASSUME BenchInv, NEW w \in Workers, Start(w) PROVE BenchInv'
<1> DEFINE e == [from |-> now, lat |-> 0, to |-> 0, res |-> Pending]
           m == Len(log) + 1
<1>1. /\ phase[w] = "loop" /\ phase' = [phase EXCEPT ![w] = "post"]
      /\ idx' = idx + 1 /\ req' = [req EXCEPT ![w] = idx + 1] /\ log' = Append(log, e)
      /\ UNCHANGED <<now, status, ok, failed, sloOK, lats, verdict>>
  BY DEF Start
<1>2. BenchTypeOK /\ FlightOK /\ CountersAddUp
  BY DEF BenchInv
<1>3. e \in Logged /\ e.res = Pending
  BY <1>2 DEF BenchTypeOK, Logged
<1> HIDE DEF e
<1>4. /\ log' \in Seq(Logged) /\ Len(log') = m /\ DOMAIN log' = DOMAIN log \cup {m}
      /\ m \notin DOMAIN log /\ log'[m] = e
      /\ \A r \in DOMAIN log : log'[r] = log[r]
  BY <1>1, <1>2, <1>3 DEF BenchTypeOK
<1> HIDE DEF m
<1>5. BenchTypeOK'
  BY <1>1, <1>2, <1>4 DEF BenchTypeOK
<1>6. InFlight' = InFlight \cup {w} /\ w \notin InFlight
  BY <1>1, <1>2 DEF InFlight, BenchTypeOK
<1>7. m = idx + 1 /\ req'[w] = m /\ \A v \in Workers : v # w => req'[v] = req[v]
  BY <1>1, <1>2 DEF FlightOK, BenchTypeOK, m
<1>8. FlightOK'
  <2>1. \A v \in InFlight : /\ v # w /\ v \in Workers
                            /\ req'[v] \in DOMAIN log /\ log[req'[v]].res = Pending
    BY <1>2, <1>6, <1>7 DEF FlightOK, InFlight
  <2>2. \A v \in InFlight' : req'[v] \in DOMAIN log' /\ log'[req'[v]].res = Pending
    BY <1>3, <1>4, <1>6, <1>7, <2>1
  <2>3. \A v, u \in InFlight' : req'[v] = req'[u] => v = u
    BY <1>2, <1>4, <1>6, <1>7, <2>1 DEF FlightOK
  <2>4. idx' = Len(log')
    BY <1>1, <1>4, <1>7
  <2> QED
    BY <2>2, <2>3, <2>4 DEF FlightOK
<1>9. CountersAddUp'
  <2>1. /\ Measured' = Measured /\ Ended("failed")' = Ended("failed")
        /\ Timely' = Timely /\ WarmUp' = WarmUp
    BY <1>3, <1>4, SetsKept
  <2>2. Cardinality(InFlight') = Cardinality(InFlight) + 1
    BY <1>6, FlightFinite, FS_AddElement
  <2>3. /\ Cardinality(InFlight) \in Nat /\ Cardinality(WarmUp) \in Nat
    BY <1>2, FlightFinite, SetsFinite, FS_CardinalityType DEF BenchTypeOK
  <2>4. Counts
    BY <1>2, CountsAddUp
  <2>5. idx' = ok' + failed' + Cardinality(WarmUp') + Cardinality(InFlight')
    <3> DEFINE u == Cardinality(WarmUp)
               b == Cardinality(InFlight)
    <3>1. /\ idx = ok + failed + u + b /\ u \in Nat /\ b \in Nat
          /\ Cardinality(WarmUp') = u /\ Cardinality(InFlight') = b + 1
      BY <2>1, <2>2, <2>3, <2>4 DEF Counts
    <3> HIDE DEF u, b
    <3> QED
      BY <1>1, <1>2, <3>1 DEF BenchTypeOK
  <2>6. Counts'
    BY <1>1, <2>1, <2>4, <2>5 DEF Counts
  <2> QED
    BY <2>6, CountsAddUp
<1>10. VerdictOK'
  BY <1>1 DEF BenchInv, VerdictOK
<1> QED
  BY <1>5, <1>8, <1>9, <1>10 DEF BenchInv

LEMMA LeaveStep == ASSUME BenchInv, NEW w \in Workers, Leave(w) PROVE BenchInv'
<1>1. /\ phase[w] = "loop" /\ phase' = [phase EXCEPT ![w] = "done"]
      /\ UNCHANGED <<now, req, status, idx, ok, failed, sloOK, lats, verdict, log>>
  BY DEF Leave, counters
<1>2. InFlight' = InFlight
  BY <1>1 DEF InFlight, BenchInv, BenchTypeOK
<1>3. Measured' = Measured /\ \A res : Ended(res)' = Ended(res)
  BY <1>1 DEF Measured, Ended
<1>4. CountersAddUp'
  BY <1>1, <1>2, <1>3 DEF BenchInv, CountersAddUp
<1>5. BenchTypeOK' /\ FlightOK'
  BY <1>1, <1>2 DEF BenchInv, BenchTypeOK, FlightOK
<1>6. VerdictOK'
  BY <1>1 DEF BenchInv, VerdictOK
<1> QED
  BY <1>4, <1>5, <1>6 DEF BenchInv

(* A request is over, and its worker is free for the next.                   *)
LEMMA RequestEnds ==
    ASSUME BenchInv, NEW w \in InFlight, NEW res \in {"ok", "failed"}, EndsAs(w, res),
           phase' = [phase EXCEPT ![w] = "loop"],
           UNCHANGED <<now, req, status, idx, verdict>>
    PROVE  /\ InFlight' = InFlight \ {w}
           /\ FlightOK' /\ VerdictOK'
           /\ phase' \in [Workers -> {"loop", "post", "read", "done"}]
           /\ log' \in Seq(Logged)
<1>1. /\ BenchTypeOK /\ FlightOK /\ VerdictOK /\ w \in Workers /\ phase[w] # "done"
  BY DEF BenchInv, InFlight
<1>2. InFlight' = InFlight \ {w}
  BY <1>1 DEF InFlight, BenchTypeOK
<1>3. /\ log' \in Seq(Logged) /\ Len(log') = Len(log) /\ DOMAIN log' = DOMAIN log
      /\ \A r \in DOMAIN log : r # req[w] => log'[r] = log[r]
  BY LogEntryEnds
<1>4. FlightOK'
  BY <1>1, <1>2, <1>3 DEF FlightOK
<1>5. VerdictOK'
  BY <1>1 DEF VerdictOK
<1>6. phase' \in [Workers -> {"loop", "post", "read", "done"}]
  BY <1>1 DEF BenchTypeOK
<1> QED
  BY <1>2, <1>3, <1>4, <1>5, <1>6

LEMMA CallFailsStep == ASSUME BenchInv, NEW w \in Workers, CallFails(w) PROVE BenchInv'
<1>1. /\ w \in InFlight /\ EndsAs(w, "failed") /\ failed' = failed + 1
      /\ phase' = [phase EXCEPT ![w] = "loop"]
      /\ UNCHANGED <<now, req, status, idx, ok, sloOK, lats, verdict>>
  BY DEF CallFails, InFlight
<1>2. /\ InFlight' = InFlight \ {w} /\ FlightOK' /\ VerdictOK'
      /\ phase' \in [Workers -> {"loop", "post", "read", "done"}] /\ log' \in Seq(Logged)
  BY <1>1, RequestEnds
<1>3. BenchTypeOK /\ CountersAddUp
  BY DEF BenchInv
<1>4. BenchTypeOK'
  BY <1>1, <1>2, <1>3 DEF BenchTypeOK
<1>5. /\ req[w] \notin Ended("failed") /\ Ended("failed")' = Ended("failed") \cup {req[w]}
      /\ Measured' = Measured /\ WarmUp' = WarmUp /\ Timely' = Timely
  BY <1>1, SetsEnd
<1>6. Cardinality(InFlight') = Cardinality(InFlight) - 1
  BY <1>1, <1>2, FlightFinite, FS_RemoveElement
<1>7. Cardinality(Ended("failed")') = Cardinality(Ended("failed")) + 1
  BY <1>3, <1>5, SetsFinite, FS_AddElement DEF BenchTypeOK
<1>8. Cardinality(InFlight) \in Nat /\ Cardinality(WarmUp) \in Nat
  BY <1>3, FlightFinite, SetsFinite, FS_CardinalityType DEF BenchTypeOK
<1>9. CountersAddUp'
  <2>1. Counts
    BY <1>3, CountsAddUp
  <2> DEFINE u == Cardinality(WarmUp)
             b == Cardinality(InFlight)
             f == Cardinality(Ended("failed"))
  <2>2. /\ idx = ok + failed + u + b /\ u \in Nat /\ b \in Nat /\ failed = f
        /\ Cardinality(WarmUp') = u /\ Cardinality(InFlight') = b - 1
        /\ Cardinality(Ended("failed")') = f + 1
    BY <1>5, <1>6, <1>7, <1>8, <2>1 DEF Counts
  <2> HIDE DEF u, b, f
  <2>3. /\ idx' = ok' + failed' + Cardinality(WarmUp') + Cardinality(InFlight')
        /\ failed' = Cardinality(Ended("failed")')
    BY <1>1, <1>3, <2>2 DEF BenchTypeOK
  <2>4. Counts'
    BY <1>1, <1>5, <2>1, <2>3 DEF Counts
  <2> QED
    BY <2>4, CountsAddUp
<1> QED
  BY <1>2, <1>4, <1>9 DEF BenchInv

LEMMA RespondsStep == ASSUME BenchInv, NEW w \in Workers, Responds(w) PROVE BenchInv'
<1> DEFINE q == req[w]
           e == [log[q] EXCEPT !.lat = Elapsed(w)]
<1>1. /\ phase[w] = "post" /\ phase' = [phase EXCEPT ![w] = "read"]
      /\ log' = [log EXCEPT ![q].lat = Elapsed(w)]
      /\ UNCHANGED <<now, req, idx, ok, failed, sloOK, lats, verdict>>
  BY DEF Responds, counters
<1>2. BenchTypeOK /\ FlightOK /\ CountersAddUp /\ VerdictOK /\ w \in InFlight
  BY <1>1 DEF BenchInv, InFlight
<1>3. q \in DOMAIN log /\ log[q] \in Logged /\ log[q].res = Pending
  BY <1>2 DEF FlightOK, BenchTypeOK
<1>4. Elapsed(w) \in Int
  BY <1>2, <1>3 DEF Elapsed, BenchTypeOK, Logged
<1>5. /\ e \in Logged /\ e.res = log[q].res /\ e.to = log[q].to /\ log' = [log EXCEPT ![q] = e]
  BY <1>1, <1>3, <1>4 DEF Logged
<1> HIDE DEF e
<1>6. /\ log' \in Seq(Logged) /\ Len(log') = Len(log) /\ DOMAIN log' = DOMAIN log
      /\ log'[q] = e /\ \A r \in DOMAIN log : r # q => log'[r] = log[r]
  BY <1>2, <1>3, <1>5 DEF BenchTypeOK
<1> HIDE DEF q
<1>7. InFlight' = InFlight
  BY <1>1, <1>2 DEF InFlight, BenchTypeOK
<1>8. status' \in [Workers -> Nat]
  BY <1>2 DEF Responds, BenchTypeOK
<1>9. BenchTypeOK'
  BY <1>1, <1>2, <1>6, <1>8 DEF BenchTypeOK
<1>10. \A r \in DOMAIN log : /\ log'[r].res = log[r].res /\ log'[r].to = log[r].to
                             /\ log[r].res # Pending => log'[r].lat = log[r].lat
  BY <1>3, <1>5, <1>6
<1>11. FlightOK'
  BY <1>1, <1>2, <1>6, <1>7, <1>10 DEF FlightOK
<1>12. /\ Measured' = Measured /\ Ended("failed")' = Ended("failed")
       /\ Timely' = Timely /\ WarmUp' = WarmUp
  BY <1>6, <1>10, SetsKept
<1>13. CountersAddUp'
  <2>1. Counts
    BY <1>2, CountsAddUp
  <2>2. Counts'
    BY <1>1, <1>7, <1>12, <2>1 DEF Counts
  <2> QED
    BY <2>2, CountsAddUp
<1>14. VerdictOK'
  BY <1>1, <1>2 DEF VerdictOK
<1> QED
  BY <1>9, <1>11, <1>13, <1>14 DEF BenchInv

LEMMA ReadEndsStep == ASSUME BenchInv, NEW w \in Workers, ReadEnds(w) PROVE BenchInv'
<1> DEFINE good == status[w] = 200
           res == IF good THEN "ok" ELSE "failed"
           counted == good /\ now > Warm
           timely == counted /\ log[req[w]].lat <= Slo
<1>1. /\ w \in InFlight /\ EndsAs(w, res)
      /\ failed' = IF good THEN failed ELSE failed + 1
      /\ ok' = IF counted THEN ok + 1 ELSE ok
      /\ sloOK' = IF timely THEN sloOK + 1 ELSE sloOK
      /\ lats' = IF counted /\ lats < Cap THEN lats + 1 ELSE lats
      /\ phase' = [phase EXCEPT ![w] = "loop"]
      /\ UNCHANGED <<now, req, status, idx, verdict>>
  BY DEF ReadEnds, BodyRead, InFlight
<1>2. res \in {"ok", "failed"} /\ (res = "ok" <=> good) /\ (res = "failed" <=> ~good)
  OBVIOUS
<1>3. res = "ok" /\ now > Warm <=> counted
  OBVIOUS
<1> HIDE DEF good, res
<1>4. /\ InFlight' = InFlight \ {w} /\ FlightOK' /\ VerdictOK'
      /\ phase' \in [Workers -> {"loop", "post", "read", "done"}] /\ log' \in Seq(Logged)
  BY <1>1, <1>2, RequestEnds
<1>5. BenchTypeOK /\ CountersAddUp
  BY DEF BenchInv
<1>6. /\ req[w] \notin Measured \cup Ended("failed") \cup Timely \cup WarmUp
      /\ Ended("failed")' = IF good THEN Ended("failed") ELSE Ended("failed") \cup {req[w]}
      /\ Measured' = IF counted THEN Measured \cup {req[w]} ELSE Measured
      /\ WarmUp' = IF good /\ ~counted THEN WarmUp \cup {req[w]} ELSE WarmUp
      /\ Timely' = IF timely THEN Timely \cup {req[w]} ELSE Timely
  BY <1>1, <1>2, SetsEnd
<1> HIDE DEF counted, timely
<1>7. BenchTypeOK'
  BY <1>1, <1>4, <1>5, BenchAssumption DEF BenchTypeOK
<1>8. Cardinality(InFlight') = Cardinality(InFlight) - 1
  BY <1>1, <1>4, FlightFinite, FS_RemoveElement
<1>9. /\ Cardinality(Ended("failed")') = Cardinality(Ended("failed")) + IF good THEN 0 ELSE 1
      /\ Cardinality(Measured') = Cardinality(Measured) + IF counted THEN 1 ELSE 0
      /\ Cardinality(WarmUp') = Cardinality(WarmUp) + IF good /\ ~counted THEN 1 ELSE 0
      /\ Cardinality(Timely') = Cardinality(Timely) + IF timely THEN 1 ELSE 0
  <2>1. \A S : IsFiniteSet(S) /\ req[w] \notin S
                  => Cardinality(S \cup {req[w]}) = Cardinality(S) + 1
    BY FS_AddElement
  <2>2. /\ IsFiniteSet(Measured) /\ IsFiniteSet(Ended("failed"))
        /\ IsFiniteSet(Timely) /\ IsFiniteSet(WarmUp)
        /\ Cardinality(Measured) \in Nat /\ Cardinality(Ended("failed")) \in Nat
        /\ Cardinality(Timely) \in Nat /\ Cardinality(WarmUp) \in Nat
    BY <1>5, SetsFinite, FS_CardinalityType DEF BenchTypeOK
  <2> QED
    BY <1>6, <2>1, <2>2
<1>10. /\ Cardinality(InFlight) \in Nat /\ Cardinality(WarmUp) \in Nat
  BY <1>5, FlightFinite, SetsFinite, FS_CardinalityType DEF BenchTypeOK
<1>11. counted => good
  BY DEF counted
<1>12. CountersAddUp'
  <2>1. Counts
    BY <1>5, CountsAddUp
  <2> DEFINE m == Cardinality(Measured)
             f == Cardinality(Ended("failed"))
             t == Cardinality(Timely)
             u == Cardinality(WarmUp)
             b == Cardinality(InFlight)
  <2>2. /\ ok = m /\ failed = f /\ sloOK = t /\ idx = ok + failed + u + b
        /\ lats = IF ok < Cap THEN ok ELSE Cap
        /\ u \in Nat /\ b \in Nat
    BY <1>10, <2>1 DEF Counts
  <2>3. /\ Cardinality(Measured') = m + IF counted THEN 1 ELSE 0
        /\ Cardinality(Ended("failed")') = f + IF good THEN 0 ELSE 1
        /\ Cardinality(Timely') = t + IF timely THEN 1 ELSE 0
        /\ Cardinality(WarmUp') = u + IF good /\ ~counted THEN 1 ELSE 0
        /\ Cardinality(InFlight') = b - 1
    BY <1>8, <1>9
  <2> HIDE DEF m, f, t, u, b
  <2>4. ok' = Cardinality(Measured') /\ failed' = Cardinality(Ended("failed")')
    BY <1>1, <1>5, <2>2, <2>3 DEF BenchTypeOK
  <2>5. sloOK' = Cardinality(Timely')
    BY <1>1, <1>5, <2>2, <2>3 DEF BenchTypeOK
  <2>6. idx' = ok' + failed' + Cardinality(WarmUp') + Cardinality(InFlight')
    BY <1>1, <1>5, <1>11, <2>2, <2>3 DEF BenchTypeOK
  <2>7. lats' = IF ok' < Cap THEN ok' ELSE Cap
    BY <1>1, <1>5, <2>2, BenchAssumption DEF BenchTypeOK
  <2>8. Counts'
    BY <2>4, <2>5, <2>6, <2>7 DEF Counts
  <2> QED
    BY <2>8, CountsAddUp
<1> QED
  BY <1>4, <1>7, <1>12 DEF BenchInv

LEMMA TickStep == ASSUME BenchInv, Tick PROVE BenchInv'
<1>1. /\ now' = now + 1 /\ UNCHANGED <<phase, req, status, idx, ok, failed, sloOK, lats, verdict, log>>
      /\ \E w \in Workers : phase[w] # "done"
  BY DEF Tick, counters
<1>2. verdict = Pending
  BY <1>1 DEF BenchInv, VerdictOK
<1>3. InFlight' = InFlight /\ Measured' = Measured /\ \A res : Ended(res)' = Ended(res)
  BY <1>1 DEF InFlight, Measured, Ended
<1>4. CountersAddUp'
  BY <1>1, <1>3 DEF BenchInv, CountersAddUp
<1> QED
  BY <1>1, <1>2, <1>3, <1>4 DEF BenchInv, BenchTypeOK, FlightOK, VerdictOK

LEMMA QuietStep ==
    ASSUME BenchInv, Judge \/ UNCHANGED benchVars PROVE BenchInv'
<1>1. UNCHANGED <<now, phase, req, status, idx, ok, failed, sloOK, lats, log>>
  BY DEF Judge, benchVars, counters
<1>2. InFlight' = InFlight /\ Measured' = Measured /\ \A res : Ended(res)' = Ended(res)
  BY <1>1 DEF InFlight, Measured, Ended
<1>3. CountersAddUp' /\ BenchTypeOK' /\ FlightOK'
  BY <1>1, <1>2 DEF BenchInv, CountersAddUp, BenchTypeOK, FlightOK
<1>4. VerdictOK'
  BY <1>1 DEF BenchInv, VerdictOK, Verdict, Judge, benchVars
<1> QED
  BY <1>3, <1>4 DEF BenchInv

-----------------------------------------------------------------------------
(* What the report says *)

(* Every request is at one worker or ended, in one count of main, and the    *)
(* verdict is made when all workers have left.                               *)
THEOREM BenchInvariant == BenchSpec => []BenchInv
<1>1. ASSUME BenchInv, [BenchNext]_benchVars PROVE BenchInv'
  <2>1. CASE \E w \in Workers : Worker(w)
    BY <1>1, <2>1, StartStep, LeaveStep, CallFailsStep, RespondsStep, ReadEndsStep DEF Worker
  <2>2. CASE Tick
    BY <1>1, <2>2, TickStep
  <2>3. CASE Judge \/ UNCHANGED benchVars
    BY <1>1, <2>3, QuietStep
  <2> QED
    BY <1>1, <2>1, <2>2, <2>3 DEF BenchNext, BenchRest
<1> QED
  BY <1>1, BenchStart, PTL DEF BenchSpec

(* Every request is in flight or in exactly one of the counts, for any number*)
(* of workers and however their calls end.                                   *)
THEOREM EveryRequestCounted == BenchSpec => []CountersAddUp
<1>1. BenchInv => CountersAddUp
  BY DEF BenchInv
<1> QED
  BY <1>1, BenchInvariant, PTL

LEMMA VerdictEarned == BenchInv => PassIsEarned
<1> DEFINE late == {r \in Measured : log[r].lat > Slo}
           m == Cardinality(Measured)
           l == Cardinality(late)
<1> SUFFICES ASSUME BenchInv, verdict # Pending
             PROVE  verdict = "PASS" <=> Measured # {} /\ Cap > 0 /\ 100 * l <= (100 - MinPct) * m
  BY DEF PassIsEarned
<1>1. /\ BenchTypeOK /\ verdict = Verdict
      /\ ok = m /\ sloOK = Cardinality(Timely) /\ lats = IF ok < Cap THEN ok ELSE Cap
  BY DEF BenchInv, VerdictOK, CountersAddUp, Timely
<1>2. IsFiniteSet(Measured) /\ IsFiniteSet(Timely) /\ m \in Nat
  BY <1>1, SetsFinite, FS_CardinalityType DEF BenchTypeOK
<1>3. Measured # {} <=> m # 0
  BY <1>2, FS_EmptySet
<1>4. late = Measured \ Timely /\ Measured \cap Timely = Timely
  <2>1. \A r \in Measured : log[r].lat \in Int
    <3>1. \A r \in DOMAIN log : log[r] \in Logged
      BY <1>1 DEF BenchTypeOK
    <3> QED
      BY <3>1 DEF Measured, Ended, Logged
  <2>2. \A r \in Measured : log[r].lat > Slo <=> ~(log[r].lat <= Slo)
    BY <2>1, BenchAssumption
  <2> QED
    BY <2>2 DEF Timely
<1>5. l = m - sloOK
  BY <1>1, <1>2, <1>4, FS_Difference, ZenonT(20)
<1> HIDE DEF late, m, l
<1>6. lats > 0 <=> m # 0 /\ Cap > 0
  BY <1>1, <1>2, BenchAssumption DEF BenchTypeOK
<1>7. verdict = "PASS" <=> lats > 0 /\ (ok = 0 \/ 100 * sloOK >= MinPct * ok)
  BY <1>1 DEF Verdict
<1>8. 100 * sloOK >= MinPct * ok <=> 100 * l <= (100 - MinPct) * m
  <2>1. MinPct \in Int /\ m \in Int /\ sloOK \in Int /\ ok = m /\ l = m - sloOK
    BY <1>1, <1>2, <1>5, BenchAssumption DEF BenchTypeOK
  <2>2. (100 - MinPct) * m = 100 * m - MinPct * m /\ MinPct * m \in Int
    BY <2>1
  <2> QED
    BY <2>1, <2>2
<1> QED
  BY <1>1, <1>3, <1>6, <1>7, <1>8

(* PassIsEarned: the verdict is PASS exactly when an answer was counted and  *)
(* at least MinPct percent of those counted came within the SLO.             *)
THEOREM VerdictIsEarned == BenchSpec => []PassIsEarned
  BY BenchInvariant, VerdictEarned, PTL

-----------------------------------------------------------------------------
-----------------------------------------------------------------------------
(* The inductive invariant *)

InputOK ==
    \E r \in Runs : /\ mode = r.mode /\ probe = r.probe
                    /\ dump = r.dump /\ fixtures = r.fixtures
CountOK == n \in Nat /\ k \in Nat /\ nBad \in Nat

(* Mode tokens: nothing differs as long as nothing is counted.               *)
StateAlike(i) == probe[i].state[1] = probe[i].state[2]
QuestionsAlike(i, m) == \A j \in 1..m : QuestionAlike(probe[i].questions[j])
EntryAlike(i) == StateAlike(i) /\ QuestionsAlike(i, Len(probe[i].questions))
AllAlike == \A i \in 1..Len(probe) : EntryAlike(i)

TokensOK ==
    mode = "tokens" =>
        /\ pc \in {"tokens", "entry", "done"}
        /\ pc = "tokens" =>
              /\ n <= Len(probe) /\ k = 0
              /\ nBad = 0 <=> \A i \in 1..n : EntryAlike(i)
        /\ pc = "entry" =>
              /\ n < Len(probe) /\ k <= Len(probe[n + 1].questions)
              /\ nBad = 0 <=> /\ \A i \in 1..n : EntryAlike(i)
                              /\ StateAlike(n + 1) /\ QuestionsAlike(n + 1, k)
        /\ pc = "done" => (exit = 0 <=> AllAlike)

(* The other modes: the table of the dump is that of the lines read so far,  *)
(* and nothing is counted as long as all questions are built as dumped.      *)
LastAmong(id, S) ==
    \E i \in S : /\ dump[i].id = id /\ parity[id] = dump[i]
                 /\ \A j \in S : dump[j].id = id => j <= i
TableOf(S) ==
    /\ DOMAIN parity = {dump[i].id : i \in S}
    /\ \A id \in DOMAIN parity : LastAmong(id, S)

LineSound(i) ==
    LinesOf(fixtures[i].id) # {} => \A j \in DOMAIN fixtures[i].questions : BuiltAsDumped(i, j)
SoundUpto(m, j) == (\A i \in 1..m : LineSound(i)) /\ \A h \in 1..j : BuiltAsDumped(m + 1, h)

ReadOK(file, m) == 1..m \subseteq Delivered(file) /\ \A i \in 1..m : file[i] # Broken

SeqOK ==
    mode # "tokens" =>
        /\ pc \in {"parity", "fixtures", "run", "done"}
        /\ pc = "parity" => ReadOK(dump, n) /\ TableOf(1..n) /\ k = 0 /\ nBad = 0
        /\ pc = "fixtures" =>
              /\ Readable(dump) /\ TableOf(Delivered(dump))
              /\ ReadOK(fixtures, n)
              /\ k > 0 => /\ n + 1 \in Delivered(fixtures) /\ Line # Broken
                          /\ LinesOf(Line.id) # {} /\ k <= Len(Line.questions)
              /\ nBad = 0 <=> SoundUpto(n, k)
        /\ pc = "run" => SeqSound /\ mode = "full"
        /\ pc = "done" => (exit = 0 => SeqSound) /\ (mode = "seq" /\ SeqSound => exit = 0)

ParityInv == InputOK /\ CountOK /\ TokensOK /\ SeqOK

-----------------------------------------------------------------------------
(* The inputs *)

QuestionTyped(q) ==
    /\ IsList(q.want) /\ \A w \in Elems(q.want) : IsList(w)
    /\ q.opts # Nil => IsList(q.opts) /\ \A o \in Elems(q.opts) : IsList(o)

LEMMA ListDomain ==
    ASSUME NEW s, IsList(s)
    PROVE  DOMAIN s = 1..Len(s) /\ Len(s) \in Nat /\ \A i \in DOMAIN s : s[i] \in Elems(s)
  BY DEF IsList, Elems

LEMMA InputTypes ==
    ASSUME InputOK
    PROVE  /\ mode \in {"tokens", "seq", "full"}
           /\ IsList(probe) /\ IsList(dump) /\ IsList(fixtures)
           /\ \A i \in DOMAIN probe :
                 /\ IsList(probe[i].questions)
                 /\ \A j \in DOMAIN probe[i].questions : QuestionTyped(probe[i].questions[j])
           /\ \A i \in DOMAIN fixtures :
                 fixtures[i] \notin {Long, Broken} => IsList(fixtures[i].questions)
<1>1. PICK r \in Runs : mode = r.mode /\ probe = r.probe /\ dump = r.dump /\ fixtures = r.fixtures
  BY DEF InputOK
<1>2. /\ mode \in {"tokens", "seq", "full"}
      /\ IsList(probe) /\ IsList(dump) /\ IsList(fixtures)
      /\ \A e \in Elems(probe) :
            IsList(e.questions) /\ \A q \in Elems(e.questions) : QuestionTyped(q)
      /\ \A l \in Elems(fixtures) \ {Long, Broken} : IsList(l.questions)
  BY <1>1, RunAssumption DEF QuestionTyped
<1>3. /\ \A i \in DOMAIN probe : probe[i] \in Elems(probe)
      /\ \A i \in DOMAIN fixtures : fixtures[i] \in Elems(fixtures)
  BY <1>2, ListDomain
<1>4. ASSUME NEW i \in DOMAIN probe
      PROVE  /\ IsList(probe[i].questions)
             /\ \A j \in DOMAIN probe[i].questions : QuestionTyped(probe[i].questions[j])
  <2>1. IsList(probe[i].questions) /\ \A q \in Elems(probe[i].questions) : QuestionTyped(q)
    BY <1>2, <1>3
  <2> QED
    BY <2>1, ListDomain
<1> QED
  BY <1>2, <1>3, <1>4

(* What is said of the inputs stays as it is.                                *)
LEMMA InputsKept ==
    ASSUME UNCHANGED inputs
    PROVE  /\ mode' = mode /\ probe' = probe /\ dump' = dump /\ fixtures' = fixtures
           /\ InputOK' = InputOK
           /\ \A i : EntryAlike(i)' = EntryAlike(i) /\ StateAlike(i)' = StateAlike(i)
           /\ \A i, m : QuestionsAlike(i, m)' = QuestionsAlike(i, m)
           /\ AllAlike' = AllAlike
           /\ \A id : LinesOf(id)' = LinesOf(id) /\ EntryOf(id)' = EntryOf(id)
           /\ \A i : LineSound(i)' = LineSound(i)
           /\ \A i, j : BuiltAsDumped(i, j)' = BuiltAsDumped(i, j)
           /\ \A m, j : SoundUpto(m, j)' = SoundUpto(m, j)
           /\ SeqSound' = SeqSound
<1>1. mode' = mode /\ probe' = probe /\ dump' = dump /\ fixtures' = fixtures
  BY DEF inputs
<1>2. InputOK' = InputOK
  BY <1>1 DEF InputOK
<1>3. /\ \A i : EntryAlike(i)' = EntryAlike(i) /\ StateAlike(i)' = StateAlike(i)
      /\ \A i, m : QuestionsAlike(i, m)' = QuestionsAlike(i, m)
      /\ AllAlike' = AllAlike
  BY <1>1 DEF EntryAlike, StateAlike, QuestionsAlike, AllAlike
<1>4. \A id : LinesOf(id)' = LinesOf(id)
  BY <1>1 DEF LinesOf, Delivered
<1>5. \A id : EntryOf(id)' = EntryOf(id)
  BY <1>1, <1>4 DEF EntryOf
<1>6. \A i, j : BuiltAsDumped(i, j)' = BuiltAsDumped(i, j)
  BY <1>1, <1>5 DEF BuiltAsDumped
<1>7. \A i : LineSound(i)' = LineSound(i)
  BY <1>1, <1>4, <1>6 DEF LineSound
<1>8. \A m, j : SoundUpto(m, j)' = SoundUpto(m, j)
  BY <1>6, <1>7 DEF SoundUpto
<1>9. SeqSound' = SeqSound
  BY <1>1, <1>4, <1>6 DEF SeqSound, Readable, Delivered
<1> QED
  BY <1>1, <1>2, <1>3, <1>4, <1>5, <1>6, <1>7, <1>8, <1>9

-----------------------------------------------------------------------------
(* Mode tokens *)

(* An option is cut as Python cut its own.                                   *)
LEMMA CutAlike ==
    ASSUME NEW s, NEW w, IsList(s), IsList(w)
    PROVE  Cut(s) = w <=> OptionAlike(s, w)
<1> DEFINE a == Len(s)
           b == Len(w)
           c == IF a > OptCut THEN OptCut ELSE a
<1>1. a \in Nat /\ b \in Nat /\ OptCut \in Nat
  BY ListDomain, BatchAssumption
<1>2. DOMAIN s = 1..a /\ DOMAIN w = 1..b
  BY ListDomain
<1>3. Cut(s) = SubSeq(s, 1, c)
  BY DEF Cut
<1> HIDE DEF a, b
<1>4. /\ c \in Nat /\ c <= a /\ c <= OptCut
      /\ c < OptCut => c = a
      /\ c < a => c = OptCut
  BY <1>1
<1> HIDE DEF c
<1>5. /\ Cut(s) \in Seq(Elems(s)) /\ Len(Cut(s)) = c
      /\ \A i \in 1..c : Cut(s)[i] = s[i]
  <2>1. s \in Seq(Elems(s)) /\ a = Len(s)
    BY DEF IsList, a
  <2> QED
    BY <1>1, <1>3, <1>4, <2>1
<1>6. ASSUME Cut(s) = w PROVE OptionAlike(s, w)
  <2>1. b = c
    BY <1>5, <1>6 DEF b
  <2>2. \A t \in 1..b : t \in 1..a /\ s[t] = w[t]
    BY <1>1, <1>4, <1>5, <1>6, <2>1
  <2>3. b <= OptCut /\ (b < OptCut => a = b)
    BY <1>4, <2>1
  <2> QED
    BY <1>2, <2>2, <2>3 DEF OptionAlike, a, b
<1>7. ASSUME OptionAlike(s, w) PROVE Cut(s) = w
  <2>1. /\ b <= OptCut /\ (b < OptCut => a = b)
        /\ \A t \in 1..b : t \in 1..a /\ s[t] = w[t]
    BY <1>2, <1>7 DEF OptionAlike, a, b
  <2>2. b <= a
    BY <1>1, <2>1
  <2>3. b = c
    BY <1>1, <1>4, <2>1, <2>2
  <2>4. /\ w \in Seq(Elems(w) \cup Elems(s)) /\ Cut(s) \in Seq(Elems(w) \cup Elems(s))
        /\ Len(w) = Len(Cut(s))
    BY <1>5, <2>3 DEF IsList, b
  <2>5. \A i \in 1..Len(w) : w[i] = Cut(s)[i]
    BY <1>5, <2>1, <2>3 DEF b
  <2> QED
    BY <2>4, <2>5, SeqEqual
<1> QED
  BY <1>6, <1>7

(* What a question adds to the count is zero when it is alike, and only then.*)
LEMMA QuestionCounts ==
    ASSUME NEW q, QuestionTyped(q), q.opts # Nil, Len(q.want) <= Len(q.opts)
    PROVE  /\ Differs(q.head) \in Nat /\ Cardinality(BadOptions(q)) \in Nat
           /\ Differs(q.head) + Cardinality(BadOptions(q)) = 0 <=> QuestionAlike(q)
<1>1. /\ IsList(q.want) /\ IsList(q.opts)
      /\ DOMAIN q.want = 1..Len(q.want) /\ Len(q.want) \in Nat
      /\ DOMAIN q.opts = 1..Len(q.opts) /\ Len(q.opts) \in Nat
      /\ DOMAIN q.want \subseteq DOMAIN q.opts
  BY ListDomain DEF QuestionTyped
<1>2. \A o \in DOMAIN q.want : Cut(q.opts[o]) = q.want[o] <=> OptionAlike(q.opts[o], q.want[o])
  <2>1. \A o \in DOMAIN q.want : IsList(q.want[o]) /\ IsList(q.opts[o])
    BY <1>1, ListDomain DEF QuestionTyped
  <2> QED
    BY <2>1, CutAlike
<1>3. IsFiniteSet(BadOptions(q)) /\ Cardinality(BadOptions(q)) \in Nat
  <2>1. IsFiniteSet(DOMAIN q.want)
    BY <1>1, FS_Interval
  <2>2. BadOptions(q) \subseteq DOMAIN q.want
    BY DEF BadOptions
  <2> QED
    BY <2>1, <2>2, FS_Subset, FS_CardinalityType
<1>4. Cardinality(BadOptions(q)) = 0 <=> BadOptions(q) = {}
  BY <1>3, FS_EmptySet
<1>5. BadOptions(q) = {} <=> \A o \in DOMAIN q.want : OptionAlike(q.opts[o], q.want[o])
  BY <1>2 DEF BadOptions
<1>6. Differs(q.head) \in {0, 1} /\ (Differs(q.head) = 0 <=> q.head[1] = q.head[2])
  BY DEF Differs
<1>7. Differs(q.head) + Cardinality(BadOptions(q)) = 0
         <=> Differs(q.head) = 0 /\ Cardinality(BadOptions(q)) = 0
  BY <1>3, <1>6
<1> QED
  BY <1>1, <1>3, <1>4, <1>5, <1>6, <1>7 DEF QuestionAlike

LEMMA OneMore == ASSUME NEW m \in Nat PROVE m + 1 \in Nat /\ 1..(m + 1) = 1..m \cup {m + 1}
  OBVIOUS

LEMMA TokensStep ==
    ASSUME ParityInv, UNCHANGED inputs, mode = "tokens", CountOK', TokensOK'
    PROVE  ParityInv'
  BY InputsKept DEF ParityInv, SeqOK

LEMMA CheckStateStep == ASSUME ParityInv, CheckState PROVE ParityInv'
<1>1. /\ pc = "tokens" /\ pc' = "entry" /\ n < Len(probe)
      /\ nBad' = nBad + Differs(probe[n + 1].state)
      /\ UNCHANGED inputs /\ UNCHANGED <<n, k, exit>>
  BY DEF CheckState
<1>2. mode = "tokens"
  BY <1>1 DEF ParityInv, SeqOK
<1>3. /\ k = 0 /\ n \in Nat /\ nBad \in Nat
      /\ nBad = 0 <=> \A i \in 1..n : EntryAlike(i)
  BY <1>1, <1>2 DEF ParityInv, TokensOK, CountOK
<1>4. /\ Differs(probe[n + 1].state) \in {0, 1}
      /\ Differs(probe[n + 1].state) = 0 <=> StateAlike(n + 1)
  BY DEF Differs, StateAlike
<1>5. nBad' \in Nat /\ (nBad' = 0 <=> nBad = 0 /\ StateAlike(n + 1))
  BY <1>1, <1>3, <1>4
<1>6. QuestionsAlike(n + 1, 0)
  BY DEF QuestionsAlike
<1>7. 0 <= Len(probe[n + 1].questions)
  <2>1. n + 1 \in DOMAIN probe
    BY <1>1, <1>3, InputTypes, ListDomain DEF ParityInv
  <2> QED
    BY <2>1, InputTypes, ListDomain DEF ParityInv
<1>8. TokensOK'
  BY <1>1, <1>2, <1>3, <1>5, <1>6, <1>7, InputsKept DEF TokensOK
<1>9. CountOK'
  BY <1>1, <1>3, <1>5 DEF CountOK
<1> QED
  BY <1>1, <1>2, <1>8, <1>9, TokensStep

LEMMA CheckEntryStep == ASSUME ParityInv, CheckEntry PROVE ParityInv'
<1> DEFINE qs == probe[n + 1].questions
           q == qs[k + 1]
<1>1. /\ pc = "entry" /\ k < Len(qs) /\ CheckEncoded(q)
      /\ UNCHANGED inputs /\ UNCHANGED n
  BY DEF CheckEntry
<1>2. mode = "tokens"
  BY <1>1 DEF ParityInv, SeqOK
<1>3. /\ n \in Nat /\ k \in Nat /\ nBad \in Nat /\ n < Len(probe)
      /\ nBad = 0 <=> /\ \A i \in 1..n : EntryAlike(i)
                      /\ StateAlike(n + 1) /\ QuestionsAlike(n + 1, k)
  BY <1>1, <1>2 DEF ParityInv, TokensOK, CountOK
<1>4. n + 1 \in 1..Len(probe) /\ n + 1 \in DOMAIN probe
  BY <1>3, InputTypes, ListDomain DEF ParityInv
<1>5. IsList(qs) /\ \A j \in DOMAIN qs : QuestionTyped(qs[j])
  BY <1>4, InputTypes DEF ParityInv
<1>6. k + 1 \in 1..Len(qs) /\ k + 1 \in DOMAIN qs /\ QuestionTyped(q)
  BY <1>1, <1>3, <1>5, ListDomain
<1>7. AllAlike => QuestionAlike(q)
  <2>1. AllAlike => EntryAlike(n + 1)
    BY <1>4 DEF AllAlike
  <2>2. EntryAlike(n + 1) => QuestionAlike(q)
    BY <1>6 DEF EntryAlike, QuestionsAlike
  <2> QED
    BY <2>1, <2>2
<1> HIDE DEF q
<1>8. CASE q.opts = Nil
  <2>1. pc' = "done" /\ exit' = 1 /\ UNCHANGED <<k, nBad>>
    BY <1>1, <1>8 DEF CheckEncoded, Exit
  <2>2. ~AllAlike
    BY <1>7, <1>8 DEF QuestionAlike
  <2>3. TokensOK'
    BY <1>1, <1>2, <2>1, <2>2, InputsKept DEF TokensOK
  <2> QED
    BY <1>1, <1>2, <1>3, <2>1, <2>3, TokensStep DEF CountOK
<1>9. CASE q.opts # Nil /\ Len(q.want) > Len(q.opts)
  <2>1. pc' = "done" /\ exit' = 2 /\ UNCHANGED <<k, nBad>>
    BY <1>1, <1>9 DEF CheckEncoded, Exit
  <2>2. Len(q.want) \in DOMAIN q.want /\ Len(q.want) \notin DOMAIN q.opts
    <3>1. IsList(q.want) /\ IsList(q.opts)
      BY <1>6, <1>9 DEF QuestionTyped
    <3>2. Len(q.want) \in Nat /\ Len(q.opts) \in Nat
      BY <3>1, ListDomain
    <3>3. Len(q.want) \in 1..Len(q.want) /\ Len(q.want) \notin 1..Len(q.opts)
      BY <1>9, <3>2
    <3> QED
      BY <3>1, <3>3, ListDomain
  <2>3. ~AllAlike
    BY <1>7, <2>2 DEF QuestionAlike
  <2>4. TokensOK'
    BY <1>1, <1>2, <2>1, <2>3, InputsKept DEF TokensOK
  <2> QED
    BY <1>1, <1>2, <1>3, <2>1, <2>4, TokensStep DEF CountOK
<1>10. CASE q.opts # Nil /\ ~(Len(q.want) > Len(q.opts))
  <2> DEFINE d == Differs(q.head)
             c == Cardinality(BadOptions(q))
  <2>1. /\ k' = k + 1 /\ nBad' = nBad + d + c /\ UNCHANGED <<pc, exit>>
    BY <1>1, <1>10 DEF CheckEncoded
  <2>2. Len(q.want) <= Len(q.opts)
    <3>1. Len(q.want) \in Nat /\ Len(q.opts) \in Nat
      BY <1>6, <1>10, ListDomain DEF QuestionTyped
    <3> QED
      BY <1>10, <3>1
  <2>3. d \in Nat /\ c \in Nat /\ (d + c = 0 <=> QuestionAlike(q))
    BY <1>6, <1>10, <2>2, QuestionCounts
  <2> HIDE DEF d, c
  <2>4. nBad' \in Nat /\ (nBad' = 0 <=> nBad = 0 /\ QuestionAlike(q))
    BY <1>3, <2>1, <2>3
  <2>5. QuestionsAlike(n + 1, k + 1) <=> QuestionsAlike(n + 1, k) /\ QuestionAlike(q)
    BY <1>3, OneMore DEF QuestionsAlike, q
  <2>6. k + 1 <= Len(qs) /\ k + 1 \in Nat
    BY <1>3, <1>6
  <2>7. TokensOK'
    BY <1>1, <1>2, <1>3, <2>1, <2>4, <2>5, <2>6, InputsKept DEF TokensOK
  <2> QED
    BY <1>1, <1>2, <1>3, <2>1, <2>4, <2>6, <2>7, TokensStep DEF CountOK
<1> QED
  BY <1>8, <1>9, <1>10

LEMMA EntryEndsStep == ASSUME ParityInv, EntryEnds PROVE ParityInv'
<1>1. /\ pc = "entry" /\ pc' = "tokens" /\ n' = n + 1 /\ k' = 0
      /\ k = Len(probe[n + 1].questions)
      /\ UNCHANGED inputs /\ UNCHANGED <<nBad, exit>>
  BY DEF EntryEnds
<1>2. mode = "tokens"
  BY <1>1 DEF ParityInv, SeqOK
<1>3. /\ n \in Nat /\ nBad \in Nat /\ n < Len(probe)
      /\ nBad = 0 <=> /\ \A i \in 1..n : EntryAlike(i)
                      /\ StateAlike(n + 1) /\ QuestionsAlike(n + 1, k)
  BY <1>1, <1>2 DEF ParityInv, TokensOK, CountOK
<1>4. nBad = 0 <=> \A i \in 1..(n + 1) : EntryAlike(i)
  BY <1>1, <1>3, OneMore DEF EntryAlike
<1>5. n + 1 \in Nat /\ n + 1 <= Len(probe)
  <2>1. Len(probe) \in Nat
    BY InputTypes, ListDomain DEF ParityInv
  <2> QED
    BY <1>3, <2>1
<1>6. TokensOK'
  BY <1>1, <1>2, <1>4, <1>5, InputsKept DEF TokensOK
<1> QED
  BY <1>1, <1>2, <1>3, <1>5, <1>6, TokensStep DEF CountOK

LEMMA TokensEndStep == ASSUME ParityInv, TokensEnd PROVE ParityInv'
<1>1. /\ pc = "tokens" /\ pc' = "done" /\ n = Len(probe)
      /\ exit' = IF nBad > 0 THEN 1 ELSE 0
      /\ UNCHANGED inputs /\ UNCHANGED <<n, k, nBad>>
  BY DEF TokensEnd, Exit
<1>2. mode = "tokens"
  BY <1>1 DEF ParityInv, SeqOK
<1>3. n \in Nat /\ k \in Nat /\ nBad \in Nat /\ (nBad = 0 <=> AllAlike)
  BY <1>1, <1>2 DEF ParityInv, TokensOK, CountOK, AllAlike
<1>4. exit' = 0 <=> AllAlike
  BY <1>1, <1>3
<1>5. TokensOK'
  BY <1>1, <1>2, <1>4, InputsKept DEF TokensOK
<1> QED
  BY <1>1, <1>2, <1>3, <1>5, TokensStep DEF CountOK

-----------------------------------------------------------------------------
(* The other modes: what is scanned, and the table of the dump               *)

LEMMA Scanned ==
    ASSUME NEW file, IsList(file), NEW m \in Nat, 1..m \subseteq Delivered(file)
    PROVE  /\ m + 1 \in Delivered(file) <=> m < Len(file) /\ file[m + 1] # Long
           /\ m + 1 \notin Delivered(file) => Delivered(file) = 1..m
<1> DEFINE a == Len(file)
<1>1. a \in Nat /\ DOMAIN file = 1..a
  BY ListDomain
<1> HIDE DEF a
<1>2. \A i \in 1..m : i <= a /\ file[i] # Long
  BY <1>1 DEF Delivered
<1>3. m + 1 \in 1..a <=> m < a
  BY <1>1
<1>4. \A j \in 1..(m + 1) : j \in 1..m \/ j = m + 1
  OBVIOUS
<1>5. m + 1 \in Delivered(file) <=> m < a /\ file[m + 1] # Long
  <2>1. m + 1 \in 1..(m + 1)
    OBVIOUS
  <2> QED
    BY <1>1, <1>2, <1>3, <1>4, <2>1 DEF Delivered
<1>6. ASSUME NEW i \in Delivered(file), i \notin 1..m PROVE m + 1 \in Delivered(file)
  <2>1. i \in 1..a /\ \A j \in 1..i : file[j] # Long
    BY <1>1, <1>6 DEF Delivered
  <2>2. m + 1 \in 1..i /\ m + 1 \in 1..a
    BY <1>1, <1>6, <2>1
  <2>3. file[m + 1] # Long
    BY <2>1, <2>2
  <2> QED
    BY <1>3, <1>5, <2>2, <2>3
<1> QED
  BY <1>5, <1>6 DEF a

LEMMA DeliveredTo ==
    ASSUME NEW file, IsList(file)
    PROVE  \E m \in Nat : Delivered(file) \in SUBSET (1..m)
  BY ListDomain DEF Delivered

(* A table of all lines has the entry of every id that is dumped.            *)
LEMMA TableKnown ==
    ASSUME InputOK, TableOf(Delivered(dump))
    PROVE  \A id : /\ Known(id) <=> LinesOf(id) # {}
                   /\ Known(id) => parity[id] = EntryOf(id)
<1> SUFFICES ASSUME NEW id
             PROVE  /\ Known(id) <=> LinesOf(id) # {}
                    /\ Known(id) => parity[id] = EntryOf(id)
  OBVIOUS
<1>1. Known(id) <=> LinesOf(id) # {}
  BY DEF TableOf, Known, LinesOf
<1>2. ASSUME Known(id) PROVE parity[id] = EntryOf(id)
  <2>1. PICK i \in Delivered(dump) :
           /\ dump[i].id = id /\ parity[id] = dump[i]
           /\ \A j \in Delivered(dump) : dump[j].id = id => j <= i
    BY <1>2 DEF TableOf, Known, LastAmong
  <2>2. i \in LinesOf(id) /\ \A j \in LinesOf(id) : j <= i
    BY <2>1 DEF LinesOf
  <2>3. \A j \in LinesOf(id) : j \in Nat
    BY InputTypes, ListDomain DEF LinesOf, Delivered
  <2>4. \A j \in LinesOf(id) : (\A h \in LinesOf(id) : h <= j) => j = i
    BY <2>2, <2>3
  <2>5. Latest(LinesOf(id)) = i
    BY <2>2, <2>4 DEF Latest
  <2> QED
    BY <2>1, <2>2, <2>5 DEF EntryOf
<1> QED
  BY <1>1, <1>2

LEMMA SeqStep ==
    ASSUME ParityInv, UNCHANGED inputs, mode # "tokens", CountOK', SeqOK'
    PROVE  ParityInv'
  BY InputsKept DEF ParityInv, TokensOK

LEMMA ParityStart == ASSUME Init PROVE ParityInv
<1>1. InputOK /\ CountOK
  BY DEF Init, InputOK, CountOK
<1>2. TokensOK
  <2>1. Len(probe) \in Nat
    BY <1>1, InputTypes, ListDomain
  <2> QED
    BY <2>1 DEF Init, TokensOK
<1>3. SeqOK
  <2>1. 1..0 = {}
    OBVIOUS
  <2>2. ReadOK(dump, 0)
    BY <2>1 DEF ReadOK
  <2>3. parity = <<>> => TableOf(1..0)
    BY <2>1 DEF TableOf
  <2> QED
    BY <2>2, <2>3 DEF Init, SeqOK
<1> QED
  BY <1>1, <1>2, <1>3 DEF ParityInv

-----------------------------------------------------------------------------
(* Reading the dump *)

LEMMA ReadParityStep == ASSUME ParityInv, ReadParity PROVE ParityInv'
<1> DEFINE e == dump[n + 1]
<1>1. /\ pc = "parity" /\ UNCHANGED pc /\ n' = n + 1 /\ UNCHANGED inputs /\ UNCHANGED <<k, nBad>>
      /\ n < Len(dump) /\ e # Long /\ e # Broken
      /\ parity' = [id \in DOMAIN parity \cup {e.id} |-> IF id = e.id THEN e ELSE parity[id]]
  BY DEF ReadParity, Scans
<1>2. mode # "tokens"
  BY <1>1 DEF ParityInv, TokensOK
<1>3. n \in Nat /\ ReadOK(dump, n) /\ TableOf(1..n) /\ k = 0 /\ nBad = 0
  BY <1>1, <1>2 DEF ParityInv, SeqOK, CountOK
<1>4. 1..(n + 1) = 1..n \cup {n + 1} /\ n + 1 \in Nat
  BY <1>3, OneMore
<1>5. ReadOK(dump, n + 1)
  <2>1. n + 1 \in Delivered(dump)
    BY <1>1, <1>3, InputTypes, Scanned DEF ReadOK, ParityInv
  <2> QED
    BY <1>1, <1>3, <1>4, <2>1 DEF ReadOK
<1>6. /\ DOMAIN parity' = {dump[i].id : i \in 1..n} \cup {e.id}
      /\ \A id \in DOMAIN parity' : parity'[id] = IF id = e.id THEN e ELSE parity[id]
  BY <1>1, <1>3 DEF TableOf
<1>7. DOMAIN parity' = {dump[i].id : i \in 1..(n + 1)}
  BY <1>4, <1>6
<1>8. ASSUME NEW id \in DOMAIN parity'
      PROVE  \E i \in 1..(n + 1) : /\ dump[i].id = id /\ parity'[id] = dump[i]
                                   /\ \A j \in 1..(n + 1) : dump[j].id = id => j <= i
  <2>1. CASE id = e.id
    <3>1. n + 1 \in 1..(n + 1) /\ \A j \in 1..(n + 1) : j <= n + 1
      BY <1>3
    <3>2. parity'[id] = e
      BY <1>6, <2>1
    <3> QED
      BY <2>1, <3>1, <3>2
  <2>2. CASE id # e.id
    <3>1. id \in DOMAIN parity /\ parity'[id] = parity[id]
      BY <1>3, <1>6, <2>2 DEF TableOf
    <3>2. PICK i \in 1..n : /\ dump[i].id = id /\ parity[id] = dump[i]
                            /\ \A j \in 1..n : dump[j].id = id => j <= i
      BY <1>3, <3>1 DEF TableOf, LastAmong
    <3>3. \A j \in 1..(n + 1) : dump[j].id = id => j <= i
      BY <1>4, <2>2, <3>2
    <3> QED
      BY <1>4, <3>1, <3>2, <3>3
  <2> QED
    BY <2>1, <2>2
<1> HIDE DEF e
<1>9. TableOf(1..n)'
  <2>1. dump' = dump /\ n' = n + 1
    BY <1>1, InputsKept
  <2> QED
    BY <1>7, <1>8, <2>1 DEF TableOf, LastAmong
<1>10. ReadOK(dump, n)'
  BY <1>1, <1>5, InputsKept DEF ReadOK, Delivered
<1>11. SeqOK'
  BY <1>1, <1>2, <1>3, <1>9, <1>10, InputsKept DEF SeqOK
<1> QED
  BY <1>1, <1>2, <1>3, <1>4, <1>11, SeqStep DEF CountOK

LEMMA ParityEndsStep == ASSUME ParityInv, ParityEnds PROVE ParityInv'
<1>1. /\ pc = "parity" /\ pc' = "fixtures" /\ n' = 0 /\ ~Scans(dump)
      /\ UNCHANGED inputs /\ UNCHANGED <<k, nBad, parity>>
  BY DEF ParityEnds
<1>2. mode # "tokens"
  BY <1>1 DEF ParityInv, TokensOK
<1>3. n \in Nat /\ ReadOK(dump, n) /\ TableOf(1..n) /\ k = 0 /\ nBad = 0
  BY <1>1, <1>2 DEF ParityInv, SeqOK, CountOK
<1>4. Delivered(dump) = 1..n
  <2>1. n + 1 \notin Delivered(dump)
    BY <1>1, <1>3, InputTypes, Scanned DEF ReadOK, ParityInv, Scans
  <2> QED
    BY <1>3, <2>1, InputTypes, Scanned DEF ReadOK, ParityInv
<1>5. Readable(dump) /\ TableOf(Delivered(dump))
  BY <1>3, <1>4 DEF Readable, ReadOK
<1>6. 1..0 = {}
  OBVIOUS
<1>7. ReadOK(fixtures, 0) /\ SoundUpto(0, 0)
  BY <1>6 DEF ReadOK, SoundUpto
<1>8. Readable(dump)' /\ TableOf(Delivered(dump))'
  BY <1>1, <1>5, InputsKept DEF Readable, Delivered, TableOf, LastAmong
<1>9. ReadOK(fixtures, n)' /\ SoundUpto(n, k)'
  <2>1. ReadOK(fixtures, n)'
    BY <1>1, <1>7, InputsKept DEF ReadOK, Delivered
  <2>2. SoundUpto(n, k)'
    BY <1>1, <1>3, <1>6 DEF SoundUpto
  <2> QED
    BY <2>1, <2>2
<1>10. SeqOK'
  <2>1. ~(k' > 0)
    BY <1>1, <1>3
  <2> QED
    BY <1>1, <1>2, <1>3, <1>8, <1>9, <2>1, InputsKept DEF SeqOK
<1> QED
  BY <1>1, <1>2, <1>3, <1>10, SeqStep DEF CountOK

LEMMA ReadBrokenStep == ASSUME ParityInv, ReadBroken PROVE ParityInv'
<1>1. /\ pc' = "done" /\ exit' = 1 /\ UNCHANGED inputs /\ UNCHANGED <<n, k, nBad>>
      /\ \/ pc = "parity" /\ Scans(dump) /\ dump[n + 1] = Broken
         \/ pc = "fixtures" /\ Scans(fixtures) /\ Line = Broken
  BY DEF ReadBroken, Die, Exit
<1>2. mode # "tokens"
  BY <1>1 DEF ParityInv, TokensOK
<1>3. n \in Nat /\ k \in Nat /\ nBad \in Nat
  BY DEF ParityInv, CountOK
<1>4. ~SeqSound
  <2>1. CASE pc = "parity" /\ Scans(dump) /\ dump[n + 1] = Broken
    <3>1. n + 1 \in Delivered(dump)
      BY <1>2, <1>3, <2>1, InputTypes, Scanned DEF ReadOK, ParityInv, SeqOK, Scans
    <3> QED
      BY <2>1, <3>1 DEF SeqSound, Readable
  <2>2. CASE pc = "fixtures" /\ Scans(fixtures) /\ Line = Broken
    <3>1. n + 1 \in Delivered(fixtures)
      BY <1>2, <1>3, <2>2, InputTypes, Scanned DEF ReadOK, ParityInv, SeqOK, Scans, Line
    <3> QED
      BY <2>2, <3>1 DEF SeqSound, Readable, Line
  <2> QED
    BY <1>1, <2>1, <2>2
<1>5. SeqOK'
  BY <1>1, <1>2, <1>4, InputsKept DEF SeqOK
<1> QED
  BY <1>1, <1>2, <1>3, <1>5, SeqStep DEF CountOK

-----------------------------------------------------------------------------
(* Checking the fixtures *)

(* What holds while a line is dealt with.                                    *)
LEMMA OnLine ==
    ASSUME ParityInv, pc = "fixtures", Scans(fixtures), Line # Broken
    PROVE  /\ mode # "tokens" /\ n \in Nat /\ k \in Nat /\ nBad \in Nat
           /\ Readable(dump) /\ TableOf(Delivered(dump))
           /\ ReadOK(fixtures, n) /\ n + 1 \in Delivered(fixtures)
           /\ IsList(Line.questions)
           /\ k > 0 => LinesOf(Line.id) # {} /\ k <= Len(Line.questions)
           /\ nBad = 0 <=> SoundUpto(n, k)
<1>1. mode # "tokens" /\ n \in Nat /\ k \in Nat /\ nBad \in Nat
  BY DEF ParityInv, TokensOK, CountOK
<1>2. /\ Readable(dump) /\ TableOf(Delivered(dump)) /\ ReadOK(fixtures, n)
      /\ k > 0 => LinesOf(Line.id) # {} /\ k <= Len(Line.questions)
      /\ nBad = 0 <=> SoundUpto(n, k)
  BY <1>1 DEF ParityInv, SeqOK
<1>3. n + 1 \in Delivered(fixtures)
  BY <1>1, <1>2, InputTypes, Scanned DEF ReadOK, ParityInv, Scans
<1>4. IsList(Line.questions)
  <2>1. n + 1 \in DOMAIN fixtures /\ Line \notin {Long, Broken}
    BY <1>3 DEF Delivered, Scans, Line
  <2> QED
    BY <2>1, InputTypes DEF ParityInv, Line
<1> QED
  BY <1>1, <1>2, <1>3, <1>4

LEMMA NextFixtureStep == ASSUME ParityInv, NextFixture PROVE ParityInv'
<1>1. /\ pc = "fixtures" /\ UNCHANGED pc /\ Scans(fixtures) /\ Line # Broken
      /\ n' = n + 1 /\ k' = 0 /\ UNCHANGED inputs /\ UNCHANGED <<nBad, parity>>
      /\ Known(Line.id) => k = Len(Line.questions)
  BY DEF NextFixture
<1>2. /\ mode # "tokens" /\ n \in Nat /\ k \in Nat /\ nBad \in Nat
      /\ Readable(dump) /\ TableOf(Delivered(dump))
      /\ ReadOK(fixtures, n) /\ n + 1 \in Delivered(fixtures)
      /\ IsList(Line.questions)
      /\ k > 0 => LinesOf(Line.id) # {} /\ k <= Len(Line.questions)
      /\ nBad = 0 <=> SoundUpto(n, k)
  BY <1>1, OnLine
<1>3. 1..(n + 1) = 1..n \cup {n + 1} /\ n + 1 \in Nat
  BY <1>2, OneMore
<1>4. ReadOK(fixtures, n + 1)
  BY <1>1, <1>2, <1>3 DEF ReadOK, Line
<1>5. LineSound(n + 1) <=> \A h \in 1..k : BuiltAsDumped(n + 1, h)
  <2>1. CASE LinesOf(Line.id) # {}
    <3>1. k = Len(Line.questions)
      BY <1>1, <1>2, <2>1, TableKnown DEF ParityInv
    <3>2. DOMAIN Line.questions = 1..k
      BY <1>2, <3>1, ListDomain
    <3> QED
      BY <2>1, <3>2 DEF LineSound, Line
  <2>2. CASE LinesOf(Line.id) = {}
    <3>1. 1..k = {}
      BY <1>2, <2>2
    <3> QED
      BY <2>2, <3>1 DEF LineSound, Line
  <2> QED
    BY <2>1, <2>2
<1>6. nBad = 0 <=> \A i \in 1..(n + 1) : LineSound(i)
  BY <1>2, <1>3, <1>5 DEF SoundUpto
<1>7. ReadOK(fixtures, n)'
  BY <1>1, <1>4, InputsKept DEF ReadOK, Delivered
<1>8. nBad' = 0 <=> SoundUpto(n, k)'
  <2>1. 1..0 = {}
    OBVIOUS
  <2>2. SoundUpto(n, k)' <=> \A i \in 1..(n + 1) : LineSound(i)
    BY <1>1, <2>1, InputsKept DEF SoundUpto
  <2> QED
    BY <1>1, <1>6, <2>2
<1>9. Readable(dump)' /\ TableOf(Delivered(dump))'
  BY <1>1, <1>2, InputsKept DEF Readable, Delivered, TableOf, LastAmong
<1>10. SeqOK'
  <2>1. ~(k' > 0)
    BY <1>1
  <2> QED
    BY <1>1, <1>2, <1>7, <1>8, <1>9, <2>1, InputsKept DEF SeqOK
<1> QED
  BY <1>1, <1>2, <1>3, <1>10, SeqStep DEF CountOK

LEMMA CheckQuestionStep == ASSUME ParityInv, CheckQuestion PROVE ParityInv'
<1> DEFINE q == Line.questions[k + 1]
           want == Want(parity[Line.id], q.qid)
<1>1. /\ pc = "fixtures" /\ Scans(fixtures) /\ Line # Broken
      /\ Known(Line.id) /\ k < Len(Line.questions)
      /\ Check(q, want, [q |-> q, want |-> Answer(parity[Line.id], q.qid)])
  BY DEF CheckQuestion
<1>2. /\ mode # "tokens" /\ n \in Nat /\ k \in Nat /\ nBad \in Nat
      /\ Readable(dump) /\ TableOf(Delivered(dump))
      /\ ReadOK(fixtures, n) /\ n + 1 \in Delivered(fixtures)
      /\ IsList(Line.questions)
      /\ nBad = 0 <=> SoundUpto(n, k)
  BY <1>1, OnLine
<1>3. LinesOf(Line.id) # {} /\ parity[Line.id] = EntryOf(Line.id)
  BY <1>1, <1>2, TableKnown DEF ParityInv
<1>4. BuiltAsDumped(n + 1, k + 1) <=> q.seq # Nil /\ q.seq = want
  BY <1>3 DEF BuiltAsDumped, Line
<1>5. k + 1 \in DOMAIN Line.questions /\ k + 1 <= Len(Line.questions) /\ k + 1 \in Nat
  <2>1. Len(Line.questions) \in Nat /\ DOMAIN Line.questions = 1..Len(Line.questions)
    BY <1>2, ListDomain
  <2> QED
    BY <1>1, <1>2, <2>1
<1> HIDE DEF q, want
<1>6. CASE q.seq = Nil \/ want = Nil
  <2>1. pc' = "done" /\ exit' = 1 /\ UNCHANGED inputs /\ UNCHANGED <<n, k, nBad>>
    BY <1>1, <1>6 DEF Check, Die, Exit
  <2>2. ~SeqSound
    BY <1>2, <1>3, <1>4, <1>5, <1>6 DEF SeqSound, Line
  <2>3. SeqOK'
    BY <1>2, <2>1, <2>2, InputsKept DEF SeqOK
  <2> QED
    BY <1>2, <2>1, <2>3, SeqStep DEF CountOK
<1>7. CASE q.seq # Nil /\ want # Nil
  <2>1. /\ k' = k + 1 /\ nBad' = IF q.seq # want THEN nBad + 1 ELSE nBad
        /\ UNCHANGED inputs /\ UNCHANGED <<pc, n, parity>>
    BY <1>1, <1>7 DEF Check
  <2>2. nBad' \in Nat /\ (nBad' = 0 <=> nBad = 0 /\ BuiltAsDumped(n + 1, k + 1))
    BY <1>2, <1>4, <1>7, <2>1
  <2>3. nBad' = 0 <=> SoundUpto(n, k)'
    <3>1. 1..(k + 1) = 1..k \cup {k + 1}
      BY <1>2, OneMore
    <3>2. SoundUpto(n, k)' <=> (\A i \in 1..n : LineSound(i))
                               /\ \A h \in 1..(k + 1) : BuiltAsDumped(n + 1, h)
      BY <2>1, InputsKept DEF SoundUpto
    <3> QED
      BY <1>2, <2>2, <3>1, <3>2 DEF SoundUpto
  <2>4. /\ Readable(dump)' /\ TableOf(Delivered(dump))' /\ ReadOK(fixtures, n)'
        /\ (n + 1 \in Delivered(fixtures))' /\ Line' = Line
        /\ LinesOf(Line.id)' = LinesOf(Line.id)
    BY <1>2, <2>1, InputsKept DEF Readable, Delivered, TableOf, LastAmong, ReadOK, Line, LinesOf
  <2>5. SeqOK'
    BY <1>1, <1>2, <1>3, <1>5, <2>1, <2>3, <2>4, InputsKept DEF SeqOK
  <2> QED
    BY <1>2, <1>5, <2>1, <2>2, <2>5, SeqStep DEF CountOK
<1> QED
  BY <1>6, <1>7

LEMMA FixturesEndStep == ASSUME ParityInv, FixturesEnd PROVE ParityInv'
<1>1. /\ pc = "fixtures" /\ ~Scans(fixtures) /\ UNCHANGED inputs /\ UNCHANGED <<n, k, nBad>>
      /\ IF nBad > 0 THEN pc' = "done" /\ exit' = 1
         ELSE IF mode = "seq" THEN pc' = "done" /\ exit' = 0
         ELSE pc' = "run" /\ exit' = exit
  BY DEF FixturesEnd, Exit
<1>2. mode # "tokens" /\ n \in Nat /\ k \in Nat /\ nBad \in Nat
  BY <1>1 DEF ParityInv, TokensOK, CountOK
<1>3. /\ Readable(dump) /\ ReadOK(fixtures, n)
      /\ k > 0 => n + 1 \in Delivered(fixtures)
      /\ nBad = 0 <=> SoundUpto(n, k)
  BY <1>1, <1>2 DEF ParityInv, SeqOK
<1>4. n + 1 \notin Delivered(fixtures) /\ Delivered(fixtures) = 1..n
  BY <1>1, <1>2, <1>3, InputTypes, Scanned DEF ReadOK, ParityInv, Scans
<1>5. 1..k = {}
  BY <1>2, <1>3, <1>4
<1>6. nBad = 0 <=> SeqSound
  <2>1. Readable(fixtures)
    BY <1>3, <1>4 DEF Readable, ReadOK
  <2>2. SeqSound <=> \A i \in 1..n : LineSound(i)
    BY <1>3, <1>4, <2>1 DEF SeqSound, LineSound
  <2> QED
    BY <1>3, <1>5, <2>2 DEF SoundUpto
<1>7. mode \in {"seq", "full"}
  BY <1>2, InputTypes DEF ParityInv
<1>8. SeqOK'
  <2>1. CASE nBad > 0
    BY <1>1, <1>2, <1>6, <2>1, InputsKept DEF SeqOK
  <2>2. CASE ~(nBad > 0)
    <3>1. SeqSound
      BY <1>2, <1>6, <2>2
    <3> QED
      BY <1>1, <1>2, <1>7, <2>2, <3>1, InputsKept DEF SeqOK
  <2> QED
    BY <2>1, <2>2
<1> QED
  BY <1>1, <1>2, <1>8, SeqStep DEF CountOK

LEMMA EngineSteps == ASSUME ParityInv, RunBatch \/ RunPanics \/ RunFails \/ Report PROVE ParityInv'
<1>1. /\ pc = "run" /\ UNCHANGED inputs /\ UNCHANGED <<n, k, nBad>>
      /\ pc' = "run" \/ (pc' = "done" /\ exit' \in {0, 1, 2})
  BY DEF RunBatch, RunPanics, RunFails, Report, Die, Exit
<1>2. mode # "tokens" /\ CountOK
  BY <1>1 DEF ParityInv, TokensOK
<1>3. SeqSound /\ mode = "full"
  BY <1>1, <1>2 DEF ParityInv, SeqOK
<1>4. SeqOK'
  BY <1>1, <1>2, <1>3, InputsKept DEF SeqOK
<1> QED
  BY <1>1, <1>2, <1>4, SeqStep DEF CountOK

-----------------------------------------------------------------------------
(* The theorems *)

LEMMA StaysStep == ASSUME ParityInv, UNCHANGED vars PROVE ParityInv'
<1>1. UNCHANGED inputs /\ UNCHANGED <<pc, n, k, nBad, parity, exit>>
  BY DEF vars
<1>2. CASE mode = "tokens"
  <2>1. TokensOK
    BY DEF ParityInv
  <2>2. TokensOK'
    BY <1>1, <2>1, InputsKept DEF TokensOK
  <2> QED
    BY <1>1, <1>2, <2>2, TokensStep DEF CountOK, ParityInv
<1>3. CASE mode # "tokens"
  <2>1. SeqOK
    BY DEF ParityInv
  <2>2. /\ Readable(dump)' = Readable(dump)
        /\ TableOf(Delivered(dump))' = TableOf(Delivered(dump))
        /\ TableOf(1..n)' = TableOf(1..n)
        /\ ReadOK(dump, n)' = ReadOK(dump, n) /\ ReadOK(fixtures, n)' = ReadOK(fixtures, n)
        /\ (n + 1 \in Delivered(fixtures))' = (n + 1 \in Delivered(fixtures))
        /\ Line' = Line /\ LinesOf(Line.id)' = LinesOf(Line.id)
        /\ SoundUpto(n, k)' = SoundUpto(n, k)
    <3>1. /\ n' = n /\ k' = k /\ parity' = parity /\ dump' = dump /\ fixtures' = fixtures
      BY <1>1, InputsKept
    <3>2. SoundUpto(n, k)' = SoundUpto(n, k)
      BY <1>1, <3>1, InputsKept DEF SoundUpto
    <3>3. Line' = Line
      BY <3>1 DEF Line
    <3>4. LinesOf(Line.id)' = LinesOf(Line.id)
      BY <3>1, <3>3 DEF LinesOf, Delivered
    <3>5. /\ Readable(dump)' = Readable(dump)
          /\ (n + 1 \in Delivered(fixtures))' = (n + 1 \in Delivered(fixtures))
          /\ ReadOK(dump, n)' = ReadOK(dump, n) /\ ReadOK(fixtures, n)' = ReadOK(fixtures, n)
      BY <3>1 DEF Readable, Delivered, ReadOK
    <3>6. /\ TableOf(Delivered(dump))' = TableOf(Delivered(dump))
          /\ TableOf(1..n)' = TableOf(1..n)
      BY <3>1 DEF TableOf, LastAmong, Delivered
    <3> QED
      BY <3>2, <3>3, <3>4, <3>5, <3>6
  <2>3. SeqOK'
    BY <1>1, <2>1, <2>2, InputsKept DEF SeqOK
  <2> QED
    BY <1>1, <1>3, <2>3, SeqStep DEF CountOK, ParityInv
<1> QED
  BY <1>2, <1>3

(* As long as a check goes on, its count is zero exactly if all it has       *)
(* looked at is right, and the table of the dump is that of the lines read   *)
(* (checkTokens and checkSeq).                                               *)
THEOREM ParityInvariant == Spec => []ParityInv
<1>1. Init => ParityInv
  BY ParityStart
<1>2. ParityInv /\ [Next]_vars => ParityInv'
  <2> SUFFICES ASSUME ParityInv, [Next]_vars PROVE ParityInv'
    OBVIOUS
  <2>1. CASE CheckState        BY <2>1, CheckStateStep
  <2>2. CASE CheckEntry        BY <2>2, CheckEntryStep
  <2>3. CASE EntryEnds         BY <2>3, EntryEndsStep
  <2>4. CASE TokensEnd         BY <2>4, TokensEndStep
  <2>5. CASE ReadParity        BY <2>5, ReadParityStep
  <2>6. CASE ReadBroken        BY <2>6, ReadBrokenStep
  <2>7. CASE ParityEnds        BY <2>7, ParityEndsStep
  <2>8. CASE NextFixture       BY <2>8, NextFixtureStep
  <2>9. CASE CheckQuestion     BY <2>9, CheckQuestionStep
  <2>10. CASE FixturesEnd      BY <2>10, FixturesEndStep
  <2>11. CASE RunBatch \/ RunPanics \/ RunFails \/ Report
    BY <2>11, EngineSteps
  <2>12. CASE UNCHANGED vars   BY <2>12, StaysStep
  <2> QED
    BY <2>1, <2>2, <2>3, <2>4, <2>5, <2>6, <2>7, <2>8, <2>9, <2>10, <2>11, <2>12
    DEF Next, Rest
<1> QED
  BY <1>1, <1>2, PTL DEF Spec

(* Mode tokens exits with 0 exactly if every state, head and option Python   *)
(* dumped is encoded alike, an option up to the cut (checkTokens).           *)
THEOREM TokensExitTrue == Spec => []TokensVerified
<1>1. ParityInv => TokensVerified
  <2> SUFFICES ASSUME ParityInv, mode = "tokens", pc = "done"
               PROVE  exit = 0 <=>
                        \A i \in DOMAIN probe :
                          /\ probe[i].state[1] = probe[i].state[2]
                          /\ \A j \in DOMAIN probe[i].questions :
                                QuestionAlike(probe[i].questions[j])
    BY DEF TokensVerified
  <2>1. exit = 0 <=> AllAlike
    BY DEF ParityInv, TokensOK
  <2>2. DOMAIN probe = 1..Len(probe)
    BY InputTypes, ListDomain DEF ParityInv
  <2>3. \A i \in DOMAIN probe : DOMAIN probe[i].questions = 1..Len(probe[i].questions)
    BY InputTypes, ListDomain DEF ParityInv
  <2> QED
    BY <2>1, <2>2, <2>3 DEF AllAlike, EntryAlike, StateAlike, QuestionsAlike
<1> QED
  BY <1>1, ParityInvariant, PTL

(* The other modes exit with 0 only if both files can be read and each       *)
(* question of a dumped fixture is built as the last entry of its id says;   *)
(* and mode seq does exit with 0 then (checkSeq).                            *)
THEOREM SeqExitTrue == Spec => []SeqVerified
<1>1. ParityInv => SeqVerified
  BY DEF ParityInv, SeqOK, SeqVerified
<1> QED
  BY <1>1, ParityInvariant, PTL

-----------------------------------------------------------------------------
(* What the report of paritycheck counts and compares *)

LEMMA ImageFinite ==
    ASSUME NEW S, IsFiniteSet(S), NEW f PROVE IsFiniteSet({f[x] : x \in S})
<1> DEFINE T == {f[x] : x \in S}
           g == [x \in S |-> f[x]]
<1>1. g \in Surjection(S, T)
  BY DEF Surjection
<1> QED
  BY <1>1, FS_Surjection

(* A finite set of numbers has a largest.                                    *)
IsMax(x, S) == x \in S /\ \A y \in S : x >= y

LEMMA MaxExists ==
    ASSUME NEW S \in SUBSET Int, IsFiniteSet(S), S # {} PROVE \E x : IsMax(x, S)
<1> DEFINE N == {m \in Nat : \A T \in SUBSET Int :
                    IsFiniteSet(T) /\ Cardinality(T) = m /\ T # {} => \E x : IsMax(x, T)}
<1>1. 0 \in N
  BY FS_EmptySet
<1>2. ASSUME NEW m \in Nat, m \in N PROVE m + 1 \in N
  <2> SUFFICES ASSUME NEW T \in SUBSET Int, IsFiniteSet(T), Cardinality(T) = m + 1, T # {}
               PROVE  \E x : IsMax(x, T)
    OBVIOUS
  <2>1. PICK y \in T : TRUE
    OBVIOUS
  <2> DEFINE U == T \ {y}
  <2>2. IsFiniteSet(U) /\ Cardinality(U) = m /\ U \in SUBSET Int
    <3>1. IsFiniteSet(U) /\ Cardinality(U) = Cardinality(T) - 1
      BY <2>1, FS_RemoveElement
    <3>2. (m + 1) - 1 = m
      OBVIOUS
    <3> QED
      BY <3>1, <3>2
  <2>3. CASE U = {}
    <3>1. IsMax(y, T)
      BY <2>1, <2>3 DEF IsMax
    <3> QED
      BY <3>1
  <2>4. CASE U # {}
    <3>1. PICK x : IsMax(x, U)
      BY <1>2, <2>2, <2>4
    <3>2. x \in T /\ x \in Int /\ y \in Int /\ \A z \in T : z = y \/ (z \in Int /\ x >= z)
      BY <2>1, <3>1 DEF IsMax
    <3>3. CASE x >= y
      <4>1. IsMax(x, T)
        BY <3>2, <3>3 DEF IsMax
      <4> QED
        BY <4>1
    <3>4. CASE ~ (x >= y)
      <4>1. IsMax(y, T)
        BY <2>1, <3>2, <3>4 DEF IsMax
      <4> QED
        BY <4>1
    <3> QED
      BY <3>3, <3>4
  <2> QED
    BY <2>3, <2>4
<1> HIDE DEF N
<1>3. Cardinality(S) \in N /\ Cardinality(S) \in Nat
  <2>1. Cardinality(S) \in Nat
    BY FS_CardinalityType
  <2> QED
    BY <1>1, <1>2, <2>1, NumbersInSet
<1> QED
  BY <1>3 DEF N

LEMMA MaxIs ==
    ASSUME NEW S \in SUBSET Int, NEW x, IsMax(x, S) PROVE Sets!Max(S) = x
<1>1. x \in S /\ x \in Int /\ \A y \in S : x >= y
  BY DEF IsMax
<1>2. \A z \in S : (\A y \in S : z >= y) => z = x
  BY <1>1
<1> QED
  BY <1>1, <1>2 DEF Sets!Max

LEMMA MaxOfFinite ==
    ASSUME NEW S \in SUBSET Int, IsFiniteSet(S), S # {} PROVE IsMax(Sets!Max(S), S)
  BY MaxExists, MaxIs

(* Adding the largest so far to some numbers gives the largest of all.       *)
LEMMA MaxOfMore ==
    ASSUME NEW S \in SUBSET Int, NEW G \in SUBSET Int, IsFiniteSet(G), NEW x, IsMax(x, S)
    PROVE  IsMax(Sets!Max(G \cup {x}), S \cup G)
<1> DEFINE T == G \cup {x}
           z == Sets!Max(T)
<1>1. x \in S /\ x \in Int /\ \A y \in S : y \in Int /\ x >= y
  BY DEF IsMax
<1>2. T \in SUBSET Int /\ IsFiniteSet(T) /\ T # {}
  BY <1>1, FS_AddElement
<1>3. IsMax(z, T)
  BY <1>2, MaxOfFinite
<1> HIDE DEF z
<1>4. z \in T /\ z \in Int /\ z >= x /\ \A y \in G : z >= y
  BY <1>2, <1>3 DEF IsMax
<1>5. z \in S \cup G
  BY <1>1, <1>4
<1>6. \A y \in S : z >= y
  BY <1>1, <1>4
<1> QED
  BY <1>4, <1>5, <1>6 DEF IsMax, z

-----------------------------------------------------------------------------
(* What is looked up *)

Parsed(i) == i \in DOMAIN fixtures /\ fixtures[i] \notin {Long, Broken}
Pairs == UNION {Elems(LookedIn(i)) : i \in {h \in DOMAIN fixtures : Parsed(h)}}
LookedOf(m) == Seqs!FlattenSeq([i \in 1..m |-> LookedIn(i)])

(* A choice and its answer can be compared.                                  *)
Paired(x) ==
    /\ IsList(x.q.names) /\ \A i \in DOMAIN x.q.names : x.q.probs[i] \in Int
    /\ x.want # Nil => \A name \in DOMAIN x.want.probs : x.want.probs[name] \in Int

LEMMA LookedTyped ==
    ASSUME InputOK, NEW i, Parsed(i)
    PROVE  /\ LookedIn(i) \in Seq(Pairs)
           /\ LinesOf(fixtures[i].id) = {} => LookedIn(i) = <<>>
           /\ LinesOf(fixtures[i].id) # {} =>
                 /\ Len(LookedIn(i)) = Len(fixtures[i].questions)
                 /\ \A j \in 1..Len(LookedIn(i)) :
                       LookedIn(i)[j] = [q |-> fixtures[i].questions[j],
                                         want |-> Answer(EntryOf(fixtures[i].id), fixtures[i].questions[j].qid)]
<1> DEFINE l == fixtures[i]
           Q == l.questions
           f(j) == [q |-> Q[j], want |-> Answer(EntryOf(l.id), Q[j].qid)]
           s == LookedIn(i)
           m == Len(Q)
<1>1. m \in Nat /\ DOMAIN Q = 1..m
  BY InputTypes, ListDomain DEF Parsed
<1>2. Elems(s) \subseteq Pairs
  BY DEF Pairs, Parsed
<1>3. CASE LinesOf(l.id) = {}
  <2>1. s = <<>>
    BY <1>3 DEF LookedIn
  <2>2. s \in Seq(Pairs)
    BY <2>1, EmptySeq
  <2> QED
    BY <1>3, <2>1, <2>2
<1>4. CASE LinesOf(l.id) # {}
  <2>1. s = [j \in 1..m |-> f(j)]
    BY <1>1, <1>4 DEF LookedIn
  <2>2. \A j \in 1..m : s[j] = f(j) /\ s[j] \in Pairs
    BY <1>2, <2>1 DEF Elems
  <2> HIDE DEF f
  <2>3. Len(s) = m /\ s \in Seq(Pairs)
    BY <1>1, <2>1, <2>2
  <2> USE DEF f
  <2> QED
    BY <1>4, <2>2, <2>3
<1> QED
  BY <1>3, <1>4

LEMMA LookedNext ==
    ASSUME InputOK, NEW m \in Nat, \A i \in 1..m : Parsed(i)
    PROVE  /\ LookedOf(m) \in Seq(Pairs)
           /\ m = 0 => LookedOf(m) = <<>>
           /\ Parsed(m + 1) => LookedOf(m + 1) = LookedOf(m) \o LookedIn(m + 1)
<1> DEFINE s(j) == [i \in 1..j |-> LookedIn(i)]
<1>1. \A i \in 1..m : LookedIn(i) \in Seq(Pairs)
  BY LookedTyped
<1>2. s(m) \in Seq(Seq(Pairs)) /\ Len(s(m)) = m
  BY <1>1
<1>3. LookedOf(m) \in Seq(Pairs)
  BY <1>2, FlattenType DEF LookedOf
<1>4. ASSUME m = 0 PROVE LookedOf(m) = <<>>
  <2>1. s(m) = <<>>
    BY <1>2, <1>4, EmptySeq
  <2> QED
    BY <2>1, FlattenEmpty DEF LookedOf
<1>5. ASSUME Parsed(m + 1) PROVE LookedOf(m + 1) = LookedOf(m) \o LookedIn(m + 1)
  <2>1. LookedIn(m + 1) \in Seq(Pairs)
    BY <1>5, LookedTyped
  <2>2. s(m + 1) = Append(s(m), LookedIn(m + 1))
    <3> DEFINE u == s(m + 1)
               v == Append(s(m), LookedIn(m + 1))
               B == Seq(Pairs)
    <3>1. u \in Seq(B) /\ Len(u) = m + 1
      <4>1. \A i \in 1..(m + 1) : i \in 1..m \/ i = m + 1
        OBVIOUS
      <4>2. \A i \in 1..(m + 1) : LookedIn(i) \in B
        BY <1>1, <2>1, <4>1
      <4> HIDE DEF B
      <4> QED
        BY <4>2
    <3>2. v \in Seq(B) /\ Len(v) = m + 1 /\ v[m + 1] = LookedIn(m + 1) /\ \A i \in 1..m : v[i] = s(m)[i]
      BY <1>2, <2>1, AppendProperties
    <3>3. \A i \in 1..(m + 1) : u[i] = LookedIn(i)
      OBVIOUS
    <3>4. \A i \in 1..m : v[i] = LookedIn(i)
      BY <3>2
    <3>5. \A i \in 1..(m + 1) : u[i] = v[i]
      <4>1. \A i \in 1..(m + 1) : i \in 1..m \/ i = m + 1
        OBVIOUS
      <4> HIDE DEF u, v
      <4> QED
        BY <3>2, <3>3, <3>4, <4>1
    <3> HIDE DEF u, v, B
    <3>6. u = v
      BY <3>1, <3>2, <3>5, SeqEqual
    <3> QED
      BY <3>6 DEF u, v
  <2> HIDE DEF s
  <2>3. Seqs!FlattenSeq(s(m + 1)) = Seqs!FlattenSeq(s(m)) \o LookedIn(m + 1)
    BY <1>2, <2>1, <2>2, FlattenAppend
  <2> QED
    BY <2>3 DEF LookedOf, s
<1> QED
  BY <1>3, <1>4, <1>5

LEMMA PairsTyped ==
    ASSUME InputOK, Readable(dump), NEW i, Parsed(i), NEW j \in 1..Len(LookedIn(i))
    PROVE  Paired(LookedIn(i)[j])
<1> DEFINE l == fixtures[i]
           q == l.questions[j]
           e == EntryOf(l.id)
           want == Answer(e, q.qid)
           x == LookedIn(i)[j]
<1>1. LinesOf(l.id) # {}
  <2>1. LookedIn(i) # <<>>
    OBVIOUS
  <2> QED
    BY <2>1, LookedTyped
<1>2. x = [q |-> q, want |-> want] /\ j \in 1..Len(l.questions)
  BY <1>1, LookedTyped
<1>3. PICK r \in Runs : mode = r.mode /\ probe = r.probe /\ dump = r.dump /\ fixtures = r.fixtures
  BY DEF InputOK
<1>4. IsList(l.questions) /\ l \in Elems(fixtures) \ {Long, Broken}
  BY InputTypes DEF Parsed, Elems
<1>5. q \in Elems(l.questions)
  BY <1>2, <1>4, ListDomain
<1>6. IsList(q.names) /\ \A h \in DOMAIN q.names : q.probs[h] \in Int
  BY <1>3, <1>4, <1>5, RunAssumption
<1>7. ASSUME want # Nil PROVE \A name \in DOMAIN want.probs : want.probs[name] \in Int
  <2>1. PICK h \in LinesOf(l.id) : e = dump[h]
    <3>1. PICK m \in Nat : Delivered(dump) \in SUBSET (1..m)
      BY InputTypes, DeliveredTo
    <3>2. LinesOf(l.id) \in SUBSET (1..m)
      BY <3>1 DEF LinesOf
    <3>3. Latest(LinesOf(l.id)) \in LinesOf(l.id)
      BY <1>1, <3>2, LastOf DEF Latest
    <3> QED
      BY <1>1, <3>3 DEF EntryOf
  <2>2. h \in DOMAIN dump /\ dump[h] # Broken /\ dump[h] # Long
    <3>1. h \in Delivered(dump)
      BY DEF LinesOf
    <3>2. h \in DOMAIN dump /\ \A g \in 1..h : dump[g] # Long
      BY <3>1 DEF Delivered
    <3>3. h \in 1..h
      BY <3>2, InputTypes, ListDomain
    <3> QED
      BY <3>1, <3>2, <3>3 DEF Readable
  <2>3. e \in Elems(dump) \ {Long, Broken}
    BY <2>1, <2>2 DEF Elems
  <2>4. q.qid \in DOMAIN e.answers /\ want = e.answers[q.qid]
    BY <1>7 DEF Answer
  <2> HIDE DEF e, want, q
  <2> QED
    BY <1>3, <2>3, <2>4, RunAssumption
<1> QED
  BY <1>2, <1>6, <1>7 DEF Paired

-----------------------------------------------------------------------------
(* The report so far: items and references go together, and the sums are     *)
(* those of the first m of them.                                             *)

Seen(m) == {0} \cup UNION {Gaps(refs[r]) : r \in AnsweredChoices(refs, m)}
Agreeing(m) == {r \in AnsweredChoices(refs, m) : Same(refs[r])}
SumsOf(m) ==
    /\ total = Cardinality(AnsweredChoices(refs, m))
    /\ agree = Cardinality(Agreeing(m))
    /\ IsMax(maxDelta, Seen(m))

InStep ==
    /\ IsList(items) /\ Len(refs) \in Nat /\ Len(items) = Len(refs) /\ nQ = Len(refs)
    /\ \A r \in 1..Len(refs) : items[r] = refs[r].q

AllPaired == \A r \in 1..Len(refs) : Paired(refs[r])

(* The differences of a question lie among as many as it has options.        *)
LEMMA GapsFinite ==
    ASSUME NEW x, Paired(x), x.want # Nil
    PROVE  Gaps(x) \in SUBSET Int /\ IsFiniteSet(Gaps(x))
<1> DEFINE names == x.q.names
           D == {i \in DOMAIN names : names[i] \in DOMAIN x.want.probs /\ IsLast(names, i)}
           g == [j \in DOMAIN names |-> Gap(x.q.probs[j], x.want.probs[names[j]])]
<1>1. DOMAIN names = 1..Len(names) /\ Len(names) \in Nat
  BY ListDomain DEF Paired
<1>2. IsFiniteSet(D)
  <2>1. IsFiniteSet(1..Len(names))
    BY <1>1, FS_Interval
  <2>2. D \in SUBSET (1..Len(names))
    BY <1>1
  <2> QED
    BY <2>1, <2>2, FS_Subset
<1>3. Gaps(x) = {g[j] : j \in D}
  BY DEF Gaps
<1>4. \A j \in D : g[j] \in Int
  BY DEF Gap, Paired
<1> HIDE DEF g, D
<1>5. IsFiniteSet({g[j] : j \in D})
  BY <1>2, ImageFinite
<1> QED
  BY <1>3, <1>4, <1>5

ThirdOf(F) == {d[3] : d \in F}
Triples(r, E, v) == {<<r, name, v[name]>> : name \in E}
ValuesOf(E, v) == {v[name] : name \in E}

LEMMA Thirds == ASSUME NEW r, NEW E, NEW v PROVE ThirdOf(Triples(r, E, v)) = ValuesOf(E, v)
<1>1. ASSUME NEW d \in Triples(r, E, v) PROVE d[3] \in ValuesOf(E, v)
  <2>1. PICK name \in E : d = <<r, name, v[name]>>
    BY DEF Triples
  <2> QED
    BY <2>1 DEF ValuesOf
<1>2. ASSUME NEW name \in E PROVE \E d \in Triples(r, E, v) : d[3] = v[name]
  <2>1. <<r, name, v[name]>> \in Triples(r, E, v) /\ <<r, name, v[name]>>[3] = v[name]
    BY DEF Triples
  <2> QED
    BY <2>1
<1>3. ThirdOf(Triples(r, E, v)) \subseteq ValuesOf(E, v)
  BY <1>1 DEF ThirdOf
<1>4. ValuesOf(E, v) \subseteq ThirdOf(Triples(r, E, v))
  BY <1>2 DEF ThirdOf, ValuesOf
<1> QED
  BY <1>3, <1>4

(* What a batch compares are the differences of its rows.                    *)
LEMMA DeltasAre ==
    ASSUME NEW r, Paired(refs[r]), refs[r].want # Nil, Row(r) = refs[r].q
    PROVE  {d[3] : d \in Deltas(r)} = Gaps(refs[r])
<1> DEFINE x == refs[r]
           names == x.q.names
           want == x.want.probs
           P == Prob(r)
           at(name) == CHOOSE i \in DOMAIN names : names[i] = name /\ IsLast(names, i)
           D == {i \in DOMAIN names : names[i] \in DOMAIN want /\ IsLast(names, i)}
<1>1. DOMAIN names = 1..Len(names) /\ Len(names) \in Nat
  BY ListDomain DEF Paired
<1>2. DOMAIN P = Elems(names) /\ \A name \in Elems(names) : P[name] = x.q.probs[at(name)]
  BY DEF Prob
<1>3. ASSUME NEW name \in Elems(names)
      PROVE  at(name) \in DOMAIN names /\ names[at(name)] = name /\ IsLast(names, at(name))
  <2> DEFINE T == {i \in 1..Len(names) : names[i] = name}
  <2>1. T # {}
    BY <1>1 DEF Elems
  <2>2. PICK i \in T : \A j \in T : j <= i
    BY <1>1, <2>1, LastOf
  <2>3. i \in DOMAIN names /\ names[i] = name /\ IsLast(names, i)
    BY <1>1, <2>2 DEF IsLast
  <2> QED
    BY <2>3
<1>4. ASSUME NEW i \in DOMAIN names, IsLast(names, i)
      PROVE  names[i] \in Elems(names) /\ at(names[i]) = i
  <2>1. names[i] \in Elems(names)
    BY DEF Elems
  <2>2. \A j \in DOMAIN names : names[j] = names[i] /\ IsLast(names, j) => j = i
    BY <1>1, <1>4 DEF IsLast
  <2> DEFINE h == at(names[i])
  <2>3. h \in DOMAIN names /\ names[h] = names[i] /\ IsLast(names, h)
    BY <1>3, <2>1
  <2> HIDE DEF h
  <2>4. h = i
    BY <2>2, <2>3
  <2> QED
    BY <2>1, <2>4 DEF h
<1>5. {d[3] : d \in Deltas(r)} = {Gap(P[name], want[name]) : name \in DOMAIN want \cap DOMAIN P}
  <2> DEFINE E == DOMAIN want \cap DOMAIN P
             v == [name \in E |-> Gap(P[name], want[name])]
  <2>1. \A name \in E : v[name] = Gap(P[name], want[name])
    OBVIOUS
  <2>2. Deltas(r) = {<<r, name, Gap(P[name], want[name])>> : name \in E}
    BY DEF Deltas
  <2> HIDE DEF E, v, P, want
  <2>3. Deltas(r) = Triples(r, E, v)
    BY <2>1, <2>2 DEF Triples
  <2>4. ValuesOf(E, v) = {Gap(P[name], want[name]) : name \in E}
    BY <2>1 DEF ValuesOf
  <2>5. ThirdOf(Deltas(r)) = {Gap(P[name], want[name]) : name \in E}
    BY <2>3, <2>4, Thirds
  <2> QED
    BY <2>5 DEF E, ThirdOf
<1>6. Gaps(x) = {Gap(x.q.probs[j], want[names[j]]) : j \in D}
  BY DEF Gaps
<1> HIDE DEF P, at
<1>7. ASSUME NEW name \in DOMAIN want \cap DOMAIN P
      PROVE  \E j \in D : Gap(P[name], want[name]) = Gap(x.q.probs[j], want[names[j]])
  <2>1. at(name) \in D /\ names[at(name)] = name /\ P[name] = x.q.probs[at(name)]
    BY <1>2, <1>3
  <2> QED
    BY <2>1
<1>8. ASSUME NEW j \in D
      PROVE  \E name \in DOMAIN want \cap DOMAIN P : Gap(P[name], want[name]) = Gap(x.q.probs[j], want[names[j]])
  <2>1. names[j] \in DOMAIN want \cap DOMAIN P /\ P[names[j]] = x.q.probs[j]
    BY <1>2, <1>4
  <2> QED
    BY <2>1
<1> DEFINE A == {Gap(P[name], want[name]) : name \in DOMAIN want \cap DOMAIN P}
           B == {Gap(x.q.probs[j], want[names[j]]) : j \in D}
<1>9. A \subseteq B
  BY <1>7
<1>10. B \subseteq A
  BY <1>8
<1>11. Gaps(x) = B /\ {d[3] : d \in Deltas(r)} = A
  BY <1>5, <1>6
<1> HIDE DEF A, B
<1> QED
  BY <1>9, <1>10, <1>11

LEMMA SplitCount ==
    ASSUME NEW A, NEW B, NEW C, IsFiniteSet(C), C = A \cup B, A \cap B = {}
    PROVE  Cardinality(C) = Cardinality(A) + Cardinality(B)
<1>1. IsFiniteSet(A) /\ IsFiniteSet(B)
  BY FS_Subset
<1>2. Cardinality(A \cup B) = Cardinality(A) + Cardinality(B) - Cardinality(A \cap B)
  BY <1>1, FS_Union
<1>3. Cardinality(A \cap B) = 0
  BY FS_EmptySet
<1>4. Cardinality(A) \in Nat /\ Cardinality(B) \in Nat
  BY <1>1, FS_CardinalityType
<1> QED
  BY <1>2, <1>3, <1>4

(* A batch adds its rows to the sums.                                        *)
LEMMA BatchSums ==
    ASSUME InStep, AllPaired, start \in Nat, start < Len(refs), SumsOf(start), RunBatch
    PROVE  /\ End \in Nat /\ start < End /\ End <= Len(refs)
           /\ End = IF start + Batch > Len(refs) THEN Len(refs) ELSE start + Batch
           /\ total' = Cardinality(AnsweredChoices(refs, End))
           /\ agree' = Cardinality(Agreeing(End))
           /\ IsMax(maxDelta', Seen(End))
<1> DEFINE e == End
           m == Len(refs)
           rows == {r \in (start + 1)..e : Compared(r)}
           deltas == UNION {Deltas(r) : r \in rows}
           alike == {r \in rows : Choice(r) = refs[r].want.choice}
           C == AnsweredChoices(refs, start)
           D == AnsweredChoices(refs, e)
           G == UNION {Gaps(refs[r]) : r \in rows}
<1>1. /\ total' = total + Cardinality(rows)
      /\ agree' = agree + Cardinality(alike)
      /\ maxDelta' = Sets!Max(ThirdOf(deltas) \cup {maxDelta})
  BY DEF RunBatch, ThirdOf
<1>2. /\ e \in Nat /\ start < e /\ e <= m /\ m \in Nat
      /\ e = IF start + Batch > m THEN m ELSE start + Batch
  BY BatchAssumption DEF End, InStep
<1>3. \A r \in (start + 1)..e : Row(r) = refs[r].q /\ r \in 1..m
  <2> SUFFICES ASSUME NEW r \in (start + 1)..e PROVE Row(r) = refs[r].q /\ r \in 1..m
    OBVIOUS
  <2> DEFINE a == start + 1
             x == r - start
  <2>1. r \in 1..m
    BY <1>2
  <2>2. a \in Nat \ {0} /\ a <= e + 1 /\ e <= Len(items) /\ x \in 1..(e - a + 1) /\ a + x - 1 = r
    BY <1>2 DEF InStep
  <2>3. SubSeq(items, a, e)[x] = items[a + x - 1]
    <3>1. items \in Seq(Elems(items))
      BY DEF InStep, IsList
    <3> HIDE DEF a, x, e
    <3> QED
      BY <1>2, <2>2, <3>1, CutAt
  <2>4. Row(r) = items[r]
    BY <2>2, <2>3 DEF Row
  <2> QED
    BY <2>1, <2>4 DEF InStep
<1>4. D = C \cup rows /\ C \cap rows = {}
  <2>1. \A r : r \in 1..e <=> r \in 1..start \/ r \in (start + 1)..e
    BY <1>2
  <2>2. \A r : ~ (r \in 1..start /\ r \in (start + 1)..e)
    OBVIOUS
  <2>3. \A r : r \in D <=> r \in 1..e /\ refs[r].q.type = "choice" /\ refs[r].want # Nil
    BY DEF AnsweredChoices
  <2>4. \A r : r \in C <=> r \in 1..start /\ refs[r].q.type = "choice" /\ refs[r].want # Nil
    BY DEF AnsweredChoices
  <2>5. \A r : r \in rows <=> r \in (start + 1)..e /\ refs[r].q.type = "choice" /\ refs[r].want # Nil
    BY DEF Compared
  <2> HIDE DEF C, D, rows, e
  <2> QED
    BY <2>1, <2>2, <2>3, <2>4, <2>5
<1>5. IsFiniteSet(D)
  <2>1. D \in SUBSET (1..e)
    BY DEF AnsweredChoices
  <2>2. IsFiniteSet(1..e)
    <3>1. 1 \in Int /\ e \in Int
      BY <1>2
    <3> HIDE DEF e
    <3> QED
      BY <3>1, FS_Interval
  <2> QED
    BY <2>1, <2>2, FS_Subset
<1>6. total' = Cardinality(D)
  <2>1. total = Cardinality(C)
    BY DEF SumsOf
  <2> HIDE DEF C, D, rows
  <2> QED
    BY <1>1, <1>4, <1>5, <2>1, SplitCount
<1>7. Agreeing(e) = Agreeing(start) \cup alike /\ Agreeing(start) \cap alike = {}
  <2>1. \A r \in rows : Choice(r) = refs[r].want.choice <=> Same(refs[r])
    BY <1>3 DEF Choice, Same
  <2>2. alike = {r \in rows : Same(refs[r])}
    BY <2>1
  <2>3. Agreeing(e) = {r \in D : Same(refs[r])} /\ Agreeing(start) = {r \in C : Same(refs[r])}
    BY DEF Agreeing
  <2> HIDE DEF C, D, rows, alike
  <2> QED
    BY <1>4, <2>2, <2>3
<1>8. agree' = Cardinality(Agreeing(e))
  <2>1. agree = Cardinality(Agreeing(start))
    BY DEF SumsOf
  <2>2. IsFiniteSet(Agreeing(e))
    <3>1. Agreeing(e) \in SUBSET D
      BY DEF Agreeing
    <3> QED
      BY <1>5, <3>1, FS_Subset
  <2> HIDE DEF alike, e
  <2> QED
    BY <1>1, <1>7, <2>1, <2>2, SplitCount
<1>9. \A r \in D : Gaps(refs[r]) \in SUBSET Int /\ IsFiniteSet(Gaps(refs[r]))
  <2>1. \A r \in D : r \in 1..m /\ refs[r].want # Nil
    BY <1>2 DEF AnsweredChoices
  <2> QED
    BY <2>1, GapsFinite DEF AllPaired
<1>10. ThirdOf(deltas) = G
  <2>1. \A r \in rows : ThirdOf(Deltas(r)) = Gaps(refs[r])
    <3> SUFFICES ASSUME NEW r \in rows PROVE ThirdOf(Deltas(r)) = Gaps(refs[r])
      OBVIOUS
    <3>1. Paired(refs[r]) /\ refs[r].want # Nil /\ Row(r) = refs[r].q
      BY <1>3 DEF AllPaired, Compared
    <3> QED
      BY <3>1, DeltasAre DEF ThirdOf
  <2> HIDE DEF rows
  <2>2. \A y : y \in ThirdOf(deltas) <=> \E r \in rows : y \in ThirdOf(Deltas(r))
    BY DEF ThirdOf
  <2>3. \A y : y \in G <=> \E r \in rows : y \in Gaps(refs[r])
    OBVIOUS
  <2> HIDE DEF G, deltas
  <2> QED
    BY <2>1, <2>2, <2>3
<1>11. IsFiniteSet(G) /\ G \in SUBSET Int
  <2> DEFINE f == [r \in rows |-> Gaps(refs[r])]
             H == {f[r] : r \in rows}
  <2>1. G = UNION H
    OBVIOUS
  <2>2. \A T \in H : T \in SUBSET Int /\ IsFiniteSet(T)
    BY <1>4, <1>9
  <2>3. IsFiniteSet(rows)
    <3> HIDE DEF D, rows
    <3> QED
      BY <1>4, <1>5, FS_Subset
  <2>4. IsFiniteSet(H)
    <3> HIDE DEF f, rows
    <3> QED
      BY <2>3, ImageFinite
  <2> HIDE DEF H, G
  <2> QED
    BY <2>1, <2>2, <2>4, FS_UNION
<1>12. Seen(e) = Seen(start) \cup G /\ Seen(start) \in SUBSET Int
  <2>1. Seen(e) = {0} \cup UNION {Gaps(refs[r]) : r \in D} /\ Seen(start) = {0} \cup UNION {Gaps(refs[r]) : r \in C}
    BY DEF Seen
  <2>2. \A r \in C : Gaps(refs[r]) \in SUBSET Int
    BY <1>4, <1>9
  <2> HIDE DEF C, D, rows
  <2> QED
    BY <1>4, <2>1, <2>2
<1>13. IsMax(maxDelta', Seen(e))
  <2>1. IsMax(maxDelta, Seen(start))
    BY DEF SumsOf
  <2> HIDE DEF G, deltas, e
  <2> QED
    BY <1>1, <1>10, <1>11, <1>12, <2>1, MaxOfMore
<1> QED
  BY <1>2, <1>6, <1>8, <1>13

-----------------------------------------------------------------------------
(* As long as the fixtures are read the references are the questions looked  *)
(* up, and as long as the engine runs the sums are those of what it ran.     *)

Checked == IF k = 0 THEN LookedOf(n) ELSE LookedOf(n) \o SubSeq(LookedIn(n + 1), 1, k)
Covered == IF start > Len(refs) THEN Len(refs) ELSE start
NothingSummed == start = 0 /\ total = 0 /\ agree = 0 /\ maxDelta = 0
RefsOK == refs \in Seq(Pairs) /\ InStep /\ start \in Nat

ReportOK ==
    mode # "tokens" =>
        /\ RefsOK
        /\ pc = "parity" => refs = <<>> /\ NothingSummed
        /\ pc = "fixtures" => refs = Checked /\ NothingSummed
        /\ pc = "run" => refs = Looked /\ SumsOf(Covered)
        /\ pc = "done" /\ exit = 0 => refs = Looked /\ (mode = "full" => SumsOf(Len(refs)))

LEMMA LookedKept ==
    ASSUME UNCHANGED inputs
    PROVE  /\ \A i : LookedIn(i)' = LookedIn(i)
           /\ \A m : LookedOf(m)' = LookedOf(m)
           /\ Looked' = Looked /\ Pairs' = Pairs
<1>1. /\ mode' = mode /\ dump' = dump /\ fixtures' = fixtures
      /\ \A id : LinesOf(id)' = LinesOf(id) /\ EntryOf(id)' = EntryOf(id)
  BY InputsKept
<1>2. \A i : LookedIn(i)' = LookedIn(i)
  BY <1>1 DEF LookedIn
<1>3. \A m : LookedOf(m)' = LookedOf(m)
  BY <1>2 DEF LookedOf
<1>4. Delivered(fixtures)' = Delivered(fixtures)
  BY <1>1 DEF Delivered
<1>5. Looked' = Looked
  BY <1>2, <1>4 DEF Looked
<1>6. Pairs' = Pairs
  BY <1>1, <1>2 DEF Pairs, Parsed
<1> QED
  BY <1>2, <1>3, <1>5, <1>6

(* The references stay what they are.                                        *)
LEMMA RefsKept ==
    ASSUME UNCHANGED inputs, UNCHANGED <<items, refs, nQ>>, RefsOK, start' \in Nat
    PROVE  RefsOK'
  BY LookedKept DEF RefsOK, InStep

LEMMA SumsKept ==
    ASSUME UNCHANGED <<refs, total, agree, maxDelta>>
    PROVE  \A m : SumsOf(m)' = SumsOf(m)
  BY DEF SumsOf, Seen, Agreeing

LEMMA CutNext ==
    ASSUME NEW S, NEW a \in Seq(S), NEW s \in Seq(S), NEW h \in Nat, h < Len(s)
    PROVE  /\ SubSeq(s, 1, h) \in Seq(S)
           /\ Append(a \o SubSeq(s, 1, h), s[h + 1]) = a \o SubSeq(s, 1, h + 1)
<1> DEFINE b == SubSeq(s, 1, h)
           c == SubSeq(s, 1, h + 1)
           u == Append(a \o b, s[h + 1])
           v == a \o c
           l == Len(a)
<1>1. l \in Nat /\ s[h + 1] \in S
  OBVIOUS
<1>2. b \in Seq(S) /\ Len(b) = h /\ \A x \in 1..h : b[x] = s[x]
  <2>1. Len(SubSeq(s, 1, h)) = h - 1 + 1 /\ \A x \in 1..(h - 1 + 1) : SubSeq(s, 1, h)[x] = s[1 + x - 1]
    BY CutAt
  <2>2. SubSeq(s, 1, h) \in Seq(S)
    BY CutAt
  <2>3. h - 1 + 1 = h /\ \A x \in 1..h : 1 + x - 1 = x
    OBVIOUS
  <2> QED
    BY <2>1, <2>2, <2>3
<1>3. c \in Seq(S) /\ Len(c) = h + 1 /\ \A x \in 1..(h + 1) : c[x] = s[x]
  <2>1. /\ SubSeq(s, 1, h + 1) \in Seq(S)
        /\ Len(SubSeq(s, 1, h + 1)) = (h + 1) - 1 + 1
        /\ \A x \in 1..((h + 1) - 1 + 1) : SubSeq(s, 1, h + 1)[x] = s[1 + x - 1]
    <3>1. h + 1 \in Nat /\ 1 <= (h + 1) + 1 /\ h + 1 <= Len(s)
      OBVIOUS
    <3> QED
      BY <3>1, CutAt
  <2>3. (h + 1) - 1 + 1 = h + 1 /\ \A x \in 1..(h + 1) : 1 + x - 1 = x
    OBVIOUS
  <2> QED
    BY <2>1, <2>3
<1> HIDE DEF b, c
<1>4. /\ a \o b \in Seq(S) /\ Len(a \o b) = l + h
      /\ \A x \in 1..l : (a \o b)[x] = a[x]
      /\ \A x \in (l + 1)..(l + h) : (a \o b)[x] = s[x - l]
  <2>1. /\ a \o b \in Seq(S) /\ Len(a \o b) = Len(a) + Len(b)
        /\ \A x \in 1..Len(a) : (a \o b)[x] = a[x]
        /\ \A x \in (Len(a) + 1)..(Len(a) + Len(b)) : (a \o b)[x] = b[x - Len(a)]
    <3>1. b \in Seq(S)
      BY <1>2
    <3> QED
      BY <3>1, ConcatAt
  <2>2. \A x \in (l + 1)..(l + h) : x - l \in 1..h
    BY <1>1
  <2>3. \A x \in (l + 1)..(l + h) : (a \o b)[x] = b[x - l] /\ b[x - l] = s[x - l]
    BY <1>2, <2>1, <2>2
  <2> QED
    BY <1>2, <2>1, <2>3
<1>5. /\ v \in Seq(S) /\ Len(v) = l + (h + 1)
      /\ \A x \in 1..l : v[x] = a[x]
      /\ \A x \in (l + 1)..(l + (h + 1)) : v[x] = s[x - l]
  <2>1. /\ a \o c \in Seq(S) /\ Len(a \o c) = Len(a) + Len(c)
        /\ \A x \in 1..Len(a) : (a \o c)[x] = a[x]
        /\ \A x \in (Len(a) + 1)..(Len(a) + Len(c)) : (a \o c)[x] = c[x - Len(a)]
    BY <1>3, ConcatAt
  <2>2. \A x \in (l + 1)..(l + (h + 1)) : x - l \in 1..(h + 1)
    BY <1>1
  <2>3. \A x \in (l + 1)..(l + (h + 1)) : (a \o c)[x] = c[x - l] /\ c[x - l] = s[x - l]
    BY <1>3, <2>1, <2>2
  <2> QED
    BY <1>3, <2>1, <2>3
<1>6. /\ u \in Seq(S) /\ Len(u) = (l + h) + 1 /\ u[(l + h) + 1] = s[h + 1]
      /\ \A x \in 1..(l + h) : u[x] = (a \o b)[x]
  BY <1>1, <1>4, AppendProperties
<1>7. \A x \in 1..((l + h) + 1) : u[x] = v[x]
  <2> SUFFICES ASSUME NEW x \in 1..((l + h) + 1) PROVE u[x] = v[x]
    OBVIOUS
  <2> HIDE DEF u, v, l
  <2>1. CASE x \in 1..l
    <3>1. x \in 1..(l + h)
      BY <1>1, <2>1
    <3> QED
      BY <1>4, <1>5, <1>6, <2>1, <3>1
  <2>2. CASE x \in (l + 1)..(l + h)
    <3>1. x \in 1..(l + h) /\ x \in (l + 1)..(l + (h + 1))
      BY <1>1, <2>2
    <3> QED
      BY <1>4, <1>5, <1>6, <2>2, <3>1
  <2>3. CASE x = (l + h) + 1
    <3>1. x - l = h + 1 /\ x \in (l + 1)..(l + (h + 1))
      BY <1>1, <2>3
    <3> QED
      BY <1>5, <1>6, <2>3, <3>1
  <2>4. x \in 1..l \/ x \in (l + 1)..(l + h) \/ x = (l + h) + 1
    BY <1>1
  <2> QED
    BY <2>1, <2>2, <2>3, <2>4
<1>8. Len(u) = Len(v)
  BY <1>1, <1>5, <1>6
<1> HIDE DEF u, v
<1>9. u = v
  BY <1>1, <1>5, <1>6, <1>7, <1>8, SeqEqual
<1> QED
  BY <1>2, <1>9 DEF u, v, b, c

LEMMA ReportStart == ASSUME Init PROVE ReportOK
<1>1. /\ refs = <<>> /\ items = <<>> /\ nQ = 0 /\ start = 0
      /\ total = 0 /\ agree = 0 /\ maxDelta = 0
      /\ pc = IF mode = "tokens" THEN "tokens" ELSE "parity"
  BY DEF Init
<1>2. RefsOK
  <2>1. Len(refs) = 0 /\ Len(items) = 0 /\ IsList(items) /\ refs \in Seq(Pairs)
    BY <1>1, EmptySeq DEF IsList
  <2> QED
    BY <1>1, <2>1 DEF RefsOK, InStep
<1> QED
  BY <1>1, <1>2 DEF ReportOK, NothingSummed

(* Lines that are read                                                       *)
LEMMA ReadParsed ==
    ASSUME NEW m \in Nat, ReadOK(fixtures, m)
    PROVE  \A i \in 1..m : Parsed(i)
<1>1. \A i \in 1..m : i \in 1..i
  OBVIOUS
<1> QED
  BY <1>1 DEF ReadOK, Delivered, Parsed

LEMMA LineParsed ==
    ASSUME ParityInv, pc = "fixtures", Scans(fixtures), Line # Broken
    PROVE  n \in Nat /\ Parsed(n + 1) /\ \A i \in 1..n : Parsed(i)
<1>1. n \in Nat /\ ReadOK(fixtures, n) /\ n + 1 \in Delivered(fixtures)
  BY OnLine
<1>2. n + 1 \in DOMAIN fixtures
  BY <1>1 DEF Delivered
<1> QED
  BY <1>1, <1>2, ReadParsed DEF Parsed, Scans, Line

LEMMA AllRefsPaired == ASSUME InputOK, Readable(dump), refs \in Seq(Pairs) PROVE AllPaired
<1> SUFFICES ASSUME NEW r \in 1..Len(refs) PROVE Paired(refs[r])
  BY DEF AllPaired
<1>1. refs[r] \in Pairs
  OBVIOUS
<1>2. PICK i \in DOMAIN fixtures : Parsed(i) /\ refs[r] \in Elems(LookedIn(i))
  BY <1>1 DEF Pairs
<1>3. LookedIn(i) \in Seq(Pairs)
  BY <1>2, LookedTyped
<1>4. PICK j \in DOMAIN LookedIn(i) : refs[r] = LookedIn(i)[j]
  BY <1>2 DEF Elems
<1>5. j \in 1..Len(LookedIn(i))
  BY <1>3, <1>4
<1> QED
  BY <1>2, <1>4, <1>5, PairsTyped

-----------------------------------------------------------------------------
(* The steps *)

LEMMA TokensReport ==
    ASSUME ParityInv, CheckState \/ CheckEntry \/ EntryEnds \/ TokensEnd PROVE ReportOK'
<1>1. pc \in {"tokens", "entry"} /\ UNCHANGED inputs
  BY DEF CheckState, CheckEntry, EntryEnds, TokensEnd
<1>2. mode = "tokens"
  BY <1>1 DEF ParityInv, SeqOK
<1> QED
  BY <1>1, <1>2, InputsKept DEF ReportOK

LEMMA ReadReport == ASSUME ParityInv, ReportOK, ReadParity \/ ParityEnds PROVE ReportOK'
<1>1. /\ pc = "parity" /\ UNCHANGED inputs
      /\ UNCHANGED <<k, nQ, items, refs, start, agree, total, maxDelta, sumDelta>>
      /\ pc' = "parity" \/ (pc' = "fixtures" /\ n' = 0)
  BY DEF ReadParity, ParityEnds, sums
<1>2. mode # "tokens"
  BY <1>1 DEF ParityInv, TokensOK
<1>3. RefsOK /\ refs = <<>> /\ NothingSummed /\ k = 0
  BY <1>1, <1>2 DEF ReportOK, ParityInv, SeqOK
<1>4. RefsOK'
  <2>1. start' \in Nat
    BY <1>1, <1>3 DEF RefsOK
  <2> QED
    BY <1>1, <1>3, <2>1, RefsKept
<1>5. NothingSummed' /\ refs' = <<>>
  BY <1>1, <1>3 DEF NothingSummed
<1>6. n' = 0 => refs' = Checked'
  <2>1. LookedOf(0) = <<>>
    BY LookedNext DEF ParityInv
  <2> QED
    BY <1>1, <1>3, <2>1, LookedKept DEF Checked
<1> QED
  BY <1>1, <1>4, <1>5, <1>6 DEF ReportOK

(* The program ends with an error.                                           *)
LEMMA FailReport ==
    ASSUME ReportOK, UNCHANGED inputs, UNCHANGED <<items, refs, nQ, start>>,
           mode # "tokens", pc' = "done", exit' \in {1, 2}
    PROVE  ReportOK'
<1>1. RefsOK /\ start' \in Nat
  BY DEF ReportOK, RefsOK
<1>2. RefsOK'
  BY <1>1, RefsKept
<1>3. ~(exit' = 0)
  OBVIOUS
<1> QED
  BY <1>2, <1>3 DEF ReportOK

LEMMA NextFixtureReport == ASSUME ParityInv, ReportOK, NextFixture PROVE ReportOK'
<1>1. /\ pc = "fixtures" /\ pc' = pc /\ Scans(fixtures) /\ Line # Broken
      /\ n' = n + 1 /\ k' = 0 /\ UNCHANGED inputs
      /\ UNCHANGED <<nQ, items, refs, start, agree, total, maxDelta, sumDelta>>
      /\ Known(Line.id) => k = Len(Line.questions)
  BY DEF NextFixture, sums
<1>2. /\ mode # "tokens" /\ k \in Nat /\ Readable(dump) /\ TableOf(Delivered(dump))
      /\ k > 0 => LinesOf(Line.id) # {}
      /\ InputOK /\ IsList(Line.questions)
  BY <1>1, OnLine DEF ParityInv
<1>3. n \in Nat /\ Parsed(n + 1) /\ \A i \in 1..n : Parsed(i)
  BY <1>1, LineParsed
<1>4. RefsOK /\ refs = Checked /\ NothingSummed
  BY <1>1, <1>2 DEF ReportOK
<1>5. LookedOf(n) \in Seq(Pairs) /\ LookedOf(n + 1) = LookedOf(n) \o LookedIn(n + 1)
  BY <1>2, <1>3, LookedNext
<1>6. LookedIn(n + 1) \in Seq(Pairs)
  BY <1>2, <1>3, LookedTyped
<1>7. Checked = LookedOf(n + 1)
  <2>1. CASE k = 0
    <3>1. LookedIn(n + 1) = <<>>
      <4>1. CASE LinesOf(Line.id) = {}
        BY <1>2, <1>3, <4>1, LookedTyped DEF Line
      <4>2. CASE LinesOf(Line.id) # {}
        <5>1. Len(Line.questions) = 0
          BY <1>1, <1>2, <2>1, <4>2, TableKnown
        <5>2. Len(LookedIn(n + 1)) = 0
          BY <1>2, <1>3, <4>2, <5>1, LookedTyped DEF Line
        <5> QED
          BY <1>6, <5>2, EmptySeq
      <4> QED
        BY <4>1, <4>2
    <3> QED
      BY <1>5, <2>1, <3>1, ConcatEmptySeq DEF Checked
  <2>2. CASE k # 0
    <3>1. LinesOf(Line.id) # {} /\ k = Len(Line.questions)
      BY <1>1, <1>2, <2>2, TableKnown
    <3>2. Len(LookedIn(n + 1)) = k
      BY <1>2, <1>3, <3>1, LookedTyped DEF Line
    <3>3. SubSeq(LookedIn(n + 1), 1, k) = LookedIn(n + 1)
      BY <1>6, <3>2
    <3> QED
      BY <1>5, <2>2, <3>3 DEF Checked
  <2> QED
    BY <2>1, <2>2
<1>8. refs' = Checked'
  BY <1>1, <1>4, <1>7, LookedKept DEF Checked
<1>9. NothingSummed'
  BY <1>1, <1>4 DEF NothingSummed
<1>10. RefsOK'
  <2>1. start' \in Nat
    BY <1>1, <1>4 DEF RefsOK
  <2> QED
    BY <1>1, <1>4, <2>1, RefsKept
<1> QED
  BY <1>1, <1>8, <1>9, <1>10 DEF ReportOK

LEMMA CheckQuestionReport == ASSUME ParityInv, ReportOK, CheckQuestion PROVE ReportOK'
<1> DEFINE q == Line.questions[k + 1]
           want == Want(parity[Line.id], q.qid)
           x == [q |-> q, want |-> Answer(parity[Line.id], q.qid)]
<1>1. /\ pc = "fixtures" /\ Scans(fixtures) /\ Line # Broken
      /\ Known(Line.id) /\ k < Len(Line.questions)
      /\ Check(q, want, x)
  BY DEF CheckQuestion
<1>2. /\ mode # "tokens" /\ k \in Nat /\ Readable(dump) /\ TableOf(Delivered(dump))
      /\ InputOK /\ IsList(Line.questions)
  BY <1>1, OnLine DEF ParityInv
<1>3. n \in Nat /\ Parsed(n + 1) /\ \A i \in 1..n : Parsed(i)
  BY <1>1, LineParsed
<1>4. RefsOK /\ refs = Checked /\ NothingSummed
  BY <1>1, <1>2 DEF ReportOK
<1>5. LinesOf(Line.id) # {} /\ parity[Line.id] = EntryOf(Line.id)
  BY <1>1, <1>2, TableKnown
<1>6. /\ LookedIn(n + 1) \in Seq(Pairs) /\ k < Len(LookedIn(n + 1))
      /\ LookedIn(n + 1)[k + 1] = x
  <2>1. /\ LookedIn(n + 1) \in Seq(Pairs)
        /\ Len(LookedIn(n + 1)) = Len(Line.questions)
        /\ \A j \in 1..Len(LookedIn(n + 1)) :
              LookedIn(n + 1)[j] = [q |-> Line.questions[j],
                                    want |-> Answer(EntryOf(Line.id), Line.questions[j].qid)]
    BY <1>2, <1>3, <1>5, LookedTyped DEF Line
  <2>2. k + 1 \in 1..Len(LookedIn(n + 1))
    BY <1>1, <1>2, <2>1
  <2> QED
    BY <1>1, <1>5, <2>1, <2>2
<1>7. LookedOf(n) \in Seq(Pairs)
  BY <1>2, <1>3, LookedNext
<1>8. x.q = q /\ x \in Pairs
  BY <1>2, <1>6
<1> HIDE DEF q, want, x
<1>9. CASE q.seq = Nil \/ want = Nil
  <2>1. pc' = "done" /\ exit' = 1 /\ UNCHANGED inputs /\ UNCHANGED <<items, refs, nQ, start>>
    BY <1>1, <1>9 DEF Check, Die, Exit
  <2> QED
    BY <1>2, <2>1, FailReport
<1>10. CASE q.seq # Nil /\ want # Nil
  <2>1. /\ k' = k + 1 /\ nQ' = nQ + 1 /\ items' = Append(items, q) /\ refs' = Append(refs, x)
        /\ UNCHANGED inputs /\ UNCHANGED <<pc, n, start, agree, total, maxDelta>>
    BY <1>1, <1>10 DEF Check, sums
  <2>2. Checked' = Append(Checked, x)
    <3>1. SubSeq(LookedIn(n + 1), 1, 0) = <<>> /\ LookedOf(n) \o <<>> = LookedOf(n)
      BY <1>7, ConcatEmptySeq
    <3>2. Checked = LookedOf(n) \o SubSeq(LookedIn(n + 1), 1, k)
      BY <3>1 DEF Checked
    <3>3. Append(LookedOf(n) \o SubSeq(LookedIn(n + 1), 1, k), LookedIn(n + 1)[k + 1])
          = LookedOf(n) \o SubSeq(LookedIn(n + 1), 1, k + 1)
      BY <1>2, <1>6, <1>7, CutNext
    <3>4. Checked' = LookedOf(n) \o SubSeq(LookedIn(n + 1), 1, k + 1)
      <4>1. k' # 0 /\ n' = n /\ k' = k + 1
        BY <1>2, <2>1
      <4>2. Checked' = LookedOf(n)' \o SubSeq(LookedIn(n + 1)', 1, k')
        BY <4>1 DEF Checked
      <4>3. LookedOf(n)' = LookedOf(n) /\ LookedIn(n + 1)' = LookedIn(n + 1)
        <5>1. LookedOf(n)' = LookedOf(n)
          BY <2>1, <4>1, LookedKept DEF LookedOf
        <5>2. LookedIn(n + 1)' = LookedIn(n + 1)
          BY <2>1, <4>1, InputsKept DEF LookedIn
        <5> QED
          BY <5>1, <5>2
      <4> QED
        BY <4>1, <4>2, <4>3
    <3> QED
      BY <1>6, <3>2, <3>3, <3>4
  <2>3. refs' = Checked'
    BY <1>4, <2>1, <2>2
  <2>4. RefsOK'
    <3>1. refs \in Seq(Pairs) /\ InStep /\ start \in Nat
      BY <1>4 DEF RefsOK
    <3>2. /\ refs' \in Seq(Pairs) /\ Len(refs') = Len(refs) + 1
          /\ refs'[Len(refs) + 1] = x /\ \A r \in 1..Len(refs) : refs'[r] = refs[r]
      BY <1>8, <2>1, <3>1, AppendProperties
    <3> DEFINE T == Elems(items) \cup {q}
    <3>3. items \in Seq(Elems(items)) /\ items \in Seq(T) /\ q \in T
      BY <3>1 DEF InStep, IsList
    <3> HIDE DEF T
    <3>4. /\ items' \in Seq(T) /\ Len(items') = Len(items) + 1
          /\ items'[Len(items) + 1] = q /\ \A r \in 1..Len(items) : items'[r] = items[r]
      BY <2>1, <3>3, AppendProperties
    <3>5. IsList(items')
      BY <3>4 DEF IsList, Elems
    <3>6. \A r \in 1..Len(refs') : items'[r] = refs'[r].q
      <4>1. \A r \in 1..Len(refs') : r \in 1..Len(refs) \/ r = Len(refs) + 1
        BY <3>1, <3>2 DEF InStep
      <4> QED
        BY <1>8, <3>1, <3>2, <3>4, <4>1 DEF InStep
    <3>7. InStep'
      BY <2>1, <3>1, <3>2, <3>4, <3>5, <3>6 DEF InStep
    <3> QED
      BY <2>1, <3>1, <3>2, <3>7, LookedKept DEF RefsOK
  <2>5. NothingSummed'
    BY <1>4, <2>1 DEF NothingSummed
  <2> QED
    BY <1>1, <2>1, <2>3, <2>4, <2>5 DEF ReportOK
<1> QED
  BY <1>9, <1>10

LEMMA FixturesEndReport == ASSUME ParityInv, ReportOK, FixturesEnd PROVE ReportOK'
<1>1. /\ pc = "fixtures" /\ ~Scans(fixtures) /\ UNCHANGED inputs
      /\ UNCHANGED <<n, k, nQ, items, refs, start, agree, total, maxDelta>>
      /\ IF nBad > 0 THEN pc' = "done" /\ exit' = 1
         ELSE IF mode = "seq" THEN pc' = "done" /\ exit' = 0
         ELSE pc' = "run" /\ exit' = exit
  BY DEF FixturesEnd, Exit, sums
<1>2. mode # "tokens" /\ n \in Nat /\ k \in Nat
  BY <1>1 DEF ParityInv, TokensOK, CountOK
<1>3. ReadOK(fixtures, n) /\ (k > 0 => n + 1 \in Delivered(fixtures))
  BY <1>1, <1>2 DEF ParityInv, SeqOK
<1>4. n + 1 \notin Delivered(fixtures) /\ Delivered(fixtures) = 1..n
  BY <1>1, <1>2, <1>3, InputTypes, Scanned DEF ReadOK, ParityInv, Scans
<1>5. RefsOK /\ refs = Checked /\ NothingSummed
  BY <1>1, <1>2 DEF ReportOK
<1>6. refs = Looked
  <2>1. k = 0
    BY <1>2, <1>3, <1>4
  <2>2. Cardinality(1..n) = n
    <3>1. 1 \in Int /\ n \in Int
      BY <1>2
    <3>2. Cardinality(1..n) = IF 1 > n THEN 0 ELSE n - 1 + 1
      BY <3>1, FS_Interval
    <3> QED
      BY <1>2, <3>2
  <2>3. Looked = LookedOf(n)
    BY <1>4, <2>2 DEF Looked, LookedOf
  <2> QED
    BY <1>5, <2>1, <2>3 DEF Checked
<1>7. refs' = Looked'
  BY <1>1, <1>6, LookedKept
<1>8. RefsOK'
  <2>1. start' \in Nat
    BY <1>1, <1>5 DEF RefsOK
  <2> QED
    BY <1>1, <1>5, <2>1, RefsKept
<1>9. SumsOf(Covered)'
  <2>1. Covered' = 0 /\ total' = 0 /\ agree' = 0 /\ maxDelta' = 0
    BY <1>1, <1>5 DEF NothingSummed, Covered, RefsOK, InStep
  <2>2. \A l : AnsweredChoices(l, 0) = {}
    BY DEF AnsweredChoices
  <2>3. Agreeing(0) = {} /\ Seen(0) = {0}
    BY <2>2 DEF Agreeing, Seen
  <2>4. Cardinality({}) = 0 /\ IsMax(0, {0})
    BY FS_EmptySet DEF IsMax
  <2>5. SumsOf(0)'
    <3>1. AnsweredChoices(refs', 0) = {} /\ Agreeing(0)' = {} /\ Seen(0)' = {0}
      BY <1>1, <2>2, <2>3 DEF Agreeing, Seen
    <3> QED
      BY <2>1, <2>4, <3>1 DEF SumsOf
  <2> QED
    BY <2>1, <2>5 DEF SumsOf
<1>10. mode \in {"seq", "full"} /\ mode' = mode
  BY <1>1, <1>2, InputTypes, InputsKept DEF ParityInv
<1>11. CASE pc' = "run"
  BY <1>7, <1>8, <1>9, <1>11 DEF ReportOK
<1>12. CASE pc' = "done" /\ mode = "seq"
  BY <1>7, <1>8, <1>10, <1>12 DEF ReportOK
<1>13. CASE pc' = "done" /\ exit' = 1
  BY <1>8, <1>13 DEF ReportOK
<1> QED
  BY <1>1, <1>11, <1>12, <1>13

LEMMA OnRun ==
    ASSUME ParityInv, ReportOK, pc = "run"
    PROVE  /\ mode = "full" /\ RefsOK /\ AllPaired /\ refs = Looked /\ SumsOf(Covered)
           /\ Len(refs) = Len(items) /\ Len(refs) \in Nat /\ start \in Nat
<1>1. mode # "tokens"
  BY DEF ParityInv, TokensOK
<1>2. mode = "full" /\ Readable(dump)
  BY <1>1 DEF ParityInv, SeqOK, SeqSound
<1>3. RefsOK /\ refs = Looked /\ SumsOf(Covered)
  BY <1>1 DEF ReportOK
<1>4. AllPaired
  BY <1>2, <1>3, AllRefsPaired DEF RefsOK, ParityInv
<1> QED
  BY <1>2, <1>3, <1>4 DEF RefsOK, InStep

LEMMA RunBatchReport == ASSUME ParityInv, ReportOK, RunBatch PROVE ReportOK'
<1>1. /\ pc = "run" /\ pc' = pc /\ start < Len(items) /\ start' = start + Batch
      /\ UNCHANGED inputs /\ UNCHANGED <<nQ, items, refs>>
  BY DEF RunBatch
<1>2. /\ RefsOK /\ AllPaired /\ refs = Looked /\ SumsOf(Covered)
      /\ Len(refs) = Len(items) /\ Len(refs) \in Nat /\ start \in Nat
  BY <1>1, OnRun
<1>3. Covered = start
  BY <1>1, <1>2 DEF Covered
<1>4. InStep /\ start < Len(refs) /\ SumsOf(start)
  BY <1>1, <1>2, <1>3 DEF RefsOK
<1>5. /\ End = IF start + Batch > Len(refs) THEN Len(refs) ELSE start + Batch
      /\ total' = Cardinality(AnsweredChoices(refs, End))
      /\ agree' = Cardinality(Agreeing(End))
      /\ IsMax(maxDelta', Seen(End))
  BY <1>2, <1>4, BatchSums
<1>6. Covered' = End
  BY <1>1, <1>5 DEF Covered
<1>7. SumsOf(Covered)'
  <2>1. /\ AnsweredChoices(refs', Covered') = AnsweredChoices(refs, End)
        /\ Agreeing(Covered)' = Agreeing(End) /\ Seen(Covered)' = Seen(End)
    BY <1>1, <1>6 DEF Agreeing, Seen
  <2> QED
    BY <1>5, <2>1 DEF SumsOf
<1>8. RefsOK'
  <2>1. start' \in Nat
    BY <1>1, <1>2, BatchAssumption
  <2> QED
    BY <1>1, <1>2, <2>1, RefsKept
<1>9. refs' = Looked'
  BY <1>1, <1>2, LookedKept
<1> QED
  BY <1>1, <1>7, <1>8, <1>9 DEF ReportOK

LEMMA ReportReport == ASSUME ParityInv, ReportOK, Report PROVE ReportOK'
<1>1. /\ pc = "run" /\ start >= Len(items) /\ pc' = "done" /\ exit' = 0
      /\ UNCHANGED inputs /\ UNCHANGED <<nQ, items, refs, start, agree, total, maxDelta>>
  BY DEF Report, Exit, sums
<1>2. /\ RefsOK /\ refs = Looked /\ SumsOf(Covered)
      /\ Len(refs) = Len(items) /\ Len(refs) \in Nat /\ start \in Nat
  BY <1>1, OnRun
<1>3. Covered = Len(refs)
  BY <1>1, <1>2 DEF Covered
<1>4. SumsOf(Len(refs))'
  <2>1. SumsOf(Len(refs))
    BY <1>2, <1>3
  <2>2. /\ AnsweredChoices(refs', Len(refs')) = AnsweredChoices(refs, Len(refs))
        /\ Agreeing(Len(refs))' = Agreeing(Len(refs)) /\ Seen(Len(refs))' = Seen(Len(refs))
    BY <1>1 DEF Agreeing, Seen
  <2> QED
    BY <1>1, <2>1, <2>2 DEF SumsOf
<1>5. refs' = Looked'
  BY <1>1, <1>2, LookedKept
<1>6. RefsOK'
  <2>1. start' \in Nat
    BY <1>1, <1>2
  <2> QED
    BY <1>1, <1>2, <2>1, RefsKept
<1> QED
  BY <1>1, <1>4, <1>5, <1>6 DEF ReportOK

LEMMA FailSteps == ASSUME ParityInv, ReportOK, ReadBroken \/ RunPanics \/ RunFails PROVE ReportOK'
<1>1. /\ pc # "tokens" /\ pc # "entry" /\ pc # "done"
      /\ pc' = "done" /\ exit' \in {1, 2}
      /\ UNCHANGED inputs /\ UNCHANGED <<items, refs, nQ, start>>
  BY DEF ReadBroken, RunPanics, RunFails, Die, Exit
<1>2. mode # "tokens"
  BY <1>1 DEF ParityInv, TokensOK
<1> QED
  BY <1>1, <1>2, FailReport

LEMMA ReportStays == ASSUME ReportOK, UNCHANGED vars PROVE ReportOK'
<1>1. /\ UNCHANGED inputs
      /\ UNCHANGED <<pc, n, k, nQ, items, refs, start, agree, total, maxDelta, exit>>
  BY DEF vars, sums
<1>2. CASE mode = "tokens"
  BY <1>1, <1>2, InputsKept DEF ReportOK
<1>3. CASE mode # "tokens"
  <2>1. RefsOK /\ start' \in Nat
    BY <1>1, <1>3 DEF ReportOK, RefsOK
  <2>2. RefsOK'
    BY <1>1, <2>1, RefsKept
  <2>3. Looked' = Looked /\ Checked' = Checked /\ Covered' = Covered /\ mode' = mode
    BY <1>1, LookedKept, InputsKept DEF Checked, Covered
  <2>4. NothingSummed' = NothingSummed
    BY <1>1 DEF NothingSummed
  <2>5. /\ \A m : SumsOf(m)' = SumsOf(m)
    BY <1>1, SumsKept
  <2>6. SumsOf(Covered)' = SumsOf(Covered) /\ SumsOf(Len(refs))' = SumsOf(Len(refs))
    BY <1>1, <2>3 DEF SumsOf, Agreeing, Seen
  <2> QED
    BY <1>1, <1>3, <2>2, <2>3, <2>4, <2>6 DEF ReportOK
<1> QED
  BY <1>2, <1>3

-----------------------------------------------------------------------------
(* The theorems *)

(* While the fixtures are checked, items and references grow together by the *)
(* questions looked up; while the engine runs, total, agree and maxDelta are *)
(* those of the items it has answered (checkSeq).                            *)
THEOREM ReportInvariant == Spec => []ReportOK
<1>1. Init => ReportOK
  BY ReportStart
<1>2. ParityInv /\ ReportOK /\ [Next]_vars => ReportOK'
  <2> SUFFICES ASSUME ParityInv, ReportOK, [Next]_vars PROVE ReportOK'
    OBVIOUS
  <2>1. CASE CheckState \/ CheckEntry \/ EntryEnds \/ TokensEnd
    BY <2>1, TokensReport
  <2>2. CASE ReadParity \/ ParityEnds
    BY <2>2, ReadReport
  <2>3. CASE NextFixture       BY <2>3, NextFixtureReport
  <2>4. CASE CheckQuestion     BY <2>4, CheckQuestionReport
  <2>5. CASE FixturesEnd       BY <2>5, FixturesEndReport
  <2>6. CASE RunBatch          BY <2>6, RunBatchReport
  <2>7. CASE Report            BY <2>7, ReportReport
  <2>8. CASE ReadBroken \/ RunPanics \/ RunFails
    BY <2>8, FailSteps
  <2>9. CASE UNCHANGED vars    BY <2>9, ReportStays
  <2> QED
    BY <2>1, <2>2, <2>3, <2>4, <2>5, <2>6, <2>7, <2>8, <2>9 DEF Next, Rest
<1> QED
  BY <1>1, <1>2, ParityInvariant, PTL DEF Spec

(* The report counts each question looked up once, and in mode full each     *)
(* choice with a dumped answer once and against its own answer, and its      *)
(* largest difference is the largest, wherever a batch ends (checkSeq).      *)
THEOREM ReportIsTrue == Spec => []ReportTrue
<1>1. ParityInv /\ ReportOK => ReportTrue
  <2> SUFFICES ASSUME ParityInv, ReportOK, mode # "tokens", pc = "done", exit = 0
               PROVE  LET asked == AnsweredChoices(Looked, Len(Looked)) IN
                      /\ nQ = Len(Looked)
                      /\ mode = "full" =>
                            /\ total = Cardinality(asked)
                            /\ agree = Cardinality({r \in asked : Same(Looked[r])})
                            /\ maxDelta = Sets!Max({0} \cup UNION {Gaps(Looked[r]) : r \in asked})
    BY DEF ReportTrue
  <2>1. RefsOK /\ refs = Looked /\ (mode = "full" => SumsOf(Len(refs)))
    BY DEF ReportOK
  <2>2. nQ = Len(refs)
    BY <2>1 DEF RefsOK, InStep
  <2>3. ASSUME mode = "full"
        PROVE  LET asked == AnsweredChoices(refs, Len(refs)) IN
               /\ total = Cardinality(asked)
               /\ agree = Cardinality({r \in asked : Same(refs[r])})
               /\ maxDelta = Sets!Max({0} \cup UNION {Gaps(refs[r]) : r \in asked})
    <3> DEFINE m == Len(refs)
    <3>1. SumsOf(m)
      BY <2>1, <2>3
    <3>2. AllPaired
      <4>1. Readable(dump) /\ InputOK
        BY DEF ParityInv, SeqOK, SeqSound
      <4> QED
        BY <2>1, <4>1, AllRefsPaired DEF RefsOK
    <3>3. Seen(m) \in SUBSET Int
      <4>1. \A r \in AnsweredChoices(refs, m) : r \in 1..m /\ refs[r].want # Nil
        BY DEF AnsweredChoices
      <4>2. \A r \in AnsweredChoices(refs, m) : Gaps(refs[r]) \in SUBSET Int
        BY <3>2, <4>1, GapsFinite DEF AllPaired
      <4> QED
        BY <4>2 DEF Seen
    <3>4. maxDelta = Sets!Max(Seen(m))
      <4>1. IsMax(maxDelta, Seen(m))
        BY <3>1 DEF SumsOf
      <4> QED
        BY <3>3, <4>1, MaxIs
    <3> QED
      BY <3>1, <3>4 DEF SumsOf, Agreeing, Seen
  <2> QED
    BY <2>1, <2>2, <2>3
<1> QED
  BY <1>1, ParityInvariant, ReportInvariant, PTL
=============================================================================
