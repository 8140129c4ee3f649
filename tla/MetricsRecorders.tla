-------------------------- MODULE MetricsRecorders --------------------------
(***************************************************************************)
(* The two recorders behind the controller's metrics: the count of DNS     *)
(* requests (routes/metrics_recorder.go) and the longest time a route      *)
(* message was under way (mbus/metrics_recorder.go).  Each has a mutex     *)
(* that its methods hold, so every method is one action.                   *)
(***************************************************************************)
EXTENDS Integers

VARIABLES requestCount, currentMax

recorderVars == <<requestCount, currentMax>>

\* Mutant: a request is counted twice.
RecordRequest_Twice ==
  /\ requestCount' = requestCount + 2
  /\ UNCHANGED currentMax

RecordRequest ==
  /\ requestCount' = requestCount + 1
  /\ UNCHANGED currentMax

\* Mutant: the counter is not reset.
Getter_NoReset(count) ==
  /\ count = requestCount
  /\ UNCHANGED recorderVars

\* The count, which is reset.
Getter(count) ==
  /\ count = requestCount
  /\ requestCount' = 0
  /\ UNCHANGED currentMax

\* Mutant: the last message wins.
RecordMessageTransitTime_Last(stamped, diff) ==
  /\ currentMax' = IF stamped THEN diff ELSE currentMax
  /\ UNCHANGED requestCount

\* A message without a time stamp counts for nothing; diff is negative if the
\* sender's clock is ahead.
RecordMessageTransitTime(stamped, diff) ==
  /\ currentMax' = IF stamped /\ diff > currentMax THEN diff ELSE currentMax
  /\ UNCHANGED requestCount

GetMaxSinceLastInterval(max) ==
  /\ max = currentMax
  /\ currentMax' = 0
  /\ UNCHANGED requestCount

\* NewMetricsRecorder, and the zero value of the other one.
Init ==
  /\ requestCount = 0
  /\ currentMax = 0

=============================================================================
