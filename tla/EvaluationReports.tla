------------------------- MODULE EvaluationReports -------------------------
(***************************************************************************)
(* The report directory between the evaluation harness, which writes JSON  *)
(* files into it from processes of its own, and the API, which serves the  *)
(* newest one it can parse (run_evaluation.main, run_ai_evaluation,        *)
(* metrics/report.py, app/services/evaluation_service.py).                 *)
(*                                                                         *)
(* What a report says is reduced to its shape: the one the API's schema    *)
(* was written for, a comparison with the model, or one whose groups no    *)
(* longer match the schema because harness and backend have drifted.       *)
(***************************************************************************)
EXTENDS Naturals, Sequences, FiniteSets, SequencesExt

CONSTANTS
  Runs,         \* executions of the harness
  Shapes,       \* shapes of the reports that reach the directory
  MaxRequests   \* bound: requests for the summary

ReportsAssumption ==
  /\ Shapes \subseteq {"report", "comparison", "drifted"}
  /\ MaxRequests \in Nat

VARIABLES
  files,      \* the files, by the run that writes them, as far as they exist
  clock,      \* file times are drawn from it
  queue,      \* files the open request has still to try, newest first
  reading,    \* whether a request is open
  answer,     \* the last answer: a run, or "no_evaluation_run"; "none"
  asked,      \* history: the readable reports when the request came
  requests    \* requests made

reportVars == <<files, clock, queue, reading, answer, asked, requests>>

(* A file is there from the moment it is opened for writing.               *)
Missing == [shape |-> "none", content |-> "none", time |-> 0]
Present == {r \in Runs : files[r] # Missing}

(* EvaluationSummaryRead(status="ok", **data) on a whole JSON text. Every  *)
(* field of that schema is optional and unknown keys are ignored: what it  *)
(* rejects is a group that is there and does not match.                    *)
Parsable(r) ==
  /\ files[r].content = "whole"
  /\ files[r].shape \in {"report", "comparison"}

(* The orders sorted() may give the files, by their times.                 *)
(* Mutant: the sort is not reversed.                                       *)
OldestFirst ==
  {order \in SetToSeqs(Present) :
     \A i, j \in DOMAIN order : i < j => files[order[i]].time <= files[order[j]].time}

NewestFirst ==
  {order \in SetToSeqs(Present) :
     \A i, j \in DOMAIN order : i < j => files[order[i]].time >= files[order[j]].time}

Init ==
  /\ files = [r \in Runs |-> Missing]
  /\ clock = 0
  /\ queue = <<>> /\ reading = FALSE
  /\ answer = "none" /\ asked = {}
  /\ requests = 0
----------------------------------------------------------------------------
(* The harness. The default name of a report holds its run_id, so every    *)
(* run writes a file of its own.                                           *)

Put(r, file) ==
  /\ files' = [files EXCEPT ![r] = [file EXCEPT !.time = clock + 1]]
  /\ clock' = clock + 1
  /\ UNCHANGED <<queue, reading, answer, asked, requests>>

(* write_text creates an empty file ...                                    *)
OpenReport(r) ==
  /\ r \notin Present
  /\ \E shape \in Shapes :
       Put(r, [shape |-> shape, content |-> "partial", time |-> 0])

(* ... and then fills it; a run killed in between leaves it cut off.       *)
WriteReport(r) ==
  /\ files[r].content = "partial"
  /\ Put(r, [files[r] EXCEPT !.content = "whole"])
----------------------------------------------------------------------------
(* The API: get_latest_summary *)

Ask ==
  /\ ~reading /\ requests < MaxRequests
  /\ reading' = TRUE /\ answer' = "none"
  /\ queue' \in NewestFirst
  /\ asked' = {r \in Present : files[r].content = "whole"}
  /\ requests' = requests + 1
  /\ UNCHANGED <<files, clock>>

Serve(what) == answer' = what /\ reading' = FALSE /\ queue' = <<>>

(* Each file is opened when its turn comes.                                *)
Try ==
  /\ reading /\ queue # <<>>
  /\ IF Parsable(Head(queue))
     THEN Serve(Head(queue))
     ELSE queue' = Tail(queue) /\ UNCHANGED <<reading, answer>>
  /\ UNCHANGED <<files, clock, asked, requests>>

NothingFound ==
  /\ reading /\ queue = <<>>
  /\ Serve("no_evaluation_run")
  /\ UNCHANGED <<files, clock, asked, requests>>

Next ==
  \/ \E r \in Runs : OpenReport(r) \/ WriteReport(r)
  \/ Ask \/ Try \/ NothingFound

Spec == Init /\ [][Next]_reportVars
----------------------------------------------------------------------------
(* Properties *)

Answered == ~reading /\ answer # "none"
Served == Answered /\ answer \in Runs

(* The summary is at least as new as every readable report there was when  *)
(* the request came, however the harness writes meanwhile, and it says     *)
(* no_evaluation_run only when there was none.                             *)
SummaryIsLatest ==
  Answered =>
    \A r \in asked :
      Parsable(r) => Served /\ files[answer].time >= files[r].time

(* A comparison "never picked up here and mis-parsed as this (different)   *)
(* shape. `_parse` is still defensive about that in case a stray file ever *)
(* ends up in the wrong place" (evaluation_service.py:11-14).              *)
StrayIsSkipped == Served => files[answer].shape # "comparison"

(* "If the two drift, `GET /api/v1/evaluation/summary` will fail Pydantic  *)
(* validation loudly rather than silently showing wrong data"              *)
(* (metrics/report.py:5-6): with a drifted report the newest of all, no    *)
(* request is answered as if it were not there.                            *)
DriftIsLoud ==
  Answered =>
    ~ \E r \in asked : /\ files[r].shape = "drifted"
                       /\ \A q \in Present : files[q].time <= files[r].time
============================================================================
