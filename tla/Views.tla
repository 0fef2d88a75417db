------------------------------- MODULE Views --------------------------------
(***************************************************************************)
(* The four views of the data side by side: the audit trail and its        *)
(* timeline, the recovery summary and the evaluation reports. They share   *)
(* nothing but that each is read while somebody else writes.               *)
(***************************************************************************)
EXTENDS AuditTrail

CONSTANTS
  Runs, Shapes, MaxAsks,               \* the reports
  Cases, Risk, MaxAttempts, MaxSummaries   \* the recovery summary

VARIABLES
  files, times, queue, reading, answer, asked, asks,
  sums, figures, statement, summaries

Reports == INSTANCE EvaluationReports WITH
  MaxRequests <- MaxAsks, clock <- times, requests <- asks

Summary == INSTANCE RecoverySummary WITH
  MaxRequests <- MaxSummaries,
  row <- sums, next <- statement, requests <- summaries

reports == <<files, times, queue, reading, answer, asked, asks>>
summary == <<sums, figures, statement, summaries>>
-----------------------------------------------------------------------------
(* Properties *)

(* No older report is served than the newest readable one there was        *)
(* (evaluation_service.get_latest_summary).                                *)
SummaryIsLatest == Reports!SummaryIsLatest

(* The average recovery amount of a summary is one of real payments        *)
(* (recovery_summary_service.compute_recovery_summary).                    *)
AverageIsOfRealPayments == Summary!AverageIsOfRealPayments

(* recovery_rate "is confirmed-recovered / eligible"                       *)
(* (schemas/evaluation.py:62): a share.                                    *)
RecoveryRateIsARate == Summary!RecoveryRateIsARate
=============================================================================
