--------------------------- MODULE AnalysisRecords ---------------------------
(***************************************************************************)
(* The records of task_analyzer/: analyze_with_fallback asks a chain of    *)
(* analyzers and keeps a record of every attempt, to which the routed      *)
(* model and the two halves of the feedback, how the execution went and    *)
(* how good the result was, are added later (task_analyzer/storage.py).    *)
(*                                                                         *)
(* An update of the feedback reads the record and writes it back, without  *)
(* a transaction around the two.  SQLite may fail whenever it is called.   *)
(* The routing of this repository asks analyze_new_class_async instead     *)
(* (see TaskClasses) and has no record_id: analyze_with_fallback and the   *)
(* record_id of a request are for programs that use the library.  What a   *)
(* half of the feedback says is left out.                                  *)
(***************************************************************************)
EXTENDS Naturals, Sequences, FiniteSets

CONSTANTS
  Calls,     \* calls of analyze_with_fallback
  Analyzers  \* length of ANALYZER_CHAIN

VARIABLES
  records,  \* table analysis_records
  calls,    \* where each call is
  updates   \* where the update of each half is, per call

vars == <<records, calls, updates>>

-----------------------------------------------------------------------------
Halves == {"execution", "quality"}

Record == [call : Calls, success : BOOLEAN, routed : BOOLEAN, feedback : SUBSET Halves]

Analyzing == [pc : {"ask", "answered", "failed"}, analyzer : 1 .. Analyzers]
Returned == [pc : {"returned"}, id : Nat]
Raised == [pc : {"raised"}, lost : BOOLEAN]   \* lost: an attempt without a record

Update == [pc : {"open", "done"}] \cup [pc : {"read"}, seen : SUBSET Halves]

TypeOK ==
  /\ records \in Seq(Record)
  /\ calls \in [Calls -> Analyzing \cup Returned \cup Raised]
  /\ updates \in [Calls -> [Halves -> Update]]

Init ==
  /\ records = <<>>
  /\ calls = [c \in Calls |-> [pc |-> "ask", analyzer |-> 1]]
  /\ updates = [c \in Calls |-> [h \in Halves |-> [pc |-> "open"]]]

At(c, pc) == calls[c].pc = pc
Become(c, state) == calls' = [calls EXCEPT ![c] = state]

(* save_async: the record, and the id it gets. *)
Save(c, success) ==
  records' = Append(records, [call |-> c, success |-> success, routed |-> FALSE, feedback |-> {}])

-----------------------------------------------------------------------------
(* _do_analysis gives a result or a TaskAnalysisError; any other exception, *)
(* such as that of int() on a count of tokens that is none, is not caught   *)
(* and ends the chain.                                                      *)
DoAnalysis(c) ==
  /\ At(c, "ask")
  /\ \/ \E outcome \in {"answered", "failed"} : Become(c, [calls[c] EXCEPT !.pc = outcome])
     \/ Become(c, [pc |-> "raised", lost |-> TRUE])
  /\ UNCHANGED <<records, updates>>

(* The record of a result.  A failure to save it is no TaskAnalysisError    *)
(* and ends the chain.                                                      *)
Answered(c) ==
  /\ At(c, "answered")
  /\ \/ Save(c, TRUE) /\ Become(c, [pc |-> "returned", id |-> Len(records) + 1])
     \/ UNCHANGED records /\ Become(c, [pc |-> "raised", lost |-> TRUE])
  /\ UNCHANGED updates

(* Mutant: a failure that cannot be recorded is forgotten. *)
FailedForgotten(c) ==
  /\ At(c, "failed")
  /\ Save(c, FALSE) \/ UNCHANGED records
  /\ Become(c, IF calls[c].analyzer < Analyzers
               THEN [pc |-> "ask", analyzer |-> calls[c].analyzer + 1]
               ELSE [pc |-> "raised", lost |-> FALSE])
  /\ UNCHANGED updates

(* The record of a failure, before the next analyzer is asked.              *)
Failed(c) ==
  /\ At(c, "failed")
  /\ \/ /\ Save(c, FALSE)
        /\ Become(c, IF calls[c].analyzer < Analyzers
                     THEN [pc |-> "ask", analyzer |-> calls[c].analyzer + 1]
                     ELSE [pc |-> "raised", lost |-> FALSE])
     \/ UNCHANGED records /\ Become(c, [pc |-> "raised", lost |-> TRUE])
  /\ UNCHANGED updates

-----------------------------------------------------------------------------
(* The caller has the id of the record, and routes with it. *)

UpdateRoutedModel(c) ==
  /\ At(c, "returned")
  /\ records' = [records EXCEPT ![calls[c].id].routed = TRUE]
  /\ UNCHANGED <<calls, updates>>

(* update_execution_result_async and update_quality_review_async read what  *)
(* the record has ...                                                       *)
ReadFeedback(c, half) ==
  /\ At(c, "returned") /\ updates[c][half].pc # "read"
  /\ updates' = [updates EXCEPT ![c][half] = [pc |-> "read", seen |-> records[calls[c].id].feedback]]
  /\ UNCHANGED <<records, calls>>

(* ... and write it back with their half, unless SQLite fails.              *)
WriteFeedback(c, half) ==
  /\ updates[c][half].pc = "read"
  /\ \/ /\ records' = [records EXCEPT ![calls[c].id].feedback = updates[c][half].seen \cup {half}]
        /\ updates' = [updates EXCEPT ![c][half] = [pc |-> "done"]]
     \/ /\ UNCHANGED records
        /\ updates' = [updates EXCEPT ![c][half] = [pc |-> "open"]]
  /\ UNCHANGED calls

(* Nothing is left to do. *)
Over ==
  /\ \A c \in Calls : At(c, "raised")
  /\ UNCHANGED vars

Next ==
  \/ Over
  \/ \E c \in Calls :
       \/ DoAnalysis(c) \/ Answered(c) \/ Failed(c) \/ UpdateRoutedModel(c)
       \/ \E half \in Halves : ReadFeedback(c, half) \/ WriteFeedback(c, half)

Spec == Init /\ [][Next]_vars

-----------------------------------------------------------------------------
Recorded(c, success) ==
  Cardinality({i \in DOMAIN records : records[i].call = c /\ records[i].success = success})

(* The records of a call tell its attempts: one failure for each analyzer   *)
(* that was left behind, a success only where the call returned, and that   *)
(* success is the record the caller was given the id of.  Calls interleave, *)
(* SQLite may lose any record and an attempt may end in another exception:  *)
(* then the chain stops there.  Only a success is ever given a routed model *)
(* or feedback.                                                             *)
RecordsTellAttempts ==
  /\ \A c \in Calls :
       CASE calls[c].pc \in {"ask", "answered", "failed"} ->
              Recorded(c, FALSE) = calls[c].analyzer - 1 /\ Recorded(c, TRUE) = 0
         [] At(c, "returned") ->
              /\ Recorded(c, FALSE) < Analyzers /\ Recorded(c, TRUE) = 1
              /\ records[calls[c].id].call = c /\ records[calls[c].id].success
         [] At(c, "raised") ->
              /\ Recorded(c, TRUE) = 0
              /\ ~calls[c].lost => Recorded(c, FALSE) = Analyzers
  /\ \A i \in DOMAIN records :
       records[i].routed \/ records[i].feedback # {} => records[i].success

(* task_analyzer/storage.py 262: "Append feedback.quality while preserving   *)
(* existing feedback.execution."  TASK_ANALYZER.md 373 says the same.  A      *)
(* half whose update has completed is in the record.  Violated: two updates  *)
(* that read before either has written leave the half of the second.         *)
FeedbackPreserved ==
  \A c \in Calls, half \in Halves :
    updates[c][half].pc = "done" => half \in records[calls[c].id].feedback
=============================================================================
