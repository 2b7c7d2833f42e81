-------------------------- MODULE ApplicationLifecycle --------------------------
(***************************************************************************)
(* What an applicant is promised of one application: it is edited while it *)
(* is in progress, submitted once, and then accepted with one submission   *)
(* package, which holds the forms as they were submitted.                  *)
(***************************************************************************)
EXTENDS Sequences

CONSTANT Content   \* what the forms of an application may hold

VARIABLES
  status,       \* application.application_status
  form,         \* its application_form.application_response
  submissions   \* its packages, oldest first

vars == <<status, form, submissions>>

Init ==
  /\ status = "in_progress"
  /\ form \in Content
  /\ submissions = <<>>

Edit(content) ==
  /\ status = "in_progress"
  /\ form' = content
  /\ UNCHANGED <<status, submissions>>

Submit ==
  /\ status = "in_progress"
  /\ status' = "submitted"
  /\ UNCHANGED <<form, submissions>>

Accept ==
  /\ status = "submitted"
  /\ status' = "accepted"
  /\ submissions' = Append(submissions, form)
  /\ UNCHANGED form

Next == (\E content \in Content : Edit(content)) \/ Submit \/ Accept

Spec == Init /\ [][Next]_vars

\* An accepted application has exactly one package, and it holds the forms the
\* application holds: what the agency receives is what the applicant sees.  Any
\* other application has none.
OnePackage == submissions = IF status = "accepted" THEN <<form>> ELSE <<>>
=============================================================================
