------------------------------- MODULE Mailer -------------------------------
(***************************************************************************)
(* The e-mail outbox of mailer/mailer.go: rows of the email table, and the *)
(* goroutine of Start that selects the unsent ones every ten seconds (or   *)
(* when triggered), sends them one after the other, newest first, and      *)
(* marks each row in a database call of its own.                           *)
(*                                                                         *)
(* NULL retries and 0 retries are not told apart by the code, both are 0.  *)
(* A failing select changes nothing: the loop just polls again.            *)
(***************************************************************************)
EXTENDS Naturals

CONSTANTS
  MaxEmail,    \* bound: rows ever stored
  Retries,     \* "retries <= 3" of the select
  MaxFaults    \* bound: database errors, crashes, lost answers

\* what the constants are; Notifications assumes it of its own
MailerAssumption == MaxEmail \in Nat /\ Retries \in Nat /\ MaxFaults \in Nat

Emails == 1 .. MaxEmail       \* ids, in the order of the created column

VARIABLES
  row,         \* "none", "unsent" or "sent" (the sent column is set)
  retries,     \* the retries column
  at,          \* where the loop is
  batch,       \* selected emails not handled yet
  delivered,   \* mail provider: times it took the email
  failed,      \* attempts that ended in an error
  excused,     \* deliveries that a fault kept from being recorded
  faults

vars == <<row, retries, at, batch, delivered, failed, excused, faults>>

\* mutants of Eligible: sent rows too; one retry too many; retries not looked at
EligibleSentToo == {e \in Emails : row[e] # "none" /\ retries[e] <= Retries}
EligibleOnceMore == {e \in Emails : row[e] = "unsent" /\ retries[e] <= Retries + 1}
EligibleForEver == {e \in Emails : row[e] = "unsent"}

Eligible == {e \in Emails : row[e] = "unsent" /\ retries[e] <= Retries}

\* order by created desc
Current == CHOOSE e \in batch : \A f \in batch : f <= e

Fault == faults < MaxFaults /\ faults' = faults + 1

Bump(f, e) == [f EXCEPT ![e] = @ + 1]

\* the next email of the loop in sendUnsentEmails
Advance ==
  /\ batch' = batch \ {Current}
  /\ at' = IF batch' = {} THEN "select" ELSE "send"

-----------------------------------------------------------------------------
\* StoreEmail; an insert that fails leaves no row
Store(e) ==
  /\ at # "down"
  /\ row[e] = "none" /\ \A f \in 1 .. e - 1 : row[f] # "none"
  /\ row' = [row EXCEPT ![e] = "unsent"]
  /\ UNCHANGED <<retries, at, batch, delivered, failed, excused, faults>>

\* the ticker or SendUnsentEmails: select all unsent emails
Poll ==
  /\ at = "select"
  /\ batch' = Eligible
  /\ at' = IF Eligible = {} THEN "select" ELSE "send"
  /\ UNCHANGED <<row, retries, delivered, failed, excused, faults>>

\* SendEmail returns nil
ProviderAccepts ==
  /\ at = "send" /\ at' = "accepted"
  /\ delivered' = Bump(delivered, Current)
  /\ UNCHANGED <<row, retries, batch, failed, excused, faults>>

\* SendEmail returns an error; the provider may have taken the email although
\* its answer was lost
ProviderFails ==
  /\ at = "send" /\ at' = "refused"
  /\ failed' = Bump(failed, Current)
  /\ \/ UNCHANGED <<delivered, excused, faults>>
     \/ /\ Fault
        /\ delivered' = Bump(delivered, Current)
        /\ excused' = Bump(excused, Current)
  /\ UNCHANGED <<row, retries, batch>>

\* on success mark the email sent
MarkSent ==
  /\ at = "accepted"
  /\ row' = [row EXCEPT ![Current] = "sent"]
  /\ Advance
  /\ UNCHANGED <<retries, delivered, failed, excused, faults>>

\* the database cannot be opened or updated: the row stays as it was
MarkSentFails ==
  /\ at = "accepted"
  /\ Fault /\ excused' = Bump(excused, Current)
  /\ Advance
  /\ UNCHANGED <<row, retries, delivered, failed>>

\* on error increase the retry count
MarkFailed ==
  /\ at = "refused"
  /\ retries' = Bump(retries, Current)
  /\ Advance
  /\ UNCHANGED <<row, delivered, failed, excused, faults>>

MarkFailedFails ==
  /\ at = "refused"
  /\ Fault
  /\ Advance
  /\ UNCHANGED <<row, retries, delivered, failed, excused>>

\* The process dies, at any step.  Stop is the same as a crash between two
\* polls: the loop sees its done channel only there, and the process exits
\* right after it.
Crash ==
  /\ at # "down" /\ at' = "down"
  /\ Fault
  /\ batch' = {}
  /\ excused' = IF at = "accepted" THEN Bump(excused, Current) ELSE excused
  /\ UNCHANGED <<row, retries, delivered, failed>>

\* New and Start
Restart ==
  /\ at = "down" /\ at' = "select"
  /\ UNCHANGED <<row, retries, batch, delivered, failed, excused, faults>>

Loop ==
  \/ Poll \/ ProviderAccepts \/ ProviderFails
  \/ MarkSent \/ MarkSentFails \/ MarkFailed \/ MarkFailedFails

Init ==
  /\ row = [e \in Emails |-> "none"]
  /\ retries = [e \in Emails |-> 0]
  /\ at = "select" /\ batch = {}
  /\ delivered = [e \in Emails |-> 0]
  /\ failed = [e \in Emails |-> 0]
  /\ excused = [e \in Emails |-> 0]
  /\ faults = 0

Next == (\E e \in Emails : Store(e)) \/ Loop \/ Crash \/ Restart

Spec == Init /\ [][Next]_vars

-----------------------------------------------------------------------------
(* Properties. *)

\* Types of the table, the loop and the counters.
TypeOK ==
  /\ row \in [Emails -> {"none", "unsent", "sent"}]
  /\ retries \in [Emails -> Nat]
  /\ at \in {"select", "send", "accepted", "refused", "down"}
  /\ batch \in SUBSET Emails
  /\ delivered \in [Emails -> Nat]
  /\ failed \in [Emails -> Nat]
  /\ excused \in [Emails -> Nat]
  /\ faults \in Nat

\* An email reaches its receiver a second time only when a fault hid an
\* earlier delivery from the table: between sending and marking there is a
\* database call of its own (mailer/mailer.go:153-196).
NoUnexplainedDuplicate ==
  \A e \in Emails :
    delivered[e] <= excused[e] + (IF \/ row[e] = "sent"
                                     \/ at = "accepted" /\ e = Current
                                  THEN 1 ELSE 0)

\* An email marked sent was taken by the provider, and no email is tried in
\* vain more often than the table and the faults account for: the retry count
\* never passes Retries + 1 (mailer/mailer.go:133, 163-173).
RetriesCounted ==
  \A e \in Emails :
    /\ row[e] = "sent" => delivered[e] > 0
    /\ retries[e] <= failed[e]
    /\ retries[e] <= Retries + 1

\* the promise of an outbox
StatusOf(r, n) ==
  CASE r = "none" -> "none"
    [] r = "sent" -> "settled"
    [] r = "unsent" /\ n <= Retries -> "pending"
    [] r = "unsent" /\ n > Retries -> "abandoned"

Status(e) == StatusOf(row[e], retries[e])

Abstract == INSTANCE Outbox
  WITH Items <- Emails, status <- [e \in Emails |-> Status(e)],
       deliveries <- delivered, failures <- failed

\* The mailer implements the outbox: only unsent emails with retries left are
\* sent, sent and abandoned emails stay so (mailer/mailer.go:109-196).
ImplementsOutbox == Abstract!Spec
=============================================================================
