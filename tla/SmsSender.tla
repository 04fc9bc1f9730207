----------------------------- MODULE SmsSender -----------------------------
(***************************************************************************)
(* The SMS outbox of sms/sms.go: rows of the sms table, and the goroutine  *)
(* of Start that selects the unfinished ones, hands them to the gateway    *)
(* one after the other, and marks each row.  A refused SMS also stores an  *)
(* alert e-mail before its retry count is raised.                          *)
(*                                                                         *)
(* sendSMS takes every JSON answer for a success, whatever the HTTP status *)
(* (httpclient.ReadJsonResult does not look at it): "answered" counts such *)
(* answers, which need not mean that a telephone rang.                     *)
(***************************************************************************)
EXTENDS Naturals

CONSTANTS
  MaxSMS,      \* bound: rows ever stored
  Retries,     \* "retries <= 10" of the select
  MaxFaults    \* bound: database errors, crashes, lost answers

\* what the constants are; Notifications assumes it of its own
SmsAssumption == MaxSMS \in Nat /\ Retries \in Nat /\ MaxFaults \in Nat

SMSs == 1 .. MaxSMS           \* ids, in the order of the created column

VARIABLES
  row,         \* "none", "unfinished" or "finished" (the finished column is set)
  retries,     \* the retries column
  at,          \* where the loop is
  batch,       \* selected SMSs not handled yet
  answered,    \* gateway: times it took the SMS
  failed,      \* attempts that ended in an error
  alerts,      \* alert e-mails stored for the SMS
  missed,      \* alert e-mails that could not be stored
  excused,     \* answers that a fault kept from being recorded
  faults

vars == <<row, retries, at, batch, answered, failed, alerts, missed, excused, faults>>

\* mutant of Eligible: the last attempt is never made
EligibleBelow == {s \in SMSs : row[s] = "unfinished" /\ retries[s] < Retries}

Eligible == {s \in SMSs : row[s] = "unfinished" /\ retries[s] <= Retries}

\* order by created desc
Current == CHOOSE s \in batch : \A r \in batch : r <= s

Fault == faults < MaxFaults /\ faults' = faults + 1

Bump(f, s) == [f EXCEPT ![s] = @ + 1]

\* the next SMS of the loop in triggerUnfinishedSMS
Advance ==
  /\ batch' = batch \ {Current}
  /\ at' = IF batch' = {} THEN "select" ELSE "open"

-----------------------------------------------------------------------------
\* StoreSMS
Store(s) ==
  /\ at # "down"
  /\ row[s] = "none" /\ \A r \in 1 .. s - 1 : row[r] # "none"
  /\ row' = [row EXCEPT ![s] = "unfinished"]
  /\ UNCHANGED <<retries, at, batch, answered, failed, alerts, missed, excused, faults>>

\* the ticker or TriggerUnsentSMS: select all unfinished SMSs
Poll ==
  /\ at = "select"
  /\ batch' = Eligible
  /\ at' = IF Eligible = {} THEN "select" ELSE "open"
  /\ UNCHANGED <<row, retries, answered, failed, alerts, missed, excused, faults>>

\* triggerSMS opens the database before it sends
Open ==
  /\ at = "open" /\ at' = "send"
  /\ UNCHANGED <<row, retries, batch, answered, failed, alerts, missed, excused, faults>>

OpenFails ==
  /\ at = "open"
  /\ Fault
  /\ Advance
  /\ UNCHANGED <<row, retries, answered, failed, alerts, missed, excused>>

\* sendSMS returns nil
GatewayAnswers ==
  /\ at = "send" /\ at' = "answered"
  /\ answered' = Bump(answered, Current)
  /\ UNCHANGED <<row, retries, batch, failed, alerts, missed, excused, faults>>

\* mutant of GatewayFails: no alert is stored
GatewayFailsSilently ==
  /\ at = "send" /\ at' = "failed"
  /\ failed' = Bump(failed, Current)
  /\ UNCHANGED <<row, retries, batch, answered, alerts, missed, excused, faults>>

\* sendSMS returns an error; the gateway may have taken the SMS although its
\* answer was lost or no JSON
GatewayFails ==
  /\ at = "send" /\ at' = "alert"
  /\ failed' = Bump(failed, Current)
  /\ \/ UNCHANGED <<answered, excused, faults>>
     \/ /\ Fault
        /\ answered' = Bump(answered, Current)
        /\ excused' = Bump(excused, Current)
  /\ UNCHANGED <<row, retries, batch, alerts, missed>>

\* SendSmsFailedEmail
AlertStored ==
  /\ at = "alert" /\ at' = "failed"
  /\ alerts' = Bump(alerts, Current)
  /\ UNCHANGED <<row, retries, batch, answered, failed, missed, excused, faults>>

\* ... which swallows the error of StoreEmail
AlertMissed ==
  /\ at = "alert" /\ at' = "failed"
  /\ Fault
  /\ missed' = Bump(missed, Current)
  /\ UNCHANGED <<row, retries, batch, answered, failed, alerts, excused>>

\* mutant of MarkFailed: the SMS is marked finished
MarkFailedFinishes ==
  /\ at = "failed"
  /\ row' = [row EXCEPT ![Current] = "finished"]
  /\ Advance
  /\ UNCHANGED <<retries, answered, failed, alerts, missed, excused, faults>>

\* increase the retry count
MarkFailed ==
  /\ at = "failed"
  /\ retries' = Bump(retries, Current)
  /\ Advance
  /\ UNCHANGED <<row, answered, failed, alerts, missed, excused, faults>>

MarkFailedFails ==
  /\ at = "failed"
  /\ Fault
  /\ Advance
  /\ UNCHANGED <<row, retries, answered, failed, alerts, missed, excused>>

\* set the Finished date
MarkFinished ==
  /\ at = "answered"
  /\ row' = [row EXCEPT ![Current] = "finished"]
  /\ Advance
  /\ UNCHANGED <<retries, answered, failed, alerts, missed, excused, faults>>

MarkFinishedFails ==
  /\ at = "answered"
  /\ Fault /\ excused' = Bump(excused, Current)
  /\ Advance
  /\ UNCHANGED <<row, retries, answered, failed, alerts, missed>>

\* the process dies, at any step; Stop is the same as a crash between two polls
Crash ==
  /\ at # "down" /\ at' = "down"
  /\ Fault
  /\ batch' = {}
  /\ excused' = IF at = "answered" THEN Bump(excused, Current) ELSE excused
  /\ UNCHANGED <<row, retries, answered, failed, alerts, missed>>

\* New and Start
Restart ==
  /\ at = "down" /\ at' = "select"
  /\ UNCHANGED <<row, retries, batch, answered, failed, alerts, missed, excused, faults>>

\* the steps of the loop that leave the mailer alone
Loop ==
  \/ Poll \/ Open \/ OpenFails \/ GatewayAnswers \/ GatewayFails \/ AlertMissed
  \/ MarkFailed \/ MarkFailedFails \/ MarkFinished \/ MarkFinishedFails

Init ==
  /\ row = [s \in SMSs |-> "none"]
  /\ at = "select" /\ batch = {}
  /\ retries = [s \in SMSs |-> 0]
  /\ answered = [s \in SMSs |-> 0]
  /\ failed = [s \in SMSs |-> 0]
  /\ alerts = [s \in SMSs |-> 0]
  /\ missed = [s \in SMSs |-> 0]
  /\ excused = [s \in SMSs |-> 0]
  /\ faults = 0

Next == (\E s \in SMSs : Store(s)) \/ Loop \/ AlertStored \/ Crash \/ Restart

Spec == Init /\ [][Next]_vars

-----------------------------------------------------------------------------
(* Properties. *)

\* Types of the table, the loop and the counters.
TypeOK ==
  /\ row \in [SMSs -> {"none", "unfinished", "finished"}]
  /\ retries \in [SMSs -> Nat]
  /\ at \in {"select", "open", "send", "alert", "answered", "failed", "down"}
  /\ batch \in SUBSET SMSs
  /\ answered \in [SMSs -> Nat]
  /\ failed \in [SMSs -> Nat]
  /\ alerts \in [SMSs -> Nat]
  /\ missed \in [SMSs -> Nat]
  /\ excused \in [SMSs -> Nat]
  /\ faults \in Nat

\* The gateway takes an SMS a second time only when a fault hid an earlier
\* answer from the table (sms/sms.go:190-224).
NoUnexplainedDuplicate ==
  \A s \in SMSs :
    answered[s] <= excused[s] + (IF \/ row[s] = "finished"
                                    \/ at = "answered" /\ s = Current
                                 THEN 1 ELSE 0)

\* An SMS that is given up was announced by e-mail: each of its Retries + 1
\* counted attempts stored an alert first, or failed to (sms/sms.go:193-211).
AbandonedSmsAlerted ==
  \A s \in SMSs :
    row[s] = "unfinished" /\ retries[s] > Retries => alerts[s] + missed[s] > Retries

\* the promise of an outbox
StatusOf(r, n) ==
  CASE r = "none" -> "none"
    [] r = "finished" -> "settled"
    [] r = "unfinished" /\ n <= Retries -> "pending"
    [] r = "unfinished" /\ n > Retries -> "abandoned"

Status(s) == StatusOf(row[s], retries[s])

Abstract == INSTANCE Outbox
  WITH Items <- SMSs, status <- [s \in SMSs |-> Status(s)],
       deliveries <- answered, failures <- failed

\* The SMS sender implements the outbox: only unfinished SMSs with retries left
\* are sent, finished and abandoned ones stay so (sms/sms.go:151-225).
ImplementsOutbox == Abstract!Spec
=============================================================================
