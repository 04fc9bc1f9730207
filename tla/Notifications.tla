--------------------------- MODULE Notifications ---------------------------
(***************************************************************************)
(* The SMS sender and the mailer in one process (hass.go): the alert of a  *)
(* failed SMS is a new row of the e-mail table, stored by the goroutine of *)
(* the SMS sender while the mailer's own goroutine polls that table.  A    *)
(* crash or a shutdown takes both down.                                    *)
(***************************************************************************)
EXTENDS Naturals

CONSTANTS
  MaxSMS, SmsRetries,      \* of SmsSender
  MaxEmail, MailRetries,   \* of Mailer
  MaxSmsFaults, MaxMailFaults

ASSUME NotificationsAssumption ==
  /\ MaxSMS \in Nat /\ SmsRetries \in Nat /\ MaxSmsFaults \in Nat
  /\ MaxEmail \in Nat /\ MailRetries \in Nat /\ MaxMailFaults \in Nat

VARIABLES
  email, emailRetries, mailerAt, mails, delivered, mailFailed, mailExcused, mailFaults,
  smsRow, smsRetries, smsAt, smss, answered, smsFailed, alerts, missed, smsExcused,
  smsFaults

mailVars == <<email, emailRetries, mailerAt, mails, delivered, mailFailed, mailExcused,
              mailFaults>>
smsVars == <<smsRow, smsRetries, smsAt, smss, answered, smsFailed, alerts, missed, smsExcused,
             smsFaults>>
vars == <<mailVars, smsVars>>

Mail == INSTANCE Mailer
  WITH Retries <- MailRetries, row <- email, retries <- emailRetries, at <- mailerAt,
       batch <- mails, failed <- mailFailed, excused <- mailExcused,
       faults <- mailFaults, MaxFaults <- MaxMailFaults

Sms == INSTANCE SmsSender
  WITH Retries <- SmsRetries, row <- smsRow, retries <- smsRetries, at <- smsAt,
       batch <- smss, failed <- smsFailed, excused <- smsExcused,
       faults <- smsFaults, MaxFaults <- MaxSmsFaults

\* SendSmsFailedEmail: the only caller of StoreEmail
Alert == Sms!AlertStored /\ \E e \in Mail!Emails : Mail!Store(e)

MailStep == Mail!Loop /\ UNCHANGED smsVars
SmsStep == Sms!Loop /\ UNCHANGED mailVars
StoreSMS == (\E s \in Sms!SMSs : Sms!Store(s)) /\ UNCHANGED mailVars

Crash == Mail!Crash /\ Sms!Crash
Restart == Mail!Restart /\ Sms!Restart

Init == Mail!Init /\ Sms!Init

Next == StoreSMS \/ MailStep \/ SmsStep \/ Alert \/ Crash \/ Restart

Spec == Init /\ [][Next]_vars

\* Both loops run in goroutines of their own, wake up every ten seconds and
\* wait for nobody else; a dead process is started again.
FairSpec ==
  Spec /\ WF_vars(MailStep) /\ WF_vars(SmsStep \/ Alert) /\ WF_vars(Restart)

-----------------------------------------------------------------------------
(* Properties. *)

\* Type invariants of both parts.
TypeOK == Mail!TypeOK /\ Sms!TypeOK

\* Neither an e-mail nor an SMS is sent twice without a fault that explains it.
NoUnexplainedDuplicate == Mail!NoUnexplainedDuplicate /\ Sms!NoUnexplainedDuplicate

\* An SMS given up after SmsRetries + 1 attempts left that many alerts in the
\* e-mail table, but for those the database refused (sms/sms.go:193-211, 248-261).
AbandonedSmsAlerted == Sms!AbandonedSmsAlerted

\* An e-mail's retry count is at most its failed attempts and at most one past
\* the limit, and a sent e-mail was taken (mailer/mailer.go:133, 163-173).
RetriesCounted == Mail!RetriesCounted

\* Both parts keep the outbox contract while they share the e-mail table.
MailerImplementsOutbox == Mail!ImplementsOutbox
SmsSenderImplementsOutbox == Sms!ImplementsOutbox

\* Nothing that was stored waits for ever: an SMS ends finished or given up, an
\* alert is sent or its retries are used up, although the retry count that ends
\* the tries is saved after each of them only, where the update can fail and the
\* process can die (sms/sms.go:190-211, mailer/mailer.go:150-178).
EverythingComesToAnEnd ==
  /\ \A s \in 1 .. MaxSMS :
       smsRow[s] # "none" ~> smsRow[s] = "finished" \/ smsRetries[s] > SmsRetries
  /\ \A e \in 1 .. MaxEmail :
       email[e] # "none" ~> email[e] = "sent" \/ emailRetries[e] > MailRetries
=============================================================================
