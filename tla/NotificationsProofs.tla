------------------------ MODULE NotificationsProofs ------------------------
(***************************************************************************)
(* Theorems about the mailer and the SMS sender in one process, for every  *)
(* number of rows, retries and faults: each keeps its inductive invariant  *)
(* and implements the outbox, and the steps of the other leave it alone,   *)
(* but for the alert, which is a row stored by one and sent by the other.  *)
(* What is tried is bounded by the retries and the faults (TriedBoundedly). *)
(***************************************************************************)
EXTENDS Notifications, WellFoundedInduction, TLAPS

-----------------------------------------------------------------------------
(* Row ids. *)

\* A non-empty set of numbers up to N has a largest element, so that the
\* CHOOSE of the newest row picks a row of the batch (mailer/mailer.go:133).
LEMMA LargestExists ==
  ASSUME NEW N \in Nat, NEW S \in SUBSET (1 .. N), S # {}
  PROVE  \E e \in S : \A f \in S : f <= e
<1> DEFINE T == {N - e : e \in S}
<1> DEFINE R == {p \in Nat \X Nat : p[1] < p[2]}
<1>1. IsWellFoundedOn(R, Nat)
  <2>1. R = OpToRel(<, Nat)
    BY Zenon DEF OpToRel
  <2> QED BY <2>1, NatLessThanWellFounded, Zenon
<1> HIDE DEF R
<1>2. T \subseteq Nat /\ T # {}
  <2>1. \A e \in S : N - e \in Nat
    OBVIOUS
  <2>2. \A x \in T : \E e \in S : x = N - e
    OBVIOUS
  <2>3. PICK e \in S : TRUE
    OBVIOUS
  <2>4. N - e \in T
    BY <2>3
  <2> QED BY <2>1, <2>2, <2>4, Zenon
<1>3. \E x \in T : \A y \in T : ~ (<<y, x>> \in R)
  <2> HIDE DEF R, T
  <2> QED BY <1>1, <1>2, WFMin
<1>4. PICK x \in T : \A y \in T : ~ (<<y, x>> \in R)
  BY <1>3
<1>5. PICK e \in S : x = N - e
  BY <1>4
<1>6. ASSUME NEW f \in S PROVE f <= e
  <2>1. N - f \in T /\ N - f \in Nat /\ x \in Nat
    BY <1>2, <1>4
  <2>2. ~ (N - f < x)
    BY <1>4, <2>1 DEF R
  <2> QED BY <1>5, <2>1, <2>2
<1> QED BY <1>5, <1>6

-----------------------------------------------------------------------------
(* The mailer. *)

\* What the loop knows of its batch: it is empty exactly when the loop is
\* between two polls (or dead), and it holds only rows that may still be sent.
MailBatchInv ==
  /\ mailerAt \in {"send", "accepted", "refused"} => mails # {}
  /\ mails \subseteq Mail!Eligible

\* The counters against the table.  RetriesCounted is not inductive: the step
\* to be counted next has to be told apart from those already counted.
MailCountInv ==
  /\ \A e \in Mail!Emails : email[e] = "none" => emailRetries[e] = 0
  /\ \A e \in Mail!Emails : email[e] = "sent" => delivered[e] > 0
  /\ mailerAt = "accepted" => delivered[Mail!Current] > 0
  /\ \A e \in Mail!Emails : emailRetries[e] <= mailFailed[e]
  /\ mailerAt = "refused" => emailRetries[Mail!Current] < mailFailed[Mail!Current]
  /\ \A e \in Mail!Emails : emailRetries[e] <= MailRetries + 1

MailInv == Mail!TypeOK /\ MailBatchInv /\ MailCountInv /\ Mail!NoUnexplainedDuplicate

-----------------------------------------------------------------------------
\* The newest e-mail of a batch that is not empty is one of the batch.
LEMMA MailCurrentInBatch ==
  ASSUME Mail!MailerAssumption, mails \in SUBSET Mail!Emails, mails # {}
  PROVE  Mail!Current \in mails /\ Mail!Current \in Mail!Emails
<1>1. \E e \in mails : \A f \in mails : f <= e
  BY LargestExists DEF Mail!MailerAssumption, Mail!Emails
<1> QED BY <1>1, Zenon DEF Mail!Current

LEMMA MailInitInv == ASSUME Mail!MailerAssumption PROVE Mail!Init => MailInv
BY DEF Mail!MailerAssumption, Mail!Init, MailInv, Mail!TypeOK, MailBatchInv, MailCountInv,
       Mail!NoUnexplainedDuplicate, Mail!Eligible

\* Every step of the mailer keeps the inductive invariant.
LEMMA MailNextInv ==
  ASSUME Mail!MailerAssumption
  PROVE  MailInv /\ [Mail!Next]_(Mail!vars) => MailInv'
<1> SUFFICES ASSUME MailInv, [Mail!Next]_(Mail!vars) PROVE MailInv'
  OBVIOUS
<1> USE DEF Mail!MailerAssumption, MailInv, Mail!TypeOK, MailBatchInv, MailCountInv,
            Mail!NoUnexplainedDuplicate, Mail!Eligible
<1>1. mailerAt \in {"send", "accepted", "refused"} =>
         Mail!Current \in mails \cap Mail!Emails \cap Mail!Eligible
  BY MailCurrentInBatch
<1>2. ASSUME NEW e \in Mail!Emails, Mail!Store(e) PROVE MailInv'
  <2>1. Mail!Current' = Mail!Current
    BY <1>2 DEF Mail!Store, Mail!Current
  <2> QED
    BY <1>2, <2>1 DEF Mail!Store
<1>3. CASE Mail!Poll
  <2> QED BY <1>3 DEF Mail!Poll
<1>4. CASE Mail!ProviderAccepts
  <2>1. Mail!Current' = Mail!Current
    BY <1>4 DEF Mail!ProviderAccepts, Mail!Current
  <2> QED BY <1>1, <1>4, <2>1 DEF Mail!ProviderAccepts, Mail!Bump
<1>5. CASE Mail!ProviderFails
  <2>1. Mail!Current' = Mail!Current
    BY <1>5 DEF Mail!ProviderFails, Mail!Current
  <2> QED BY <1>1, <1>5, <2>1 DEF Mail!ProviderFails, Mail!Bump, Mail!Fault
<1>6. CASE Mail!MarkSent
  <2> QED BY <1>1, <1>6 DEF Mail!MarkSent, Mail!Advance
<1>7. CASE Mail!MarkSentFails
  <2> QED BY <1>1, <1>7 DEF Mail!MarkSentFails, Mail!Bump, Mail!Fault, Mail!Advance
<1>8. CASE Mail!MarkFailed
  <2> QED BY <1>1, <1>8 DEF Mail!MarkFailed, Mail!Bump, Mail!Advance
<1>9. CASE Mail!MarkFailedFails
  <2> QED BY <1>1, <1>9 DEF Mail!MarkFailedFails, Mail!Fault, Mail!Advance
<1>10. CASE Mail!Crash
  <2> QED BY <1>1, <1>10 DEF Mail!Crash, Mail!Bump, Mail!Fault
<1>11. CASE Mail!Restart
  <2> QED BY <1>11 DEF Mail!Restart
<1>12. CASE UNCHANGED Mail!vars
  <2>1. Mail!Current' = Mail!Current
    BY <1>12 DEF Mail!vars, Mail!Current
  <2> QED BY <1>12, <2>1 DEF Mail!vars
<1> QED
  BY <1>2, <1>3, <1>4, <1>5, <1>6, <1>7, <1>8, <1>9, <1>10, <1>11, <1>12
  DEF Mail!Next, Mail!Loop

-----------------------------------------------------------------------------
(* The mailer implements the outbox. *)

\* The status of a row.
LEMMA MailStatusCases ==
  ASSUME Mail!MailerAssumption, NEW r \in {"none", "unsent", "sent"}, NEW n \in Nat
  PROVE  /\ r = "none" => Mail!StatusOf(r, n) = "none"
         /\ r = "sent" => Mail!StatusOf(r, n) = "settled"
         /\ r = "unsent" /\ n <= MailRetries => Mail!StatusOf(r, n) = "pending"
         /\ r = "unsent" /\ n > MailRetries => Mail!StatusOf(r, n) = "abandoned"
<1>1. ~ (n <= MailRetries /\ n > MailRetries)
  BY DEF Mail!MailerAssumption
<1> QED BY <1>1 DEF Mail!StatusOf

LEMMA MailInitAbstract == ASSUME Mail!MailerAssumption PROVE Mail!Init => Mail!Abstract!Init
<1> SUFFICES ASSUME Mail!Init PROVE Mail!Abstract!Init
  OBVIOUS
<1>1. ASSUME NEW e \in Mail!Emails PROVE Mail!Status(e) = "none"
  BY MailStatusCases DEF Mail!Init, Mail!Status
<1> QED BY <1>1 DEF Mail!Init, Mail!Abstract!Init

\* Every step of the mailer is a step of the outbox, or changes nothing there.
LEMMA MailNextAbstract ==
  ASSUME Mail!MailerAssumption
  PROVE  MailInv /\ MailInv' /\ [Mail!Next]_(Mail!vars)
           => [Mail!Abstract!Next]_(Mail!Abstract!vars)
<1> SUFFICES ASSUME MailInv, MailInv', [Mail!Next]_(Mail!vars)
             PROVE  [Mail!Abstract!Next]_(Mail!Abstract!vars)
  OBVIOUS
<1> USE DEF Mail!MailerAssumption
<1> DEFINE S == [e \in Mail!Emails |-> Mail!Status(e)]
<1>1. mailerAt \in {"send", "accepted", "refused"} =>
         /\ Mail!Current \in Mail!Emails /\ email[Mail!Current] = "unsent"
         /\ emailRetries[Mail!Current] <= MailRetries
  BY MailCurrentInBatch DEF MailInv, Mail!TypeOK, MailBatchInv, Mail!Eligible
<1>2. Mail!TypeOK /\ Mail!TypeOK'
  BY DEF MailInv
<1>3. ASSUME NEW e \in Mail!Emails, email[e] = "unsent", emailRetries[e] <= MailRetries
      PROVE  S[e] = "pending"
  BY <1>2, <1>3, MailStatusCases DEF Mail!TypeOK, Mail!Status
<1>4. ASSUME UNCHANGED <<email, emailRetries>> PROVE S' = S
  BY <1>4 DEF Mail!Status
<1>5. ASSUME NEW e \in Mail!Emails,
             \A d \in Mail!Emails \ {e} :
               email'[d] = email[d] /\ emailRetries'[d] = emailRetries[d]
      PROVE  S' = [S EXCEPT ![e] = Mail!Status(e)']
  BY <1>5 DEF Mail!Status
<1>6. ASSUME NEW e \in Mail!Emails, Mail!Store(e) PROVE Mail!Abstract!Next
  <2>1. S[e] = "none" /\ Mail!Status(e)' = "pending"
    <3>1. email[e] = "none" /\ email'[e] = "unsent" /\ emailRetries'[e] = 0
      BY <1>2, <1>6 DEF Mail!Store, Mail!TypeOK, MailInv, MailCountInv
    <3> QED BY <1>2, <3>1, MailStatusCases DEF Mail!TypeOK, Mail!Status
  <2>2. S' = [S EXCEPT ![e] = "pending"]
    BY <1>2, <1>5, <1>6, <2>1 DEF Mail!Store, Mail!TypeOK
  <2>3. Mail!Abstract!Accept(e)
    BY <1>6, <2>1, <2>2 DEF Mail!Store, Mail!Abstract!Accept
  <2> QED BY <2>3 DEF Mail!Abstract!Next
<1>7. CASE Mail!ProviderAccepts
  <2>1. Mail!Abstract!Deliver(Mail!Current)
    BY <1>1, <1>3, <1>4, <1>7 DEF Mail!ProviderAccepts, Mail!Bump, Mail!Abstract!Deliver
  <2> QED BY <1>1, <1>7, <2>1 DEF Mail!ProviderAccepts, Mail!Abstract!Next
<1>8. CASE Mail!ProviderFails
  <2>1. Mail!Abstract!Fail(Mail!Current)
    BY <1>1, <1>3, <1>4, <1>8 DEF Mail!ProviderFails, Mail!Bump, Mail!Abstract!Fail
  <2> QED BY <1>1, <1>8, <2>1 DEF Mail!ProviderFails, Mail!Abstract!Next
<1>9. CASE Mail!MarkSent
  <2>1. email'[Mail!Current] = "sent"
    BY <1>1, <1>2, <1>9 DEF Mail!MarkSent, Mail!TypeOK
  <2>2. \A e \in Mail!Emails :
          Mail!Status(e)' = IF e = Mail!Current THEN "settled" ELSE Mail!Status(e)
    BY <1>1, <1>2, <1>9, <2>1, MailStatusCases DEF Mail!MarkSent, Mail!TypeOK, Mail!Status
  <2>3. Mail!Abstract!Settle(Mail!Current)
    BY <1>1, <1>3, <1>9, <2>2 DEF Mail!MarkSent, MailInv, MailCountInv, Mail!Abstract!Settle
  <2> QED BY <1>1, <1>9, <2>3 DEF Mail!MarkSent, Mail!Abstract!Next
<1>10. CASE Mail!MarkFailed
  <2>1. /\ Mail!Current \in Mail!Emails /\ email[Mail!Current] = "unsent"
        /\ emailRetries[Mail!Current] <= MailRetries
    BY <1>1, <1>10 DEF Mail!MarkFailed
  <2>2. /\ email'[Mail!Current] = "unsent"
        /\ emailRetries'[Mail!Current] = emailRetries[Mail!Current] + 1
    BY <2>1, <1>2, <1>10 DEF Mail!MarkFailed, Mail!Bump, Mail!TypeOK
  <2>3. emailRetries'[Mail!Current] \in Nat
    BY <2>1, <1>2 DEF Mail!TypeOK
  <2>4. \A e \in Mail!Emails \ {Mail!Current} : Mail!Status(e)' = Mail!Status(e)
    BY <2>1, <1>2, <1>10 DEF Mail!MarkFailed, Mail!Bump, Mail!TypeOK, Mail!Status
  <2>5. CASE emailRetries'[Mail!Current] <= MailRetries
    <3>1. S' = S
      BY <2>1, <1>2, <1>3, <2>2, <2>4, <2>5, MailStatusCases DEF Mail!TypeOK, Mail!Status
    <3> QED BY <1>10, <3>1 DEF Mail!MarkFailed, Mail!Abstract!vars
  <2>6. CASE emailRetries'[Mail!Current] > MailRetries
    <3>1. Mail!StatusOf(email'[Mail!Current], emailRetries'[Mail!Current]) = "abandoned"
      BY <2>2, <2>6, <2>3, MailStatusCases
    <3>2. mailFailed[Mail!Current] > MailRetries
      BY <2>1, <1>2, <1>10, <2>2, <2>6 DEF Mail!MarkFailed, Mail!TypeOK, MailInv, MailCountInv
    <3>3. Mail!Abstract!Abandon(Mail!Current)
      <4>1. S[Mail!Current] = "pending"
        BY <1>3, <2>1
      <4>2. S' = [S EXCEPT ![Mail!Current] = "abandoned"]
        BY <2>1, <2>4, <3>1 DEF Mail!Status
      <4> QED BY <1>10, <3>2, <4>1, <4>2 DEF Mail!MarkFailed, Mail!Abstract!Abandon
    <3> QED BY <2>1, <3>3 DEF Mail!Abstract!Next
  <2> QED BY <2>5, <2>6, <2>3
<1>11. CASE \/ Mail!Poll \/ Mail!MarkSentFails \/ Mail!MarkFailedFails
            \/ Mail!Crash \/ Mail!Restart \/ UNCHANGED Mail!vars
  <2>1. UNCHANGED <<email, emailRetries, delivered, mailFailed>>
    BY <1>11 DEF Mail!Poll, Mail!MarkSentFails, Mail!MarkFailedFails, Mail!Crash,
                 Mail!Restart, Mail!vars
  <2> QED BY <1>4, <2>1 DEF Mail!Abstract!vars
<1> QED
  BY <1>6, <1>7, <1>8, <1>9, <1>10, <1>11 DEF Mail!Next, Mail!Loop

-----------------------------------------------------------------------------
(* The SMS sender. *)

\* What the loop knows of its batch: it is empty exactly when the loop is
\* between two polls (or dead), and it holds only rows that may still be sent.
SmsBatchInv ==
  /\ smsAt \in {"open", "send", "alert", "answered", "failed"} => smss # {}
  /\ smss \subseteq Sms!Eligible

\* The counters against the table: an attempt is counted after its alert.
SmsCountInv ==
  /\ \A s \in Sms!SMSs : smsRow[s] = "none" => smsRetries[s] = 0
  /\ smsAt = "answered" => answered[Sms!Current] > 0
  /\ \A s \in Sms!SMSs : smsRetries[s] <= smsFailed[s]
  /\ smsAt \in {"alert", "failed"} => smsRetries[Sms!Current] < smsFailed[Sms!Current]
  /\ \A s \in Sms!SMSs : smsRetries[s] <= alerts[s] + missed[s]
  /\ smsAt = "failed" => smsRetries[Sms!Current] < alerts[Sms!Current] + missed[Sms!Current]

SmsInv == Sms!TypeOK /\ SmsBatchInv /\ SmsCountInv /\ Sms!NoUnexplainedDuplicate

-----------------------------------------------------------------------------
\* The newest SMS of a batch that is not empty is one of the batch.
LEMMA SmsCurrentInBatch ==
  ASSUME Sms!SmsAssumption, smss \in SUBSET Sms!SMSs, smss # {}
  PROVE  Sms!Current \in smss /\ Sms!Current \in Sms!SMSs
<1>1. \E s \in smss : \A r \in smss : r <= s
  BY LargestExists DEF Sms!SmsAssumption, Sms!SMSs
<1> QED BY <1>1, Zenon DEF Sms!Current

LEMMA SmsInitInv == ASSUME Sms!SmsAssumption PROVE Sms!Init => SmsInv
BY DEF Sms!SmsAssumption, Sms!Init, SmsInv, Sms!TypeOK, SmsBatchInv, SmsCountInv,
       Sms!NoUnexplainedDuplicate, Sms!Eligible

\* Every step of the sender keeps the inductive invariant.
LEMMA SmsNextInv ==
  ASSUME Sms!SmsAssumption
  PROVE  SmsInv /\ [Sms!Next]_(Sms!vars) => SmsInv'
<1> SUFFICES ASSUME SmsInv, [Sms!Next]_(Sms!vars) PROVE SmsInv'
  OBVIOUS
<1> USE DEF Sms!SmsAssumption, SmsInv, Sms!TypeOK, SmsBatchInv, SmsCountInv,
            Sms!NoUnexplainedDuplicate, Sms!Eligible
<1>1. smsAt \in {"open", "send", "alert", "answered", "failed"} =>
         Sms!Current \in smss /\ Sms!Current \in Sms!SMSs /\ Sms!Current \in Sms!Eligible
  BY SmsCurrentInBatch
<1>2. smss' = smss => Sms!Current' = Sms!Current
  BY DEF Sms!Current
<1>3. ASSUME NEW s \in Sms!SMSs, Sms!Store(s) PROVE SmsInv'
  BY <1>2, <1>3 DEF Sms!Store
<1>4. CASE Sms!Poll
  BY <1>4 DEF Sms!Poll
<1>5. CASE Sms!Open
  BY <1>1, <1>2, <1>5 DEF Sms!Open
<1>6. CASE Sms!OpenFails
  BY <1>1, <1>6 DEF Sms!OpenFails, Sms!Fault, Sms!Advance
<1>7. CASE Sms!GatewayAnswers
  BY <1>1, <1>2, <1>7 DEF Sms!GatewayAnswers, Sms!Bump
<1>8. CASE Sms!GatewayFails
  BY <1>1, <1>2, <1>8 DEF Sms!GatewayFails, Sms!Bump, Sms!Fault
<1>9. CASE Sms!AlertStored
  BY <1>1, <1>2, <1>9 DEF Sms!AlertStored, Sms!Bump
<1>10. CASE Sms!AlertMissed
  BY <1>1, <1>2, <1>10 DEF Sms!AlertMissed, Sms!Bump, Sms!Fault
<1>11. CASE Sms!MarkFailed
  BY <1>1, <1>11 DEF Sms!MarkFailed, Sms!Bump, Sms!Advance
<1>12. CASE Sms!MarkFailedFails
  BY <1>1, <1>12 DEF Sms!MarkFailedFails, Sms!Fault, Sms!Advance
<1>13. CASE Sms!MarkFinished
  BY <1>1, <1>13 DEF Sms!MarkFinished, Sms!Advance
<1>14. CASE Sms!MarkFinishedFails
  BY <1>1, <1>14 DEF Sms!MarkFinishedFails, Sms!Bump, Sms!Fault, Sms!Advance
<1>15. CASE Sms!Crash
  BY <1>1, <1>15 DEF Sms!Crash, Sms!Bump, Sms!Fault
<1>16. CASE Sms!Restart
  BY <1>16 DEF Sms!Restart
<1>17. CASE UNCHANGED Sms!vars
  BY <1>2, <1>17 DEF Sms!vars
<1> QED
  BY <1>3, <1>4, <1>5, <1>6, <1>7, <1>8, <1>9, <1>10, <1>11, <1>12, <1>13, <1>14, <1>15, <1>16,
     <1>17 DEF Sms!Next, Sms!Loop

-----------------------------------------------------------------------------
(* The SMS sender implements the outbox. *)

\* The status of a row.
LEMMA SmsStatusCases ==
  ASSUME Sms!SmsAssumption, NEW r \in {"none", "unfinished", "finished"}, NEW n \in Nat
  PROVE  /\ r = "none" => Sms!StatusOf(r, n) = "none"
         /\ r = "finished" => Sms!StatusOf(r, n) = "settled"
         /\ r = "unfinished" /\ n <= SmsRetries => Sms!StatusOf(r, n) = "pending"
         /\ r = "unfinished" /\ n > SmsRetries => Sms!StatusOf(r, n) = "abandoned"
<1>1. ~ (n <= SmsRetries /\ n > SmsRetries)
  BY DEF Sms!SmsAssumption
<1> QED BY <1>1 DEF Sms!StatusOf

LEMMA SmsInitAbstract == ASSUME Sms!SmsAssumption PROVE Sms!Init => Sms!Abstract!Init
<1> SUFFICES ASSUME Sms!Init PROVE Sms!Abstract!Init
  OBVIOUS
<1>1. ASSUME NEW s \in Sms!SMSs PROVE Sms!Status(s) = "none"
  BY SmsStatusCases DEF Sms!Init, Sms!Status
<1> QED BY <1>1 DEF Sms!Init, Sms!Abstract!Init

\* Every step of the sender is a step of the outbox, or changes nothing there.
LEMMA SmsNextAbstract ==
  ASSUME Sms!SmsAssumption
  PROVE  SmsInv /\ SmsInv' /\ [Sms!Next]_(Sms!vars)
           => [Sms!Abstract!Next]_(Sms!Abstract!vars)
<1> SUFFICES ASSUME SmsInv, SmsInv', [Sms!Next]_(Sms!vars)
             PROVE  [Sms!Abstract!Next]_(Sms!Abstract!vars)
  OBVIOUS
<1> USE DEF Sms!SmsAssumption
<1> DEFINE S == [s \in Sms!SMSs |-> Sms!Status(s)]
<1>1. smsAt \in {"send", "answered", "failed"} =>
         /\ Sms!Current \in Sms!SMSs /\ smsRow[Sms!Current] = "unfinished"
         /\ smsRetries[Sms!Current] <= SmsRetries
  BY SmsCurrentInBatch DEF SmsInv, Sms!TypeOK, SmsBatchInv, Sms!Eligible
<1>2. Sms!TypeOK /\ Sms!TypeOK'
  BY DEF SmsInv
<1>3. ASSUME NEW s \in Sms!SMSs, smsRow[s] = "unfinished", smsRetries[s] <= SmsRetries
      PROVE  S[s] = "pending"
  BY <1>2, <1>3, SmsStatusCases DEF Sms!TypeOK, Sms!Status
<1>4. ASSUME UNCHANGED <<smsRow, smsRetries>> PROVE S' = S
  BY <1>4 DEF Sms!Status
<1>5. ASSUME NEW s \in Sms!SMSs,
             \A r \in Sms!SMSs \ {s} : smsRow'[r] = smsRow[r] /\ smsRetries'[r] = smsRetries[r]
      PROVE  S' = [S EXCEPT ![s] = Sms!Status(s)']
  BY <1>5 DEF Sms!Status
<1>6. ASSUME NEW s \in Sms!SMSs, Sms!Store(s) PROVE Sms!Abstract!Next
  <2>1. S[s] = "none" /\ Sms!Status(s)' = "pending"
    <3>1. smsRow[s] = "none" /\ smsRow'[s] = "unfinished" /\ smsRetries'[s] = 0
      BY <1>2, <1>6 DEF Sms!Store, Sms!TypeOK, SmsInv, SmsCountInv
    <3> QED BY <1>2, <3>1, SmsStatusCases DEF Sms!TypeOK, Sms!Status
  <2>2. S' = [S EXCEPT ![s] = "pending"]
    BY <1>2, <1>5, <1>6, <2>1 DEF Sms!Store, Sms!TypeOK
  <2>3. Sms!Abstract!Accept(s)
    BY <1>6, <2>1, <2>2 DEF Sms!Store, Sms!Abstract!Accept
  <2> QED BY <2>3 DEF Sms!Abstract!Next
<1>7. CASE Sms!GatewayAnswers
  <2>1. Sms!Abstract!Deliver(Sms!Current)
    BY <1>1, <1>3, <1>4, <1>7 DEF Sms!GatewayAnswers, Sms!Bump, Sms!Abstract!Deliver
  <2> QED BY <1>1, <1>7, <2>1 DEF Sms!GatewayAnswers, Sms!Abstract!Next
<1>8. CASE Sms!GatewayFails
  <2>1. Sms!Abstract!Fail(Sms!Current)
    BY <1>1, <1>3, <1>4, <1>8 DEF Sms!GatewayFails, Sms!Bump, Sms!Abstract!Fail
  <2> QED BY <1>1, <1>8, <2>1 DEF Sms!GatewayFails, Sms!Abstract!Next
<1>9. CASE Sms!MarkFinished
  <2>1. smsRow'[Sms!Current] = "finished"
    BY <1>1, <1>2, <1>9 DEF Sms!MarkFinished, Sms!TypeOK
  <2>2. \A s \in Sms!SMSs :
          Sms!Status(s)' = IF s = Sms!Current THEN "settled" ELSE Sms!Status(s)
    BY <1>1, <1>2, <1>9, <2>1, SmsStatusCases DEF Sms!MarkFinished, Sms!TypeOK, Sms!Status
  <2>3. Sms!Abstract!Settle(Sms!Current)
    BY <1>1, <1>3, <1>9, <2>2 DEF Sms!MarkFinished, SmsInv, SmsCountInv, Sms!Abstract!Settle
  <2> QED BY <1>1, <1>9, <2>3 DEF Sms!MarkFinished, Sms!Abstract!Next
<1>10. CASE Sms!MarkFailed
  <2>1. /\ Sms!Current \in Sms!SMSs /\ smsRow[Sms!Current] = "unfinished"
        /\ smsRetries[Sms!Current] <= SmsRetries
    BY <1>1, <1>10 DEF Sms!MarkFailed
  <2>2. /\ smsRow'[Sms!Current] = "unfinished"
        /\ smsRetries'[Sms!Current] = smsRetries[Sms!Current] + 1
    BY <1>2, <1>10, <2>1 DEF Sms!MarkFailed, Sms!Bump, Sms!TypeOK
  <2>3. smsRetries'[Sms!Current] \in Nat
    BY <1>2, <2>1 DEF Sms!TypeOK
  <2>4. \A s \in Sms!SMSs \ {Sms!Current} : Sms!Status(s)' = Sms!Status(s)
    BY <1>2, <1>10, <2>1 DEF Sms!MarkFailed, Sms!Bump, Sms!TypeOK, Sms!Status
  <2>5. CASE smsRetries'[Sms!Current] <= SmsRetries
    <3>1. S' = S
      BY <1>2, <1>3, <2>1, <2>2, <2>4, <2>5, SmsStatusCases DEF Sms!TypeOK, Sms!Status
    <3> QED BY <1>10, <3>1 DEF Sms!MarkFailed, Sms!Abstract!vars
  <2>6. CASE smsRetries'[Sms!Current] > SmsRetries
    <3>1. Sms!StatusOf(smsRow'[Sms!Current], smsRetries'[Sms!Current]) = "abandoned"
      BY <2>2, <2>3, <2>6, SmsStatusCases
    <3>2. smsFailed[Sms!Current] > SmsRetries
      BY <1>2, <1>10, <2>1, <2>2, <2>6 DEF Sms!MarkFailed, Sms!TypeOK, SmsInv, SmsCountInv
    <3>3. Sms!Abstract!Abandon(Sms!Current)
      <4>1. S[Sms!Current] = "pending"
        BY <1>3, <2>1
      <4>2. S' = [S EXCEPT ![Sms!Current] = "abandoned"]
        BY <2>1, <2>4, <3>1 DEF Sms!Status
      <4> QED BY <1>10, <3>2, <4>1, <4>2 DEF Sms!MarkFailed, Sms!Abstract!Abandon
    <3> QED BY <2>1, <3>3 DEF Sms!Abstract!Next
  <2> QED BY <2>3, <2>5, <2>6
<1>11. CASE \/ Sms!Poll \/ Sms!Open \/ Sms!OpenFails \/ Sms!AlertStored \/ Sms!AlertMissed
            \/ Sms!MarkFinishedFails \/ Sms!MarkFailedFails \/ Sms!Crash \/ Sms!Restart
            \/ UNCHANGED Sms!vars
  <2>1. UNCHANGED <<smsRow, smsRetries, answered, smsFailed>>
    BY <1>11 DEF Sms!Poll, Sms!Open, Sms!OpenFails, Sms!AlertStored, Sms!AlertMissed,
                 Sms!MarkFinishedFails, Sms!MarkFailedFails, Sms!Crash, Sms!Restart, Sms!vars
  <2> QED BY <1>4, <2>1 DEF Sms!Abstract!vars
<1> QED
  BY <1>6, <1>7, <1>8, <1>9, <1>10, <1>11 DEF Sms!Next, Sms!Loop

-----------------------------------------------------------------------------
(* Both in one process. *)

LEMMA MailAssumed == Mail!MailerAssumption
BY NotificationsAssumption DEF Mail!MailerAssumption

LEMMA SmsAssumed == Sms!SmsAssumption
BY NotificationsAssumption DEF Sms!SmsAssumption

\* Every step of the process is a step of the mailer or leaves it alone ...
LEMMA MailerInside == [Next]_vars => [Mail!Next]_(Mail!vars)
BY DEF Next, vars, StoreSMS, MailStep, SmsStep, Alert, Crash, Restart, mailVars,
       Mail!Next, Mail!vars

\* ... and one of the SMS sender or leaves that alone.
LEMMA SmsSenderInside == [Next]_vars => [Sms!Next]_(Sms!vars)
BY DEF Next, vars, StoreSMS, MailStep, SmsStep, Alert, Crash, Restart, smsVars,
       Sms!Next, Sms!vars

\* The inductive invariants of both hold in every reachable state.
THEOREM Invariance == Spec => [](MailInv /\ SmsInv)
<1>1. Init => MailInv /\ SmsInv
  BY MailAssumed, SmsAssumed, MailInitInv, SmsInitInv DEF Init
<1>2. MailInv /\ SmsInv /\ [Next]_vars => (MailInv /\ SmsInv)'
  BY MailAssumed, SmsAssumed, MailNextInv, SmsNextInv, MailerInside, SmsSenderInside
<1> QED BY <1>1, <1>2, PTL DEF Spec

\* The tables, the loops and the counters keep their types.
THEOREM TypeCorrect == Spec => []TypeOK
<1>1. MailInv /\ SmsInv => TypeOK
  BY DEF MailInv, SmsInv, TypeOK
<1> QED BY <1>1, Invariance, PTL

\* Neither an e-mail nor an SMS is sent twice without a fault that explains it,
\* although the goroutine of the SMS sender adds rows to the table the mailer
\* is working on (mailer/mailer.go:109-197, sms/sms.go:151-261).
THEOREM NoDuplicate == Spec => []NoUnexplainedDuplicate
<1>1. MailInv /\ SmsInv => NoUnexplainedDuplicate
  BY DEF MailInv, SmsInv, NoUnexplainedDuplicate
<1> QED BY <1>1, Invariance, PTL

\* An SMS is given up only after an alert was stored, or lost, for each of its
\* SmsRetries + 1 counted attempts (sms/sms.go:193-211).
THEOREM AbandonedIsAlerted == Spec => []AbandonedSmsAlerted
<1>1. MailInv /\ SmsInv => AbandonedSmsAlerted
  BY SmsAssumed DEF Sms!SmsAssumption, SmsInv, Sms!TypeOK, SmsCountInv, AbandonedSmsAlerted,
         Sms!AbandonedSmsAlerted
<1> QED BY <1>1, Invariance, PTL

\* Sent e-mails were delivered, and the retry count is covered by failed
\* attempts and never passes MailRetries + 1 (mailer/mailer.go:133, 163-173).
THEOREM RetriesAreCounted == Spec => []RetriesCounted
<1>1. MailInv /\ SmsInv => RetriesCounted
  BY DEF MailInv, MailCountInv, RetriesCounted, Mail!RetriesCounted
<1> QED BY <1>1, Invariance, PTL

\* The mailer keeps the outbox contract while alerts are added to its table:
\* only unsent e-mails with retries left are sent, sent and abandoned ones
\* stay so (mailer/mailer.go:109-197).
THEOREM MailerContract == Spec => MailerImplementsOutbox
<1>1. Init => Mail!Abstract!Init
  BY MailAssumed, MailInitAbstract DEF Init
<1>2. MailInv /\ MailInv' /\ [Next]_vars => [Mail!Abstract!Next]_(Mail!Abstract!vars)
  BY MailAssumed, MailerInside, MailNextAbstract
<1> QED BY <1>1, <1>2, Invariance, PTL
    DEF Spec, MailerImplementsOutbox, Mail!ImplementsOutbox, Mail!Abstract!Spec

\* The SMS sender keeps the outbox contract beside the mailer: only unfinished
\* SMSs with retries left are sent, finished and abandoned ones stay so
\* (sms/sms.go:151-225).
THEOREM SmsSenderContract == Spec => SmsSenderImplementsOutbox
<1>1. Init => Sms!Abstract!Init
  BY SmsAssumed, SmsInitAbstract DEF Init
<1>2. SmsInv /\ SmsInv' /\ [Next]_vars => [Sms!Abstract!Next]_(Sms!Abstract!vars)
  BY SmsAssumed, SmsSenderInside, SmsNextAbstract
<1> QED BY <1>1, <1>2, Invariance, PTL
    DEF Spec, SmsSenderImplementsOutbox, Sms!ImplementsOutbox, Sms!Abstract!Spec
-----------------------------------------------------------------------------
(* How often a row is tried. *)

\* Only the faults so far make the failures and the deliveries of an e-mail
\* more than the table knows of.
MailTriedInv ==
  \A e \in Mail!Emails :
    /\ mailExcused[e] <= mailFaults
    /\ mailFailed[e] <= emailRetries[e] + mailFaults
                          + (IF mailerAt = "refused" /\ e = Mail!Current THEN 1 ELSE 0)

\* Every step of the mailer keeps it.
LEMMA MailTriedKept ==
  ASSUME Mail!MailerAssumption, MailInv, MailTriedInv, [Mail!Next]_(Mail!vars)
  PROVE  MailTriedInv'
<1> USE DEF Mail!MailerAssumption, Mail!TypeOK, MailTriedInv
<1>1. /\ Mail!TypeOK
      /\ mailerAt \in {"send", "accepted", "refused"} => Mail!Current \in Mail!Emails
  BY MailCurrentInBatch DEF MailInv, MailBatchInv
<1>2. mails' = mails => Mail!Current' = Mail!Current
  BY DEF Mail!Current
<1>3. CASE \/ \E e \in Mail!Emails : Mail!Store(e)
           \/ Mail!Poll \/ Mail!ProviderAccepts \/ Mail!Restart \/ UNCHANGED Mail!vars
  BY <1>1, <1>2, <1>3
  DEF Mail!Store, Mail!Poll, Mail!ProviderAccepts, Mail!Restart, Mail!vars
<1>4. CASE Mail!ProviderFails
  BY <1>1, <1>2, <1>4 DEF Mail!ProviderFails, Mail!Bump, Mail!Fault
<1>5. CASE Mail!MarkSent
  BY <1>1, <1>5 DEF Mail!MarkSent, Mail!Advance
<1>6. CASE Mail!MarkSentFails
  BY <1>1, <1>6 DEF Mail!MarkSentFails, Mail!Bump, Mail!Fault, Mail!Advance
<1>7. CASE Mail!MarkFailed
  BY <1>1, <1>7 DEF Mail!MarkFailed, Mail!Bump, Mail!Advance
<1>8. CASE Mail!MarkFailedFails
  BY <1>1, <1>8 DEF Mail!MarkFailedFails, Mail!Fault, Mail!Advance
<1>9. CASE Mail!Crash
  BY <1>1, <1>9 DEF Mail!Crash, Mail!Bump, Mail!Fault
<1> QED
  BY <1>3, <1>4, <1>5, <1>6, <1>7, <1>8, <1>9 DEF Mail!Next, Mail!Loop

\* So it is with an SMS, whose alerts are no more than its failures.
SmsTriedInv ==
  \A s \in Sms!SMSs :
    /\ smsRetries[s] <= SmsRetries + 1
    /\ smsExcused[s] <= smsFaults
    /\ smsFailed[s] <= smsRetries[s] + smsFaults
                         + (IF smsAt \in {"alert", "failed"} /\ s = Sms!Current THEN 1 ELSE 0)
    /\ alerts[s] + missed[s] + (IF smsAt = "alert" /\ s = Sms!Current THEN 1 ELSE 0)
         <= smsFailed[s]

\* Every step of the sender keeps it.
LEMMA SmsTriedKept ==
  ASSUME Sms!SmsAssumption, SmsInv, SmsTriedInv, [Sms!Next]_(Sms!vars)
  PROVE  SmsTriedInv'
<1> USE DEF Sms!SmsAssumption, Sms!TypeOK, SmsTriedInv
<1>1. /\ Sms!TypeOK
      /\ smsAt \in {"open", "send", "alert", "answered", "failed"} =>
           Sms!Current \in Sms!SMSs /\ smsRetries[Sms!Current] <= SmsRetries
  BY SmsCurrentInBatch DEF SmsInv, SmsBatchInv, Sms!Eligible
<1>2. smss' = smss => Sms!Current' = Sms!Current
  BY DEF Sms!Current
<1>3. CASE \/ \E s \in Sms!SMSs : Sms!Store(s)
           \/ Sms!Poll \/ Sms!Open \/ Sms!GatewayAnswers \/ Sms!Restart \/ UNCHANGED Sms!vars
  BY <1>1, <1>2, <1>3
  DEF Sms!Store, Sms!Poll, Sms!Open, Sms!GatewayAnswers, Sms!Restart, Sms!vars
<1>4. CASE Sms!OpenFails
  BY <1>1, <1>4 DEF Sms!OpenFails, Sms!Fault, Sms!Advance
<1>5. CASE Sms!GatewayFails
  BY <1>1, <1>2, <1>5 DEF Sms!GatewayFails, Sms!Bump, Sms!Fault
<1>6. CASE Sms!AlertStored
  BY <1>1, <1>2, <1>6 DEF Sms!AlertStored, Sms!Bump
<1>7. CASE Sms!AlertMissed
  BY <1>1, <1>2, <1>7 DEF Sms!AlertMissed, Sms!Bump, Sms!Fault
<1>8. CASE Sms!MarkFailed
  BY <1>1, <1>8 DEF Sms!MarkFailed, Sms!Bump, Sms!Advance
<1>9. CASE Sms!MarkFailedFails
  BY <1>1, <1>9 DEF Sms!MarkFailedFails, Sms!Fault, Sms!Advance
<1>10. CASE Sms!MarkFinished
  BY <1>1, <1>10 DEF Sms!MarkFinished, Sms!Advance
<1>11. CASE Sms!MarkFinishedFails
  BY <1>1, <1>11 DEF Sms!MarkFinishedFails, Sms!Bump, Sms!Fault, Sms!Advance
<1>12. CASE Sms!Crash
  BY <1>1, <1>12 DEF Sms!Crash, Sms!Bump, Sms!Fault
<1> QED
  BY <1>3, <1>4, <1>5, <1>6, <1>7, <1>8, <1>9, <1>10, <1>11, <1>12 DEF Sms!Next, Sms!Loop

\* A row is not tried for ever: an e-mail and an SMS reach their receivers
\* once, and are refused one time more than the select lets through, but for
\* what faults hide from the table; and an SMS that is never taken sends no
\* more alerts than that (mailer/mailer.go:133-196, sms/sms.go:172-225).
TriedBoundedly ==
  /\ \A e \in Mail!Emails :
       /\ delivered[e] <= 1 + mailFaults
       /\ mailFailed[e] <= MailRetries + 1 + mailFaults
  /\ \A s \in Sms!SMSs :
       /\ answered[s] <= 1 + smsFaults
       /\ smsFailed[s] <= SmsRetries + 1 + smsFaults
       /\ alerts[s] + missed[s] <= SmsRetries + 1 + smsFaults

\* What is tried is bounded by the retries and the faults, in every state, for
\* any number of rows, and although the alerts of one are the e-mails of the other.
THEOREM TriesAreBounded == Spec => []TriedBoundedly
<1>1. Init => MailTriedInv /\ SmsTriedInv
  BY MailAssumed, SmsAssumed DEF Init, Mail!Init, Sms!Init, MailTriedInv, SmsTriedInv,
     Mail!MailerAssumption, Sms!SmsAssumption
<1>2. MailInv /\ SmsInv /\ MailTriedInv /\ SmsTriedInv /\ [Next]_vars
        => (MailTriedInv /\ SmsTriedInv)'
  BY MailAssumed, SmsAssumed, MailTriedKept, SmsTriedKept, MailerInside, SmsSenderInside
<1>3. ASSUME MailInv, SmsInv, MailTriedInv, SmsTriedInv PROVE TriedBoundedly
  <2>1. ASSUME NEW e \in Mail!Emails
        PROVE  delivered[e] <= 1 + mailFaults /\ mailFailed[e] <= MailRetries + 1 + mailFaults
    <3>1. /\ emailRetries[e] \in Nat /\ mailFaults \in Nat /\ mailFailed[e] \in Nat
          /\ delivered[e] \in Nat /\ mailExcused[e] \in Nat /\ MailRetries \in Nat
          /\ delivered[e] <= mailExcused[e] + 1 /\ mailExcused[e] <= mailFaults
          /\ emailRetries[e] <= MailRetries + 1
      BY <1>3, MailAssumed DEF MailInv, Mail!TypeOK, MailCountInv, MailTriedInv,
         Mail!NoUnexplainedDuplicate, Mail!MailerAssumption
    <3>2. CASE mailerAt = "refused" /\ e = Mail!Current
      <4>1. emailRetries[e] <= MailRetries
        BY <1>3, <3>2, MailAssumed, MailCurrentInBatch
        DEF MailInv, Mail!TypeOK, MailBatchInv, Mail!Eligible
      <4> QED BY <1>3, <3>1, <4>1 DEF MailTriedInv
    <3>3. CASE ~(mailerAt = "refused" /\ e = Mail!Current)
      BY <1>3, <3>1, <3>3 DEF MailTriedInv
    <3> QED BY <3>1, <3>2, <3>3
  <2>2. ASSUME NEW s \in Sms!SMSs
        PROVE  /\ answered[s] <= 1 + smsFaults
               /\ smsFailed[s] <= SmsRetries + 1 + smsFaults
               /\ alerts[s] + missed[s] <= SmsRetries + 1 + smsFaults
    <3>1. /\ smsRetries[s] \in Nat /\ smsFaults \in Nat /\ smsFailed[s] \in Nat
          /\ answered[s] \in Nat /\ smsExcused[s] \in Nat /\ SmsRetries \in Nat
          /\ alerts[s] \in Nat /\ missed[s] \in Nat
          /\ answered[s] <= smsExcused[s] + 1 /\ smsExcused[s] <= smsFaults
          /\ smsRetries[s] <= SmsRetries + 1
          /\ alerts[s] + missed[s] <= smsFailed[s]
      BY <1>3, SmsAssumed DEF SmsInv, Sms!TypeOK, SmsTriedInv, Sms!NoUnexplainedDuplicate,
         Sms!SmsAssumption
    <3>2. CASE smsAt \in {"alert", "failed"} /\ s = Sms!Current
      <4>1. smsRetries[s] <= SmsRetries
        BY <1>3, <3>2, SmsAssumed, SmsCurrentInBatch
        DEF SmsInv, Sms!TypeOK, SmsBatchInv, Sms!Eligible
      <4>2. smsFailed[s] <= SmsRetries + 1 + smsFaults
        BY <1>3, <3>1, <4>1 DEF SmsTriedInv
      <4> QED BY <3>1, <4>2
    <3>3. CASE ~(smsAt \in {"alert", "failed"} /\ s = Sms!Current)
      <4>1. smsFailed[s] <= SmsRetries + 1 + smsFaults
        BY <1>3, <3>1, <3>3 DEF SmsTriedInv
      <4> QED BY <3>1, <4>1
    <3> QED BY <3>2, <3>3
  <2> QED BY <2>1, <2>2 DEF TriedBoundedly
<1> QED BY <1>1, <1>2, <1>3, Invariance, PTL DEF Spec
=============================================================================
