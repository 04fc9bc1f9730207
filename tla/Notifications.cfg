SPECIFICATION FairSpec
CONSTANTS
  MaxSMS = 1
  SmsRetries = 1
  MaxEmail = 4
  MailRetries = 1
  MaxSmsFaults = 2
  MaxMailFaults = 1
INVARIANTS NoUnexplainedDuplicate AbandonedSmsAlerted RetriesCounted
PROPERTIES MailerImplementsOutbox SmsSenderImplementsOutbox EverythingComesToAnEnd
