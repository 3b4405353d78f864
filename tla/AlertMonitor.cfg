\* The monitor's rounds under every change of what it watches, with a mail
\* refused, a write of the state file lost and a restart.
SPECIFICATION Spec
CONSTANTS
  WorkerRequired = TRUE
  Grace = 2
  Retry = 1
  Cooldown = 2
  Troubles = {"present", "api-unreachable", "auth_failed", "down"}
  MaxRefusals = 1
  MaxLostWrites = 1
  MaxCrashes = 1
INVARIANTS TypeOK MailIsSpaced
PROPERTIES NewIssueIsMailed IssueIsMailed RecoveryIsNoted
