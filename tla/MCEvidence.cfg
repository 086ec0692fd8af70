CONSTANTS
  WithWebhook = TRUE
  maxRetries = 1
  MaxRequests = 2
  MaxWindows = 2
SPECIFICATION FairSpec
INVARIANTS TypeOK CountedOnce DropsOnce FinalIsFinal WebhookOnce
PROPERTY ShutdownEnds
