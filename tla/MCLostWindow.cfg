CONSTANTS
  WithWebhook = FALSE
  maxRetries = 0
  MaxRequests = 2
  MaxWindows = 1
SPECIFICATION Spec
PROPERTY EveryWindowIsFiled
