SPECIFICATION MCFairSpec
CONSTANTS
  N = 4
  InitRec = 2
  MinRec = 1
  MaxRec = 2
  MaxRedirects = 1
  Tls = FALSE
  Stdin = FALSE
  LogMayFail = FALSE
INVARIANTS TypeOK CounterExact ConcurrencyBound WorkConserving ScrapeCompletes ExactlyOnce Accounting ErrorsReported
PROPERTIES ImplementsCrawl StallsCostOneCoroutine
