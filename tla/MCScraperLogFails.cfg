SPECIFICATION MCSpec
CONSTANTS
  N = 2
  InitRec = 1
  MinRec = 1
  MaxRec = 1
  MaxRedirects = 0
  Tls = FALSE
  Stdin = FALSE
  LogMayFail = TRUE
INVARIANT ScrapeCompletes
