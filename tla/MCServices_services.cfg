CONSTANTS
  None = None
  Paths = {p1}
  Requests = {q1}
  Drains = {d1, d2}
  Jobs = {j1}
  Kinds = {"write"}
  OutboxFaults = {"die", "throw", "swallow"}
  MaxEdits = 2
  MaxAttempts = 2
  Callers = {c1, c2, c3}
  Instances = {i1, i2}
  Cap = 2
  PermitFaults = {"down", "deaf", "keep", "die"}
  Calls = {k1, k2}
  Tickers = {tk}
  EdgeFaults = {"refuse", "deaf", "die", "nap"}
  Allowances = {None, 1}
  MaxUsage = 5
  MaxTickDeaths = 0
  JobKinds = {"rendition", "extract"}
  Drainers = {g1, g2}
  Batch = 2
  Backoffs = 1
  MaxAsks = 2
  MaxDeaths = 1
  Finishers = {f1, f2}
  Remover = rm
  UploadFaults = {"die", "stuck"}
  Threads = {h1}
  Messages = {u1, u2}
  ChatFaults = {"die", "slow", "db"}
  MonthlyCap = 1
  MaxTurn = 2
  MaxSpent = 5
  Renewers = {w1, w2}
  TokenFaults = {"die", "outage", "revoke"}
  MaxMinted = 3
  ReviewRuns = {r1}
  ReviewTicks = {tick}
  Reviewers = {rv}
  People = {m1}
  MaxReviewAttempts = 2
  ReviewFaults = {"die", "slow", "throw"}
  Admins = {a1, a2}
  CleanTicks = {t1, t2}
SPECIFICATION MCSpec
INVARIANTS ServicesTypeOK WithinCap OnlyLooseJobsRunTwice NothingAskedIsDropped
  OnlyCrossedBreaks OnlyHaltedOwesNothing OvershootBounded
PROPERTIES OneDrainPerAttempt OnlyTheseEndAConnection ListedOnItsReview OnlyOvertakenSavesRevert OnePassPerHour
  ReviewsEnd AtMostCapHeld OnlyOvertakenVerdictsUnmeter ClaimLostToTheLate JobsEnd SleeperNoticed JobSettles ThreadComesFree
CHECK_DEADLOCK FALSE
