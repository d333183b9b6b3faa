\* A retry of one page after an unfinished (failed or cancelled) attempt on both.
CONSTANTS
  Page = {1, 2}
  Candidate = {good}
  Vetoed = {}
  None = None
  Reviewer = {r1}
  Stores = {"sqlite"}
  MaxAttempt = 2
  MaxCrash = 0
SPECIFICATION Spec
INVARIANT ReviewReady
