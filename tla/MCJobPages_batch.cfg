\* Over the in-memory store: a batch that is refused half way.
CONSTANTS
  Page = {1, 2}
  Candidate = {good}
  Vetoed = {}
  None = None
  Reviewer = {r1}
  Stores = {"memory"}
  MaxAttempt = 2
  MaxCrash = 0
SPECIFICATION Spec
PROPERTY BatchIsAtomic
