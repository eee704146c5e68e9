CONSTANTS
  Request = {r1, r2}
  Sweep = sweep
  Amount = {1, 2}
  InUse <- StepByStep
SPECIFICATION Spec
SYMMETRY RequestSymmetry
INVARIANTS TypeOK NoStageSkipped FundedWentThroughPipeline FundedWithinOffer
