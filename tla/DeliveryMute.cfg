\* A post that fails without a word.
SPECIFICATION LogSpec
CONSTANTS
  Recipients = {m1}
  Types = {"delivered", "bounced"}
INVARIANTS FailedPostIsGap
