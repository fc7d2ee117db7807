\* A webhook that comes before the rows are committed.
SPECIFICATION LogSpec
CONSTANTS
  Recipients = {m1}
  Types = {"delivered", "bounced"}
INVARIANTS DropsAreHarmless
