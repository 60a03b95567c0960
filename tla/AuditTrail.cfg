\* Two pull requests that may be closed, reopened and merged.
SPECIFICATION Spec
CONSTANTS
  Pulls = {p1, p2}
  MaxChanges = 4
SYMMETRY Symmetry
INVARIANTS
  TypeOK
  OneRowPerPull
  RowsTellHistory
  TrailFollowsReview
