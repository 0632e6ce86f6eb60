\* Two overlapping calls, with thread-start failures and teardown.
SPECIFICATION Spec
CONSTANTS
  Works = {w1, w2}
  NoWork = NoWork
INVARIANTS NoUseAfterFree JoinedBeforeDelete NoResultIsLost
PROPERTY ServesRequests
