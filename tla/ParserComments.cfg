SPECIFICATION CommentedSpec
CONSTANTS
  Names = {n1}
  MaxDepth = 3
INVARIANTS CommentsKept
CHECK_DEADLOCK FALSE
