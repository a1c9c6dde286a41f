SPECIFICATION Spec
CONSTANTS
  RetryCount = 2
  MaxWords = 5
INVARIANT CountedWordsInOrder
PROPERTY ActsLikeTransfer
CHECK_DEADLOCK FALSE
