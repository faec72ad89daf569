SPECIFICATION Spec
CONSTANTS
  Messages <- LongDocument
  MaxOrders = 1
INVARIANTS
  FeedsOnlyOnOrder
