SPECIFICATION FairSpec
CONSTANTS
  Messages <- Orders
  MaxOrders = 3
INVARIANTS
  TypeOK
  OrdersOnce
PROPERTIES
  ImplementsBook
  OrdersCarriedOut
  ListensAgain
