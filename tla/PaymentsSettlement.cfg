SPECIFICATION Spec
CONSTANTS
  u1 = u1
  chapa1 = chapa1
  paypal1 = paypal1
  stripe1 = stripe1
  stripe2 = stripe2
  pilot1 = pilot1
  pilot2 = pilot2
  User = {u1}
  Plan = {"family", "school"}
  Payment = {chapa1, stripe1, paypal1}
  Worker = {w1, w2}
  NoPayment = NoPayment
  Forever = Forever
  Owner <- OwnerOf
  Sells <- SellsOf
  Price <- PriceOf
  Provider <- ProviderOf
  Amount = {1, 2}
  Period = 2
  WindowEnd = 0
  MaxNow = 0
  MaxCrash = 1
INVARIANTS GrantsAreSound SucceededIsBeingGranted PayableOrderIsBound
PROPERTIES SucceededIsFinal ImplementsEntitlement
