SPECIFICATION FairSpec
CONSTANTS
  u1 = u1
  chapa1 = chapa1
  paypal1 = paypal1
  stripe1 = stripe1
  stripe2 = stripe2
  pilot1 = pilot1
  pilot2 = pilot2
  User = {u1}
  Plan = {"family", "school"}
  Payment = {pilot1, pilot2, stripe2}
  Worker = {w1, w2}
  NoPayment = NoPayment
  Forever = Forever
  Owner <- OwnerOf
  Sells <- SellsOf
  Price <- ListedPriceOf
  Provider <- ProviderOf
  Amount = {1, 2}
  Period = 2
  WindowEnd = 1
  MaxNow = 2
  MaxCrash = 2
INVARIANTS PilotAccessEndsWithWindow
PROPERTIES StripePaymentSettles
