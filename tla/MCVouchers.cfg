SPECIFICATION Spec
CONSTANTS
  Texts <- MCTexts
  Typed = {1250, 30}
  Currencies = {"JPY", "USD", "KWD"}
  Arrivals <- MCArrivals
  MaxEdits = 2
CHECK_DEADLOCK FALSE
INVARIANTS
  PlainTotalWins
  
