SPECIFICATION Spec
CONSTANTS
  o1 = o1
  m1 = m1
  w1 = w1
  w2 = w2
  i1 = i1
  i2 = i2
  Sales <- OneSale
  Manual <- OneManual
  Cents <- Prices
  Withdrawals <- TwoWithdrawals
  BankPayouts <- OneByBank
  Amounts <- AskedAmounts
  Invoices <- OneInvoice
  MinInvoice = 1
CHECK_DEADLOCK FALSE
PROPERTY
  DebitWithinBalance
