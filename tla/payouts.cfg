SPECIFICATION Spec
CONSTANTS
  o1 = o1
  m1 = m1
  w1 = w1
  w2 = w2
  i1 = i1
  i2 = i2
  Sales <- OneSale
  Manual <- OneManual
  Cents <- Prices
  Withdrawals <- TwoWithdrawals
  BankPayouts <- OneByBank
  Amounts <- AskedAmounts
  Invoices <- TwoInvoices
  MinInvoice = 1
CHECK_DEADLOCK FALSE
INVARIANTS
  TypeOK
  ReservedWithinEarned
  TransferIsReserved
  SettlementAddsUp
  CollectedOnce
  PaidInvoiceIsSettled
PROPERTY
  ResolvedStaysResolved
  KeepsAccounts
