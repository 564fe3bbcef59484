\* An invoice is issued from a stale check after it was cancelled.
SPECIFICATION Spec
CONSTANTS
  c1 = c1
  c2 = c2
  firm = firm
  o1 = o1
  o2 = o2
  p1 = p1
  None = None
  Contracts = {c1}
  Clients = {firm}
  Client <- MCClient
  DueDays <- MCDueDays
  Orders = {}
  Payments = {}
  Amount <- MCAmount
  Periods <- OnePeriod
  Numbers = {}
  Requests = {r1, r2}
  MaxInvoices = 2
  LastEntry = 2
  MaxDay = 1
INVARIANTS
  OneInvoicePerPeriod
