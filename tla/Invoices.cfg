\* Two requests, the overdue job and the calendar on the invoices of one contract.
SPECIFICATION FairSpec
CONSTANTS
  c1 = c1
  c2 = c2
  firm = firm
  o1 = o1
  o2 = o2
  p1 = p1
  None = None
  Contracts = {c1}
  Clients = {firm}
  Client <- MCClient
  DueDays <- MCDueDays
  Orders = {o1}
  Payments = {p1}
  Amount <- MCAmount
  Periods <- OnePeriod
  Numbers = {n1}
  Requests = {r1, r2}
  MaxInvoices = 2
  LastEntry = 2
  MaxDay = 3
INVARIANTS
  ClaimsWereIssued
  NumberStaysFree
  ActsAddUp
PROPERTIES
  OverdueIsNoticed
