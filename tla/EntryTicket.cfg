CONSTANTS
  RiskPct = 1
  CapPct = 100
  Tickets <- MCTickets
  Accounts <- MCAccounts
  Quotes <- MCQuotes
SPECIFICATION Spec
INVARIANTS GuardrailsAgree SizedFits SplitExact ShownIsEntered OffHoursChosen
