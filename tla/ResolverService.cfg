SPECIFICATION MCSpec
CONSTANTS
  phone = phone
  q1 = q1
  Queries = {q1, q2}
  Devices = {phone, computer}
  PC = computer
  Domains = {d1}
  Primary = cloudflare
  Fallback = google
  Slots = 1
  MaxFaults = 1
INVARIANTS
  TypeOK
  SlotsKept
  BestAnswer
  CoolingMeansFailing
PROPERTIES
  ServiceJudged
  ServiceKept
