SPECIFICATION Spec
CONSTANTS
  c1 = c1
  c2 = c2
  d1 = d1
  d2 = d2
  e1 = e1
  e2 = e2
  s1 = s1
  s2 = s2
  news = news
  edgar = edgar
  ibm = ibm
  sap = sap
  kuka = kuka
  Workers = {w1}
  Copies = {c1, c2, d1, d2}
  Deliveries = {d1}
  Events = {e1, e2}
  EventOf <- MCEventOf
  Strategies = {s1, s2}
  Sources = {news, edgar}
  Tickers = {ibm, sap, kuka}
  Article <- MCArticle
  Wants <- MCWants
  Score <- MCScore
  Threshold <- MCThreshold
  Limit = 1
  Stored = {c2}
  MaxCrashes = 0
  None = None
CHECK_DEADLOCK FALSE
PROPERTY AllActiveEvaluated
