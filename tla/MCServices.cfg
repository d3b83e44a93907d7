SPECIFICATION ServicesSpec
CONSTANTS
  Claims <- MCClaims
  Shipped <- MCShipped
  Rules <- MCRules
  Doomed <- MCDoomed
  Runs = {r1}
  Instances = {p1, p2}
  MaxKills = 1
  Emails = {a, b}
  Founder = b
  RolesSent = {"owner", "member", "root"}
  InstanceAdmins = {a}
  LinksPerHour = 1
  InviteQuota = 2
  Handlers = {h1, h2}
  MaxRequests = 5
  MaxOrgs = 2
  ApiKeys = {k1, k2}
  Watchlists = {w1, w2, w3}
  Quota <- MCQuota
  Limit = 2
  Workers = {t1, t2}
  MaxMinutes = 2
  MaxCalls = 6
  Pages = {d1, d2}
  Readers = {f1, f2}
  MaxReads = 4
  MaxDeaths = 1
INVARIANTS
  NothingPlausibleWaits StampedMeansHealed LinksWorkOnce LinksAreFew InviteesAreMembers
  SessionsBelong LimitHolds QuotaHolds FiledIsStored TwinsComeFromTwoPages
PROPERTIES InForceAdvances GoneForGood ServedInTheEnd
CHECK_DEADLOCK FALSE
