\* A login, a refresh, a link and a reset with two of: a second refresh, a
\* logout, a second link; or registrations and guesses of codes for two
\* addresses; or one browser.
CONSTANTS
  NoOne = NoOne
  Logins = {l1}
  Refreshes = {r1, r2}
  Logouts = {o1}
  Forgots = {f1, f2}
  Resets = {x1}
  f2 = f2
  r2 = r2
  o1 = o1
  anna = anna
  ben = ben
  n1 = n1
  n2 = n2
  s1 = s1
  s2 = s2
  g1 = g1
  g2 = g2
  g3 = g3
  t1 = t1
  c1 = c1
  c2 = c2
  Registers = {n1, n2}
  Resends = {s1, s2}
  Verifies = {g1, g2, g3}
  Casts <- Together
  EmailOf <- About
  Registered <- OldUsers
  Ip = network
  Stores = {"memory", "redis"}
  DailyLimit = 1
  MaxAttempts = 2
  NoCode = NoCode
  Tabs = {t1, t2}
  Calls = {c1, c2}
  TabOf <- OneTab
  MaxTokens = 2
  MaxLosses = 1
SPECIFICATION PartSpec
INVARIANTS AccountInv CodesInv ClientInv
PROPERTIES OnlyGoodRedeemed PasswordFromReset RequestsEnd CodeIsGood
