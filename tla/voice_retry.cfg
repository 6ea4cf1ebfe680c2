\* A transcript sent twice, with two bootstraps, one voice request at a time;
\* or the page that starts twice; or two calls through the proxy; or visitors
\* and an account that ask until they are refused.
CONSTANTS
  NoOne = NoOne
  silent = silent
  hi = hi
  coffee = coffee
  sure = sure
  Words = {hi, coffee, sure}
  Opener = hi
  Replies = {}
  Closeouts = {c1, c2, silent}
  Bootstraps = {b1, b2}
  Conversation <- TalkAndSilence
  OneAtATime = TRUE
  Member = FALSE
  MaxStarts = 2
  MaxMessages = 2
  Texts = {hi, sure}
  ProxyCalls = {r1, r2}
  Talks = {s}
  NoTalk = unknown
  Quota = 1
  MaxGeneration = 2
  MaxWindows = 2
  Processes = {p1}
  Visitors = {v1, v2}
  Accounts = {a1}
  Address = network
  OwnerLimit = 1
  AddressLimit = 2
  Window = 2
  Capacities = {0, 2}
  LastTick = 2
  MaxRequests = 5
  MaxOutages = 1
SPECIFICATION PartSpec
INVARIANTS NoLineTwice AgentInv SilencedStaysSilent ProxyInv LimitsInv
PROPERTIES RefusedOnlyWhenFull
