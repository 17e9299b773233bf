SPECIFICATION RelSpec
CONSTANTS
  NNames = 2
  NSlugs = 2
  Slugify <- MCSlugify
  Emoji = {}
  Versions = {1}
  RelClients = {c1}
  Handlers = {h1}
  MaxId = 2
  MaxRequests = 3
  MaxEdits = 0
  MaxRestarts = 0

INVARIANT WritesOwnFileOnly
CHECK_DEADLOCK FALSE
