\* A service whose docker-compose.yml gives APP_URL as a literal.
SPECIFICATION IdentitySpec
CONSTANTS
  Urls = {"url1", "url2"}
  Literal = TRUE
  MaxInstalls = 3
  MaxChangesByUser = 3
INVARIANTS AppliedIssuerIsKept
CHECK_DEADLOCK FALSE
