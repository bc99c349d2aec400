CONSTANTS
  Tenants = {"t1", "t2"}
  Actions <- MCActions
  Codes <- MCOneCode
  MaxVersion = 3
  Admins = {ad1, ad2}
  ExplicitVersion = TRUE
  PublishAnyVersion = FALSE
  NoRow = NoRow
SPECIFICATION PVSpec
INVARIANT AtMostOnePublished
