CONSTANTS
  Tenants = {"t1", "t2"}
  Actions <- MCActions
  Codes <- MCCodes
  MaxVersion = 3
  Admins = {ad1, ad2}
  ExplicitVersion = TRUE
  PublishAnyVersion = FALSE
  NoRow = NoRow
SPECIFICATION PVSpec
INVARIANT OnePublishedAfterPublish
