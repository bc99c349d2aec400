CONSTANTS
  Tenants = {"t1", "t2"}
  Actions <- MCActions
  Codes <- MCCodes
  MaxVersion = 3
  Admins = {ad1, ad2}
  ExplicitVersion = FALSE
  PublishAnyVersion = TRUE
  NoRow = NoRow
SPECIFICATION PVSpec
INVARIANT OnePublishedAfterPublish
