SPECIFICATION ChatSpec
CONSTANTS
  Chars <- MCChars
  Texts <- MCTexts
  Exchanges <- MCExchanges
  Sizes = {1, 6, 11}
  Addresses = {"@1", "@2"}
  Link = "www"
  Threshold = 3
INVARIANT
  AnonymizeIsReversible
CHECK_DEADLOCK FALSE
