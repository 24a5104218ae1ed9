CONSTANTS
  url = url
  text = text
  empty = empty
  ValidUrls = {url}
  OtherTexts = {text}
  Empty = empty
  MaxSubmissions = 3
  MaxSolved = 3
  MaxTimers = 2
SPECIFICATION FairSpec
INVARIANTS TokenSentOnce UntestedOnlyWhileOut LatestResultShown
PROPERTY SpinnerStops
