CONSTANTS
  Threads = {t1, t2}
  Values = {v1}
  Nothing = Nothing
  MaxLength = 1
SPECIFICATION HSpec
PROPERTIES ClearReleases
