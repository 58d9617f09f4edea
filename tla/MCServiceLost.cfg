\* As MCService.cfg, for a claim of download-dbip.sh.
SPECIFICATION LiveSpec
CONSTANTS
  Envs <- MCEnvs
  Dirs <- MCDirs
  ReaderResults <- MCReaderResults
  MaxRuns = 2
  MaxKills = 2
\* Once it serves and the bounds are used up, nothing more need happen.
CHECK_DEADLOCK FALSE
PROPERTY DatabasesSurvive
