\* Two runs of the script by cron beside the entrypoint's, one kill of the container.
SPECIFICATION LiveSpec
CONSTANTS
  Envs <- MCEnvs
  Dirs <- MCDirs
  ReaderResults <- MCReaderResults
  MaxRuns = 2
  MaxKills = 1
\* Once it serves and the bounds are used up, nothing more need happen.
CHECK_DEADLOCK FALSE
INVARIANT TypeOK
INVARIANT ConfigSound
INVARIANT PoolSound
INVARIANT LookupSound
PROPERTY EditionsSurvive
PROPERTY ValidConfigServes
