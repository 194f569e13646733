\* Three processes, one after the other or two at a time, one table.
SPECIFICATION FairSpec
CONSTANTS
  MaxProcesses = 3
  MaxSessions = 2
  Table = {t1}
  NoTable = NoTable
  MaxPeriod = 1
INVARIANTS
  OneBotPerTable
  LivingBotsAreOnRecord
PROPERTIES
  AssignsTables
  DeadBotsAreReleased
