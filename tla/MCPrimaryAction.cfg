SPECIFICATION Spec
CONSTANT PotButtons = {{},
  {"betpot_2_1", "betpot_1_1", "betpot_3_4", "betpot_2_3", "betpot_1_2",
   "betpot_1_3", "betpot_1_4"}}
CHECK_DEADLOCK FALSE
INVARIANT NeverMoreThanDecided
INVARIANT ActsInTime
INVARIANT NeverFoldsForFree
INVARIANT RaisesAreBacked
