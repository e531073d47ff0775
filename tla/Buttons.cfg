SPECIFICATION Spec
CONSTANTS
  Long = 2
  Poll = 5
  MaxFetch = 4
INVARIANTS LongPressAnswered ResetIsDeliberate KeepsPolling
PROPERTIES OneActionPerPress LongMeansLong
