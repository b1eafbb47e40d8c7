\* Buffers of two or three bytes at first, up to three lines.
CONSTANTS
  Files <- MCFiles
  InitialAllocs = {2, 3}
SPECIFICATION FairSpec
INVARIANTS
  BuffersHold
  LineWhole
  SectionWhole
  EntriesWhole
PROPERTY Ends
\* The file is read once.
CHECK_DEADLOCK FALSE
