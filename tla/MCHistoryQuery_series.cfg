\* Up to five rows of a point stored every minute, two units apart or, over a
\* gap, eight; series of up to nine samples with their gap markers, reduced to four.
SPECIFICATION Spec
CONSTANTS
  Minute = 2
  HistoryInterval = 1
  Value = {1, 2, 3}
  Null = Null
  MinSamples = 4
  MaxSamples = 5
  DefaultSamples = 4
  TableSamples = 6
  MaxSpan = 20
  MaxStep = 4
  MaxRows = 21
  From = {4}
  To = {30, 200}
  Asked = {0, 5}
  Step = {4}
  Spacing = {2, 8}
  MaxRecords = 5
INVARIANTS TypeOK ReplyBounded NoLineAcrossGap NoLineAcrossBad StartKept ExtremesKept CellIsExplained
