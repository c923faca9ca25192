\* Up to five rows of a point, in a table or an export of one cell every eight units:
\* gap markers half-way between two cells, and series that are reduced.
SPECIFICATION Spec
CONSTANTS
  Minute = 2
  HistoryInterval = 1
  Value = {1, 2, 3}
  Null = Null
  MinSamples = 4
  MaxSamples = 5
  DefaultSamples = 4
  TableSamples = 6
  MaxSpan = 20
  MaxStep = 4
  MaxRows = 21
  From = {4}
  To = {30, 200}
  Asked = {0, 5}
  Step = {4}
  Spacing = {2, 8}
  MaxRecords = 5
INVARIANTS NearestRowShown
