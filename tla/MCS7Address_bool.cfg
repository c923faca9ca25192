\* Every address with the numbers 0, 2, 8 and one that strconv.Atoi refuses.
SPECIFICATION Spec
CONSTANTS
  Number = {0, 2, 8, 100}
  MaxInt = 99
INVARIANT NoPanic
