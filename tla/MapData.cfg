CONSTANTS
  int1 = int1  double1 = double1
  string1 = string1  string1too = string1too
  object1 = object1  object2 = object2
  v1 = v1  v2 = v2  it1 = it1
  Numbers = {int1, double1}
  Strings = {string1, string1too}
  Objects = {}
  Values = {v1, v2}
  IntOf <- MCIntOf
  Content <- MCContent
  Iterators = {it1}
  MinimumMapSize = 2
  MaxCapacity = 4
  MaxIterations = 2
SPECIFICATION Spec
INVARIANTS TablesExact NeverTwice
PROPERTY ImplementsOrderedMap
