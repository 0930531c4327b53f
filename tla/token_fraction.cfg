SPECIFICATION BucketSpec
CONSTANTS
  Callers = {c1, c2, c3}
  Rate = 1
  Capacity = 4
  Cost = 8
PROPERTY
  SomeoneIsServed
