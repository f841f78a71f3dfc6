SPECIFICATION Spec
CONSTANTS
  Half = 8
  Numbers <- MCNumbers
  NaN = NaN
  Limits = {1, 2, 3}
  Batch = 2
  MaxDocs = 5
INVARIANTS
  TypeOK
  PageIsBlock
  AddressListed
  WalkSeesAll
