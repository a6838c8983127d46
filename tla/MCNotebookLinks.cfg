SPECIFICATION Spec
CONSTANTS
  b1 = b1
  b2 = b2
  b3 = b3
  c1 = c1
  c2 = c2
  w1 = w1
  w2 = w2
  Ids <- MCTwoIds
  Contents <- MCOneContent
  Blank = Blank
  Writers <- MCTwoWriters
  NoId = NoId
  MaxRevision = 2
PROPERTY
  LinkWasRead
