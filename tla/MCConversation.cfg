SPECIFICATION Spec
CONSTANTS
  hi = hi
  empty = empty
  noOutput = noOutput
  pic = pic
  c1 = c1
  c2 = c2
  noId = noId
  read = read
  edit = edit
  unknown = unknown
  o = o
  scalar = scalar
  Texts = {hi}
  NoText = empty
  NoOutput = noOutput
  Images = {pic}
  CallIds = {c1, c2}
  NoId = noId
  Names = {read, edit}
  Unknown = unknown
  Objects = {o}
  EmptyObject = o
  Raws = {scalar}
  Replies <- MCReplies
  UserContents <- MCUserContents
  Outputs <- MCOutputs
  OtherReplies <- MCOtherReplies
  Notice <- MCNotice
  MaxLength = 4
  MaxBlocks = 2
INVARIANTS
  TypeOK
  ResultNamesItsCall
  ReplayIsFaithful
  TurnSendsItsText
  DeltasKeepTheirCall
PROPERTIES
  RequestsOnlyGrow
