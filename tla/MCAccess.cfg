SPECIFICATION Spec
CHECK_DEADLOCK FALSE
CONSTANTS
  Requests <- MCRequests
  Ids <- MCIds
  MaxTime = 1
  MaxExpandDepth = 6
  Scenes <- MCScenes
  Length <- MCLength
  Blank <- MCBlank
  Numeral <- MCNumeral
  Yes <- MCYes
  No <- MCNo
  Container <- MCContainer
  JsonText <- MCJsonText
  Mail <- MCMail
  Link <- MCLink
  Moment <- MCMoment
  Zoned <- MCZoned
  Day <- MCDay
  Stamp <- MCStamp
  Clean <- MCClean
  Shown <- MCShown
  Rank <- MCRank
  Spelling <- MCSpelling
  Lower <- MCLower
  AsciiLower <- MCAsciiLower
  RealText <- MCRealText
INVARIANTS RowsStayWritable VerdictSurvivesStorage FilterAgreesWithRule ExpansionIsExact ReadsAsMeant
PROPERTY OnlyPermittedWrites
