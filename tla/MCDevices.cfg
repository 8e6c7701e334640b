SPECIFICATION MCSpec
CONSTANTS
  Wrap = 13
  Period = 4
  OnTime = 3
  CountWrap = 4
  RetryTime = 2
  SetupTime = 7
  SmsTime = 2
  BusTime = 1
  RestTime = 1
  AgeMax = 10
  TwoHands = FALSE
  Reports = {r1, r2}
  MaxSends = 3
  MaxRestarts = 2
  MaxLines = 4
  MaxBacklog = 3
  Passes <- MCPasses
  Messages <- MCMessages
  Asked = {61, 71, 226}
  Reads <- MCReads
  Readings = {0, 2040, 2060, 2100, 4095}
  SAMPLE = 3
  TestTimes = 2
  TakeOver = 2
INVARIANTS ClockFresh LedKeepsTime EachPressOnce LoneReportIsRead MessageIsAsAsked AnswersShowOnePass LengthIsOfItsReadings
SYMMETRY Symmetry
