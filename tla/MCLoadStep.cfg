SPECIFICATION Spec
CONSTANTS
  PlateauDuration = 20
  MaxGap = 15
  MaxPlateauStd = 2
  MinLoadStep = 15
  MinVoltageStep = 2
  SlopeSeconds = 50
  MinKInverse = 20
  MaxKPer100 = 40
  MaxLoad = 50
  Signals <- MCSignals
INVARIANTS
  FindsTheStepShown
  CadencesAgree
  EstimateWithinOneQuantum
CHECK_DEADLOCK FALSE
