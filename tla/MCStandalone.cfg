SPECIFICATION Spec
INVARIANTS
  FramerTypeOK
  FrameAligned
  HeaderRoundTrip
  PutWithinTailroom
  EveryEntryDecodes
  BootRatesSupported
  SharedRegistersKeepRates
  TvPllReprogramSafe
  AudioTypeOK
  ClockFollowsBackends
  CallImpliesClock
  AmpGpioOwnership
  DsiTypeOK
  PllProgramsRequestedRate
  PclkAsReported
